------------------------ MODULE NetConnectionSend_proofs ------------------------
(***************************************************************************)
(* Proofs about the send path of NetConnection, for every number of        *)
(* threads, calls, messages and buffer sizes: the types, the hand-over     *)
(* between senders and completions; that the data accepted is delivered    *)
(* in order, without loss or duplication, as long as the socket is open    *)
(* and the application does not mix in blocking sends, which is the stream *)
(* of SendStream; that the end is reported once; that copies stay inside   *)
(* the buffers; and that no message is cut by another.                     *)
(***************************************************************************)
EXTENDS NetConnectionSend, SequenceTheorems, TLAPS

-----------------------------------------------------------------------------
(* The buffer lengths stay natural numbers when a buffer is grown for a    *)
(* call that fits, and when the buffers change places.                     *)
LEMMA ReserveType ==
  ASSUME NEW b \in BufferState, NEW need \in Nat \ {0}, need <= MaxSendBufSize
  PROVE  Reserve(b, need) \in BufferState
<1>1. \E c \in Capacities : IsCapacityFor(c, need)
  BY BufferAssumption
<1>2. GrownTo(need) \in Nat
  BY <1>1, BufferAssumption DEF GrownTo
<1>3. QED
  BY <1>2 DEF Reserve, BufferState

LEMMA SwappedType ==
  ASSUME NEW b \in BufferState, NEW n \in Nat
  PROVE  Swapped(b, n) \in BufferState
<1>1. Averaged(b.ave, n) \in Nat
  BY DEF Averaged, BufferState
<1>2. \A c \in BufferState : Trimmed(c) \in BufferState
  BY DEF Trimmed, BufferState
<1>3. [waitingLen |-> b.sendLen, sendLen |-> b.waitingLen, ave |-> Averaged(b.ave, n)]
        \in BufferState
  BY <1>1 DEF BufferState
<1>4. QED
  BY <1>2, <1>3 DEF Swapped

(* What doSendData leaves behind has the right types. *)
LEMMA DoSendDataType ==
  ASSUME TypeOK,
         NEW data \in Seq(Cells), NEW b \in BufferState, NEW queue \in Seq(Handlers),
         DoSendData(data, b, queue)
  PROVE  /\ waiting' = << >>
         /\ sending' \in BOOLEAN
         /\ buf' \in BufferState
         /\ writes' \in Seq(Seq(Cells))
         /\ posted' \in Seq(Handlers)
<1>1. Len(data) \in Nat
  BY LenProperties
<1>2. Swapped(b, Len(data)) \in BufferState
  BY <1>1, SwappedType
<1>3. Append(queue, "sendErr") \in Seq(Handlers)
  BY AppendProperties DEF Handlers
<1>4. Append(writes, data) \in Seq(Seq(Cells))
  BY AppendProperties DEF TypeOK
<1>5. QED
  BY <1>2, <1>3, <1>4 DEF DoSendData, TypeOK

(* TypeOK with the fact it needs to be inductive: the waiting data is      *)
(* never longer than what was logged.                                      *)
TypeInv == TypeOK /\ Len(waiting) <= Len(log)

LEMMA SendDataAsyncType ==
  ASSUME TypeInv,
         NEW data \in Seq(Cells), data # << >>, NEW queue \in Seq(Handlers),
         SendDataAsync(data, queue)
  PROVE  /\ waiting' \in Seq(Cells)
         /\ sending' \in BOOLEAN
         /\ buf' \in BufferState
         /\ writes' \in Seq(Seq(Cells))
         /\ posted' \in Seq(Handlers)
         /\ log' \in Seq(Cells)
         /\ cutAt' \in Nat \cup {-1}
         /\ Len(waiting') <= Len(log')
<1>0. /\ Len(data) \in Nat \ {0}
      /\ Len(waiting) \in Nat
      /\ Len(log) \in Nat
      /\ waiting \in Seq(Cells) /\ log \in Seq(Cells)
  BY EmptySeq, LenProperties DEF TypeInv, TypeOK
<1>1. CASE Overflows(data)
  <2>1. SubSeq(log, 1, Len(log) - Len(waiting)) \in Seq(Cells)
    <3>1. \A i \in 1 .. (Len(log) - Len(waiting)) : log[i] \in Cells
      BY <1>0, ElementOfSeq
    <3>2. QED
      BY <1>0, <3>1, SubSeqProperties
  <2>2. Append(queue, "connErr") \in Seq(Handlers)
    BY AppendProperties DEF Handlers
  <2>3. DropWaiting(queue)
    BY <1>1 DEF SendDataAsync
  <2>4. Len(waiting') = 0 /\ waiting' \in Seq(Cells) /\ Len(log') \in Nat
    BY <2>1, <2>3, EmptySeq, LenProperties DEF DropWaiting
  <2>5. QED
    BY <1>0, <2>1, <2>2, <2>3, <2>4 DEF DropWaiting, TypeInv, TypeOK
<1>2. CASE ~Overflows(data)
  <2> DEFINE b == Reserve(buf, Len(data) + Len(waiting))
  <2>1. AcceptData(data, queue)
    BY <1>2 DEF SendDataAsync
  <2>2. b \in BufferState
    <3>1. /\ Len(data) + Len(waiting) \in Nat \ {0}
          /\ Len(data) + Len(waiting) <= MaxSendBufSize
      BY <1>0, <1>2, BufferAssumption DEF Overflows
    <3>2. buf \in BufferState
      BY DEF TypeInv, TypeOK
    <3>3. QED
      BY <3>1, <3>2, ReserveType
  <2>3. /\ waiting \o data \in Seq(Cells)
        /\ log \o data \in Seq(Cells)
        /\ Len(waiting \o data) = Len(waiting) + Len(data)
        /\ Len(log \o data) = Len(log) + Len(data)
    BY <1>0, ConcatProperties
  <2>4. log' = log \o data /\ cutAt' = cutAt
    BY <2>1 DEF AcceptData
  <2>5. CASE sending
    <3>1. /\ waiting' = waiting \o data /\ buf' = b /\ posted' = queue
          /\ sending' = sending /\ writes' = writes
      BY <2>1, <2>5 DEF AcceptData
    <3>2. Len(waiting') <= Len(log')
      BY <1>0, <2>3, <2>4, <3>1 DEF TypeInv
    <3>3. QED
      <4> HIDE DEF b
      <4> QED BY <2>2, <2>3, <2>4, <3>1, <3>2 DEF TypeInv, TypeOK
  <2>6. CASE ~sending
    <3>1. DoSendData(waiting \o data, b, queue)
      BY <2>1, <2>6 DEF AcceptData
    <3>2. /\ waiting' = << >>
          /\ sending' \in BOOLEAN
          /\ buf' \in BufferState
          /\ writes' \in Seq(Seq(Cells))
          /\ posted' \in Seq(Handlers)
      <4> HIDE DEF b
      <4> QED BY <2>2, <2>3, <3>1, DoSendDataType DEF TypeInv
    <3>3. Len(waiting') = 0 /\ waiting' \in Seq(Cells)
      BY <3>2, EmptySeq
    <3>4. QED
      BY <1>0, <2>3, <2>4, <3>2, <3>3 DEF TypeInv, TypeOK
  <2>7. QED
    BY <2>5, <2>6
<1>3. QED
  BY <1>1, <1>2

LEMMA MessageType ==
  ASSUME TypeOK, NEW s \in Sources, NEW n \in Nat \ {0}
  PROVE  Message(s, n) \in Seq(Cells) /\ Message(s, n) # << >>
<1>1. \A i \in 1..n : <<s, calls[s], i, n>> \in Cells
  BY DEF Cells, TypeOK
<1>2. Message(s, n) \in [1..n -> Cells]
  BY <1>1 DEF Message
<1>3. Message(s, n) \in Seq(Cells)
  BY <1>2, SeqDef
<1>4. DOMAIN Message(s, n) = 1..n /\ 1 \in 1..n
  BY DEF Message
<1>5. DOMAIN << >> = {}
  OBVIOUS
<1>6. QED
  BY <1>3, <1>4, <1>5

(* The queue of the strand takes handlers at its end and gives its first. *)
LEMMA PostedType ==
  ASSUME NEW queue \in Seq(Handlers)
  PROVE  /\ \A h \in Handlers : Append(queue, h) \in Seq(Handlers)
         /\ queue # << >> => Tail(queue) \in Seq(Handlers)
BY AppendProperties, HeadTailProperties

-----------------------------------------------------------------------------
(* Every step of every actor preserves the types. *)
LEMMA TypeInvInit == Init => TypeInv
<1> SUFFICES ASSUME Init PROVE TypeInv
  OBVIOUS
<1>1. /\ << >> \in Seq(Cells) /\ << >> \in Seq(Seq(Cells)) /\ << >> \in Seq(Handlers)
      /\ Len(<< >>) = 0
  BY EmptySeq
<1>2. EmptyBuffers \in BufferState
  BY DEF EmptyBuffers, BufferState
<1>3. /\ calls \in [Sources -> Nat]
      /\ used \in [{"timeouts", "closes"} -> Nat]
      /\ pc \in [Senders -> {"idle", "checked", "writing"}]
  BY DEF Init
<1>4. left \in [Senders -> Seq(Cells)]
  BY <1>1 DEF Init
<1>5. Len(waiting) <= Len(log)
  BY <1>1 DEF Init
<1>6. /\ waiting \in Seq(Cells) /\ received \in Seq(Cells) /\ log \in Seq(Cells)
      /\ writes \in Seq(Seq(Cells)) /\ posted \in Seq(Handlers)
  BY <1>1 DEF Init
<1>7. QED
  BY <1>2, <1>3, <1>4, <1>5, <1>6 DEF Init, TypeInv, TypeOK

LEMMA ThreadType ==
  ASSUME TypeInv, NEW s \in Senders, Thread(s)
  PROVE  TypeInv'
<1> USE DEF TypeInv, connVars, strandVars, netVars, threadVars, history
<1>1. CASE Check(s)
  BY <1>1 DEF Check, TypeOK, Sources
<1>2. CASE AsyncSend(s)
  <2>1. PICK n \in Lens : SendDataAsync(Message(s, n), posted)
    BY <1>2 DEF AsyncSend
  <2>2. Message(s, n) \in Seq(Cells) /\ Message(s, n) # << >>
    BY MessageType, SendAssumption DEF Sources
  <2>3. posted \in Seq(Handlers)
    BY DEF TypeOK
  <2>4. /\ waiting' \in Seq(Cells)
        /\ sending' \in BOOLEAN
        /\ buf' \in BufferState
        /\ writes' \in Seq(Seq(Cells))
        /\ posted' \in Seq(Handlers)
        /\ log' \in Seq(Cells)
        /\ cutAt' \in Nat \cup {-1}
        /\ Len(waiting') <= Len(log')
    BY <2>1, <2>2, <2>3, SendDataAsyncType
  <2>5. QED
    BY <1>2, <2>4 DEF AsyncSend, TypeOK
<1>3. CASE SyncBegin(s)
  <2>1. PICK n \in Lens : /\ left' = [left EXCEPT ![s] = Message(s, n)]
                          /\ log' = log \o Message(s, n)
    BY <1>3 DEF SyncBegin
  <2>2. Message(s, n) \in Seq(Cells)
    BY MessageType, SendAssumption DEF Sources
  <2>3. log' \in Seq(Cells) /\ Len(log') = Len(log) + Len(Message(s, n))
    BY <2>1, <2>2, ConcatProperties DEF TypeOK
  <2>4. left' \in [Senders -> Seq(Cells)]
    BY <2>1, <2>2 DEF TypeOK
  <2>5. Len(waiting) <= Len(log')
    BY <2>2, <2>3, LenProperties DEF TypeOK
  <2>6. QED
    BY <1>3, <2>3, <2>4, <2>5 DEF SyncBegin, TypeOK
<1>4. CASE SyncReturn(s)
  BY <1>4 DEF SyncReturn, TypeOK
<1>5. CASE SyncThrow(s)
  <2>1. << >> \in Seq(Cells) /\ posted' \in Seq(Handlers)
    BY <1>5, EmptySeq, PostedType DEF SyncThrow, TypeOK, Handlers
  <2>2. QED
    BY <1>5, <2>1 DEF SyncThrow, TypeOK
<1>6. QED
  BY <1>1, <1>2, <1>3, <1>4, <1>5 DEF Thread

LEMMA StrandType ==
  ASSUME TypeInv, StrandRuns
  PROVE  TypeInv'
<1> USE DEF TypeInv, connVars, strandVars, netVars, threadVars, history
<1>0. /\ posted # << >> => Tail(posted) \in Seq(Handlers)
      /\ \A h \in Handlers : Append(posted, h) \in Seq(Handlers)
      /\ << >> \in Seq(Cells) /\ << >> \in Seq(Seq(Cells)) /\ Len(<< >>) = 0
      /\ Len(log) \in Nat
  BY PostedType, EmptySeq, LenProperties DEF TypeOK
<1>1. CASE HandleSendData
  <2>1. DoSendData(waiting, buf, Tail(posted)) /\ posted # << >>
    BY <1>1 DEF HandleSendData, Runs
  <2>2. /\ waiting' = << >>
        /\ sending' \in BOOLEAN
        /\ buf' \in BufferState
        /\ writes' \in Seq(Seq(Cells))
        /\ posted' \in Seq(Handlers)
    BY <1>0, <2>1, DoSendDataType DEF TypeOK
  <2>3. QED
    BY <1>0, <1>1, <2>2 DEF HandleSendData, TypeOK
<1>2. CASE HandleConnectionError
  BY <1>0, <1>2 DEF HandleConnectionError, Runs, TypeOK
<1>3. CASE HandleClose
  BY <1>0, <1>3 DEF HandleClose, Runs, TypeOK
<1>4. CASE CloseSocket
  <2> DEFINE aborted == [i \in 1..Len(writes) |-> "sendErr"]
             failed == IF reading THEN <<"recvErr">> ELSE << >>
  <2>1. Len(writes) \in Nat
    BY LenProperties DEF TypeOK
  <2>2. aborted \in Seq(Handlers)
    <3>1. aborted \in [1..Len(writes) -> Handlers]
      BY DEF Handlers
    <3>2. QED
      BY <2>1, <3>1, SeqDef
  <2>3. failed \in Seq(Handlers)
    <3>1. << >> \in Seq(Handlers)
      BY EmptySeq
    <3>2. <<"recvErr">> \in Seq(Handlers)
      BY DEF Handlers
    <3>3. QED
      BY <3>1, <3>2
  <2>4. (posted \o aborted) \o failed \in Seq(Handlers)
    <3> HIDE DEF aborted, failed
    <3> QED BY <2>2, <2>3, ConcatProperties DEF TypeOK
  <2>5. posted' \in Seq(Handlers)
    BY <1>4, <2>4 DEF CloseSocket
  <2>6. QED
    BY <1>0, <1>4, <2>5 DEF CloseSocket, TypeOK
<1>5. CASE ClearBuffer
  <2>1. doing' \in {"idle", "closing", "clearing", "reporting"}
    BY <1>5 DEF ClearBuffer
  <2>2. waiting' \in Seq(Cells) /\ Len(waiting') = 0
    BY <1>0, <1>5 DEF ClearBuffer
  <2>3. Len(waiting') <= Len(log')
    BY <1>0, <1>5, <2>2 DEF ClearBuffer
  <2>4. sending' \in BOOLEAN
    BY <1>5 DEF ClearBuffer
  <2>5. UNCHANGED <<connected, buf, posted, active, netVars, threadVars, calls, used, history,
                    reported>>
    BY <1>5 DEF ClearBuffer
  <2>6. TypeOK'
    BY <2>1, <2>2, <2>4, <2>5 DEF TypeOK
  <2>7. QED
    BY <2>3, <2>6
<1>6. CASE Report
  <2>1. posted' \in Seq(Handlers)
    BY <1>0, <1>6 DEF Report, Handlers
  <2>2. QED
    BY <1>6, <2>1 DEF Report, TypeOK
<1>7. CASE HandleKeepAlive
  <2>1. CASE connected
    <3>1. Message(Strand, KeepAliveLen) \in Seq(Cells) /\ Message(Strand, KeepAliveLen) # << >>
      BY MessageType, SendAssumption DEF Sources
    <3>2. SendDataAsync(Message(Strand, KeepAliveLen), Tail(posted)) /\ posted # << >>
      BY <1>7, <2>1 DEF HandleKeepAlive, Runs
    <3>3. /\ waiting' \in Seq(Cells)
          /\ sending' \in BOOLEAN
          /\ buf' \in BufferState
          /\ writes' \in Seq(Seq(Cells))
          /\ posted' \in Seq(Handlers)
          /\ log' \in Seq(Cells)
          /\ cutAt' \in Nat \cup {-1}
          /\ Len(waiting') <= Len(log')
      BY <1>0, <3>1, <3>2, SendDataAsyncType
    <3>4. QED
      BY <1>7, <3>3 DEF HandleKeepAlive, TypeOK
  <2>2. CASE ~connected
    BY <1>0, <1>7, <2>2 DEF HandleKeepAlive, Runs, TypeOK
  <2>3. QED
    BY <2>1, <2>2
<1>8. QED
  BY <1>1, <1>2, <1>3, <1>4, <1>5, <1>6, <1>7 DEF StrandRuns

LEMMA SocketType ==
  ASSUME TypeInv, Take \/ Completion \/ Break
  PROVE  TypeInv'
<1> USE DEF TypeInv, connVars, strandVars, netVars, threadVars, history
<1>0. \A h \in Handlers : Append(posted, h) \in Seq(Handlers)
  BY PostedType DEF TypeOK
<1>1. ASSUME NEW i \in DOMAIN writes, TakeAsync(i)
      PROVE  TypeInv'
  <2>0. i \in 1..Len(writes)
    BY LenProperties DEF TypeOK
  <2>1. writes[i] \in Seq(Cells) /\ writes[i] # << >>
    BY <1>1, <2>0, ElementOfSeq DEF TakeAsync, TypeOK
  <2>2. Head(writes[i]) \in Cells /\ Tail(writes[i]) \in Seq(Cells)
    BY <2>1, HeadTailProperties
  <2>3. writes' \in Seq(Seq(Cells))
    BY <1>1, <2>0, <2>2, ExceptSeq DEF TakeAsync, TypeOK
  <2>4. received' \in Seq(Cells)
    BY <1>1, <2>2, AppendProperties DEF TakeAsync, TypeOK
  <2>5. QED
    BY <1>1, <2>3, <2>4 DEF TakeAsync, TypeOK
<1>2. ASSUME NEW s \in Senders, TakeSync(s)
      PROVE  TypeInv'
  <2>1. left[s] \in Seq(Cells) /\ left[s] # << >>
    BY <1>2 DEF TakeSync, TypeOK
  <2>2. Head(left[s]) \in Cells /\ Tail(left[s]) \in Seq(Cells)
    BY <2>1, HeadTailProperties
  <2>3. received' \in Seq(Cells)
    BY <1>2, <2>2, AppendProperties DEF TakeSync, TypeOK
  <2>4. QED
    BY <1>2, <2>2, <2>3 DEF TakeSync, TypeOK
<1>3. ASSUME NEW i \in DOMAIN writes, Complete(i)
      PROVE  TypeInv'
  <2>0. i \in 1..Len(writes) /\ Len(writes) \in Nat
    BY LenProperties DEF TypeOK
  <2>1. /\ \A j \in 1 .. (i-1) : writes[j] \in Seq(Cells)
        /\ \A j \in (i+1) .. Len(writes) : writes[j] \in Seq(Cells)
    BY <2>0, ElementOfSeq DEF TypeOK
  <2>2. /\ SubSeq(writes, 1, i-1) \in Seq(Seq(Cells))
        /\ SubSeq(writes, i+1, Len(writes)) \in Seq(Seq(Cells))
    BY <2>0, <2>1, SubSeqProperties
  <2>3. writes' \in Seq(Seq(Cells))
    BY <1>3, <2>2, ConcatProperties DEF Complete, RemoveAt
  <2>4. posted' \in Seq(Handlers)
    BY <1>0, <1>3 DEF Complete, Handlers
  <2>5. QED
    BY <1>3, <2>3, <2>4 DEF Complete, TypeOK
<1>4. CASE ReadFails
  <2>1. posted' \in Seq(Handlers)
    BY <1>0, <1>4 DEF ReadFails, Handlers
  <2>2. QED
    BY <1>4, <2>1 DEF ReadFails, TypeOK
<1>5. CASE Break
  BY <1>5 DEF Break, TypeOK
<1>6. QED
  BY <1>1, <1>2, <1>3, <1>4, <1>5 DEF Take, Completion

LEMMA EventType ==
  ASSUME TypeInv, Close \/ TimeoutTimer \/ KeepAliveTimer
  PROVE  TypeInv'
<1> USE DEF TypeInv, connVars, strandVars, netVars, threadVars, history
<1>0. \A h \in Handlers : Append(posted, h) \in Seq(Handlers)
  BY PostedType DEF TypeOK
<1>1. CASE Close
  BY <1>0, <1>1 DEF Close, TypeOK, Handlers
<1>2. CASE TimeoutTimer
  BY <1>0, <1>2 DEF TimeoutTimer, TypeOK, Handlers
<1>3. CASE KeepAliveTimer
  BY <1>0, <1>3 DEF KeepAliveTimer, TypeOK, Handlers, Sources
<1>4. QED
  BY <1>1, <1>2, <1>3

LEMMA TypeInvStep == TypeInv /\ [Next]_vars => TypeInv'
<1> SUFFICES ASSUME TypeInv, [Next]_vars PROVE TypeInv'
  OBVIOUS
<1>1. CASE \E s \in Senders : Thread(s)
  BY <1>1, ThreadType
<1>2. CASE StrandRuns
  BY <1>2, StrandType
<1>3. CASE Take \/ Completion \/ Break
  BY <1>3, SocketType
<1>4. CASE Close \/ TimeoutTimer \/ KeepAliveTimer
  BY <1>4, EventType
<1>5. CASE UNCHANGED vars
  BY <1>5 DEF TypeInv, TypeOK, vars, connVars, strandVars, netVars, threadVars, history
<1>6. CASE Terminated
  BY <1>5, <1>6 DEF Terminated
<1>7. QED
  BY <1>1, <1>2, <1>3, <1>4, <1>5, <1>6 DEF Next

(* Type correctness of the send path, for every instance. *)
THEOREM TypeCorrect == Spec => []TypeOK
<1>1. TypeInv => TypeOK
  BY DEF TypeInv
<1>2. QED
  BY TypeInvInit, TypeInvStep, <1>1, PTL DEF Spec

-----------------------------------------------------------------------------
(***************************************************************************)
(* The stream.  At most one write or completion is "the token" that        *)
(* m_bSending stands for; the lemmas say how posting, running and          *)
(* completing handlers move it.                                            *)
(***************************************************************************)
IsCompletion(h) == h \in {"sent", "sendErr"}

CompletionsOf(queue) == {i \in DOMAIN queue : queue[i] \in {"sent", "sendErr"}}

Token(ws, queue, flag) ==
  /\ Len(ws) <= 1
  /\ \A i, j \in CompletionsOf(queue) : i = j
  /\ ws # << >> => CompletionsOf(queue) = {}
  /\ flag <=> ws # << >> \/ CompletionsOf(queue) # {}

LEMMA TokenIsWriteToken == WriteToken <=> (connected => Token(writes, posted, sending))
BY DEF WriteToken, Token, Completions, CompletionsOf

LEMMA CompletionsAppend ==
  ASSUME NEW queue \in Seq(Handlers), NEW h \in Handlers
  PROVE  CompletionsOf(Append(queue, h)) =
           IF IsCompletion(h) THEN CompletionsOf(queue) \cup {Len(queue) + 1}
                              ELSE CompletionsOf(queue)
<1>1. /\ Append(queue, h) \in Seq(Handlers)
      /\ Len(Append(queue, h)) = Len(queue) + 1
      /\ \A i \in 1..Len(queue) : Append(queue, h)[i] = queue[i]
      /\ Append(queue, h)[Len(queue) + 1] = h
  BY AppendProperties
<1>2. /\ DOMAIN Append(queue, h) = 1..(Len(queue) + 1)
      /\ DOMAIN queue = 1..Len(queue)
      /\ Len(queue) \in Nat
  BY <1>1, LenProperties
<1>3. \A i : i \in CompletionsOf(Append(queue, h)) <=>
               \/ i \in CompletionsOf(queue)
               \/ i = Len(queue) + 1 /\ IsCompletion(h)
  BY <1>1, <1>2 DEF CompletionsOf, IsCompletion
<1>4. CASE IsCompletion(h)
  BY <1>3, <1>4
<1>5. CASE ~IsCompletion(h)
  BY <1>3, <1>5
<1>6. QED
  BY <1>4, <1>5

LEMMA CompletionsTail ==
  ASSUME NEW queue \in Seq(Handlers), queue # << >>
  PROVE  /\ 1 \in CompletionsOf(queue) <=> IsCompletion(Head(queue))
         /\ \A i \in CompletionsOf(Tail(queue)) : i \in Nat \ {0} /\ i + 1 \in CompletionsOf(queue)
         /\ \A i \in CompletionsOf(queue) : i # 1 => i - 1 \in CompletionsOf(Tail(queue))
<1>1. /\ Tail(queue) \in Seq(Handlers)
      /\ Len(Tail(queue)) = Len(queue) - 1
      /\ \A i \in 1 .. Len(Tail(queue)) : Tail(queue)[i] = queue[i+1]
  BY HeadTailProperties
<1>2. /\ DOMAIN Tail(queue) = 1..(Len(queue) - 1)
      /\ DOMAIN queue = 1..Len(queue)
      /\ Len(queue) \in Nat \ {0}
  BY <1>1, EmptySeq, LenProperties
<1>3. Head(queue) = queue[1]
  BY <1>2
<1>4. QED
  BY <1>1, <1>2, <1>3 DEF CompletionsOf, IsCompletion

(* Posting something else, or running it, leaves the token where it is. *)
LEMMA TokenPostOther ==
  ASSUME NEW ws, NEW flag, NEW queue \in Seq(Handlers), NEW h \in Handlers,
         ~IsCompletion(h), Token(ws, queue, flag)
  PROVE  Token(ws, Append(queue, h), flag)
<1>1. CompletionsOf(Append(queue, h)) = CompletionsOf(queue)
  BY CompletionsAppend
<1>2. QED
  BY <1>1 DEF Token

LEMMA TokenRunOther ==
  ASSUME NEW ws, NEW flag, NEW queue \in Seq(Handlers), queue # << >>,
         ~IsCompletion(Head(queue)), Token(ws, queue, flag)
  PROVE  Token(ws, Tail(queue), flag)
<1>1. CompletionsOf(queue) = {} <=> CompletionsOf(Tail(queue)) = {}
  BY CompletionsTail
<1>2. ASSUME NEW i \in CompletionsOf(Tail(queue)), NEW j \in CompletionsOf(Tail(queue))
      PROVE  i = j
  <2>1. i + 1 \in CompletionsOf(queue) /\ j + 1 \in CompletionsOf(queue) /\ i \in Nat /\ j \in Nat
    BY CompletionsTail
  <2>2. i + 1 = j + 1
    BY <2>1 DEF Token
  <2>3. QED
    BY <2>1, <2>2
<1>3. QED
  BY <1>1, <1>2 DEF Token

(* The strand takes the token when it runs a completion. *)
LEMMA TokenRunCompletion ==
  ASSUME NEW ws, NEW flag, NEW queue \in Seq(Handlers), queue # << >>,
         IsCompletion(Head(queue)), Token(ws, queue, flag)
  PROVE  ws = << >> /\ CompletionsOf(Tail(queue)) = {}
<1>1. 1 \in CompletionsOf(queue)
  BY CompletionsTail
<1>2. ws = << >>
  BY <1>1 DEF Token
<1>3. ASSUME NEW i \in CompletionsOf(Tail(queue)) PROVE FALSE
  <2>1. i + 1 \in CompletionsOf(queue) /\ i \in Nat \ {0}
    BY CompletionsTail
  <2>2. i + 1 = 1
    BY <1>1, <2>1 DEF Token
  <2>3. QED
    BY <2>1, <2>2
<1>4. QED
  BY <1>2, <1>3

(* asio turns the write into its completion. *)
LEMMA TokenComplete ==
  ASSUME NEW ws, ws # << >>, NEW flag, NEW queue \in Seq(Handlers), NEW h \in Handlers,
         IsCompletion(h), Token(ws, queue, flag)
  PROVE  Token(<< >>, Append(queue, h), flag)
<1>1. CompletionsOf(Append(queue, h)) = {Len(queue) + 1}
  BY CompletionsAppend DEF Token
<1>2. Len(<< >>) = 0
  OBVIOUS
<1>3. QED
  BY <1>1, <1>2 DEF Token

-----------------------------------------------------------------------------
(***************************************************************************)
(* The inductive invariant.  WriteToken speaks only of a connected         *)
(* session, so it needs: where the strand is in doClose (CloseOrder), what *)
(* a sender that passed the check before the close finds (OneWrite), and   *)
(* that no thread is in a blocking send (NoBlockingSend).                  *)
(***************************************************************************)
CloseOrder == /\ connected => doing = "idle" /\ socket # "closed"
              /\ ~connected => doing = "closing" \/ socket = "closed"

OneWrite == /\ socket = "closed" => writes = << >>
            /\ Len(writes) <= 1
            /\ socket # "closed" => (writes # << >> => sending)

NoBlockingSend == \A s \in Senders : left[s] = << >> /\ pc[s] # "writing"

StreamInv == /\ CloseOrder
             /\ WriteToken
             /\ OneWrite
             /\ SyncSenders = {} => NoBlockingSend /\ StreamConserved

(* doSendData, entered without a write outstanding, starts at most one and *)
(* sends all the data it was given.                                        *)
LEMMA DoSendDataStep ==
  ASSUME NEW data \in Seq(Cells), NEW b, NEW queue \in Seq(Handlers),
         writes = << >>,
         connected => socket # "closed" /\ CompletionsOf(queue) = {},
         DoSendData(data, b, queue),
         UNCHANGED <<connected, socket>>
  PROVE  /\ WriteToken'
         /\ OneWrite'
         /\ socket # "closed" => InFlight' = data /\ waiting' = << >>
<1>1. CASE data = << >>
  <2>1. writes' = << >> /\ posted' = queue /\ ~sending' /\ waiting' = << >>
    BY <1>1 DEF DoSendData
  <2>2. Len(<< >>) = 0
    OBVIOUS
  <2>3. connected' => Token(writes', posted', sending')
    BY <2>1, <2>2 DEF Token
  <2>4. WriteToken'
    BY <2>3 DEF WriteToken, Token, Completions, CompletionsOf
  <2>5. QED
    BY <1>1, <2>1, <2>2, <2>4 DEF OneWrite, InFlight
<1>2. CASE data # << >> /\ socket # "closed"
  <2>1. writes' = Append(<< >>, data) /\ posted' = queue /\ sending' /\ waiting' = << >>
    BY <1>2 DEF DoSendData
  <2>2. writes' # << >> /\ Len(writes') = 1 /\ writes'[1] = data
    <3>1. << >> \in Seq(Seq(Cells)) /\ Len(<< >>) = 0
      BY EmptySeq
    <3>2. /\ Append(<< >>, data) # << >>
          /\ Len(Append(<< >>, data)) = Len(<< >>) + 1
          /\ Append(<< >>, data)[Len(<< >>) + 1] = data
      BY <3>1, AppendProperties
    <3>3. QED
      BY <2>1, <3>1, <3>2
  <2>3. connected' => Token(writes', posted', sending')
    BY <2>1, <2>2 DEF Token
  <2>4. WriteToken'
    BY <2>3 DEF WriteToken, Token, Completions, CompletionsOf
  <2>5. QED
    BY <1>2, <2>1, <2>2, <2>4 DEF OneWrite, InFlight
<1>3. CASE data # << >> /\ socket = "closed"
  <2>1. writes' = << >> /\ ~connected'
    BY <1>3 DEF DoSendData
  <2>2. Len(<< >>) = 0
    OBVIOUS
  <2>3. QED
    BY <1>3, <2>1, <2>2 DEF OneWrite, WriteToken
<1>4. QED
  BY <1>1, <1>2, <1>3

LEMMA Regroup ==
  \A s, t, u \in Seq(Cells) : (s \o t) \o u = s \o (t \o u)
BY ConcatAssociative

(* The same for a whole asynchronous send, whatever else goes on. *)
LEMMA SendDataAsyncStep ==
  ASSUME TypeInv, CloseOrder, OneWrite,
         NEW data \in Seq(Cells), data # << >>, NEW queue \in Seq(Handlers),
         connected => Token(writes, queue, sending),
         SendDataAsync(data, queue),
         UNCHANGED <<connected, socket, received>>
  PROVE  /\ WriteToken'
         /\ OneWrite'
         /\ StreamConserved => StreamConserved'
<1>0. /\ waiting \in Seq(Cells) /\ log \in Seq(Cells) /\ received \in Seq(Cells)
      /\ << >> \in Seq(Cells) /\ Len(waiting) \in Nat
      /\ sending \in BOOLEAN
  BY EmptySeq, LenProperties DEF TypeInv, TypeOK
<1>1. InFlight \in Seq(Cells) /\ received \o InFlight \in Seq(Cells)
  <2>1. CASE writes = << >>
    BY <1>0, <2>1, ConcatProperties DEF InFlight
  <2>2. CASE writes # << >>
    <3>1. 1 \in 1..Len(writes)
      BY <2>2, EmptySeq DEF TypeInv, TypeOK
    <3>2. writes[1] \in Seq(Cells)
      BY <3>1, ElementOfSeq DEF TypeInv, TypeOK
    <3>3. QED
      BY <1>0, <2>2, <3>2, ConcatProperties DEF InFlight
  <2>3. QED
    BY <2>1, <2>2
<1>2. CASE Overflows(data)
  <2>1. /\ waiting' = << >> /\ posted' = Append(queue, "connErr")
        /\ log' = SubSeq(log, 1, Len(log) - Len(waiting))
        /\ sending' = sending /\ writes' = writes
    BY <1>2 DEF SendDataAsync, DropWaiting
  <2>2. connected' => Token(writes', posted', sending')
    BY <2>1, TokenPostOther DEF Handlers, IsCompletion
  <2>3. WriteToken'
    BY <2>2 DEF WriteToken, Token, Completions, CompletionsOf
  <2>4. OneWrite'
    BY <2>1 DEF OneWrite
  <2>5. ASSUME StreamConserved, socket = "open"
        PROVE  (received \o InFlight \o waiting = log)'
    <3> DEFINE front == received \o InFlight
    <3>0. front \in Seq(Cells) /\ Len(front) \in Nat
      BY <1>1, LenProperties
    <3>1. log = front \o waiting
      BY <2>5 DEF StreamConserved
    <3>2. InFlight' = InFlight
      BY <2>1 DEF InFlight
    <3> HIDE DEF front
    <3>3. Len(log) = Len(front) + Len(waiting)
      BY <1>0, <3>0, <3>1, ConcatProperties
    <3>4. SubSeq(log, 1, Len(front)) = front
      <4>1. CASE front = << >>
        <5>1. Len(front) = 0
          BY <4>1
        <5>2. SubSeq(log, 1, 0) = << >>
          BY SubSeqEmpty
        <5>3. QED
          BY <4>1, <5>1, <5>2
      <4>2. CASE front # << >>
        <5>1. 1 \in 1..Len(front) /\ Len(front) \in 1..Len(front)
          BY <3>0, <4>2, EmptySeq
        <5>2. SubSeq(front \o waiting, 1, Len(front)) = SubSeq(front, 1, Len(front))
          BY <1>0, <3>0, <5>1, SubSeqOfConcat1
        <5>3. SubSeq(front, 1, Len(front)) = front
          BY <3>0, SubSeqFull
        <5>4. QED
          BY <3>1, <5>2, <5>3
      <4>3. QED
        BY <4>1, <4>2
    <3>5. Len(log) - Len(waiting) = Len(front)
      BY <1>0, <3>0, <3>3
    <3>6. log' = front
      BY <2>1, <3>4, <3>5
    <3>7. front \o << >> = front
      BY <3>0, ConcatEmptySeq
    <3>8. QED
      BY <2>1, <3>2, <3>6, <3>7 DEF front
  <2>6. StreamConserved => StreamConserved'
    BY <2>4, <2>5 DEF StreamConserved, OneWrite
  <2>7. QED
    BY <2>3, <2>4, <2>6
<1>3. CASE ~Overflows(data)
  <2> DEFINE b == Reserve(buf, Len(data) + Len(waiting))
  <2>1. AcceptData(data, queue) /\ log' = log \o data
    BY <1>3 DEF SendDataAsync, AcceptData
  <2>2. waiting \o data \in Seq(Cells)
    BY <1>0, ConcatProperties
  <2>3. ASSUME StreamConserved, socket = "open"
        PROVE  log' = received \o InFlight \o (waiting \o data)
    <3>1. log' = (received \o InFlight \o waiting) \o data
      BY <2>1, <2>3 DEF StreamConserved
    <3>2. ASSUME NEW front \in Seq(Cells)
          PROVE  (front \o waiting) \o data = front \o (waiting \o data)
      <4>1. waiting \in Seq(Cells) /\ data \in Seq(Cells)
        BY <1>0
      <4>2. QED
        BY <4>1, Regroup, Zenon
    <3>3. QED
      BY <1>1, <3>1, <3>2
  <2>4. CASE sending
    <3>1. /\ waiting' = waiting \o data /\ posted' = queue
          /\ sending' = sending /\ writes' = writes
      BY <2>1, <2>4 DEF AcceptData
    <3>2. InFlight' = InFlight
      BY <3>1 DEF InFlight
    <3>3. connected' => Token(writes', posted', sending')
      BY <3>1
    <3>4. WriteToken'
      BY <3>3 DEF WriteToken, Token, Completions, CompletionsOf
    <3>5. OneWrite'
      BY <3>1 DEF OneWrite
    <3>6. StreamConserved => StreamConserved'
      BY <2>3, <3>1, <3>2, <3>5 DEF StreamConserved, OneWrite
    <3>7. QED
      BY <3>4, <3>5, <3>6
  <2>5. CASE ~sending
    <3>1. DoSendData(waiting \o data, b, queue)
      BY <2>1, <2>5 DEF AcceptData
    <3>2. writes = << >>
      BY <2>5 DEF OneWrite
    <3>3. connected => socket # "closed" /\ CompletionsOf(queue) = {}
      BY <2>5 DEF CloseOrder, Token
    <3>4. /\ WriteToken'
          /\ OneWrite'
          /\ socket # "closed" => InFlight' = waiting \o data /\ waiting' = << >>
      <4> HIDE DEF b
      <4> QED BY <2>2, <3>1, <3>2, <3>3, DoSendDataStep
    <3>5. ASSUME StreamConserved, socket = "open"
          PROVE  (received \o InFlight \o waiting = log)'
      <4>1. InFlight = << >> /\ received \o << >> = received
        BY <1>0, <3>2, ConcatEmptySeq DEF InFlight
      <4>2. log' = received \o (waiting \o data)
        BY <2>3, <3>5, <4>1
      <4>3. received \o (waiting \o data) \in Seq(Cells)
        BY <1>0, <2>2, ConcatProperties
      <4>4. (received \o (waiting \o data)) \o << >> = received \o (waiting \o data)
        BY <4>3, ConcatEmptySeq
      <4>5. QED
        BY <3>4, <3>5, <4>2, <4>4
    <3>6. StreamConserved => StreamConserved'
      BY <3>4, <3>5 DEF StreamConserved, OneWrite
    <3>7. QED
      BY <3>4, <3>6
  <2>6. QED
    BY <1>0, <2>4, <2>5
<1>4. QED
  BY <1>2, <1>3

-----------------------------------------------------------------------------
LEMMA StreamInvInit == Init => StreamInv
<1> SUFFICES ASSUME Init PROVE StreamInv
  OBVIOUS
<1>1. Len(<< >>) = 0 /\ << >> \in Seq(Cells)
  BY EmptySeq
<1>2. << >> \o << >> \o << >> = << >>
  BY <1>1, ConcatEmptySeq
<1>3. CompletionsOf(<< >>) = {}
  BY DEF CompletionsOf
<1>4. WriteToken
  BY <1>1, <1>3 DEF Init, WriteToken, Completions, CompletionsOf
<1>5. CloseOrder /\ OneWrite /\ NoBlockingSend
  BY <1>1 DEF Init, CloseOrder, OneWrite, NoBlockingSend
<1>6. StreamConserved
  BY <1>1, <1>2 DEF Init, StreamConserved, InFlight
<1>7. QED
  BY <1>4, <1>5, <1>6 DEF StreamInv

(* Steps that post something that is no completion. *)
LEMMA PostStep ==
  ASSUME TypeInv, StreamInv, NEW h \in Handlers, ~IsCompletion(h),
         posted' = Append(posted, h),
         UNCHANGED <<connected, sending, waiting, writes, socket, doing, received, log>>
  PROVE  /\ CloseOrder' /\ WriteToken' /\ OneWrite'
         /\ StreamConserved => StreamConserved'
<1>1. connected' => Token(writes', posted', sending')
  BY TokenPostOther, TokenIsWriteToken DEF StreamInv, TypeInv, TypeOK
<1>2. WriteToken'
  BY <1>1 DEF WriteToken, Token, Completions, CompletionsOf
<1>3. QED
  BY <1>2 DEF StreamInv, CloseOrder, OneWrite, StreamConserved, InFlight

LEMMA ThreadStream ==
  ASSUME TypeInv, StreamInv, NEW s \in Senders, Thread(s)
  PROVE  StreamInv'
<1> USE DEF connVars, strandVars, netVars, threadVars, history
<1>1. CASE Check(s)
  <2>1. UNCHANGED <<connected, sending, waiting, writes, socket, doing, received, log, posted,
                    left>>
    BY <1>1 DEF Check
  <2>2. CloseOrder' /\ WriteToken' /\ OneWrite' /\ (StreamConserved => StreamConserved')
    BY <2>1 DEF StreamInv, CloseOrder, WriteToken, Completions, OneWrite, StreamConserved, InFlight
  <2>3. NoBlockingSend => NoBlockingSend'
    BY <1>1, <2>1 DEF Check, NoBlockingSend, TypeInv, TypeOK
  <2>4. QED
    BY <2>2, <2>3 DEF StreamInv
<1>2. CASE AsyncSend(s)
  <2>1. PICK n \in Lens : SendDataAsync(Message(s, n), posted)
    BY <1>2 DEF AsyncSend
  <2>2. Message(s, n) \in Seq(Cells) /\ Message(s, n) # << >>
    BY MessageType, SendAssumption DEF Sources, TypeInv
  <2>3. connected => Token(writes, posted, sending)
    BY TokenIsWriteToken DEF StreamInv
  <2>4. UNCHANGED <<connected, socket, received, doing, left>>
    BY <1>2 DEF AsyncSend
  <2>5. WriteToken' /\ OneWrite' /\ (StreamConserved => StreamConserved')
    BY <2>1, <2>2, <2>3, <2>4, SendDataAsyncStep DEF StreamInv, TypeInv, TypeOK
  <2>6. CloseOrder'
    BY <2>4 DEF StreamInv, CloseOrder
  <2>7. NoBlockingSend => NoBlockingSend'
    BY <1>2, <2>4 DEF AsyncSend, NoBlockingSend, TypeInv, TypeOK
  <2>8. QED
    BY <2>5, <2>6, <2>7 DEF StreamInv
<1>3. CASE SyncBegin(s)
  <2>1. UNCHANGED <<connected, sending, waiting, writes, socket, doing, posted>>
    BY <1>3 DEF SyncBegin
  <2>2. CloseOrder' /\ WriteToken' /\ OneWrite'
    BY <2>1 DEF StreamInv, CloseOrder, WriteToken, Completions, OneWrite
  <2>3. SyncSenders # {}
    BY <1>3 DEF SyncBegin
  <2>4. QED
    BY <2>2, <2>3 DEF StreamInv
<1>4. CASE SyncReturn(s)
  <2>1. UNCHANGED <<connected, sending, waiting, writes, socket, doing, received, log, posted,
                    left>>
    BY <1>4 DEF SyncReturn
  <2>2. CloseOrder' /\ WriteToken' /\ OneWrite' /\ (StreamConserved => StreamConserved')
    BY <2>1 DEF StreamInv, CloseOrder, WriteToken, Completions, OneWrite, StreamConserved, InFlight
  <2>3. NoBlockingSend => NoBlockingSend'
    BY <1>4, <2>1 DEF SyncReturn, NoBlockingSend, TypeInv, TypeOK
  <2>4. QED
    BY <2>2, <2>3 DEF StreamInv
<1>5. CASE SyncThrow(s)
  <2>1. /\ posted' = Append(posted, "connErr")
        /\ UNCHANGED <<connected, sending, waiting, writes, socket, doing, received, log>>
    BY <1>5 DEF SyncThrow
  <2>2. CloseOrder' /\ WriteToken' /\ OneWrite' /\ (StreamConserved => StreamConserved')
    BY <2>1, PostStep DEF Handlers, IsCompletion
  <2>3. ~NoBlockingSend
    BY <1>5 DEF SyncThrow, NoBlockingSend
  <2>4. QED
    BY <2>2, <2>3 DEF StreamInv
<1>6. QED
  BY <1>1, <1>2, <1>3, <1>4, <1>5 DEF Thread

LEMMA StrandStream ==
  ASSUME TypeInv, StreamInv, StrandRuns
  PROVE  StreamInv'
<1> USE DEF connVars, strandVars, netVars, threadVars, history
<1>0. /\ posted \in Seq(Handlers)
      /\ posted # << >> => Tail(posted) \in Seq(Handlers)
      /\ waiting \in Seq(Cells) /\ received \in Seq(Cells)
      /\ sending \in BOOLEAN
      /\ connected => Token(writes, posted, sending)
      /\ Len(<< >>) = 0
  BY PostedType, TokenIsWriteToken DEF StreamInv, TypeInv, TypeOK
<1>1. CASE HandleSendData
  <2>1. /\ DoSendData(waiting, buf, Tail(posted))
        /\ posted # << >> /\ IsCompletion(Head(posted))
        /\ doing = "idle"
        /\ UNCHANGED <<connected, socket, doing, received, log, left, pc>>
    BY <1>1 DEF HandleSendData, Runs, IsCompletion
  <2>2. connected => writes = << >> /\ CompletionsOf(Tail(posted)) = {}
    BY <1>0, <2>1, TokenRunCompletion
  <2>3. ~connected => socket = "closed"
    BY <2>1 DEF StreamInv, CloseOrder
  <2>4. writes = << >>
    BY <2>2, <2>3 DEF StreamInv, OneWrite
  <2>5. connected => socket # "closed" /\ CompletionsOf(Tail(posted)) = {}
    BY <2>2 DEF StreamInv, CloseOrder
  <2>6. /\ WriteToken'
        /\ OneWrite'
        /\ socket # "closed" => InFlight' = waiting /\ waiting' = << >>
    BY <1>0, <2>1, <2>4, <2>5, DoSendDataStep
  <2>7. ASSUME StreamConserved, socket = "open"
        PROVE  (received \o InFlight \o waiting = log)'
    <3>1. InFlight = << >> /\ received \o << >> = received
      BY <1>0, <2>4, ConcatEmptySeq DEF InFlight
    <3>2. log = received \o waiting
      BY <2>7, <3>1 DEF StreamConserved
    <3>3. received \o waiting \in Seq(Cells)
      BY <1>0, ConcatProperties
    <3>4. (received \o waiting) \o << >> = received \o waiting
      BY <3>3, ConcatEmptySeq
    <3>5. QED
      BY <2>1, <2>6, <2>7, <3>2, <3>4
  <2>8. StreamConserved => StreamConserved'
    BY <2>1, <2>6, <2>7 DEF StreamConserved, OneWrite
  <2>9. QED
    BY <2>1, <2>6, <2>8 DEF StreamInv, CloseOrder, NoBlockingSend
<1>2. CASE HandleConnectionError
  <2>1. /\ posted # << >> /\ posted' = Tail(posted) /\ ~connected'
        /\ doing = "idle"
        /\ connected => doing' = "closing"
        /\ ~connected => doing' = doing
        /\ UNCHANGED <<sending, waiting, writes, socket, received, log, left, pc>>
    BY <1>2 DEF HandleConnectionError, Runs
  <2>2. CloseOrder' /\ WriteToken' /\ OneWrite'
    BY <2>1 DEF StreamInv, CloseOrder, WriteToken, OneWrite
  <2>3. (StreamConserved => StreamConserved') /\ (NoBlockingSend => NoBlockingSend')
    BY <2>1 DEF StreamConserved, InFlight, NoBlockingSend
  <2>4. QED
    BY <2>2, <2>3 DEF StreamInv
<1>3. CASE HandleClose
  <2>1. /\ ~connected' /\ doing' = "closing"
        /\ UNCHANGED <<sending, waiting, writes, socket, received, log, left, pc>>
    BY <1>3 DEF HandleClose
  <2>2. CloseOrder' /\ WriteToken' /\ OneWrite'
    BY <2>1 DEF StreamInv, CloseOrder, WriteToken, OneWrite
  <2>3. (StreamConserved => StreamConserved') /\ (NoBlockingSend => NoBlockingSend')
    BY <2>1 DEF StreamConserved, InFlight, NoBlockingSend
  <2>4. QED
    BY <2>2, <2>3 DEF StreamInv
<1>4. CASE CloseSocket
  <2>1. /\ doing = "closing" /\ socket' = "closed" /\ writes' = << >>
        /\ connected' = connected /\ left' = left /\ pc' = pc
    BY <1>4 DEF CloseSocket
  <2>2. ~connected
    BY <2>1 DEF StreamInv, CloseOrder
  <2>3. QED
    BY <1>0, <2>1, <2>2 DEF StreamInv, CloseOrder, WriteToken, OneWrite, StreamConserved,
                            NoBlockingSend
<1>5. CASE ClearBuffer
  <2>1. /\ doing = "clearing" /\ UNCHANGED <<connected, socket, writes, left, pc>>
    BY <1>5 DEF ClearBuffer
  <2>2. ~connected /\ socket = "closed"
    BY <2>1 DEF StreamInv, CloseOrder
  <2>3. QED
    BY <2>1, <2>2 DEF StreamInv, CloseOrder, WriteToken, OneWrite, StreamConserved,
                      NoBlockingSend
<1>6. CASE Report
  <2>1. /\ doing = "reporting" /\ UNCHANGED <<connected, socket, writes, left, pc>>
    BY <1>6 DEF Report
  <2>2. ~connected /\ socket = "closed"
    BY <2>1 DEF StreamInv, CloseOrder
  <2>3. QED
    BY <2>1, <2>2 DEF StreamInv, CloseOrder, WriteToken, OneWrite, StreamConserved,
                      NoBlockingSend
<1>7. CASE HandleKeepAlive
  <2>1. /\ posted # << >> /\ ~IsCompletion(Head(posted))
        /\ UNCHANGED <<connected, socket, doing, received, left, pc>>
    BY <1>7 DEF HandleKeepAlive, Runs, IsCompletion
  <2>2. connected => Token(writes, Tail(posted), sending)
    BY <1>0, <2>1, TokenRunOther
  <2>3. CASE connected
    <3>1. SendDataAsync(Message(Strand, KeepAliveLen), Tail(posted))
      BY <1>7, <2>3 DEF HandleKeepAlive
    <3>2. Message(Strand, KeepAliveLen) \in Seq(Cells) /\ Message(Strand, KeepAliveLen) # << >>
      BY MessageType, SendAssumption DEF Sources, TypeInv
    <3>3. WriteToken' /\ OneWrite' /\ (StreamConserved => StreamConserved')
      BY <1>0, <2>1, <2>2, <3>1, <3>2, SendDataAsyncStep DEF StreamInv
    <3>4. QED
      BY <2>1, <3>3 DEF StreamInv, CloseOrder, NoBlockingSend
  <2>4. CASE ~connected
    <3>1. UNCHANGED <<sending, waiting, writes, log>>
      BY <1>7, <2>4 DEF HandleKeepAlive
    <3>2. QED
      BY <2>1, <2>4, <3>1 DEF StreamInv, CloseOrder, WriteToken, OneWrite, StreamConserved,
                              InFlight, NoBlockingSend
  <2>5. QED
    BY <2>3, <2>4
<1>8. QED
  BY <1>1, <1>2, <1>3, <1>4, <1>5, <1>6, <1>7 DEF StrandRuns

(* There is one write at most, so it is the first. *)
LEMMA OnlyIndex ==
  ASSUME TypeInv, OneWrite, NEW i \in DOMAIN writes
  PROVE  i = 1 /\ Len(writes) = 1 /\ writes # << >> /\ writes[1] \in Seq(Cells)
<1>0. writes \in Seq(Seq(Cells)) /\ Len(writes) \in Nat /\ Len(writes) <= 1
  BY LenProperties DEF TypeInv, TypeOK, OneWrite
<1>1. i \in 1..Len(writes)
  BY <1>0, LenProperties
<1>2. writes[i] \in Seq(Cells)
  BY <1>0, <1>1, ElementOfSeq
<1>3. i = 1 /\ Len(writes) = 1
  <2>1. \A n \in Nat : n <= 1 => \A j \in 1..n : j = 1 /\ n = 1
    OBVIOUS
  <2> QED BY <1>0, <1>1, <2>1
<1>4. writes # << >>
  <2>1. Len(<< >>) = 0
    OBVIOUS
  <2> QED BY <1>3, <2>1
<1> QED BY <1>2, <1>3, <1>4

LEMMA CompleteEmpties ==
  ASSUME TypeInv, OneWrite, NEW i \in DOMAIN writes, writes' = RemoveAt(writes, i)
  PROVE  writes' = << >>
<1>1. i = 1 /\ Len(writes) = 1
  BY OnlyIndex
<1>2. writes' = SubSeq(writes, 1, 0) \o SubSeq(writes, 2, 1)
  BY <1>1 DEF RemoveAt
<1>3. SubSeq(writes, 1, 0) = << >> /\ SubSeq(writes, 2, 1) = << >>
  BY SubSeqEmpty
<1> QED BY <1>2, <1>3

LEMMA SocketStream ==
  ASSUME TypeInv, StreamInv, Take \/ Completion \/ Break
  PROVE  StreamInv'
<1> USE DEF connVars, strandVars, netVars, threadVars, history
<1>0. /\ posted \in Seq(Handlers)
      /\ waiting \in Seq(Cells) /\ received \in Seq(Cells)
      /\ writes \in Seq(Seq(Cells))
      /\ connected => Token(writes, posted, sending)
      /\ Len(writes) \in Nat /\ Len(writes) <= 1
      /\ Len(<< >>) = 0
  BY TokenIsWriteToken, LenProperties DEF StreamInv, TypeInv, TypeOK, OneWrite
<1>a. ASSUME NEW i \in DOMAIN writes
      PROVE  i = 1 /\ Len(writes) = 1 /\ writes # << >> /\ writes[1] \in Seq(Cells)
  BY <1>a, OnlyIndex DEF StreamInv
<1>1. ASSUME NEW i \in DOMAIN writes, TakeAsync(i)
      PROVE  StreamInv'
  <2>1. /\ i = 1 /\ Len(writes) = 1 /\ writes # << >> /\ writes[1] \in Seq(Cells)
        /\ writes[1] # << >>
    BY <1>1, <1>a DEF TakeAsync
  <2>2. /\ received' = Append(received, Head(writes[1]))
        /\ writes' = [writes EXCEPT ![1] = Tail(@)]
        /\ UNCHANGED <<connected, sending, waiting, posted, doing, socket, log, left, pc>>
    BY <1>1, <2>1 DEF TakeAsync
  <2>3. Head(writes[1]) \in Cells /\ Tail(writes[1]) \in Seq(Cells)
    BY <2>1, HeadTailProperties
  <2>4. /\ writes' \in Seq(Seq(Cells)) /\ Len(writes') = 1 /\ writes'[1] = Tail(writes[1])
        /\ writes' # << >>
    <3>1. 1 \in 1..Len(writes)
      BY <2>1
    <3>2. /\ writes' \in Seq(Seq(Cells)) /\ Len(writes') = Len(writes)
          /\ writes'[1] = Tail(writes[1])
      BY <1>0, <2>2, <2>3, <3>1, ExceptSeq
    <3>3. QED
      BY <1>0, <2>1, <3>2
  <2>5. connected' => Token(writes', posted', sending')
    BY <1>0, <2>1, <2>2, <2>4 DEF Token
  <2>6. WriteToken'
    BY <2>5 DEF WriteToken, Token, Completions, CompletionsOf
  <2>7. OneWrite' /\ CloseOrder'
    BY <2>1, <2>2, <2>4 DEF StreamInv, OneWrite, CloseOrder
  <2>8. received' \o InFlight' = received \o InFlight
    <3>1. InFlight = writes[1] /\ InFlight' = Tail(writes[1])
      BY <2>1, <2>4 DEF InFlight
    <3>2. writes[1] = <<Head(writes[1])>> \o Tail(writes[1])
      BY <2>1
    <3>3. <<Head(writes[1])>> \in Seq(Cells)
      BY <2>3
    <3>4. received' = received \o <<Head(writes[1])>>
      BY <1>0, <2>2, <2>3, AppendIsConcat
    <3>5. (received \o <<Head(writes[1])>>) \o Tail(writes[1])
            = received \o (<<Head(writes[1])>> \o Tail(writes[1]))
      BY <1>0, <2>3, <3>3, Regroup, Zenon
    <3>6. QED
      BY <3>1, <3>2, <3>4, <3>5
  <2>9. StreamConserved => StreamConserved'
    <3>1. (received \o InFlight \o waiting)' = received \o InFlight \o waiting
      BY <2>2, <2>8
    <3>2. Len(writes') <= 1
      BY <2>4
    <3>3. socket' = socket /\ log' = log
      BY <2>2
    <3>4. QED
      BY <3>1, <3>2, <3>3 DEF StreamConserved
  <2>10. QED
    BY <2>2, <2>6, <2>7, <2>9 DEF StreamInv, NoBlockingSend
<1>2. ASSUME NEW s \in Senders, TakeSync(s)
      PROVE  StreamInv'
  <2>1. ~NoBlockingSend
    BY <1>2 DEF TakeSync, NoBlockingSend
  <2>2. UNCHANGED <<connected, sending, waiting, posted, doing, socket, writes>>
    BY <1>2 DEF TakeSync
  <2>3. QED
    BY <2>1, <2>2 DEF StreamInv, CloseOrder, WriteToken, Completions, OneWrite
<1>3. ASSUME NEW i \in DOMAIN writes, Complete(i)
      PROVE  StreamInv'
  <2>1. i = 1 /\ Len(writes) = 1 /\ writes # << >>
    BY <1>3, <1>a
  <2>2. PICK h \in {"sent", "sendErr"} : posted' = Append(posted, h)
    BY <1>3 DEF Complete
  <2>3. /\ UNCHANGED <<connected, sending, waiting, doing, socket, received, log, left, pc>>
        /\ socket = "open" => writes[1] = << >>
    BY <1>3, <2>1 DEF Complete
  <2>4. writes' = << >>
    BY <1>3, CompleteEmpties DEF Complete, StreamInv
  <2>5. connected' => Token(writes', posted', sending')
    BY <1>0, <2>1, <2>2, <2>3, <2>4, TokenComplete DEF IsCompletion, Handlers
  <2>6. WriteToken'
    BY <2>5 DEF WriteToken, Token, Completions, CompletionsOf
  <2>7. OneWrite' /\ CloseOrder'
    BY <1>0, <2>3, <2>4 DEF StreamInv, OneWrite, CloseOrder
  <2>8. socket = "open" => InFlight' = InFlight
    BY <2>1, <2>3, <2>4 DEF InFlight
  <2>9. StreamConserved => StreamConserved'
    BY <1>0, <2>3, <2>4, <2>8 DEF StreamConserved
  <2>10. QED
    BY <2>3, <2>6, <2>7, <2>9 DEF StreamInv, NoBlockingSend
<1>4. CASE ReadFails
  <2>1. /\ posted' = Append(posted, "recvErr")
        /\ UNCHANGED <<connected, sending, waiting, writes, socket, doing, received, log, left,
                       pc>>
    BY <1>4 DEF ReadFails
  <2>2. CloseOrder' /\ WriteToken' /\ OneWrite' /\ (StreamConserved => StreamConserved')
    BY <2>1, PostStep DEF Handlers, IsCompletion
  <2>3. QED
    BY <2>1, <2>2 DEF StreamInv, NoBlockingSend
<1>5. CASE Break
  <2>1. /\ socket = "open" /\ socket' = "broken"
        /\ UNCHANGED <<connected, sending, waiting, writes, posted, doing, left, pc>>
    BY <1>5 DEF Break
  <2>2. QED
    BY <2>1 DEF StreamInv, CloseOrder, WriteToken, Completions, OneWrite, StreamConserved,
                NoBlockingSend
<1>6. QED
  BY <1>1, <1>2, <1>3, <1>4, <1>5 DEF Take, Completion

LEMMA EventStream ==
  ASSUME TypeInv, StreamInv, Close \/ TimeoutTimer \/ KeepAliveTimer
  PROVE  StreamInv'
<1> USE DEF connVars, strandVars, netVars, threadVars, history
<1>1. PICK h \in {"close", "timeout", "keepAlive"} : posted' = Append(posted, h)
  BY DEF Close, TimeoutTimer, KeepAliveTimer
<1>2. UNCHANGED <<connected, sending, waiting, writes, socket, doing, received, log, left, pc>>
  BY DEF Close, TimeoutTimer, KeepAliveTimer
<1>3. CloseOrder' /\ WriteToken' /\ OneWrite' /\ (StreamConserved => StreamConserved')
  BY <1>1, <1>2, PostStep DEF Handlers, IsCompletion
<1>4. QED
  BY <1>2, <1>3 DEF StreamInv, NoBlockingSend

LEMMA StreamInvStep == TypeInv /\ StreamInv /\ [Next]_vars => StreamInv'
<1> SUFFICES ASSUME TypeInv, StreamInv, [Next]_vars PROVE StreamInv'
  OBVIOUS
<1>1. CASE \E s \in Senders : Thread(s)
  BY <1>1, ThreadStream
<1>2. CASE StrandRuns
  BY <1>2, StrandStream
<1>3. CASE Take \/ Completion \/ Break
  BY <1>3, SocketStream
<1>4. CASE Close \/ TimeoutTimer \/ KeepAliveTimer
  BY <1>4, EventStream
<1>5. CASE UNCHANGED vars
  BY <1>5 DEF StreamInv, CloseOrder, WriteToken, Completions, OneWrite, StreamConserved, InFlight,
              NoBlockingSend, vars, connVars, strandVars, netVars, threadVars, history
<1>6. CASE Terminated
  BY <1>5, <1>6 DEF Terminated
<1>7. QED
  BY <1>1, <1>2, <1>3, <1>4, <1>5, <1>6 DEF Next

(* The hand-over between senders and completions never goes wrong, with    *)
(* any number of threads, synchronous ones included.                       *)
THEOREM TokenKept == Spec => []WriteToken
<1>1. StreamInv => WriteToken
  BY DEF StreamInv
<1>2. QED
  BY TypeInvInit, TypeInvStep, StreamInvInit, StreamInvStep, <1>1, PTL DEF Spec

(* On a connection that only sends asynchronously, what the socket took,   *)
(* what is being written and what waits is exactly what was accepted, in   *)
(* order, as long as the socket is open.                                   *)
THEOREM StreamKept == SyncSenders = {} => (Spec => []StreamConserved)
<1> SUFFICES ASSUME SyncSenders = {} PROVE Spec => []StreamConserved
  OBVIOUS
<1>1. StreamInv => StreamConserved
  BY DEF StreamInv
<1>2. QED
  BY TypeInvInit, TypeInvStep, StreamInvInit, StreamInvStep, <1>1, PTL DEF Spec

-----------------------------------------------------------------------------
(***************************************************************************)
(* The report to the upper layer.  Only the close that an error has begun  *)
(* reports, and it has begun while connected: before any report.           *)
(***************************************************************************)
ReportOrder ==
  /\ reported \in {0, 1}
  /\ reported = 1 => ~connected /\ socket = "closed"
  /\ doing \in {"closing", "clearing"} /\ ~active => reported = 0
  /\ doing = "reporting" => reported = 0

(* Steps of which the close and its report know nothing. *)
LEMMA ReportOrderUntouched ==
  ASSUME ReportOrder, UNCHANGED <<connected, socket, doing, active, reported>>
  PROVE  ReportOrder'
BY DEF ReportOrder

LEMMA StrandReport ==
  ASSUME TypeInv, CloseOrder, ReportOrder, StrandRuns
  PROVE  ReportOrder'
<1>1. CASE HandleSendData
  <2>1. UNCHANGED <<connected, socket, doing, active, reported>>
    BY <1>1 DEF HandleSendData
  <2> QED BY <2>1, ReportOrderUntouched
<1>2. CASE HandleConnectionError
  <2>1. /\ doing = "idle" /\ ~connected'
        /\ connected => doing' = "closing"
        /\ ~connected => doing' = doing /\ active' = active
        /\ UNCHANGED <<socket, reported>>
    BY <1>2 DEF HandleConnectionError, Runs, netVars
  <2>2. connected => reported = 0
    BY DEF ReportOrder
  <2> QED BY <2>1, <2>2 DEF ReportOrder
<1>3. CASE HandleClose
  <2>1. /\ ~connected' /\ doing' = "closing" /\ active' = TRUE
        /\ UNCHANGED <<socket, reported>>
    BY <1>3 DEF HandleClose, netVars
  <2> QED BY <2>1 DEF ReportOrder
<1>4. CASE CloseSocket
  <2>1. /\ doing = "closing" /\ doing' = "clearing" /\ socket' = "closed"
        /\ UNCHANGED <<connected, active, reported>>
    BY <1>4 DEF CloseSocket, connVars
  <2>2. ~connected
    BY <2>1 DEF CloseOrder
  <2> QED BY <2>1, <2>2 DEF ReportOrder
<1>5. CASE ClearBuffer
  <2>1. /\ doing = "clearing" /\ doing' = IF active THEN "idle" ELSE "reporting"
        /\ UNCHANGED <<connected, socket, active, reported>>
    BY <1>5 DEF ClearBuffer, netVars
  <2>2. active \in BOOLEAN
    BY DEF TypeInv, TypeOK
  <2> QED BY <2>1, <2>2 DEF ReportOrder
<1>6. CASE Report
  <2>1. /\ doing = "reporting" /\ doing' = "idle" /\ reported' = reported + 1
        /\ UNCHANGED <<connected, socket, active>>
    BY <1>6 DEF Report, connVars, netVars
  <2>2. ~connected /\ socket = "closed"
    BY <2>1 DEF CloseOrder
  <2> QED BY <2>1, <2>2 DEF ReportOrder
<1>7. CASE HandleKeepAlive
  <2>1. UNCHANGED <<connected, socket, doing, active, reported>>
    BY <1>7 DEF HandleKeepAlive
  <2> QED BY <2>1, ReportOrderUntouched
<1> QED BY <1>1, <1>2, <1>3, <1>4, <1>5, <1>6, <1>7 DEF StrandRuns

LEMMA ReportOrderStep == TypeInv /\ StreamInv /\ ReportOrder /\ [Next]_vars => ReportOrder'
<1> SUFFICES ASSUME TypeInv, StreamInv, ReportOrder, [Next]_vars PROVE ReportOrder'
  OBVIOUS
<1> USE DEF connVars, strandVars, netVars, threadVars, history
<1>1. ASSUME NEW s \in Senders, Thread(s)
      PROVE  ReportOrder'
  <2>1. UNCHANGED <<connected, socket, doing, active, reported>>
    BY <1>1 DEF Thread, Check, AsyncSend, SyncBegin, SyncReturn, SyncThrow
  <2> QED BY <2>1, ReportOrderUntouched
<1>2. CASE StrandRuns
  BY <1>2, StrandReport DEF StreamInv
<1>3. CASE Take \/ Completion \/ Close \/ TimeoutTimer \/ KeepAliveTimer
  <2>1. UNCHANGED <<connected, socket, doing, active, reported>>
    BY <1>3 DEF Take, TakeAsync, TakeSync, Completion, Complete, ReadFails, Close,
                TimeoutTimer, KeepAliveTimer
  <2> QED BY <2>1, ReportOrderUntouched
<1>4. CASE Break
  <2>1. socket = "open" /\ UNCHANGED <<connected, doing, active, reported>>
    BY <1>4 DEF Break
  <2> QED BY <2>1 DEF ReportOrder
<1>5. CASE Terminated \/ UNCHANGED vars
  BY <1>5, ReportOrderUntouched DEF Terminated, vars
<1> QED BY <1>1, <1>2, <1>3, <1>4, <1>5 DEF Next

(* A read error, a write error, a timeout, an overflow and a close() may   *)
(* all arrive, in any order and number: the upper layer is told at most    *)
(* once, of a connection that is closed.                                   *)
THEOREM ToldOnce == Spec => []ReportedOnce
<1>1. Init => ReportOrder
  BY DEF Init, ReportOrder
<1>2. ReportOrder => ReportedOnce
  BY DEF ReportOrder, ReportedOnce
<1> QED BY TypeInvInit, TypeInvStep, StreamInvInit, StreamInvStep, <1>1, ReportOrderStep,
           <1>2, PTL DEF Spec

-----------------------------------------------------------------------------
(***************************************************************************)
(* The memory of the two buffers: the code computes a capacity for all     *)
(* that waits, exchanges the buffers only between two writes, and halves   *)
(* only the one that is empty.                                             *)
(***************************************************************************)
LEMMA ReserveHolds ==
  ASSUME NEW b \in BufferState, NEW need \in Nat \ {0}, need <= MaxSendBufSize
  PROVE  /\ need <= Reserve(b, need).waitingLen
         /\ Reserve(b, need).sendLen = b.sendLen
<1>1. \E c \in Capacities : IsCapacityFor(c, need)
  BY BufferAssumption
<1>2. need <= GrownTo(need)
  BY <1>1 DEF GrownTo, IsCapacityFor
<1>3. /\ b.waitingLen \in Nat
      /\ [b EXCEPT !.waitingLen = GrownTo(need)].waitingLen = GrownTo(need)
      /\ [b EXCEPT !.waitingLen = GrownTo(need)].sendLen = b.sendLen
  BY DEF BufferState
<1> QED BY <1>2, <1>3 DEF Reserve

LEMMA SwappedHolds ==
  ASSUME NEW b \in BufferState, NEW n \in Nat
  PROVE  Swapped(b, n).sendLen = b.waitingLen
<1> DEFINE c == [waitingLen |-> b.sendLen, sendLen |-> b.waitingLen, ave |-> Averaged(b.ave, n)]
<1>1. Trimmed(c).sendLen = c.sendLen
  BY DEF Trimmed
<1> QED BY <1>1 DEF Swapped

(* doSendData, entered without a write outstanding: what it writes is in   *)
(* the buffer that it makes the sending one.                               *)
LEMMA DoSendDataHolds ==
  ASSUME NEW data \in Seq(Cells), NEW b \in BufferState, NEW queue,
         writes = << >>, Len(data) <= b.waitingLen,
         DoSendData(data, b, queue)
  PROVE  BuffersHold'
<1>1. Len(data) \in Nat /\ Len(<< >>) = 0 /\ MaxSendBufSize \in Nat
  BY LenProperties, EmptySeq, BufferAssumption
<1>2. Swapped(b, Len(data)) \in BufferState /\ Swapped(b, Len(data)).sendLen = b.waitingLen
  BY <1>1, SwappedType, SwappedHolds
<1>3. buf' \in BufferState /\ waiting' = << >>
  BY <1>2 DEF DoSendData
<1>4. buf'.waitingLen \in Nat /\ buf'.sendLen \in Nat
  BY <1>3 DEF BufferState
<1>5. Len(InFlight') <= buf'.sendLen
  <2>1. CASE writes' = << >>
    BY <1>1, <1>4, <2>1 DEF InFlight
  <2>2. CASE writes' # << >>
    <3>1. writes' = <<data>> /\ buf' = Swapped(b, Len(data))
      BY <2>2 DEF DoSendData
    <3>2. InFlight' = data
      BY <3>1 DEF InFlight
    <3> QED BY <1>2, <3>1, <3>2
  <2> QED BY <2>1, <2>2
<1> QED BY <1>1, <1>3, <1>4, <1>5 DEF BuffersHold

LEMMA SendDataAsyncHolds ==
  ASSUME TypeInv, OneWrite, BuffersHold,
         NEW data \in Seq(Cells), data # << >>, NEW queue,
         SendDataAsync(data, queue)
  PROVE  BuffersHold'
<1>0. /\ Len(data) \in Nat \ {0} /\ Len(waiting) \in Nat /\ waiting \in Seq(Cells)
      /\ Len(<< >>) = 0
      /\ MaxSendBufSize \in Nat /\ buf \in BufferState /\ sending \in BOOLEAN
  BY EmptySeq, LenProperties, BufferAssumption DEF TypeInv, TypeOK
<1>1. CASE Overflows(data)
  <2>1. waiting' = << >> /\ buf' = buf /\ writes' = writes
    BY <1>1 DEF SendDataAsync, DropWaiting
  <2>2. InFlight' = InFlight /\ buf.waitingLen \in Nat
    BY <1>0, <2>1 DEF InFlight, BufferState
  <2> QED BY <1>0, <2>1, <2>2 DEF BuffersHold
<1>2. CASE ~Overflows(data)
  <2> DEFINE need == Len(data) + Len(waiting)
             b == Reserve(buf, need)
  <2>1. need \in Nat \ {0} /\ need <= MaxSendBufSize
    BY <1>0, <1>2 DEF Overflows
  <2>2. b \in BufferState /\ need <= b.waitingLen /\ b.sendLen = buf.sendLen
    BY <1>0, <2>1, ReserveType, ReserveHolds
  <2>3. waiting \o data \in Seq(Cells) /\ Len(waiting \o data) = need
    BY <1>0, ConcatProperties
  <2>4. CASE sending
    <3>1. waiting' = waiting \o data /\ buf' = b /\ writes' = writes
      BY <1>2, <2>4 DEF SendDataAsync, AcceptData
    <3>2. InFlight' = InFlight
      BY <3>1 DEF InFlight
    <3> HIDE DEF need, b
    <3> QED BY <2>1, <2>2, <2>3, <3>1, <3>2 DEF BuffersHold
  <2>5. CASE ~sending
    <3>1. DoSendData(waiting \o data, b, queue)
      BY <1>2, <2>5 DEF SendDataAsync, AcceptData
    <3>2. writes = << >>
      BY <2>5 DEF OneWrite
    <3> HIDE DEF need, b
    <3> QED BY <2>2, <2>3, <3>1, <3>2, DoSendDataHolds
  <2> QED BY <1>0, <2>4, <2>5
<1> QED BY <1>1, <1>2

(* Steps that leave the buffers alone. *)
LEMMA BuffersUntouched ==
  ASSUME BuffersHold, UNCHANGED <<waiting, buf, writes>>
  PROVE  BuffersHold'
BY DEF BuffersHold, InFlight

LEMMA NoBytesHold ==
  ASSUME BuffersHold, TypeInv, waiting' \in {waiting, << >>}, buf' = buf, writes' \in {writes, << >>}
  PROVE  BuffersHold'
<1>1. /\ Len(<< >>) = 0 /\ buf.waitingLen \in Nat /\ buf.sendLen \in Nat /\ MaxSendBufSize \in Nat
  BY EmptySeq, BufferAssumption DEF TypeInv, TypeOK, BufferState
<1>2. InFlight' \in {InFlight, << >>}
  BY DEF InFlight
<1> QED BY <1>1, <1>2 DEF BuffersHold

LEMMA StrandBuffers ==
  ASSUME TypeInv, StreamInv, BuffersHold, StrandRuns
  PROVE  BuffersHold'
<1>1. CASE HandleSendData
  <2>1. /\ DoSendData(waiting, buf, Tail(posted))
        /\ posted # << >> /\ IsCompletion(Head(posted)) /\ doing = "idle"
    BY <1>1 DEF HandleSendData, Runs, IsCompletion
  <2>2. posted \in Seq(Handlers) /\ waiting \in Seq(Cells) /\ buf \in BufferState
    BY DEF TypeInv, TypeOK
  <2>3. connected => writes = << >>
    BY <2>1, <2>2, TokenIsWriteToken, TokenRunCompletion DEF StreamInv
  <2>4. ~connected => writes = << >>
    BY <2>1 DEF StreamInv, CloseOrder, OneWrite
  <2> QED BY <2>1, <2>2, <2>3, <2>4, DoSendDataHolds DEF BuffersHold
<1>2. CASE HandleConnectionError \/ HandleClose \/ Report
  <2>1. UNCHANGED <<waiting, buf, writes>>
    BY <1>2 DEF HandleConnectionError, HandleClose, Report, connVars, netVars
  <2> QED BY <2>1, BuffersUntouched
<1>3. CASE CloseSocket \/ ClearBuffer
  <2>1. waiting' \in {waiting, << >>} /\ buf' = buf /\ writes' \in {writes, << >>}
    BY <1>3 DEF CloseSocket, ClearBuffer, connVars, netVars
  <2> QED BY <2>1, NoBytesHold
<1>4. CASE HandleKeepAlive
  <2>1. CASE connected
    <3>1. Message(Strand, KeepAliveLen) \in Seq(Cells) /\ Message(Strand, KeepAliveLen) # << >>
      BY MessageType, SendAssumption DEF Sources, TypeInv
    <3>2. SendDataAsync(Message(Strand, KeepAliveLen), Tail(posted))
      BY <1>4, <2>1 DEF HandleKeepAlive
    <3> QED BY <3>1, <3>2, SendDataAsyncHolds DEF StreamInv
  <2>2. CASE ~connected
    <3>1. UNCHANGED <<waiting, buf, writes>>
      BY <1>4, <2>2 DEF HandleKeepAlive
    <3> QED BY <3>1, BuffersUntouched
  <2> QED BY <2>1, <2>2
<1> QED BY <1>1, <1>2, <1>3, <1>4 DEF StrandRuns

LEMMA BuffersStep == TypeInv /\ StreamInv /\ BuffersHold /\ [Next]_vars => BuffersHold'
<1> SUFFICES ASSUME TypeInv, StreamInv, BuffersHold, [Next]_vars PROVE BuffersHold'
  OBVIOUS
<1> USE DEF connVars, strandVars, netVars, threadVars, history
<1>1. ASSUME NEW s \in Senders, Thread(s)
      PROVE  BuffersHold'
  <2>1. CASE AsyncSend(s)
    <3>1. PICK n \in Lens : SendDataAsync(Message(s, n), posted)
      BY <2>1 DEF AsyncSend
    <3>2. Message(s, n) \in Seq(Cells) /\ Message(s, n) # << >>
      BY MessageType, SendAssumption DEF Sources, TypeInv
    <3> QED BY <3>1, <3>2, SendDataAsyncHolds DEF StreamInv
  <2>2. CASE Check(s) \/ SyncBegin(s) \/ SyncReturn(s) \/ SyncThrow(s)
    <3>1. UNCHANGED <<waiting, buf, writes>>
      BY <2>2 DEF Check, SyncBegin, SyncReturn, SyncThrow
    <3> QED BY <3>1, BuffersUntouched
  <2> QED BY <1>1, <2>1, <2>2 DEF Thread
<1>2. CASE StrandRuns
  BY <1>2, StrandBuffers
<1>3. ASSUME NEW i \in DOMAIN writes, TakeAsync(i)
      PROVE  BuffersHold'
  <2>1. i = 1 /\ writes # << >> /\ writes[1] \in Seq(Cells) /\ writes[1] # << >>
    BY <1>3, OnlyIndex DEF TakeAsync, StreamInv
  <2>2. /\ Len(Tail(writes[1])) = Len(writes[1]) - 1 /\ Len(writes[1]) \in Nat
    BY <2>1
  <2>3. writes' = [writes EXCEPT ![1] = Tail(@)] /\ waiting' = waiting /\ buf' = buf
    BY <1>3, <2>1 DEF TakeAsync
  <2>4. writes \in Seq(Seq(Cells)) /\ 1 \in DOMAIN writes /\ buf.sendLen \in Nat
    BY <1>3, <2>1 DEF TypeInv, TypeOK, BufferState
  <2>5. writes' # << >> /\ writes'[1] = Tail(writes[1])
    BY <2>3, <2>4
  <2>6. Len(InFlight') = Len(InFlight) - 1 /\ Len(InFlight) \in Nat
    BY <2>1, <2>2, <2>5 DEF InFlight
  <2> QED BY <2>3, <2>4, <2>6 DEF BuffersHold
<1>4. ASSUME NEW i \in DOMAIN writes, Complete(i)
      PROVE  BuffersHold'
  <2>1. writes' = << >> /\ waiting' = waiting /\ buf' = buf
    BY <1>4, CompleteEmpties DEF Complete, StreamInv
  <2> QED BY <2>1, NoBytesHold
<1>5. CASE (\E s \in Senders : TakeSync(s)) \/ ReadFails \/ Break \/ Close \/ TimeoutTimer
            \/ KeepAliveTimer \/ Terminated \/ UNCHANGED vars
  <2>1. UNCHANGED <<waiting, buf, writes>>
    BY <1>5 DEF TakeSync, ReadFails, Break, Close, TimeoutTimer, KeepAliveTimer, Terminated, vars
  <2> QED BY <2>1, BuffersUntouched
<1> QED BY <1>1, <1>2, <1>3, <1>4, <1>5 DEF Next, Take, Completion

(* Whatever lengths are sent, in whatever order: no copy and no write goes *)
(* past the end of a buffer.                                               *)
THEOREM BuffersKept == Spec => []BuffersHold
<1>1. Init => BuffersHold
  BY EmptySeq, BufferAssumption DEF Init, BuffersHold, InFlight, EmptyBuffers
<1> QED BY TypeInvInit, TypeInvStep, StreamInvInit, StreamInvStep, <1>1, BuffersStep, PTL DEF Spec

-----------------------------------------------------------------------------
(***************************************************************************)
(* Whole messages.  A cell knows its place in its message, so a sequence   *)
(* of cells shows whether each message was ended before the next began.    *)
(***************************************************************************)
Follows(c, d) == \/ d = <<c[1], c[2], c[3] + 1, c[4]>>
                 \/ c[3] = c[4] /\ d[3] = 1

InTurn(q) == \A i \in 1..(Len(q) - 1) : Follows(q[i], q[i + 1])

EndedAt(q, n) == n = 0 \/ q[n][3] = q[n][4]

Whole(q) == InTurn(q) /\ EndedAt(q, Len(q))

Messages == {m \in Seq(Cells) : m # << >> /\ m[1][3] = 1 /\ Whole(m)}

LEMMA MessageWhole ==
  ASSUME TypeOK, NEW s \in Sources, NEW n \in Nat \ {0}
  PROVE  Message(s, n) \in Messages
<1>1. Message(s, n) \in Seq(Cells) /\ Message(s, n) # << >>
  BY MessageType
<1>2. Message(s, n) = [i \in 1..n |-> <<s, calls[s], i, n>>]
  BY DEF Message
<1> DEFINE m == Message(s, n)
<1>3. Len(m) = n /\ \A i \in 1..n : m[i] = <<s, calls[s], i, n>>
  BY <1>1, <1>2, LenProperties
<1> HIDE DEF m
<1>4. \A i \in 1..n : m[i][1] = s /\ m[i][2] = calls[s] /\ m[i][3] = i /\ m[i][4] = n
  BY <1>3
<1>5. 1 \in 1..n /\ n \in 1..n /\ \A i \in 1..(n - 1) : i \in 1..n /\ i + 1 \in 1..n
  OBVIOUS
<1>6. m[1][3] = 1 /\ EndedAt(m, Len(m))
  BY <1>3, <1>4, <1>5 DEF EndedAt
<1>7. ASSUME NEW i \in 1..(n - 1) PROVE Follows(m[i], m[i + 1])
  <2>1. m[i + 1] = <<s, calls[s], i + 1, n>>
    BY <1>3, <1>5
  <2> QED BY <2>1, <1>4, <1>5 DEF Follows
<1>8. InTurn(m)
  BY <1>3, <1>7 DEF InTurn
<1> QED BY <1>1, <1>6, <1>8 DEF Messages, Whole, m

(* A message that starts where another has ended leaves all whole. *)
LEMMA JoinWhole ==
  ASSUME NEW q \in Seq(Cells), NEW m \in Messages, Whole(q)
  PROVE  Whole(q \o m)
<1>1. /\ m \in Seq(Cells) /\ m # << >> /\ m[1][3] = 1
      /\ InTurn(m) /\ EndedAt(m, Len(m)) /\ InTurn(q) /\ EndedAt(q, Len(q))
  BY DEF Messages, Whole
<1>2. PICK a, b : /\ a \in Nat /\ a = Len(q) /\ b \in Nat /\ b = Len(m) /\ b # 0
  BY <1>1, LenProperties, EmptySeq
<1> DEFINE r == q \o m
<1>3. /\ Len(r) = a + b
      /\ \A i \in 1..a : r[i] = q[i]
      /\ \A j \in 1..b : r[a + j] = m[j]
  <2>1. /\ Len(r) = a + b
        /\ \A i \in 1..a : r[i] = q[i]
        /\ \A i \in (a + 1)..(a + b) : r[i] = m[i - a]
    BY <1>1, <1>2, ConcatProperties
  <2> HIDE DEF r
  <2>2. \A j \in 1..b : a + j \in (a + 1)..(a + b) /\ (a + j) - a = j
    BY <1>2
  <2>3. \A j \in 1..b : r[a + j] = m[j]
    BY <2>1, <2>2
  <2> QED BY <2>1, <2>3
<1> HIDE DEF r
<1>4. ASSUME NEW i \in 1..(a + b - 1) PROVE Follows(r[i], r[i + 1])
  <2>1. CASE i < a
    <3>1. i \in 1..a /\ i + 1 \in 1..a /\ i \in 1..(a - 1)
      BY <1>2, <2>1
    <3>2. r[i] = q[i] /\ r[i + 1] = q[i + 1]
      BY <1>3, <3>1
    <3> QED BY <1>1, <1>2, <3>1, <3>2 DEF InTurn
  <2>2. CASE i = a
    <3>1. i \in 1..a /\ 1 \in 1..b /\ a + 1 = i + 1
      BY <1>2, <2>2
    <3>2. r[i] = q[a] /\ r[i + 1] = m[1]
      BY <1>3, <2>2, <3>1
    <3>3. q[a][3] = q[a][4]
      BY <1>1, <1>2, <2>2 DEF EndedAt
    <3> QED BY <1>1, <3>2, <3>3 DEF Follows
  <2>3. CASE i > a
    <3>1. PICK j \in 1..(b - 1) : i = a + j
      <4>1. i - a \in 1..(b - 1) /\ i = a + (i - a)
        BY <1>2, <2>3
      <4> QED BY <4>1
    <3>2. j \in 1..b /\ j + 1 \in 1..b /\ i + 1 = a + (j + 1)
      BY <1>2, <3>1
    <3>3. r[i] = m[j] /\ r[i + 1] = m[j + 1]
      BY <1>3, <3>1, <3>2
    <3>4. Follows(m[j], m[j + 1])
      BY <1>1, <1>2 DEF InTurn
    <3> QED BY <3>3, <3>4
  <2> QED BY <1>2, <2>1, <2>2, <2>3
<1>5. InTurn(r)
  <2>1. Len(r) - 1 = a + b - 1
    BY <1>2, <1>3
  <2> QED BY <1>4, <2>1 DEF InTurn
<1>6. EndedAt(r, Len(r))
  <2>1. b \in 1..b
    BY <1>2
  <2>2. r[a + b] = m[b]
    BY <1>3, <2>1
  <2>3. m[b][3] = m[b][4]
    BY <1>1, <1>2 DEF EndedAt
  <2> QED BY <1>3, <2>2, <2>3 DEF EndedAt
<1> QED BY <1>5, <1>6 DEF Whole, r

-----------------------------------------------------------------------------
(***************************************************************************)
(* The refinement.  A step of the send path either leaves the stream       *)
(* alone, adds to it, drops what waits of it, or takes the next cell.      *)
(***************************************************************************)
TakenInOrder ==
  /\ Len(received) + Len(waiting) <= Len(log)
  /\ \A i \in 1..Len(received) : received[i] = log[i]

Keeps == /\ UNCHANGED <<received, log, cutAt>>
         /\ waiting' \in {waiting, << >>}
         /\ socket' = "closed" \/ (socket' # "closed" /\ socket # "closed")

Adds(data) == /\ log' = log \o data
              /\ waiting' \in {waiting \o data, << >>}
              /\ UNCHANGED <<received, cutAt, socket>>

Drops == /\ log' = SubSeq(log, 1, Len(log) - Len(waiting))
         /\ waiting' = << >>
         /\ cutAt' >= 0
         /\ UNCHANGED <<received, socket>>

Takes(c) == /\ socket = "open"
            /\ received' = Append(received, c)
            /\ UNCHANGED <<waiting, log, cutAt, socket>>

StreamStep == \/ Keeps
              \/ \E data \in Messages : Adds(data)
              \/ Drops
              \/ \E c \in Cells : Takes(c)

LEMMA SendDataAsyncIsStreamStep ==
  ASSUME TypeInv, NEW data \in Messages, NEW queue,
         SendDataAsync(data, queue), UNCHANGED <<received, socket>>
  PROVE  StreamStep
<1>1. CASE Overflows(data)
  <2>1. /\ waiting' = << >> /\ log' = SubSeq(log, 1, Len(log) - Len(waiting))
        /\ cutAt' = IF cutAt = -1 THEN Len(log) - Len(waiting) ELSE cutAt
    BY <1>1 DEF SendDataAsync, DropWaiting
  <2>2. cutAt' >= 0
    <3>1. /\ cutAt \in Nat \cup {-1} /\ Len(waiting) <= Len(log)
          /\ Len(log) \in Nat /\ Len(waiting) \in Nat
      BY LenProperties DEF TypeInv, TypeOK
    <3> QED BY <2>1, <3>1
  <2> QED BY <2>1, <2>2 DEF StreamStep, Drops
<1>2. CASE ~Overflows(data)
  <2>1. /\ log' = log \o data /\ cutAt' = cutAt
        /\ waiting' \in {waiting \o data, << >>}
    BY <1>2 DEF SendDataAsync, AcceptData, DoSendData
  <2> QED BY <2>1 DEF StreamStep, Adds
<1> QED BY <1>1, <1>2

LEMMA NextIsStreamStep ==
  ASSUME TypeInv, StreamInv, NoBlockingSend, SyncSenders = {}, [Next]_vars
  PROVE  StreamStep
<1> USE DEF connVars, strandVars, netVars, threadVars, history
<1>1. ASSUME NEW s \in Senders, Thread(s)
      PROVE  StreamStep
  <2>1. CASE AsyncSend(s)
    <3>1. PICK n \in Lens : SendDataAsync(Message(s, n), posted)
      BY <2>1 DEF AsyncSend
    <3>2. Message(s, n) \in Messages
      BY MessageWhole, SendAssumption DEF Sources, TypeInv
    <3> QED BY <2>1, <3>1, <3>2, SendDataAsyncIsStreamStep DEF AsyncSend
  <2>2. CASE Check(s)
    BY <2>2 DEF Check, StreamStep, Keeps
  <2>3. ~SyncBegin(s) /\ ~SyncReturn(s) /\ ~SyncThrow(s)
    BY DEF SyncBegin, SyncReturn, SyncThrow, NoBlockingSend
  <2> QED BY <1>1, <2>1, <2>2, <2>3 DEF Thread
<1>2. CASE HandleSendData
  <2>1. waiting' = << >> /\ UNCHANGED <<received, log, cutAt, socket>>
    BY <1>2 DEF HandleSendData, DoSendData
  <2> QED BY <2>1 DEF StreamStep, Keeps
<1>3. CASE HandleConnectionError \/ HandleClose \/ ClearBuffer \/ Report
  <2>1. waiting' \in {waiting, << >>} /\ UNCHANGED <<received, log, cutAt, socket>>
    BY <1>3 DEF HandleConnectionError, HandleClose, ClearBuffer, Report
  <2> QED BY <2>1 DEF StreamStep, Keeps
<1>4. CASE CloseSocket
  <2>1. waiting' = waiting /\ socket' = "closed" /\ UNCHANGED <<received, log, cutAt>>
    BY <1>4 DEF CloseSocket
  <2> QED BY <2>1 DEF StreamStep, Keeps
<1>5. CASE HandleKeepAlive
  <2>1. CASE connected
    <3>1. Message(Strand, KeepAliveLen) \in Messages
      BY MessageWhole, SendAssumption DEF Sources, TypeInv
    <3>2. SendDataAsync(Message(Strand, KeepAliveLen), Tail(posted))
          /\ UNCHANGED <<received, socket>>
      BY <1>5, <2>1 DEF HandleKeepAlive
    <3> QED BY <3>1, <3>2, SendDataAsyncIsStreamStep
  <2>2. CASE ~connected
    BY <1>5, <2>2 DEF HandleKeepAlive, StreamStep, Keeps
  <2> QED BY <2>1, <2>2
<1>6. ASSUME NEW i \in DOMAIN writes, TakeAsync(i)
      PROVE  StreamStep
  <2>1. i = 1 /\ writes[1] \in Seq(Cells) /\ writes[1] # << >>
    BY <1>6, OnlyIndex DEF TakeAsync, StreamInv
  <2>2. Head(writes[1]) \in Cells
    BY <2>1, HeadTailProperties
  <2> QED BY <1>6, <2>1, <2>2 DEF TakeAsync, StreamStep, Takes
<1>7. ~\E s \in Senders : TakeSync(s)
  BY DEF TakeSync, NoBlockingSend
<1>8. CASE (\E i \in DOMAIN writes : Complete(i)) \/ ReadFails \/ Close \/ TimeoutTimer
            \/ KeepAliveTimer \/ Terminated \/ UNCHANGED vars
  <2>1. UNCHANGED <<received, log, cutAt, socket, waiting>>
    BY <1>8 DEF Complete, ReadFails, Close, TimeoutTimer, KeepAliveTimer, Terminated, vars
  <2> QED BY <2>1 DEF StreamStep, Keeps
<1>9. CASE Break
  BY <1>9 DEF Break, StreamStep, Keeps
<1> QED BY <1>1, <1>2, <1>3, <1>4, <1>5, <1>6, <1>7, <1>8, <1>9
           DEF Next, StrandRuns, Take, Completion

(* While the socket is open the stream is conserved, so what it took is a  *)
(* beginning of what was accepted and has left the buffer.                 *)
LEMMA OpenTakesInOrder ==
  TypeInv /\ OneWrite /\ StreamConserved /\ socket = "open" => TakenInOrder
<1> SUFFICES ASSUME TypeInv, OneWrite, StreamConserved, socket = "open"
             PROVE  TakenInOrder
  OBVIOUS
<1>1. received \in Seq(Cells) /\ waiting \in Seq(Cells) /\ writes \in Seq(Seq(Cells))
  BY DEF TypeInv, TypeOK
<1>2. InFlight \in Seq(Cells)
  <2>1. CASE writes = << >>
    BY <2>1, EmptySeq DEF InFlight
  <2>2. CASE writes # << >>
    <3>1. 1 \in 1..Len(writes)
      BY <1>1, <2>2, EmptySeq
    <3> QED BY <1>1, <2>2, <3>1, ElementOfSeq DEF InFlight
  <2> QED BY <2>1, <2>2
<1>3. log = (received \o InFlight) \o waiting
  BY DEF StreamConserved
<1>4. /\ received \o InFlight \in Seq(Cells)
      /\ Len(received \o InFlight) = Len(received) + Len(InFlight)
      /\ \A i \in 1..Len(received) : (received \o InFlight)[i] = received[i]
      /\ Len(received) \in Nat /\ Len(InFlight) \in Nat /\ Len(waiting) \in Nat
  BY <1>1, <1>2, ConcatProperties, LenProperties
<1>5. /\ Len(log) = Len(received) + Len(InFlight) + Len(waiting)
      /\ \A i \in 1..Len(received) : log[i] = (received \o InFlight)[i]
  BY <1>1, <1>3, <1>4, ConcatProperties
<1> QED BY <1>4, <1>5 DEF TakenInOrder

LEMMA OpenTakesInOrderNext ==
  (TypeInv /\ OneWrite /\ StreamConserved /\ socket = "open" => TakenInOrder)'
BY OpenTakesInOrder, PTL

LEMMA TakenInOrderStep ==
  ASSUME TypeInv, TypeInv', StreamInv', SyncSenders = {}, TakenInOrder, StreamStep
  PROVE  TakenInOrder'
<1>1. CASE socket' = "open"
  BY <1>1, OpenTakesInOrderNext DEF StreamInv
<1>2. CASE socket' # "open"
  <2>0. /\ log \in Seq(Cells) /\ waiting \in Seq(Cells)
        /\ Len(log) \in Nat /\ Len(waiting) \in Nat /\ Len(received) \in Nat
        /\ Len(<< >>) = 0
    BY LenProperties DEF TypeInv, TypeOK
  <2>1. CASE Keeps
    <3>1. Len(waiting') <= Len(waiting) /\ Len(waiting') \in Nat
      BY <2>0, <2>1 DEF Keeps
    <3> QED BY <2>0, <2>1, <3>1 DEF Keeps, TakenInOrder
  <2>2. ASSUME NEW data \in Seq(Cells), Adds(data)
        PROVE  TakenInOrder'
    <3>1. /\ Len(log') = Len(log) + Len(data) /\ Len(data) \in Nat
          /\ \A i \in 1..Len(log) : log'[i] = log[i]
      BY <2>0, <2>2, ConcatProperties DEF Adds
    <3>2. Len(waiting') <= Len(waiting) + Len(data) /\ Len(waiting') \in Nat
      BY <2>0, <2>2, ConcatProperties DEF Adds
    <3>3. received' = received
      BY <2>2 DEF Adds
    <3>4. Len(received') + Len(waiting') <= Len(log')
      BY <2>0, <3>1, <3>2, <3>3 DEF TakenInOrder
    <3>5. \A i \in 1..Len(received) : i \in 1..Len(log) /\ received[i] = log[i]
      BY <2>0 DEF TakenInOrder
    <3>6. \A i \in 1..Len(received') : received'[i] = log'[i]
      BY <3>1, <3>3, <3>5
    <3> QED BY <3>4, <3>6 DEF TakenInOrder
  <2>3. CASE Drops
    <3>1. Len(waiting) <= Len(log) /\ \A i \in 1..(Len(log) - Len(waiting)) : log[i] \in Cells
      BY <2>0, ElementOfSeq DEF TypeInv
    <3>2. /\ Len(log') = Len(log) - Len(waiting)
          /\ \A i \in 1..(Len(log) - Len(waiting)) : log'[i] = log[i]
      <4> DEFINE n == Len(log) - Len(waiting)
      <4>1. n \in Nat
        BY <2>0, <3>1
      <4>2. log' = SubSeq(log, 1, n)
        BY <2>3 DEF Drops
      <4>3. /\ Len(log') = IF 1 <= n THEN n - 1 + 1 ELSE 0
            /\ \A i \in 1..(n - 1 + 1) : log'[i] = log[1 + i - 1]
        BY <3>1, <4>1, <4>2, SubSeqProperties
      <4> HIDE DEF n
      <4>4. Len(log') = n /\ \A i \in 1..n : log'[i] = log[i]
        BY <4>1, <4>3
      <4> QED BY <4>4 DEF n
    <3>3. received' = received /\ waiting' = << >>
      BY <2>3 DEF Drops
    <3> QED BY <2>0, <3>1, <3>2, <3>3 DEF TakenInOrder
  <2>4. ASSUME NEW c \in Cells PROVE ~Takes(c)
    BY <1>2 DEF Takes
  <2> QED BY <2>1, <2>2, <2>3, <2>4 DEF StreamStep, Messages
<1> QED BY <1>1, <1>2

(* Prefixes, element by element. *)
LEMMA PrefixByElements ==
  ASSUME NEW S, NEW s \in Seq(S), NEW t \in Seq(S), Len(s) <= Len(t),
         \A i \in 1..Len(s) : s[i] = t[i]
  PROVE  IsPrefix(s, t)
<1>1. Len(s) \in Nat /\ Len(t) \in Nat
  BY LenProperties
<1>2. (\A i \in 1..Len(s) : s[i] \in S) /\ (\A i \in 1..Len(s) : t[i] \in S)
  BY <1>1, ElementOfSeq
<1>3. /\ SubSeq(s, 1, Len(s)) \in Seq(S) /\ SubSeq(t, 1, Len(s)) \in Seq(S)
      /\ Len(SubSeq(s, 1, Len(s))) = Len(SubSeq(t, 1, Len(s)))
      /\ \A i \in 1..(Len(s) - 1 + 1) : /\ SubSeq(s, 1, Len(s))[i] = s[1 + i - 1]
                                       /\ SubSeq(t, 1, Len(s))[i] = t[1 + i - 1]
      /\ Len(SubSeq(s, 1, Len(s))) \in 0..Len(s)
  BY <1>1, <1>2, SubSeqProperties
<1>4. \A i \in 1..Len(SubSeq(s, 1, Len(s))) : SubSeq(s, 1, Len(s))[i] = SubSeq(t, 1, Len(s))[i]
  BY <1>1, <1>3
<1>5. SubSeq(s, 1, Len(s)) = SubSeq(t, 1, Len(s))
  BY <1>3, <1>4, SeqEqual
<1> QED BY <1>5 DEF IsPrefix

LEMMA StreamStepImplements ==
  ASSUME TypeInv, TypeInv', TakenInOrder, TakenInOrder', StreamStep
  PROVE  [Stream!Next]_Stream!streamVars
<1>0. /\ log \in Seq(Cells) /\ log' \in Seq(Cells) /\ waiting \in Seq(Cells)
      /\ received \in Seq(Cells) /\ received' \in Seq(Cells)
      /\ Len(log) \in Nat /\ Len(log') \in Nat /\ Len(waiting) \in Nat
      /\ Len(received) \in Nat /\ Len(received') \in Nat
  BY LenProperties DEF TypeInv, TypeOK
<1>1. CASE Keeps
  <2>1. CASE socket' = "closed" /\ socket # "closed"
    BY <1>1, <2>1 DEF Keeps, Stream!Next, Stream!Close
  <2>2. CASE (socket' = "closed") <=> (socket = "closed")
    BY <1>1, <2>2 DEF Keeps, Stream!streamVars
  <2> QED BY <1>1, <2>1, <2>2 DEF Keeps
<1>2. ASSUME NEW data \in Seq(Cells), data # << >>, Adds(data)
      PROVE  Stream!Accept
  <2>1. /\ Len(log') = Len(log) + Len(data) /\ Len(data) \in Nat
        /\ \A i \in 1..Len(log) : log'[i] = log[i]
    BY <1>0, <1>2, ConcatProperties DEF Adds
  <2>2. log # log'
    BY <1>0, <1>2, ConcatEqualIffEmpty DEF Adds
  <2>3. IsPrefix(log, log')
    <3>1. Len(log) <= Len(log')
      BY <1>0, <2>1
    <3> QED BY <1>0, <2>1, <3>1, PrefixByElements
  <2> QED BY <1>2, <2>2, <2>3 DEF Adds, Stream!Accept, Stream!IsStrictPrefix, Stream!IsPrefix, IsPrefix
<1>3. CASE Drops
  <2> DEFINE n == Len(log) - Len(waiting)
  <2>1. n \in Nat /\ n <= Len(log) /\ log' = SubSeq(log, 1, n)
    BY <1>0, <1>3 DEF Drops, TypeInv
  <2>2. \A i \in 1..n : log[i] \in Cells
    BY <1>0, <2>1, ElementOfSeq
  <2>3. /\ Len(log') = IF 1 <= n THEN n - 1 + 1 ELSE 0
        /\ \A i \in 1..(n - 1 + 1) : log'[i] = log[1 + i - 1]
    BY <2>1, <2>2, SubSeqProperties
  <2> HIDE DEF n
  <2>4. Len(log') <= Len(log) /\ \A i \in 1..Len(log') : log'[i] = log[i]
    BY <1>0, <2>1, <2>3
  <2>5. IsPrefix(log', log)
    BY <1>0, <2>4, PrefixByElements
  <2>6. Len(received) <= Len(log') /\ \A i \in 1..Len(received) : received[i] = log'[i]
    <3>1. received' = received /\ Len(waiting') \in Nat
      BY <1>3, LenProperties DEF Drops, TypeInv, TypeOK
    <3> QED BY <1>0, <3>1 DEF TakenInOrder
  <2>7. IsPrefix(received, log')
    BY <1>0, <2>6, PrefixByElements
  <2>8. Stream!Overflow
    BY <1>3, <2>5, <2>7 DEF Drops, Stream!Overflow, Stream!IsPrefix, IsPrefix
  <2> QED BY <2>8 DEF Stream!Next
<1>4. ASSUME NEW c \in Cells, Takes(c)
      PROVE  Stream!Deliver
  <2>1. /\ received' = Append(received, c) /\ UNCHANGED <<waiting, log, cutAt, socket>>
        /\ socket = "open"
    BY <1>4 DEF Takes
  <2>2. /\ Len(received') = Len(received) + 1
        /\ \A i \in 1..Len(received) : received[i] = received'[i]
    BY <1>0, <2>1
  <2>3. IsPrefix(received, received') /\ received # received'
    BY <1>0, <2>2, PrefixByElements
  <2>4. Len(received') <= Len(log) /\ \A i \in 1..Len(received') : received'[i] = log[i]
    BY <1>0, <2>1 DEF TakenInOrder
  <2>5. IsPrefix(received', log)
    BY <1>0, <2>4, PrefixByElements
  <2> QED BY <2>1, <2>3, <2>5 DEF Stream!Deliver, Stream!IsStrictPrefix, Stream!IsPrefix, IsPrefix
<1> QED BY <1>1, <1>2, <1>3, <1>4 DEF StreamStep, Messages, Stream!Next

(* The asynchronous send path implements the stream of SendStream, for     *)
(* every number of threads, every data and every limit: the socket takes   *)
(* what was accepted in order and without gaps, and only an overflow,      *)
(* which dooms the connection, gives anything up.                          *)
THEOREM StreamImplemented == SyncSenders = {} => (Spec => ImplementsStream)
<1> SUFFICES ASSUME SyncSenders = {} PROVE Spec => ImplementsStream
  OBVIOUS
<1>1. Init => TakenInOrder /\ Stream!Init
  BY EmptySeq DEF Init, TakenInOrder, Stream!Init
<1>2. TypeInv /\ StreamInv /\ TakenInOrder /\ [Next]_vars
        => TakenInOrder' /\ [Stream!Next]_Stream!streamVars
  <2> SUFFICES ASSUME TypeInv, StreamInv, TakenInOrder, [Next]_vars
               PROVE  TakenInOrder' /\ [Stream!Next]_Stream!streamVars
    OBVIOUS
  <2>1. TypeInv' /\ StreamInv'
    BY TypeInvStep, StreamInvStep
  <2>2. StreamStep
    BY NextIsStreamStep DEF StreamInv
  <2>3. TakenInOrder'
    BY <2>1, <2>2, TakenInOrderStep
  <2> QED BY <2>1, <2>2, <2>3, StreamStepImplements
<1> QED BY TypeInvInit, TypeInvStep, StreamInvInit, StreamInvStep, <1>1, <1>2, PTL
        DEF Spec, ImplementsStream, Stream!Spec

-----------------------------------------------------------------------------
(***************************************************************************)
(* Messages in one piece.  Without blocking sends the accepted data is a   *)
(* sequence of whole messages, of which an overflow drops whole ones; what *)
(* the socket took is a beginning of it.                                   *)
(***************************************************************************)
LogWhole == Whole(log) /\ EndedAt(log, Len(log) - Len(waiting))

LEMMA LogWholeStep ==
  ASSUME TypeInv, TypeInv', LogWhole, StreamStep
  PROVE  LogWhole'
<1>0. PICK n, w : /\ n \in Nat /\ w \in Nat /\ n = Len(log) /\ w = Len(waiting) /\ w <= n
  BY LenProperties DEF TypeInv, TypeOK
<1>1. /\ log \in Seq(Cells) /\ waiting \in Seq(Cells) /\ Len(<< >>) = 0
      /\ Whole(log) /\ InTurn(log) /\ EndedAt(log, n) /\ EndedAt(log, n - w)
  BY <1>0 DEF TypeInv, TypeOK, LogWhole, Whole
<1>2. CASE Keeps \/ \E c \in Cells : Takes(c)
  <2>1. log' = log /\ (waiting' = waiting \/ waiting' = << >>)
    BY <1>2 DEF Keeps, Takes
  <2>2. Len(waiting') = w \/ Len(waiting') = 0
    BY <1>0, <1>1, <2>1
  <2>3. Len(log') - Len(waiting') = n - w \/ Len(log') - Len(waiting') = n
    BY <1>0, <2>1, <2>2
  <2>4. EndedAt(log, Len(log') - Len(waiting'))
    BY <1>1, <2>3
  <2>5. EndedAt(log, Len(log) - Len(waiting))'
    BY <2>1, <2>4 DEF EndedAt
  <2>6. Whole(log)'
    BY <1>1, <2>1
  <2> QED BY <2>5, <2>6 DEF LogWhole
<1>3. ASSUME NEW m \in Messages, Adds(m)
      PROVE  LogWhole'
  <2>1. /\ log' = log \o m
        /\ waiting' = waiting \o m \/ waiting' = << >>
    BY <1>3 DEF Adds
  <2>2. Whole(log \o m)
    BY <1>1, JoinWhole
  <2>3. Whole(log')
    BY <2>1, <2>2
  <2>4. PICK k \in Nat : /\ k = Len(m) /\ Len(log') = n + k
                         /\ \A i \in 1..n : log'[i] = log[i]
                         /\ Len(waiting') = w + k \/ Len(waiting') = 0
    BY <1>0, <1>1, <2>1, ConcatProperties, LenProperties DEF Messages
  <2>5. CASE Len(waiting') = w + k
    <3>1. Len(log') - Len(waiting') = n - w
      BY <1>0, <2>4, <2>5
    <3>2. n - w = 0 \/ n - w \in 1..n
      BY <1>0
    <3>3. EndedAt(log', n - w)
      BY <1>1, <2>4, <3>2 DEF EndedAt
    <3>4. EndedAt(log', Len(log') - Len(waiting'))
      BY <3>1, <3>3
    <3> QED BY <2>3, <3>4 DEF LogWhole, Whole, InTurn, EndedAt
  <2>6. CASE Len(waiting') = 0
    <3>1. Len(log') - Len(waiting') = Len(log')
      BY <1>0, <2>4, <2>6
    <3>2. EndedAt(log', Len(log') - Len(waiting'))
      BY <2>3, <3>1 DEF Whole
    <3> QED BY <2>3, <3>2 DEF LogWhole, Whole, InTurn, EndedAt
  <2> QED BY <2>4, <2>5, <2>6
<1>4. CASE Drops
  <2>1. log' = SubSeq(log, 1, n - w) /\ waiting' = << >>
    BY <1>0, <1>4 DEF Drops
  <2>2. PICK k \in Nat : k = n - w /\ k <= n
    <3>1. n - w \in Nat /\ n - w <= n
      BY <1>0
    <3> QED BY <3>1
  <2>3. Len(log') = k /\ \A i \in 1..k : log'[i] = log[i]
    <3>1. \A i \in 1..k : log[i] \in Cells
      BY <1>0, <1>1, <2>2, ElementOfSeq
    <3>2. /\ Len(log') = IF 1 <= k THEN k - 1 + 1 ELSE 0
          /\ \A i \in 1..(k - 1 + 1) : log'[i] = log[1 + i - 1]
      BY <2>1, <2>2, <3>1, SubSeqProperties
    <3> QED BY <2>2, <3>2
  <2>4. InTurn(log')
    <3>1. \A i \in 1..(k - 1) : i \in 1..k /\ i + 1 \in 1..k /\ i \in 1..(n - 1)
      BY <1>0, <2>2
    <3>2. \A i \in 1..(k - 1) : Follows(log'[i], log'[i + 1])
      BY <1>0, <1>1, <2>3, <3>1 DEF InTurn
    <3> QED BY <2>3, <3>2 DEF InTurn
  <2>5. EndedAt(log', k)
    <3>1. k = 0 \/ k \in 1..k
      OBVIOUS
    <3> QED BY <1>1, <2>2, <2>3, <3>1 DEF EndedAt
  <2>6. Len(log') - Len(waiting') = k
    BY <1>1, <2>1, <2>2, <2>3
  <2>7. Whole(log') /\ EndedAt(log', Len(log') - Len(waiting'))
    BY <2>3, <2>4, <2>5, <2>6 DEF Whole
  <2> QED BY <2>7 DEF LogWhole, Whole, InTurn, EndedAt
<1> QED BY <1>2, <1>3, <1>4 DEF StreamStep

LEMMA TakenContiguous == TypeInv /\ TakenInOrder /\ LogWhole => MessagesContiguous
<1> SUFFICES ASSUME TypeInv, TakenInOrder, LogWhole PROVE MessagesContiguous
  OBVIOUS
<1>1. PICK a, n : /\ a \in Nat /\ n \in Nat /\ a = Len(received) /\ n = Len(log) /\ a <= n
                  /\ \A i \in 1..a : received[i] = log[i]
  <2>1. Len(received) \in Nat /\ Len(log) \in Nat /\ Len(waiting) \in Nat
    BY LenProperties DEF TypeInv, TypeOK
  <2>2. Len(received) <= Len(log)
    BY <2>1 DEF TakenInOrder
  <2> QED BY <2>1, <2>2 DEF TakenInOrder
<1>2. ASSUME NEW i \in 1..(a - 1) PROVE Follows(received[i], received[i + 1])
  <2>1. i \in 1..a /\ i + 1 \in 1..a /\ i \in 1..(n - 1)
    BY <1>1
  <2>2. Follows(log[i], log[i + 1])
    BY <1>1, <2>1 DEF LogWhole, Whole, InTurn
  <2> QED BY <1>1, <2>1, <2>2
<1> QED BY <1>1, <1>2 DEF MessagesContiguous, Follows

(* With blocking sends alone nothing is ever written asynchronously, the   *)
(* lock lets one thread write at a time, and what it has left goes on from *)
(* the last cell taken; a message that is cut short is the last one.       *)
OnlyBlocking == SyncSenders = Senders /\ MaxKeepAlives = 0

Async == {"sent", "keepAlive"}

NothingAsync == writes = << >> /\ \A i \in DOMAIN posted : posted[i] \notin Async

OneWriter == \A s \in Senders : /\ left[s] # << >> => pc[s] = "writing"
                                /\ pc[s] = "writing" => mutex = s

GoesOn(s) == IF received = << >> THEN left[s][1][3] = 1
             ELSE Follows(received[Len(received)], left[s][1])

InPieces ==
  /\ InTurn(received)
  /\ \A s \in Senders : Whole(left[s])
  /\ socket = "open" =>
       /\ \A s \in Senders : left[s] # << >> => GoesOn(s)
       /\ (\A s \in Senders : left[s] = << >>) => EndedAt(received, Len(received))

(* What is posted to the strand when a handler is added or has run. *)
LEMMA NothingAsyncPosts ==
  ASSUME TypeInv, NothingAsync, writes' = << >>,
         \/ posted' = posted
         \/ posted # << >> /\ posted' = Tail(posted)
         \/ \E h \in Handlers \ Async : posted' = Append(posted, h)
  PROVE  NothingAsync'
<1>1. posted \in Seq(Handlers) /\ \A i \in 1..Len(posted) : posted[i] \notin Async
  BY LenProperties DEF TypeInv, TypeOK, NothingAsync
<1>2. CASE posted' = posted
  BY <1>2 DEF NothingAsync
<1>3. CASE posted # << >> /\ posted' = Tail(posted)
  <2>1. /\ Tail(posted) \in Seq(Handlers) /\ Len(Tail(posted)) = Len(posted) - 1
        /\ \A i \in 1..Len(Tail(posted)) : Tail(posted)[i] = posted[i + 1]
    BY <1>1, <1>3, HeadTailProperties
  <2>2. Len(posted) \in Nat
    BY <1>1, LenProperties
  <2>3. \A i \in 1..Len(Tail(posted)) : Tail(posted)[i] \notin Async
    BY <1>1, <2>1, <2>2
  <2>4. DOMAIN Tail(posted) = 1..Len(Tail(posted))
    BY <2>1, LenProperties
  <2> QED BY <1>3, <2>3, <2>4 DEF NothingAsync
<1>4. ASSUME NEW h \in Handlers \ Async, posted' = Append(posted, h)
      PROVE  NothingAsync'
  <2>1. /\ Append(posted, h) \in Seq(Handlers) /\ Len(Append(posted, h)) = Len(posted) + 1
        /\ \A i \in 1..Len(posted) : Append(posted, h)[i] = posted[i]
        /\ Append(posted, h)[Len(posted) + 1] = h
    BY <1>1, AppendProperties
  <2>2. Len(posted) \in Nat
    BY <1>1, LenProperties
  <2>3. \A i \in 1..Len(Append(posted, h)) : Append(posted, h)[i] \notin Async
    <3>1. \A i \in 1..Len(Append(posted, h)) : i \in 1..Len(posted) \/ i = Len(posted) + 1
      BY <2>1, <2>2
    <3> QED BY <1>1, <2>1, <3>1
  <2>4. DOMAIN Append(posted, h) = 1..Len(Append(posted, h))
    BY <2>1, LenProperties
  <2> QED BY <1>4, <2>3, <2>4 DEF NothingAsync
<1> QED BY <1>2, <1>3, <1>4

LEMMA NothingAsyncStep ==
  ASSUME TypeInv, OnlyBlocking, NothingAsync, [Next]_vars
  PROVE  NothingAsync'
<1> USE DEF connVars, strandVars, netVars, threadVars, history
<1>0. writes = << >> /\ \A i \in 1..Len(posted) : posted[i] \notin Async
  BY LenProperties DEF TypeInv, TypeOK, NothingAsync
<1>1. ASSUME NEW s \in Senders, Thread(s)
      PROVE  NothingAsync'
  <2>1. CASE SyncThrow(s)
    <3>1. writes' = << >> /\ posted' = Append(posted, "connErr")
      BY <1>0, <2>1 DEF SyncThrow
    <3>2. "connErr" \in Handlers \ Async
      BY DEF Handlers, Async
    <3> QED BY <3>1, <3>2, NothingAsyncPosts
  <2>2. CASE Check(s) \/ SyncBegin(s) \/ SyncReturn(s)
    <3>1. writes' = << >> /\ posted' = posted
      BY <1>0, <2>2 DEF Check, SyncBegin, SyncReturn
    <3> QED BY <3>1, NothingAsyncPosts
  <2>3. ~AsyncSend(s)
    BY DEF AsyncSend, OnlyBlocking
  <2> QED BY <1>1, <2>1, <2>2, <2>3 DEF Thread
<1>2. posted # << >> => Head(posted) \notin Async
  <2> SUFFICES ASSUME posted # << >> PROVE Head(posted) \notin Async
    OBVIOUS
  <2>1. posted \in Seq(Handlers)
    BY DEF TypeInv, TypeOK
  <2>2. Head(posted) = posted[1] /\ Len(posted) \in Nat /\ Len(posted) # 0
    BY <2>1, HeadTailProperties, LenProperties, EmptySeq
  <2>3. 1 \in 1..Len(posted)
    BY <2>2
  <2> QED BY <1>0, <2>2, <2>3
<1>3. ~HandleSendData /\ ~HandleKeepAlive
  BY <1>2 DEF HandleSendData, HandleKeepAlive, Runs, Async
<1>4. CASE HandleConnectionError \/ HandleClose
  <2>1. writes' = << >> /\ posted # << >> /\ posted' = Tail(posted)
    BY <1>0, <1>4 DEF HandleConnectionError, HandleClose, Runs
  <2> QED BY <2>1, NothingAsyncPosts
<1>5. CASE CloseSocket
  <2>1. writes' = << >>
    BY <1>5 DEF CloseSocket
  <2>2. posted' = (posted \o [i \in 1..Len(writes) |-> "sendErr"])
                     \o (IF reading THEN <<"recvErr">> ELSE << >>)
    BY <1>5 DEF CloseSocket
  <2>3. posted' = posted \/ posted' = Append(posted, "recvErr")
    <3>1. [i \in 1..Len(writes) |-> "sendErr"] = << >>
      BY <1>0
    <3>2. posted \in Seq(Handlers) /\ "recvErr" \in Handlers
      BY DEF TypeInv, TypeOK, Handlers
    <3>3. posted \o << >> = posted /\ posted \o <<"recvErr">> = Append(posted, "recvErr")
      BY <3>2, ConcatEmptySeq, AppendIsConcat
    <3> QED BY <2>2, <3>1, <3>3
  <2>4. "recvErr" \in Handlers \ Async
    BY DEF Handlers, Async
  <2> QED BY <2>1, <2>3, <2>4, NothingAsyncPosts
<1>6. CASE ClearBuffer
  <2>1. writes' = << >> /\ posted' = posted
    BY <1>0, <1>6 DEF ClearBuffer
  <2> QED BY <2>1, NothingAsyncPosts
<1>7. CASE Report \/ Close
  <2>1. writes' = << >> /\ posted' = Append(posted, "close")
    BY <1>0, <1>7 DEF Report, Close
  <2>2. "close" \in Handlers \ Async
    BY DEF Handlers, Async
  <2> QED BY <2>1, <2>2, NothingAsyncPosts
<1>8. ASSUME NEW i \in DOMAIN writes PROVE FALSE
  BY <1>0
<1>9. CASE (\E s \in Senders : TakeSync(s)) \/ Break \/ Terminated \/ UNCHANGED vars
  <2>1. writes' = << >> /\ posted' = posted
    BY <1>0, <1>9 DEF TakeSync, Break, Terminated, vars
  <2> QED BY <2>1, NothingAsyncPosts
<1>10. CASE ReadFails
  <2>1. writes' = << >> /\ posted' = Append(posted, "recvErr")
    BY <1>0, <1>10 DEF ReadFails
  <2>2. "recvErr" \in Handlers \ Async
    BY DEF Handlers, Async
  <2> QED BY <2>1, <2>2, NothingAsyncPosts
<1>11. CASE TimeoutTimer
  <2>1. writes' = << >> /\ posted' = Append(posted, "timeout")
    BY <1>0, <1>11 DEF TimeoutTimer
  <2>2. "timeout" \in Handlers \ Async
    BY DEF Handlers, Async
  <2> QED BY <2>1, <2>2, NothingAsyncPosts
<1>12. ~KeepAliveTimer
  <2>1. calls[Strand] \in Nat
    BY DEF TypeInv, TypeOK, Sources
  <2> QED BY <2>1 DEF KeepAliveTimer, OnlyBlocking
<1> QED BY <1>1, <1>3, <1>4, <1>5, <1>6, <1>7, <1>8, <1>9, <1>10, <1>11, <1>12
           DEF Next, StrandRuns, Take, Completion

LEMMA OneWriterStep ==
  ASSUME TypeInv, OneWriter, [Next]_vars
  PROVE  OneWriter'
<1> USE DEF connVars, strandVars, netVars, threadVars, history
<1>0. /\ pc \in [Senders -> {"idle", "checked", "writing"}]
      /\ left \in [Senders -> Seq(Cells)]
  BY DEF TypeInv, TypeOK
<1>1. ASSUME NEW s \in Senders, Check(s) \/ AsyncSend(s)
      PROVE  OneWriter'
  <2>1. /\ mutex' = mutex /\ left' = left /\ pc[s] # "writing"
        /\ \E p \in {"idle", "checked"} : pc' = [pc EXCEPT ![s] = p]
    BY <1>1 DEF Check, AsyncSend
  <2> QED BY <1>0, <2>1 DEF OneWriter
<1>2. ASSUME NEW s \in Senders, SyncBegin(s)
      PROVE  OneWriter'
  <2>1. /\ mutex = NoOwner /\ mutex' = s /\ pc' = [pc EXCEPT ![s] = "writing"]
        /\ \E q : left' = [left EXCEPT ![s] = q]
    BY <1>2 DEF SyncBegin
  <2>2. \A t \in Senders : pc[t] # "writing" /\ left[t] = << >>
    BY <2>1, SendAssumption DEF OneWriter
  <2> QED BY <1>0, <2>1, <2>2 DEF OneWriter
<1>3. ASSUME NEW s \in Senders, SyncReturn(s) \/ SyncThrow(s)
      PROVE  OneWriter'
  <2>1. /\ pc[s] = "writing" /\ pc' = [pc EXCEPT ![s] = "idle"]
        /\ left' = [left EXCEPT ![s] = << >>]
    <3>1. CASE SyncReturn(s)
      <4>1. left[s] = << >> /\ left' = left
        BY <3>1 DEF SyncReturn
      <4>2. [left EXCEPT ![s] = << >>] = left
        BY <1>0, <4>1
      <4> QED BY <3>1, <4>1, <4>2 DEF SyncReturn
    <3>2. CASE SyncThrow(s)
      BY <3>2 DEF SyncThrow
    <3> QED BY <1>3, <3>1, <3>2
  <2>2. \A t \in Senders \ {s} : pc[t] # "writing" /\ left[t] = << >>
    BY <2>1 DEF OneWriter
  <2> QED BY <1>0, <2>1, <2>2 DEF OneWriter
<1>4. ASSUME NEW s \in Senders, TakeSync(s)
      PROVE  OneWriter'
  <2>1. /\ left[s] # << >> /\ mutex' = mutex /\ pc' = pc
        /\ left' = [left EXCEPT ![s] = Tail(@)]
    BY <1>4 DEF TakeSync
  <2> QED BY <1>0, <2>1 DEF OneWriter
<1>5. CASE StrandRuns \/ (\E i \in DOMAIN writes : TakeAsync(i)) \/ Completion \/ Break \/ Close
            \/ TimeoutTimer \/ KeepAliveTimer \/ Terminated \/ UNCHANGED vars
  <2>1. UNCHANGED <<mutex, pc, left>>
    BY <1>5 DEF StrandRuns, HandleSendData, HandleConnectionError, HandleClose, CloseSocket,
                ClearBuffer, Report, HandleKeepAlive, TakeAsync, Completion, Complete,
                ReadFails, Break, Close, TimeoutTimer, KeepAliveTimer, Terminated, vars
  <2> QED BY <2>1 DEF OneWriter
<1> QED BY <1>1, <1>2, <1>3, <1>4, <1>5 DEF Next, Thread, Take

(* One cell more: what is left of the message goes on from it. *)
LEMMA TakeGoesOn ==
  ASSUME NEW r \in Seq(Cells), NEW q \in Seq(Cells), q # << >>,
         InTurn(r), Whole(q),
         IF r = << >> THEN q[1][3] = 1 ELSE Follows(r[Len(r)], q[1]),
         NEW taken, taken = Append(r, Head(q))
  PROVE  /\ InTurn(taken) /\ taken # << >> /\ Whole(Tail(q))
         /\ Tail(q) # << >> => Follows(taken[Len(taken)], Tail(q)[1])
         /\ Tail(q) = << >> => EndedAt(taken, Len(taken))
<1>1. PICK a, b : /\ a \in Nat /\ b \in Nat /\ b # 0 /\ a = Len(r) /\ b = Len(q)
                  /\ a = 0 <=> r = << >>
  <2>1. Len(r) \in Nat /\ (r # << >> => Len(r) # 0) /\ Len(<< >>) = 0
    BY LenProperties, EmptySeq
  <2>2. Len(q) \in Nat /\ Len(q) # 0
    BY LenProperties, EmptySeq
  <2>3. Len(r) = 0 <=> r = << >>
    BY <2>1
  <2> QED BY <2>1, <2>2, <2>3
<1>2. /\ Head(q) = q[1] /\ Tail(q) \in Seq(Cells) /\ Len(Tail(q)) = b - 1
      /\ \A i \in 1..(b - 1) : Tail(q)[i] = q[i + 1]
      /\ Tail(q) = << >> <=> b - 1 = 0
  <2>1. /\ Head(q) = q[1] /\ Tail(q) \in Seq(Cells) /\ Len(Tail(q)) = Len(q) - 1
        /\ \A i \in 1..Len(Tail(q)) : Tail(q)[i] = q[i + 1]
    BY HeadTailProperties
  <2>2. Len(Tail(q)) = b - 1
    BY <1>1, <2>1
  <2>3. \A i \in 1..(b - 1) : Tail(q)[i] = q[i + 1]
    BY <2>1, <2>2
  <2>4. Tail(q) = << >> <=> Len(Tail(q)) = 0
    BY <2>1, EmptySeq
  <2> QED BY <2>1, <2>2, <2>3, <2>4
<1>3. q[1] \in Cells
  <2>1. 1 \in 1..b
    BY <1>1
  <2> QED BY <1>1, <2>1, ElementOfSeq
<1>4. /\ taken \in Seq(Cells) /\ taken # << >> /\ Len(taken) = a + 1
      /\ \A i \in 1..a : taken[i] = r[i]
      /\ taken[a + 1] = q[1]
  BY <1>1, <1>2, <1>3, AppendProperties
<1>5. InTurn(q) /\ EndedAt(q, b)
  BY <1>1 DEF Whole
<1>6. InTurn(taken)
  <2>1. ASSUME NEW i \in 1..a PROVE Follows(taken[i], taken[i + 1])
    <3>1. CASE i = a
      <4>1. r # << >> /\ Follows(r[a], q[1])
        BY <1>1, <3>1
      <4> QED BY <1>1, <1>4, <3>1, <4>1
    <3>2. CASE i < a
      <4>1. i \in 1..(a - 1) /\ i + 1 \in 1..a
        BY <1>1, <3>2
      <4>2. Follows(r[i], r[i + 1])
        BY <1>1, <4>1 DEF InTurn
      <4> QED BY <1>4, <4>1, <4>2
    <3> QED BY <1>1, <3>1, <3>2
  <2>2. Len(taken) - 1 = a
    BY <1>1, <1>4
  <2> QED BY <2>1, <2>2 DEF InTurn
<1>7. InTurn(Tail(q))
  <2>1. ASSUME NEW i \in 1..(b - 1 - 1) PROVE Follows(Tail(q)[i], Tail(q)[i + 1])
    <3>1. i \in 1..(b - 1) /\ i + 1 \in 1..(b - 1)
      BY <1>1
    <3>2. Follows(q[i + 1], q[(i + 1) + 1])
      BY <1>1, <1>5, <3>1 DEF InTurn
    <3> QED BY <1>2, <3>1, <3>2
  <2> QED BY <1>2, <2>1 DEF InTurn
<1>8. EndedAt(Tail(q), Len(Tail(q)))
  <2>1. CASE b = 1
    BY <1>2, <2>1 DEF EndedAt
  <2>2. CASE b # 1
    <3>1. b - 1 \in 1..(b - 1) /\ (b - 1) + 1 = b
      BY <1>1, <2>2
    <3>2. Tail(q)[b - 1] = q[b]
      BY <1>2, <3>1
    <3> QED BY <1>1, <1>2, <1>5, <3>2 DEF EndedAt
  <2> QED BY <2>1, <2>2
<1>9. ASSUME Tail(q) # << >> PROVE Follows(taken[Len(taken)], Tail(q)[1])
  <2>1. 1 \in 1..(b - 1)
    BY <1>1, <1>2, <1>9
  <2>2. Follows(q[1], q[1 + 1]) /\ Tail(q)[1] = q[1 + 1]
    BY <1>1, <1>2, <1>5, <2>1 DEF InTurn
  <2> QED BY <1>4, <2>2
<1>10. ASSUME Tail(q) = << >> PROVE EndedAt(taken, Len(taken))
  <2>1. b = 1
    BY <1>1, <1>2, <1>10
  <2>2. q[1][3] = q[1][4]
    BY <1>5, <2>1 DEF EndedAt
  <2> QED BY <1>4, <2>2 DEF EndedAt
<1> QED BY <1>4, <1>6, <1>7, <1>8, <1>9, <1>10 DEF Whole

LEMMA InPiecesStep ==
  ASSUME TypeInv, OnlyBlocking, NothingAsync, OneWriter, InPieces, [Next]_vars
  PROVE  InPieces'
<1> USE DEF connVars, strandVars, netVars, threadVars, history
<1>0. /\ left \in [Senders -> Seq(Cells)] /\ received \in Seq(Cells)
  BY DEF TypeInv, TypeOK
<1>00. Whole(<< >>)
  <2>1. Len(<< >>) = 0
    OBVIOUS
  <2> QED BY <2>1 DEF Whole, InTurn, EndedAt
(* Steps that neither take nor give a message anything. *)
<1>1. ASSUME UNCHANGED <<received, left>>, socket' = "open" => socket = "open"
      PROVE  InPieces'
  <2>1. \A s \in Senders : GoesOn(s)' = GoesOn(s)
    BY <1>1 DEF GoesOn
  <2> QED BY <1>1, <2>1 DEF InPieces, InTurn, Whole, EndedAt
<1>2. ASSUME NEW s \in Senders, Check(s) \/ AsyncSend(s) \/ SyncReturn(s)
      PROVE  InPieces'
  BY <1>1, <1>2 DEF Check, AsyncSend, SyncReturn
<1>3. ASSUME NEW s \in Senders, SyncBegin(s)
      PROVE  InPieces'
  <2>1. PICK n \in Lens : left' = [left EXCEPT ![s] = Message(s, n)]
    BY <1>3 DEF SyncBegin
  <2>2. UNCHANGED <<received, socket>> /\ mutex = NoOwner
    BY <1>3 DEF SyncBegin
  <2>3. Message(s, n) \in Messages
    BY MessageWhole, SendAssumption DEF Sources, TypeInv
  <2>4. \A t \in Senders : left[t] = << >>
    BY <2>2, SendAssumption DEF OneWriter
  <2>5. PICK m \in Messages : left' = [left EXCEPT ![s] = m]
    BY <2>1, <2>3
  <2>6. m # << >> /\ m[1][3] = 1 /\ Whole(m)
    BY DEF Messages
  <2>7. left'[s] = m /\ \A t \in Senders \ {s} : left'[t] = << >>
    BY <1>0, <2>4, <2>5
  <2>8. socket = "open" => EndedAt(received, Len(received))
    BY <2>4 DEF InPieces
  <2>9. socket = "open" =>
          IF received = << >> THEN m[1][3] = 1 ELSE Follows(received[Len(received)], m[1])
    <3>1. Len(received) = 0 <=> received = << >>
      BY <1>0, EmptySeq, LenProperties
    <3> QED BY <2>6, <2>8, <3>1 DEF EndedAt, Follows
  <2>10. socket = "open" => GoesOn(s)'
    BY <2>2, <2>7, <2>9 DEF GoesOn
  <2>11. \A t \in Senders : Whole(left[t])'
    <3>1. \A t \in Senders : Whole(left'[t])
      BY <1>00, <2>6, <2>7
    <3> QED BY <3>1 DEF Whole, InTurn, EndedAt
  <2>12. InTurn(received)'
    BY <2>2 DEF InPieces, InTurn
  <2> QED BY <2>2, <2>6, <2>7, <2>10, <2>11, <2>12 DEF InPieces
<1>4. ASSUME NEW s \in Senders, SyncThrow(s)
      PROVE  InPieces'
  <2>1. left' = [left EXCEPT ![s] = << >>] /\ socket # "open" /\ UNCHANGED <<received, socket>>
    BY <1>4 DEF SyncThrow
  <2>2. \A t \in Senders : Whole(left'[t])
    BY <1>0, <1>00, <2>1 DEF InPieces
  <2>3. \A t \in Senders : Whole(left[t])'
    BY <2>2 DEF Whole, InTurn, EndedAt
  <2>4. InTurn(received)'
    BY <2>1 DEF InPieces, InTurn
  <2> QED BY <2>1, <2>3, <2>4 DEF InPieces
<1>5. ASSUME NEW s \in Senders, TakeSync(s)
      PROVE  InPieces'
  <2>1. /\ socket = "open" /\ socket' = "open" /\ left[s] # << >>
        /\ received' = Append(received, Head(left[s]))
        /\ left' = [left EXCEPT ![s] = Tail(left[s])]
    BY <1>5 DEF TakeSync
  <2>2. \A t \in Senders \ {s} : left[t] = << >>
    BY <2>1 DEF OneWriter
  <2>3. left'[s] = Tail(left[s]) /\ \A t \in Senders \ {s} : left'[t] = << >>
    BY <1>0, <2>1, <2>2
  <2>4. left[s] \in Seq(Cells) /\ Whole(left[s]) /\ InTurn(received) /\ GoesOn(s)
    BY <1>0, <2>1 DEF InPieces
  <2>5. /\ InTurn(received') /\ received' # << >> /\ Whole(Tail(left[s]))
        /\ Tail(left[s]) # << >> => Follows(received'[Len(received')], Tail(left[s])[1])
        /\ Tail(left[s]) = << >> => EndedAt(received', Len(received'))
    BY <1>0, <2>1, <2>4, TakeGoesOn DEF GoesOn
  <2>6. left'[s] # << >> => GoesOn(s)'
    BY <2>3, <2>5 DEF GoesOn
  <2>7. \A t \in Senders : Whole(left'[t])
    BY <1>00, <2>3, <2>5
  <2>8. \A t \in Senders : Whole(left[t])'
    BY <2>7 DEF Whole, InTurn, EndedAt
  <2>9. InTurn(received)' /\ (left'[s] = << >> => EndedAt(received, Len(received))')
    BY <2>3, <2>5 DEF InTurn, EndedAt
  <2> QED BY <2>3, <2>6, <2>8, <2>9 DEF InPieces
<1>6. ~\E i \in DOMAIN writes : TakeAsync(i)
  BY DEF NothingAsync
<1>7. CASE StrandRuns \/ Completion \/ Break \/ Close \/ TimeoutTimer \/ KeepAliveTimer
            \/ Terminated \/ UNCHANGED vars
  <2>1. UNCHANGED <<received, left>> /\ (socket' = "open" => socket = "open")
    BY <1>7 DEF StrandRuns, HandleSendData, HandleConnectionError, HandleClose, CloseSocket,
                ClearBuffer, Report, HandleKeepAlive, Completion, Complete,
                ReadFails, Break, Close, TimeoutTimer, KeepAliveTimer, Terminated, vars
  <2> QED BY <1>1, <2>1
<1> QED BY <1>2, <1>3, <1>4, <1>5, <1>6, <1>7 DEF Next, Thread, Take

(* As long as blocking and asynchronous sends are not mixed, which is what *)
(* NetConnection.h asks of the application, no other message gets in       *)
(* between the bytes of one, whatever the threads, limits, lengths,        *)
(* overflows, failures and closes.  A keep-alive is an asynchronous send.  *)
THEOREM NotMixed ==
  SyncSenders = {} \/ OnlyBlocking => (Spec => []MessagesContiguous)
<1>1. ASSUME SyncSenders = {} PROVE Spec => []MessagesContiguous
  <2>1. Init => TakenInOrder /\ LogWhole
    <3>1. Len(<< >>) = 0
      OBVIOUS
    <3> QED BY <3>1 DEF Init, TakenInOrder, LogWhole, Whole, InTurn, EndedAt
  <2>2. TypeInv /\ StreamInv /\ TakenInOrder /\ LogWhole /\ [Next]_vars
          => TakenInOrder' /\ LogWhole'
    <3> SUFFICES ASSUME TypeInv, StreamInv, TakenInOrder, LogWhole, [Next]_vars
                 PROVE  TakenInOrder' /\ LogWhole'
      OBVIOUS
    <3>1. TypeInv' /\ StreamInv'
      BY TypeInvStep, StreamInvStep
    <3>2. StreamStep
      BY <1>1, NextIsStreamStep DEF StreamInv
    <3> QED BY <1>1, <3>1, <3>2, TakenInOrderStep, LogWholeStep
  <2> QED BY TypeInvInit, TypeInvStep, StreamInvInit, StreamInvStep, <2>1, <2>2,
             TakenContiguous, PTL DEF Spec
<1>2. ASSUME OnlyBlocking PROVE Spec => []MessagesContiguous
  <2>1. Init => NothingAsync /\ OneWriter /\ InPieces
    <3>1. Len(<< >>) = 0 /\ DOMAIN << >> = {}
      OBVIOUS
    <3> SUFFICES ASSUME Init PROVE NothingAsync /\ OneWriter /\ InPieces
      OBVIOUS
    <3>2. \A s \in Senders : left[s] = << >> /\ pc[s] = "idle"
      BY DEF Init
    <3>3. NothingAsync /\ OneWriter
      BY <3>1, <3>2 DEF Init, NothingAsync, OneWriter
    <3>4. InPieces
      BY <3>1, <3>2 DEF Init, InPieces, InTurn, Whole, EndedAt
    <3> QED BY <3>3, <3>4
  <2>2. TypeInv /\ NothingAsync /\ OneWriter /\ InPieces /\ [Next]_vars
          => NothingAsync' /\ OneWriter' /\ InPieces'
    BY <1>2, NothingAsyncStep, OneWriterStep, InPiecesStep
  <2>3. InPieces => MessagesContiguous
    BY DEF InPieces, InTurn, Follows, MessagesContiguous
  <2> QED BY TypeInvInit, TypeInvStep, <2>1, <2>2, <2>3, PTL DEF Spec
<1> QED BY <1>1, <1>2
=============================================================================
