------------------------------- MODULE KeepAlive -------------------------------
(***************************************************************************)
(* The two timers of NetConnection (src/src/net/NetConnection.cpp:408-535) *)
(* at both ends of a connection: keep-alives, their answers, and the       *)
(* timeout of a silent peer.  Time passes in ticks, TicksPerSecond of them *)
(* in a second; timers count ticks, time(NULL) whole seconds, and the two  *)
(* clocks need not turn to the next second together.                       *)
(*                                                                         *)
(* A time that the code stores is kept as the seconds that have begun      *)
(* since, which is all the code computes with it.  Handlers run in the     *)
(* tick in which they become ready.                                        *)
(***************************************************************************)
EXTENDS Naturals

CONSTANTS
  KeepAliveInterval,  \* m_keepAliveInterval where it is not switched off
  TimeOutInterval,    \* m_timeoutInterval
  TicksPerSecond,
  MaxDelay            \* bound: ticks a message takes

ASSUME KeepAliveAssumption ==
  /\ {KeepAliveInterval, TimeOutInterval, TicksPerSecond} \subseteq Nat \ {0}
  /\ MaxDelay \in Nat

Ends == {"client", "server"}
Peer(e) == IF e = "client" THEN "server" ELSE "client"

VARIABLES
  keeps,      \* the ends with a positive m_keepAliveInterval
  phase,      \* ticks of the current second of each end's clock
  connected,  \* the ends with m_bConnected
  sendAge,    \* seconds since m_lastSendTime of each end
  recvAge,    \* seconds since m_lastRecvTime of each end
  kaTimer,    \* ticks until m_sendKATimer expires, 0: doSendKeepAlive is posted
  toTimer,    \* the same for m_timeoutTimer and doTimeoutCheck
  wire,       \* the messages under way, with the ticks they have taken
  cut,        \* the ends to which nothing arrives any more
  timedOut    \* the ends whose session was ended by doTimeoutCheck

clocks == <<phase, sendAge, recvAge>>
timers == <<kaTimer, toTimer>>
vars == <<keeps, connected, clocks, timers, wire, cut, timedOut>>

Off == TicksPerSecond * (TimeOutInterval + KeepAliveInterval) + 1   \* no wait is pending
Cap == 2 * TimeOutInterval + 1    \* bound: longer silences are not told apart

(* "fin" is the end of the stream after a close.                           *)
Messages == [to : Ends, kind : {"data", "ka", "response", "fin"}, age : 0..MaxDelay]

TypeOK ==
  /\ keeps \subseteq Ends
  /\ phase \in [Ends -> 0..(TicksPerSecond - 1)]
  /\ connected \subseteq Ends
  /\ sendAge \in [Ends -> 0..Cap] /\ recvAge \in [Ends -> 0..Cap]
  /\ kaTimer \in [Ends -> 0..(TicksPerSecond * KeepAliveInterval) \cup {Off}]
  /\ toTimer \in [Ends -> 0..(TicksPerSecond * TimeOutInterval) \cup {Off}]
  /\ wire \subseteq Messages
  /\ cut \subseteq Ends
  /\ timedOut \subseteq Ends

(* start and onConnectionMade at both ends: both handlers are posted. *)
Init ==
  /\ keeps \in SUBSET Ends
  /\ phase \in [Ends -> 0..(TicksPerSecond - 1)]
  /\ connected = Ends
  /\ sendAge = [e \in Ends |-> 0] /\ recvAge = [e \in Ends |-> 0]
  /\ kaTimer = [e \in Ends |-> IF e \in keeps THEN 0 ELSE Off]
  /\ toTimer = [e \in Ends |-> 0]
  /\ wire = {}
  /\ cut = {}
  /\ timedOut = {}

-----------------------------------------------------------------------------
(* sendData on a session, and its completion, which stores the time. *)
Send(e, kind) ==
  IF e \in connected
  THEN /\ wire' = IF Peer(e) \in cut THEN wire
                  ELSE wire \cup {[to |-> Peer(e), kind |-> kind, age |-> 0]}
       /\ sendAge' = [sendAge EXCEPT ![e] = 0]
  ELSE UNCHANGED <<wire, sendAge>>

(* doClose: the timers are cancelled, unless their handlers are posted.    *)
Cancelled(timer, e) == IF timer[e] = 0 THEN timer ELSE [timer EXCEPT ![e] = Off]
Closes(e) ==
  /\ connected' = connected \ {e}
  /\ kaTimer' = Cancelled(kaTimer, e)
  /\ wire' = {m \in wire : m.to # e} \cup
       {m \in [to : {Peer(e)}, kind : {"fin"}, age : {0}] :
          e \in connected /\ Peer(e) \notin cut}

AppSends(e) ==
  /\ e \in connected
  /\ sendAge[e] > 0    \* bound: the application sends once a second at most
  /\ Send(e, "data")
  /\ UNCHANGED <<keeps, connected, phase, recvAge, timers, cut, timedOut>>

AppCloses(e) ==
  /\ e \in connected
  /\ Closes(e)
  /\ toTimer' = Cancelled(toTimer, e)
  /\ UNCHANGED <<keeps, clocks, cut, timedOut>>

DoSendKeepAliveOnce(e) ==    \* mutant: the timer is only armed after a keep-alive
  /\ kaTimer[e] = 0
  /\ IF sendAge[e] > KeepAliveInterval
     THEN /\ Send(e, "ka")
          /\ kaTimer' = [kaTimer EXCEPT ![e] = TicksPerSecond * KeepAliveInterval]
     ELSE kaTimer' = [kaTimer EXCEPT ![e] = Off] /\ UNCHANGED <<wire, sendAge>>
  /\ UNCHANGED <<keeps, connected, phase, recvAge, toTimer, cut, timedOut>>

DoSendKeepAliveLate(e) ==    \* mutant: the timer is armed with the other interval
  /\ kaTimer[e] = 0
  /\ IF sendAge[e] > KeepAliveInterval THEN Send(e, "ka")
     ELSE UNCHANGED <<wire, sendAge>>
  /\ kaTimer' = [kaTimer EXCEPT ![e] = TicksPerSecond * TimeOutInterval]
  /\ UNCHANGED <<keeps, connected, phase, recvAge, toTimer, cut, timedOut>>

(* doSendKeepAlive arms its timer again, also on a closed connection.      *)
DoSendKeepAlive(e) ==
  /\ kaTimer[e] = 0
  /\ IF sendAge[e] > KeepAliveInterval THEN Send(e, "ka")
     ELSE UNCHANGED <<wire, sendAge>>
  /\ kaTimer' = [kaTimer EXCEPT ![e] = TicksPerSecond * KeepAliveInterval]
  /\ UNCHANGED <<keeps, connected, phase, recvAge, toTimer, cut, timedOut>>

DoTimeoutCheckSent(e) ==    \* mutant: the time of the last send is looked at
  /\ toTimer[e] = 0
  /\ IF sendAge[e] >= TimeOutInterval
     THEN /\ toTimer' = [toTimer EXCEPT ![e] = Off]
          /\ IF e \in connected
             THEN Closes(e) /\ timedOut' = timedOut \cup {e}
             ELSE UNCHANGED <<connected, kaTimer, wire, timedOut>>
     ELSE /\ toTimer' = [toTimer EXCEPT ![e] = TicksPerSecond * TimeOutInterval]
          /\ UNCHANGED <<connected, kaTimer, wire, timedOut>>
  /\ UNCHANGED <<keeps, clocks, cut>>

(* doTimeoutCheck: a silent peer ends the session; otherwise the timer is  *)
(* armed again, also on a closed connection.                               *)
DoTimeoutCheck(e) ==
  /\ toTimer[e] = 0
  /\ IF recvAge[e] >= TimeOutInterval
     THEN /\ toTimer' = [toTimer EXCEPT ![e] = Off]
          /\ IF e \in connected
             THEN Closes(e) /\ timedOut' = timedOut \cup {e}
             ELSE UNCHANGED <<connected, kaTimer, wire, timedOut>>
     ELSE /\ toTimer' = [toTimer EXCEPT ![e] = TicksPerSecond * TimeOutInterval]
          /\ UNCHANGED <<connected, kaTimer, wire, timedOut>>
  /\ UNCHANGED <<keeps, clocks, cut>>

(* handleRecvData stores the time; a keep-alive is answered by             *)
(* BaseClient and BaseServer alike; the end of the stream is an error.     *)
Receive(m) ==
  LET e == m.to
      rest == wire \ {m}
  IN  /\ e \in connected
      /\ IF m.kind = "fin"
         THEN /\ connected' = connected \ {e}
              /\ kaTimer' = Cancelled(kaTimer, e)
              /\ toTimer' = Cancelled(toTimer, e)
              /\ wire' = {n \in rest : n.to # e}
              /\ UNCHANGED <<sendAge, recvAge>>
         ELSE /\ recvAge' = [recvAge EXCEPT ![e] = 0]
              /\ IF m.kind = "ka"
                 THEN /\ wire' = IF Peer(e) \in cut THEN rest
                           ELSE rest \cup {[to |-> Peer(e), kind |-> "response", age |-> 0]}
                      /\ sendAge' = [sendAge EXCEPT ![e] = 0]
                 ELSE wire' = rest /\ UNCHANGED sendAge
              /\ UNCHANGED <<connected, timers>>
      /\ UNCHANGED <<keeps, phase, cut, timedOut>>

(* The network or a host fails silently, in one direction or both. *)
Cut(e) ==
  /\ e \notin cut
  /\ cut' = cut \cup {e}
  /\ wire' = {m \in wire : m.to # e}
  /\ UNCHANGED <<keeps, connected, clocks, timers, timedOut>>

-----------------------------------------------------------------------------
(* A tick passes when no handler is ready and no message is due.           *)
Later(age, e) == IF phase[e] = TicksPerSecond - 1 /\ age[e] < Cap THEN age[e] + 1
                 ELSE age[e]
Nearer(timer, e) == IF timer[e] = Off THEN Off ELSE timer[e] - 1

Tick ==
  /\ \A e \in Ends : kaTimer[e] # 0 /\ toTimer[e] # 0
  /\ \A m \in wire : m.age < MaxDelay
  /\ phase' = [e \in Ends |-> (phase[e] + 1) % TicksPerSecond]
  /\ sendAge' = [e \in Ends |-> Later(sendAge, e)]
  /\ recvAge' = [e \in Ends |-> Later(recvAge, e)]
  /\ kaTimer' = [e \in Ends |-> Nearer(kaTimer, e)]
  /\ toTimer' = [e \in Ends |-> Nearer(toTimer, e)]
  /\ wire' = {[m EXCEPT !.age = @ + 1] : m \in wire}
  /\ UNCHANGED <<keeps, connected, cut, timedOut>>

Next == \/ \E e \in Ends : \/ AppSends(e) \/ AppCloses(e) \/ Cut(e)
                           \/ DoSendKeepAlive(e) \/ DoTimeoutCheck(e)
        \/ \E m \in wire : Receive(m)
        \/ Tick

Spec == Init /\ [][Next]_vars

-----------------------------------------------------------------------------
(* Properties. *)

(* A peer that is there is not cut off: an end whose peer sends            *)
(* keep-alives times out only if nothing arrives at it any more.  The      *)
(* timeout has to exceed the longest silence: two keep-alive intervals,    *)
(* for a timer that finds a send not older than the interval waits for     *)
(* another one, the second that the clock of the sender leaves out, the    *)
(* way of a message, and a second that the clock of the receiver counts    *)
(* when it has only begun.  Nothing of the kind holds for an end that      *)
(* sends keep-alives alone: its own data puts them off, and with them the  *)
(* answers.                                                                *)
LongestSilence == (2 * KeepAliveInterval + 1) * TicksPerSecond - 1 + MaxDelay
LiveNotCut ==
  (TimeOutInterval - 1) * TicksPerSecond >= LongestSilence =>
    \A e \in timedOut : Peer(e) \in keeps => e \in cut

(* A silent peer is found in less than two timeout intervals after its     *)
(* last sign of life, and no check goes on for longer on a connection that *)
(* is closed.                                                              *)
DetectedInTime ==
  \A e \in Ends : e \in connected \/ toTimer[e] # Off => recvAge[e] < 2 * TimeOutInterval
=============================================================================
