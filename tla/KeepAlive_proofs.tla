---------------------------- MODULE KeepAlive_proofs ----------------------------
(***************************************************************************)
(* What is proved of the two timers, for every length of the intervals and *)
(* of the tick, and every delay of the messages: the types, that a silent  *)
(* peer is found in time, and that a peer that is there is not cut off if  *)
(* the timeout is longer than the longest silence.                         *)
(*                                                                         *)
(* The argument counts ticks.  The ticks since an event are those of the   *)
(* seconds that have begun since and of the current one: a tick adds one   *)
(* to them and takes one from every timer that waits, so that the sum of   *)
(* the two changes only when a handler or a message sets one of them.      *)
(***************************************************************************)
EXTENDS KeepAlive, TLAPS

USE KeepAliveAssumption

-----------------------------------------------------------------------------
(* Seconds and ticks. *)

Elapsed(age, p) == age * TicksPerSecond + p    \* an upper bound of the ticks that have passed
KeepTicks == KeepAliveInterval * TicksPerSecond
TimeOutTicks == TimeOutInterval * TicksPerSecond
Phases == 0..(TicksPerSecond - 1)

(* A second more is TicksPerSecond ticks more. *)
LEMMA OneSecond ==
  ASSUME NEW a \in Nat
  PROVE  /\ a * TicksPerSecond \in Nat
         /\ (a + 1) * TicksPerSecond = a * TicksPerSecond + TicksPerSecond
<1>1. TicksPerSecond \in Nat
  OBVIOUS
<1> HIDE KeepAliveAssumption
<1> QED BY <1>1

(* Fewer seconds are fewer ticks, by a second at least. *)
LEMMA FewerSeconds ==
  ASSUME NEW a \in Nat, NEW b \in Nat, a < b
  PROVE  a * TicksPerSecond + TicksPerSecond <= b * TicksPerSecond
<1>1. TicksPerSecond \in Nat
  OBVIOUS
<1> HIDE KeepAliveAssumption
<1> DEFINE d == b - a - 1
<1>2. d \in Nat /\ b = a + 1 + d
  OBVIOUS
<1>3. b * TicksPerSecond = (a + 1) * TicksPerSecond + d * TicksPerSecond
  BY <1>1, <1>2
<1>4. d * TicksPerSecond \in Nat /\ a * TicksPerSecond \in Nat
  BY <1>2, OneSecond
<1>5. (a + 1) * TicksPerSecond = a * TicksPerSecond + TicksPerSecond
  BY OneSecond
<1> QED BY <1>1, <1>3, <1>4, <1>5

(* The ticks of the intervals: the code that arms a timer counts in ticks, *)
(* the code that compares ages in seconds.                                 *)
LEMMA Intervals ==
  /\ TicksPerSecond \in Nat /\ TicksPerSecond > 0
  /\ KeepAliveInterval \in Nat /\ KeepAliveInterval > 0
  /\ TimeOutInterval \in Nat /\ TimeOutInterval > 0
  /\ KeepTicks \in Nat /\ TimeOutTicks \in Nat /\ TimeOutTicks >= TicksPerSecond
  /\ TicksPerSecond * KeepAliveInterval = KeepTicks
  /\ TicksPerSecond * TimeOutInterval = TimeOutTicks
  /\ Off = TimeOutTicks + KeepTicks + 1
  /\ Cap \in Nat /\ Cap > 2 * TimeOutInterval
<1>1. /\ TicksPerSecond \in Nat /\ TicksPerSecond > 0
      /\ KeepAliveInterval \in Nat /\ KeepAliveInterval > 0
      /\ TimeOutInterval \in Nat /\ TimeOutInterval > 0
  OBVIOUS
<1>2. KeepTicks \in Nat /\ TimeOutTicks \in Nat
  BY <1>1, OneSecond DEF KeepTicks, TimeOutTicks
<1>3. TimeOutTicks >= TicksPerSecond
  <2>1. 0 * TicksPerSecond + TicksPerSecond <= TimeOutInterval * TicksPerSecond
    BY <1>1, FewerSeconds
  <2>2. 0 * TicksPerSecond = 0
    BY <1>1
  <2> QED BY <1>1, <2>1, <2>2 DEF TimeOutTicks
<1>4. /\ TicksPerSecond * KeepAliveInterval = KeepTicks
      /\ TicksPerSecond * TimeOutInterval = TimeOutTicks
  BY <1>1 DEF KeepTicks, TimeOutTicks
<1>5. Off = TimeOutTicks + KeepTicks + 1
  <2>1. TicksPerSecond * (TimeOutInterval + KeepAliveInterval)
          = TicksPerSecond * TimeOutInterval + TicksPerSecond * KeepAliveInterval
    BY <1>1
  <2> QED BY <1>2, <1>4, <2>1 DEF Off
<1>6. Cap \in Nat /\ Cap > 2 * TimeOutInterval
  BY <1>1 DEF Cap
<1> QED BY <1>1, <1>2, <1>3, <1>4, <1>5, <1>6

(* The clock of an end turns to the next second after its last tick. *)
LEMMA NextPhase ==
  ASSUME NEW p \in Phases
  PROVE  (p + 1) % TicksPerSecond = IF p = TicksPerSecond - 1 THEN 0 ELSE p + 1
<1>1. /\ TicksPerSecond \in Nat /\ TicksPerSecond > 0
      /\ p \in Nat /\ p < TicksPerSecond
  BY Intervals DEF Phases
<1> HIDE KeepAliveAssumption
<1>2. CASE p = TicksPerSecond - 1
  <2>1. TicksPerSecond % TicksPerSecond = 0
    BY <1>1
  <2> QED BY <1>1, <1>2, <2>1
<1>3. CASE p # TicksPerSecond - 1
  BY <1>1, <1>3
<1> QED BY <1>2, <1>3

(* A tick adds at most one to the ticks since an event, and exactly one    *)
(* while their seconds are counted.                                        *)
LEMMA OneTick ==
  ASSUME NEW a \in 0..Cap, NEW p \in Phases, NEW b, NEW q,
         q = (p + 1) % TicksPerSecond,
         b = IF p = TicksPerSecond - 1 /\ a < Cap THEN a + 1 ELSE a
  PROVE  /\ b \in 0..Cap /\ q \in Phases
         /\ Elapsed(b, q) <= Elapsed(a, p) + 1
         /\ a < Cap => Elapsed(b, q) = Elapsed(a, p) + 1
<1>1. q = IF p = TicksPerSecond - 1 THEN 0 ELSE p + 1
  BY NextPhase
<1>2. /\ a \in Nat /\ p \in Nat /\ p < TicksPerSecond
      /\ TicksPerSecond \in Nat /\ TicksPerSecond > 0 /\ Cap \in Nat
  BY Intervals DEF Phases
<1>3. /\ a * TicksPerSecond \in Nat
      /\ (a + 1) * TicksPerSecond = a * TicksPerSecond + TicksPerSecond
  BY <1>2, OneSecond
<1>4. b \in 0..Cap
  BY <1>2
<1>5. q \in Phases
  BY <1>1, <1>2 DEF Phases
<1> DEFINE w == a * TicksPerSecond
           v == (a + 1) * TicksPerSecond
<1> HIDE DEF w, v
<1>6. CASE p = TicksPerSecond - 1 /\ a < Cap
  <2>1. Elapsed(b, q) = v + 0 /\ Elapsed(a, p) = w + p /\ v = w + TicksPerSecond /\ w \in Nat
    BY <1>1, <1>3, <1>6 DEF Elapsed, w, v
  <2> QED BY <1>2, <1>4, <1>5, <1>6, <2>1
<1>7. CASE p = TicksPerSecond - 1 /\ ~(a < Cap)
  <2>1. Elapsed(b, q) = w + 0 /\ Elapsed(a, p) = w + p /\ w \in Nat
    BY <1>1, <1>3, <1>7 DEF Elapsed, w
  <2> QED BY <1>2, <1>4, <1>5, <1>7, <2>1
<1>8. CASE p # TicksPerSecond - 1
  <2>1. Elapsed(b, q) = w + (p + 1) /\ Elapsed(a, p) = w + p /\ w \in Nat
    BY <1>1, <1>3, <1>8 DEF Elapsed, w
  <2> QED BY <1>2, <1>4, <1>5, <2>1
<1> QED BY <1>6, <1>7, <1>8

(* The ticks since an event of this second are those of the second. *)
LEMMA JustNow ==
  ASSUME NEW p \in Phases
  PROVE  Elapsed(0, p) = p /\ Elapsed(0, p) <= TicksPerSecond - 1
<1>1. TicksPerSecond \in Nat /\ p \in Nat /\ p <= TicksPerSecond - 1 /\ 0 * TicksPerSecond = 0
  BY Intervals DEF Phases
<1> QED BY <1>1 DEF Elapsed

(* The seconds that a handler compares say as much of the ticks. *)
LEMMA InSeconds ==
  ASSUME NEW a \in Nat, NEW p \in Phases, NEW b \in Nat
  PROVE  /\ Elapsed(a, p) \in Nat
         /\ a < b => Elapsed(a, p) < b * TicksPerSecond
         /\ a >= b => Elapsed(a, p) >= b * TicksPerSecond
<1>1. TicksPerSecond \in Nat /\ p \in Nat /\ p < TicksPerSecond
  BY Intervals DEF Phases
<1>2. a * TicksPerSecond \in Nat /\ b * TicksPerSecond \in Nat
  BY OneSecond
<1>3. a < b => a * TicksPerSecond + TicksPerSecond <= b * TicksPerSecond
  BY FewerSeconds
<1>4. b < a => b * TicksPerSecond + TicksPerSecond <= a * TicksPerSecond
  BY FewerSeconds
<1> DEFINE w == a * TicksPerSecond
           v == b * TicksPerSecond
<1>5. /\ Elapsed(a, p) = w + p /\ w \in Nat /\ v \in Nat
      /\ a < b => w + TicksPerSecond <= v
      /\ b < a => v + TicksPerSecond <= w
      /\ a = b => w = v
  BY <1>2, <1>3, <1>4 DEF Elapsed
<1> HIDE DEF w, v
<1>6. /\ Elapsed(a, p) \in Nat
      /\ a < b => Elapsed(a, p) < v
      /\ a >= b => Elapsed(a, p) >= v
  BY <1>1, <1>5
<1> QED BY <1>6 DEF v

-----------------------------------------------------------------------------
(* The types. *)

KATimes == 0..(TicksPerSecond * KeepAliveInterval) \cup {Off}
TOTimes == 0..(TicksPerSecond * TimeOutInterval) \cup {Off}

(* A timer can be posted, armed, cancelled and come a tick nearer. *)
LEMMA TimerValues ==
  /\ {0, TicksPerSecond * KeepAliveInterval, Off} \subseteq KATimes
  /\ {0, TicksPerSecond * TimeOutInterval, Off} \subseteq TOTimes
  /\ \A x \in KATimes : x # 0 /\ x # Off => x - 1 \in KATimes
  /\ \A x \in TOTimes : x # 0 /\ x # Off => x - 1 \in TOTimes
<1>1. /\ KeepTicks \in Nat /\ TimeOutTicks \in Nat
      /\ KATimes = 0..KeepTicks \cup {Off} /\ TOTimes = 0..TimeOutTicks \cup {Off}
  BY Intervals DEF KATimes, TOTimes
<1>2. /\ TicksPerSecond * KeepAliveInterval = KeepTicks
      /\ TicksPerSecond * TimeOutInterval = TimeOutTicks
  BY Intervals
<1> HIDE KeepAliveAssumption
<1> QED BY <1>1, <1>2

LEMMA PeerFacts ==
  ASSUME NEW e \in Ends
  PROVE  Peer(e) \in Ends /\ Peer(e) # e /\ Peer(Peer(e)) = e
BY DEF Ends, Peer

LEMMA ZeroAge == 0 \in 0..Cap /\ 0 \in 0..MaxDelay
BY Intervals

LEMMA NewMessage ==
  ASSUME NEW e \in Ends, NEW kind \in {"data", "ka", "response", "fin"}
  PROVE  [to |-> e, kind |-> kind, age |-> 0] \in Messages
BY ZeroAge DEF Messages

LEMMA SendType ==
  ASSUME TypeOK, NEW e \in Ends, NEW kind \in {"data", "ka"}, Send(e, kind)
  PROVE  wire' \subseteq Messages /\ sendAge' \in [Ends -> 0..Cap]
<1>1. [to |-> Peer(e), kind |-> kind, age |-> 0] \in Messages
  BY NewMessage, PeerFacts
<1>2. wire \subseteq Messages /\ sendAge \in [Ends -> 0..Cap]
  BY DEF TypeOK
<1> QED BY <1>1, <1>2, ZeroAge DEF Send

LEMMA CancelledType ==
  ASSUME NEW S, NEW timer \in [Ends -> S], NEW e \in Ends, Off \in S
  PROVE  Cancelled(timer, e) \in [Ends -> S]
BY DEF Cancelled

LEMMA ClosesType ==
  ASSUME TypeOK, NEW e \in Ends, Closes(e)
  PROVE  connected' \subseteq Ends /\ kaTimer' \in [Ends -> KATimes] /\ wire' \subseteq Messages
<1>1. kaTimer \in [Ends -> KATimes] /\ Off \in KATimes
  BY TimerValues DEF TypeOK, KATimes
<1>2. kaTimer' \in [Ends -> KATimes]
  BY <1>1, CancelledType DEF Closes
<1>3. {m \in [to : {Peer(e)}, kind : {"fin"}, age : {0}] :
         e \in connected /\ Peer(e) \notin cut} \subseteq Messages
  BY PeerFacts, ZeroAge DEF Messages
<1>4. wire' \subseteq Messages
  BY <1>3 DEF Closes, TypeOK
<1> QED BY <1>2, <1>4 DEF Closes, TypeOK

(* The type invariant with the sets named: a step proves the parts it changes. *)
LEMMA Types ==
  TypeOK <=> /\ keeps \subseteq Ends /\ phase \in [Ends -> Phases] /\ connected \subseteq Ends
             /\ sendAge \in [Ends -> 0..Cap] /\ recvAge \in [Ends -> 0..Cap]
             /\ kaTimer \in [Ends -> KATimes] /\ toTimer \in [Ends -> TOTimes]
             /\ wire \subseteq Messages /\ cut \subseteq Ends /\ timedOut \subseteq Ends
BY DEF TypeOK, Phases, KATimes, TOTimes

LEMMA TypesNext ==
  ASSUME keeps' \subseteq Ends, phase' \in [Ends -> Phases], connected' \subseteq Ends,
         sendAge' \in [Ends -> 0..Cap], recvAge' \in [Ends -> 0..Cap],
         kaTimer' \in [Ends -> KATimes], toTimer' \in [Ends -> TOTimes],
         wire' \subseteq Messages, cut' \subseteq Ends, timedOut' \subseteq Ends
  PROVE  TypeOK'
BY DEF TypeOK, Phases, KATimes, TOTimes

LEMMA InitType == Init => TypeOK
<1> SUFFICES ASSUME Init PROVE TypeOK
  OBVIOUS
<1>1. kaTimer \in [Ends -> KATimes] /\ toTimer \in [Ends -> TOTimes]
  BY TimerValues DEF Init
<1>2. sendAge \in [Ends -> 0..Cap] /\ recvAge \in [Ends -> 0..Cap]
  BY ZeroAge DEF Init
<1> QED BY <1>1, <1>2, Types DEF Init, Phases

LEMMA CheckType ==
  ASSUME TypeOK, NEW e \in Ends, DoTimeoutCheck(e)
  PROVE  TypeOK'
<1>1. /\ UNCHANGED <<keeps, phase, sendAge, recvAge, cut>>
      /\ toTimer' \in [Ends -> TOTimes]
  BY TimerValues, Types DEF DoTimeoutCheck, clocks
<1>2. CASE Closes(e) /\ timedOut' = timedOut \cup {e}
  BY <1>1, <1>2, ClosesType, Types, TypesNext
<1>3. CASE UNCHANGED <<connected, kaTimer, wire, timedOut>>
  BY <1>1, <1>3, Types, TypesNext
<1> QED BY <1>2, <1>3 DEF DoTimeoutCheck

LEMMA ReceiveType ==
  ASSUME TypeOK, NEW m \in wire, Receive(m)
  PROVE  TypeOK'
<1> DEFINE e == m.to
<1>1. e \in Ends /\ e \in connected
  BY DEF TypeOK, Messages, Receive
<1> HIDE DEF e
<1>2. UNCHANGED <<keeps, phase, cut, timedOut>>
  BY DEF Receive
<1>3. CASE m.kind = "fin"
  <2>1. /\ connected' = connected \ {e} /\ UNCHANGED <<sendAge, recvAge>>
        /\ kaTimer' = Cancelled(kaTimer, e) /\ toTimer' = Cancelled(toTimer, e)
        /\ wire' \subseteq wire
    BY <1>3 DEF Receive, e
  <2>2. kaTimer' \in [Ends -> KATimes] /\ toTimer' \in [Ends -> TOTimes]
    BY <1>1, <2>1, CancelledType, TimerValues, Types
  <2> QED BY <1>2, <2>1, <2>2, Types, TypesNext
<1>4. CASE m.kind # "fin"
  <2>1. /\ recvAge' = [recvAge EXCEPT ![e] = 0] /\ UNCHANGED <<connected, timers>>
        /\ sendAge' \in {sendAge, [sendAge EXCEPT ![e] = 0]}
        /\ wire' \subseteq wire \cup {[to |-> Peer(e), kind |-> "response", age |-> 0]}
    BY <1>4 DEF Receive, e
  <2>2. wire' \subseteq Messages
    <3>1. [to |-> Peer(e), kind |-> "response", age |-> 0] \in Messages
      BY <1>1, NewMessage, PeerFacts
    <3>2. wire \subseteq Messages
      BY Types
    <3> QED BY <2>1, <3>1, <3>2
  <2>3. recvAge' \in [Ends -> 0..Cap] /\ sendAge' \in [Ends -> 0..Cap]
    BY <1>1, <2>1, ZeroAge, Types
  <2> QED BY <1>2, <2>1, <2>2, <2>3, Types, TypesNext DEF timers
<1> QED BY <1>3, <1>4

(* A tick, end by end. *)
LEMMA TickOf ==
  ASSUME TypeOK, Tick, NEW e \in Ends
  PROVE  /\ sendAge'[e] \in 0..Cap /\ recvAge'[e] \in 0..Cap /\ phase'[e] \in Phases
         /\ Elapsed(sendAge'[e], phase'[e]) <= Elapsed(sendAge[e], phase[e]) + 1
         /\ Elapsed(recvAge'[e], phase'[e]) <= Elapsed(recvAge[e], phase[e]) + 1
         /\ sendAge[e] < Cap =>
              Elapsed(sendAge'[e], phase'[e]) = Elapsed(sendAge[e], phase[e]) + 1
         /\ kaTimer[e] # 0 /\ kaTimer'[e] = IF kaTimer[e] = Off THEN Off ELSE kaTimer[e] - 1
         /\ toTimer[e] # 0 /\ toTimer'[e] = IF toTimer[e] = Off THEN Off ELSE toTimer[e] - 1
<1>1. /\ phase[e] \in Phases /\ sendAge[e] \in 0..Cap /\ recvAge[e] \in 0..Cap
  BY Types
<1>2. /\ phase'[e] = (phase[e] + 1) % TicksPerSecond
      /\ sendAge'[e] = Later(sendAge, e) /\ recvAge'[e] = Later(recvAge, e)
      /\ kaTimer'[e] = Nearer(kaTimer, e) /\ toTimer'[e] = Nearer(toTimer, e)
      /\ kaTimer[e] # 0 /\ toTimer[e] # 0
  BY DEF Tick
<1>3. /\ sendAge'[e] \in 0..Cap /\ phase'[e] \in Phases
      /\ Elapsed(sendAge'[e], phase'[e]) <= Elapsed(sendAge[e], phase[e]) + 1
      /\ sendAge[e] < Cap =>
           Elapsed(sendAge'[e], phase'[e]) = Elapsed(sendAge[e], phase[e]) + 1
  BY <1>1, <1>2, OneTick DEF Later
<1>4. /\ recvAge'[e] \in 0..Cap
      /\ Elapsed(recvAge'[e], phase'[e]) <= Elapsed(recvAge[e], phase[e]) + 1
  BY <1>1, <1>2, OneTick DEF Later
<1> QED BY <1>2, <1>3, <1>4 DEF Nearer

(* The messages under way get older by a tick. *)
LEMMA TickAges ==
  ASSUME TypeOK, Tick
  PROVE  /\ \A n \in wire' : \E m \in wire : n.to = m.to /\ n.kind = m.kind
         /\ \A m \in wire : \E n \in wire' : n.to = m.to /\ n.kind = m.kind /\ n.age = m.age + 1
         /\ wire' \subseteq Messages
<1>1. wire' = {[m EXCEPT !.age = @ + 1] : m \in wire} /\ \A m \in wire : m.age < MaxDelay
  BY DEF Tick
<1>2. ASSUME NEW m \in wire
      PROVE  /\ [m EXCEPT !.age = @ + 1] \in Messages
             /\ [m EXCEPT !.age = @ + 1].to = m.to /\ [m EXCEPT !.age = @ + 1].kind = m.kind
             /\ [m EXCEPT !.age = @ + 1].age = m.age + 1
  <2>1. m \in [to : Ends, kind : {"data", "ka", "response", "fin"}, age : 0..MaxDelay]
    BY DEF TypeOK, Messages
  <2>2. m.age + 1 \in 0..MaxDelay
    BY <1>1, <2>1
  <2>3. [m EXCEPT !.age = @ + 1] = [to |-> m.to, kind |-> m.kind, age |-> m.age + 1]
    BY <2>1
  <2> QED BY <2>1, <2>2, <2>3 DEF Messages
<1> QED BY <1>1, <1>2

LEMMA TickType ==
  ASSUME TypeOK, Tick
  PROVE  TypeOK'
<1>1. /\ sendAge' = [e \in Ends |-> sendAge'[e]] /\ recvAge' = [e \in Ends |-> recvAge'[e]]
      /\ phase' = [e \in Ends |-> phase'[e]]
      /\ kaTimer' = [e \in Ends |-> kaTimer'[e]] /\ toTimer' = [e \in Ends |-> toTimer'[e]]
  BY DEF Tick
<1>2. \A e \in Ends : sendAge'[e] \in 0..Cap /\ recvAge'[e] \in 0..Cap /\ phase'[e] \in Phases
  BY TickOf
<1>3. ASSUME NEW e \in Ends
      PROVE  kaTimer'[e] \in KATimes /\ toTimer'[e] \in TOTimes
  <2>1. kaTimer[e] \in KATimes /\ toTimer[e] \in TOTimes
    BY Types
  <2> QED BY <2>1, TickOf, TimerValues
<1>4. UNCHANGED <<keeps, connected, cut, timedOut>>
  BY DEF Tick
<1> QED BY <1>1, <1>2, <1>3, <1>4, TickAges, Types, TypesNext

LEMMA TypeStep == TypeOK /\ [Next]_vars => TypeOK'
<1> SUFFICES ASSUME TypeOK, [Next]_vars PROVE TypeOK'
  OBVIOUS
<1>1. ASSUME NEW e \in Ends, AppSends(e) PROVE TypeOK'
  BY <1>1, SendType, Types, TypesNext DEF AppSends, timers
<1>2. ASSUME NEW e \in Ends, AppCloses(e) PROVE TypeOK'
  <2>1. toTimer' \in [Ends -> TOTimes]
    BY <1>2, CancelledType, TimerValues, Types DEF AppCloses
  <2> QED BY <1>2, <2>1, ClosesType, Types, TypesNext DEF AppCloses, clocks
<1>3. ASSUME NEW e \in Ends, Cut(e) PROVE TypeOK'
  BY <1>3, Types, TypesNext DEF Cut, clocks, timers
<1>4. ASSUME NEW e \in Ends, DoSendKeepAlive(e) PROVE TypeOK'
  <2>1. kaTimer' \in [Ends -> KATimes]
    BY <1>4, TimerValues, Types DEF DoSendKeepAlive
  <2>2. wire' \subseteq Messages /\ sendAge' \in [Ends -> 0..Cap]
    BY <1>4, SendType, Types DEF DoSendKeepAlive
  <2> QED BY <1>4, <2>1, <2>2, Types, TypesNext DEF DoSendKeepAlive
<1>5. CASE UNCHANGED vars
  BY <1>5, Types, TypesNext DEF vars, clocks, timers
<1> QED BY <1>1, <1>2, <1>3, <1>4, <1>5, CheckType, ReceiveType, TickType DEF Next

(* The variables stay in their sets, for every interval, tick and delay. *)
THEOREM TypeCorrect == Spec => []TypeOK
<1>1. Init => TypeOK
  BY InitType
<1>2. TypeOK /\ [Next]_vars => TypeOK'
  BY TypeStep
<1> QED BY <1>1, <1>2, PTL DEF Spec

-----------------------------------------------------------------------------
(* A silent peer is found in time. *)

(* An end that is checked has its timer armed, and the ticks since its     *)
(* last message and those until the next check are less than twice the     *)
(* timeout: so it is whenever the check arms its timer again.              *)
Checked(e) ==
  e \in connected \/ toTimer[e] # Off =>
    /\ toTimer[e] <= TimeOutTicks
    /\ Elapsed(recvAge[e], phase[e]) + toTimer[e] < 2 * TimeOutTicks

CheckInv == \A e \in Ends : Checked(e)

(* What a step that takes no time does with the check of an end: nothing,  *)
(* or a message has come; it is given up; or its timer is armed again.     *)
Watches(e) ==
  /\ phase'[e] = phase[e]
  /\ \/ /\ toTimer'[e] = toTimer[e] /\ (e \in connected' => e \in connected)
        /\ recvAge'[e] = recvAge[e] \/ (recvAge'[e] = 0 /\ e \in connected)
     \/ toTimer'[e] = Off /\ e \notin connected'
     \/ /\ toTimer[e] = 0 /\ recvAge[e] < TimeOutInterval /\ recvAge'[e] = recvAge[e]
        /\ toTimer'[e] = TimeOutTicks

LEMMA StepWatches ==
  ASSUME TypeOK, [Next]_vars, ~Tick, NEW f \in Ends
  PROVE  Watches(f)
<1>0. toTimer \in [Ends -> TOTimes] /\ recvAge \in [Ends -> 0..Cap]
  BY Types
<1>1. ASSUME NEW e \in Ends, AppSends(e) PROVE Watches(f)
  BY <1>1 DEF AppSends, timers, Watches
<1>2. ASSUME NEW e \in Ends, AppCloses(e) PROVE Watches(f)
  <2>1. /\ toTimer' = Cancelled(toTimer, e) /\ connected' = connected \ {e}
        /\ UNCHANGED <<phase, recvAge>>
    BY <1>2 DEF AppCloses, Closes, clocks
  <2>2. \/ toTimer'[f] = toTimer[f]
        \/ f = e /\ toTimer'[f] = Off
    BY <1>0, <2>1 DEF Cancelled
  <2> QED BY <2>1, <2>2 DEF Watches
<1>3. ASSUME NEW e \in Ends, Cut(e) PROVE Watches(f)
  BY <1>3 DEF Cut, clocks, timers, Watches
<1>4. ASSUME NEW e \in Ends, DoSendKeepAlive(e) PROVE Watches(f)
  BY <1>4 DEF DoSendKeepAlive, Watches
<1>5. ASSUME NEW e \in Ends, DoTimeoutCheck(e) PROVE Watches(f)
  <2>1. toTimer[e] = 0 /\ UNCHANGED <<phase, recvAge>> /\ connected' \subseteq connected
    BY <1>5 DEF DoTimeoutCheck, Closes, clocks
  <2>2. CASE recvAge[e] >= TimeOutInterval
    <3>1. toTimer' = [toTimer EXCEPT ![e] = Off] /\ e \notin connected'
      BY <1>5, <2>2 DEF DoTimeoutCheck, Closes
    <3> QED BY <1>0, <2>1, <3>1 DEF Watches
  <2>3. CASE ~(recvAge[e] >= TimeOutInterval)
    <3>1. toTimer' = [toTimer EXCEPT ![e] = TimeOutTicks]
      BY <1>5, <2>3, Intervals DEF DoTimeoutCheck
    <3>2. recvAge[e] < TimeOutInterval
      BY <1>0, <2>3, Intervals
    <3> QED BY <1>0, <2>1, <3>1, <3>2 DEF Watches
  <2> QED BY <2>2, <2>3
<1>6. ASSUME NEW m \in wire, Receive(m) PROVE Watches(f)
  <2> DEFINE e == m.to
  <2>1. e \in Ends /\ e \in connected /\ UNCHANGED phase
    BY <1>6 DEF Receive, TypeOK, Messages
  <2>2. \/ /\ connected' = connected \ {e} /\ toTimer' = Cancelled(toTimer, e)
           /\ UNCHANGED recvAge
        \/ /\ recvAge' = [recvAge EXCEPT ![e] = 0] /\ UNCHANGED <<connected, toTimer>>
    BY <1>6 DEF Receive, timers
  <2> HIDE DEF e
  <2>3. CASE connected' = connected \ {e} /\ toTimer' = Cancelled(toTimer, e) /\ UNCHANGED recvAge
    <3>1. \/ toTimer'[f] = toTimer[f]
          \/ f = e /\ toTimer'[f] = Off
      BY <1>0, <2>1, <2>3 DEF Cancelled
    <3> QED BY <2>1, <2>3, <3>1 DEF Watches
  <2>4. CASE recvAge' = [recvAge EXCEPT ![e] = 0] /\ UNCHANGED <<connected, toTimer>>
    BY <1>0, <2>1, <2>4 DEF Watches
  <2> QED BY <2>2, <2>3, <2>4
<1>7. CASE UNCHANGED vars
  BY <1>7 DEF vars, clocks, timers, Watches
<1> QED BY <1>1, <1>2, <1>3, <1>4, <1>5, <1>6, <1>7 DEF Next

LEMMA InitChecked == Init => CheckInv
<1> SUFFICES ASSUME Init, NEW e \in Ends PROVE Checked(e)
  BY DEF CheckInv
<1>1. toTimer[e] = 0 /\ recvAge[e] = 0 /\ phase[e] \in Phases
  BY DEF Init, Phases
<1>2. Elapsed(0, phase[e]) = phase[e] /\ phase[e] \in Nat /\ phase[e] <= TicksPerSecond - 1
  BY <1>1, JustNow, Intervals DEF Phases
<1> QED BY <1>1, <1>2, Intervals DEF Checked

LEMMA CheckedStep == TypeOK /\ CheckInv /\ [Next]_vars => CheckInv'
<1> SUFFICES ASSUME TypeOK, CheckInv, [Next]_vars, NEW e \in Ends PROVE Checked(e)'
  BY DEF CheckInv
<1> DEFINE was == Elapsed(recvAge[e], phase[e])
           is == Elapsed(recvAge'[e], phase'[e])
<1>1. Checked(e)
  BY DEF CheckInv
<1>2. /\ phase[e] \in Phases /\ recvAge[e] \in Nat /\ toTimer[e] \in 0..TimeOutTicks \cup {Off}
      /\ TimeOutTicks \in Nat /\ TicksPerSecond \in Nat /\ TimeOutTicks >= TicksPerSecond
  BY Types, Intervals DEF TOTimes
<1>3. was \in Nat /\ (recvAge[e] < TimeOutInterval => was < TimeOutTicks)
  BY <1>2, InSeconds, Intervals DEF TimeOutTicks
<1>4. CASE Tick
  <2>1. /\ is <= was + 1 /\ toTimer[e] # 0 /\ connected' = connected
        /\ toTimer'[e] = IF toTimer[e] = Off THEN Off ELSE toTimer[e] - 1
    BY <1>4, TickOf DEF Tick
  <2>2. is \in Nat
    <3>1. recvAge'[e] \in Nat /\ phase'[e] \in Phases
      BY <1>4, TickOf, Intervals
    <3> QED BY <3>1, InSeconds, Intervals
  <2> HIDE DEF is, was
  <2>3. e \in connected \/ toTimer[e] # Off =>
          toTimer[e] <= TimeOutTicks /\ was + toTimer[e] < 2 * TimeOutTicks
    BY <1>1 DEF Checked, was
  <2>4. e \in connected' \/ toTimer'[e] # Off => e \in connected \/ toTimer[e] # Off
    BY <2>1
  <2>5. toTimer[e] <= TimeOutTicks => toTimer[e] # Off
    BY <1>2, Intervals
  <2>6. e \in connected' \/ toTimer'[e] # Off =>
          toTimer'[e] <= TimeOutTicks /\ is + toTimer'[e] < 2 * TimeOutTicks
    BY <1>2, <1>3, <2>1, <2>2, <2>3, <2>4, <2>5
  <2> QED BY <2>6 DEF Checked, is
<1>5. CASE ~Tick
  <2>1. Watches(e)
    BY <1>5, StepWatches
  <2>2. CASE /\ toTimer'[e] = toTimer[e] /\ (e \in connected' => e \in connected)
             /\ recvAge'[e] = recvAge[e]
    BY <1>1, <2>1, <2>2 DEF Checked, Watches
  <2>3. CASE /\ toTimer'[e] = toTimer[e] /\ recvAge'[e] = 0 /\ e \in connected
    <3>1. is \in Nat /\ is <= TicksPerSecond - 1
      BY <1>2, <2>1, <2>3, JustNow, Intervals DEF Watches, Phases
    <3>2. toTimer[e] <= TimeOutTicks
      BY <1>1, <2>3 DEF Checked
    <3> HIDE DEF is, was
    <3>3. is + toTimer[e] < 2 * TimeOutTicks
      BY <1>2, <3>1, <3>2, Intervals
    <3> QED BY <2>3, <3>2, <3>3 DEF Checked, is
  <2>4. CASE toTimer'[e] = Off /\ e \notin connected'
    BY <2>4 DEF Checked
  <2>5. CASE /\ recvAge[e] < TimeOutInterval /\ recvAge'[e] = recvAge[e]
             /\ toTimer'[e] = TimeOutTicks
    <3>1. is = was
      BY <2>1, <2>5 DEF Watches
    <3> HIDE DEF is, was
    <3>2. is + TimeOutTicks < 2 * TimeOutTicks
      BY <1>2, <1>3, <2>5, <3>1
    <3> QED BY <1>2, <2>5, <3>2 DEF Checked, is
  <2> QED BY <2>1, <2>2, <2>3, <2>4, <2>5 DEF Watches
<1> QED BY <1>4, <1>5

LEMMA CheckedInTime == TypeOK /\ CheckInv => DetectedInTime
<1> SUFFICES ASSUME TypeOK, CheckInv, NEW e \in Ends, e \in connected \/ toTimer[e] # Off
             PROVE  recvAge[e] < 2 * TimeOutInterval
  BY DEF DetectedInTime
<1> DEFINE was == Elapsed(recvAge[e], phase[e])
<1>1. Checked(e) /\ phase[e] \in Phases /\ recvAge[e] \in Nat /\ toTimer[e] \in Nat
  BY Types, Intervals DEF CheckInv, TOTimes
<1>2. was \in Nat
  BY <1>1, InSeconds, Intervals
<1>3. was + toTimer[e] < 2 * TimeOutTicks
  BY <1>1 DEF Checked
<1>4. 2 * TimeOutInterval \in Nat /\ (2 * TimeOutInterval) * TicksPerSecond = 2 * TimeOutTicks
  BY Intervals DEF TimeOutTicks
<1>5. recvAge[e] >= 2 * TimeOutInterval => was >= (2 * TimeOutInterval) * TicksPerSecond
  BY <1>1, <1>4, InSeconds
<1> HIDE DEF was
<1>6. ~(recvAge[e] >= 2 * TimeOutInterval)
  BY <1>1, <1>2, <1>3, <1>4, <1>5, Intervals
<1> QED BY <1>1, <1>4, <1>6

(* A silent peer is found in less than twice the timeout, whatever the     *)
(* phase of the check when the last message came, and no check of a closed *)
(* connection goes on for longer (doTimeoutCheck).                         *)
THEOREM FoundInTime == Spec => []DetectedInTime
<1>1. Init => TypeOK /\ CheckInv
  BY InitType, InitChecked
<1>2. TypeOK /\ CheckInv /\ [Next]_vars => (TypeOK /\ CheckInv)'
  BY TypeStep, CheckedStep
<1>3. TypeOK /\ CheckInv => DetectedInTime
  BY CheckedInTime
<1> QED BY <1>1, <1>2, <1>3, PTL DEF Spec

-----------------------------------------------------------------------------
(* A peer that is there is not cut off. *)

Enough == (TimeOutInterval - 1) * TicksPerSecond >= LongestSilence

(* The ticks that can pass between two sends of an end that keeps alive.   *)
Quiet == 2 * KeepTicks + TicksPerSecond - 1

(* Its timer is armed, and the ticks since its last send and those until   *)
(* doSendKeepAlive looks again are no more than that: the handler arms the *)
(* timer when the send is one interval and the rest of a second old, or    *)
(* when it has just sent.                                                  *)
SendsInTime(p) ==
  p \in connected /\ p \in keeps =>
    /\ kaTimer[p] <= KeepTicks
    /\ Elapsed(sendAge[p], phase[p]) + kaTimer[p] <= Quiet

(* Who sends the end of the stream is no longer connected.                 *)
FinIsLast == \A m \in wire : m.kind = "fin" => Peer(m.to) \notin connected

(* The silence of an end is explained by a message under way, or by that   *)
(* of its peer: the two clocks differ by less than a second.               *)
SignOfLife(e) ==
  \/ \E m \in wire :
       m.to = e /\ Elapsed(recvAge[e], phase[e]) <= Quiet + TicksPerSecond - 1 + m.age
  \/ /\ Peer(e) \in connected
     /\ Elapsed(recvAge[e], phase[e])
          <= Elapsed(sendAge[Peer(e)], phase[Peer(e)]) + TicksPerSecond - 1

(* A peer that has closed has sent the end of the stream.                  *)
FinFollows(e) == Peer(e) \notin connected => \E m \in wire : m.to = e /\ m.kind = "fin"

Hears(e) == e \in connected /\ e \notin cut =>
              FinFollows(e) /\ (Peer(e) \in keeps => SignOfLife(e))

NotCut == \A e \in timedOut : Peer(e) \in keeps => e \in cut

LiveInv == /\ \A e \in Ends : SendsInTime(e) /\ Hears(e)
           /\ FinIsLast
           /\ NotCut

(* What the hypothesis says in ticks: the longest silence at the receiver  *)
(* ends before the timeout, and no age of a send gets out of its bound.    *)
LEMMA Silence ==
  ASSUME Enough
  PROVE  /\ Quiet \in Nat /\ MaxDelay \in Nat
         /\ Quiet + TicksPerSecond - 1 + MaxDelay < TimeOutTicks
         /\ \A a \in Nat : \A p \in Phases : Elapsed(a, p) <= Quiet => a < Cap
<1>1. /\ Quiet \in Nat /\ MaxDelay \in Nat
      /\ TicksPerSecond \in Nat /\ TimeOutTicks \in Nat /\ TicksPerSecond > 0
  BY Intervals DEF Quiet
<1>2. LongestSilence = Quiet + MaxDelay
  <2>1. (2 * KeepAliveInterval + 1) * TicksPerSecond = 2 * KeepTicks + TicksPerSecond
    BY Intervals DEF KeepTicks
  <2> QED BY <2>1, Intervals DEF LongestSilence, Quiet
<1>3. (TimeOutInterval - 1) * TicksPerSecond = TimeOutTicks - TicksPerSecond
  <2>1. TimeOutInterval - 1 \in Nat /\ (TimeOutInterval - 1) + 1 = TimeOutInterval
    BY Intervals
  <2>2. ((TimeOutInterval - 1) + 1) * TicksPerSecond
          = (TimeOutInterval - 1) * TicksPerSecond + TicksPerSecond
    BY <2>1, OneSecond
  <2>3. (TimeOutInterval - 1) * TicksPerSecond \in Nat
    BY <2>1, OneSecond
  <2> DEFINE w == (TimeOutInterval - 1) * TicksPerSecond
  <2>4. TimeOutTicks = w + TicksPerSecond /\ w \in Nat
    BY <2>1, <2>2, <2>3 DEF TimeOutTicks
  <2> HIDE DEF w
  <2>5. w = TimeOutTicks - TicksPerSecond
    BY <1>1, <2>4
  <2> QED BY <2>5 DEF w
<1>4. Quiet + TicksPerSecond - 1 + MaxDelay < TimeOutTicks
  BY <1>1, <1>2, <1>3 DEF Enough
<1>5. ASSUME NEW a \in Nat, NEW p \in Phases, Elapsed(a, p) <= Quiet
      PROVE  a < Cap
  <2>1. Elapsed(a, p) \in Nat /\ (a >= Cap => Elapsed(a, p) >= Cap * TicksPerSecond)
    BY InSeconds, Intervals
  <2>2. TimeOutInterval * TicksPerSecond + TicksPerSecond <= Cap * TicksPerSecond
    BY FewerSeconds, Intervals
  <2>3. Cap * TicksPerSecond \in Nat
    BY OneSecond, Intervals
  <2> DEFINE w == Cap * TicksPerSecond
             v == TimeOutInterval * TicksPerSecond
  <2>4. v = TimeOutTicks /\ v + TicksPerSecond <= w /\ w \in Nat /\ (a >= Cap => Elapsed(a, p) >= w)
    BY <2>1, <2>2, <2>3 DEF TimeOutTicks
  <2> HIDE DEF w, v
  <2>5. ~(a >= Cap)
    BY <1>1, <1>4, <1>5, <2>1, <2>4
  <2> QED BY <2>5, Intervals
<1> QED BY <1>1, <1>4, <1>5

LEMMA AtEnd ==
  ASSUME TypeOK, NEW e \in Ends
  PROVE  /\ sendAge[e] \in Nat /\ recvAge[e] \in Nat /\ phase[e] \in Phases
         /\ kaTimer[e] \in 0..KeepTicks \cup {Off} /\ kaTimer[e] \in Nat
         /\ Elapsed(sendAge[e], phase[e]) \in Nat
         /\ Elapsed(recvAge[e], phase[e]) \in Nat
<1>1. /\ sendAge[e] \in Nat /\ recvAge[e] \in Nat /\ phase[e] \in Phases
      /\ kaTimer[e] \in 0..KeepTicks \cup {Off}
  BY Types, Intervals DEF KATimes
<1>2. Off \in Nat /\ KeepTicks \in Nat
  BY Intervals
<1>3. Elapsed(sendAge[e], phase[e]) \in Nat /\ Elapsed(recvAge[e], phase[e]) \in Nat
  BY <1>1, InSeconds, Intervals
<1> QED BY <1>1, <1>2, <1>3

-----------------------------------------------------------------------------
(* Its sends. *)

(* What a step that takes no time does with the sends of an end.           *)
Keeps(p) ==
  /\ phase'[p] = phase[p] /\ keeps' = keeps
  /\ (p \in connected' => p \in connected)
  /\ \/ /\ kaTimer'[p] = kaTimer[p]
        /\ sendAge'[p] = sendAge[p] \/ sendAge'[p] = 0
     \/ p \notin connected'
     \/ /\ kaTimer[p] = 0 /\ kaTimer'[p] = KeepTicks
        /\ \/ sendAge[p] <= KeepAliveInterval /\ sendAge'[p] = sendAge[p]
           \/ sendAge'[p] = 0

LEMMA StepKeeps ==
  ASSUME TypeOK, [Next]_vars, ~Tick, NEW p \in Ends
  PROVE  Keeps(p)
<1>0. kaTimer \in [Ends -> KATimes] /\ sendAge \in [Ends -> 0..Cap]
  BY Types
<1>1. ASSUME NEW e \in Ends, AppSends(e) PROVE Keeps(p)
  BY <1>0, <1>1 DEF AppSends, Send, timers, Keeps
<1>2. ASSUME NEW e \in Ends, AppCloses(e) PROVE Keeps(p)
  BY <1>0, <1>2 DEF AppCloses, Closes, Cancelled, clocks, Keeps
<1>3. ASSUME NEW e \in Ends, Cut(e) PROVE Keeps(p)
  BY <1>3 DEF Cut, clocks, timers, Keeps
<1>4. ASSUME NEW e \in Ends, DoSendKeepAlive(e) PROVE Keeps(p)
  <2>1. /\ kaTimer[e] = 0 /\ kaTimer' = [kaTimer EXCEPT ![e] = KeepTicks]
        /\ UNCHANGED <<keeps, connected, phase>>
    BY <1>4, Intervals DEF DoSendKeepAlive
  <2>2. CASE sendAge[e] > KeepAliveInterval
    <3>1. \/ sendAge' = [sendAge EXCEPT ![e] = 0]
          \/ e \notin connected /\ sendAge' = sendAge
      BY <1>4, <2>2 DEF DoSendKeepAlive, Send
    <3> QED BY <1>0, <2>1, <3>1 DEF Keeps
  <2>3. CASE ~(sendAge[e] > KeepAliveInterval)
    <3>1. sendAge' = sendAge
      BY <1>4, <2>3 DEF DoSendKeepAlive
    <3>2. sendAge[e] <= KeepAliveInterval
      BY <2>3, AtEnd, Intervals
    <3> QED BY <1>0, <2>1, <3>1, <3>2 DEF Keeps
  <2> QED BY <2>2, <2>3
<1>5. ASSUME NEW e \in Ends, DoTimeoutCheck(e) PROVE Keeps(p)
  <2>1. /\ UNCHANGED <<phase, keeps, sendAge>>
        /\ \/ connected' = connected \ {e} /\ kaTimer' = Cancelled(kaTimer, e)
           \/ UNCHANGED <<connected, kaTimer>>
    BY <1>5 DEF DoTimeoutCheck, Closes, clocks
  <2> QED BY <1>0, <2>1 DEF Cancelled, Keeps
<1>6. ASSUME NEW m \in wire, Receive(m) PROVE Keeps(p)
  <2> DEFINE e == m.to
  <2>1. /\ e \in Ends /\ UNCHANGED <<phase, keeps>>
        /\ \/ /\ connected' = connected \ {e} /\ kaTimer' = Cancelled(kaTimer, e)
              /\ sendAge' = sendAge
           \/ /\ UNCHANGED <<connected, kaTimer>>
              /\ sendAge' \in {sendAge, [sendAge EXCEPT ![e] = 0]}
    BY <1>6 DEF Receive, timers, TypeOK, Messages
  <2> HIDE DEF e
  <2> QED BY <1>0, <2>1 DEF Cancelled, Keeps
<1>7. CASE UNCHANGED vars
  BY <1>7 DEF vars, clocks, timers, Keeps
<1> QED BY <1>1, <1>2, <1>3, <1>4, <1>5, <1>6, <1>7 DEF Next

LEMMA SendsStep ==
  ASSUME TypeOK, [Next]_vars, NEW p \in Ends, SendsInTime(p)
  PROVE  SendsInTime(p)'
<1> DEFINE was == Elapsed(sendAge[p], phase[p])
           is == Elapsed(sendAge'[p], phase'[p])
<1>1. /\ phase[p] \in Phases /\ sendAge[p] \in Nat /\ was \in Nat
      /\ kaTimer[p] \in 0..KeepTicks \cup {Off} /\ kaTimer[p] \in Nat
      /\ KeepTicks \in Nat /\ TicksPerSecond \in Nat /\ TicksPerSecond > 0
  BY AtEnd, Intervals
<1>2. p \in connected /\ p \in keeps => kaTimer[p] <= KeepTicks /\ was + kaTimer[p] <= Quiet
  BY DEF SendsInTime
<1>3. Quiet = 2 * KeepTicks + TicksPerSecond - 1
  BY DEF Quiet
<1>4. CASE Tick
  <2>1. /\ is <= was + 1 /\ UNCHANGED <<connected, keeps>>
        /\ kaTimer'[p] = IF kaTimer[p] = Off THEN Off ELSE kaTimer[p] - 1
    BY <1>4, TickOf DEF Tick
  <2>2. is \in Nat
    <3>1. sendAge'[p] \in Nat /\ phase'[p] \in Phases
      BY <1>4, TickOf, Intervals
    <3> QED BY <3>1, InSeconds, Intervals
  <2>3. kaTimer[p] <= KeepTicks => kaTimer[p] # Off
    BY <1>1, Intervals
  <2>4. kaTimer[p] # 0
    BY <1>4, TickOf
  <2> HIDE DEF is, was
  <2>5. p \in connected' /\ p \in keeps' =>
          kaTimer'[p] <= KeepTicks /\ is + kaTimer'[p] <= Quiet
    <3> SUFFICES ASSUME p \in connected' /\ p \in keeps'
                 PROVE  kaTimer'[p] <= KeepTicks /\ is + kaTimer'[p] <= Quiet
      OBVIOUS
    <3>1. /\ kaTimer[p] <= KeepTicks /\ was + kaTimer[p] <= Quiet
          /\ kaTimer'[p] = kaTimer[p] - 1
      BY <1>2, <2>1, <2>3
    <3> QED BY <1>1, <1>3, <2>1, <2>2, <3>1
  <2> QED BY <2>5 DEF SendsInTime, is
<1>5. CASE ~Tick
  <2> SUFFICES ASSUME p \in connected', p \in keeps'
               PROVE  kaTimer'[p] <= KeepTicks /\ is + kaTimer'[p] <= Quiet
    BY DEF SendsInTime
  <2>1. Keeps(p)
    BY <1>5, StepKeeps
  <2>2. kaTimer[p] <= KeepTicks /\ was + kaTimer[p] <= Quiet
    BY <1>2, <2>1 DEF Keeps
  <2>3. kaTimer'[p] = kaTimer[p] \/ (kaTimer[p] = 0 /\ kaTimer'[p] = KeepTicks)
    BY <2>1 DEF Keeps
  <2>4. CASE sendAge'[p] = 0
    <3>1. is \in Nat /\ is <= TicksPerSecond - 1
      BY <1>1, <2>1, <2>4, JustNow, Intervals DEF Keeps, Phases
    <3> HIDE DEF is, was
    <3> QED BY <1>1, <1>3, <2>2, <2>3, <3>1
  <2>5. CASE sendAge'[p] = sendAge[p] /\ kaTimer'[p] = kaTimer[p]
    BY <2>1, <2>2, <2>5 DEF Keeps
  <2>6. CASE sendAge[p] <= KeepAliveInterval /\ sendAge'[p] = sendAge[p] /\ kaTimer'[p] = KeepTicks
    <3>1. sendAge[p] < KeepAliveInterval + 1 /\ KeepAliveInterval + 1 \in Nat
      BY <1>1, <2>6, Intervals
    <3>2. was < (KeepAliveInterval + 1) * TicksPerSecond
      BY <1>1, <3>1, InSeconds
    <3>3. (KeepAliveInterval + 1) * TicksPerSecond = KeepTicks + TicksPerSecond
      BY OneSecond, Intervals DEF KeepTicks
    <3>4. is = was
      BY <2>1, <2>6 DEF Keeps
    <3> HIDE DEF is, was
    <3>5. was < KeepTicks + TicksPerSecond
      BY <3>2, <3>3
    <3> QED BY <1>1, <1>3, <2>6, <3>4, <3>5
  <2> QED BY <2>1, <2>4, <2>5, <2>6 DEF Keeps
<1> QED BY <1>4, <1>5

-----------------------------------------------------------------------------
(* Its messages on their way. *)

LEMMA FinStep ==
  ASSUME TypeOK, [Next]_vars, FinIsLast
  PROVE  FinIsLast'
<1> SUFFICES ASSUME NEW n \in wire', n.kind = "fin"
             PROVE  Peer(n.to) \notin connected'
  BY DEF FinIsLast
<1>1. ASSUME connected' \subseteq connected, n \in wire
      PROVE  Peer(n.to) \notin connected'
  BY <1>1 DEF FinIsLast
<1>2. ASSUME NEW e \in Ends, NEW kind \in {"data", "ka"}, Send(e, kind), n \notin wire
      PROVE  FALSE
  BY <1>2 DEF Send
<1>3. ASSUME NEW e \in Ends, Closes(e)
      PROVE  Peer(n.to) \notin connected'
  <2>1. connected' = connected \ {e}
    BY <1>3 DEF Closes
  <2>2. n \in wire \/ n.to = Peer(e)
    BY <1>3 DEF Closes
  <2> QED BY <1>1, <2>1, <2>2, PeerFacts
<1>4. ASSUME NEW e \in Ends, AppSends(e) PROVE Peer(n.to) \notin connected'
  BY <1>1, <1>2, <1>4 DEF AppSends
<1>5. ASSUME NEW e \in Ends, AppCloses(e) PROVE Peer(n.to) \notin connected'
  BY <1>3, <1>5 DEF AppCloses
<1>6. ASSUME NEW e \in Ends, Cut(e) PROVE Peer(n.to) \notin connected'
  BY <1>1, <1>6 DEF Cut
<1>7. ASSUME NEW e \in Ends, DoSendKeepAlive(e) PROVE Peer(n.to) \notin connected'
  BY <1>1, <1>2, <1>7 DEF DoSendKeepAlive
<1>8. ASSUME NEW e \in Ends, DoTimeoutCheck(e) PROVE Peer(n.to) \notin connected'
  BY <1>1, <1>3, <1>8 DEF DoTimeoutCheck
<1>9. ASSUME NEW m \in wire, Receive(m) PROVE Peer(n.to) \notin connected'
  <2>1. /\ connected' \subseteq connected
        /\ n \in wire \/ n.kind = "response"
    BY <1>9 DEF Receive
  <2> QED BY <1>1, <2>1
<1>10. CASE Tick
  <2>1. connected' = connected /\ \E m \in wire : n.to = m.to /\ n.kind = m.kind
    BY <1>10, TickAges DEF Tick
  <2> QED BY <2>1 DEF FinIsLast
<1>11. CASE UNCHANGED vars
  BY <1>1, <1>11 DEF vars
<1> QED BY <1>4, <1>5, <1>6, <1>7, <1>8, <1>9, <1>10, <1>11 DEF Next

(* What a step that takes no time can mean to an end: nothing new, a send  *)
(* or the close of its peer, or a message; or it ends its session, or is   *)
(* cut off.                                                                *)
Same(e) == /\ \A m \in wire : m.to = e => m \in wire'
           /\ recvAge'[e] = recvAge[e]

Quiets(e) == /\ Same(e) /\ sendAge'[Peer(e)] = sendAge[Peer(e)]
             /\ Peer(e) \in connected => Peer(e) \in connected'

Sent(e) == /\ Same(e) /\ Peer(e) \in connected
           /\ \E m \in wire' : /\ m.to = e /\ m.age = 0
                               /\ Peer(e) \notin connected' => m.kind = "fin"

Heard(e) == /\ recvAge'[e] = 0 /\ connected' = connected
            /\ \A m \in wire : m.to = e /\ m.kind = "fin" => m \in wire'

Gone(e) == e \notin connected' \/ e \in cut'

Affects(e) == Gone(e) \/ Quiets(e) \/ Sent(e) \/ Heard(e)

LEMMA SendAffects ==
  ASSUME TypeOK, NEW f \in Ends, NEW kind \in {"data", "ka"}, Send(f, kind),
         UNCHANGED <<connected, recvAge, cut>>, NEW e \in Ends
  PROVE  Affects(e)
<1>0. wire \subseteq wire' /\ Same(e) /\ sendAge \in [Ends -> 0..Cap]
  BY Types DEF Send, Same
<1>1. CASE f \notin connected
  <2>1. sendAge' = sendAge
    BY <1>1 DEF Send
  <2> QED BY <1>0, <2>1 DEF Affects, Quiets
<1>2. CASE f \in connected /\ Peer(e) # f
  <2>1. sendAge'[Peer(e)] = sendAge[Peer(e)]
    BY <1>0, <1>2, PeerFacts DEF Send
  <2> QED BY <1>0, <2>1 DEF Affects, Quiets
<1>3. CASE f \in connected /\ Peer(e) = f /\ e \in cut
  BY <1>3 DEF Affects, Gone
<1>4. CASE f \in connected /\ Peer(e) = f /\ e \notin cut
  <2>1. Peer(f) = e
    BY <1>4, PeerFacts
  <2>2. [to |-> e, kind |-> kind, age |-> 0] \in wire'
    BY <1>4, <2>1 DEF Send
  <2> QED BY <1>0, <1>4, <2>2 DEF Affects, Sent
<1> QED BY <1>1, <1>2, <1>3, <1>4

LEMMA CloseAffects ==
  ASSUME TypeOK, NEW f \in Ends, f \in connected, Closes(f),
         UNCHANGED <<sendAge, recvAge, cut>>, NEW e \in Ends
  PROVE  Affects(e)
<1>1. CASE e = f
  BY <1>1 DEF Closes, Affects, Gone
<1>2. CASE e # f /\ e \in cut
  BY <1>2 DEF Affects, Gone
<1>3. CASE e # f /\ e \notin cut
  <2>1. Peer(e) = f /\ Peer(f) = e
    BY <1>3 DEF Ends, Peer
  <2>2. Same(e)
    BY <1>3 DEF Closes, Same
  <2>3. [to |-> e, kind |-> "fin", age |-> 0] \in wire'
    BY <1>3, <2>1 DEF Closes
  <2> QED BY <2>1, <2>2, <2>3 DEF Affects, Sent
<1> QED BY <1>1, <1>2, <1>3

LEMMA ReceiveAffects ==
  ASSUME TypeOK, FinIsLast, NEW m \in wire, Receive(m), NEW e \in Ends
  PROVE  Affects(e)
<1> DEFINE f == m.to
<1>1. f \in Ends /\ f \in connected /\ cut' = cut
  BY DEF Receive, TypeOK, Messages
<1>2. recvAge \in [Ends -> 0..Cap] /\ sendAge \in [Ends -> 0..Cap]
  BY Types
<1>3. CASE m.kind = "fin"
  <2>1. connected' = connected \ {f} /\ Peer(f) \notin connected
    BY <1>3 DEF Receive, FinIsLast
  <2>2. e = f \/ e = Peer(f)
    BY <1>1 DEF Ends, Peer
  <2> QED BY <2>1, <2>2 DEF Affects, Gone
<1>4. CASE m.kind # "fin" /\ e = f
  <2>1. recvAge'[e] = 0 /\ connected' = connected /\ wire \ {m} \subseteq wire'
    BY <1>1, <1>2, <1>4 DEF Receive
  <2> QED BY <1>4, <2>1 DEF Affects, Heard
<1>5. CASE m.kind # "fin" /\ e # f
  <2>1. /\ recvAge'[e] = recvAge[e] /\ connected' = connected /\ wire \ {m} \subseteq wire'
    BY <1>1, <1>2, <1>5 DEF Receive
  <2>2. Same(e) /\ Peer(e) = f /\ Peer(f) = e
    BY <1>1, <1>5, <2>1 DEF Same, Ends, Peer
  <2>3. CASE m.kind # "ka"
    <3>1. sendAge' = sendAge
      BY <1>5, <2>3 DEF Receive
    <3> QED BY <2>1, <2>2, <3>1 DEF Affects, Quiets
  <2>4. CASE m.kind = "ka" /\ e \in cut
    BY <1>1, <2>4 DEF Affects, Gone
  <2>5. CASE m.kind = "ka" /\ e \notin cut
    <3>1. [to |-> e, kind |-> "response", age |-> 0] \in wire'
      BY <1>5, <2>2, <2>5 DEF Receive
    <3> QED BY <1>1, <2>1, <2>2, <3>1 DEF Affects, Sent
  <2> QED BY <2>3, <2>4, <2>5
<1> QED BY <1>3, <1>4, <1>5

LEMMA StepAffects ==
  ASSUME TypeOK, FinIsLast, [Next]_vars, ~Tick, NEW e \in Ends
  PROVE  /\ Affects(e)
         /\ phase' = phase /\ keeps' = keeps
         /\ connected' \subseteq connected /\ cut \subseteq cut'
<1>1. ASSUME UNCHANGED <<sendAge, recvAge, connected>>, \A m \in wire : m.to = e => m \in wire'
      PROVE  Affects(e)
  BY <1>1 DEF Affects, Quiets, Same
<1>2. ASSUME NEW f \in Ends, AppSends(f)
      PROVE  Affects(e) /\ UNCHANGED <<phase, keeps, connected, cut>>
  BY <1>2, SendAffects DEF AppSends
<1>3. ASSUME NEW f \in Ends, AppCloses(f)
      PROVE  Affects(e) /\ UNCHANGED <<phase, keeps, cut>> /\ connected' \subseteq connected
  <2>1. Closes(f) /\ f \in connected /\ UNCHANGED <<phase, sendAge, recvAge, keeps, cut>>
    BY <1>3 DEF AppCloses, clocks
  <2>2. connected' \subseteq connected
    BY <2>1 DEF Closes
  <2> QED BY <2>1, <2>2, CloseAffects
<1>4. ASSUME NEW f \in Ends, Cut(f)
      PROVE  Affects(e) /\ UNCHANGED <<phase, keeps, connected>> /\ cut \subseteq cut'
  <2>1. /\ UNCHANGED <<phase, sendAge, recvAge, keeps, connected>> /\ cut' = cut \cup {f}
        /\ wire' = {m \in wire : m.to # f}
    BY <1>4 DEF Cut, clocks
  <2>2. CASE e = f
    BY <2>1, <2>2 DEF Affects, Gone
  <2>3. CASE e # f
    BY <1>1, <2>1, <2>3
  <2> QED BY <2>1, <2>2, <2>3
<1>5. ASSUME NEW f \in Ends, DoSendKeepAlive(f)
      PROVE  Affects(e) /\ UNCHANGED <<phase, keeps, connected, cut>>
  <2>1. UNCHANGED <<phase, keeps, connected, cut, recvAge>>
    BY <1>5 DEF DoSendKeepAlive
  <2>2. Send(f, "ka") \/ UNCHANGED <<wire, sendAge>>
    BY <1>5 DEF DoSendKeepAlive
  <2> QED BY <1>1, <2>1, <2>2, SendAffects
<1>6. ASSUME NEW f \in Ends, DoTimeoutCheck(f)
      PROVE  Affects(e) /\ UNCHANGED <<phase, keeps, cut>> /\ connected' \subseteq connected
  <2>1. /\ UNCHANGED <<phase, sendAge, recvAge, keeps, cut>>
        /\ (Closes(f) /\ f \in connected) \/ UNCHANGED <<connected, wire>>
    BY <1>6 DEF DoTimeoutCheck, clocks
  <2>2. connected' \subseteq connected
    BY <2>1 DEF Closes
  <2> QED BY <1>1, <2>1, <2>2, CloseAffects
<1>7. ASSUME NEW m \in wire, Receive(m)
      PROVE  Affects(e) /\ UNCHANGED <<phase, keeps, cut>> /\ connected' \subseteq connected
  <2>1. UNCHANGED <<phase, keeps, cut>> /\ connected' \subseteq connected
    BY <1>7 DEF Receive
  <2> QED BY <1>7, <2>1, ReceiveAffects
<1>8. CASE UNCHANGED vars
  BY <1>1, <1>8 DEF vars, clocks
<1> QED BY <1>2, <1>3, <1>4, <1>5, <1>6, <1>7, <1>8 DEF Next

(* A step that takes no time leaves the silence of an end explained.       *)
LEMMA HearsStep ==
  ASSUME TypeOK, LiveInv, Enough, [Next]_vars, ~Tick, NEW e \in Ends
  PROVE  Hears(e)'
<1> DEFINE silence == Elapsed(recvAge[e], phase[e])
           mute == Elapsed(sendAge[Peer(e)], phase[Peer(e)])
<1> SUFFICES ASSUME e \in connected', e \notin cut'
             PROVE  FinFollows(e)' /\ (Peer(e) \in keeps' => SignOfLife(e)')
  BY DEF Hears
<1>0. /\ Affects(e) /\ ~Gone(e) /\ UNCHANGED <<phase, keeps>>
      /\ connected' \subseteq connected /\ cut \subseteq cut'
  BY StepAffects DEF LiveInv, Gone
<1>1. FinFollows(e) /\ (Peer(e) \in keeps => SignOfLife(e))
  BY <1>0 DEF LiveInv, Hears
<1>2. /\ Peer(e) \in Ends /\ phase[e] \in Phases /\ phase[Peer(e)] \in Phases
      /\ silence \in Nat /\ mute \in Nat
      /\ TicksPerSecond \in Nat /\ TicksPerSecond > 0 /\ Quiet \in Nat
      /\ \A m \in wire : m.age \in Nat
  BY PeerFacts, AtEnd, Silence, Intervals DEF TypeOK, Messages
<1>3. CASE Quiets(e)
  <2>1. /\ \A m \in wire : m.to = e => m \in wire'
        /\ recvAge'[e] = recvAge[e] /\ sendAge'[Peer(e)] = sendAge[Peer(e)]
        /\ Peer(e) \in connected => Peer(e) \in connected'
    BY <1>3 DEF Quiets, Same
  <2>2. FinFollows(e)'
    BY <1>1, <2>1 DEF FinFollows
  <2>3. Peer(e) \in keeps' => SignOfLife(e)'
    BY <1>0, <1>1, <2>1 DEF SignOfLife
  <2> QED BY <2>2, <2>3
<1>4. CASE Sent(e)
  <2>1. /\ recvAge'[e] = recvAge[e] /\ Peer(e) \in connected
        /\ \A m \in wire : m.to = e => m \in wire'
    BY <1>4 DEF Sent, Same
  <2>2. PICK m \in wire' : /\ m.to = e /\ m.age = 0
                           /\ Peer(e) \notin connected' => m.kind = "fin"
    BY <1>4 DEF Sent
  <2>3. FinFollows(e)'
    BY <2>2 DEF FinFollows
  <2>4. ASSUME Peer(e) \in keeps
        PROVE  SignOfLife(e)'
    <3>1. CASE \E n \in wire : n.to = e /\ silence <= Quiet + TicksPerSecond - 1 + n.age
      BY <1>0, <2>1, <3>1 DEF SignOfLife
    <3>2. CASE silence <= mute + TicksPerSecond - 1
      <4>1. mute + kaTimer[Peer(e)] <= Quiet /\ kaTimer[Peer(e)] \in Nat
        BY <1>2, <2>1, <2>4, AtEnd DEF LiveInv, SendsInTime
      <4> HIDE DEF silence, mute
      <4>2. silence <= Quiet + TicksPerSecond - 1 + m.age
        BY <1>2, <2>2, <3>2, <4>1
      <4> QED BY <1>0, <2>1, <2>2, <4>2 DEF SignOfLife, silence
    <3> QED BY <1>1, <2>4, <3>1, <3>2 DEF SignOfLife
  <2> QED BY <1>0, <2>3, <2>4
<1>5. CASE Heard(e)
  <2>1. /\ recvAge'[e] = 0 /\ connected' = connected
        /\ \A m \in wire : m.to = e /\ m.kind = "fin" => m \in wire'
    BY <1>5 DEF Heard
  <2>2. FinFollows(e)'
    BY <1>1, <2>1 DEF FinFollows
  <2> DEFINE now == Elapsed(0, phase[e])
  <2>3. now \in Nat /\ now <= TicksPerSecond - 1 /\ Elapsed(recvAge'[e], phase'[e]) = now
    <3>1. now \in Nat
      BY <1>2, InSeconds
    <3> QED BY <1>0, <1>2, <2>1, <3>1, JustNow
  <2> HIDE DEF now
  <2>4. CASE Peer(e) \in connected
    <3>1. Elapsed(sendAge'[Peer(e)], phase'[Peer(e)]) \in Nat
      <4>1. TypeOK'
        BY TypeStep
      <4>2. sendAge'[Peer(e)] \in Nat /\ phase'[Peer(e)] \in Phases
        BY <1>2, <4>1, Intervals DEF TypeOK, Phases
      <4> QED BY <4>2, InSeconds, Intervals
    <3> DEFINE sent == Elapsed(sendAge'[Peer(e)], phase'[Peer(e)])
    <3> HIDE DEF sent
    <3>2. now <= sent + TicksPerSecond - 1
      BY <1>2, <2>3, <3>1 DEF sent
    <3> QED BY <2>1, <2>2, <2>3, <2>4, <3>2 DEF SignOfLife, sent
  <2>5. CASE Peer(e) \notin connected
    <3>1. PICK m \in wire : m.to = e /\ m.kind = "fin"
      BY <1>1, <2>5 DEF FinFollows
    <3>2. m \in wire' /\ m.age \in Nat
      BY <1>2, <2>1, <3>1
    <3>3. now <= Quiet + TicksPerSecond - 1 + m.age
      BY <1>2, <2>3, <3>2
    <3> QED BY <2>2, <2>3, <3>1, <3>2, <3>3 DEF SignOfLife
  <2> QED BY <2>4, <2>5
<1> QED BY <1>0, <1>3, <1>4, <1>5 DEF Affects

(* A tick makes the silence longer by one, and older by one what explains  *)
(* it.                                                                     *)
LEMMA HearsTick ==
  ASSUME TypeOK, LiveInv, Enough, Tick, NEW e \in Ends
  PROVE  Hears(e)'
<1> DEFINE silence == Elapsed(recvAge[e], phase[e])
           mute == Elapsed(sendAge[Peer(e)], phase[Peer(e)])
           silenceNext == Elapsed(recvAge'[e], phase'[e])
           muteNext == Elapsed(sendAge'[Peer(e)], phase'[Peer(e)])
<1> SUFFICES ASSUME e \in connected', e \notin cut'
             PROVE  FinFollows(e)' /\ (Peer(e) \in keeps' => SignOfLife(e)')
  BY DEF Hears
<1>0. UNCHANGED <<keeps, connected, cut>>
  BY DEF Tick
<1>1. FinFollows(e) /\ (Peer(e) \in keeps => SignOfLife(e))
  BY <1>0 DEF LiveInv, Hears
<1>2. /\ Peer(e) \in Ends /\ silence \in Nat /\ mute \in Nat
      /\ TicksPerSecond \in Nat /\ TicksPerSecond > 0 /\ Quiet \in Nat
      /\ \A m \in wire : m.age \in Nat
  BY PeerFacts, AtEnd, Silence, Intervals DEF TypeOK, Messages
<1>3. silenceNext <= silence + 1 /\ (sendAge[Peer(e)] < Cap => muteNext = mute + 1)
  BY <1>2, TickOf
<1>4. silenceNext \in Nat /\ muteNext \in Nat
  <2>1. /\ recvAge'[e] \in Nat /\ phase'[e] \in Phases
        /\ sendAge'[Peer(e)] \in Nat /\ phase'[Peer(e)] \in Phases
    BY <1>2, TickOf, Intervals
  <2> QED BY <2>1, InSeconds, Intervals
<1>5. FinFollows(e)'
  <2>1. CASE Peer(e) \in connected
    BY <1>0, <2>1 DEF FinFollows
  <2>2. CASE Peer(e) \notin connected
    <3>1. PICK m \in wire : m.to = e /\ m.kind = "fin"
      BY <1>1, <2>2 DEF FinFollows
    <3>2. PICK n \in wire' : n.to = m.to /\ n.kind = m.kind
      BY TickAges
    <3> QED BY <3>1, <3>2 DEF FinFollows
  <2> QED BY <2>1, <2>2
<1>6. ASSUME Peer(e) \in keeps
      PROVE  SignOfLife(e)'
  <2>1. CASE \E m \in wire : m.to = e /\ silence <= Quiet + TicksPerSecond - 1 + m.age
    <3>1. PICK m \in wire : m.to = e /\ silence <= Quiet + TicksPerSecond - 1 + m.age
      BY <2>1
    <3>2. PICK n \in wire' : n.to = m.to /\ n.age = m.age + 1
      BY TickAges
    <3>3. m.age \in Nat
      BY <1>2
    <3> HIDE DEF silence, silenceNext
    <3>4. silenceNext <= Quiet + TicksPerSecond - 1 + n.age
      BY <1>2, <1>3, <1>4, <3>1, <3>2, <3>3
    <3> QED BY <3>1, <3>2, <3>4 DEF SignOfLife, silenceNext
  <2>2. CASE Peer(e) \in connected /\ silence <= mute + TicksPerSecond - 1
    <3>1. mute + kaTimer[Peer(e)] <= Quiet /\ kaTimer[Peer(e)] \in Nat
      BY <1>2, <1>6, <2>2, AtEnd DEF LiveInv, SendsInTime
    <3>2. mute <= Quiet
      <4> HIDE DEF mute
      <4> QED BY <1>2, <3>1
    <3>3. sendAge[Peer(e)] < Cap
      BY <1>2, <3>2, AtEnd, Silence
    <3> HIDE DEF silence, silenceNext, mute, muteNext
    <3>4. silenceNext <= muteNext + TicksPerSecond - 1
      BY <1>2, <1>3, <1>4, <2>2, <3>3
    <3> QED BY <1>0, <2>2, <3>4 DEF SignOfLife, silenceNext, muteNext
  <2> QED BY <1>1, <1>6, <2>1, <2>2 DEF SignOfLife
<1> QED BY <1>0, <1>5, <1>6

(* An end that hears its peer does not find it silent for too long. *)
LEMMA NotCutStep ==
  ASSUME TypeOK, LiveInv, Enough, [Next]_vars
  PROVE  NotCut'
<1>1. ASSUME timedOut' = timedOut, keeps' = keeps, cut \subseteq cut'
      PROVE  NotCut'
  BY <1>1 DEF LiveInv, NotCut
<1>2. ASSUME NEW f \in Ends, DoTimeoutCheck(f), timedOut' # timedOut
      PROVE  NotCut'
  <2>1. /\ timedOut' = timedOut \cup {f} /\ UNCHANGED <<keeps, cut>>
        /\ recvAge[f] >= TimeOutInterval /\ f \in connected
    BY <1>2 DEF DoTimeoutCheck
  <2>2. ASSUME Peer(f) \in keeps, f \notin cut
        PROVE  FALSE
    <3> DEFINE silence == Elapsed(recvAge[f], phase[f])
               mute == Elapsed(sendAge[Peer(f)], phase[Peer(f)])
    <3>1. SignOfLife(f)
      BY <2>1, <2>2 DEF LiveInv, Hears
    <3>2. /\ Quiet \in Nat /\ MaxDelay \in Nat /\ silence \in Nat /\ mute \in Nat
          /\ Peer(f) \in Ends /\ TicksPerSecond \in Nat /\ TimeOutTicks \in Nat
          /\ Quiet + TicksPerSecond - 1 + MaxDelay < TimeOutTicks
      BY PeerFacts, AtEnd, Silence, Intervals
    <3>3. silence >= TimeOutTicks
      BY <2>1, AtEnd, InSeconds, Intervals DEF TimeOutTicks
    <3>4. ASSUME NEW m \in wire, silence <= Quiet + TicksPerSecond - 1 + m.age
          PROVE  FALSE
      <4>1. m.age \in 0..MaxDelay
        BY DEF TypeOK, Messages
      <4> HIDE DEF silence, mute
      <4> QED BY <3>2, <3>3, <3>4, <4>1
    <3>5. ASSUME Peer(f) \in connected, silence <= mute + TicksPerSecond - 1
          PROVE  FALSE
      <4>1. mute + kaTimer[Peer(f)] <= Quiet /\ kaTimer[Peer(f)] \in Nat
        BY <2>2, <3>2, <3>5, AtEnd DEF LiveInv, SendsInTime
      <4> HIDE DEF silence, mute
      <4> QED BY <3>2, <3>3, <3>5, <4>1
    <3> QED BY <3>1, <3>4, <3>5 DEF SignOfLife
  <2> QED BY <2>1, <2>2 DEF LiveInv, NotCut
<1>3. \/ UNCHANGED <<keeps, timedOut>> /\ cut \subseteq cut'
      \/ UNCHANGED <<keeps, cut>> /\ \E f \in Ends : DoTimeoutCheck(f)
  <2>1. ASSUME NEW f \in Ends, DoTimeoutCheck(f)
        PROVE  UNCHANGED <<keeps, cut>>
    BY <2>1 DEF DoTimeoutCheck
  <2>2. ASSUME NEW f \in Ends, AppSends(f) \/ AppCloses(f) \/ Cut(f) \/ DoSendKeepAlive(f)
        PROVE  UNCHANGED <<keeps, timedOut>> /\ cut \subseteq cut'
    BY <2>2 DEF AppSends, AppCloses, Cut, DoSendKeepAlive
  <2>3. ASSUME NEW m \in wire, Receive(m)
        PROVE  UNCHANGED <<keeps, timedOut, cut>>
    BY <2>3 DEF Receive
  <2>4. Tick => UNCHANGED <<keeps, timedOut, cut>>
    BY DEF Tick
  <2>5. UNCHANGED vars => UNCHANGED <<keeps, timedOut, cut>>
    BY DEF vars
  <2> QED BY <2>1, <2>2, <2>3, <2>4, <2>5 DEF Next
<1>4. CASE UNCHANGED <<keeps, timedOut>> /\ cut \subseteq cut'
  BY <1>1, <1>4
<1>5. CASE UNCHANGED <<keeps, cut>> /\ \E f \in Ends : DoTimeoutCheck(f)
  BY <1>1, <1>2, <1>5
<1> QED BY <1>3, <1>4, <1>5

LEMMA InitLive == Init /\ Enough => LiveInv
<1> SUFFICES ASSUME Init, Enough PROVE LiveInv
  OBVIOUS
<1>1. FinIsLast /\ NotCut
  BY DEF Init, FinIsLast, NotCut
<1>2. ASSUME NEW e \in Ends
      PROVE  SendsInTime(e) /\ Hears(e)
  <2> DEFINE here == Elapsed(0, phase[e])
             there == Elapsed(0, phase[Peer(e)])
  <2>1. /\ Peer(e) \in Ends /\ phase[e] \in Phases /\ phase[Peer(e)] \in Phases
        /\ connected = Ends
        /\ sendAge[e] = 0 /\ recvAge[e] = 0 /\ sendAge[Peer(e)] = 0
        /\ e \in keeps => kaTimer[e] = 0
    BY PeerFacts DEF Init, Phases
  <2>2. here \in Nat /\ there \in Nat /\ here <= TicksPerSecond - 1
    BY <2>1, JustNow, Intervals DEF Phases
  <2> HIDE DEF here, there
  <2>3. here + 0 <= Quiet /\ 0 <= KeepTicks /\ here <= there + TicksPerSecond - 1
    BY <2>2, Intervals DEF Quiet
  <2>4. SendsInTime(e)
    BY <2>1, <2>3 DEF SendsInTime, here
  <2>5. Hears(e)
    BY <2>1, <2>3 DEF Hears, FinFollows, SignOfLife, here, there
  <2> QED BY <2>4, <2>5
<1> QED BY <1>1, <1>2 DEF LiveInv

LEMMA LiveStep == TypeOK /\ LiveInv /\ Enough /\ [Next]_vars => LiveInv'
<1> SUFFICES ASSUME TypeOK, LiveInv, Enough, [Next]_vars PROVE LiveInv'
  OBVIOUS
<1>1. \A e \in Ends : SendsInTime(e)'
  BY SendsStep DEF LiveInv
<1>2. \A e \in Ends : Hears(e)'
  BY HearsStep, HearsTick
<1>3. FinIsLast' /\ NotCut'
  BY FinStep, NotCutStep DEF LiveInv
<1> QED BY <1>1, <1>2, <1>3 DEF LiveInv

(* If the timeout exceeds the longest silence, the hypothesis in the       *)
(* property, an end whose peer keeps alive ends its session for silence    *)
(* only if nothing reaches it any more: the timers of both ends and the    *)
(* way of the messages together, for all intervals, clocks and delays      *)
(* (doSendKeepAlive, doTimeoutCheck, handleRecvData).                      *)
THEOREM PeerKept == Spec => []LiveNotCut
<1> DEFINE Inv == TypeOK /\ (Enough => LiveInv)
<1>1. Init => Inv
  BY InitType, InitLive
<1>2. Inv /\ [Next]_vars => Inv'
  BY TypeStep, LiveStep DEF Enough
<1>3. Inv => LiveNotCut
  BY DEF LiveInv, NotCut, LiveNotCut, Enough
<1> HIDE DEF Inv
<1> QED BY <1>1, <1>2, <1>3, PTL DEF Spec
=============================================================================
