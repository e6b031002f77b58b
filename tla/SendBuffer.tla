------------------------------ MODULE SendBuffer ------------------------------
(***************************************************************************)
(* The memory management of NetConnection's two send buffers: how          *)
(* m_waitingBuf grows when a call does not fit, how the buffers change     *)
(* places when a write starts, and when the waiting one is halved.  A      *)
(* buffer state is a record of the three lengths the code keeps:           *)
(*   waitingLen  m_waitingBufLen     sendLen  m_sendBufLen                 *)
(*   ave         m_sendAveSize                                             *)
(* Lengths are in units of the caller's choice; the two limits are the     *)
(* macros of NetConnection.cpp:13-20, which a build may override.          *)
(***************************************************************************)
EXTENDS Integers

CONSTANTS
  MinSendBufSize,   \* MIN_SEND_BUF_SIZE
  MaxSendBufSize    \* MAX_SEND_BUF_SIZE

Capacities == {MinSendBufSize * 2^k : k \in 0..20}

(* The smallest power-of-two multiple of the minimum that holds need. *)
IsCapacityFor(c, need) == need <= c /\ (c < 2 * need \/ c = MinSendBufSize)

(* Both limits are positive, and every length up to the maximum has a      *)
(* capacity (true of 64 KB and 64 MB, which are 2^10 apart).               *)
ASSUME BufferAssumption ==
  /\ MinSendBufSize \in Nat \ {0}
  /\ MaxSendBufSize \in Nat \ {0}
  /\ Capacities \subseteq Nat
  /\ \A need \in 1..MaxSendBufSize : \E c \in Capacities : IsCapacityFor(c, need)

BufferState == [waitingLen : Nat, sendLen : Nat, ave : Nat]

(* init(): no memory is allocated yet. *)
EmptyBuffers == [waitingLen |-> 0, sendLen |-> 0, ave |-> 0]

(* The resizeLen of sendDataAsync. *)
GrownTo(need) == CHOOSE c \in Capacities : IsCapacityFor(c, need)

(* m_waitingBuf made large enough for need bytes. *)
Reserve(b, need) ==
  IF need > b.waitingLen THEN [b EXCEPT !.waitingLen = GrownTo(need)] ELSE b

(* Mutant: an unweighted running difference. *)
AveragedAsDifference(ave, n) == IF ave > 0 THEN ave - n ELSE n

(* m_sendAveSize after a write of n bytes: the first write sets it, later  *)
(* ones count for two per cent.                                            *)
Averaged(ave, n) == IF ave > 0 THEN (98 * ave + 2 * n) \div 100 ELSE n

(* The waiting buffer is halved when it is large and writes are small. *)
MayShrink(b) == /\ b.ave > MinSendBufSize
                /\ b.waitingLen > 2 * MinSendBufSize
                /\ b.ave < b.waitingLen \div 4

Trimmed(b) == IF MayShrink(b) THEN [b EXCEPT !.waitingLen = @ \div 2] ELSE b

(* Mutant: the trimming is done before the buffers change places. *)
SwappedAfterTrim(b, n) ==
  LET t == Trimmed([b EXCEPT !.ave = Averaged(b.ave, n)])
  IN  [waitingLen |-> t.sendLen, sendLen |-> t.waitingLen, ave |-> t.ave]

(* The buffers after doSendData started an unencrypted write of n bytes:   *)
(* they changed places, the average moved, the new waiting one was trimmed.*)
Swapped(b, n) ==
  Trimmed([waitingLen |-> b.sendLen, sendLen |-> b.waitingLen, ave |-> Averaged(b.ave, n)])
=============================================================================
