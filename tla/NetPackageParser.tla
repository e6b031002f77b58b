---------------------------- MODULE NetPackageParser ----------------------------
(***************************************************************************)
(* How a connection cuts the byte stream it receives into packages: the    *)
(* parser without a cipher (src/src/net/NetPackageParser.cpp) and the loop *)
(* that drives it (NetManager::onDataReceived).  One connection's strand   *)
(* runs all of it, so the steps are sequential; what varies is where the   *)
(* reads cut the stream and what the peer sends.                           *)
(*                                                                         *)
(* A byte is represented by its offset in the stream, so that a byte in    *)
(* the wrong place is seen.  The peer sends packages of which each has a   *)
(* length on the wire and a claimed length in its header; the two differ   *)
(* only for a package with a wrong length field.                           *)
(***************************************************************************)
EXTENDS Integers, Sequences, FiniteSets

CONSTANTS
  HeaderLength,    \* NET_PACKAGE_HEADER_LENGTH
  InvalidLength,   \* NET_PACKAGE_INVALID_LENGTH: no package is longer
  Packages,        \* what the peer may send: [len, claim]
  BufLength,       \* the first size of m_dataBuf
  MaxRead,         \* size of the connection's receive buffer
  MaxPackages      \* bound: packages the peer sends

Wellformed(p) == p.claim = p.len /\ p.len >= HeaderLength /\ p.len <= InvalidLength

ASSUME ParserAssumption ==
  /\ {HeaderLength, InvalidLength, BufLength, MaxRead} \subseteq Nat \ {0}
  /\ HeaderLength <= InvalidLength
  /\ MaxPackages \in Nat
  /\ Packages \subseteq [len : Nat \ {0}, claim : Nat]
  /\ \A p \in Packages : p.len >= HeaderLength

VARIABLES
  sent,        \* the packages the peer has sent, with the offset of each
  total,       \* number of bytes they have
  received,    \* number of bytes read from the socket so far
  dataBuf,     \* m_dataBuf
  dataLen,     \* m_dataLen
  dataIndex,   \* m_dataIndex
  parsing,     \* inside the loop of onDataReceived
  emitted      \* history: the contents passed to onPackageReceived

parserVars == <<dataBuf, dataLen, dataIndex>>
vars == <<sent, total, received, parserVars, parsing, emitted>>

Unset == -1    \* a byte nothing was copied to

Size == Cardinality(DOMAIN dataBuf)    \* m_dataBuf.size()

TypeOK ==
  /\ sent \in Seq([at : Nat, len : Nat \ {0}, claim : Nat])
  /\ total \in Nat
  /\ received \in Nat
  /\ dataBuf \in [0..(Size - 1) -> Nat \cup {Unset}]
  /\ dataLen \in Nat
  /\ dataIndex \in Nat
  /\ parsing \in BOOLEAN
  /\ emitted \in Seq(Seq(Nat \cup {Unset}))

Init ==
  /\ sent = << >>
  /\ total = 0
  /\ received = 0
  /\ dataBuf = [i \in 0..(BufLength - 1) |-> Unset]
  /\ dataLen = 0
  /\ dataIndex = 0
  /\ parsing = FALSE
  /\ emitted = << >>

-----------------------------------------------------------------------------
(* The peer sends a package. *)
Send(p) ==
  /\ Len(sent) < MaxPackages
  /\ sent' = Append(sent, [at |-> total, len |-> p.len, claim |-> p.claim])
  /\ total' = total + p.len
  /\ UNCHANGED <<received, parserVars, parsing, emitted>>

(* feedPack: the n bytes just read are copied behind those already there,  *)
(* into a buffer that grows by n when they do not fit.                     *)
Resized(buf, size, n) ==
  IF size < dataLen + n
  THEN [i \in 0..(size + n - 1) |-> IF i < size THEN buf[i] ELSE Unset]
  ELSE buf

Copied(buf, from, n) ==
  [i \in DOMAIN buf |-> IF dataLen <= i /\ i < dataLen + n THEN from + (i - dataLen) ELSE buf[i]]

(* A read completes with n bytes; onDataReceived feeds them. *)
Receive(n) ==
  /\ ~parsing
  /\ n <= total - received
  /\ dataBuf' = Copied(Resized(dataBuf, Size, n), received, n)
  /\ dataLen' = dataLen + n
  /\ received' = received + n
  /\ parsing' = TRUE
  /\ UNCHANGED <<sent, total, dataIndex, emitted>>

-----------------------------------------------------------------------------
(* nextPackage. *)

HasHeader == dataLen - dataIndex >= HeaderLength

(* The length field at the parser's position: the claim of the package     *)
(* that starts there, or, once the parser has lost the packages' borders,  *)
(* any of them: what it reads then is part of a content.                   *)
LengthHere ==
  LET here == {k \in DOMAIN sent : sent[k].at = dataBuf[dataIndex]}
  IN  IF here # {} THEN {sent[k].claim : k \in here}
                   ELSE {p.claim : p \in Packages} \cup {0, HeaderLength}

ValidNotEmpty(n) == n > HeaderLength /\ n <= InvalidLength    \* mutant: no empty package
Valid(n) == n >= HeaderLength /\ n <= InvalidLength

EmitOnce ==    \* mutant: one package per read
  /\ parsing
  /\ HasHeader
  /\ \E n \in LengthHere :
       /\ Valid(n)
       /\ dataLen - dataIndex >= n
       /\ emitted' = Append(emitted, [i \in 1..(n - HeaderLength) |->
                                        dataBuf[dataIndex + HeaderLength + i - 1]])
       /\ dataIndex' = dataIndex + n
  /\ parsing' = FALSE
  /\ UNCHANGED <<sent, total, received, dataBuf, dataLen>>

(* A complete package is handed to onPackageReceived. *)
Emit ==
  /\ parsing
  /\ HasHeader
  /\ \E n \in LengthHere :
       /\ Valid(n)
       /\ dataLen - dataIndex >= n
       /\ emitted' = Append(emitted, [i \in 1..(n - HeaderLength) |->
                                        dataBuf[dataIndex + HeaderLength + i - 1]])
       /\ dataIndex' = dataIndex + n
  /\ UNCHANGED <<sent, total, received, dataBuf, dataLen, parsing>>

ResetKeepsIndex ==    \* mutant: the position survives the reset
  /\ parsing
  /\ HasHeader
  /\ \E n \in LengthHere : ~Valid(n)
  /\ dataLen' = 0
  /\ parsing' = FALSE
  /\ UNCHANGED <<sent, total, received, dataBuf, dataIndex, emitted>>

(* An invalid length resets the parser: all that is buffered is dropped.   *)
Reset ==
  /\ parsing
  /\ HasHeader
  /\ \E n \in LengthHere : ~Valid(n)
  /\ dataLen' = 0
  /\ dataIndex' = 0
  /\ parsing' = FALSE
  /\ UNCHANGED <<sent, total, received, dataBuf, emitted>>

(* ajust: the bytes not yet used move to the front of the buffer.  The two *)
(* ranges may overlap; memcpy is taken to copy upwards, as memmove would.  *)
NotMoved(buf, from, n) == buf    \* mutant: the indices change, the bytes stay
MovedDown(buf, from, n) == [i \in DOMAIN buf |-> IF i < n THEN buf[from + i] ELSE buf[i]]

WaitKeepsIndex ==    \* mutant: the position is not moved with the bytes
  /\ parsing
  /\ HasHeader => \E n \in LengthHere : Valid(n) /\ dataLen - dataIndex < n
  /\ dataBuf' = MovedDown(dataBuf, dataIndex, dataLen - dataIndex)
  /\ dataLen' = dataLen - dataIndex
  /\ parsing' = FALSE
  /\ UNCHANGED <<sent, total, received, dataIndex, emitted>>

(* No complete package is left: the loop ends. *)
Wait ==
  /\ parsing
  /\ HasHeader => \E n \in LengthHere : Valid(n) /\ dataLen - dataIndex < n
  /\ dataBuf' = MovedDown(dataBuf, dataIndex, dataLen - dataIndex)
  /\ dataLen' = dataLen - dataIndex
  /\ dataIndex' = 0
  /\ parsing' = FALSE
  /\ UNCHANGED <<sent, total, received, emitted>>

Parse == Emit \/ Reset \/ Wait

Finished == /\ Len(sent) = MaxPackages /\ received = total /\ ~parsing
            /\ UNCHANGED vars

Next == \/ \E p \in Packages : Send(p)
        \/ \E n \in 1..MaxRead : Receive(n)
        \/ Parse
        \/ Finished

Spec == Init /\ [][Next]_vars

(* The strand finishes the loop it is in, and the socket delivers what the *)
(* peer sent.                                                              *)
FairSpec == Spec /\ WF_vars(Parse) /\ WF_vars(\E n \in 1..MaxRead : Receive(n))

-----------------------------------------------------------------------------
(* Safety. *)

Content(k) == [i \in 1..(sent[k].len - HeaderLength) |-> sent[k].at + HeaderLength + i - 1]

(* Before the first package with an invalid length, what is emitted is     *)
(* what was sent, package by package and byte by byte, wherever the reads  *)
(* cut the stream.                                                         *)
WellformedUpTo(k) == \A j \in 1..k : Wellformed(sent[j])

EmittedAsSent ==
  \A k \in DOMAIN emitted :
    (k \in DOMAIN sent /\ WellformedUpTo(k)) => emitted[k] = Content(k)

(* When the loop ends, every package received as a whole has been emitted: *)
(* none waits in the buffer for bytes of the next one.                     *)
NothingLeftBehind ==
  ~parsing => \A k \in DOMAIN sent :
                (WellformedUpTo(k) /\ sent[k].at + sent[k].len <= received) => k <= Len(emitted)

(* The position, the filled part and the buffer are nested, so no access   *)
(* of feedPack, nextPackage or ajust leaves the buffer; and the buffer,    *)
(* which grows by what did not fit and is never made smaller, stays below  *)
(* the longest valid package and two reads, whatever the peer sends.       *)
InBounds ==
  /\ dataIndex <= dataLen
  /\ dataLen <= Size
  /\ Size <= BufLength \/ Size <= InvalidLength + 2 * MaxRead - 2

(* Liveness: every package of a well-formed stream is emitted. *)
AllEmitted ==
  \A k \in 1..MaxPackages :
    (k \in DOMAIN sent /\ WellformedUpTo(k)) ~> (k \in DOMAIN emitted)
=============================================================================
