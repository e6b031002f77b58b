------------------------- MODULE NetPackageParser_proofs -------------------------
(***************************************************************************)
(* Proofs about NetPackageParser: the parser's types, that it stays within *)
(* its buffer and the buffer within its bound, that it emits what was      *)
(* sent, and that it leaves no complete package behind.                    *)
(***************************************************************************)
EXTENDS NetPackageParser, FiniteSetTheorems, TLAPS

(* The offset of the byte the parser is at, and where package k starts. *)
Position == received - dataLen + dataIndex
Start(k) == IF k <= Len(sent) THEN sent[k].at ELSE total

(* The packages lie one behind the other. *)
Layout ==
  /\ Start(1) = 0
  /\ \A k \in DOMAIN sent : /\ Start(k + 1) = sent[k].at + sent[k].len
                            /\ sent[k].at + sent[k].len <= total
                            /\ sent[k].len >= HeaderLength
  /\ \A i, j \in DOMAIN sent : i < j => sent[i].at + sent[i].len <= sent[j].at

(* The filled part of the buffer is the end of what was received. *)
Segment ==
  /\ dataLen <= received
  /\ received <= total
  /\ \A i \in 0..(Size - 1) : i < dataLen => dataBuf[i] = received - dataLen + i

(* Between two loops the rest is shorter than a package, and at the front. *)
Rest ==
  /\ ~parsing => dataIndex = 0 /\ dataLen < InvalidLength
  /\ dataLen < InvalidLength + MaxRead

(* As long as only well-formed packages were emitted, the parser is at the *)
(* start of the next, unless that is malformed and has made it go on.      *)
OnlyWellformed == \A j \in DOMAIN sent : j <= Len(emitted) => Wellformed(sent[j])
InStep ==
  OnlyWellformed =>
    /\ Len(emitted) <= Len(sent)
    /\ \/ Position = Start(Len(emitted) + 1)
       \/ /\ Len(emitted) + 1 \in DOMAIN sent
          /\ ~Wellformed(sent[Len(emitted) + 1])

IInv == /\ TypeOK /\ Size \in Nat /\ InBounds
        /\ Layout /\ Segment /\ Rest /\ InStep
        /\ EmittedAsSent /\ NothingLeftBehind

-----------------------------------------------------------------------------
(* The size of a buffer whose indices are known. *)
LEMMA SizeOfInterval ==
  ASSUME NEW n \in Nat
  PROVE  Cardinality(0..(n - 1)) = n
<1>1. Cardinality(0..(n - 1)) = IF 0 > n - 1 THEN 0 ELSE (n - 1) - 0 + 1
  BY FS_Interval
<1> QED BY <1>1

(* The fields of a package that was sent. *)
LEMMA SentFields ==
  ASSUME TypeOK
  PROVE  /\ Len(sent) \in Nat /\ DOMAIN sent = 1..Len(sent)
         /\ \A k \in DOMAIN sent : /\ sent[k].at \in Nat /\ sent[k].claim \in Nat
                                   /\ sent[k].len \in Nat \ {0}
<1> DEFINE R == [at : Nat, len : Nat \ {0}, claim : Nat]
<1>1. sent \in Seq(R)
  BY DEF TypeOK
<1>2. Len(sent) \in Nat /\ DOMAIN sent = 1..Len(sent) /\ \A k \in DOMAIN sent : sent[k] \in R
  <2> HIDE DEF R
  <2> QED BY <1>1
<1> QED BY <1>2

(* At the start of a package the parser reads that package's length field. *)
LEMMA LengthKnown ==
  ASSUME IInv, HasHeader, NEW k \in DOMAIN sent, Position = sent[k].at
  PROVE  LengthHere = {sent[k].claim}
<1>1. /\ dataIndex \in 0..(Size - 1) /\ dataIndex < dataLen
  <2>1. dataIndex \in Nat /\ dataLen \in Nat /\ Size \in Nat /\ dataLen <= Size
    BY DEF IInv, TypeOK, InBounds
  <2>2. HeaderLength \in Nat \ {0}
    BY ParserAssumption
  <2> QED BY <2>1, <2>2 DEF HasHeader
<1>2. dataBuf[dataIndex] = sent[k].at
  <2>1. dataIndex \in Nat /\ dataLen \in Nat /\ received \in Nat
    BY <1>1 DEF IInv, TypeOK
  <2>2. dataBuf[dataIndex] = received - dataLen + dataIndex
    BY <1>1 DEF IInv, Segment
  <2> QED BY <2>1, <2>2 DEF Position
<1>3. \A j \in DOMAIN sent : sent[j].at = sent[k].at => j = k
  <2> SUFFICES ASSUME NEW j \in DOMAIN sent, sent[j].at = sent[k].at, j # k PROVE FALSE
    OBVIOUS
  <2>1. /\ sent[j].at \in Nat /\ sent[j].len \in Nat \ {0} /\ sent[k].len \in Nat \ {0}
        /\ j \in Nat /\ k \in Nat
    BY SentFields DEF IInv
  <2>2. CASE j < k
    BY <2>1, <2>2 DEF IInv, Layout
  <2>3. CASE k < j
    BY <2>1, <2>3 DEF IInv, Layout
  <2> QED BY <2>1, <2>2, <2>3
<1>4. {j \in DOMAIN sent : sent[j].at = dataBuf[dataIndex]} = {k}
  BY <1>2, <1>3
<1> QED BY <1>4 DEF LengthHere

(* A length field is a natural number. *)
LEMMA LengthNat ==
  ASSUME TypeOK
  PROVE  LengthHere \subseteq Nat
<1>1. \A k \in DOMAIN sent : sent[k].claim \in Nat
  BY SentFields
<1>2. \A p \in Packages : p.claim \in Nat
  BY ParserAssumption
<1>3. HeaderLength \in Nat
  BY ParserAssumption
<1> QED BY <1>1, <1>2, <1>3 DEF LengthHere

-----------------------------------------------------------------------------
LEMMA InitIInv == Init => IInv
<1> SUFFICES ASSUME Init PROVE IInv
  OBVIOUS
<1> USE ParserAssumption DEF Init
<1>1. DOMAIN dataBuf = 0..(BufLength - 1) /\ Size = BufLength
  BY SizeOfInterval DEF Size
<1>2. TypeOK /\ Size \in Nat
  <2>1. dataBuf \in [0..(BufLength - 1) -> Nat \cup {Unset}]
    OBVIOUS
  <2>2. sent \in Seq([at : Nat, len : Nat \ {0}, claim : Nat])
        /\ emitted \in Seq(Seq(Nat \cup {Unset}))
    OBVIOUS
  <2> QED BY <1>1, <2>1, <2>2 DEF TypeOK
<1>3. InBounds /\ Rest
  BY <1>1 DEF InBounds, Rest
<1>4. Layout /\ Segment
  BY <1>1 DEF Layout, Start, Segment
<1>5. InStep
  BY DEF InStep, OnlyWellformed, Position, Start
<1>6. EmittedAsSent /\ NothingLeftBehind
  BY DEF EmittedAsSent, NothingLeftBehind
<1> QED BY <1>2, <1>3, <1>4, <1>5, <1>6 DEF IInv

(* A package that is sent goes behind the others, and behind what was      *)
(* received.                                                               *)
LEMMA SendIInv ==
  ASSUME IInv, NEW p \in Packages, Send(p)
  PROVE  IInv'
<1> DEFINE new == [at |-> total, len |-> p.len, claim |-> p.claim]
<1> USE DEF IInv
<1>1. /\ new \in [at : Nat, len : Nat \ {0}, claim : Nat] /\ new.len >= HeaderLength
      /\ HeaderLength \in Nat \ {0}
  BY ParserAssumption DEF TypeOK
<1>2. /\ Len(sent') = Len(sent) + 1 /\ DOMAIN sent' = 1..(Len(sent) + 1)
      /\ DOMAIN sent = 1..Len(sent) /\ Len(sent) \in Nat
      /\ \A k \in DOMAIN sent : sent'[k] = sent[k]
      /\ sent'[Len(sent) + 1] = new
      /\ total' = total + new.len
  <2>1. sent' = Append(sent, new) /\ total' = total + new.len
    BY DEF Send
  <2> DEFINE R == [at : Nat, len : Nat \ {0}, claim : Nat]
  <2>2. sent \in Seq(R) /\ new \in R
    BY <1>1 DEF TypeOK
  <2> HIDE DEF new, R
  <2> QED BY <2>1, <2>2
<1> HIDE DEF new
<1>3. Size' = Size /\ UNCHANGED <<received, dataBuf, dataLen, dataIndex, parsing, emitted>>
  BY DEF Send, parserVars, Size
<1>4. TypeOK' /\ (Size \in Nat)' /\ InBounds' /\ Rest'
  <2>1. sent' \in Seq([at : Nat, len : Nat \ {0}, claim : Nat]) /\ total' \in Nat
    <3>1. sent' = Append(sent, new)
      BY DEF Send, new
    <3>2. sent \in Seq([at : Nat, len : Nat \ {0}, claim : Nat])
      BY DEF TypeOK
    <3>3. total' \in Nat
      BY <1>1, <1>2 DEF TypeOK
    <3> QED BY <1>1, <3>1, <3>2, <3>3
  <2> QED BY <1>3, <2>1 DEF TypeOK, InBounds, Rest
<1>5. Layout'
  <2>0. new.at = total /\ total \in Nat
    BY DEF new, TypeOK
  <2>1. \A k \in 1..(Len(sent) + 1) : Start(k)' = Start(k)
    <3> SUFFICES ASSUME NEW k \in 1..(Len(sent) + 1) PROVE Start(k)' = Start(k)
      OBVIOUS
    <3>1. CASE k \in DOMAIN sent
      BY <1>2, <3>1 DEF Start
    <3>2. CASE k = Len(sent) + 1
      BY <1>2, <2>0, <3>2 DEF Start
    <3> QED BY <1>2, <3>1, <3>2
  <2> PICK n \in Nat : n = Len(sent)
    BY <1>2
  <2>2. Start(n + 1)' = total /\ Start(n + 2)' = total + new.len
    <3>1. ~(Len(sent) + 2 <= Len(sent')) /\ Len(sent) + 1 <= Len(sent')
      BY <1>2
    <3> QED BY <1>2, <2>0, <3>1 DEF Start
  <2>3. ASSUME NEW k \in DOMAIN sent'
        PROVE  /\ Start(k + 1)' = sent'[k].at + sent'[k].len
               /\ sent'[k].at + sent'[k].len <= total'
               /\ sent'[k].len >= HeaderLength
    <3>1. CASE k \in DOMAIN sent
      <4>1. /\ sent'[k] = sent[k] /\ k + 1 \in 1..(Len(sent) + 1)
            /\ sent[k].at \in Nat /\ sent[k].len \in Nat
        BY <1>2, <3>1, SentFields
      <4>2. /\ Start(k + 1) = sent[k].at + sent[k].len
            /\ sent[k].at + sent[k].len <= total
            /\ sent[k].len >= HeaderLength
        BY <3>1 DEF Layout
      <4>3. total \in Nat /\ total' = total + new.len /\ new.len \in Nat
        BY <1>1, <1>2 DEF TypeOK
      <4> QED BY <2>1, <4>1, <4>2, <4>3
    <3>2. CASE k = Len(sent) + 1
      <4>1. sent'[k] = new /\ k + 1 = Len(sent) + 2
        BY <1>2, <3>2
      <4>2. new.at = total /\ total' = total + new.len /\ total \in Nat
        BY <1>2, <2>0
      <4> QED BY <1>1, <2>2, <4>1, <4>2
    <3> QED BY <1>2, <3>1, <3>2
  <2>4. ASSUME NEW i \in DOMAIN sent', NEW j \in DOMAIN sent', i < j
        PROVE  sent'[i].at + sent'[i].len <= sent'[j].at
    <3>1. i \in DOMAIN sent /\ sent'[i] = sent[i]
      BY <1>2, <2>4
    <3>2. CASE j \in DOMAIN sent
      BY <1>2, <2>4, <3>1, <3>2 DEF Layout
    <3>3. CASE j = Len(sent) + 1
      BY <1>2, <3>1, <3>3 DEF Layout, new
    <3> QED BY <1>2, <3>2, <3>3
  <2>5. Start(1)' = 0
    BY <1>2, <2>1 DEF Layout
  <2> QED BY <2>3, <2>4, <2>5 DEF Layout
<1>6. Segment'
  BY <1>1, <1>2, <1>3 DEF Segment, TypeOK
<1>7. OnlyWellformed' => OnlyWellformed /\ Len(emitted) <= Len(sent)
  <2>1. OnlyWellformed' => OnlyWellformed
    BY <1>2, <1>3 DEF OnlyWellformed
  <2> QED BY <2>1 DEF InStep
<1>8. InStep'
  <2> SUFFICES ASSUME OnlyWellformed'
               PROVE  /\ Len(emitted) <= Len(sent')
                      /\ \/ Position' = Start(Len(emitted) + 1)'
                         \/ /\ Len(emitted) + 1 \in DOMAIN sent'
                            /\ ~Wellformed(sent'[Len(emitted) + 1])
    BY <1>3 DEF InStep
  <2>1. Len(emitted) \in Nat
    BY DEF TypeOK
  <2>2. Position' = Position
    BY <1>3 DEF Position
  <2>3. Start(Len(emitted) + 1)' = Start(Len(emitted) + 1)
    <3>1. CASE Len(emitted) + 1 \in DOMAIN sent
      BY <1>2, <1>3, <2>1, <3>1 DEF Start
    <3>2. CASE Len(emitted) = Len(sent)
      <4>1. new.at = total
        BY DEF new
      <4> QED BY <1>2, <1>3, <3>2, <4>1 DEF Start
    <3> QED BY <1>2, <1>7, <2>1, <3>1, <3>2
  <2> QED BY <1>2, <1>7, <2>1, <2>2, <2>3 DEF InStep
<1>9. EmittedAsSent'
  <2> SUFFICES ASSUME NEW k \in DOMAIN emitted, k \in DOMAIN sent', WellformedUpTo(k)'
               PROVE  emitted[k] = Content(k)'
    BY <1>3 DEF EmittedAsSent
  <2>1. CASE k \in DOMAIN sent
    <3>1. WellformedUpTo(k)
      BY <1>2, <2>1 DEF WellformedUpTo
    <3> QED BY <1>2, <2>1, <3>1 DEF EmittedAsSent, Content
  <2>2. CASE k = Len(sent) + 1
    <3>1. OnlyWellformed /\ Len(emitted) \in Nat
      BY <1>2, <2>2 DEF WellformedUpTo, OnlyWellformed, TypeOK
    <3>2. k <= Len(emitted)
      BY DEF TypeOK
    <3> QED BY <1>2, <2>2, <3>1, <3>2 DEF InStep
  <2> QED BY <1>2, <2>1, <2>2
<1>10. NothingLeftBehind'
  <2> SUFFICES ASSUME ~parsing, NEW k \in DOMAIN sent', WellformedUpTo(k)',
                      sent'[k].at + sent'[k].len <= received
               PROVE  k <= Len(emitted)
    BY <1>3 DEF NothingLeftBehind
  <2>1. CASE k \in DOMAIN sent
    <3>1. WellformedUpTo(k)
      BY <1>2, <2>1 DEF WellformedUpTo
    <3> QED BY <1>2, <2>1, <3>1 DEF NothingLeftBehind
  <2>2. CASE k = Len(sent) + 1
    BY <1>1, <1>2, <2>2 DEF Segment, TypeOK, new
  <2> QED BY <1>2, <2>1, <2>2
<1> QED BY <1>4, <1>5, <1>6, <1>8, <1>9, <1>10

(* A read is copied behind the filled part, into a buffer that may grow.   *)
LEMMA ReceiveIInv ==
  ASSUME IInv, NEW n \in 1..MaxRead, Receive(n)
  PROVE  IInv'
<1>1. /\ HeaderLength \in Nat \ {0} /\ InvalidLength \in Nat \ {0} /\ MaxRead \in Nat \ {0}
      /\ BufLength \in Nat \ {0}
      /\ n \in Nat /\ n <= MaxRead /\ n > 0
  BY ParserAssumption
<1>2. /\ dataLen \in Nat /\ dataIndex \in Nat /\ received \in Nat /\ total \in Nat
      /\ Size \in Nat /\ dataBuf \in [0..(Size - 1) -> Nat \cup {Unset}]
      /\ dataLen <= received /\ received <= total /\ dataIndex <= dataLen /\ dataLen <= Size
  BY DEF IInv, TypeOK, InBounds, Segment
<1>3. /\ ~parsing /\ parsing' = TRUE /\ n <= total - received
      /\ dataLen' = dataLen + n /\ received' = received + n
      /\ UNCHANGED <<sent, total, dataIndex, emitted>>
  BY DEF Receive
<1>4. dataIndex = 0 /\ dataLen < InvalidLength
  BY <1>3 DEF IInv, Rest
<1>5. PICK s \in Nat :
        /\ s = IF Size < dataLen + n THEN Size + n ELSE Size
        /\ dataBuf' \in [0..(s - 1) -> Nat \cup {Unset}]
        /\ \A i \in 0..(s - 1) :
             /\ i < dataLen => dataBuf'[i] = dataBuf[i]
             /\ dataLen <= i /\ i < dataLen + n => dataBuf'[i] = received + (i - dataLen)
  <2> DEFINE s == IF Size < dataLen + n THEN Size + n ELSE Size
             resized == Resized(dataBuf, Size, n)
  <2>1. resized \in [0..(s - 1) -> Nat \cup {Unset}]
    <3>1. CASE Size < dataLen + n
      BY <1>1, <1>2, <3>1 DEF Resized
    <3>2. CASE ~(Size < dataLen + n)
      BY <1>1, <1>2, <3>2 DEF Resized
    <3> QED BY <3>1, <3>2
  <2>2. \A i \in 0..(s - 1) : i < dataLen => resized[i] = dataBuf[i]
    <3>1. CASE Size < dataLen + n
      BY <1>1, <1>2, <3>1 DEF Resized
    <3>2. CASE ~(Size < dataLen + n)
      BY <1>1, <1>2, <3>2 DEF Resized
    <3> QED BY <3>1, <3>2
  <2>3. dataBuf' = [i \in 0..(s - 1) |-> IF dataLen <= i /\ i < dataLen + n
                                         THEN received + (i - dataLen) ELSE resized[i]]
    <3>1. dataBuf' = Copied(resized, received, n) /\ DOMAIN resized = 0..(s - 1)
      BY <2>1 DEF Receive
    <3> HIDE DEF resized, s
    <3> QED BY <3>1 DEF Copied
  <2>4. s \in Nat
    BY <1>1, <1>2
  <2> HIDE DEF resized
  <2>5. \A i \in 0..(s - 1) : dataLen <= i => received + (i - dataLen) \in Nat
    BY <1>2, <2>4
  <2>6. dataBuf' \in [0..(s - 1) -> Nat \cup {Unset}]
    <3> HIDE DEF s
    <3> QED BY <2>1, <2>3, <2>5
  <2>7. \A i \in 0..(s - 1) :
             /\ i < dataLen => dataBuf'[i] = dataBuf[i]
             /\ dataLen <= i /\ i < dataLen + n => dataBuf'[i] = received + (i - dataLen)
    <3>1. \A i \in 0..(s - 1) : i < dataLen => ~(dataLen <= i)
      BY <1>2, <2>4
    <3> HIDE DEF s
    <3> QED BY <2>2, <2>3, <3>1
  <2> QED BY <2>4, <2>6, <2>7
<1>6. Size' = s /\ s \in Nat /\ dataLen + n <= s
  <2>1. Size' = s
    BY <1>5, SizeOfInterval DEF Size
  <2> QED BY <1>1, <1>2, <1>5, <2>1
<1>7. TypeOK' /\ (Size \in Nat)'
  <2>1. dataLen' \in Nat /\ received' \in Nat
    BY <1>1, <1>2, <1>3
  <2>2. dataBuf' \in [0..(Size' - 1) -> Nat \cup {Unset}]
    BY <1>5, <1>6
  <2> QED BY <1>3, <1>6, <2>1, <2>2 DEF IInv, TypeOK
<1>8. InBounds'
  <2>1. Size' <= BufLength \/ Size' <= InvalidLength + 2 * MaxRead - 2
    <3>1. CASE Size < dataLen + n
      BY <1>1, <1>2, <1>4, <1>5, <1>6, <3>1
    <3>2. CASE ~(Size < dataLen + n)
      BY <1>5, <1>6, <3>2 DEF IInv, InBounds
    <3> QED BY <3>1, <3>2
  <2> QED BY <1>1, <1>2, <1>3, <1>6, <2>1 DEF InBounds
<1>9. Rest'
  BY <1>1, <1>2, <1>3, <1>4 DEF Rest
<1>10. Layout'
  BY <1>3 DEF IInv, Layout, Start
<1>11. Segment'
  <2>1. \A i \in 0..(s - 1) : i < dataLen + n => dataBuf'[i] = received - dataLen + i
    <3> SUFFICES ASSUME NEW i \in 0..(s - 1), i < dataLen + n
                 PROVE  dataBuf'[i] = received - dataLen + i
      OBVIOUS
    <3>1. CASE i < dataLen
      <4>1. dataBuf'[i] = dataBuf[i] /\ i \in 0..(Size - 1)
        BY <1>2, <1>5, <3>1
      <4> QED BY <3>1, <4>1 DEF IInv, Segment
    <3>2. CASE dataLen <= i
      BY <1>2, <1>5, <3>2
    <3> QED BY <1>2, <3>1, <3>2
  <2>2. received' - dataLen' = received - dataLen
    BY <1>1, <1>2, <1>3
  <2>3. dataLen' <= received' /\ received' <= total'
    BY <1>1, <1>2, <1>3
  <2> QED BY <1>3, <1>6, <2>1, <2>2, <2>3 DEF Segment
<1>12. InStep'
  <2>1. Position' = Position
    BY <1>1, <1>2, <1>3 DEF Position
  <2> QED BY <1>3, <2>1 DEF IInv, InStep, OnlyWellformed, Start
<1>13. EmittedAsSent'
  BY <1>3 DEF IInv, EmittedAsSent, WellformedUpTo, Content
<1>14. NothingLeftBehind'
  BY <1>3 DEF NothingLeftBehind
<1> QED BY <1>7, <1>8, <1>9, <1>10, <1>11, <1>12, <1>13, <1>14 DEF IInv

(* While only well-formed packages were emitted and the next is well-      *)
(* formed too, the parser is at its start.                                 *)
LEMMA AtNextPackage ==
  ASSUME IInv, NEW k \in DOMAIN sent, WellformedUpTo(k), k > Len(emitted)
  PROVE  /\ Len(emitted) + 1 \in DOMAIN sent
         /\ Len(emitted) + 1 <= k
         /\ Wellformed(sent[Len(emitted) + 1])
         /\ Position = sent[Len(emitted) + 1].at
<1>1. Len(emitted) \in Nat
  BY DEF IInv, TypeOK
<1>2. k \in Nat /\ DOMAIN sent = 1..Len(sent) /\ Len(sent) \in Nat
  BY SentFields DEF IInv
<1>3. Len(emitted) + 1 \in DOMAIN sent /\ Len(emitted) + 1 <= k
  BY <1>1, <1>2
<1>4. OnlyWellformed
  BY <1>1, <1>2 DEF OnlyWellformed, WellformedUpTo
<1>5. Wellformed(sent[Len(emitted) + 1])
  BY <1>1, <1>2, <1>3 DEF WellformedUpTo
<1> QED BY <1>2, <1>3, <1>4, <1>5 DEF IInv, InStep, Start

(* A package is emitted: its content is the bytes behind its header.       *)
LEMMA EmitIInv ==
  ASSUME IInv, Emit
  PROVE  IInv'
<1>1. HeaderLength \in Nat \ {0} /\ InvalidLength \in Nat \ {0}
  BY ParserAssumption
<1>2. /\ dataLen \in Nat /\ dataIndex \in Nat /\ received \in Nat /\ total \in Nat
      /\ Size \in Nat /\ dataBuf \in [0..(Size - 1) -> Nat \cup {Unset}]
      /\ dataLen <= received /\ received <= total /\ dataIndex <= dataLen /\ dataLen <= Size
      /\ Len(emitted) \in Nat /\ emitted \in Seq(Seq(Nat \cup {Unset}))
  BY DEF IInv, TypeOK, InBounds, Segment
<1>3. DOMAIN sent = 1..Len(sent) /\ Len(sent) \in Nat
  BY SentFields DEF IInv
<1> DEFINE content(n) == [i \in 1..(n - HeaderLength) |->
                            dataBuf[dataIndex + HeaderLength + i - 1]]
<1>4. PICK n \in Nat : /\ n \in LengthHere
                       /\ n >= HeaderLength
                       /\ dataLen - dataIndex >= n
                       /\ emitted' = Append(emitted, content(n))
                       /\ dataIndex' = dataIndex + n
  BY LengthNat DEF IInv, Emit, Valid
<1>5. parsing /\ HasHeader /\ UNCHANGED <<sent, total, received, dataBuf, dataLen, parsing>>
  BY DEF Emit
<1>6. \A i \in 1..(n - HeaderLength) :
        dataIndex + HeaderLength + i - 1 \in 0..(Size - 1)
        /\ dataBuf[dataIndex + HeaderLength + i - 1] = Position + HeaderLength + i - 1
  <2> SUFFICES ASSUME NEW i \in 1..(n - HeaderLength)
               PROVE  /\ dataIndex + HeaderLength + i - 1 \in 0..(Size - 1)
                      /\ dataBuf[dataIndex + HeaderLength + i - 1] = Position + HeaderLength + i - 1
    OBVIOUS
  <2>1. /\ dataIndex + HeaderLength + i - 1 \in 0..(Size - 1)
        /\ dataIndex + HeaderLength + i - 1 < dataLen
    BY <1>1, <1>2, <1>4
  <2>2. dataBuf[dataIndex + HeaderLength + i - 1]
          = received - dataLen + (dataIndex + HeaderLength + i - 1)
    BY <2>1 DEF IInv, Segment
  <2> QED BY <1>1, <1>2, <2>1, <2>2 DEF Position
<1>7. content(n) \in Seq(Nat \cup {Unset})
  <2>1. n - HeaderLength \in Nat
    BY <1>1, <1>4
  <2>2. \A i \in 1..(n - HeaderLength) :
          dataBuf[dataIndex + HeaderLength + i - 1] \in Nat \cup {Unset}
    BY <1>2, <1>6
  <2>3. content(n) \in [1..(n - HeaderLength) -> Nat \cup {Unset}]
    BY <2>2
  <2> QED BY <2>1, <2>3
<1>8. /\ emitted' \in Seq(Seq(Nat \cup {Unset})) /\ Len(emitted') = Len(emitted) + 1
      /\ DOMAIN emitted' = 1..(Len(emitted) + 1) /\ DOMAIN emitted = 1..Len(emitted)
      /\ \A k \in DOMAIN emitted : emitted'[k] = emitted[k]
      /\ emitted'[Len(emitted) + 1] = content(n)
  <2> HIDE DEF content
  <2> QED BY <1>2, <1>4, <1>7
<1>9. Size' = Size
  BY <1>5 DEF Size
<1>10. TypeOK' /\ (Size \in Nat)' /\ InBounds' /\ Rest'
  <2>1. dataIndex' \in Nat /\ dataIndex' <= dataLen
    BY <1>2, <1>4
  <2> QED BY <1>5, <1>8, <1>9, <2>1 DEF IInv, TypeOK, InBounds, Rest
<1>11. Layout' /\ Segment'
  BY <1>5, <1>9 DEF IInv, Layout, Start, Segment
<1>12. Position' = Position + n
  BY <1>2, <1>4, <1>5 DEF Position
<1>13. ASSUME OnlyWellformed'
       PROVE  /\ Len(emitted) + 1 \in DOMAIN sent
              /\ Position = sent[Len(emitted) + 1].at
              /\ n = sent[Len(emitted) + 1].len
  <2>1. OnlyWellformed
    BY <1>2, <1>3, <1>5, <1>8, <1>13 DEF OnlyWellformed
  <2>2. Len(emitted) + 1 \in DOMAIN sent
    <3> SUFFICES ASSUME Len(emitted) = Len(sent) PROVE FALSE
      BY <1>2, <1>3, <2>1 DEF IInv, InStep
    <3>1. Position = total
      BY <1>2, <1>3, <2>1 DEF IInv, InStep, Start
    <3> QED BY <1>1, <1>2, <1>4, <3>1 DEF Position
  <2>3. Wellformed(sent[Len(emitted) + 1])
    <3>1. \A j \in DOMAIN sent : j <= Len(emitted') => Wellformed(sent[j])
      BY <1>5, <1>13 DEF OnlyWellformed
    <3>2. Len(emitted) + 1 <= Len(emitted')
      BY <1>2, <1>8
    <3> QED BY <2>2, <3>1, <3>2
  <2>4. Position = sent[Len(emitted) + 1].at
    BY <1>3, <2>1, <2>2, <2>3 DEF IInv, InStep, Start
  <2>5. LengthHere = {sent[Len(emitted) + 1].claim}
    BY <1>5, <2>2, <2>4, LengthKnown
  <2> QED BY <1>4, <2>2, <2>3, <2>4, <2>5 DEF Wellformed
<1>14. InStep'
  <2> SUFFICES ASSUME OnlyWellformed'
               PROVE  /\ Len(emitted) + 1 <= Len(sent)
                      /\ Position' = Start(Len(emitted) + 2)
    BY <1>2, <1>5, <1>8 DEF InStep, Start
  <2>1. Start(Len(emitted) + 2) = sent[Len(emitted) + 1].at + sent[Len(emitted) + 1].len
    <3> DEFINE k == Len(emitted) + 1
    <3>1. k \in DOMAIN sent /\ k + 1 = Len(emitted) + 2
      BY <1>2, <1>13
    <3>2. Start(k + 1) = sent[k].at + sent[k].len
      BY <3>1 DEF IInv, Layout
    <3> QED BY <3>1, <3>2
  <2> QED BY <1>2, <1>3, <1>12, <1>13, <2>1
<1>15. EmittedAsSent'
  <2> SUFFICES ASSUME NEW k \in DOMAIN emitted', k \in DOMAIN sent, WellformedUpTo(k)
               PROVE  emitted'[k] = Content(k)
    BY <1>5 DEF EmittedAsSent, WellformedUpTo, Content
  <2>1. CASE k \in DOMAIN emitted
    BY <1>8, <2>1 DEF IInv, EmittedAsSent
  <2>2. CASE k = Len(emitted) + 1
    <3>1. OnlyWellformed'
      BY <1>2, <1>3, <1>5, <1>8, <2>2 DEF OnlyWellformed, WellformedUpTo
    <3>2. Position = sent[k].at /\ n = sent[k].len
      BY <1>13, <2>2, <3>1
    <3>3. content(n) = [i \in 1..(n - HeaderLength) |-> Position + HeaderLength + i - 1]
      BY <1>6
    <3> QED BY <1>8, <2>2, <3>2, <3>3 DEF Content
  <2> QED BY <1>2, <1>8, <2>1, <2>2
<1>16. NothingLeftBehind'
  BY <1>5 DEF NothingLeftBehind
<1> QED BY <1>10, <1>11, <1>14, <1>15, <1>16 DEF IInv

(* An invalid length: everything that is buffered is dropped.              *)
LEMMA ResetIInv ==
  ASSUME IInv, Reset
  PROVE  IInv'
<1>1. HeaderLength \in Nat \ {0} /\ InvalidLength \in Nat \ {0} /\ MaxRead \in Nat \ {0}
      /\ HeaderLength <= InvalidLength
  BY ParserAssumption
<1>2. /\ dataLen' = 0 /\ dataIndex' = 0 /\ parsing' = FALSE /\ HasHeader
      /\ UNCHANGED <<sent, total, received, dataBuf, emitted>>
  BY DEF Reset
<1>3. Size' = Size
  BY <1>2 DEF Size
<1>4. TypeOK' /\ (Size \in Nat)' /\ Rest'
  <2>1. dataBuf' \in [0..(Size' - 1) -> Nat \cup {Unset}] /\ Size' \in Nat
    BY <1>2, <1>3 DEF IInv, TypeOK
  <2>2. TypeOK'
    BY <1>2, <2>1 DEF IInv, TypeOK
  <2>3. Rest'
    BY <1>1, <1>2 DEF Rest
  <2> QED BY <2>1, <2>2, <2>3
<1>5. InBounds'
  BY <1>2, <1>3 DEF IInv, InBounds
<1>6. Layout' /\ EmittedAsSent'
  BY <1>2 DEF IInv, Layout, Start, EmittedAsSent, WellformedUpTo, Content
<1>7. Segment'
  BY <1>2, <1>3 DEF IInv, Segment, TypeOK
<1>8. ASSUME NEW k \in DOMAIN sent, Position = sent[k].at
      PROVE  ~Wellformed(sent[k])
  <2>1. LengthHere = {sent[k].claim}
    BY <1>2, <1>8, LengthKnown
  <2>2. ~Valid(sent[k].claim)
    BY <2>1 DEF Reset
  <2> QED BY <2>2 DEF Valid, Wellformed
<1>9. InStep'
  <2> SUFFICES ASSUME OnlyWellformed
               PROVE  /\ Len(emitted) <= Len(sent)
                      /\ Len(emitted) + 1 \in DOMAIN sent
                      /\ ~Wellformed(sent[Len(emitted) + 1])
    BY <1>2 DEF InStep, OnlyWellformed
  <2>1. Len(emitted) <= Len(sent) /\ Len(emitted) \in Nat
    BY DEF IInv, InStep, TypeOK
  <2>2. DOMAIN sent = 1..Len(sent) /\ Len(sent) \in Nat
    BY SentFields DEF IInv
  <2>3. Len(emitted) + 1 \in DOMAIN sent
    <3> SUFFICES ASSUME Len(emitted) = Len(sent) PROVE FALSE
      BY <2>1, <2>2
    <3>1. Position = total
      BY <2>1, <2>2 DEF IInv, InStep, Start
    <3> QED BY <1>1, <1>2, <3>1 DEF IInv, TypeOK, Segment, HasHeader, Position
  <2>4. CASE Position = Start(Len(emitted) + 1)
    BY <1>8, <2>1, <2>2, <2>3, <2>4 DEF Start
  <2> QED BY <2>1, <2>3, <2>4 DEF IInv, InStep
<1>10. NothingLeftBehind'
  <2> SUFFICES ASSUME NEW k \in DOMAIN sent, WellformedUpTo(k) PROVE k <= Len(emitted)
    BY <1>2 DEF NothingLeftBehind, WellformedUpTo
  <2> SUFFICES ASSUME k > Len(emitted) PROVE FALSE
    BY SentFields DEF IInv, TypeOK
  <2> QED BY <1>8, AtNextPackage
<1> QED BY <1>4, <1>5, <1>6, <1>7, <1>9, <1>10 DEF IInv

(* What is left moves to the front of the buffer.                          *)
LEMMA WaitIInv ==
  ASSUME IInv, Wait
  PROVE  IInv'
<1>1. HeaderLength \in Nat \ {0} /\ InvalidLength \in Nat \ {0} /\ MaxRead \in Nat \ {0}
      /\ HeaderLength <= InvalidLength
  BY ParserAssumption
<1>2. /\ dataLen \in Nat /\ dataIndex \in Nat /\ received \in Nat /\ total \in Nat
      /\ Size \in Nat /\ dataBuf \in [0..(Size - 1) -> Nat \cup {Unset}]
      /\ dataLen <= received /\ received <= total /\ dataIndex <= dataLen /\ dataLen <= Size
      /\ Len(emitted) \in Nat
  BY DEF IInv, TypeOK, InBounds, Segment
<1> DEFINE left == dataLen - dataIndex
<1>3. /\ dataBuf' = MovedDown(dataBuf, dataIndex, left)
      /\ dataLen' = left /\ dataIndex' = 0 /\ parsing' = FALSE
      /\ UNCHANGED <<sent, total, received, emitted>>
  BY DEF Wait
<1>4. left \in Nat /\ left <= dataLen
  BY <1>2
<1>5. /\ dataBuf' \in [0..(Size - 1) -> Nat \cup {Unset}]
      /\ \A i \in 0..(Size - 1) : i < left => dataBuf'[i] = dataBuf[dataIndex + i]
  <2>1. dataBuf' = [i \in 0..(Size - 1) |-> IF i < left THEN dataBuf[dataIndex + i] ELSE dataBuf[i]]
    BY <1>2, <1>3 DEF MovedDown
  <2>2. \A i \in 0..(Size - 1) : i < left => dataIndex + i \in 0..(Size - 1)
    BY <1>2
  <2> HIDE DEF left
  <2> QED BY <1>2, <2>1, <2>2
<1>6. Size' = Size
  BY <1>2, <1>5, SizeOfInterval DEF Size
<1>7. left < InvalidLength
  <2>1. CASE ~HasHeader
    BY <1>1, <1>2, <2>1 DEF HasHeader
  <2>2. CASE HasHeader
    <3>1. PICK n \in LengthHere : Valid(n) /\ left < n
      BY <2>2 DEF Wait
    <3>2. n \in Nat
      BY LengthNat DEF IInv
    <3> QED BY <1>1, <1>4, <3>1, <3>2 DEF Valid
  <2> QED BY <2>1, <2>2
<1>8. TypeOK' /\ (Size \in Nat)'
  BY <1>3, <1>4, <1>5, <1>6 DEF IInv, TypeOK
<1>9. InBounds'
  BY <1>2, <1>3, <1>4, <1>6 DEF IInv, InBounds
<1>10. Rest'
  BY <1>1, <1>3, <1>4, <1>7 DEF Rest
<1>11. Layout' /\ EmittedAsSent'
  BY <1>3 DEF IInv, Layout, Start, EmittedAsSent, WellformedUpTo, Content
<1>12. Segment'
  <2>1. \A i \in 0..(Size - 1) : i < left => dataBuf'[i] = received - left + i
    <3> SUFFICES ASSUME NEW i \in 0..(Size - 1), i < left
                 PROVE  dataBuf'[i] = received - left + i
      OBVIOUS
    <3>1. dataIndex + i \in 0..(Size - 1) /\ dataIndex + i < dataLen
      BY <1>2
    <3>2. dataBuf[dataIndex + i] = received - dataLen + (dataIndex + i)
      BY <3>1 DEF IInv, Segment
    <3> QED BY <1>2, <1>5, <3>1, <3>2
  <2> HIDE DEF left
  <2> QED BY <1>2, <1>3, <1>4, <1>6, <2>1 DEF Segment
<1>13. InStep'
  <2>1. Position' = Position
    BY <1>2, <1>3 DEF Position
  <2> QED BY <1>3, <2>1 DEF IInv, InStep, OnlyWellformed, Start
<1>14. NothingLeftBehind'
  <2> SUFFICES ASSUME NEW k \in DOMAIN sent, WellformedUpTo(k),
                      sent[k].at + sent[k].len <= received
               PROVE  k <= Len(emitted)
    BY <1>3 DEF NothingLeftBehind, WellformedUpTo
  <2>1. DOMAIN sent = 1..Len(sent) /\ Len(sent) \in Nat
        /\ \A j \in DOMAIN sent : sent[j].at \in Nat /\ sent[j].len \in Nat
    BY SentFields DEF IInv
  <2> SUFFICES ASSUME k > Len(emitted) PROVE FALSE
    BY <1>2, <2>1
  <2> DEFINE next == Len(emitted) + 1
  <2>2. next \in DOMAIN sent /\ next <= k /\ Wellformed(sent[next]) /\ Position = sent[next].at
    BY AtNextPackage
  <2> HIDE DEF next
  <2>3. sent[next].at + sent[next].len <= received
    <3>1. CASE next = k
      BY <3>1
    <3>2. CASE next < k
      <4>1. sent[next].at + sent[next].len <= sent[k].at
        BY <2>2, <3>2 DEF IInv, Layout
      <4> QED BY <1>2, <2>1, <2>2, <4>1
    <3> QED BY <2>1, <2>2, <3>1, <3>2
  <2>4. left >= sent[next].len
    BY <1>2, <2>1, <2>2, <2>3 DEF Position
  <2>5. HasHeader
    BY <1>1, <1>4, <2>1, <2>2, <2>4 DEF HasHeader, Wellformed
  <2>6. LengthHere = {sent[next].claim}
    BY <2>2, <2>5, LengthKnown
  <2>7. left < sent[next].claim
    BY <2>5, <2>6 DEF Wait
  <2> QED BY <1>4, <2>1, <2>2, <2>4, <2>7 DEF Wellformed
<1> QED BY <1>8, <1>9, <1>10, <1>11, <1>12, <1>13, <1>14 DEF IInv

-----------------------------------------------------------------------------
LEMMA NextIInv == IInv /\ [Next]_vars => IInv'
<1> SUFFICES ASSUME IInv, [Next]_vars PROVE IInv'
  OBVIOUS
<1>1. CASE \E p \in Packages : Send(p)
  BY <1>1, SendIInv
<1>2. CASE \E n \in 1..MaxRead : Receive(n)
  BY <1>2, ReceiveIInv
<1>3. CASE Emit
  BY <1>3, EmitIInv
<1>4. CASE Reset
  BY <1>4, ResetIInv
<1>5. CASE Wait
  BY <1>5, WaitIInv
<1>6. CASE UNCHANGED vars
  <2>1. UNCHANGED <<sent, total, received, dataBuf, dataLen, dataIndex, parsing, emitted>>
    BY <1>6 DEF vars, parserVars
  <2> QED BY <2>1 DEF IInv, TypeOK, Size, InBounds, Layout, Start, Segment, Rest, InStep,
                      OnlyWellformed, Position, EmittedAsSent, NothingLeftBehind,
                      WellformedUpTo, Content
<1> QED BY <1>1, <1>2, <1>3, <1>4, <1>5, <1>6 DEF Next, Parse, Finished

LEMMA Inductive == Spec => []IInv
<1> QED BY InitIInv, NextIInv, PTL DEF Spec

(* The parser's state keeps its types, whatever the peer sends.            *)
THEOREM TypeCorrect == Spec => []TypeOK
<1>1. IInv => TypeOK
  BY DEF IInv
<1> QED BY Inductive, <1>1, PTL

(* Every access of feedPack, nextPackage and ajust is within the buffer,   *)
(* and the buffer within its bound, for all lengths and all streams.       *)
THEOREM BoundsKept == Spec => []InBounds
<1>1. IInv => InBounds
  BY DEF IInv
<1> QED BY Inductive, <1>1, PTL

(* However reads cut the stream, the packages before the first malformed   *)
(* one are emitted in order and byte by byte as they were sent.            *)
THEOREM StreamParsed == Spec => []EmittedAsSent
<1>1. IInv => EmittedAsSent
  BY DEF IInv
<1> QED BY Inductive, <1>1, PTL

(* When the loop of onDataReceived ends, none of these packages is         *)
(* complete in the buffer.                                                 *)
THEOREM NoneLeft == Spec => []NothingLeftBehind
<1>1. IInv => NothingLeftBehind
  BY DEF IInv
<1> QED BY Inductive, <1>1, PTL
=============================================================================
