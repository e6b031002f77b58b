-------------------------- MODULE ProxyConnect_proofs --------------------------
(***************************************************************************)
(* Proofs about ProxyConnect, for any number of faults and for every way   *)
(* the answers of a proxy can be cut: types, with the bound on what is     *)
(* under way, and that the outcome which the caller is told is true.       *)
(***************************************************************************)
EXTENDS ProxyConnect, SequenceTheorems, TLAPS

-----------------------------------------------------------------------------
(* Answers. *)

Length(s) == IF s \in {"http", "method", "auth"} THEN 2 ELSE 3

Two(x, y) == <<x, y>>
Three(x, y, z) == <<x, y, z>>

LEMMA TwoParts ==
  ASSUME NEW x \in Parts \ {"data"}, NEW y \in Parts \ {"data"}
  PROVE  /\ Two(x, y) \in Seq(Parts) /\ Len(Two(x, y)) = 2
         /\ \A i \in DOMAIN Two(x, y) : Two(x, y)[i] # "data"
         /\ Two(x, y)[1] = x /\ Two(x, y)[2] = y
BY DEF Two

LEMMA ThreeParts ==
  ASSUME NEW x \in Parts \ {"data"}, NEW y \in Parts \ {"data"}, NEW z \in Parts \ {"data"}
  PROVE  /\ Three(x, y, z) \in Seq(Parts) /\ Len(Three(x, y, z)) = 3
         /\ \A i \in DOMAIN Three(x, y, z) : Three(x, y, z)[i] # "data"
         /\ Three(x, y, z)[1] = x /\ Three(x, y, z)[2] = y
BY DEF Three

LEMMA AnswerForms ==
  ASSUME NEW s \in Stages
  PROVE  /\ s = "http" => /\ Yes(s) = Two(IF oldProxy THEN "ok10" ELSE "ok11", "rest")
                          /\ No(s) = Two("refused", "rest")
         /\ s \in {"method", "auth"} => /\ Yes(s) = Two(Version(s), "yes")
                                        /\ No(s) = Two(Version(s), "no")
         /\ s \in {"socks4", "connect"} => /\ Yes(s) = Three(Version(s), "yes", "rest")
                                           /\ No(s) = Three(Version(s), "no", "rest")
<1>1. CASE s = "http"
  <2>1. s \notin {"method", "auth"} /\ s \notin {"socks4", "connect"}
    BY <1>1
  <2> QED BY <1>1, <2>1, Zenon DEF Yes, No, Two
<1>2. CASE s \in {"method", "auth"}
  <2>1. s # "http" /\ s \notin {"socks4", "connect"}
    BY <1>2
  <2> QED BY <1>2, <2>1, Zenon DEF Yes, No, Two
<1>3. CASE s \in {"socks4", "connect"}
  <2>1. s # "http" /\ s \notin {"method", "auth"}
    BY <1>3
  <2> QED BY <1>3, <2>1, Zenon DEF Yes, No, Three
<1> QED BY <1>1, <1>2, <1>3 DEF Stages

LEMMA AnswerTypes ==
  ASSUME NEW s \in Stages
  PROVE  /\ Yes(s) \in Seq(Parts) /\ Len(Yes(s)) = Length(s)
         /\ No(s) \in Seq(Parts) /\ Len(No(s)) = Length(s)
         /\ \A i \in DOMAIN Yes(s) : Yes(s)[i] # "data"
         /\ \A i \in DOMAIN No(s) : No(s)[i] # "data"
         /\ s # "http" => /\ Yes(s)[1] = Version(s) /\ Yes(s)[2] = "yes"
                          /\ No(s)[1] = Version(s) /\ No(s)[2] = "no"
         /\ s = "http" => /\ Yes(s)[1] = IF oldProxy THEN "ok10" ELSE "ok11"
                          /\ No(s)[1] = "refused"
<1>1. /\ Version(s) \in Parts \ {"data"}
      /\ "yes" \in Parts \ {"data"} /\ "no" \in Parts \ {"data"}
      /\ "rest" \in Parts \ {"data"} /\ "refused" \in Parts \ {"data"}
      /\ "ok10" \in Parts \ {"data"} /\ "ok11" \in Parts \ {"data"}
  BY DEF Version, Parts
<1>2. CASE s = "http"
  <2>1. (IF oldProxy THEN "ok10" ELSE "ok11") \in Parts \ {"data"}
    BY <1>1
  <2>2. Length(s) = 2
    BY <1>2 DEF Length
  <2> DEFINE first == IF oldProxy THEN "ok10" ELSE "ok11"
             yes == Two(first, "rest")
             no == Two("refused", "rest")
  <2>3. /\ yes \in Seq(Parts) /\ Len(yes) = 2 /\ yes[1] = first
        /\ \A i \in DOMAIN yes : yes[i] # "data"
    <3>1. first \in Parts \ {"data"}
      BY <2>1
    <3> HIDE DEF first
    <3> QED BY <1>1, <3>1, TwoParts
  <2>4. /\ no \in Seq(Parts) /\ Len(no) = 2 /\ no[1] = "refused"
        /\ \A i \in DOMAIN no : no[i] # "data"
    BY <1>1, TwoParts
  <2>5. Yes(s) = yes /\ No(s) = no
    BY <1>2, AnswerForms
  <2> HIDE DEF yes, no
  <2> QED BY <1>2, <2>2, <2>3, <2>4, <2>5
<1>3. CASE s \in {"method", "auth"}
  <2>1. Length(s) = 2 /\ s # "http"
    BY <1>3 DEF Length
  <2>2. ASSUME NEW y \in {"yes", "no"}
        PROVE  /\ Two(Version(s), y) \in Seq(Parts) /\ Len(Two(Version(s), y)) = 2
               /\ Two(Version(s), y)[1] = Version(s) /\ Two(Version(s), y)[2] = y
               /\ \A i \in DOMAIN Two(Version(s), y) : Two(Version(s), y)[i] # "data"
    <3>1. y \in Parts \ {"data"}
      BY <1>1
    <3>2. ASSUME NEW v \in Parts \ {"data"}
          PROVE  /\ Two(v, y) \in Seq(Parts) /\ Len(Two(v, y)) = 2
                 /\ Two(v, y)[1] = v /\ Two(v, y)[2] = y
                 /\ \A i \in DOMAIN Two(v, y) : Two(v, y)[i] # "data"
      BY <3>1, TwoParts
    <3> QED BY <1>1, <3>2, Zenon
  <2>3. Yes(s) = Two(Version(s), "yes") /\ No(s) = Two(Version(s), "no")
    BY <1>3, AnswerForms
  <2> QED BY <2>1, <2>2, <2>3
<1>4. CASE s \in {"socks4", "connect"}
  <2>1. Length(s) = 3 /\ s # "http"
    BY <1>4 DEF Length
  <2>2. ASSUME NEW y \in {"yes", "no"}
        PROVE  /\ Three(Version(s), y, "rest") \in Seq(Parts)
               /\ Len(Three(Version(s), y, "rest")) = 3
               /\ Three(Version(s), y, "rest")[1] = Version(s)
               /\ Three(Version(s), y, "rest")[2] = y
               /\ \A i \in DOMAIN Three(Version(s), y, "rest") :
                    Three(Version(s), y, "rest")[i] # "data"
    <3>1. y \in Parts \ {"data"}
      BY <1>1
    <3>2. ASSUME NEW v \in Parts \ {"data"}
          PROVE  /\ Three(v, y, "rest") \in Seq(Parts) /\ Len(Three(v, y, "rest")) = 3
                 /\ Three(v, y, "rest")[1] = v /\ Three(v, y, "rest")[2] = y
                 /\ \A i \in DOMAIN Three(v, y, "rest") : Three(v, y, "rest")[i] # "data"
      BY <1>1, <3>1, ThreeParts
    <3> QED BY <1>1, <3>2, Zenon
  <2>3. Yes(s) = Three(Version(s), "yes", "rest") /\ No(s) = Three(Version(s), "no", "rest")
    BY <1>4, AnswerForms
  <2> QED BY <2>1, <2>2, <2>3
<1> QED BY <1>2, <1>3, <1>4 DEF Stages

(* What is left of a reply after a read. *)
LEMMA RestOfWire ==
  ASSUME NEW w \in Seq(Parts), NEW n \in 1..Len(w)
  PROVE  /\ SubSeq(w, n + 1, Len(w)) \in Seq(Parts)
         /\ Len(SubSeq(w, n + 1, Len(w))) = Len(w) - n
         /\ n = Len(w) => SubSeq(w, n + 1, Len(w)) = << >>
<1>1. Len(w) \in Nat /\ \A i \in 1..Len(w) : w[i] \in Parts
  BY LenProperties, ElementOfSeq
<1>2. /\ SubSeq(w, n + 1, Len(w)) \in Seq(Parts)
      /\ Len(SubSeq(w, n + 1, Len(w))) = Len(w) - n
  BY <1>1, SubSeqProperties
<1>3. Len(SubSeq(w, n + 1, Len(w))) = 0 => SubSeq(w, n + 1, Len(w)) = << >>
  BY <1>2, EmptySeq
<1> QED BY <1>1, <1>2, <1>3

-----------------------------------------------------------------------------
(***************************************************************************)
(* Types.  What is under way is bounded because every request is answered  *)
(* once: it has room for the answers still to come, and for one part of    *)
(* what the endpoint sends.                                                *)
(***************************************************************************)
Due == (IF asked = "none" THEN 0 ELSE Length(asked))
         + (IF stage = "method" THEN 5 ELSE IF stage = "auth" THEN 3 ELSE 0)
         + (IF pc \in {"open", "write"} THEN Length(stage) ELSE 0)
Surplus(w) == IF \E i \in DOMAIN w : w[i] = "data" THEN 1 ELSE 0

TypeInv ==
  /\ type \in {"none", "http", "socks4", "socks5"}
  /\ needCheck \in BOOLEAN /\ ssl \in BOOLEAN /\ error \in BOOLEAN /\ closed \in BOOLEAN
  /\ granted \in BOOLEAN /\ oldProxy \in BOOLEAN /\ begun \in BOOLEAN
  /\ stage \in Stages /\ pc \in {"open", "write", "select", "read", "handshake", "done"}
  /\ status \in Statuses /\ (status = "none" <=> pc \in {"open", "write", "select", "read"})
  /\ asked \in Stages \cup {"none"}
  /\ reply \in Seq(Parts) /\ wire \in Seq(Parts)
  /\ \A i \in DOMAIN reply : reply[i] # "data"
  /\ torn \subseteq {"less", "more"}
  /\ faults \in 0..MaxFaults

Room == Len(wire) + Len(reply) + Due <= 7 + Surplus(wire)

LEMMA TypeIsEnough == TypeInv /\ Room => TypeOK
<1> SUFFICES ASSUME TypeInv, Room PROVE TypeOK
  OBVIOUS
<1>1. /\ {needCheck, ssl, error, closed, granted, oldProxy, begun} \subseteq BOOLEAN
      /\ {reply[i] : i \in DOMAIN reply} \subseteq Parts
      /\ {wire[i] : i \in DOMAIN wire} \subseteq Parts
  <2>1. {needCheck, ssl, error, closed, granted, oldProxy, begun} \subseteq BOOLEAN
    BY DEF TypeInv
  <2>2. /\ \A i \in DOMAIN reply : reply[i] \in Parts
        /\ \A i \in DOMAIN wire : wire[i] \in Parts
    BY LenProperties, ElementOfSeq DEF TypeInv
  <2> QED BY <2>1, <2>2
<1>2. Len(reply) <= 7 /\ Len(wire) <= 8
  <2>1. Len(reply) \in Nat /\ Len(wire) \in Nat
    BY LenProperties DEF TypeInv
  <2>2. Due >= 0 /\ Due \in Nat
    BY DEF Due, Length
  <2>3. Surplus(wire) \in {0, 1}
    BY DEF Surplus
  <2>4. Surplus(wire) = 1 => Len(wire) >= 1
    <3>1. Surplus(wire) = 1 => DOMAIN wire # {}
      BY DEF Surplus
    <3>2. DOMAIN wire = 1..Len(wire)
      BY LenProperties DEF TypeInv
    <3> QED BY <2>1, <3>1, <3>2
  <2>5. Len(wire) + Len(reply) <= 7 + Surplus(wire)
    BY <2>1, <2>2, <2>3 DEF Room
  <2> QED BY <2>1, <2>3, <2>4, <2>5
<1> QED BY <1>1, <1>2 DEF TypeInv, TypeOK

LEMMA TypeInvInit == Init => TypeInv /\ Room
<1> SUFFICES ASSUME Init PROVE TypeInv /\ Room
  OBVIOUS
<1>1. << >> \in Seq(Parts) /\ Len(<< >>) = 0 /\ DOMAIN << >> = {}
  OBVIOUS
<1>2. TypeInv
  <2>1. 0 \in 0..MaxFaults
    BY ProxyAssumption
  <2> QED BY <1>1, <2>1 DEF Init, TypeInv, Stages, Statuses
<1>3. Surplus(wire) = 0
  BY <1>1 DEF Init, Surplus
<1>4. Due <= 7 /\ Due \in Nat
  BY DEF Init, Due, Length
<1> QED BY <1>1, <1>2, <1>3, <1>4 DEF Init, Room

(* Every read takes something, and leaves what follows it. *)
LEMMA ReadTakes ==
  ASSUME TypeInv,
         \/ HttpProxy
         \/ \E s \in {"socks4", "method", "auth", "connect"}, ok \in BOOLEAN : ReadSome(s, ok)
  PROVE  /\ wire' \in Seq(Parts) /\ Len(wire') + 1 <= Len(wire)
         /\ torn' \subseteq {"less", "more"} /\ torn \subseteq torn'
         /\ UNCHANGED <<settings, asked, reply, closed, granted, begun, faults>>
<1>1. PICK n \in 1..Len(wire) :
        /\ wire' = SubSeq(wire, n + 1, Len(wire))
        /\ torn' \subseteq torn \cup {"less", "more"} /\ torn \subseteq torn'
  <2>1. ASSUME HttpProxy
        PROVE  \E n \in 1..Len(wire) :
                 /\ wire' = SubSeq(wire, n + 1, Len(wire))
                 /\ torn' \subseteq torn \cup {"less", "more"} /\ torn \subseteq torn'
    <3>1. PICK n \in 2..Len(wire) :
            /\ wire' = SubSeq(wire, n + 1, Len(wire))
            /\ torn' = IF n > 2 THEN torn \cup {"more"} ELSE torn
      BY <2>1 DEF HttpProxy
    <3>2. n \in 1..Len(wire)
      OBVIOUS
    <3>3. torn' \subseteq torn \cup {"less", "more"} /\ torn \subseteq torn'
      BY <3>1
    <3> QED BY <3>1, <3>2, <3>3
  <2>2. ASSUME NEW s \in {"socks4", "method", "auth", "connect"}, NEW ok \in BOOLEAN,
               ReadSome(s, ok)
        PROVE  \E n \in 1..Len(wire) :
                 /\ wire' = SubSeq(wire, n + 1, Len(wire))
                 /\ torn' \subseteq torn \cup {"less", "more"} /\ torn \subseteq torn'
    <3>1. PICK n \in 1..Len(wire) :
            /\ wire' = SubSeq(wire, n + 1, Len(wire))
            /\ torn' = torn \cup (IF n < Len(Yes(s)) THEN {"less"} ELSE {})
                            \cup (IF n > Len(Yes(s)) THEN {"more"} ELSE {})
      BY <2>2 DEF ReadSome
    <3>2. torn' \subseteq torn \cup {"less", "more"} /\ torn \subseteq torn'
      BY <3>1
    <3> QED BY <3>1, <3>2
  <2> QED BY <2>1, <2>2
<1>2. wire' \in Seq(Parts) /\ Len(wire') = Len(wire) - n
  BY <1>1, RestOfWire DEF TypeInv
<1>3. Len(wire) \in Nat /\ Len(wire') \in Nat
  BY <1>2, LenProperties DEF TypeInv
<1>4. Len(wire') + 1 <= Len(wire)
  BY <1>2, <1>3
<1>5. UNCHANGED <<settings, asked, reply, closed, granted, begun, faults>>
  BY DEF HttpProxy, ReadSome
<1> QED BY <1>1, <1>2, <1>4, <1>5 DEF TypeInv

(* The shapes a step of the client can have. *)
LEMMA TypesKept ==
  ASSUME TypeInv, UNCHANGED <<type, needCheck, ssl, oldProxy, reply, closed, begun>>,
         granted' \in BOOLEAN, stage' \in Stages, asked' \in Stages \cup {"none"},
         wire' \in Seq(Parts), torn' \subseteq {"less", "more"}, faults' \in 0..MaxFaults,
         error' \in BOOLEAN,
         \/ pc' \in {"write", "select", "read"} /\ status' = "none"
         \/ pc' \in {"handshake", "done"} /\ status' \in Statuses \ {"none"}
  PROVE  TypeInv'
<1>1. status' = "none" <=> pc' \in {"open", "write", "select", "read"}
  OBVIOUS
<1>2. /\ status' \in Statuses
      /\ pc' \in {"open", "write", "select", "read", "handshake", "done"}
  BY DEF Statuses
<1> QED BY <1>1, <1>2 DEF TypeInv

LEMMA Returned ==
  ASSUME NEW s, NEW e, Return(s, e)
  PROVE  pc' \in {"handshake", "done"} /\ status' = s /\ error' = e
BY DEF Return

LEMMA ClientType == TypeInv /\ (Client \/ Shake) => TypeInv'
<1> SUFFICES ASSUME TypeInv, Client \/ Shake PROVE TypeInv'
  OBVIOUS
<1> USE DEF TypeInv, settings, proxy, Return, Stages, Statuses
<1>1. CASE ConnectSocket
  <2>1. CASE type = "none"
    <3>1. status' = "OK" /\ error' = FALSE /\ granted' = TRUE /\ pc' \in {"handshake", "done"}
      BY <1>1, <2>1 DEF ConnectSocket
    <3> QED BY <1>1, <3>1, TypesKept DEF ConnectSocket
  <2>2. CASE type # "none"
    BY <1>1, <2>2 DEF ConnectSocket
  <2> QED BY <2>1, <2>2
<1>2. CASE ConnectSocketFails
  <2>1. faults' \in 0..MaxFaults
    BY <1>2, ProxyAssumption DEF ConnectSocketFails
  <2> QED BY <1>2, <2>1 DEF ConnectSocketFails
<1>3. CASE Write
  <2>1. /\ pc = "write" /\ pc' \in {"select", "read"} /\ status = "none" /\ asked' = stage
        /\ error' = FALSE
        /\ UNCHANGED <<type, needCheck, ssl, oldProxy, stage, status>>
        /\ UNCHANGED <<reply, wire, closed, granted, begun, torn, faults>>
    BY <1>3 DEF Write, First
  <2> QED BY <2>1, TypesKept
<1>4. CASE WriteFails
  <2>1. faults' \in 0..MaxFaults
    BY <1>4, ProxyAssumption DEF WriteFails
  <2>2. WriteError(stage) \in {"ENDPOINT_ERROR", "PROXY_ERROR"}
    BY DEF WriteError
  <2> QED BY <1>4, <2>1, <2>2 DEF WriteFails
<1>5. CASE IsTimeout
  BY <1>5 DEF IsTimeout
<1>6. CASE ReadFails
  <2>1. WriteError(stage) \in {"ENDPOINT_ERROR", "PROXY_ERROR"}
    BY DEF WriteError
  <2> QED BY <1>6, <2>1 DEF ReadFails
<1>7. CASE HttpProxy
  <2>1. /\ wire' \in Seq(Parts) /\ torn' \subseteq {"less", "more"}
        /\ UNCHANGED <<settings, asked, reply, closed, granted, begun, faults>>
    BY <1>7, ReadTakes
  <2>2. Return("OK", FALSE) \/ Return("ENDPOINT_ERROR", TRUE)
    BY <1>7 DEF HttpProxy
  <2>3. /\ pc' \in {"handshake", "done"} /\ status' \in Statuses \ {"none"}
        /\ error' \in BOOLEAN
    BY <2>2, Returned
  <2>4. stage' = stage
    BY <1>7 DEF HttpProxy
  <2> QED BY <2>1, <2>3, <2>4, TypesKept
<1>8. ASSUME NEW s \in {"socks4", "method", "auth", "connect"}, NEW ok \in BOOLEAN,
             ReadSome(s, ok),
             \/ /\ stage' = stage
                /\ \E r \in {"OK", "ENDPOINT_ERROR", "PROXY_ERROR"}, e \in BOOLEAN : Return(r, e)
             \/ stage' \in {"auth", "connect"} /\ pc' = "write" /\ UNCHANGED <<error, status>>
      PROVE  TypeInv'
  <2>1. /\ wire' \in Seq(Parts) /\ torn' \subseteq {"less", "more"}
        /\ UNCHANGED <<settings, asked, reply, closed, granted, begun, faults>>
    BY <1>8, ReadTakes
  <2>2. status = "none"
    BY <1>8 DEF ReadSome
  <2>3. \/ /\ pc' \in {"handshake", "done"} /\ status' \in Statuses \ {"none"}
           /\ error' \in BOOLEAN /\ stage' = stage
        \/ stage' \in {"auth", "connect"} /\ pc' = "write" /\ UNCHANGED <<error, status>>
    BY <1>8, Returned
  <2> QED BY <2>1, <2>2, <2>3, TypesKept
<1>9. CASE Sock4Granted \/ Sock4Refused \/ Sock5Granted \/ Sock5Refused
  BY <1>8, <1>9 DEF Sock4Granted, Sock4Refused, Sock5Granted, Sock5Refused
<1>10. CASE MethodAccepted \/ MethodRefused \/ AuthAccepted \/ AuthRefused
  BY <1>8, <1>10 DEF MethodAccepted, MethodRefused, AuthAccepted, AuthRefused
<1>11. CASE Handshake
  <2>1. status \in Statuses \ {"none"}
    BY <1>11 DEF Handshake
  <2> QED BY <1>11, <2>1, TypesKept DEF Handshake
<1>12. CASE HandshakeFails
  <2>1. faults' \in 0..MaxFaults
    BY <1>12, ProxyAssumption DEF HandshakeFails
  <2>2. status \in Statuses \ {"none"}
    BY <1>12 DEF HandshakeFails
  <2> QED BY <1>12, <2>1, <2>2, TypesKept DEF HandshakeFails
<1> QED BY <1>1, <1>2, <1>3, <1>4, <1>5, <1>6, <1>7, <1>9, <1>10, <1>11, <1>12
  DEF Client, Shake

LEMMA AppendParts ==
  ASSUME NEW w \in Seq(Parts), NEW x \in Parts
  PROVE  /\ Append(w, x) \in Seq(Parts) /\ Len(Append(w, x)) = Len(w) + 1
         /\ Surplus(w) \in {0, 1} /\ Surplus(w) <= Surplus(Append(w, x))
         /\ x = "data" => Surplus(Append(w, x)) = 1
<1>1. /\ Append(w, x) \in Seq(Parts) /\ Len(Append(w, x)) = Len(w) + 1 /\ Len(w) \in Nat
      /\ DOMAIN w = 1..Len(w) /\ DOMAIN Append(w, x) = 1..(Len(w) + 1)
      /\ \A i \in 1..Len(w) : Append(w, x)[i] = w[i]
      /\ Append(w, x)[Len(w) + 1] = x
  OBVIOUS
<1>2. (\E i \in DOMAIN w : w[i] = "data")
        => \E i \in DOMAIN Append(w, x) : Append(w, x)[i] = "data"
  BY <1>1
<1>3. x = "data" => \E i \in DOMAIN Append(w, x) : Append(w, x)[i] = "data"
  BY <1>1
<1> QED BY <1>1, <1>2, <1>3 DEF Surplus

LEMMA TailOfReply ==
  ASSUME TypeInv, reply # << >>
  PROVE  /\ Tail(reply) \in Seq(Parts) /\ Head(reply) \in Parts
         /\ Len(reply) = Len(Tail(reply)) + 1 /\ Len(Tail(reply)) \in Nat
         /\ \A i \in DOMAIN Tail(reply) : Tail(reply)[i] = reply[i + 1] /\ i + 1 \in DOMAIN reply
         /\ Head(reply) = reply[1] /\ 1 \in DOMAIN reply
<1>1. reply \in Seq(Parts)
  BY DEF TypeInv
<1> QED BY <1>1

LEMMA AnswerAppends ==
  ASSUME TypeInv, Answer
  PROVE  \E a \in {Yes(asked), No(asked)} :
           /\ reply' = reply \o a /\ reply' \in Seq(Parts)
           /\ Len(reply') = Len(reply) + Length(asked)
           /\ \A i \in DOMAIN reply' : reply'[i] # "data"
<1>1. asked \in Stages
  BY DEF Answer, TypeInv
<1>2. PICK a \in {Yes(asked), No(asked)} : reply' = reply \o a
  BY DEF Answer
<1>3. a \in Seq(Parts) /\ Len(a) = Length(asked) /\ \A i \in DOMAIN a : a[i] # "data"
  BY <1>1, <1>2, AnswerTypes
<1>4. reply \in Seq(Parts) /\ \A i \in DOMAIN reply : reply[i] # "data"
  BY DEF TypeInv
<1>5. /\ reply \o a \in Seq(Parts) /\ Len(reply \o a) = Len(reply) + Len(a)
      /\ DOMAIN reply = 1..Len(reply) /\ DOMAIN a = 1..Len(a)
      /\ DOMAIN (reply \o a) = 1..(Len(reply) + Len(a)) /\ Len(reply) \in Nat /\ Len(a) \in Nat
      /\ \A i \in 1..(Len(reply) + Len(a)) :
           (reply \o a)[i] = IF i <= Len(reply) THEN reply[i] ELSE a[i - Len(reply)]
  <2>1. /\ reply \o a \in Seq(Parts) /\ Len(reply \o a) = Len(reply) + Len(a)
        /\ Len(reply) \in Nat /\ Len(a) \in Nat
        /\ \A i \in 1..(Len(reply) + Len(a)) :
             (reply \o a)[i] = IF i <= Len(reply) THEN reply[i] ELSE a[i - Len(reply)]
    <3>1. a \in Seq(Parts) /\ reply \in Seq(Parts)
      BY <1>3, <1>4
    <3>2. Len(reply) \in Nat /\ Len(a) \in Nat
      BY <3>1, LenProperties
    <3> QED BY <3>1, <3>2, ConcatProperties
  <2>2. /\ DOMAIN reply = 1..Len(reply) /\ DOMAIN a = 1..Len(a)
        /\ DOMAIN (reply \o a) = 1..(Len(reply) + Len(a))
    BY <1>3, <1>4, <2>1, LenProperties
  <2> QED BY <2>1, <2>2
<1>6. \A i \in 1..(Len(reply) + Len(a)) : i > Len(reply) => i - Len(reply) \in 1..Len(a)
  BY <1>5
<1>7. \A i \in DOMAIN (reply \o a) : (reply \o a)[i] # "data"
  BY <1>3, <1>4, <1>5, <1>6
<1> QED BY <1>2, <1>3, <1>5, <1>7

LEMMA TypeInvStep == TypeInv /\ [Next]_vars => TypeInv'
<1> SUFFICES ASSUME TypeInv, [Next]_vars PROVE TypeInv'
  OBVIOUS
<1> USE DEF settings, client
<1>1. CASE Answer
  <2>1. reply' \in Seq(Parts) /\ \A i \in DOMAIN reply' : reply'[i] # "data"
    BY <1>1, AnswerAppends
  <2>2. granted' \in BOOLEAN
    BY <1>1 DEF Answer, TypeInv
  <2> QED BY <1>1, <2>1, <2>2 DEF Answer, TypeInv
<1>2. CASE ProxySends
  <2>1. wire' \in Seq(Parts)
    BY <1>2, AppendParts, TailOfReply DEF ProxySends, TypeInv
  <2>2. reply' \in Seq(Parts) /\ \A i \in DOMAIN reply' : reply'[i] # "data"
    BY <1>2, TailOfReply DEF ProxySends, TypeInv
  <2> QED BY <1>2, <2>1, <2>2 DEF ProxySends, TypeInv
<1>3. CASE EndpointSends
  <2>1. wire' \in Seq(Parts)
    BY <1>3, AppendParts DEF EndpointSends, TypeInv, Parts
  <2> QED BY <1>3, <2>1 DEF EndpointSends, TypeInv
<1>4. CASE PeerCloses
  <2>1. << >> \in Seq(Parts) /\ \A i \in DOMAIN << >> : FALSE
    OBVIOUS
  <2> QED BY <1>4, <2>1 DEF PeerCloses, TypeInv
<1>5. CASE Finished \/ UNCHANGED vars
  <2>1. UNCHANGED vars
    BY <1>5 DEF Finished
  <2>2. /\ UNCHANGED <<type, needCheck, ssl, oldProxy, stage, pc, error, status>>
        /\ UNCHANGED <<asked, reply, wire, closed, granted, begun, torn, faults>>
    BY <2>1 DEF vars, proxy
  <2> QED BY <2>2 DEF TypeInv
<1> QED BY <1>1, <1>2, <1>3, <1>4, <1>5, ClientType DEF Next

(* What a client takes it does not put back, and it asks each question once. *)
LEMMA ClientRoom ==
  ASSUME TypeInv, Client \/ Shake
  PROVE  /\ Due' <= Due /\ Due \in Nat /\ Due' \in Nat /\ reply' = reply
         /\ wire' = wire \/ (wire' \in Seq(Parts) /\ Len(wire') + 1 <= Len(wire))
<1> USE DEF settings, proxy
<1>1. Due \in Nat
  BY DEF Due, Length
<1>2. ASSUME stage' = stage, asked' = asked,
             pc' \in {"open", "write"} => pc \in {"open", "write"}
      PROVE  Due' <= Due /\ Due' \in Nat
  BY <1>2 DEF Due, Length
<1>3. CASE ConnectSocket \/ ConnectSocketFails \/ WriteFails \/ IsTimeout \/ ReadFails
           \/ Handshake \/ HandshakeFails
  <2>1. /\ UNCHANGED <<stage, asked, wire, reply>>
        /\ pc' \in {"open", "write"} => pc \in {"open", "write"}
    BY <1>3 DEF ConnectSocket, ConnectSocketFails, WriteFails, IsTimeout, ReadFails,
                Handshake, HandshakeFails, Return
  <2> QED BY <1>1, <1>2, <2>1 DEF Length
<1>4. CASE Write
  <2>1. /\ pc = "write" /\ asked' = stage /\ stage' = stage /\ pc' \in {"select", "read"}
        /\ UNCHANGED <<wire, reply>> /\ stage # "none"
    BY <1>4 DEF Write, TypeInv, Stages
  <2>2. Due' <= Due /\ Due' \in Nat
    BY <2>1 DEF Due, Length
  <2> QED BY <1>1, <2>1, <2>2
<1>5. CASE HttpProxy \/ Sock4Granted \/ Sock4Refused \/ MethodRefused \/ AuthRefused
           \/ Sock5Granted \/ Sock5Refused
  <2>1. /\ wire' \in Seq(Parts) /\ Len(wire') + 1 <= Len(wire) /\ UNCHANGED <<asked, reply>>
    BY <1>5, ReadTakes DEF Sock4Granted, Sock4Refused, MethodRefused, AuthRefused,
                           Sock5Granted, Sock5Refused
  <2>2. stage' = stage /\ pc' \notin {"open", "write"}
    BY <1>5 DEF HttpProxy, Sock4Granted, Sock4Refused, MethodRefused, AuthRefused,
                Sock5Granted, Sock5Refused, Return
  <2> QED BY <1>1, <1>2, <2>1, <2>2
<1>6. CASE MethodAccepted \/ AuthAccepted
  <2>1. /\ wire' \in Seq(Parts) /\ Len(wire') + 1 <= Len(wire) /\ UNCHANGED <<asked, reply>>
    BY <1>6, ReadTakes DEF MethodAccepted, AuthAccepted
  <2>2. /\ pc = "read" /\ pc' = "write"
        /\ \/ stage = "method" /\ stage' \in {"auth", "connect"}
           \/ stage = "auth" /\ stage' = "connect"
    BY <1>6 DEF MethodAccepted, AuthAccepted, ReadSome
  <2>3. Due' <= Due /\ Due' \in Nat
    BY <2>1, <2>2 DEF Due, Length
  <2> QED BY <1>1, <2>1, <2>3
<1> QED BY <1>3, <1>4, <1>5, <1>6 DEF Client, Shake

LEMMA RoomStep == TypeInv /\ Room /\ [Next]_vars => Room'
<1> SUFFICES ASSUME TypeInv, Room, [Next]_vars PROVE Room'
  OBVIOUS
<1> USE DEF settings, client
<1>1. /\ wire \in Seq(Parts) /\ reply \in Seq(Parts)
      /\ Len(wire) \in Nat /\ Len(reply) \in Nat /\ Due \in Nat
      /\ Surplus(wire) \in {0, 1} /\ Surplus(wire') \in {0, 1}
  BY LenProperties DEF TypeInv, Due, Length, Surplus
<1>2. Len(wire) + Len(reply) + Due <= 7 + Surplus(wire)
  BY DEF Room
<1>3. CASE Client \/ Shake
  <2>1. CASE wire' = wire
    BY <1>1, <1>2, <1>3, <2>1, ClientRoom DEF Room
  <2>2. CASE wire' \in Seq(Parts) /\ Len(wire') + 1 <= Len(wire)
    <3>1. Len(wire') \in Nat
      BY <2>2, LenProperties
    <3>2. Due' <= Due /\ Due' \in Nat /\ reply' = reply
      BY <1>3, ClientRoom
    <3>3. Due \in Nat
      BY <1>1
    <3> DEFINE w == Len(wire)
               w2 == Len(wire')
               u == Surplus(wire)
               u2 == Surplus(wire')
               d == Due
               d2 == Due'
               r == Len(reply)
    <3>4. /\ w \in Nat /\ w2 \in Nat /\ u \in {0, 1} /\ u2 \in {0, 1} /\ d \in Nat
          /\ d2 \in Nat /\ r \in Nat /\ w2 + 1 <= w /\ d2 <= d /\ w + r + d <= 7 + u
      BY <1>1, <1>2, <2>2, <3>1, <3>2, <3>3
    <3> HIDE DEF w, w2, u, u2, d, d2, r
    <3>5. w2 + r + d2 <= 7 + u2
      BY <3>4
    <3> QED BY <3>2, <3>5 DEF Room, w, w2, u, u2, d, d2, r
  <2> QED BY <1>3, <2>1, <2>2, ClientRoom
<1>4. CASE Answer
  <2>1. Len(reply') = Len(reply) + Length(asked)
    BY <1>4, AnswerAppends
  <2>2. Due = Due' + Length(asked) /\ Due' \in Nat /\ Length(asked) \in Nat
    BY <1>4 DEF Answer, Due, Length
  <2>3. Len(wire') = Len(wire) /\ Surplus(wire') = Surplus(wire)
    BY <1>4 DEF Answer
  <2> DEFINE w == Len(wire)
             r == Len(reply)
             r2 == Len(reply')
             d == Due
             d2 == Due'
             l == Length(asked)
             u == Surplus(wire)
  <2>4. /\ w \in Nat /\ r \in Nat /\ d2 \in Nat /\ l \in Nat /\ u \in {0, 1}
        /\ r2 = r + l /\ d = d2 + l /\ w + r + d <= 7 + u
    BY <1>1, <1>2, <2>1, <2>2
  <2> HIDE DEF w, r, r2, d, d2, l, u
  <2>5. w + r2 + d2 <= 7 + u
    BY <2>4
  <2> QED BY <2>3, <2>5 DEF Room, w, r2, d2, u
<1>5. CASE ProxySends
  <2>1. /\ Len(wire') = Len(wire) + 1 /\ Len(reply) = Len(reply') + 1 /\ Len(reply') \in Nat
        /\ Surplus(wire) <= Surplus(wire')
    BY <1>1, <1>5, AppendParts, TailOfReply DEF ProxySends
  <2>2. Due' = Due
    BY <1>5 DEF ProxySends, Due
  <2> QED BY <1>1, <1>2, <2>1, <2>2 DEF Room
<1>6. CASE EndpointSends
  <2>1. /\ Len(wire') = Len(wire) + 1 /\ reply' = reply
        /\ Surplus(wire) = 0 /\ Surplus(wire') = 1
    <3>1. "data" \in Parts
      BY DEF Parts
    <3>2. Surplus(wire) = 0
      BY <1>6 DEF EndpointSends, Surplus
    <3> QED BY <1>1, <1>6, <3>1, <3>2, AppendParts DEF EndpointSends
  <2>2. Due' = Due
    BY <1>6 DEF EndpointSends, Due
  <2> QED BY <1>1, <1>2, <2>1, <2>2 DEF Room
<1>7. CASE PeerCloses
  <2>1. reply' = << >> /\ wire' = wire /\ Len(<< >>) = 0
    BY <1>7 DEF PeerCloses
  <2>2. Due' <= Due /\ Due' \in Nat
    BY <1>7 DEF PeerCloses, Due, Length
  <2> QED BY <1>1, <1>2, <2>1, <2>2 DEF Room
<1>8. CASE Finished \/ UNCHANGED vars
  BY <1>8 DEF Finished, Room, Due, vars, proxy
<1> QED BY <1>3, <1>4, <1>5, <1>6, <1>7, <1>8 DEF Next

(* What is under way between proxy and client never exceeds an answer to   *)
(* each request and one part from the endpoint, however reads are cut.     *)
THEOREM TypeCorrect == FairSpec => []TypeOK
BY TypeInvInit, TypeInvStep, RoomStep, TypeIsEnough, PTL DEF FairSpec

-----------------------------------------------------------------------------
(***************************************************************************)
(* The outcome.  As long as no read has taken less than a reply, nothing   *)
(* of an earlier answer is left when a request is written; while the       *)
(* client waits, the proxy has the request, or what was sent and what is   *)
(* still to be sent are one answer, a grant exactly if the endpoint is     *)
(* connected, with data of the endpoint behind it at most.                 *)
(***************************************************************************)
Last == {"http", "socks4", "connect"}

Carries(w, r, a) ==
  /\ \A i \in DOMAIN w : i <= Len(a) => w[i] = a[i]
  /\ \A i \in DOMAIN r : Len(w) + i <= Len(a) /\ r[i] = a[Len(w) + i]

Complete(w, r, a) == Len(w) + Len(r) >= Len(a)

Nothing == wire = << >> /\ reply = << >> /\ ~granted

Answered(a) ==
  /\ asked = "none"
  /\ granted <=> a = Yes(stage) /\ stage \in Last
  /\ Carries(wire, reply, a)
  /\ ~granted => Len(wire) <= Len(a)
  /\ ~closed => Complete(wire, reply, a)

Clean ==
  "less" \notin torn =>
    /\ pc \in {"open", "write"} => Nothing /\ asked = "none"
    /\ pc \in {"select", "read"} =>
         \/ Nothing /\ asked \in {stage, "none"}
         \/ \E a \in {Yes(stage), No(stage)} : Answered(a)

(* Once the helper has returned: an endpoint that is connected and not     *)
(* reported has one of the reasons that OutcomeTrue names, and one that    *)
(* may still be connected was given up.                                    *)
GivenUp == status = "TIMEOUT" \/ closed \/ faults > 0
Excused == \/ type = "http" /\ ~oldProxy
           \/ ssl /\ torn # {}
Told == status = "OK" /\ ~error

Ended ==
  /\ pc = "handshake" => ssl /\ Told
  /\ pc \in {"handshake", "done"} /\ ~Hidden /\ "less" \notin torn =>
       /\ asked = "none" \/ GivenUp
       /\ Told => granted
       /\ ~error => status \in {"OK", "TIMEOUT"}
       /\ granted => Told \/ GivenUp \/ Excused

OutcomeInv == Clean /\ Ended /\ (stage = "http" => type = "http")

LEMMA OutcomeIsEnough == TypeInv /\ OutcomeInv => OutcomeTrue
BY DEF TypeInv, OutcomeInv, Ended, OutcomeTrue, Success, Told, GivenUp, Excused

(* A read that takes at least the reply tells whether the endpoint is      *)
(* connected, and between two requests it takes everything.                *)
LEMMA ReadTells ==
  ASSUME TypeInv, Clean, NEW s \in {"socks4", "method", "auth", "connect"}, NEW ok \in BOOLEAN,
         ReadSome(s, ok), "less" \notin torn'
  PROVE  /\ asked = "none"
         /\ granted <=> ok /\ s \in Last
         /\ s \in {"method", "auth"} => wire' = << >> /\ reply = << >>
<1>1. PICK n \in 1..Len(wire) :
        /\ Says(n, s, ok)
        /\ wire' = SubSeq(wire, n + 1, Len(wire))
        /\ torn' = torn \cup (IF n < Len(Yes(s)) THEN {"less"} ELSE {})
                        \cup (IF n > Len(Yes(s)) THEN {"more"} ELSE {})
  BY DEF ReadSome
<1>2. pc = "read" /\ stage = s /\ s \in Stages \ {"http"}
  BY DEF ReadSome, Stages
<1>3. "less" \notin torn /\ ~(n < Len(Yes(s)))
  BY <1>1
<1>4. /\ Len(Yes(s)) = Length(s) /\ Len(No(s)) = Length(s)
      /\ Yes(s)[1] = Version(s) /\ Yes(s)[2] = "yes"
      /\ No(s)[1] = Version(s) /\ No(s)[2] = "no"
  BY <1>2, AnswerTypes
<1>5. /\ Length(s) \in {2, 3} /\ (s \in {"method", "auth"} => Length(s) = 2)
      /\ (s \in {"method", "auth"} => s \notin Last)
  BY DEF Length, Last
<1>6. /\ Len(wire) \in Nat /\ DOMAIN wire = 1..Len(wire)
      /\ Len(reply) \in Nat /\ DOMAIN reply = 1..Len(reply)
      /\ (Len(reply) = 0 => reply = << >>)
      /\ wire # << >>
  <2>1. wire \in Seq(Parts) /\ reply \in Seq(Parts)
    BY DEF TypeInv
  <2>2. Len(wire) # 0
    <3>1. Len(wire) \in Nat
      BY <2>1, LenProperties
    <3> QED BY <1>1, <3>1
  <2>3. Len(<< >>) = 0
    OBVIOUS
  <2> QED BY <2>1, <2>2, <2>3, LenProperties, EmptySeq
<1>7. PICK a \in {Yes(s), No(s)} : Answered(a)
  BY <1>2, <1>3, <1>6 DEF Clean, Nothing
<1>8. Len(a) = Length(s) /\ a[1] = Version(s) /\ a[2] \in {"yes", "no"}
      /\ (a = Yes(s) <=> a[2] = "yes")
  BY <1>4, <1>7
<1>9. n \in Nat /\ n >= 2 /\ n <= Len(wire) /\ n >= Length(s)
  BY <1>3, <1>4, <1>5, <1>6
<1>10. wire[1] = a[1] /\ wire[2] = a[2]
  <2>1. 1 \in DOMAIN wire /\ 2 \in DOMAIN wire /\ 1 <= Len(a) /\ 2 <= Len(a)
    BY <1>5, <1>6, <1>8, <1>9
  <2> QED BY <1>7, <2>1 DEF Answered, Carries
<1>11. ok <=> a = Yes(s)
  <2>1. PICK second \in {wire[2]} : ok = (wire[1] = Version(s) /\ second = "yes")
    <3>1. n # 1
      BY <1>9
    <3> QED BY <1>1, <3>1 DEF Says
  <2> QED BY <1>8, <1>10, <2>1
<1>12. asked = "none" /\ (granted <=> ok /\ s \in Last)
  BY <1>2, <1>7, <1>11 DEF Answered
<1>13. ASSUME s \in {"method", "auth"} PROVE wire' = << >> /\ reply = << >>
  <2>1. Len(wire) <= 2 /\ Len(a) = 2
    BY <1>5, <1>8, <1>7, <1>12, <1>13 DEF Answered
  <2>2. n = Len(wire) /\ Len(wire) = 2
    <3> DEFINE w == Len(wire)
    <3>1. w \in Nat /\ w <= 2 /\ n \in Nat /\ n >= 2 /\ n <= w
      BY <1>6, <1>9, <2>1
    <3> HIDE DEF w
    <3>2. n = w /\ w = 2
      BY <3>1
    <3> QED BY <3>2 DEF w
  <2>3. wire' = << >>
    BY <1>1, <2>2, RestOfWire DEF TypeInv
  <2>4. \A i \in DOMAIN reply : Len(wire) + i <= Len(a)
    BY <1>7 DEF Answered, Carries
  <2>5. Len(reply) = 0
    <3>1. 1 \notin DOMAIN reply
      BY <2>1, <2>2, <2>4
    <3> QED BY <1>6, <3>1
  <2> QED BY <1>6, <2>3, <2>5
<1> QED BY <1>12, <1>13

LEMMA HttpTells ==
  ASSUME TypeInv, Clean, HttpProxy, "less" \notin torn
  PROVE  /\ asked = "none"
         /\ wire[1] = "ok10" => granted
         /\ granted /\ wire[1] # "ok10" => ~oldProxy
<1>1. pc = "read" /\ stage = "http" /\ HasHeader /\ "http" \in Stages
  BY DEF HttpProxy, Stages
<1>2. 1 \in DOMAIN wire /\ wire # << >>
  <2>1. PICK n \in 2..Len(wire) : TRUE
    BY DEF HttpProxy
  <2>2. Len(wire) \in Nat /\ DOMAIN wire = 1..Len(wire)
    BY LenProperties DEF TypeInv
  <2>3. DOMAIN << >> = {}
    OBVIOUS
  <2>4. 1 \in DOMAIN wire
    BY <2>1, <2>2
  <2> QED BY <2>3, <2>4
<1>3. PICK a \in {Yes("http"), No("http")} : Answered(a)
  BY <1>1, <1>2 DEF Clean, Nothing
<1>4. /\ Len(a) = 2
      /\ Yes("http")[1] = (IF oldProxy THEN "ok10" ELSE "ok11") /\ No("http")[1] = "refused"
  BY <1>1, <1>3, AnswerTypes DEF Length
<1>5. wire[1] = a[1]
  BY <1>2, <1>3, <1>4 DEF Answered, Carries
<1>6. asked = "none" /\ (granted <=> a = Yes("http"))
  BY <1>1, <1>3 DEF Answered, Last
<1> QED BY <1>3, <1>4, <1>5, <1>6

LEMMA OutcomeInit == Init => OutcomeInv
BY DEF Init, OutcomeInv, Clean, Nothing, Ended

(* The helper returns, with a status that is not a hidden refusal. *)
LEMMA ReturnEnds ==
  ASSUME NEW s, NEW e, Return(s, e), "less" \notin torn' => Hidden' \/ asked' = "none" \/ GivenUp',
         "less" \notin torn' => Hidden' \/ (s = "OK" /\ e = FALSE => granted'),
         e = FALSE => Hidden' \/ s \in {"OK", "TIMEOUT"},
         "less" \notin torn' /\ granted' => Hidden' \/ (s = "OK" /\ e = FALSE) \/ GivenUp' \/ Excused',
         s = "OK" => e = FALSE, e \in BOOLEAN, ssl' = ssl
  PROVE  Ended' /\ Clean'
<1>1. /\ status' = s /\ error' = e /\ pc' \in {"handshake", "done"}
      /\ pc' = "handshake" => s = "OK" /\ ssl
  BY DEF Return
<1>2. Told' <=> s = "OK" /\ e = FALSE
  BY <1>1 DEF Told
<1>3. Clean'
  BY <1>1 DEF Clean
<1>4. Ended'
  BY <1>1, <1>2 DEF Ended
<1> QED BY <1>3, <1>4

LEMMA ClientOutcome == TypeInv /\ OutcomeInv /\ (Client \/ Shake) => OutcomeInv'
<1> SUFFICES ASSUME TypeInv, OutcomeInv, Client \/ Shake PROVE OutcomeInv'
  OBVIOUS
<1> USE DEF settings, proxy
<1>0. Clean /\ Ended /\ (stage = "http" => type = "http") /\ faults \in Nat
  BY DEF OutcomeInv, TypeInv
<1>1. UNCHANGED <<type, ssl, oldProxy>> /\ (stage' = "http" => stage = "http")
  BY DEF Client, Shake, ConnectSocket, ConnectSocketFails, Write, WriteFails, IsTimeout, ReadFails,
         HttpProxy, Sock4Granted, Sock4Refused, MethodAccepted, MethodRefused, AuthAccepted,
         AuthRefused, Sock5Granted, Sock5Refused, Handshake, HandshakeFails, ReadSome
<1>2. SUFFICES Clean' /\ Ended'
  BY <1>0, <1>1 DEF OutcomeInv
<1>3. CASE ConnectSocket
  <2>1. CASE type = "none"
    <3>1. /\ Return("OK", FALSE) /\ granted' = TRUE
          /\ asked' = asked /\ torn' = torn /\ pc = "open"
      BY <1>3, <2>1, Zenon DEF ConnectSocket
    <3>2. "less" \notin torn => asked = "none"
      BY <1>0, <3>1 DEF Clean
    <3> QED BY <1>1, <3>1, <3>2, ReturnEnds
  <2>2. CASE type # "none"
    <3>1. pc = "open" /\ pc' = "write" /\ UNCHANGED <<wire, reply, granted, asked, torn>>
      BY <1>3, <2>2 DEF ConnectSocket
    <3> QED BY <1>0, <3>1 DEF Clean, Ended, Nothing
  <2> QED BY <2>1, <2>2
<1>4. CASE ConnectSocketFails \/ WriteFails \/ ReadFails \/ (IsTimeout /\ pc' # "read")
  <2>1. PICK s \in Statuses, e \in BOOLEAN :
               /\ Return(s, e) /\ s # "OK" /\ torn' = torn
               /\ e = FALSE => s = "TIMEOUT"
               /\ s = "TIMEOUT" \/ closed' \/ faults' > 0
    <3>1. CASE ConnectSocketFails
      <4>1. \E s \in Statuses \ {"OK"} : Return(s, TRUE) /\ torn' = torn
        BY <3>1 DEF ConnectSocketFails, Statuses
      <4>2. faults' > 0
        BY <1>0, <3>1 DEF ConnectSocketFails
      <4> QED BY <4>1, <4>2
    <3>2. CASE WriteFails
      <4>1. \E s \in Statuses \ {"OK"} : Return(s, TRUE) /\ torn' = torn
        BY <3>2 DEF WriteFails, WriteError, Statuses
      <4>2. closed' \/ faults' > 0
        BY <1>0, <3>2 DEF WriteFails
      <4> QED BY <4>1, <4>2
    <3>3. CASE ReadFails
      <4>1. \E s \in Statuses \ {"OK"} : Return(s, TRUE) /\ torn' = torn
        BY <3>3 DEF ReadFails, WriteError, Statuses
      <4>2. closed'
        BY <3>3 DEF ReadFails
      <4> QED BY <4>1, <4>2
    <3>4. CASE IsTimeout /\ pc' # "read"
      <4>1. /\ Return("TIMEOUT", error) /\ torn' = torn /\ error \in BOOLEAN
            /\ "TIMEOUT" \in Statuses
        BY <3>4 DEF IsTimeout, TypeInv, Statuses
      <4> QED BY <4>1
    <3> QED BY <1>4, <3>1, <3>2, <3>3, <3>4
  <2>2. GivenUp'
    BY <2>1, Returned DEF GivenUp
  <2> QED BY <1>1, <2>1, <2>2, ReturnEnds
<1>5. CASE IsTimeout /\ pc' = "read"
  <2>1. pc = "select" /\ UNCHANGED <<stage, asked, wire, reply, granted, closed, oldProxy, torn>>
    BY <1>5 DEF IsTimeout, Return
  <2>2. \A a : Answered(a) => Answered(a)'
    BY <2>1 DEF Answered, Yes, Version
  <2>3. Yes(stage)' = Yes(stage) /\ No(stage)' = No(stage)
    BY <2>1 DEF Yes, No, Version
  <2> QED BY <1>0, <1>5, <2>1, <2>2, <2>3 DEF Clean, Ended, Nothing
<1>6. CASE Write
  <2>1. /\ pc = "write" /\ pc' \in {"select", "read"} /\ asked' = stage
        /\ UNCHANGED <<stage, wire, reply, granted, torn>>
    BY <1>6 DEF Write
  <2> QED BY <1>0, <2>1 DEF Clean, Ended, Nothing
<1>7. CASE HttpProxy
  <2>1. /\ torn \subseteq torn' /\ UNCHANGED <<asked, granted>> /\ stage' = "http" /\ stage = "http"
        /\ ~Hidden'
    BY <1>1, <1>7, ReadTakes DEF HttpProxy, Hidden
  <2>2. CASE wire[1] = "ok10"
    <3>1. Return("OK", FALSE)
      BY <1>7, <2>2 DEF HttpProxy
    <3>2. "less" \notin torn' => granted' /\ asked' = "none"
      BY <1>0, <1>7, <2>1, <2>2, HttpTells
    <3> QED BY <1>1, <2>1, <3>1, <3>2, ReturnEnds
  <2>3. CASE wire[1] # "ok10"
    <3>1. Return("ENDPOINT_ERROR", TRUE)
      BY <1>7, <2>3 DEF HttpProxy
    <3>2. "less" \notin torn' => asked' = "none" /\ (granted' => ~oldProxy)
      BY <1>0, <1>7, <2>1, <2>3, HttpTells
    <3>3. "less" \notin torn' /\ granted' => Excused'
      <4>1. type' = "http" /\ oldProxy' = oldProxy
        BY <1>0, <1>1, <2>1
      <4>2. "less" \notin torn' /\ granted' => type' = "http" /\ ~oldProxy'
        BY <3>2, <4>1, Zenon
      <4> QED BY <4>2 DEF Excused
    <3> QED BY <1>1, <2>1, <3>1, <3>2, <3>3, ReturnEnds
  <2> QED BY <2>2, <2>3
<1>8. ASSUME NEW s \in {"socks4", "method", "auth", "connect"}, NEW ok \in BOOLEAN,
             ReadSome(s, ok)
      PROVE  "less" \notin torn' => /\ asked' = "none" /\ granted' = granted
                                    /\ granted' <=> ok /\ s \in Last
                                    /\ s \in {"method", "auth"} => wire' = << >> /\ reply' = << >>
  <2>1. UNCHANGED <<asked, granted, reply>>
    BY <1>8 DEF ReadSome
  <2> QED BY <1>0, <1>8, <2>1, ReadTells
<1>9. CASE Sock4Granted \/ Sock5Granted
  <2>1. PICK s \in {"socks4", "connect"} : ReadSome(s, TRUE) /\ Return("OK", FALSE)
    BY <1>9, Zenon DEF Sock4Granted, Sock5Granted
  <2>2. "less" \notin torn' => asked' = "none" /\ granted'
    BY <1>8, <2>1 DEF Last
  <2> QED BY <1>1, <2>1, <2>2, ReturnEnds
<1>10. CASE Sock4Refused \/ MethodRefused
  <2>1. Hidden' /\ \E s \in {"ENDPOINT_ERROR", "PROXY_ERROR"} : Return(s, FALSE)
    BY <1>10 DEF Sock4Refused, MethodRefused, Hidden, Return, ReadSome
  <2> QED BY <1>1, <2>1, ReturnEnds
<1>11. CASE AuthRefused \/ Sock5Refused
  <2>1. PICK s \in {"auth", "connect"}, r \in {"ENDPOINT_ERROR", "PROXY_ERROR"} :
          ReadSome(s, FALSE) /\ Return(r, TRUE)
    BY <1>11, Zenon DEF AuthRefused, Sock5Refused
  <2>2. "less" \notin torn' => asked' = "none" /\ ~granted'
    BY <1>8, <2>1
  <2> QED BY <1>1, <2>1, <2>2, ReturnEnds
<1>12. CASE MethodAccepted \/ AuthAccepted
  <2>1. PICK s \in {"method", "auth"} : ReadSome(s, TRUE) /\ pc' = "write"
    BY <1>12, Zenon DEF MethodAccepted, AuthAccepted
  <2>2. "less" \notin torn' => asked' = "none" /\ ~granted' /\ wire' = << >> /\ reply' = << >>
    BY <1>8, <2>1 DEF Last
  <2> QED BY <2>1, <2>2 DEF Clean, Ended, Nothing
<1>13. CASE Handshake \/ HandshakeFails
  <2>1. /\ pc = "handshake" /\ pc' = "done"
        /\ UNCHANGED <<stage, status, asked, closed, granted, torn>> /\ status = "OK" /\ ssl
        /\ error' \in BOOLEAN
    BY <1>0, <1>13 DEF Handshake, HandshakeFails, Ended, Told
  <2>2. ~Hidden /\ ~Hidden'
    BY <2>1 DEF Hidden
  <2>3. GivenUp => GivenUp'
    <3>1. faults > 0 => faults' > 0
      BY <1>0, <1>13 DEF Handshake, HandshakeFails
    <3> QED BY <2>1, <3>1 DEF GivenUp
  <2>4. "less" \notin torn => (asked = "none" \/ GivenUp) /\ (Told => granted)
    BY <1>0, <2>1, <2>2 DEF Ended
  <2>5. Told
    BY <1>0, <2>1 DEF Ended
  <2>6. granted' => Told' \/ GivenUp' \/ Excused'
    <3>1. CASE Handshake
      BY <2>1, <3>1 DEF Handshake, Told
    <3>2. CASE HandshakeFails
      <4>1. ~granted \/ torn # {} \/ closed \/ faults' > 0
        BY <1>0, <3>2 DEF HandshakeFails
      <4> QED BY <1>1, <2>1, <4>1 DEF GivenUp, Excused
    <3> QED BY <1>13, <3>1, <3>2
  <2>7. Clean'
    BY <2>1 DEF Clean
  <2> QED BY <2>1, <2>2, <2>3, <2>4, <2>5, <2>6, <2>7 DEF Ended, Told
<1> QED BY <1>3, <1>4, <1>5, <1>6, <1>7, <1>9, <1>10, <1>11, <1>12, <1>13
  DEF Client, Shake

LEMMA ProxyOutcome ==
  ASSUME TypeInv, OutcomeInv, Answer \/ ProxySends \/ EndpointSends \/ PeerCloses
  PROVE  OutcomeInv'
<1> USE DEF settings, client
<1>0. /\ Clean /\ Ended /\ (stage = "http" => type = "http") /\ stage \in Stages
      /\ wire \in Seq(Parts) /\ reply \in Seq(Parts) /\ Len(wire) \in Nat
  BY LenProperties DEF OutcomeInv, TypeInv
<1>1. UNCHANGED <<type, ssl, oldProxy, stage, pc, error, status, torn, faults>>
  BY DEF Answer, ProxySends, EndpointSends, PeerCloses
<1>2. Yes(stage)' = Yes(stage) /\ No(stage)' = No(stage)
  BY <1>1 DEF Yes, No, Version
<1>3. Ended'
  <2>1. (Hidden <=> Hidden') /\ (Told <=> Told') /\ (GivenUp => GivenUp') /\ (Excused <=> Excused')
    <3>1. closed => closed'
      BY DEF Answer, ProxySends, EndpointSends, PeerCloses
    <3>2. (Hidden <=> Hidden') /\ (Told <=> Told') /\ (Excused <=> Excused')
      BY <1>1 DEF Hidden, Told, Excused
    <3>3. GivenUp => GivenUp'
      BY <1>1, <3>1 DEF GivenUp
    <3> QED BY <3>2, <3>3
  <2>2. CASE Answer
    <3>0. /\ asked # "none" /\ ~closed /\ asked' = "none"
          /\ \/ granted' = granted
             \/ granted' = (granted \/ asked \in {"http", "socks4", "connect"})
      BY <2>2 DEF Answer
    <3>1. asked # "none" /\ ~closed /\ asked' = "none" /\ (granted => granted')
      <4>1. CASE granted' = granted
        BY <3>0, <4>1
      <4>2. CASE granted' = (granted \/ asked \in {"http", "socks4", "connect"})
        BY <3>0, <4>2
      <4> QED BY <3>0, <4>1, <4>2
    <3>2. pc \in {"handshake", "done"} /\ ~Hidden /\ "less" \notin torn => GivenUp
      BY <1>0, <3>1 DEF Ended
    <3> QED BY <1>0, <1>1, <2>1, <3>1, <3>2 DEF Ended
  <2>3. CASE ProxySends
    <3>1. asked' = asked /\ granted' = granted
      BY <2>3 DEF ProxySends
    <3> QED BY <1>0, <1>1, <2>1, <3>1 DEF Ended
  <2>4. CASE EndpointSends
    <3>1. pc \in {"select", "read"}
      BY <2>4 DEF EndpointSends
    <3> QED BY <1>1, <3>1 DEF Ended
  <2>5. CASE PeerCloses
    <3>1. asked' = "none" /\ granted' = granted
      BY <2>5 DEF PeerCloses
    <3> QED BY <1>0, <1>1, <2>1, <3>1 DEF Ended
  <2> QED BY <2>2, <2>3, <2>4, <2>5
<1>4. Clean'
  <2>0. SUFFICES ASSUME "less" \notin torn
                 PROVE  Clean'
    BY <1>1 DEF Clean
  <2>1. ASSUME pc \in {"open", "write"}
        PROVE  Nothing' /\ asked' = "none"
    <3>1. Nothing /\ asked = "none"
      BY <1>0, <2>0, <2>1 DEF Clean
    <3>2. PeerCloses
      BY <2>1, <3>1 DEF Answer, ProxySends, EndpointSends, Nothing
    <3> QED BY <3>1, <3>2 DEF PeerCloses, Nothing
  <2>2. ASSUME pc \in {"select", "read"}, Nothing, asked \in {stage, "none"}
        PROVE  \/ Nothing' /\ asked' \in {stage, "none"}
               \/ \E a \in {Yes(stage), No(stage)} : Answered(a)'
    <3>1. ~ProxySends /\ ~EndpointSends
      BY <2>2 DEF ProxySends, EndpointSends, Nothing
    <3>2. CASE PeerCloses
      BY <2>2, <3>2 DEF PeerCloses, Nothing
    <3>3. CASE Answer
      <4>1. /\ asked = stage /\ asked' = "none" /\ wire' = << >> /\ ~granted /\ reply = << >>
            /\ wire = << >>
        BY <2>2, <3>3 DEF Answer, Nothing
      <4>2. PICK a \in {Yes(stage), No(stage)} :
              /\ reply' = reply \o a
              /\ a = No(stage) => granted' = granted
              /\ a = Yes(stage) => (granted' <=> stage \in Last)
        <5>1. Yes(stage) # No(stage)
          <6>1. /\ stage # "http" => Yes(stage)[2] = "yes" /\ No(stage)[2] = "no"
                /\ stage = "http" => /\ Yes(stage)[1] \in {"ok10", "ok11"}
                                     /\ No(stage)[1] = "refused"
            BY <1>0, AnswerTypes
          <6>2. CASE stage = "http"
            BY <6>1, <6>2
          <6>3. CASE stage # "http"
            BY <6>1, <6>3
          <6> QED BY <6>2, <6>3
        <5>2. \/ reply' = reply \o No(stage) /\ granted' = granted
              \/ reply' = reply \o Yes(stage) /\ granted' = (granted \/ stage \in Last)
          BY <3>3, <4>1 DEF Answer, Last
        <5> QED BY <4>1, <5>1, <5>2
      <4>3. a \in Seq(Parts)
        BY <1>0, <4>2, AnswerTypes
      <4>4. reply' = a
        BY <4>1, <4>2, <4>3, ConcatEmptySeq
      <4>5. Len(wire') = 0 /\ DOMAIN wire' = {} /\ DOMAIN a = 1..Len(a) /\ Len(a) \in Nat
        BY <4>1, <4>3, LenProperties
      <4>6. Carries(wire', reply', a) /\ Complete(wire', reply', a) /\ Len(wire') <= Len(a)
        BY <4>4, <4>5 DEF Carries, Complete
      <4>7. granted' <=> a = Yes(stage) /\ stage \in Last
        BY <4>1, <4>2
      <4>8. Answered(a)'
        BY <1>1, <1>2, <4>1, <4>6, <4>7 DEF Answered
      <4> QED BY <4>2, <4>8
    <3> QED BY <3>1, <3>2, <3>3
  <2>3. ASSUME NEW a \in {Yes(stage), No(stage)}, Answered(a)
        PROVE  Answered(a)'
    <3>0. /\ a \in Seq(Parts) /\ Len(a) \in Nat /\ asked = "none"
          /\ granted <=> a = Yes(stage) /\ stage \in Last
          /\ Carries(wire, reply, a) /\ (~granted => Len(wire) <= Len(a))
          /\ ~closed => Complete(wire, reply, a)
      BY <1>0, <2>3, AnswerTypes, LenProperties DEF Answered
    <3>1. ~Answer
      BY <3>0 DEF Answer
    <3>2. CASE ProxySends
      <4>1. /\ reply # << >> /\ wire' = Append(wire, Head(reply)) /\ reply' = Tail(reply)
            /\ UNCHANGED <<asked, closed, granted>>
        BY <3>2 DEF ProxySends
      <4>2. /\ Len(wire') = Len(wire) + 1 /\ DOMAIN wire' = 1..(Len(wire) + 1)
            /\ \A i \in 1..Len(wire) : wire'[i] = wire[i]
            /\ wire'[Len(wire) + 1] = Head(reply) /\ DOMAIN wire = 1..Len(wire)
        BY <1>0, <4>1, TailOfReply
      <4>3. /\ Len(reply) = Len(reply') + 1 /\ Len(reply') \in Nat
            /\ \A i \in DOMAIN reply' : /\ reply'[i] = reply[i + 1] /\ i + 1 \in DOMAIN reply
                                        /\ i \in Nat
            /\ Head(reply) = reply[1] /\ 1 \in DOMAIN reply
        <5>1. DOMAIN reply' \subseteq Nat
          BY <4>1, TailOfReply, LenProperties
        <5> QED BY <4>1, <5>1, TailOfReply
      <4>4. Len(wire) + 1 <= Len(a) /\ reply[1] = a[Len(wire) + 1]
        BY <3>0, <4>3 DEF Carries
      <4>5. \A i \in DOMAIN wire' : i <= Len(a) => wire'[i] = a[i]
        BY <1>0, <3>0, <4>2, <4>3, <4>4 DEF Carries
      <4>6. \A i \in DOMAIN reply' : Len(wire') + i <= Len(a) /\ reply'[i] = a[Len(wire') + i]
        <5> TAKE i \in DOMAIN reply'
        <5>1. /\ reply'[i] = reply[i + 1] /\ i \in Nat
              /\ Len(wire) + (i + 1) <= Len(a) /\ reply[i + 1] = a[Len(wire) + (i + 1)]
          BY <3>0, <4>3 DEF Carries
        <5>2. Len(wire') + i = Len(wire) + (i + 1)
          BY <1>0, <4>2, <5>1
        <5> QED BY <5>1, <5>2
      <4>7. ~closed' => Complete(wire', reply', a)
        BY <1>0, <3>0, <4>1, <4>2, <4>3 DEF Complete
      <4>8. Len(wire') <= Len(a)
        BY <4>2, <4>4
      <4> QED BY <1>1, <1>2, <3>0, <4>1, <4>5, <4>6, <4>7, <4>8 DEF Answered, Carries
    <3>3. CASE EndpointSends
      <4>1. /\ reply = << >> /\ wire' = Append(wire, "data") /\ granted /\ ~closed
            /\ UNCHANGED <<asked, closed, granted, reply>> /\ "data" \in Parts
        BY <3>3 DEF EndpointSends, Parts
      <4>2. /\ Len(wire') = Len(wire) + 1 /\ DOMAIN wire' = 1..(Len(wire) + 1)
            /\ \A i \in 1..Len(wire) : wire'[i] = wire[i] /\ DOMAIN wire = 1..Len(wire)
            /\ Len(reply) = 0 /\ DOMAIN reply = {}
        BY <1>0, <4>1
      <4>3. Len(wire) >= Len(a)
        BY <1>0, <3>0, <4>1, <4>2 DEF Complete
      <4>4. Carries(wire', reply', a)
        <5>1. \A i \in DOMAIN wire' : i <= Len(a) => i \in 1..Len(wire)
          BY <1>0, <3>0, <4>2, <4>3
        <5>2. \A i \in DOMAIN wire' : i <= Len(a) => wire'[i] = a[i]
          BY <3>0, <4>2, <5>1 DEF Carries
        <5> QED BY <4>1, <4>2, <5>2 DEF Carries
      <4>5. Complete(wire', reply', a)
        BY <1>0, <3>0, <4>1, <4>2, <4>3 DEF Complete
      <4> QED BY <1>1, <1>2, <3>0, <4>1, <4>4, <4>5 DEF Answered
    <3>4. CASE PeerCloses
      <4>1. /\ closed' /\ reply' = << >> /\ DOMAIN << >> = {} /\ asked' = "none"
            /\ UNCHANGED <<wire, granted>>
        BY <3>4 DEF PeerCloses
      <4>2. Carries(wire', reply', a)
        BY <3>0, <4>1 DEF Carries
      <4> QED BY <1>1, <1>2, <3>0, <4>1, <4>2 DEF Answered
    <3> QED BY <3>1, <3>2, <3>3, <3>4
  <2>4. ASSUME pc \in {"select", "read"}
        PROVE  \/ Nothing' /\ asked' \in {stage, "none"}
               \/ \E a \in {Yes(stage), No(stage)} : Answered(a)'
    <3>1. \/ Nothing /\ asked \in {stage, "none"}
          \/ \E a \in {Yes(stage), No(stage)} : Answered(a)
      BY <1>0, <2>0, <2>4 DEF Clean
    <3> QED BY <2>2, <2>3, <2>4, <3>1
  <2> QED BY <1>1, <1>2, <2>1, <2>4 DEF Clean
<1> QED BY <1>0, <1>1, <1>3, <1>4 DEF OutcomeInv

LEMMA OutcomeInvStep == TypeInv /\ OutcomeInv /\ [Next]_vars => OutcomeInv'
<1> SUFFICES ASSUME TypeInv, OutcomeInv, [Next]_vars PROVE OutcomeInv'
  OBVIOUS
<1>1. CASE Finished \/ UNCHANGED vars
  <2>1. UNCHANGED vars
    BY <1>1 DEF Finished
  <2>2. UNCHANGED <<type, ssl, oldProxy, stage, pc, error, status, asked, reply, wire, closed,
                    granted, torn, faults>>
    BY <2>1 DEF vars, settings, client, proxy
  <2>3. \A a : Answered(a)' <=> Answered(a)
    BY <2>2 DEF Answered, Yes, Version
  <2>4. Yes(stage)' = Yes(stage) /\ No(stage)' = No(stage)
    BY <2>2 DEF Yes, No, Version
  <2>5. Clean'
    BY <2>2, <2>3, <2>4 DEF OutcomeInv, Clean, Nothing
  <2>6. Ended'
    BY <2>2 DEF OutcomeInv, Ended, Told, GivenUp, Excused, Hidden
  <2> QED BY <2>2, <2>5, <2>6 DEF OutcomeInv
<1> QED BY <1>1, ClientOutcome, ProxyOutcome DEF Next

(* If no read took less than a reply, a connect that is reported as made   *)
(* has the endpoint behind it, unless a refusal was hidden; one that is    *)
(* reported as failed although the endpoint is connected has a reason.     *)
THEOREM OutcomeIsTrue == FairSpec => []OutcomeTrue
BY TypeInvInit, TypeInvStep, OutcomeInit, OutcomeInvStep, OutcomeIsEnough, PTL DEF FairSpec
=================================================================================
