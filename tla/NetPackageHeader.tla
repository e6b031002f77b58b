---------------------------- MODULE NetPackageHeader ----------------------------
(***************************************************************************)
(* NetPackageHeader::encode and decode (src/src/net/NetPackage.cpp:23-93): *)
(* the twelve bytes in front of every package.  The sequence number, which *)
(* pairs a response with its request, has 64 bits in memory, 36 on the     *)
(* wire: 32 in a field of its own, four in the flag.                       *)
(*                                                                         *)
(* A field on the wire is the number that it holds; htonl and ntohl cancel *)
(* each other.                                                             *)
(***************************************************************************)
EXTENDS Integers, TLAPS

Two32 == 4294967296
Two36 == 16 * Two32
Two64 == Two32 * Two32

Bits2 == 0..3
Bits3 == 0..7
Bits4 == 0..15

Bits16 == 0..65535
Bits32 == 0..(Two32 - 1)
Bits64 == 0..(Two64 - 1)

Headers == [length : Bits32, cmd : Bits16, seq : Bits64,
            reserved : Bits4, version : Bits2, encrypt : Bits3, compress : Bits3]

(* m_flag.seq = m_seq >> 32, kept in four bits. *)
HighSeq(seq) == (seq \div Two32) % 16

Flag(reserved, high, version, encrypt, compress) ==
  4096 * reserved + 256 * high + 64 * version + 8 * encrypt + compress

Encode(h) ==
  [length |-> h.length,
   seq    |-> h.seq % Two32,
   cmd    |-> h.cmd,
   flag   |-> Flag(h.reserved, HighSeq(h.seq), h.version, h.encrypt, h.compress)]

(* The fields of m_flag, shifted out of the sixteen bits. *)
Reserved(flag) == (flag \div 4096) % 16
High(flag)     == (flag \div 256) % 16
Version(flag)  == (flag \div 64) % 4
Encrypt(flag)  == (flag \div 8) % 8
Compress(flag) == flag % 8

WholeSeq(high, low) == Two32 * high + low

Decode(w) ==
  [length   |-> w.length,
   cmd      |-> w.cmd,
   seq      |-> WholeSeq(High(w.flag), w.seq),
   reserved |-> Reserved(w.flag),
   version  |-> Version(w.flag),
   encrypt  |-> Encrypt(w.flag),
   compress |-> Compress(w.flag)]

-----------------------------------------------------------------------------
(* The flag fits into its sixteen bits. *)
LEMMA FlagFits ==
  ASSUME NEW r \in Bits4, NEW s \in Bits4, NEW v \in Bits2, NEW e \in Bits3, NEW c \in Bits3
  PROVE  Flag(r, s, v, e, c) \in Nat /\ Flag(r, s, v, e, c) < 65536
  BY SMT DEF Flag, Bits2, Bits3, Bits4

(* A flag gives back the five fields that it was made of. *)
Holds(f, r, s, v, e, c) ==
  /\ Reserved(f) = r /\ High(f) = s /\ Version(f) = v
  /\ Encrypt(f) = e /\ Compress(f) = c

(* The five fields of the flag do not run into each other.                 *)
LEMMA FlagFields ==
  \A r \in Bits4, s \in Bits4, v \in Bits2, e \in Bits3, c \in Bits3 :
    Holds(Flag(r, s, v, e, c), r, s, v, e, c)
<1> TAKE r \in Bits4, s \in Bits4, v \in Bits2, e \in Bits3, c \in Bits3
<1> DEFINE f == Flag(r, s, v, e, c)
<1>1. f = 4096 * r + 256 * s + 64 * v + 8 * e + c
  BY DEF Flag
<1> HIDE DEF f
<1>2. /\ f \div 4096 = r
      /\ f \div 256 = 16 * r + s
      /\ f \div 64 = 4 * (16 * r + s) + v
      /\ f \div 8 = 8 * (4 * (16 * r + s) + v) + e
      /\ f % 8 = c
  BY <1>1, SMT DEF Bits2, Bits3, Bits4
<1>3. /\ r % 16 = r
      /\ (16 * r + s) % 16 = s
      /\ (4 * (16 * r + s) + v) % 4 = v
      /\ (8 * (4 * (16 * r + s) + v) + e) % 8 = e
  BY SMT DEF Bits2, Bits3, Bits4
<1>4. /\ Reserved(f) = r /\ High(f) = s /\ Version(f) = v
      /\ Encrypt(f) = e /\ Compress(f) = c
  BY <1>2, <1>3, SMT DEF Reserved, High, Version, Encrypt, Compress
<1>5. QED
  BY <1>4 DEF f, Holds

(* The two parts of the sequence number give it back modulo 2^36. *)
LEMMA SeqParts ==
  ASSUME NEW n \in Nat
  PROVE  HighSeq(n) \in Bits4 /\ WholeSeq(HighSeq(n), n % Two32) = n % Two36
  BY SMT DEF HighSeq, WholeSeq, Two32, Two36, Bits4

(* Every field of a header survives the way through the wire, whatever the *)
(* others hold, except the sequence number, which keeps 36 of its bits: a  *)
(* response finds its request up to the 2^36th request of a client.        *)
THEOREM RoundTrip ==
  \A h \in Headers :
    Decode(Encode(h)) =
      [length |-> h.length, cmd |-> h.cmd, seq |-> h.seq % Two36, reserved |-> h.reserved,
       version |-> h.version, encrypt |-> h.encrypt, compress |-> h.compress]
<1> TAKE h \in Headers
<1>1. /\ h.seq \in Nat
      /\ h.reserved \in Bits4 /\ h.version \in Bits2
      /\ h.encrypt \in Bits3 /\ h.compress \in Bits3
  <2>1. /\ h.seq \in Bits64
        /\ h.reserved \in Bits4 /\ h.version \in Bits2
        /\ h.encrypt \in Bits3 /\ h.compress \in Bits3
    BY SMT DEF Headers
  <2>2. Bits64 \subseteq Nat
    BY DEF Bits64
  <2> QED BY <2>1, <2>2
<1>2. HighSeq(h.seq) \in Bits4 /\ WholeSeq(HighSeq(h.seq), h.seq % Two32) = h.seq % Two36
  BY <1>1, SeqParts
<1> DEFINE f == Flag(h.reserved, HighSeq(h.seq), h.version, h.encrypt, h.compress)
<1>3. Holds(f, h.reserved, HighSeq(h.seq), h.version, h.encrypt, h.compress)
  BY <1>1, <1>2, FlagFields, Zenon
<1>4. /\ Encode(h).length = h.length /\ Encode(h).cmd = h.cmd
      /\ Encode(h).seq = h.seq % Two32 /\ Encode(h).flag = f
  BY DEF Encode
<1>5. QED
  BY <1>2, <1>3, <1>4, Zenon DEF Decode, Holds
=============================================================================
