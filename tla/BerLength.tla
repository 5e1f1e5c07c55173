----------------------------- MODULE BerLength -----------------------------
(* BER definite lengths: c-lib/src/asn-len.c and cpp-lib/src/asn-len.cpp, whose *)
(* BEncDefLen and BDecLen are the same code, and the length reader of the       *)
(* TypeScript client's TCP framing.  Octets are numbers, an encoding is a       *)
(* sequence of them.  The build is the one with a four octet AsnLen.            *)
EXTENDS Integers, Sequences

Octet == 0 .. 255

\* sizeof(AsnLen): the most length octets a decoder takes.
SizeofLen == 4

\* The n low octets of a length, the most significant first.
Octets(n, len) ==
  CASE n = 1 -> <<len % 256>>
    [] n = 2 -> <<(len \div 256) % 256, len % 256>>
    [] n = 3 -> <<(len \div 65536) % 256, (len \div 256) % 256, len % 256>>
    [] n = 4 -> <<(len \div 16777216) % 256, (len \div 65536) % 256,
                  (len \div 256) % 256, len % 256>>

\* The long form: the number of length octets, then the octets.
LongForm(n, len) == <<128 + n>> \o Octets(n, len)

\* The encoder's last bound is 16777126, not 2^24: just below 2^24 it spends an
\* octet more than it needs.
FourOctetsFrom == 16777126

\* Mutant: the bounds of the long form test a signed octet.
BytesInLenSigned(len) ==
  IF len < 128 THEN 1 ELSE IF len < 32768 THEN 3 ELSE 5

BytesInLen(len) ==
  IF len < 128 THEN 1
  ELSE IF len < 256 THEN 2
  ELSE IF len < 65536 THEN 3
  ELSE IF len < FourOctetsFrom THEN 4
  ELSE 5

BEncDefLen(len) ==
  IF len < 128 THEN <<len>>
  ELSE IF len < 256 THEN LongForm(1, len)
  ELSE IF len < 65536 THEN LongForm(2, len)
  ELSE IF len < FourOctetsFrom THEN LongForm(3, len)
  ELSE LongForm(4, len)

\* The loop writes octets until nothing of the length is left.
OctetsOf(len) ==
  IF len < 256 THEN 1 ELSE IF len < 65536 THEN 2 ELSE IF len < 16777216 THEN 3 ELSE 4

BEncDefLen2(len) == IF len < 128 THEN <<len>> ELSE LongForm(OctetsOf(len), len)

\* What the n octets after the first one of bs say.
LengthValue(n, bs) ==
  CASE n = 1 -> bs[2]
    [] n = 2 -> bs[2] * 256 + bs[3]
    [] n = 3 -> bs[2] * 65536 + bs[3] * 256 + bs[4]
    [] n = 4 -> bs[2] * 16777216 + bs[3] * 65536 + bs[4] * 256 + bs[5]

\* A decoder returns a length and the octets it took, or why it gave up.
Decoded(len, used) == [is |-> "len", len |-> len, used |-> used]
Failed(why) == [is |-> why, len |-> 0, used |-> 0]

\* The first octet, and the long form both decoders share; they part at 0x80.
DecodeLen(bs, indefinite) ==
  IF bs = <<>> THEN Failed("past end")
  ELSE IF bs[1] < 128 THEN Decoded(bs[1], 1)
  ELSE IF bs[1] = 128 THEN indefinite
  ELSE LET n == bs[1] - 128
       IN IF n > SizeofLen THEN Failed("overflow")
          ELSE IF Len(bs) < 1 + n THEN Failed("past end")
          ELSE Decoded(LengthValue(n, bs), 1 + n)

BDecLen(bs) == DecodeLen(bs, [is |-> "indefinite", len |-> 0, used |-> 1])

\* DER has no indefinite length.
DDecLen(bs) == DecodeLen(bs, Failed("indefinite in DER"))

\* parseBerLength waits where the decoders fail, and throws on the rest.
parseBerLength(bs) ==
  IF bs = <<>> THEN Failed("wait")
  ELSE IF bs[1] < 128 THEN Decoded(bs[1], 1)
  ELSE LET n == bs[1] - 128
       IN IF n = 0 \/ n > 4 THEN Failed("throw")
          ELSE IF Len(bs) < 1 + n THEN Failed("wait")
          ELSE Decoded(LengthValue(n, bs), 1 + n)

-----------------------------------------------------------------------------
(* What the reader of a length must be able to rely on *)

\* Every reader takes from an encoding, whatever follows it, the length that
\* was written and exactly the octets that were written; the buffer space the
\* encoder reserves (BytesInLen) is the space it uses.
LengthReads(len, tail) ==
  LET enc == BEncDefLen(len)
  IN /\ BDecLen(enc \o tail) = Decoded(len, Len(enc))
     /\ DDecLen(enc \o tail) = Decoded(len, Len(enc))
     /\ parseBerLength(enc \o tail) = Decoded(len, Len(enc))
     /\ Len(enc) = BytesInLen(len)

\* No reader takes a length from the beginning of an encoding: the decoders
\* report the end of the data and the framing waits.
PrefixWaits(len) ==
  \A k \in 0 .. Len(BEncDefLen(len)) - 1 :
    LET part == SubSeq(BEncDefLen(len), 1, k)
    IN BDecLen(part).is = "past end" /\ parseBerLength(part).is = "wait"

\* The two encoders write the same octets except just below 2^24, where the
\* unrolled one writes a leading zero octet that DER does not allow.
EncodersAgree(len) ==
  BEncDefLen(len) = BEncDefLen2(len) <=> len \notin FourOctetsFrom .. 16777215
=============================================================================
