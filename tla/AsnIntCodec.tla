---------------------------- MODULE AsnIntCodec ----------------------------
(* The contents octets of an INTEGER: c-lib/src/asn-int.c, where AsnInt is four  *)
(* octets wide, and AsnInt of cpp-lib/src/asn-int.cpp, which keeps the octets.   *)
EXTENDS Integers, Sequences

\* sizeof(AsnInt), and sizeof(AsnIntType) of the C++ library.
SizeofInt == 4

\* The octets of a value in two's complement, the most significant first
\* (\div rounds down, so this is >> 8 of a negative number too).
Word(v) == <<(v \div 16777216) % 256, (v \div 65536) % 256, (v \div 256) % 256, v % 256>>

\* The number a four octet word stands for when its first bit is the sign.
SignedWord(w) ==
  (IF w[1] < 128 THEN w[1] ELSE w[1] - 256) * 16777216 + w[2] * 65536 + w[3] * 256 + w[4]

\* The low four octets of a longer sequence, or a shorter one filled up.
LowWord(bs, fill) ==
  [i \in 1 .. SizeofInt |-> IF Len(bs) - SizeofInt + i >= 1 THEN bs[Len(bs) - SizeofInt + i] ELSE fill]

LowOctets(bs, n) == SubSeq(bs, Len(bs) - n + 1, Len(bs))

-----------------------------------------------------------------------------
(* The C library *)

\* Whether the first nine bits of octets are all ones (sign 255) or zeros.
NineBits(bs, sign) == bs[1] = sign /\ (bs[2] >= 128) = (sign = 255)

\* The least number of octets: the mask 0x7f80 moves down one octet while the
\* first nine bits of what is left are the sign.  (INT_MASK leaves the sign bit
\* itself out, and the branch on dataCpy < 0 supplies it.)
ContentLength(w, sign) ==
  CHOOSE n \in 1 .. SizeofInt :
    /\ n = 1 \/ ~NineBits(LowOctets(w, n), sign)
    /\ \A m \in n + 1 .. SizeofInt : NineBits(LowOctets(w, m), sign)

BEncAsnIntContent(v) ==
  LowOctets(Word(v), ContentLength(Word(v), IF v < 0 THEN 255 ELSE 0))

\* The first octet of a negative number is filled up with 0x80, not with ones,
\* and the result is cut to an int.
BDecAsnIntContent(bs) ==
  SignedWord(LowWord(IF bs[1] >= 128 THEN <<128>> \o bs ELSE bs, 0))

\* An unsigned value is its word.  One with its top bit set gets a zero octet
\* in front, the others are shortened.
BEncUAsnIntContent(w) ==
  IF w[1] >= 128 THEN <<0>> \o w ELSE LowOctets(w, ContentLength(w, 0))

\* The word, or nothing when the contents have no place in one.
BDecUAsnIntContent(bs) ==
  IF \/ Len(bs) > SizeofInt + 1
     \/ bs[1] >= 128
     \/ Len(bs) = SizeofInt + 1 /\ bs[1] # 0
  THEN <<>> ELSE LowWord(bs, 0)

-----------------------------------------------------------------------------
(* The C++ library *)

\* Without its leading octets that are the sign only.
Shorten(bs, sign) ==
  LowOctets(bs, CHOOSE n \in 1 .. Len(bs) :
             /\ n = 1 \/ ~NineBits(LowOctets(bs, n), sign)
             /\ \A m \in n + 1 .. Len(bs) : NineBits(LowOctets(bs, m), sign))

\* storeDERInteger, which keeps nothing of a single signed octet.
storeDERInteger(bs, unsignedFlag) ==
  IF unsignedFlag
  THEN LET short == Shorten(bs, 0) IN IF short[1] >= 128 THEN <<0>> \o short ELSE short
  ELSE IF Len(bs) > 1 THEN Shorten(Shorten(bs, 255), 0) ELSE <<>>

\* Mutant: every value is stored as an unsigned one.
SetUnsigned(v) == storeDERInteger(Word(v), TRUE)

Set(v) == storeDERInteger(Word(v), v >= 0)

\* Whether the octets fit, and the value they then have.
TryGetInt(bs) ==
  [fits |-> Len(bs) <= SizeofInt,
   value |-> SignedWord(LowWord(bs, IF bs # <<>> /\ bs[1] >= 128 THEN 255 ELSE 0))]

-----------------------------------------------------------------------------
(* What the codecs promise *)

\* The encoding is the shortest one (X.690 8.3.2): the first nine bits differ.
Shortest(bs) == Len(bs) > 1 => ~NineBits(bs, 0) /\ ~NineBits(bs, 255)

\* The C++ library reads every value back, from its own octets and from those
\* of the C library; both write the same, shortest octets.
IntReadsBack(v) ==
  /\ TryGetInt(Set(v)) = [fits |-> TRUE, value |-> v]
  /\ Set(v) = BEncAsnIntContent(v)
  /\ Shortest(Set(v))

\* An unsigned value, up to the one with all bits set, is read back by the C
\* library's unsigned decoder, and its octets are the ones the C++ library stores.
UnsignedReadsBack(w) ==
  /\ BDecUAsnIntContent(BEncUAsnIntContent(w)) = w
  /\ storeDERInteger(w, TRUE) = BEncUAsnIntContent(w)

\* The C library reads back what it wrote.
CReadsBack(v) == BDecAsnIntContent(BEncAsnIntContent(v)) = v
=============================================================================
