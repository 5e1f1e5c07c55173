---------------------------- MODULE CodecProofs ----------------------------
(* The codecs and the framing beyond the inputs that TLC tries: every BER length  *)
(* below 2^31 and whatever follows it, every INTEGER of four octets, and TCP      *)
(* connections with any number of messages, cut anywhere.                         *)
EXTENDS CodecPromises, TcpFraming, SequenceTheorems, TLAPS

Lengths == {n \in Nat : n <= 2147483647}

-----------------------------------------------------------------------------
(* Sequences *)

\* A first octet and the rest.
LEMMA ConsFacts ==
  ASSUME NEW a \in Nat, NEW s \in Seq(Nat), NEW e, e = <<a>> \o s
  PROVE  /\ e \in Seq(Nat) /\ Len(e) = 1 + Len(s) /\ e[1] = a
         /\ \A i \in 2 .. Len(e) : e[i] = s[i - 1]
  BY SMT

\* What follows an encoding does not change its octets.
LEMMA ConcatFacts ==
  ASSUME NEW s \in Seq(Nat), NEW t \in Seq(Nat), NEW e, e = s \o t
  PROVE  e \in Seq(Nat) /\ Len(e) >= Len(s) /\ \A i \in 1 .. Len(s) : e[i] = s[i]
  BY SMT

\* The first k octets of an encoding.
LEMMA PrefixFacts ==
  ASSUME NEW s \in Seq(Nat), NEW k \in 0 .. Len(s), NEW e, e = SubSeq(s, 1, k)
  PROVE  e \in Seq(Nat) /\ Len(e) = k /\ \A i \in 1 .. k : e[i] = s[i]
  BY SMT

-----------------------------------------------------------------------------
(* The encoder *)

\* A length fits in n octets.
Fits(n, len) == (n = 1 => len < 256) /\ (n = 2 => len < 65536) /\ (n = 3 => len < 16777216)

\* The low octets of a length that fits in n of them have its value.
LEMMA OctetsFacts ==
  ASSUME NEW len \in Lengths, NEW n \in 1 .. 4, Fits(n, len)
  PROVE  /\ LongForm(n, len) \in Seq(Nat) /\ Len(LongForm(n, len)) = 1 + n
         /\ LongForm(n, len)[1] = 128 + n /\ LengthValue(n, LongForm(n, len)) = len
<1> DEFINE e == LongForm(n, len)
           s == Octets(n, len)
           low == len % 256
           second == (len \div 256) % 256
           third == (len \div 65536) % 256
           fourth == (len \div 16777216) % 256
<1>1. low \in Nat /\ second \in Nat /\ third \in Nat /\ fourth \in Nat
  BY SMT DEF Lengths
<1>2. /\ n = 1 => low = len
      /\ n = 2 => second * 256 + low = len
      /\ n = 3 => third * 65536 + second * 256 + low = len
      /\ n = 4 => fourth * 16777216 + third * 65536 + second * 256 + low = len
  BY SMT DEF Lengths, Fits
<1>3. /\ n = 1 => s = <<low>>
      /\ n = 2 => s = <<second, low>>
      /\ n = 3 => s = <<third, second, low>>
      /\ n = 4 => s = <<fourth, third, second, low>>
  BY SMT DEF Octets
<1> HIDE DEF low, second, third, fourth, s
<1>4. /\ s \in Seq(Nat) /\ Len(s) = n
      /\ n = 1 => s[1] = low
      /\ n = 2 => s[1] = second /\ s[2] = low
      /\ n = 3 => s[1] = third /\ s[2] = second /\ s[3] = low
      /\ n = 4 => s[1] = fourth /\ s[2] = third /\ s[3] = second /\ s[4] = low
  <2>1. CASE n = 1
    <3>1. s = <<low>>
      BY <2>1, <1>3
    <3> QED BY SMT, <2>1, <3>1, <1>1
  <2>2. CASE n = 2
    <3>1. s = <<second, low>>
      BY <2>2, <1>3
    <3> QED BY SMT, <2>2, <3>1, <1>1
  <2>3. CASE n = 3
    <3>1. s = <<third, second, low>>
      BY <2>3, <1>3
    <3> QED BY SMT, <2>3, <3>1, <1>1
  <2>4. CASE n = 4
    <3>1. s = <<fourth, third, second, low>>
      BY <2>4, <1>3
    <3> QED BY SMT, <2>4, <3>1, <1>1
  <2> QED BY SMT, <2>1, <2>2, <2>3, <2>4
<1>5. e = <<128 + n>> \o s
  BY DEF LongForm, s
<1> HIDE DEF e
<1>6. /\ e \in Seq(Nat) /\ Len(e) = 1 + n /\ e[1] = 128 + n
      /\ \A i \in 2 .. 1 + n : e[i] = s[i - 1]
  BY SMT, <1>4, <1>5, ConsFacts
<1>7. /\ n >= 1 => e[2] = s[1]
      /\ n >= 2 => e[3] = s[2]
      /\ n >= 3 => e[4] = s[3]
      /\ n >= 4 => e[5] = s[4]
  BY SMT, <1>6
<1>8. LengthValue(n, e) = len
  <2>1. CASE n = 1 BY SMT, <2>1, <1>2, <1>4, <1>7 DEF LengthValue
  <2>2. CASE n = 2 BY SMT, <2>2, <1>2, <1>4, <1>7 DEF LengthValue
  <2>3. CASE n = 3 BY SMT, <2>3, <1>2, <1>4, <1>7 DEF LengthValue
  <2>4. CASE n = 4 BY SMT, <2>4, <1>2, <1>4, <1>7 DEF LengthValue
  <2> QED BY SMT, <2>1, <2>2, <2>3, <2>4
<1> QED BY <1>6, <1>8 DEF e

\* What BEncDefLen writes: a short form below 128, else the number of length
\* octets and the length; BytesInLen octets in all.
LEMMA EncoderFacts ==
  ASSUME NEW len \in Lengths
  PROVE  LET e == BEncDefLen(len)
             n == Len(e) - 1
         IN /\ e \in Seq(Nat) /\ Len(e) = BytesInLen(len) /\ Len(e) \in 1 .. 5
            /\ len < 128 => Len(e) = 1 /\ e[1] = len
            /\ len >= 128 => n \in 1 .. 4 /\ e[1] = 128 + n /\ LengthValue(n, e) = len
<1> DEFINE e == BEncDefLen(len)
<1>0. len \in Nat
  BY SMT DEF Lengths
<1>1. CASE len < 128
  <2>1. e = <<len>> /\ BytesInLen(len) = 1
    BY SMT, <1>1 DEF BEncDefLen, BytesInLen
  <2> QED BY SMT, <1>0, <1>1, <2>1
<1>2. ASSUME NEW n \in 1 .. 4, len >= 128, e = LongForm(n, len), BytesInLen(len) = 1 + n,
             Fits(n, len)
      PROVE  /\ e \in Seq(Nat) /\ Len(e) = BytesInLen(len) /\ Len(e) \in 1 .. 5
             /\ len < 128 => Len(e) = 1 /\ e[1] = len
             /\ len >= 128 => Len(e) - 1 \in 1 .. 4 /\ e[1] = 128 + (Len(e) - 1) /\ LengthValue(Len(e) - 1, e) = len
  <2>1. e \in Seq(Nat) /\ Len(e) = 1 + n /\ e[1] = 128 + n /\ LengthValue(n, e) = len
    <3>1. /\ LongForm(n, len) \in Seq(Nat) /\ Len(LongForm(n, len)) = 1 + n
          /\ LongForm(n, len)[1] = 128 + n /\ LengthValue(n, LongForm(n, len)) = len
      BY <1>2, OctetsFacts
    <3> QED BY <3>1, <1>2
  <2>2. Len(e) - 1 = n
    BY SMT, <2>1
  <2> HIDE DEF e
  <2> QED BY SMT, <1>0, <1>2, <2>1, <2>2
<1>3. CASE len >= 128
  <2>1. \E n \in 1 .. 4 :
          e = LongForm(n, len) /\ BytesInLen(len) = 1 + n /\ Fits(n, len)
    <3>1. CASE len < 256
      BY SMT, <1>0, <1>3, <3>1 DEF BEncDefLen, BytesInLen, Fits
    <3>2. CASE len >= 256 /\ len < 65536
      BY SMT, <1>0, <1>3, <3>2 DEF BEncDefLen, BytesInLen, Fits
    <3>3. CASE len >= 65536 /\ len < FourOctetsFrom
      BY SMT, <1>0, <1>3, <3>3 DEF BEncDefLen, BytesInLen, FourOctetsFrom, Fits
    <3>4. CASE len >= FourOctetsFrom
      BY SMT, <1>0, <1>3, <3>4 DEF BEncDefLen, BytesInLen, FourOctetsFrom, Fits
    <3> QED BY SMT, <1>0, <1>3, <3>1, <3>2, <3>3, <3>4 DEF FourOctetsFrom
  <2> QED BY <1>2, <1>3, <2>1
<1> QED BY SMT, <1>0, <1>1, <1>3

-----------------------------------------------------------------------------
(* The readers *)

\* The octets bs agree with the encoding of len as far as both go.
Agrees(bs, len) ==
  /\ bs \in Seq(Nat)
  /\ \A i \in 1 .. Len(BEncDefLen(len)) : i <= Len(bs) => bs[i] = BEncDefLen(len)[i]

\* The length in the octets is the one in the encoding.
LEMMA SameValue ==
  ASSUME NEW bs \in Seq(Nat), NEW e \in Seq(Nat), NEW n \in 1 .. 4,
         \A i \in 1 .. 1 + n : bs[i] = e[i]
  PROVE  LengthValue(n, bs) = LengthValue(n, e)
<1>1. CASE n = 1
  <2>1. bs[2] = e[2] BY SMT, <1>1
  <2> QED BY SMT, <1>1, <2>1 DEF LengthValue
<1>2. CASE n = 2
  <2>1. bs[2] = e[2] /\ bs[3] = e[3] BY SMT, <1>2
  <2> QED BY SMT, <1>2, <2>1 DEF LengthValue
<1>3. CASE n = 3
  <2>1. bs[2] = e[2] /\ bs[3] = e[3] /\ bs[4] = e[4] BY SMT, <1>3
  <2> QED BY SMT, <1>3, <2>1 DEF LengthValue
<1>4. CASE n = 4
  <2>1. bs[2] = e[2] /\ bs[3] = e[3] /\ bs[4] = e[4] /\ bs[5] = e[5] BY SMT, <1>4
  <2> QED BY SMT, <1>4, <2>1 DEF LengthValue
<1> QED BY SMT, <1>1, <1>2, <1>3, <1>4

\* Every reader takes the length and the octets of an encoding that is there in
\* full.
LEMMA FullRead ==
  ASSUME NEW len \in Lengths, NEW bs, Agrees(bs, len), Len(bs) >= Len(BEncDefLen(len)), NEW x
  PROVE  /\ DecodeLen(bs, x) = Decoded(len, Len(BEncDefLen(len)))
         /\ parseBerLength(bs) = Decoded(len, Len(BEncDefLen(len)))
<1> DEFINE e == BEncDefLen(len)
           n == Len(e) - 1
<1>1. /\ e \in Seq(Nat) /\ Len(e) \in 1 .. 5
      /\ len < 128 => Len(e) = 1 /\ e[1] = len
      /\ len >= 128 => n \in 1 .. 4 /\ e[1] = 128 + n /\ LengthValue(n, e) = len
  BY EncoderFacts
<1>2. bs \in Seq(Nat) /\ Len(bs) >= Len(e) /\ \A i \in 1 .. Len(e) : i <= Len(bs) => bs[i] = e[i]
  BY DEF Agrees
<1>3. len \in Nat
  BY SMT DEF Lengths
<1> HIDE DEF e
<1>4. bs # <<>> /\ bs[1] = e[1] /\ \A i \in 1 .. Len(e) : bs[i] = e[i]
  BY SMTT(60), <1>1, <1>2
<1>5. CASE len < 128
  <2>1. bs[1] = len /\ bs[1] < 128 /\ Len(e) = 1
    BY <1>1, <1>4, <1>5
  <2>2. DecodeLen(bs, x) = Decoded(len, Len(e)) /\ parseBerLength(bs) = Decoded(len, Len(e))
    BY <2>1, <1>4 DEF DecodeLen, parseBerLength
  <2> QED BY <2>2 DEF e
<1>6. CASE len >= 128
  <2>1. n \in 1 .. 4 /\ bs[1] = 128 + n /\ Len(e) = 1 + n
    BY SMT, <1>1, <1>4, <1>6
  <2>2. LengthValue(n, bs) = len
    <3>1. \A i \in 1 .. 1 + n : bs[i] = e[i]
      BY <1>4, <2>1
    <3>2. LengthValue(n, bs) = LengthValue(n, e)
      BY <3>1, <2>1, <1>1, <1>2, SameValue
    <3> QED BY <3>2, <1>1, <1>6
  <2>3. Len(bs) \in Nat /\ Len(bs) >= 1 + n
    BY SMT, <2>1, <1>2
  <2> HIDE DEF n
  <2>4. /\ bs[1] - 128 = n /\ ~(bs[1] < 128) /\ bs[1] # 128 /\ ~(n > SizeofLen)
        /\ ~(n = 0 \/ n > 4) /\ ~(Len(bs) < 1 + n)
    BY SMT, <2>1, <2>3 DEF SizeofLen
  <2>5. DecodeLen(bs, x) = Decoded(len, 1 + n)
    BY <2>2, <2>4, <1>4 DEF DecodeLen
  <2>6. parseBerLength(bs) = Decoded(len, 1 + n)
    BY <2>2, <2>4, <1>4 DEF parseBerLength
  <2> QED BY <2>1, <2>5, <2>6 DEF e
<1> QED BY SMT, <1>3, <1>5, <1>6

\* Every reader of a beginning of an encoding finds that octets are missing.
LEMMA PartRead ==
  ASSUME NEW len \in Lengths, NEW bs, Agrees(bs, len), Len(bs) < Len(BEncDefLen(len))
  PROVE  BDecLen(bs).is = "past end" /\ parseBerLength(bs).is = "wait"
<1> DEFINE e == BEncDefLen(len)
           n == Len(e) - 1
<1>1. /\ e \in Seq(Nat) /\ Len(e) \in 1 .. 5
      /\ len < 128 => Len(e) = 1 /\ e[1] = len
      /\ len >= 128 => n \in 1 .. 4 /\ e[1] = 128 + n
  BY EncoderFacts
<1>2. bs \in Seq(Nat) /\ Len(bs) < Len(e) /\ \A i \in 1 .. Len(e) : i <= Len(bs) => bs[i] = e[i]
  BY DEF Agrees
<1>3. len \in Nat
  BY SMT DEF Lengths
<1> HIDE DEF e
<1>4. CASE bs = <<>>
  BY <1>4 DEF BDecLen, DecodeLen, parseBerLength, Failed
<1>5. CASE bs # <<>>
  <2>1. Len(bs) >= 1 /\ bs[1] = e[1]
    <3>1. Len(bs) \in Nat /\ Len(bs) # 0
      BY SMT, <1>2, <1>5
    <3> QED BY SMT, <3>1, <1>1, <1>2
  <2>2. len >= 128
    BY SMT, <2>1, <1>1, <1>2, <1>3
  <2>3. Len(bs) \in Nat /\ Len(bs) < 1 + n /\ n \in 1 .. 4 /\ bs[1] = 128 + n
    BY SMT, <2>1, <2>2, <1>1, <1>2
  <2> HIDE DEF n
  <2>4. /\ bs[1] - 128 = n /\ ~(bs[1] < 128) /\ bs[1] # 128 /\ ~(n > SizeofLen)
        /\ ~(n = 0 \/ n > 4)
    BY SMT, <2>3 DEF SizeofLen
  <2> QED BY <2>3, <2>4, <1>5 DEF BDecLen, DecodeLen, parseBerLength, Failed
<1> QED BY <1>4, <1>5

-----------------------------------------------------------------------------
(* The theorems *)

\* BDecLen, DDecLen and parseBerLength read every length BEncDefLen writes, and
\* exactly its octets, whatever follows; the encoder uses BytesInLen octets.
THEOREM EveryLengthReads == \A len \in Lengths : \A tail \in Seq(Nat) : LengthReads(len, tail)
<1> SUFFICES ASSUME NEW len \in Lengths, NEW tail \in Seq(Nat) PROVE LengthReads(len, tail)
  OBVIOUS
<1> DEFINE e == BEncDefLen(len)
           bs == e \o tail
<1>1. e \in Seq(Nat) /\ Len(e) = BytesInLen(len)
  BY EncoderFacts
<1>2. Agrees(bs, len) /\ Len(bs) >= Len(e)
  <2> HIDE DEF e
  <2>1. bs \in Seq(Nat) /\ Len(bs) >= Len(e) /\ \A i \in 1 .. Len(e) : bs[i] = e[i]
    BY SMT, <1>1, ConcatFacts
  <2> QED BY <2>1 DEF Agrees, e
<1>3. \A x : DecodeLen(bs, x) = Decoded(len, Len(e))
  BY <1>2, FullRead
<1>4. parseBerLength(bs) = Decoded(len, Len(e))
  BY <1>2, FullRead
<1> QED BY <1>1, <1>3, <1>4 DEF LengthReads, BDecLen, DDecLen

\* No reader takes a length from a beginning of the octets BEncDefLen writes:
\* BDecLen reports the end of the data, parseBerLength waits for more.
THEOREM EveryPrefixWaits == \A len \in Lengths : PrefixWaits(len)
<1> SUFFICES ASSUME NEW len \in Lengths, NEW k \in 0 .. Len(BEncDefLen(len)) - 1
             PROVE  LET part == SubSeq(BEncDefLen(len), 1, k)
                    IN BDecLen(part).is = "past end" /\ parseBerLength(part).is = "wait"
  BY DEF PrefixWaits
<1> DEFINE e == BEncDefLen(len)
           part == SubSeq(e, 1, k)
<1>1. e \in Seq(Nat)
  BY EncoderFacts
<1>2. k \in 0 .. Len(e) /\ k < Len(e)
  BY SMT, <1>1
<1> HIDE DEF e
<1>3. part \in Seq(Nat) /\ Len(part) = k /\ \A i \in 1 .. k : part[i] = e[i]
  BY SMT, <1>1, <1>2, PrefixFacts
<1>4. \A i \in 1 .. Len(e) : i <= Len(part) => part[i] = e[i]
  BY SMT, <1>1, <1>2, <1>3
<1>5. Agrees(part, len) /\ Len(part) < Len(e)
  BY <1>2, <1>3, <1>4 DEF Agrees, e
<1> QED BY <1>5, PartRead DEF e

\* BEncDefLen and BEncDefLen2 write the same octets except for the lengths from 16777126
\* to 2^24 - 1, where BEncDefLen writes one octet more.
THEOREM EncodersAgreeExactly == \A len \in Lengths : EncodersAgree(len)
<1> TAKE len \in Lengths
<1>0. len \in Nat
  BY DEF Lengths
<1>1. CASE len < 128
  <2>1. BEncDefLen(len) = BEncDefLen2(len)
    BY <1>1 DEF BEncDefLen, BEncDefLen2
  <2>2. len \notin FourOctetsFrom .. 16777215
    BY SMT, <1>0, <1>1 DEF FourOctetsFrom
  <2> QED BY <2>1, <2>2 DEF EncodersAgree
<1>3. CASE len >= 128 /\ len < 256
  <2>1. BEncDefLen(len) = LongForm(1, len) /\ len \notin FourOctetsFrom .. 16777215
    BY SMT, <1>0, <1>3 DEF BEncDefLen, FourOctetsFrom
  <2>2. BEncDefLen2(len) = LongForm(1, len)
    BY SMT, <1>0, <1>3 DEF BEncDefLen2, OctetsOf, FourOctetsFrom
  <2> QED BY <2>1, <2>2 DEF EncodersAgree
<1>4. CASE len >= 256 /\ len < 65536
  <2>1. BEncDefLen(len) = LongForm(2, len) /\ len \notin FourOctetsFrom .. 16777215
    BY SMT, <1>0, <1>4 DEF BEncDefLen, FourOctetsFrom
  <2>2. BEncDefLen2(len) = LongForm(2, len)
    BY SMT, <1>0, <1>4 DEF BEncDefLen2, OctetsOf, FourOctetsFrom
  <2> QED BY <2>1, <2>2 DEF EncodersAgree
<1>5. CASE len >= 65536 /\ len < FourOctetsFrom
  <2>1. BEncDefLen(len) = LongForm(3, len) /\ len \notin FourOctetsFrom .. 16777215
    BY SMT, <1>0, <1>5 DEF BEncDefLen, FourOctetsFrom
  <2>2. BEncDefLen2(len) = LongForm(3, len)
    BY SMT, <1>0, <1>5 DEF BEncDefLen2, OctetsOf, FourOctetsFrom
  <2> QED BY <2>1, <2>2 DEF EncodersAgree
<1>6. CASE len >= FourOctetsFrom /\ len < 16777216
  <2>1. BEncDefLen(len) = LongForm(4, len) /\ len \in FourOctetsFrom .. 16777215
    BY SMT, <1>0, <1>6 DEF BEncDefLen, FourOctetsFrom
  <2>2. BEncDefLen2(len) = LongForm(3, len)
    BY SMT, <1>0, <1>6 DEF BEncDefLen2, OctetsOf, FourOctetsFrom
  <2>3. Fits(3, len) /\ Fits(4, len)
    BY SMT, <1>0, <1>6 DEF Fits
  <2>4. Len(LongForm(3, len)) = 1 + 3 /\ Len(LongForm(4, len)) = 1 + 4
    <3>1. 3 \in 1 .. 4 /\ 4 \in 1 .. 4
      BY SMT
    <3> QED BY <2>3, <3>1, OctetsFacts
  <2>5. LongForm(3, len) # LongForm(4, len)
    BY SMT, <2>4
  <2> QED BY <2>1, <2>2, <2>5 DEF EncodersAgree
<1>7. CASE len >= 16777216
  <2>1. BEncDefLen(len) = LongForm(4, len) /\ len \notin FourOctetsFrom .. 16777215
    BY SMT, <1>0, <1>7 DEF BEncDefLen, FourOctetsFrom
  <2>2. BEncDefLen2(len) = LongForm(4, len)
    BY SMT, <1>0, <1>7 DEF BEncDefLen2, OctetsOf, FourOctetsFrom
  <2> QED BY <2>1, <2>2 DEF EncodersAgree
<1> QED BY SMT, <1>0, <1>1, <1>3, <1>4, <1>5, <1>6, <1>7 DEF FourOctetsFrom

-----------------------------------------------------------------------------
(* Integers *)

\* The octets that are only the sign.
Ones == 255
Signs == {0, Ones}

\* The first nine bits, for the two signs.
LEMMA NineBitsIs ==
  ASSUME NEW bs
  PROVE  /\ NineBits(bs, 0) <=> bs[1] = 0 /\ ~(bs[2] >= 128)
         /\ NineBits(bs, Ones) <=> bs[1] = Ones /\ bs[2] >= 128
<1>1. 0 # 255 /\ Ones = 255
  BY SMT DEF Ones
<1>2. \A p : p \in BOOLEAN => ((p = (0 = 255)) <=> ~p) /\ ((p = (Ones = 255)) <=> p)
  BY <1>1, Zenon
<1>3. (bs[2] >= 128) \in BOOLEAN
  BY SMT
<1> QED BY <1>2, <1>3, Zenon DEF NineBits

\* Only one length satisfies the condition under which the encoders stop.
LEMMA ShortenIs ==
  ASSUME NEW bs, NEW sign, Len(bs) \in Nat, NEW n \in 1 .. Len(bs),
         n = 1 \/ ~NineBits(LowOctets(bs, n), sign),
         \A m \in n + 1 .. Len(bs) : NineBits(LowOctets(bs, m), sign)
  PROVE  Shorten(bs, sign) = LowOctets(bs, n)
<1> DEFINE P(k) == /\ k = 1 \/ ~NineBits(LowOctets(bs, k), sign)
                   /\ \A m \in k + 1 .. Len(bs) : NineBits(LowOctets(bs, m), sign)
           c == CHOOSE k \in 1 .. Len(bs) : P(k)
<1>1. P(n)
  OBVIOUS
<1>2. c \in 1 .. Len(bs) /\ P(c)
  <2> HIDE DEF P
  <2> QED BY <1>1
<1>3. Shorten(bs, sign) = LowOctets(bs, c)
  BY DEF Shorten
<1> HIDE DEF c
<1>4. c = n
  <2>1. CASE c < n
    <3>1. n \in c + 1 .. Len(bs) /\ n # 1
      BY SMT, <1>2, <2>1
    <3> QED BY <3>1, <1>1, <1>2
  <2>2. CASE n < c
    <3>1. c \in n + 1 .. Len(bs) /\ c # 1
      BY SMT, <1>2, <2>2
    <3> QED BY <3>1, <1>1, <1>2
  <2> QED BY SMT, <1>2, <2>1, <2>2
<1> QED BY <1>3, <1>4

\* The last n octets.
LEMMA LowFacts ==
  ASSUME NEW bs \in Seq(Nat), NEW n \in 0 .. Len(bs)
  PROVE  /\ LowOctets(bs, n) \in Seq(Nat) /\ Len(LowOctets(bs, n)) = n
         /\ \A i \in 1 .. n : LowOctets(bs, n)[i] = bs[Len(bs) - n + i]
  BY SMTT(60) DEF LowOctets

LEMMA LowFirst ==
  ASSUME NEW w \in Seq(Nat), Len(w) = 4, NEW m \in 2 .. 4
  PROVE  LowOctets(w, m)[1] = w[5 - m] /\ LowOctets(w, m)[2] = w[6 - m]
<1>1. m \in 0 .. Len(w)
  BY SMT
<1>2. \A i \in 1 .. m : LowOctets(w, m)[i] = w[Len(w) - m + i]
  BY Zenon, <1>1, LowFacts
<1>3. 1 \in 1 .. m /\ 2 \in 1 .. m /\ Len(w) - m + 1 = 5 - m /\ Len(w) - m + 2 = 6 - m
  BY SMT
<1>4. LowOctets(w, m)[1] = w[Len(w) - m + 1] /\ LowOctets(w, m)[2] = w[Len(w) - m + 2]
  BY Zenon, <1>2, <1>3
<1> QED BY Zenon, <1>3, <1>4

\* All of them.
LEMMA LowAll ==
  ASSUME NEW bs \in Seq(Nat)
  PROVE  LowOctets(bs, Len(bs)) = bs
  BY SMT DEF LowOctets

-----------------------------------------------------------------------------
Words == {w \in Seq(Octet) : Len(w) = 4}

\* The m low octets of a word start with nine bits of the sign.
SignOnly(w, m, sign) == w[5 - m] = sign /\ (w[6 - m] >= 128 <=> sign = Ones)

\* All but the n low octets of a word are the sign, and the next bit too.
Stripped(w, n, sign) == \A m \in n + 1 .. 4 : SignOnly(w, m, sign)

LEMMA SignOnlyFacts ==
  ASSUME NEW w \in Seq(Nat), Len(w) = 4, NEW m \in 2 .. 4, NEW sign \in Signs
  PROVE  NineBits(LowOctets(w, m), sign) <=> SignOnly(w, m, sign)
<1>1. LowOctets(w, m)[1] = w[5 - m] /\ LowOctets(w, m)[2] = w[6 - m]
  BY LowFirst
<1>2. CASE sign = 0
  <2>1. sign # Ones
    BY SMT, <1>2 DEF Ones
  <2> QED BY Zenon, <1>1, <1>2, <2>1, NineBitsIs DEF SignOnly
<1>3. CASE sign = Ones
  BY Zenon, <1>1, <1>3, NineBitsIs DEF SignOnly
<1> QED BY <1>2, <1>3 DEF Signs

\* What is left of a word, for either sign: n octets, of which the first nine
\* bits are not all the sign, after octets that are only the sign.
LEMMA ShortenFacts ==
  ASSUME NEW w \in Words, NEW sign \in Signs
  PROVE  \E n \in 1 .. 4 :
           /\ Shorten(w, sign) = LowOctets(w, n)
           /\ n = 1 \/ ~SignOnly(w, n, sign)
           /\ Stripped(w, n, sign)
<1>1. w \in Seq(Nat) /\ Len(w) = 4
  <2>1. w \in Seq(Octet) /\ Len(w) = 4
    BY DEF Words
  <2>2. Octet \subseteq Nat
    BY SMT DEF Octet
  <2> QED BY <2>1, <2>2, SeqMonotonic
<1>2. \A m \in 2 .. 4 : NineBits(LowOctets(w, m), sign) <=> SignOnly(w, m, sign)
  BY Zenon, <1>1, SignOnlyFacts
<1>3. \E n \in 1 .. 4 : (n = 1 \/ ~SignOnly(w, n, sign)) /\ \A m \in n + 1 .. 4 : SignOnly(w, m, sign)
  <2>1. CASE ~SignOnly(w, 4, sign)
    BY SMT, <2>1
  <2>2. CASE SignOnly(w, 4, sign) /\ ~SignOnly(w, 3, sign)
    BY SMT, <2>2
  <2>3. CASE SignOnly(w, 4, sign) /\ SignOnly(w, 3, sign) /\ ~SignOnly(w, 2, sign)
    <3>1. \A m \in 3 .. 4 : SignOnly(w, m, sign)
      BY SMT, <2>3
    <3> QED BY SMT, <2>3, <3>1
  <2>4. CASE SignOnly(w, 4, sign) /\ SignOnly(w, 3, sign) /\ SignOnly(w, 2, sign)
    <3>1. \A m \in 2 .. 4 : SignOnly(w, m, sign)
      BY SMT, <2>4
    <3> QED BY SMT, <3>1
  <2> QED BY <2>1, <2>2, <2>3, <2>4
<1>4. PICK n \in 1 .. 4 : (n = 1 \/ ~SignOnly(w, n, sign)) /\ \A m \in n + 1 .. 4 : SignOnly(w, m, sign)
  BY <1>3
<1>5. n = 1 \/ ~NineBits(LowOctets(w, n), sign)
  <2>1. n = 1 \/ n \in 2 .. 4
    BY SMT
  <2> QED BY <2>1, <1>2, <1>4
<1>6. \A m \in n + 1 .. 4 : NineBits(LowOctets(w, m), sign)
  <2>1. \A m \in n + 1 .. 4 : m \in 2 .. 4
    BY SMT
  <2> QED BY <2>1, <1>2, <1>4
<1>7. Shorten(w, sign) = LowOctets(w, n)
  <2>1. Len(w) \in Nat /\ n \in 1 .. Len(w)
    BY <1>1
  <2>2. \A m \in n + 1 .. Len(w) : NineBits(LowOctets(w, m), sign)
    BY <1>1, <1>6
  <2> QED BY <2>1, <2>2, <1>5, ShortenIs
<1> QED BY <1>4, <1>7 DEF Stripped

Ints == {v \in Int : v >= -2147483648 /\ v <= 2147483647}

\* A word is a function on 1 .. 4.
LEMMA WordsFacts ==
  ASSUME NEW w \in Words
  PROVE  /\ w \in Seq(Nat) /\ Len(w) = 4 /\ w = [i \in 1 .. 4 |-> w[i]]
         /\ \A i \in 1 .. 4 : w[i] \in 0 .. 255
<1>1. w \in Seq(Octet) /\ Len(w) = 4
  BY DEF Words
<1>2. Octet \subseteq Nat
  BY SMT DEF Octet
<1>3. w \in Seq(Nat)
  BY <1>1, <1>2, SeqMonotonic
<1>4. w \in [1 .. Len(w) -> Octet]
  BY <1>1, LenProperties
<1>5. w \in [1 .. 4 -> Octet]
  BY <1>1, <1>4
<1> QED BY <1>1, <1>3, <1>5 DEF Octet

\* The octets of a value: its first bit is the sign, and they stand for it.
LEMMA WordFacts ==
  ASSUME NEW v \in Ints
  PROVE  /\ Word(v) \in Words /\ SignedWord(Word(v)) = v
         /\ Word(v)[1] >= 128 <=> v < 0
<1> DEFINE a == (v \div 16777216) % 256
           b == (v \div 65536) % 256
           c == (v \div 256) % 256
           d == v % 256
<1>0. v \in Int /\ v >= -2147483648 /\ v <= 2147483647
  BY SMT DEF Ints
<1>1. a \in 0 .. 255 /\ b \in 0 .. 255 /\ c \in 0 .. 255 /\ d \in 0 .. 255
  BY SMT, <1>0
<1>2. (IF a < 128 THEN a ELSE a - 256) * 16777216 + b * 65536 + c * 256 + d = v
  BY SMT, <1>0
<1>3. a >= 128 <=> v < 0
  BY SMT, <1>0
<1>4. Word(v) = <<a, b, c, d>>
  BY DEF Word
<1> HIDE DEF a, b, c, d
<1>5. PICK w : w = Word(v)
  OBVIOUS
<1>6. Len(w) = 4 /\ w[1] = a /\ w[2] = b /\ w[3] = c /\ w[4] = d
  BY SMT, <1>4, <1>5
<1>7. w \in Seq(Octet)
  BY SMT, <1>1, <1>4, <1>5 DEF Octet
<1>8. SignedWord(w) = v
  BY SMT, <1>1, <1>2, <1>6 DEF SignedWord
<1> QED BY Zenon, <1>3, <1>5, <1>6, <1>7, <1>8 DEF Words

\* Filling up what is left of a word with the sign gives the word again.
LEMMA FilledUp ==
  ASSUME NEW w \in Words, NEW sign \in Signs, NEW n \in 1 .. 4,
         Stripped(w, n, sign)
  PROVE  /\ LowOctets(w, n) \in Seq(Nat) /\ Len(LowOctets(w, n)) = n
         /\ LowOctets(w, n)[1] = w[5 - n]
         /\ LowWord(LowOctets(w, n), sign) = w
         /\ n < 4 => (w[5 - n] >= 128 <=> sign = Ones)
<1>1. /\ w \in Seq(Nat) /\ Len(w) = 4 /\ w = [i \in 1 .. 4 |-> w[i]]
      /\ \A i \in 1 .. 4 : w[i] \in 0 .. 255
  BY WordsFacts
<1>2. n \in 0 .. Len(w)
  BY SMT, <1>1
<1>3. PICK s : s = LowOctets(w, n)
  OBVIOUS
<1>4. s \in Seq(Nat) /\ Len(s) = n /\ \A i \in 1 .. n : s[i] = w[4 - n + i]
  <2>0. w \in Seq(Nat)
    BY <1>1
  <2>1. /\ LowOctets(w, n) \in Seq(Nat) /\ Len(LowOctets(w, n)) = n
        /\ \A i \in 1 .. n : LowOctets(w, n)[i] = w[Len(w) - n + i]
    BY <2>0, <1>2, LowFacts
  <2> QED BY <2>1, <1>1, <1>3
<1>5. s[1] = w[5 - n]
  BY SMT, <1>4
<1>6. \A i \in 1 .. 4 : (IF Len(s) - SizeofInt + i >= 1 THEN s[Len(s) - SizeofInt + i] ELSE sign) = w[i]
  <2> SUFFICES ASSUME NEW i \in 1 .. 4
               PROVE  (IF n - 4 + i >= 1 THEN s[n - 4 + i] ELSE sign) = w[i]
    BY SMTT(60), <1>4 DEF SizeofInt
  <2>1. CASE n - 4 + i >= 1
    BY SMT, <1>4, <2>1
  <2>2. CASE ~(n - 4 + i >= 1)
    <3>1. 5 - i \in n + 1 .. 4 /\ 5 - (5 - i) = i
      BY SMT, <2>2
    <3>2. SignOnly(w, 5 - i, sign)
      BY <3>1 DEF Stripped
    <3>3. w[i] = sign
      BY SMT, <3>1, <3>2 DEF SignOnly
    <3> QED BY <2>2, <3>3
  <2> QED BY <2>1, <2>2
<1>7. LowWord(s, sign) = [i \in 1 .. 4 |-> w[i]]
  <2>1. LowWord(s, sign) = [i \in 1 .. 4 |-> IF Len(s) - SizeofInt + i >= 1
                                            THEN s[Len(s) - SizeofInt + i] ELSE sign]
    BY Zenon DEF LowWord, SizeofInt
  <2> QED BY <2>1, <1>6
<1>8. n < 4 => (w[5 - n] >= 128 <=> sign = Ones)
  <2> SUFFICES ASSUME n < 4 PROVE w[5 - n] >= 128 <=> sign = Ones
    OBVIOUS
  <2>1. n + 1 \in n + 1 .. 4 /\ 6 - (n + 1) = 5 - n
    BY SMT
  <2>2. SignOnly(w, n + 1, sign)
    BY <2>1 DEF Stripped
  <2> QED BY <2>1, <2>2 DEF SignOnly
<1> QED BY Zenon, <1>1, <1>3, <1>4, <1>5, <1>7, <1>8

SignOctet(v) == IF v < 0 THEN Ones ELSE 0

\* What both libraries write of a value.
LEMMA ContentFacts ==
  ASSUME NEW v \in Ints, NEW s, s = Shorten(Word(v), SignOctet(v))
  PROVE  /\ s = BEncAsnIntContent(v)
         /\ s \in Seq(Nat) /\ Len(s) \in 1 .. 4
         /\ s[1] >= 128 <=> v < 0
         /\ LowWord(s, SignOctet(v)) = Word(v)
         /\ Len(s) = 1 \/ ~NineBits(s, SignOctet(v))
         /\ \A i \in 1 .. Len(s) : s[i] = Word(v)[4 - Len(s) + i]
<1> DEFINE w == Word(v)
           sign == SignOctet(v)
<1>1. w \in Words /\ SignedWord(w) = v /\ (w[1] >= 128 <=> v < 0)
  BY WordFacts
<1>2. sign \in Signs /\ (sign = Ones <=> v < 0)
  BY SMT DEF SignOctet, Signs, Ones
<1>3. w \in Seq(Nat) /\ Len(w) = 4
  BY <1>1, WordsFacts
<1>4. BEncAsnIntContent(v) = s
  BY <1>3 DEF BEncAsnIntContent, ContentLength, Shorten, SizeofInt, SignOctet, Ones
<1> HIDE DEF w, sign
<1>5. PICK n \in 1 .. 4 :
        /\ Shorten(w, sign) = LowOctets(w, n)
        /\ n = 1 \/ ~SignOnly(w, n, sign)
        /\ Stripped(w, n, sign)
  BY <1>1, <1>2, ShortenFacts
<1>6. s = LowOctets(w, n)
  BY <1>5 DEF w, sign
<1>7. /\ LowOctets(w, n) \in Seq(Nat) /\ Len(LowOctets(w, n)) = n
      /\ LowOctets(w, n)[1] = w[5 - n]
      /\ LowWord(LowOctets(w, n), sign) = w
      /\ n < 4 => (w[5 - n] >= 128 <=> sign = Ones)
  <2>1. w \in Words /\ sign \in Signs /\ Stripped(w, n, sign)
    BY <1>1, <1>2, <1>5
  <2> QED BY <2>1, FilledUp
<1>8. s \in Seq(Nat) /\ Len(s) = n /\ s[1] = w[5 - n] /\ LowWord(s, sign) = w
  BY <1>6, <1>7
<1>9. s[1] >= 128 <=> v < 0
  <2>1. CASE n < 4
    BY <2>1, <1>2, <1>7, <1>8
  <2>2. CASE n = 4
    BY SMT, <2>2, <1>1, <1>8
  <2> QED BY SMT, <2>1, <2>2
<1>10. n = 1 \/ ~NineBits(s, sign)
  <2>1. n = 1 \/ n \in 2 .. 4
    BY SMT
  <2>2. n \in 2 .. 4 => (NineBits(LowOctets(w, n), sign) <=> SignOnly(w, n, sign))
    BY <1>2, <1>3, SignOnlyFacts
  <2> QED BY <2>1, <2>2, <1>5, <1>6
<1>11. \A i \in 1 .. n : s[i] = w[4 - n + i]
  <2>1. n \in 0 .. Len(w)
    BY SMT, <1>3
  <2>2. \A i \in 1 .. n : LowOctets(w, n)[i] = w[Len(w) - n + i]
    <3>1. w \in Seq(Nat)
      BY <1>3
    <3> QED BY <2>1, <3>1, LowFacts
  <2> QED BY <2>2, <1>3, <1>6
<1> QED BY <1>4, <1>8, <1>9, <1>10, <1>11 DEF w, sign

\* AsnInt of the C++ library reads every value of four octets back, from its own octets
\* and from those of the C library, and both write the shortest octets.
THEOREM EveryIntReadsBack == \A v \in Ints : IntReadsBack(v)
<1> TAKE v \in Ints
<1>1. PICK s : s = Shorten(Word(v), SignOctet(v))
  OBVIOUS
<1>2. /\ s = BEncAsnIntContent(v)
      /\ s \in Seq(Nat) /\ Len(s) \in 1 .. 4
      /\ s[1] >= 128 <=> v < 0
      /\ LowWord(s, SignOctet(v)) = Word(v)
      /\ Len(s) = 1 \/ ~NineBits(s, SignOctet(v))
  BY <1>1, ContentFacts
<1>3. v \in Int
  BY DEF Ints
<1>4. PICK w : w = Word(v)
  OBVIOUS
<1>5. w \in Words /\ SignedWord(w) = v
  BY <1>4, WordFacts
<1>6. w \in Seq(Nat) /\ Len(w) = 4
  BY <1>5, WordsFacts
<1>7. s # <<>>
  BY SMT, <1>2
<1>8. s[1] \in Nat
  BY SMT, <1>2
<1>9. Set(v) = s
  <2>1. CASE v >= 0
    <3>1. SignOctet(v) = 0 /\ ~(s[1] >= 128)
      BY SMT, <1>2, <1>3, <2>1 DEF SignOctet
    <3>2. Shorten(w, 0) = s
      BY <1>1, <1>4, <3>1
    <3>3. storeDERInteger(w, TRUE) = s
      BY <3>1, <3>2 DEF storeDERInteger
    <3>4. (v >= 0) = TRUE
      BY <2>1
    <3> QED BY Zenon, <3>3, <3>4, <1>4 DEF Set
  <2>2. CASE v < 0
    <3>1. SignOctet(v) = Ones /\ s[1] >= 128
      BY SMT, <1>2, <1>3, <2>2 DEF SignOctet
    <3>2. Shorten(w, Ones) = s
      BY <1>1, <1>4, <3>1
    <3>3. Shorten(s, 0) = s
      <4>1. ~NineBits(s, 0)
        <5>1. s[1] # 0
          BY SMT, <1>8, <3>1
        <5> QED BY <5>1, NineBitsIs
      <4>2. LowOctets(s, Len(s)) = s
        BY <1>2, LowAll
      <4>3. Len(s) \in Nat /\ Len(s) \in 1 .. Len(s) /\ Len(s) + 1 .. Len(s) = {}
        BY SMT, <1>2
      <4>4. Shorten(s, 0) = LowOctets(s, Len(s))
        <5>1. PICK n : n = Len(s)
          OBVIOUS
        <5>2. /\ n \in 1 .. Len(s) /\ ~NineBits(LowOctets(s, n), 0)
              /\ \A m \in n + 1 .. Len(s) : NineBits(LowOctets(s, m), 0)
          BY <5>1, <4>1, <4>2, <4>3
        <5> QED BY <5>1, <5>2, <4>3, ShortenIs
      <4> QED BY <4>2, <4>4
    <3>4. storeDERInteger(w, FALSE) = s
      BY SMT, <1>6, <3>2, <3>3 DEF storeDERInteger, Ones
    <3>5. (v >= 0) = FALSE
      BY SMT, <1>3, <2>2
    <3> QED BY <3>4, <3>5, <1>4 DEF Set
  <2> QED BY SMT, <1>3, <2>1, <2>2
<1>10. TryGetInt(s) = [fits |-> TRUE, value |-> v]
  <2>0. Len(s) \in 1 .. 4
    BY <1>2
  <2>4. Len(s) <= SizeofInt
    <3>1. PICK k : k = Len(s)
      OBVIOUS
    <3>2. k <= SizeofInt
      BY SMT, <2>0, <3>1 DEF SizeofInt
    <3> QED BY <3>1, <3>2
  <2>1. (Len(s) <= SizeofInt) = TRUE
    BY <2>4
  <2>2. (IF s # <<>> /\ s[1] >= 128 THEN 255 ELSE 0) = SignOctet(v)
    BY SMT, <1>2, <1>7 DEF SignOctet, Ones
  <2>3. SignedWord(LowWord(s, SignOctet(v))) = v
    BY <1>2, <1>4, <1>5
  <2> QED BY <2>1, <2>2, <2>3 DEF TryGetInt
<1>11. Shortest(s)
  <2> SUFFICES ASSUME Len(s) > 1 PROVE ~NineBits(s, 0) /\ ~NineBits(s, Ones)
    BY DEF Shortest, Ones
  <2>0. Len(s) # 1
    BY SMTT(60)
  <2>1. ~NineBits(s, SignOctet(v))
    BY <2>0, <1>2
  <2>2. CASE v >= 0
    <3>1. SignOctet(v) = 0 /\ s[1] # Ones
      BY SMT, <1>2, <1>3, <2>2 DEF SignOctet, Ones
    <3> QED BY <2>1, <3>1, NineBitsIs
  <2>3. CASE v < 0
    <3>1. SignOctet(v) = Ones /\ s[1] # 0
      BY SMT, <1>2, <1>3, <2>3 DEF SignOctet
    <3> QED BY <2>1, <3>1, NineBitsIs
  <2> QED BY SMT, <1>3, <2>2, <2>3
<1> QED BY <1>2, <1>9, <1>10, <1>11 DEF IntReadsBack

\* The C library's decoder does not extend the sign bit of a short negative value
\* (c-lib/src/asn-int.c:186): of the values it wrote itself, it reads back exactly those
\* that are not negative and those that need all four octets.
THEOREM CReadsBackExactly ==
  \A v \in Ints : CReadsBack(v) <=> v >= 0 \/ v < -8388608
<1> TAKE v \in Ints
<1>1. PICK s : s = Shorten(Word(v), SignOctet(v))
  OBVIOUS
<1>2. /\ s = BEncAsnIntContent(v)
      /\ s \in Seq(Nat) /\ Len(s) \in 1 .. 4
      /\ s[1] >= 128 <=> v < 0
      /\ LowWord(s, SignOctet(v)) = Word(v)
      /\ \A i \in 1 .. Len(s) : s[i] = Word(v)[4 - Len(s) + i]
  BY <1>1, ContentFacts
<1>3. v \in Int
  BY DEF Ints
<1>4. PICK w : w = Word(v)
  OBVIOUS
<1>5. w \in Words /\ SignedWord(w) = v /\ (w[1] >= 128 <=> v < 0)
  BY <1>4, WordFacts
<1>6. CASE v >= 0
  <2>1. SignOctet(v) = 0 /\ ~(s[1] >= 128)
    BY SMT, <1>2, <1>3, <1>6 DEF SignOctet
  <2>2. BDecAsnIntContent(s) = v
    BY <2>1, <1>2, <1>4, <1>5 DEF BDecAsnIntContent
  <2> QED BY <2>2, <1>2, <1>6 DEF CReadsBack
<1>7. CASE v < 0
  <2>1. PICK e : e = <<128>> \o s
    OBVIOUS
  <2>2. PICK n : n = Len(s)
    OBVIOUS
  <2>3. n \in 1 .. 4 /\ s \in Seq(Nat)
    BY <1>2, <2>2
  <2>4. e \in Seq(Nat) /\ Len(e) = 1 + n /\ e[1] = 128 /\ \A i \in 2 .. 1 + n : e[i] = s[i - 1]
    BY SMT, <2>1, <2>2, <2>3
  <2>5. PICK x : x = LowWord(e, 0)
    OBVIOUS
  <2>6. \A i \in 1 .. 4 : x[i] = IF n - 3 + i >= 1 THEN e[n - 3 + i] ELSE 0
    <3>1. \A i \in 1 .. 4 : x[i] = IF Len(e) - 4 + i >= 1 THEN e[Len(e) - 4 + i] ELSE 0
      BY <2>5 DEF LowWord, SizeofInt
    <3>2. \A i \in 1 .. 4 : Len(e) - 4 + i = n - 3 + i
      BY SMT, <2>3, <2>4
    <3> QED BY <3>1, <3>2
  <2>7. BDecAsnIntContent(s) = SignedWord(x)
    BY <1>2, <1>7, <2>1, <2>5 DEF BDecAsnIntContent
  <2>8. CReadsBack(v) <=> SignedWord(x) = v
    BY <1>2, <2>7 DEF CReadsBack
  <2>9. w \in Seq(Nat) /\ Len(w) = 4 /\ \A i \in 1 .. 4 : w[i] \in 0 .. 255
    BY <1>5, WordsFacts
  <2>10. PICK a, b, c, d \in 0 .. 255 : a = w[1] /\ b = w[2] /\ c = w[3] /\ d = w[4]
    <3>1. w[1] \in 0 .. 255 /\ w[2] \in 0 .. 255 /\ w[3] \in 0 .. 255 /\ w[4] \in 0 .. 255
      BY SMT, <2>9
    <3> QED BY <3>1
  <2>11. v = (IF a < 128 THEN a ELSE a - 256) * 16777216 + b * 65536 + c * 256 + d
    BY <1>5, <2>10 DEF SignedWord
  <2>12. a >= 128
    BY <1>5, <1>7, <2>10
  <2>13. \A i \in 1 .. n : s[i] = w[4 - n + i]
    BY <1>2, <1>4, <2>2
  <2>14. SignOctet(v) = 255
    BY <1>7 DEF SignOctet, Ones
  <2>15. \A i \in 1 .. 4 : w[i] = IF n - 4 + i >= 1 THEN s[n - 4 + i] ELSE 255
    <3>1. w = LowWord(s, 255)
      BY <1>2, <1>4, <2>14
    <3>2. w = [i \in 1 .. 4 |-> IF n - 4 + i >= 1 THEN s[n - 4 + i] ELSE 255]
      BY <3>1, <2>2 DEF LowWord, SizeofInt
    <3> QED BY <3>2
  <2>16. CASE n = 4
    <3>1. x[1] = a /\ x[2] = b /\ x[3] = c /\ x[4] = d
      <4>1. x[1] = e[2] /\ x[2] = e[3] /\ x[3] = e[4] /\ x[4] = e[5]
        BY SMT, <2>6, <2>16
      <4>2. e[2] = s[1] /\ e[3] = s[2] /\ e[4] = s[3] /\ e[5] = s[4]
        BY SMT, <2>4, <2>16
      <4>3. s[1] = w[1] /\ s[2] = w[2] /\ s[3] = w[3] /\ s[4] = w[4]
        BY SMT, <2>13, <2>16
      <4> QED BY <4>1, <4>2, <4>3, <2>10
    <3>2. SignedWord(x) = v
      BY <3>1, <2>11 DEF SignedWord
    <3>3. ~(a = 255 /\ b >= 128)
      <4>1. ~NineBits(s, Ones)
        <5>1. n # 1 /\ SignOctet(v) = Ones
          BY SMT, <1>7, <2>16 DEF SignOctet
        <5> QED BY <5>1, <1>1, <2>2, ContentFacts
      <4>2. s[1] = a /\ s[2] = b
        BY SMT, <2>10, <2>13, <2>16
      <4> QED BY <4>1, <4>2, NineBitsIs DEF Ones
    <3>4. v < -8388608
      BY SMT, <3>3, <2>11, <2>12
    <3> QED BY <3>2, <3>4, <2>8
  <2>17. CASE n = 3
    <3>1. x[1] = 128 /\ x[2] = e[2] /\ x[3] = e[3] /\ x[4] = e[4]
      BY SMT, <2>4, <2>6, <2>17
    <3>2. e[2] = s[1] /\ e[3] = s[2] /\ e[4] = s[3]
      BY SMT, <2>4, <2>17
    <3>3. w[1] = 255 /\ w[2] = s[1] /\ w[3] = s[2] /\ w[4] = s[3]
      BY SMT, <2>15, <2>17
    <3>4. b >= 128
      BY <1>2, <1>7, <3>3, <2>10
    <3>5. SignedWord(x) = -128 * 16777216 + b * 65536 + c * 256 + d
      BY SMT, <3>1, <3>2, <3>3, <2>10 DEF SignedWord
    <3>6. a = 255
      BY <3>3, <2>10
    <3>7. SignedWord(x) # v /\ v >= -8388608
      BY SMT, <3>4, <3>5, <3>6, <2>11
    <3> QED BY SMT, <1>3, <1>7, <3>7, <2>8
  <2>18. CASE n \in 1 .. 2
    <3>1. x[1] = 0 /\ x[2] \in {0, 128} /\ x[3] \in Nat /\ x[4] \in Nat
      <4>1. CASE n = 1
        <5>1. x[1] = 0 /\ x[2] = 0 /\ x[3] = e[1] /\ x[4] = e[2]
          BY SMT, <2>6, <4>1
        <5>2. e[2] \in Nat
          <6>1. 2 \in 1 .. Len(e)
            BY SMT, <2>4, <4>1
          <6> QED BY <2>4, <6>1, ElementOfSeq
        <5> QED BY SMT, <2>4, <5>1, <5>2
      <4>2. CASE n = 2
        <5>1. x[1] = 0 /\ x[2] = e[1] /\ x[3] = e[2] /\ x[4] = e[3]
          BY SMT, <2>6, <4>2
        <5>2. e[2] \in Nat /\ e[3] \in Nat
          <6>1. 2 \in 1 .. Len(e) /\ 3 \in 1 .. Len(e)
            BY SMT, <2>4, <4>2
          <6> QED BY <2>4, <6>1, ElementOfSeq
        <5> QED BY SMT, <2>4, <5>1, <5>2
      <4> QED BY SMT, <2>18, <4>1, <4>2
    <3>2. SignedWord(x) >= 0
      BY SMT, <3>1 DEF SignedWord
    <3>3. w[1] = 255 /\ w[2] = 255
      BY SMT, <2>15, <2>18
    <3>4. SignedWord(x) # v /\ v >= -8388608
      BY SMTT(60), <3>2, <3>3, <1>7, <2>10, <2>11
    <3> QED BY SMT, <1>3, <1>7, <3>4, <2>8
  <2> QED BY SMT, <2>3, <2>16, <2>17, <2>18
<1> QED BY SMT, <1>3, <1>6, <1>7

\* Every unsigned value of four octets is read back by the C library's unsigned decoder,
\* and its octets are the ones the C++ library stores.
THEOREM EveryUnsignedReadsBack == \A w \in Words : UnsignedReadsBack(w)
<1> TAKE w \in Words
<1>1. /\ w \in Seq(Nat) /\ Len(w) = 4 /\ w = [i \in 1 .. 4 |-> w[i]]
      /\ \A i \in 1 .. 4 : w[i] \in 0 .. 255
  BY WordsFacts
<1>2. w \in Seq(Nat) /\ Len(w) = 4 /\ w[1] \in Nat
  <2>1. w \in Seq(Nat) /\ Len(w) = 4
    BY <1>1
  <2>2. 1 \in 1 .. Len(w)
    BY SMT, <2>1
  <2> QED BY <2>1, <2>2, ElementOfSeq
<1>3. CASE w[1] >= 128
  <2>1. PICK e : e = <<0>> \o w
    OBVIOUS
  <2>2. BEncUAsnIntContent(w) = e
    BY <1>3, <2>1 DEF BEncUAsnIntContent
  <2>3. e \in Seq(Nat) /\ Len(e) = 5 /\ e[1] = 0 /\ \A i \in 1 .. 4 : e[1 + i] = w[i]
    <3>1. /\ e \in Seq(Nat) /\ Len(e) = 1 + Len(w) /\ e[1] = 0
          /\ \A i \in 2 .. Len(e) : e[i] = w[i - 1]
      <4>1. 0 \in Nat /\ w \in Seq(Nat)
        BY <1>2
      <4> QED BY <4>1, <2>1, ConsFacts
    <3>2. Len(e) = 5
      BY SMT, <1>2, <3>1
    <3>3. \A i \in 1 .. 4 : 1 + i \in 2 .. Len(e) /\ (1 + i) - 1 = i
      BY SMT, <3>2
    <3> QED BY <3>1, <3>2, <3>3
  <2>4. LowWord(e, 0) = w
    <3>1. \A i \in 1 .. 4 : (IF Len(e) - 4 + i >= 1 THEN e[Len(e) - 4 + i] ELSE 0) = w[i]
      <4>1. \A i \in 1 .. 4 : Len(e) - 4 + i = 1 + i /\ 1 + i >= 1
        BY SMT, <2>3
      <4> QED BY <4>1, <2>3
    <3>2. LowWord(e, 0) = [i \in 1 .. 4 |-> IF Len(e) - 4 + i >= 1 THEN e[Len(e) - 4 + i] ELSE 0]
      BY DEF LowWord, SizeofInt
    <3> QED BY <3>1, <3>2, <1>1
  <2>5. BDecUAsnIntContent(e) = w
    <3>1. ~(Len(e) > SizeofInt + 1) /\ ~(e[1] >= 128) /\ ~(Len(e) = SizeofInt + 1 /\ e[1] # 0)
      BY SMT, <2>3 DEF SizeofInt
    <3> QED BY <3>1, <2>4 DEF BDecUAsnIntContent
  <2>6. Shorten(w, 0) = w
    <3>1. LowOctets(w, Len(w)) = w
      BY <1>2, LowAll
    <3>2. w[1] # 0
      BY SMT, <1>2, <1>3
    <3>3. ~NineBits(w, 0)
      BY <3>2, NineBitsIs
    <3>4. PICK n : n = Len(w)
      OBVIOUS
    <3>5. n \in 1 .. Len(w) /\ n + 1 .. Len(w) = {} /\ Len(w) \in Nat
      BY SMT, <1>2, <3>4
    <3>6. ~NineBits(LowOctets(w, n), 0) /\ \A m \in n + 1 .. Len(w) : NineBits(LowOctets(w, m), 0)
      BY <3>1, <3>3, <3>4, <3>5
    <3> QED BY <3>1, <3>4, <3>5, <3>6, ShortenIs
  <2>7. storeDERInteger(w, TRUE) = e
    BY <1>3, <2>1, <2>6 DEF storeDERInteger
  <2> QED BY <2>2, <2>5, <2>7 DEF UnsignedReadsBack
<1>4. CASE ~(w[1] >= 128)
  <2>1. PICK n \in 1 .. 4 : Shorten(w, 0) = LowOctets(w, n) /\ Stripped(w, n, 0)
    BY ShortenFacts DEF Signs
  <2>2. /\ LowOctets(w, n) \in Seq(Nat) /\ Len(LowOctets(w, n)) = n
        /\ LowOctets(w, n)[1] = w[5 - n]
        /\ LowWord(LowOctets(w, n), 0) = w
        /\ n < 4 => (w[5 - n] >= 128 <=> 0 = Ones)
    BY <2>1, FilledUp DEF Signs
  <2>3. PICK s : s = Shorten(w, 0)
    OBVIOUS
  <2>4. s \in Seq(Nat) /\ Len(s) = n /\ s[1] = w[5 - n] /\ LowWord(s, 0) = w
    BY <2>1, <2>2, <2>3
  <2>5. ~(s[1] >= 128)
    <3>1. CASE n < 4
      <4>1. 0 # Ones
        BY SMT DEF Ones
      <4> QED BY <4>1, <3>1, <2>2, <2>4
    <3>2. CASE n = 4
      BY SMT, <3>2, <1>4, <2>4
    <3> QED BY SMT, <3>1, <3>2
  <2>6. BEncUAsnIntContent(w) = s
    BY <1>2, <1>4, <2>3 DEF BEncUAsnIntContent, ContentLength, Shorten, SizeofInt
  <2>7. storeDERInteger(w, TRUE) = s
    BY <2>3, <2>5 DEF storeDERInteger
  <2>8. BDecUAsnIntContent(s) = w
    <3>1. ~(Len(s) > SizeofInt + 1) /\ ~(Len(s) = SizeofInt + 1)
      BY SMT, <2>4 DEF SizeofInt
    <3> QED BY <3>1, <2>4, <2>5 DEF BDecUAsnIntContent
  <2> QED BY <2>6, <2>7, <2>8 DEF UnsignedReadsBack
<1> QED BY <1>3, <1>4

-----------------------------------------------------------------------------
(* The promises that the runs check *)

\* LengthsReadBack for every length that the encoders take (BEncDefLen, BDecLen, DDecLen
\* and parseBerLength), and not only for those around the bounds.
THEOREM LengthsPromised ==
  ASSUME job.of = "length" => job.len \in Lengths
  PROVE  LengthsReadBack
<1>1. SUFFICES ASSUME job.of = "length"
      PROVE LengthReads(job.len, <<0, 255>>) /\ PrefixWaits(job.len) /\ EncodersAgree(job.len)
  BY DEF LengthsReadBack
<1>2. job.len \in Lengths
  BY <1>1
<1>3. <<0, 255>> \in Seq(Nat)
  BY SMT
<1> QED BY <1>2, <1>3, EveryLengthReads, EveryPrefixWaits, EncodersAgreeExactly

\* IntegersReadBack for every value of four octets (AsnInt::Set and TryGetInt, BEncAsnInt,
\* BEncUAsnInt and BDecUAsnInt).
THEOREM IntegersPromised ==
  ASSUME job.of = "int" => job.value \in Ints,
         job.of = "unsigned" => job.word \in Words
  PROVE  IntegersReadBack
BY EveryIntReadsBack, EveryUnsignedReadsBack DEF IntegersReadBack

-----------------------------------------------------------------------------
(* A turn of handleFraming's loop on the octets of one message, or a part of it *)

\* Octets p and a message w agree as far as both go.
SameSoFar(p, w) ==
  p \in Seq(Nat) /\ w \in Seq(Nat) /\ \A i \in 1 .. Len(w) : i <= Len(p) => p[i] = w[i]

-----------------------------------------------------------------------------
(* The JSON header *)

\* Seven digits, read from the first, are the number.
Horner(d) ==
  10 * (10 * (10 * (10 * (10 * (10 * (10 * 0 + d[1] - 48) + d[2] - 48) + d[3] - 48)
    + d[4] - 48) + d[5] - 48) + d[6] - 48) + d[7] - 48

LEMMA SevenDigitsFacts ==
  ASSUME NEW n \in Nat, n <= MaxJsonLength, NEW d, d = SevenDigits(n)
  PROVE  d \in Seq(Nat) /\ Len(d) = 7 /\ (\A i \in 1 .. 7 : d[i] \in 48 .. 57) /\ Horner(d) = n
<1> DEFINE q6 == n \div 1000000
           q5 == n \div 100000
           q4 == n \div 10000
           q3 == n \div 1000
           q2 == n \div 100
           q1 == n \div 10
           q0 == n \div 1
<1>1. /\ q6 \in Nat /\ q5 \in Nat /\ q4 \in Nat /\ q3 \in Nat /\ q2 \in Nat /\ q1 \in Nat /\ q0 \in Nat
  BY SMT
<1>2. (q6 % 10) = q6
  BY SMT DEF MaxJsonLength
<1>3. q5 = 10 * q6 + (q5 % 10)
  BY SMT
<1>4. q4 = 10 * q5 + (q4 % 10)
  BY SMT
<1>5. q3 = 10 * q4 + (q3 % 10)
  BY SMT
<1>6. q2 = 10 * q3 + (q2 % 10)
  BY SMT
<1>7. q1 = 10 * q2 + (q1 % 10)
  BY SMT
<1>8. q0 = 10 * q1 + (q0 % 10) /\ q0 = n
  BY SMT
<1>9. d = <<48 + (q6 % 10), 48 + (q5 % 10), 48 + (q4 % 10), 48 + (q3 % 10), 48 + (q2 % 10), 48 + (q1 % 10), 48 + (q0 % 10)>>
  BY DEF SevenDigits, Digit
<1> HIDE DEF q6, q5, q4, q3, q2, q1, q0
<1>10. \A q \in Nat : 48 + (q % 10) \in 48 .. 57
  BY SMT
<1>11. /\ d \in Seq(Nat) /\ Len(d) = 7
       /\ d[1] = 48 + (q6 % 10) /\ d[2] = 48 + (q5 % 10) /\ d[3] = 48 + (q4 % 10) /\ d[4] = 48 + (q3 % 10)
       /\ d[5] = 48 + (q2 % 10) /\ d[6] = 48 + (q1 % 10) /\ d[7] = 48 + (q0 % 10)
  BY SMT, <1>1, <1>9
<1>12. \A i \in 1 .. 7 : d[i] \in 48 .. 57
  <2>1. /\ d[1] \in 48 .. 57 /\ d[2] \in 48 .. 57 /\ d[3] \in 48 .. 57 /\ d[4] \in 48 .. 57
        /\ d[5] \in 48 .. 57 /\ d[6] \in 48 .. 57 /\ d[7] \in 48 .. 57
    BY <1>1, <1>10, <1>11
  <2> QED BY SMT, <2>1
<1>13. Horner(d) = n
  BY SMT, <1>1, <1>2, <1>3, <1>4, <1>5, <1>6, <1>7, <1>8, <1>11 DEF Horner
<1> QED BY <1>11, <1>12, <1>13

LEMMA ParseIntOfDigits ==
  ASSUME NEW d, \A i \in 1 .. 7 : d[i] \in 48 .. 57
  PROVE  ParseInt(d) = [nan |-> FALSE, value |-> Horner(d)]
<1> DEFINE ends7 == {k \in 0 .. 7 : \A i \in 1 .. k : IsDigit(d[i])}
           n == CHOOSE k \in ends7 : \A j \in ends7 : j <= k
           Then(v, i) == IF i <= n THEN 10 * v + d[i] - 48 ELSE v
<1>1. 7 \in ends7 /\ \A j \in ends7 : j <= 7
  BY SMT DEF IsDigit
<1>2. ends7 \subseteq Nat
  BY SMT
<1>3. n = 7
  <2> HIDE DEF ends7
  <2>1. n \in ends7 /\ \A j \in ends7 : j <= n
    BY <1>1
  <2> HIDE DEF n
  <2> QED BY SMT, <1>1, <1>2, <2>1
<1>4. ParseInt(d) = [nan |-> n = 0,
        value |-> Then(Then(Then(Then(Then(Then(Then(0, 1), 2), 3), 4), 5), 6), 7)]
  BY DEF ParseInt
<1> HIDE DEF n
<1>5. (n = 0) = FALSE
  BY SMT, <1>3
<1>6. Then(Then(Then(Then(Then(Then(Then(0, 1), 2), 3), 4), 5), 6), 7) = Horner(d)
  BY SMT, <1>3 DEF Horner
<1> HIDE DEF Then
<1> QED BY <1>4, <1>5, <1>6

-----------------------------------------------------------------------------
(* One turn of the loop on octets that agree with a message *)

\* A JSON message is its first octet, seven digits and the text.
LEMMA JsonWire ==
  ASSUME NEW c \in Seq(Nat), Len(c) <= MaxJsonLength,
         NEW w, w = GetJsonLengthPrefix(Len(c)) \o c
  PROVE  /\ w \in Seq(Nat) /\ Len(w) = 8 + Len(c) /\ w[1] = FRAME_START_JSON
         /\ \A i \in 1 .. 7 : w[1 + i] = SevenDigits(Len(c))[i]
         /\ \A j \in 1 .. Len(c) : w[8 + j] = c[j]
<1>1. PICK d : d = SevenDigits(Len(c))
  OBVIOUS
<1>2. PICK h : h = <<FRAME_START_JSON>> \o d
  OBVIOUS
<1>3. w = h \o c
  BY <1>1, <1>2 DEF GetJsonLengthPrefix
<1>4. Len(c) \in Nat
  BY LenProperties
<1>5. d \in Seq(Nat) /\ Len(d) = 7
  BY <1>1, <1>4, SevenDigitsFacts
<1>6. /\ h \in Seq(Nat) /\ Len(h) = 1 + Len(d) /\ h[1] = FRAME_START_JSON
      /\ \A i \in 2 .. Len(h) : h[i] = d[i - 1]
  <2>1. FRAME_START_JSON \in Nat /\ d \in Seq(Nat)
    BY <1>5 DEF FRAME_START_JSON
  <2> QED BY <1>2, <2>1, ConsFacts
<1>7. Len(h) = 8 /\ \A i \in 1 .. 7 : h[1 + i] = d[i]
  <2>1. \A i \in 1 .. 7 : 1 + i \in 2 .. Len(h) /\ (1 + i) - 1 = i
    BY SMT, <1>5, <1>6
  <2>2. Len(h) = 8
    BY SMT, <1>5, <1>6
  <2> QED BY <2>1, <2>2, <1>6
<1>8. /\ w \in Seq(Nat) /\ Len(w) = Len(h) + Len(c)
      /\ \A i \in 1 .. Len(h) + Len(c) : w[i] = IF i <= Len(h) THEN h[i] ELSE c[i - Len(h)]
  <2>1. h \in Seq(Nat)
    BY <1>6
  <2>2. /\ h \o c \in Seq(Nat) /\ Len(h \o c) = Len(h) + Len(c)
        /\ \A i \in 1 .. Len(h) + Len(c) : (h \o c)[i] = IF i <= Len(h) THEN h[i] ELSE c[i - Len(h)]
    BY <2>1, ConcatProperties
  <2> QED BY <2>2, <1>3
<1>9. w[1] = FRAME_START_JSON
  <2>1. 1 \in 1 .. Len(h) + Len(c) /\ 1 <= Len(h)
    BY SMT, <1>4, <1>7
  <2> QED BY <2>1, <1>6, <1>8
<1>10. \A i \in 1 .. 7 : w[1 + i] = d[i]
  <2>1. \A i \in 1 .. 7 : 1 + i \in 1 .. Len(h) + Len(c) /\ 1 + i <= Len(h)
    BY SMT, <1>4, <1>7
  <2> QED BY <2>1, <1>7, <1>8
<1>11. \A j \in 1 .. Len(c) : w[8 + j] = c[j]
  <2>1. \A j \in 1 .. Len(c) : /\ 8 + j \in 1 .. Len(h) + Len(c) /\ ~(8 + j <= Len(h))
                               /\ (8 + j) - Len(h) = j
    BY SMT, <1>4, <1>7
  <2> QED BY <2>1, <1>8
<1> QED BY <1>1, <1>7, <1>8, <1>9, <1>10, <1>11

\* The header's number, when the header is there.
LEMMA JsonHeader ==
  ASSUME NEW c \in Seq(Nat), Len(c) <= MaxJsonLength,
         NEW w, w = GetJsonLengthPrefix(Len(c)) \o c,
         NEW p, SameSoFar(p, w), Len(p) >= 8
  PROVE  ParseInt(SubSeq(p, 2, JSON_HEADER_SIZE)) = [nan |-> FALSE, value |-> Len(c)]
<1>1. /\ w \in Seq(Nat) /\ Len(w) = 8 + Len(c)
      /\ \A i \in 1 .. 7 : w[1 + i] = SevenDigits(Len(c))[i]
  BY JsonWire
<1>2. p \in Seq(Nat) /\ \A i \in 1 .. Len(w) : i <= Len(p) => p[i] = w[i]
  BY DEF SameSoFar
<1>3. Len(c) \in Nat /\ Len(p) \in Nat
  BY <1>2, LenProperties
<1>4. PICK d : d = SevenDigits(Len(c))
  OBVIOUS
<1>5. d \in Seq(Nat) /\ Len(d) = 7 /\ (\A i \in 1 .. 7 : d[i] \in 48 .. 57) /\ Horner(d) = Len(c)
  BY <1>3, <1>4, SevenDigitsFacts
<1>6. PICK h : h = SubSeq(p, 2, JSON_HEADER_SIZE)
  OBVIOUS
<1>7. \A i \in 1 .. 7 : h[i] = p[1 + i]
  BY SMT, <1>2, <1>3, <1>6 DEF JSON_HEADER_SIZE
<1>8. \A i \in 1 .. 7 : h[i] = d[i]
  <2>1. \A i \in 1 .. 7 : 1 + i \in 1 .. Len(w) /\ 1 + i <= Len(p)
    BY SMTT(60), <1>1, <1>3
  <2> QED BY <2>1, <1>1, <1>2, <1>4, <1>7
<1>9. Horner(h) = Horner(d)
  <2>1. /\ h[1] = d[1] /\ h[2] = d[2] /\ h[3] = d[3] /\ h[4] = d[4]
        /\ h[5] = d[5] /\ h[6] = d[6] /\ h[7] = d[7]
    BY SMT, <1>8
  <2> QED BY <2>1 DEF Horner
<1>10. \A i \in 1 .. 7 : h[i] \in 48 .. 57
  BY <1>5, <1>8
<1> QED BY <1>5, <1>6, <1>9, <1>10, ParseIntOfDigits

LEMMA WholeJson ==
  ASSUME NEW c \in Seq(Nat), Len(c) <= MaxJsonLength,
         NEW w, w = GetJsonLengthPrefix(Len(c)) \o c,
         NEW p, SameSoFar(p, w), Len(p) >= Len(w)
  PROVE  NextFrame(p) = [is |-> "frame", frame |-> c, rest |-> SubSeq(p, Len(w) + 1, Len(p))]
<1>1. /\ w \in Seq(Nat) /\ Len(w) = 8 + Len(c) /\ w[1] = FRAME_START_JSON
      /\ \A j \in 1 .. Len(c) : w[8 + j] = c[j]
  BY JsonWire
<1>2. p \in Seq(Nat) /\ \A i \in 1 .. Len(w) : i <= Len(p) => p[i] = w[i]
  BY DEF SameSoFar
<1>3. Len(c) \in Nat /\ Len(p) \in Nat /\ Len(w) \in Nat
  BY <1>1, <1>2, LenProperties
<1>4. Len(p) >= 8 /\ p # <<>> /\ p[1] = FRAME_START_JSON
  <2>1. Len(p) >= 8 /\ 1 \in 1 .. Len(w) /\ 1 <= Len(p)
    BY SMT, <1>1, <1>3
  <2>2. p # <<>>
    BY SMT, <1>2, <2>1
  <2> QED BY <2>1, <2>2, <1>1, <1>2
<1>5. ParseInt(SubSeq(p, 2, JSON_HEADER_SIZE)) = [nan |-> FALSE, value |-> Len(c)]
  BY <1>4, JsonHeader
<1>6. SubSeq(p, JSON_HEADER_SIZE + 1, JSON_HEADER_SIZE + Len(c)) = c
  <2>1. PICK s : s = SubSeq(p, 9, 8 + Len(c))
    OBVIOUS
  <2>2. \A i \in 9 .. 8 + Len(c) : p[i] \in Nat
    <3>1. \A i \in 9 .. 8 + Len(c) : i \in 1 .. Len(p)
      BY SMT, <1>1, <1>3
    <3> QED BY <3>1, <1>2, ElementOfSeq
  <2>3. 9 \in Int /\ 8 + Len(c) \in Int
    BY SMT, <1>3
  <2>4. /\ s \in Seq(Nat) /\ Len(s) = IF 9 <= 8 + Len(c) THEN 8 + Len(c) - 9 + 1 ELSE 0
        /\ \A i \in 1 .. 8 + Len(c) - 9 + 1 : s[i] = p[9 + i - 1]
    BY <2>1, <2>2, <2>3, SubSeqProperties
  <2>5. Len(s) = Len(c)
    BY SMT, <1>3, <2>4
  <2>6. \A i \in 1 .. Len(c) : s[i] = c[i]
    <3>1. \A i \in 1 .. Len(c) : /\ i \in 1 .. 8 + Len(c) - 9 + 1 /\ 9 + i - 1 = 8 + i
                                 /\ 8 + i \in 1 .. Len(w) /\ 8 + i <= Len(p)
      BY SMT, <1>1, <1>3
    <3> QED BY <3>1, <2>4, <1>1, <1>2
  <2>7. s = c
    BY <2>4, <2>5, <2>6, SeqEqual
  <2>8. JSON_HEADER_SIZE + 1 = 9 /\ JSON_HEADER_SIZE + Len(c) = 8 + Len(c)
    BY SMT, <1>3 DEF JSON_HEADER_SIZE
  <2> QED BY <2>1, <2>7, <2>8
<1>7. ~(Len(p) < JSON_HEADER_SIZE) /\ ~(Len(p) < JSON_HEADER_SIZE + Len(c)) /\ JSON_HEADER_SIZE + Len(c) = Len(w)
  BY SMT, <1>1, <1>3, <1>4 DEF JSON_HEADER_SIZE
<1>8. NextFrame(p) = tryConsumeJsonFrame(p)
  BY <1>4 DEF NextFrame
<1>9. tryConsumeJsonFrame(p) = Frame(p, JSON_HEADER_SIZE + 1, JSON_HEADER_SIZE + Len(c))
  BY <1>5, <1>7 DEF tryConsumeJsonFrame
<1> QED BY <1>6, <1>7, <1>8, <1>9 DEF Frame

LEMMA PartJson ==
  ASSUME NEW c \in Seq(Nat), Len(c) <= MaxJsonLength,
         NEW w, w = GetJsonLengthPrefix(Len(c)) \o c,
         NEW p, SameSoFar(p, w), Len(p) < Len(w)
  PROVE  NextFrame(p) = NoFrame("wait", p)
<1>1. w \in Seq(Nat) /\ Len(w) = 8 + Len(c) /\ w[1] = FRAME_START_JSON
  BY JsonWire
<1>2. p \in Seq(Nat) /\ \A i \in 1 .. Len(w) : i <= Len(p) => p[i] = w[i]
  BY DEF SameSoFar
<1>3. Len(c) \in Nat /\ Len(p) \in Nat /\ Len(w) \in Nat
  BY <1>1, <1>2, LenProperties
<1>4. CASE p = <<>>
  BY <1>4 DEF NextFrame
<1>5. CASE p # <<>>
  <2>1. p[1] = FRAME_START_JSON
    <3>1. Len(p) # 0
      BY SMT, <1>2, <1>5
    <3>2. 1 \in 1 .. Len(w) /\ 1 <= Len(p)
      BY SMT, <1>1, <1>3, <3>1
    <3> QED BY <3>2, <1>1, <1>2
  <2>2. NextFrame(p) = tryConsumeJsonFrame(p)
    BY <2>1, <1>5 DEF NextFrame
  <2>3. CASE Len(p) < JSON_HEADER_SIZE
    BY <2>2, <2>3 DEF tryConsumeJsonFrame
  <2>4. CASE ~(Len(p) < JSON_HEADER_SIZE)
    <3>1. Len(p) >= 8 /\ Len(p) < JSON_HEADER_SIZE + Len(c)
      BY SMT, <1>1, <1>3, <2>4 DEF JSON_HEADER_SIZE
    <3>2. ParseInt(SubSeq(p, 2, JSON_HEADER_SIZE)) = [nan |-> FALSE, value |-> Len(c)]
      BY <3>1, JsonHeader
    <3> QED BY <2>2, <2>4, <3>1, <3>2 DEF tryConsumeJsonFrame
  <2> QED BY <2>3, <2>4
<1> QED BY <1>4, <1>5

\* w is a BER message: its tag, its length e and its contents.
Wired(tag, c, w, e) ==
  /\ e \in Seq(Nat) /\ Len(e) \in 1 .. 5
  /\ w \in Seq(Nat) /\ Len(w) = 1 + Len(e) + Len(c) /\ w[1] = tag
  /\ \A i \in 1 .. Len(e) : w[1 + i] = e[i]

\* What the node client sends is one.
LEMMA BerWire ==
  ASSUME NEW tag \in RoseTags, NEW c \in Seq(Nat), Len(c) \in Lengths,
         NEW w, w = SendBer(tag, c), NEW e, e = BEncDefLen(Len(c))
  PROVE  Wired(tag, c, w, e)
<1>1. e \in Seq(Nat) /\ Len(e) \in 1 .. 5
  BY EncoderFacts
<1>2. Len(c) \in Nat
  BY LenProperties
<1>3. PICK h : h = <<tag>> \o e
  OBVIOUS
<1>4. w = h \o c
  BY <1>3 DEF SendBer
<1>5. /\ h \in Seq(Nat) /\ Len(h) = 1 + Len(e) /\ h[1] = tag
      /\ \A i \in 2 .. Len(h) : h[i] = e[i - 1]
  <2>1. tag \in Nat /\ e \in Seq(Nat)
    BY SMT, <1>1 DEF RoseTags
  <2> QED BY <1>3, <2>1, ConsFacts
<1>6. /\ w \in Seq(Nat) /\ Len(w) = Len(h) + Len(c)
      /\ \A i \in 1 .. Len(h) + Len(c) : w[i] = IF i <= Len(h) THEN h[i] ELSE c[i - Len(h)]
  <2>1. h \in Seq(Nat)
    BY <1>5
  <2>2. /\ h \o c \in Seq(Nat) /\ Len(h \o c) = Len(h) + Len(c)
        /\ \A i \in 1 .. Len(h) + Len(c) : (h \o c)[i] = IF i <= Len(h) THEN h[i] ELSE c[i - Len(h)]
    BY <2>1, ConcatProperties
  <2> QED BY <2>2, <1>4
<1>7. PICK k : k = Len(e)
  OBVIOUS
<1>8. k \in 1 .. 5 /\ Len(h) = 1 + k
  BY <1>1, <1>5, <1>7
<1>9. w[1] = tag
  <2>1. 1 \in 1 .. Len(h) + Len(c) /\ 1 <= Len(h)
    BY SMT, <1>2, <1>8
  <2> QED BY <2>1, <1>5, <1>6
<1>10. \A i \in 1 .. k : w[1 + i] = e[i]
  <2>1. \A i \in 1 .. k : /\ 1 + i \in 1 .. Len(h) + Len(c) /\ 1 + i <= Len(h)
                          /\ 1 + i \in 2 .. Len(h) /\ (1 + i) - 1 = i
    BY SMT, <1>2, <1>8
  <2> QED BY <2>1, <1>5, <1>6
<1> QED BY <1>1, <1>5, <1>6, <1>7, <1>9, <1>10 DEF Wired

\* The octets after the tag start with the length.
LEMMA BerTail ==
  ASSUME NEW tag \in RoseTags, NEW c \in Seq(Nat), Len(c) \in Lengths,
         NEW w, w = SendBer(tag, c), NEW p, SameSoFar(p, w), p # <<>>
  PROVE  /\ Agrees(Tail(p), Len(c)) /\ Len(Tail(p)) = Len(p) - 1
         /\ p[1] = tag /\ NextFrame(p) = tryConsumeBerFrame(p)
<1>1. PICK e : e = BEncDefLen(Len(c))
  OBVIOUS
<1>2. /\ e \in Seq(Nat) /\ Len(e) \in 1 .. 5
      /\ w \in Seq(Nat) /\ Len(w) = 1 + Len(e) + Len(c) /\ w[1] = tag
      /\ \A i \in 1 .. Len(e) : w[1 + i] = e[i]
  <2>1. Wired(tag, c, w, e)
    BY <1>1, BerWire
  <2> QED BY <2>1 DEF Wired
<1>3. p \in Seq(Nat) /\ \A i \in 1 .. Len(w) : i <= Len(p) => p[i] = w[i]
  BY DEF SameSoFar
<1>4. PICK t : t = Tail(p)
  OBVIOUS
<1>5. t \in Seq(Nat) /\ Len(t) = Len(p) - 1 /\ \A i \in 1 .. Len(t) : t[i] = p[i + 1]
  BY <1>3, <1>4, HeadTailProperties
<1>6. PICK k : k = Len(e)
  OBVIOUS
<1>7. Len(p) \in Nat /\ Len(p) # 0 /\ Len(c) \in Nat /\ k \in 1 .. 5 /\ Len(w) = 1 + k + Len(c)
  <2>1. Len(p) \in Nat /\ Len(c) \in Nat
    BY <1>3, LenProperties
  <2>2. Len(p) # 0
    BY SMT, <1>3
  <2> QED BY <2>1, <2>2, <1>2, <1>6
<1>8. \A i \in 1 .. k : i <= Len(t) => t[i] = e[i]
  <2> SUFFICES ASSUME NEW i \in 1 .. k, i <= Len(t) PROVE t[i] = e[i]
    OBVIOUS
  <2>1. i \in 1 .. Len(t) /\ i + 1 = 1 + i /\ 1 + i \in 1 .. Len(w) /\ 1 + i <= Len(p)
    BY SMT, <1>5, <1>7
  <2> QED BY <2>1, <1>2, <1>3, <1>5, <1>6
<1>9. Agrees(t, Len(c))
  BY <1>1, <1>5, <1>6, <1>8 DEF Agrees
<1>10. p[1] = tag
  <2>1. 1 \in 1 .. Len(w) /\ 1 <= Len(p)
    BY SMT, <1>7
  <2> QED BY <2>1, <1>2, <1>3
<1>11. p[1] # FRAME_START_JSON
  BY SMT, <1>10 DEF RoseTags, FRAME_START_JSON
<1>12. NextFrame(p) = tryConsumeBerFrame(p)
  BY <1>10, <1>11 DEF NextFrame
<1> QED BY <1>4, <1>5, <1>9, <1>10, <1>12

LEMMA WholeBer ==
  ASSUME NEW tag \in RoseTags, NEW c \in Seq(Nat), Len(c) \in Lengths,
         NEW w, w = SendBer(tag, c), NEW p, SameSoFar(p, w), Len(p) >= Len(w)
  PROVE  NextFrame(p) = [is |-> "frame", frame |-> w, rest |-> SubSeq(p, Len(w) + 1, Len(p))]
<1>1. PICK e : e = BEncDefLen(Len(c))
  OBVIOUS
<1>2. /\ e \in Seq(Nat) /\ Len(e) \in 1 .. 5
      /\ w \in Seq(Nat) /\ Len(w) = 1 + Len(e) + Len(c)
  <2>1. Wired(tag, c, w, e)
    BY <1>1, BerWire
  <2> QED BY <2>1 DEF Wired
<1>3. p \in Seq(Nat) /\ \A i \in 1 .. Len(w) : i <= Len(p) => p[i] = w[i]
  BY DEF SameSoFar
<1>4. PICK k : k = Len(e)
  OBVIOUS
<1>5. Len(p) \in Nat /\ Len(c) \in Nat /\ k \in 1 .. 5 /\ Len(w) = 1 + k + Len(c)
  <2>1. Len(p) \in Nat /\ Len(c) \in Nat
    BY <1>3, LenProperties
  <2> QED BY <2>1, <1>2, <1>4
<1>6. ~(Len(p) < 2) /\ ~(Len(p) < 1 + k + Len(c)) /\ Len(p) - 1 >= k /\ Len(p) # 0
  BY SMT, <1>5
<1>7. p # <<>>
  BY SMT, <1>3, <1>6
<1>8. /\ Agrees(Tail(p), Len(c)) /\ Len(Tail(p)) = Len(p) - 1
      /\ NextFrame(p) = tryConsumeBerFrame(p)
  BY <1>7, BerTail
<1>9. parseBerLength(Tail(p)) = Decoded(Len(c), k)
  <2>1. Len(Tail(p)) >= Len(BEncDefLen(Len(c)))
    BY <1>1, <1>4, <1>6, <1>8
  <2> QED BY <2>1, <1>1, <1>4, <1>8, FullRead
<1>10. tryConsumeBerFrame(p) = Frame(p, 1, 1 + k + Len(c))
  BY <1>6, <1>9 DEF tryConsumeBerFrame, Decoded
<1>11. SubSeq(p, 1, Len(w)) = w
  <2>1. PICK s : s = SubSeq(p, 1, Len(w))
    OBVIOUS
  <2>2. Len(w) \in 0 .. Len(p)
    BY SMT, <1>5
  <2>3. s \in Seq(Nat) /\ Len(s) = Len(w) /\ \A i \in 1 .. Len(w) : s[i] = p[i]
    BY <1>3, <2>1, <2>2, PrefixFacts
  <2>4. \A i \in 1 .. Len(w) : i <= Len(p)
    BY SMT, <1>5
  <2>5. \A i \in 1 .. Len(w) : s[i] = w[i]
    BY <2>3, <2>4, <1>3
  <2>6. w \in Seq(Nat)
    BY <1>2
  <2> QED BY <2>1, <2>3, <2>5, <2>6, SeqEqual
<1> QED BY <1>5, <1>8, <1>10, <1>11 DEF Frame

LEMMA PartBer ==
  ASSUME NEW tag \in RoseTags, NEW c \in Seq(Nat), Len(c) \in Lengths,
         NEW w, w = SendBer(tag, c), NEW p, SameSoFar(p, w), Len(p) < Len(w)
  PROVE  NextFrame(p) = NoFrame("wait", p)
<1>1. PICK e : e = BEncDefLen(Len(c))
  OBVIOUS
<1>2. e \in Seq(Nat) /\ Len(e) \in 1 .. 5 /\ Len(w) = 1 + Len(e) + Len(c)
  <2>1. Wired(tag, c, w, e)
    BY <1>1, BerWire
  <2> QED BY <2>1 DEF Wired
<1>3. p \in Seq(Nat)
  BY DEF SameSoFar
<1>4. PICK k : k = Len(e)
  OBVIOUS
<1>5. Len(p) \in Nat /\ Len(c) \in Nat /\ k \in 1 .. 5 /\ Len(w) = 1 + k + Len(c)
  <2>1. Len(p) \in Nat /\ Len(c) \in Nat
    BY <1>3, LenProperties
  <2> QED BY <2>1, <1>2, <1>4
<1>6. CASE p = <<>>
  BY <1>6 DEF NextFrame
<1>7. CASE p # <<>>
  <2>1. /\ Agrees(Tail(p), Len(c)) /\ Len(Tail(p)) = Len(p) - 1
        /\ NextFrame(p) = tryConsumeBerFrame(p)
    BY <1>7, BerTail
  <2>2. CASE Len(p) < 2
    BY <2>1, <2>2 DEF tryConsumeBerFrame
  <2>3. CASE ~(Len(p) < 2) /\ Len(p) - 1 < k
    <3>1. Len(Tail(p)) < Len(BEncDefLen(Len(c)))
      BY <1>1, <1>4, <2>1, <2>3
    <3>2. parseBerLength(Tail(p)).is = "wait"
      BY <3>1, <2>1, PartRead
    <3> QED BY <2>1, <2>3, <3>2 DEF tryConsumeBerFrame
  <2>4. CASE ~(Len(p) < 2) /\ Len(p) - 1 >= k
    <3>1. Len(Tail(p)) >= Len(BEncDefLen(Len(c)))
      BY <1>1, <1>4, <2>1, <2>4
    <3>2. parseBerLength(Tail(p)) = Decoded(Len(c), k)
      BY <3>1, <1>1, <1>4, <2>1, FullRead
    <3>3. Len(p) < 1 + k + Len(c)
      BY <1>5
    <3> QED BY <2>1, <2>4, <3>2, <3>3 DEF tryConsumeBerFrame, Decoded
  <2> QED BY SMT, <1>5, <2>2, <2>3, <2>4
<1> QED BY <1>6, <1>7

\* What the loop does next on octets that start with all of a message, and on the
\* beginning of one.
LEMMA WholeMessage ==
  ASSUME NEW m, WellFormed(m), NEW p, SameSoFar(p, Wire(m)), Len(p) >= Len(Wire(m))
  PROVE  NextFrame(p) = [is |-> "frame", frame |-> FrameOf(m),
                         rest |-> SubSeq(p, Len(Wire(m)) + 1, Len(p))]
<1>1. CASE m.as = "cpp json" /\ m.octets \in Seq(Nat) /\ Len(m.octets) <= MaxJsonLength
  <2>1. Wire(m) = GetJsonLengthPrefix(Len(m.octets)) \o m.octets /\ FrameOf(m) = m.octets
    BY <1>1 DEF Wire, FrameOf, SendJsonCpp
  <2> QED BY <1>1, <2>1, WholeJson
<1>2. CASE /\ m.as = "ts json" /\ Utf8(m.chars) \in Seq(Nat) /\ Len(Utf8(m.chars)) <= MaxJsonLength
           /\ Utf16Length(m.chars) = Len(Utf8(m.chars))
  <2>1. Wire(m) = GetJsonLengthPrefix(Len(Utf8(m.chars))) \o Utf8(m.chars) /\ FrameOf(m) = Utf8(m.chars)
    BY <1>2 DEF Wire, FrameOf, SendJsonTs
  <2> QED BY <1>2, <2>1, WholeJson
<1>3. CASE m.as = "ber" /\ m.tag \in RoseTags /\ m.octets \in Seq(Nat) /\ Len(m.octets) <= MaxBerLength
  <2>1. Wire(m) = SendBer(m.tag, m.octets) /\ FrameOf(m) = Wire(m)
    BY <1>3 DEF Wire, FrameOf
  <2>2. Len(m.octets) \in Lengths
    BY SMT, <1>3 DEF Lengths, MaxBerLength
  <2>3. m.tag \in RoseTags /\ m.octets \in Seq(Nat)
    BY <1>3
  <2> QED BY <2>1, <2>2, <2>3, WholeBer
<1> QED BY <1>1, <1>2, <1>3 DEF WellFormed

LEMMA PartOfMessage ==
  ASSUME NEW m, WellFormed(m), NEW p, SameSoFar(p, Wire(m)), Len(p) < Len(Wire(m))
  PROVE  NextFrame(p) = NoFrame("wait", p)
<1>1. CASE m.as = "cpp json" /\ m.octets \in Seq(Nat) /\ Len(m.octets) <= MaxJsonLength
  <2>1. Wire(m) = GetJsonLengthPrefix(Len(m.octets)) \o m.octets
    BY <1>1 DEF Wire, SendJsonCpp
  <2> QED BY <1>1, <2>1, PartJson
<1>2. CASE /\ m.as = "ts json" /\ Utf8(m.chars) \in Seq(Nat) /\ Len(Utf8(m.chars)) <= MaxJsonLength
           /\ Utf16Length(m.chars) = Len(Utf8(m.chars))
  <2>1. Wire(m) = GetJsonLengthPrefix(Len(Utf8(m.chars))) \o Utf8(m.chars)
    BY <1>2 DEF Wire, SendJsonTs
  <2> QED BY <1>2, <2>1, PartJson
<1>3. CASE m.as = "ber" /\ m.tag \in RoseTags /\ m.octets \in Seq(Nat) /\ Len(m.octets) <= MaxBerLength
  <2>1. Wire(m) = SendBer(m.tag, m.octets)
    BY <1>3 DEF Wire
  <2>2. Len(m.octets) \in Lengths
    BY SMT, <1>3 DEF Lengths, MaxBerLength
  <2>3. m.tag \in RoseTags /\ m.octets \in Seq(Nat)
    BY <1>3
  <2> QED BY <2>1, <2>2, <2>3, PartBer
<1> QED BY <1>1, <1>2, <1>3 DEF WellFormed

\* A message is at least one octet.
LEMMA WireIsOctets ==
  ASSUME NEW m, WellFormed(m)
  PROVE  Wire(m) \in Seq(Nat) /\ Len(Wire(m)) \in Nat /\ Len(Wire(m)) > 0
<1>1. ASSUME NEW c \in Seq(Nat), Len(c) <= MaxJsonLength, Wire(m) = GetJsonLengthPrefix(Len(c)) \o c
      PROVE  Wire(m) \in Seq(Nat) /\ Len(Wire(m)) \in Nat /\ Len(Wire(m)) > 0
  <2>1. Wire(m) \in Seq(Nat) /\ Len(Wire(m)) = 8 + Len(c)
    BY <1>1, JsonWire
  <2>2. Len(c) \in Nat
    BY LenProperties
  <2> QED BY SMT, <2>1, <2>2
<1>2. CASE m.as = "cpp json" /\ m.octets \in Seq(Nat) /\ Len(m.octets) <= MaxJsonLength
  <2>1. Wire(m) = GetJsonLengthPrefix(Len(m.octets)) \o m.octets
    BY <1>2 DEF Wire, SendJsonCpp
  <2> QED BY <1>1, <1>2, <2>1
<1>3. CASE /\ m.as = "ts json" /\ Utf8(m.chars) \in Seq(Nat) /\ Len(Utf8(m.chars)) <= MaxJsonLength
           /\ Utf16Length(m.chars) = Len(Utf8(m.chars))
  <2>1. Wire(m) = GetJsonLengthPrefix(Len(Utf8(m.chars))) \o Utf8(m.chars)
    BY <1>3 DEF Wire, SendJsonTs
  <2> QED BY <1>1, <1>3, <2>1
<1>4. CASE m.as = "ber" /\ m.tag \in RoseTags /\ m.octets \in Seq(Nat) /\ Len(m.octets) <= MaxBerLength
  <2>1. PICK tag, c : tag = m.tag /\ c = m.octets
    OBVIOUS
  <2>2. tag \in RoseTags /\ c \in Seq(Nat)
    BY <1>4, <2>1
  <2>3. Len(c) \in Lengths
    BY SMT, <1>4, <2>1 DEF Lengths, MaxBerLength
  <2>4. PICK w : w = Wire(m)
    OBVIOUS
  <2>5. w = SendBer(tag, c)
    BY <1>4, <2>1, <2>4 DEF Wire
  <2>6. PICK e : e = BEncDefLen(Len(c))
    OBVIOUS
  <2>7. Len(e) \in 1 .. 5 /\ w \in Seq(Nat) /\ Len(w) = 1 + Len(e) + Len(c)
    <3>1. Wired(tag, c, w, e)
      BY <2>2, <2>3, <2>5, <2>6, BerWire
    <3> QED BY <3>1 DEF Wired
  <2>8. PICK k, n : k = Len(e) /\ n = Len(c)
    OBVIOUS
  <2>9. n \in Nat /\ k \in 1 .. 5 /\ Len(w) = 1 + k + n
    BY <2>2, <2>7, <2>8, LenProperties
  <2>10. Len(w) \in Nat /\ Len(w) > 0
    BY SMT, <2>9
  <2> QED BY <2>4, <2>7, <2>10
<1> QED BY <1>2, <1>3, <1>4 DEF WellFormed

-----------------------------------------------------------------------------
(* The connection.  The inductive invariant: the stream is the messages that were *)
(* written, one after the other; what handleFraming has is what was received      *)
(* after the messages it has found; and outside the loop the next message is not  *)
(* complete.                                                                      *)

\* Where message i starts when the messages end at e.
Start(e, i) == IF i = 1 THEN 0 ELSE e[i - 1]

\* Message w is in the stream s after the octet at.
InStream(s, at, w) == at + Len(w) <= Len(s) /\ \A j \in 1 .. Len(w) : s[at + j] = w[j]

Placed ==
  /\ sent \in Seq(Messages) /\ stream \in Seq(Nat) /\ ends \in Seq(Nat)
  /\ Len(ends) = Len(sent) /\ Len(stream) = Start(ends, Len(sent) + 1)
  /\ \A i \in 1 .. Len(sent) :
       /\ ends[i] = Start(ends, i) + Len(Wire(sent[i]))
       /\ InStream(stream, Start(ends, i), Wire(sent[i]))
  /\ \A i, j \in 1 .. Len(sent) : i <= j => ends[i] <= ends[j]

\* The number of messages that handleFraming has found.
Found == Len(frames) + Len(completeFrames)

Handed ==
  /\ frames \in Seq({FrameOf(m) : m \in Messages})
  /\ completeFrames \in Seq({FrameOf(m) : m \in Messages})
  /\ Found <= Len(sent)
  /\ \A i \in 1 .. Len(frames) : frames[i] = FrameOf(sent[i])
  /\ \A i \in 1 .. Len(completeFrames) : completeFrames[i] = FrameOf(sent[Len(frames) + i])

Unread ==
  /\ pendingSocketData \in Seq(Nat)
  /\ Start(ends, Found + 1) + Len(pendingSocketData) = received
  /\ \A j \in 1 .. Len(pendingSocketData) : pendingSocketData[j] = stream[Start(ends, Found + 1) + j]

Settled == ~scanning =>
  completeFrames = <<>> /\ (Found < Len(sent) => received < ends[Found + 1])

TcpInv ==
  /\ torn \in BOOLEAN /\ received \in 0 .. Len(stream)
  /\ Placed
  /\ ~torn => Handed /\ Unread /\ Settled

\* What the next turn of the loop does: it takes the next message when all of it is
\* there and otherwise waits; it discards nothing and throws nothing.
LEMMA NextTurn ==
  ASSUME \A m \in Messages : WellFormed(m), TcpInv, ~torn
  PROVE  \/ /\ Found < Len(sent) /\ sent[Found + 1] \in Messages
            /\ ends[Found + 1] <= received
            /\ Len(Wire(sent[Found + 1])) \in Nat /\ Len(Wire(sent[Found + 1])) <= Len(pendingSocketData)
            /\ NextFrame(pendingSocketData) =
                 [is |-> "frame", frame |-> FrameOf(sent[Found + 1]),
                  rest |-> SubSeq(pendingSocketData, Len(Wire(sent[Found + 1])) + 1, Len(pendingSocketData))]
         \/ /\ NextFrame(pendingSocketData) = NoFrame("wait", pendingSocketData)
            /\ Found < Len(sent) => received < ends[Found + 1]
<1>1. PICK p, d, n : p = pendingSocketData /\ d = Found /\ n = Len(sent)
  OBVIOUS
<1>2. /\ p \in Seq(Nat) /\ d \in Nat /\ n \in Nat /\ Len(p) \in Nat /\ d <= n
  <2>1. p \in Seq(Nat) /\ Len(frames) \in Nat /\ Len(completeFrames) \in Nat /\ Len(sent) \in Nat
    BY <1>1, LenProperties DEF TcpInv, Placed, Handed, Unread
  <2>2. Found <= Len(sent)
    BY DEF TcpInv, Handed
  <2> QED BY SMT, <1>1, <2>1, <2>2, LenProperties DEF Found
<1>3. PICK at : at = Start(ends, d + 1)
  OBVIOUS
<1>4. at + Len(p) = received /\ \A j \in 1 .. Len(p) : p[j] = stream[at + j]
  BY <1>1, <1>3 DEF TcpInv, Unread
<1>5. CASE d = n
  <2>1. at = Len(stream) /\ Len(stream) \in Nat /\ received \in 0 .. Len(stream)
    BY <1>1, <1>3, <1>5, LenProperties DEF TcpInv, Placed
  <2>2. Len(p) = 0
    BY SMT, <1>2, <1>4, <2>1
  <2>3. p = <<>>
    BY <1>2, <2>2, EmptySeq
  <2>4. NextFrame(p) = NoFrame("wait", p)
    BY <2>3 DEF NextFrame
  <2>5. ~(d < n)
    BY SMT, <1>2, <1>5
  <2> QED BY <1>1, <2>4, <2>5
<1>6. CASE d < n
  <2>1. d + 1 \in 1 .. n
    BY SMT, <1>2, <1>6
  <2>2. PICK m : m = sent[d + 1]
    OBVIOUS
  <2>3. m \in Messages
    BY <1>1, <2>1, <2>2, ElementOfSeq DEF TcpInv, Placed
  <2>4. PICK w : w = Wire(m)
    OBVIOUS
  <2>5. w \in Seq(Nat) /\ Len(w) \in Nat /\ Len(w) > 0
    BY <2>3, <2>4, WireIsOctets
  <2>6. ends[d + 1] = at + Len(w) /\ InStream(stream, at, w)
    BY <1>1, <1>3, <2>1, <2>2, <2>4 DEF TcpInv, Placed
  <2>7. SameSoFar(p, w)
    <3>1. SUFFICES ASSUME NEW i \in 1 .. Len(w), i <= Len(p) PROVE p[i] = w[i]
      BY <1>2, <2>5 DEF SameSoFar
    <3>2. i \in 1 .. Len(p)
      BY SMT, <1>2, <2>5, <3>1
    <3> QED BY <1>4, <2>6, <3>2 DEF InStream
  <2>8. at \in Nat /\ received \in Nat
    <3>1. received \in Nat
      BY SMT, LenProperties DEF TcpInv, Placed
    <3>2. at = 0 \/ (d \in 1 .. Len(ends) /\ at = ends[d])
      <4>1. Len(ends) = n
        BY <1>1 DEF TcpInv, Placed
      <4> QED BY SMT, <1>2, <1>3, <1>6, <4>1 DEF Start
    <3> QED BY <3>1, <3>2, ElementOfSeq DEF TcpInv, Placed
  <2>9. CASE Len(p) >= Len(w)
    <3>1. NextFrame(p) = [is |-> "frame", frame |-> FrameOf(m), rest |-> SubSeq(p, Len(w) + 1, Len(p))]
      BY <2>3, <2>4, <2>7, <2>9, WholeMessage
    <3>2. ends[d + 1] <= received /\ Len(w) <= Len(p)
      BY SMT, <1>2, <1>4, <2>5, <2>6, <2>8, <2>9
    <3> QED BY <1>1, <1>6, <2>2, <2>3, <2>4, <2>5, <3>1, <3>2
  <2>10. CASE Len(p) < Len(w)
    <3>1. NextFrame(p) = NoFrame("wait", p)
      BY <2>3, <2>4, <2>7, <2>10, PartOfMessage
    <3>2. received < ends[d + 1]
      BY SMT, <1>2, <1>4, <2>5, <2>6, <2>8, <2>10
    <3> QED BY <1>1, <3>1, <3>2
  <2>11. Len(p) >= Len(w) \/ Len(p) < Len(w)
    BY SMT, <1>2, <2>5
  <2> QED BY <2>9, <2>10, <2>11
<1> QED BY SMT, <1>2, <1>5, <1>6

LEMMA WriteKeeps ==
  ASSUME \A m \in Messages : WellFormed(m), TcpInv, NEW m \in Messages, Write(m)
  PROVE  TcpInv'
<1>1. PICK w, n, k : w = Wire(m) /\ n = Len(sent) /\ k = Len(stream)
  OBVIOUS
<1>2. w \in Seq(Nat) /\ Len(w) \in Nat /\ Len(w) > 0
  BY <1>1, WireIsOctets
<1>3. n \in Nat /\ k \in Nat /\ Len(ends) = n /\ sent \in Seq(Messages) /\ stream \in Seq(Nat) /\ ends \in Seq(Nat)
  BY <1>1, LenProperties DEF TcpInv, Placed
<1>4. /\ sent' = Append(sent, m) /\ stream' = stream \o w /\ ends' = Append(ends, k + Len(w))
      /\ received' = received /\ pendingSocketData' = pendingSocketData /\ completeFrames' = completeFrames
      /\ scanning' = scanning /\ frames' = frames /\ torn' = torn
  BY <1>1 DEF Write
<1>5. k + Len(w) \in Nat
  BY SMT, <1>2, <1>3
<1>6. /\ sent' \in Seq(Messages) /\ Len(sent') = n + 1 /\ sent'[n + 1] = m
      /\ \A i \in 1 .. n : sent'[i] = sent[i]
  BY <1>1, <1>3, <1>4, AppendProperties
<1>7. /\ ends' \in Seq(Nat) /\ Len(ends') = n + 1 /\ ends'[n + 1] = k + Len(w)
      /\ \A i \in 1 .. n : ends'[i] = ends[i]
  BY <1>3, <1>4, <1>5, AppendProperties
<1>8. /\ stream' \in Seq(Nat) /\ Len(stream') = k + Len(w)
      /\ (\A j \in 1 .. k : stream'[j] = stream[j]) /\ \A j \in 1 .. Len(w) : stream'[k + j] = w[j]
  <2>1. /\ stream' \in Seq(Nat) /\ Len(stream') = Len(stream) + Len(w)
        /\ \A i \in 1 .. Len(stream) + Len(w) : stream'[i] = IF i <= Len(stream) THEN stream[i] ELSE w[i - Len(stream)]
    BY <1>2, <1>3, <1>4, ConcatProperties
  <2>2. \A j \in 1 .. k : j \in 1 .. k + Len(w) /\ j <= k
    BY SMT, <1>2, <1>3
  <2>3. \A j \in 1 .. Len(w) : k + j \in 1 .. k + Len(w) /\ ~(k + j <= k) /\ (k + j) - k = j
    BY SMT, <1>2, <1>3
  <2> QED BY SMTT(60), <1>1, <2>1, <2>2, <2>3
<1>9. \A i \in 1 .. n + 1 : Start(ends', i) = Start(ends, i)
  <2>1. SUFFICES ASSUME NEW i \in 1 .. n + 1 PROVE Start(ends', i) = Start(ends, i)
    OBVIOUS
  <2>2. i = 1 \/ (i # 1 /\ i - 1 \in 1 .. n)
    BY SMT, <1>3
  <2> QED BY <1>7, <2>2 DEF Start
<1>10. k = Start(ends, n + 1)
  BY <1>1 DEF TcpInv, Placed
<1>11. \A i \in 1 .. n : ends[i] \in Nat /\ ends[i] <= k
  <2>1. SUFFICES ASSUME NEW i \in 1 .. n PROVE ends[i] \in Nat /\ ends[i] <= k
    OBVIOUS
  <2>2. ends[i] \in Nat
    BY <1>3, ElementOfSeq
  <2>3. n + 1 # 1 /\ (n + 1) - 1 = n /\ n \in 1 .. n /\ i <= n
    BY SMT, <1>3
  <2>4. k = ends[n]
    BY <1>10, <2>3 DEF Start
  <2>5. ends[i] <= ends[n]
    BY <1>1, <2>3 DEF TcpInv, Placed
  <2> QED BY <2>2, <2>4, <2>5
<1>12. Placed'
  <2>1. Len(ends') = Len(sent')
    BY <1>6, <1>7
  <2>2. Len(stream') = Start(ends', Len(sent') + 1)
    <3>1. (n + 1) + 1 # 1 /\ ((n + 1) + 1) - 1 = n + 1
      BY SMT, <1>3
    <3> QED BY <1>6, <1>7, <1>8, <3>1 DEF Start
  <2>3. ASSUME NEW i \in 1 .. n + 1
        PROVE  /\ ends'[i] = Start(ends', i) + Len(Wire(sent'[i]))
               /\ InStream(stream', Start(ends', i), Wire(sent'[i]))
    <3>1. CASE i = n + 1
      <4>1. Wire(sent'[i]) = w /\ Start(ends', i) = k
        BY <1>1, <1>6, <1>9, <1>10, <3>1
      <4>2. InStream(stream', k, w)
        BY SMT, <1>2, <1>3, <1>8 DEF InStream
      <4> QED BY <1>7, <3>1, <4>1, <4>2
    <3>2. CASE i \in 1 .. n
      <4>1. PICK v, at : v = Wire(sent[i]) /\ at = Start(ends, i)
        OBVIOUS
      <4>2. v = Wire(sent'[i]) /\ at = Start(ends', i)
        BY <1>6, <1>9, <2>3, <3>2, <4>1
      <4>3. ends[i] = at + Len(v) /\ InStream(stream, at, v)
        BY <1>1, <3>2, <4>1 DEF TcpInv, Placed
      <4>4. v \in Seq(Nat) /\ Len(v) \in Nat
        BY <1>3, <1>1, <3>2, <4>1, ElementOfSeq, WireIsOctets
      <4>5. at \in Nat
        <5>1. i = 1 \/ (i # 1 /\ i - 1 \in 1 .. n)
          BY SMT, <1>3, <3>2
        <5> QED BY <1>3, <4>1, <5>1, ElementOfSeq DEF Start
      <4>6. InStream(stream', at, v)
        <5>1. at + Len(v) <= k /\ \A j \in 1 .. Len(v) : stream[at + j] = v[j]
          BY <1>1, <4>3 DEF InStream
        <5>2. \A j \in 1 .. Len(v) : at + j \in 1 .. k
          BY SMT, <1>3, <4>4, <4>5, <5>1
        <5>3. at + Len(v) <= k + Len(w)
          BY SMT, <1>2, <1>3, <4>4, <4>5, <5>1
        <5> QED BY <1>8, <5>1, <5>2, <5>3 DEF InStream
      <4> QED BY <1>7, <3>2, <4>2, <4>3, <4>6
    <3> QED BY SMT, <1>3, <3>1, <3>2
  <2>4. ASSUME NEW i \in 1 .. n + 1, NEW j \in 1 .. n + 1, i <= j PROVE ends'[i] <= ends'[j]
    <3>1. (i \in 1 .. n /\ j \in 1 .. n) \/ (i \in 1 .. n /\ j = n + 1) \/ (i = n + 1 /\ j = n + 1)
      BY SMT, <1>3, <2>4
    <3>2. CASE i \in 1 .. n /\ j \in 1 .. n
      BY <1>1, <1>7, <2>4, <3>2 DEF TcpInv, Placed
    <3>3. CASE i \in 1 .. n /\ j = n + 1
      <4>1. ends'[i] = ends[i] /\ ends'[j] = k + Len(w) /\ ends[i] \in Nat /\ ends[i] <= k
        BY <1>7, <1>11, <3>3
      <4> QED BY SMT, <1>2, <1>3, <4>1
    <3>4. CASE i = n + 1 /\ j = n + 1
      BY SMT, <1>5, <1>7, <3>4
    <3> QED BY <3>1, <3>2, <3>3, <3>4
  <2> QED BY <1>6, <1>7, <1>8, <2>1, <2>2, <2>3, <2>4 DEF Placed
<1>13. received' \in 0 .. Len(stream')
  <2>1. received \in 0 .. k
    BY <1>1 DEF TcpInv
  <2> QED BY SMT, <1>2, <1>3, <1>4, <1>8, <2>1
<1>14. ASSUME ~torn PROVE (Handed /\ Unread /\ Settled)'
  <2>1. PICK d, a, b : d = Found /\ a = Len(frames) /\ b = Len(completeFrames)
    OBVIOUS
  <2>2. a \in Nat /\ b \in Nat /\ d = a + b /\ d <= n /\ Found' = d
    BY <1>1, <1>4, <1>14, <2>1, LenProperties DEF TcpInv, Handed, Found
  <2>3. Handed'
    <3>1. \A i \in 1 .. a : i \in 1 .. n
      BY SMT, <1>3, <2>2
    <3>2. \A i \in 1 .. b : a + i \in 1 .. n
      BY SMT, <1>3, <2>2
    <3>3. d <= n + 1
      BY SMT, <1>3, <2>2
    <3>4. /\ frames \in Seq({FrameOf(x) : x \in Messages})
          /\ completeFrames \in Seq({FrameOf(x) : x \in Messages})
          /\ \A i \in 1 .. a : frames[i] = FrameOf(sent[i])
          /\ \A i \in 1 .. b : completeFrames[i] = FrameOf(sent[a + i])
      BY <1>14, <2>1 DEF TcpInv, Handed
    <3>5. (\A i \in 1 .. a : frames[i] = FrameOf(sent'[i]))
            /\ \A i \in 1 .. b : completeFrames[i] = FrameOf(sent'[a + i])
      BY <1>6, <3>1, <3>2, <3>4
    <3> QED BY <1>4, <1>6, <2>1, <2>2, <3>3, <3>4, <3>5 DEF Handed
  <2>4. PICK p, at : p = pendingSocketData /\ at = Start(ends, d + 1)
    OBVIOUS
  <2>5. /\ p \in Seq(Nat) /\ at + Len(p) = received
        /\ \A j \in 1 .. Len(p) : p[j] = stream[at + j]
    BY <1>14, <2>1, <2>4 DEF TcpInv, Unread
  <2>6. d + 1 \in 1 .. n + 1
    BY SMT, <1>3, <2>2
  <2>7. at \in Nat
    <3>1. d + 1 = 1 \/ (d + 1 # 1 /\ (d + 1) - 1 \in 1 .. n)
      BY SMT, <1>3, <2>6
    <3> QED BY <1>3, <2>4, <3>1, ElementOfSeq DEF Start
  <2>8. received \in 0 .. k /\ Len(p) \in Nat
    BY <1>1, <2>5, LenProperties DEF TcpInv
  <2>9. Unread'
    <3>1. Start(ends', d + 1) = at
      BY <1>9, <2>4, <2>6
    <3>2. \A j \in 1 .. Len(p) : at + j \in 1 .. k
      BY SMT, <1>3, <2>5, <2>7, <2>8
    <3>3. \A j \in 1 .. Len(p) : p[j] = stream'[at + j]
      BY <1>8, <2>5, <3>2
    <3>4. pendingSocketData' = p /\ received' = received /\ Start(ends', Found' + 1) = at
      BY <1>4, <2>2, <2>4, <3>1
    <3> QED BY <2>5, <3>3, <3>4 DEF Unread
  <2>10. Settled'
    <3>1. SUFFICES ASSUME ~scanning PROVE completeFrames = <<>> /\ received < ends'[d + 1]
      BY <1>4, <2>2 DEF Settled
    <3>2. completeFrames = <<>> /\ (d < n => received < ends[d + 1])
      BY <1>1, <1>14, <2>1, <3>1 DEF TcpInv, Settled
    <3>3. CASE d < n
      <4>1. d + 1 \in 1 .. n
        BY SMT, <1>3, <2>2, <3>3
      <4> QED BY <1>7, <3>2, <3>3, <4>1
    <3>4. CASE d = n
      BY SMT, <1>2, <1>3, <1>7, <2>8, <3>2, <3>4
    <3> QED BY SMT, <1>3, <2>2, <3>3, <3>4
  <2> QED BY <2>3, <2>9, <2>10
<1> QED BY <1>4, <1>12, <1>13, <1>14 DEF TcpInv

\* The types that the steps of the client need, and where the octets it has not
\* consumed begin.
LEMMA ReaderFacts ==
  ASSUME TcpInv, ~torn
  PROVE  /\ Len(frames) \in Nat /\ Len(completeFrames) \in Nat /\ Len(sent) \in Nat
         /\ Len(stream) \in Nat /\ Len(pendingSocketData) \in Nat /\ received \in Nat
         /\ received <= Len(stream) /\ Found \in Nat /\ Found <= Len(sent)
         /\ Found = Len(frames) + Len(completeFrames) /\ Start(ends, Found + 1) \in Nat
<1>1. /\ Len(frames) \in Nat /\ Len(completeFrames) \in Nat /\ Len(sent) \in Nat
      /\ Len(stream) \in Nat /\ Len(pendingSocketData) \in Nat
  BY LenProperties DEF TcpInv, Placed, Handed, Unread
<1>2. received \in Nat /\ received <= Len(stream)
  BY SMT, <1>1 DEF TcpInv
<1>3. Found <= Len(sent) /\ ends \in Seq(Nat) /\ Len(ends) = Len(sent)
  BY DEF TcpInv, Handed, Placed
<1>4. Found \in Nat /\ Found = Len(frames) + Len(completeFrames)
  BY SMT, <1>1 DEF Found
<1>5. Found + 1 = 1 \/ (Found + 1 # 1 /\ (Found + 1) - 1 \in 1 .. Len(ends))
  BY SMT, <1>1, <1>3, <1>4
<1>6. Start(ends, Found + 1) \in Nat
  BY <1>3, <1>5, ElementOfSeq DEF Start
<1> QED BY <1>1, <1>2, <1>3, <1>4, <1>6

\* A step of the client leaves the peer's side as it is.
LEMMA PeerKept ==
  ASSUME TcpInv, UNCHANGED <<sent, stream, ends>>
  PROVE  Placed'
BY DEF TcpInv, Placed, Start, InStream

LEMMA ReceiveKeeps ==
  ASSUME \A m \in Messages : WellFormed(m), TcpInv, NEW n, Receive(n)
  PROVE  TcpInv'
<1>1. Placed'
  BY PeerKept DEF Receive
<1>2. /\ received' = n /\ n \in received + 1 .. Len(stream) /\ scanning' = TRUE
      /\ pendingSocketData' = pendingSocketData \o SubSeq(stream, received + 1, n)
      /\ sent' = sent /\ stream' = stream /\ ends' = ends /\ completeFrames' = completeFrames
      /\ frames' = frames /\ torn' = torn
  BY DEF Receive
<1>3. received \in 0 .. Len(stream) /\ stream \in Seq(Nat) /\ Len(stream) \in Nat
  BY LenProperties DEF TcpInv, Placed
<1>4. received' \in 0 .. Len(stream')
  BY SMT, <1>2, <1>3
<1>5. ASSUME ~torn PROVE (Handed /\ Unread /\ Settled)'
  <2>1. Handed' /\ Found' = Found
    BY <1>2, <1>5 DEF TcpInv, Handed, Found
  <2>2. Settled'
    BY <1>2 DEF Settled
  <2>3. PICK p, q, at, r : /\ p = pendingSocketData /\ q = SubSeq(stream, r + 1, n)
                           /\ at = Start(ends, Found + 1) /\ r = received
    OBVIOUS
  <2>4. /\ p \in Seq(Nat) /\ at + Len(p) = r
        /\ \A j \in 1 .. Len(p) : p[j] = stream[at + j]
    BY <1>5, <2>3 DEF TcpInv, Unread
  <2>5. at \in Nat /\ Len(p) \in Nat /\ r \in Nat
    BY <1>5, <2>3, ReaderFacts
  <2>6. n \in Nat /\ r + 1 \in 1 .. Len(stream) + 1 /\ r + 1 \in Nat /\ r < n /\ n <= Len(stream)
    BY SMT, <1>2, <1>3, <2>3, <2>5
  <2>7. q \in Seq(Nat) /\ Len(q) = n - r /\ \A i \in 1 .. n - r : q[i] = stream[r + i]
    <3>1. r + 1 \in 1 .. Len(stream) + 1 /\ n \in 0 .. Len(stream)
      BY SMT, <1>3, <2>6
    <3>2. /\ q \in Seq(Nat)
          /\ Len(q) = IF r + 1 <= n THEN n - (r + 1) + 1 ELSE 0
          /\ \A i \in 1 .. n - (r + 1) + 1 : q[i] = stream[(r + 1) + i - 1]
      BY SMTT(60), <1>3, <2>3, <3>1, SubSeqProperties
    <3>3. r + 1 <= n /\ n - (r + 1) + 1 = n - r /\ \A i \in 1 .. n - r : (r + 1) + i - 1 = r + i
      BY SMT, <2>5, <2>6
    <3> QED BY <3>2, <3>3
  <2>8. PICK s : s = p \o q
    OBVIOUS
  <2>9. /\ s \in Seq(Nat) /\ Len(s) = Len(p) + Len(q)
        /\ \A i \in 1 .. Len(p) + Len(q) : s[i] = IF i <= Len(p) THEN p[i] ELSE q[i - Len(p)]
    <3>1. p \in Seq(Nat) /\ q \in Seq(Nat)
      BY <2>4, <2>7
    <3> QED BY <2>8, <3>1, ConcatProperties
  <2>10. at + Len(s) = n
    <3>1. PICK x, y : x = Len(p) /\ y = Len(s)
      OBVIOUS
    <3>2. x \in Nat /\ at + x = r /\ y = x + (n - r)
      BY <2>4, <2>5, <2>7, <2>9, <3>1
    <3>3. at + y = n
      BY SMT, <2>5, <2>6, <3>2
    <3> QED BY <3>1, <3>3
  <2>11. ASSUME NEW j \in 1 .. Len(s) PROVE s[j] = stream[at + j]
    <3>1. CASE j <= Len(p)
      <4>1. j \in 1 .. Len(p)
        BY SMT, <2>5, <2>6, <2>7, <2>9, <2>11, <3>1
      <4> QED BY <2>4, <2>9, <2>11, <3>1, <4>1
    <3>2. CASE ~(j <= Len(p))
      <4>1. j - Len(p) \in 1 .. n - r /\ r + (j - Len(p)) = at + j
        <5>1. PICK x : x = Len(p)
          OBVIOUS
        <5>2. j \in 1 .. x + (n - r) /\ ~(j <= x) /\ x \in Nat /\ at + x = r
          BY <2>4, <2>5, <2>7, <2>9, <2>11, <3>2, <5>1
        <5>3. j - x \in 1 .. n - r /\ r + (j - x) = at + j
          BY SMT, <2>5, <2>6, <5>2
        <5> QED BY <5>1, <5>3
      <4> QED BY <2>7, <2>9, <2>11, <3>2, <4>1
    <3> QED BY <3>1, <3>2
  <2>12. pendingSocketData' = s
    BY <1>2, <2>3, <2>8
  <2>13. Unread'
    BY <1>2, <2>1, <2>3, <2>9, <2>10, <2>11, <2>12 DEF Unread
  <2> QED BY <2>1, <2>2, <2>13
<1> QED BY <1>1, <1>2, <1>4, <1>5 DEF TcpInv

LEMMA ConsumeKeeps ==
  ASSUME \A m \in Messages : WellFormed(m), TcpInv, Consume
  PROVE  TcpInv'
<1>1. /\ scanning /\ NextFrame(pendingSocketData).is = "frame" /\ scanning' = scanning
      /\ pendingSocketData' = NextFrame(pendingSocketData).rest
      /\ completeFrames' = Append(completeFrames, NextFrame(pendingSocketData).frame)
      /\ sent' = sent /\ stream' = stream /\ ends' = ends /\ received' = received
      /\ frames' = frames /\ torn' = torn
  BY DEF Consume, Turn
<1>2. Placed'
  BY <1>1, PeerKept
<1>3. ASSUME ~torn PROVE (Handed /\ Unread /\ Settled)'
  <2>1. PICK d, p, a, b, c, m, w, at :
          /\ d = Found /\ p = pendingSocketData /\ a = Len(frames) /\ b = Len(completeFrames)
          /\ c = completeFrames /\ m = sent[d + 1] /\ w = Wire(m) /\ at = Start(ends, d + 1)
    OBVIOUS
  <2>2. /\ d < Len(sent) /\ m \in Messages /\ ends[d + 1] <= received
        /\ Len(w) \in Nat /\ Len(w) <= Len(p)
        /\ NextFrame(p) = [is |-> "frame", frame |-> FrameOf(m), rest |-> SubSeq(p, Len(w) + 1, Len(p))]
    <3>1. NextFrame(p) # NoFrame("wait", p)
      BY <1>1, <2>1 DEF NoFrame
    <3> QED BY <1>3, <2>1, <3>1, NextTurn
  <2>3. /\ d \in Nat /\ a \in Nat /\ b \in Nat /\ d = a + b /\ Len(sent) \in Nat /\ Len(p) \in Nat
        /\ at \in Nat /\ received \in Nat
    BY <1>3, <2>1, ReaderFacts
  <2>4. completeFrames' = Append(c, FrameOf(m)) /\ pendingSocketData' = SubSeq(p, Len(w) + 1, Len(p))
    BY <1>1, <2>1, <2>2
  <2>5. PICK F : F = {FrameOf(x) : x \in Messages}
    OBVIOUS
  <2>6. /\ frames \in Seq(F) /\ c \in Seq(F)
        /\ \A i \in 1 .. a : frames[i] = FrameOf(sent[i])
        /\ \A i \in 1 .. b : c[i] = FrameOf(sent[a + i])
    BY <1>3, <2>1, <2>5 DEF TcpInv, Handed
  <2>7. FrameOf(m) \in F
    BY <2>2, <2>5
  <2>8. /\ completeFrames' \in Seq(F) /\ Len(completeFrames') = b + 1
        /\ completeFrames'[b + 1] = FrameOf(m) /\ \A i \in 1 .. b : completeFrames'[i] = c[i]
    BY <2>1, <2>4, <2>6, <2>7, AppendProperties
  <2>9. Found' = d + 1
    <3>1. Found' = a + (b + 1)
      BY <1>1, <2>1, <2>8 DEF Found
    <3> QED BY SMT, <2>3, <3>1
  <2>10. Handed'
    <3>1. d + 1 <= Len(sent)
      BY SMT, <2>2, <2>3
    <3>2. ASSUME NEW i \in 1 .. b + 1 PROVE completeFrames'[i] = FrameOf(sent[a + i])
      <4>1. i \in 1 .. b \/ i = b + 1
        BY SMT, <2>3
      <4>2. a + (b + 1) = d + 1
        BY SMT, <2>3
      <4> QED BY <2>1, <2>6, <2>8, <4>1, <4>2
    <3> QED BY <1>1, <2>1, <2>5, <2>6, <2>8, <2>9, <3>1, <3>2 DEF Handed
  <2>11. /\ p \in Seq(Nat) /\ at + Len(p) = received
         /\ \A j \in 1 .. Len(p) : p[j] = stream[at + j]
    BY <1>3, <2>1 DEF TcpInv, Unread
  <2>12. Start(ends, (d + 1) + 1) = at + Len(w)
    <3>1. (d + 1) + 1 # 1 /\ ((d + 1) + 1) - 1 = d + 1 /\ d + 1 \in 1 .. Len(sent)
      BY SMT, <2>2, <2>3
    <3>2. ends[d + 1] = at + Len(w)
      BY <2>1, <3>1 DEF TcpInv, Placed
    <3> QED BY <3>1, <3>2 DEF Start
  <2>13. PICK k, n, s : k = Len(w) /\ n = Len(p) /\ s = SubSeq(p, k + 1, n)
    OBVIOUS
  <2>14. k \in Nat /\ n \in Nat /\ k <= n /\ k + 1 \in 1 .. n + 1 /\ n \in 0 .. n
    BY SMT, <2>2, <2>3, <2>13
  <2>15. s \in Seq(Nat) /\ Len(s) = n - k /\ \A i \in 1 .. n - k : s[i] = p[k + i]
    <3>1. /\ s \in Seq(Nat)
          /\ Len(s) = IF k + 1 <= n THEN n - (k + 1) + 1 ELSE 0
          /\ \A i \in 1 .. n - (k + 1) + 1 : s[i] = p[(k + 1) + i - 1]
      BY SMTT(60), <2>11, <2>13, <2>14, SubSeqProperties
    <3>2. /\ n - (k + 1) + 1 = n - k /\ (~(k + 1 <= n) => n - k = 0)
          /\ \A i \in 1 .. n - k : (k + 1) + i - 1 = k + i
      BY SMT, <2>14
    <3> QED BY <3>1, <3>2
  <2>16. (at + k) + Len(s) = received
    <3>1. at + n = received /\ Len(s) = n - k
      BY <2>11, <2>13, <2>15
    <3> QED BY SMT, <2>3, <2>14, <3>1
  <2>17. ASSUME NEW j \in 1 .. Len(s) PROVE s[j] = stream[(at + k) + j]
    <3>1. j \in 1 .. n - k /\ k + j \in 1 .. n /\ at + (k + j) = (at + k) + j
      BY SMT, <2>3, <2>14, <2>15
    <3> QED BY <2>11, <2>13, <2>15, <3>1
  <2>18. Unread'
    BY <1>1, <2>4, <2>9, <2>12, <2>13, <2>15, <2>16, <2>17 DEF Unread
  <2>19. Settled'
    BY <1>1 DEF Settled
  <2> QED BY <2>10, <2>18, <2>19
<1> QED BY <1>1, <1>2, <1>3 DEF TcpInv

LEMMA ReturnKeeps ==
  ASSUME \A m \in Messages : WellFormed(m), TcpInv, Return
  PROVE  TcpInv'
<1>1. /\ NextFrame(pendingSocketData).is = "wait"
      /\ pendingSocketData' = NextFrame(pendingSocketData).rest
      /\ frames' = frames \o completeFrames /\ completeFrames' = <<>>
      /\ sent' = sent /\ stream' = stream /\ ends' = ends /\ received' = received /\ torn' = torn
  BY DEF Return, Turn
<1>2. Placed'
  BY <1>1, PeerKept
<1>3. ASSUME ~torn PROVE (Handed /\ Unread /\ Settled)'
  <2>1. /\ NextFrame(pendingSocketData) = NoFrame("wait", pendingSocketData)
        /\ Found < Len(sent) => received < ends[Found + 1]
    <3>1. \A f, r : [is |-> "frame", frame |-> f, rest |-> r].is # "wait"
      OBVIOUS
    <3> QED BY <1>1, <1>3, <3>1, NextTurn
  <2>2. pendingSocketData' = pendingSocketData
    BY <1>1, <2>1 DEF NoFrame
  <2>3. PICK a, b, c, F : /\ a = Len(frames) /\ b = Len(completeFrames) /\ c = completeFrames
                          /\ F = {FrameOf(x) : x \in Messages}
    OBVIOUS
  <2>4. a \in Nat /\ b \in Nat /\ Found = a + b /\ Found <= Len(sent) /\ Found \in Nat
    BY <1>3, <2>3, ReaderFacts
  <2>5. /\ frames \in Seq(F) /\ c \in Seq(F)
        /\ \A i \in 1 .. a : frames[i] = FrameOf(sent[i])
        /\ \A i \in 1 .. b : c[i] = FrameOf(sent[a + i])
    BY <1>3, <2>3 DEF TcpInv, Handed
  <2>6. /\ frames' \in Seq(F) /\ Len(frames') = a + b
        /\ \A i \in 1 .. a + b : frames'[i] = IF i <= a THEN frames[i] ELSE c[i - a]
    BY <1>1, <2>3, <2>5, ConcatProperties
  <2>7. Len(completeFrames') = 0 /\ completeFrames' \in Seq(F)
    BY <1>1, EmptySeq
  <2>8. Found' = Found
    <3>1. Found' = (a + b) + 0
      BY <2>6, <2>7 DEF Found
    <3> QED BY SMT, <2>4, <3>1
  <2>9. ASSUME NEW i \in 1 .. a + b PROVE frames'[i] = FrameOf(sent[i])
    <3>1. (i <= a /\ i \in 1 .. a) \/ (~(i <= a) /\ i - a \in 1 .. b /\ a + (i - a) = i)
      BY SMT, <2>4
    <3> QED BY <2>5, <2>6, <3>1
  <2>10. Handed'
    <3>1. \A i : i \notin 1 .. 0
      BY SMT
    <3> QED BY <1>1, <2>3, <2>4, <2>6, <2>7, <2>8, <2>9, <3>1 DEF Handed
  <2>11. Unread'
    BY <1>1, <1>3, <2>2, <2>8 DEF TcpInv, Unread
  <2>12. Settled'
    BY <1>1, <2>1, <2>8 DEF Settled
  <2> QED BY <2>10, <2>11, <2>12
<1> QED BY <1>1, <1>2, <1>3 DEF TcpInv

\* Nothing is discarded or thrown before a connection was torn.
LEMMA OnlyWhenTorn ==
  ASSUME \A m \in Messages : WellFormed(m), TcpInv,
         NextFrame(pendingSocketData).is \notin {"frame", "wait"}
  PROVE  torn
<1>1. SUFFICES ASSUME ~torn PROVE FALSE
  BY DEF TcpInv
<1>2. \/ \E f, r : NextFrame(pendingSocketData) = [is |-> "frame", frame |-> f, rest |-> r]
      \/ NextFrame(pendingSocketData) = NoFrame("wait", pendingSocketData)
  BY <1>1, NextTurn
<1>3. NextFrame(pendingSocketData).is \in {"frame", "wait"}
  BY <1>2 DEF NoFrame
<1> QED BY <1>3

LEMMA ReconnectKeeps ==
  ASSUME TcpInv, Reconnect
  PROVE  TcpInv'
<1>1. /\ sent' = <<>> /\ stream' = <<>> /\ ends' = <<>> /\ received' = 0 /\ frames' = <<>>
      /\ torn' = (torn \/ pendingSocketData # <<>>) /\ ~scanning /\ scanning' = scanning
      /\ pendingSocketData' = pendingSocketData /\ completeFrames' = completeFrames
  BY DEF Reconnect
<1>2. \A S : <<>> \in Seq(S) /\ Len(<<>>) = 0
  BY EmptySeq
<1>3. Start(<<>>, 1) = 0 /\ 0 + 1 = 1 /\ (\A i : i \notin 1 .. 0) /\ 0 \in 0 .. 0
  BY SMT DEF Start
<1>4. Placed'
  BY <1>1, <1>2, <1>3 DEF Placed
<1>5. ASSUME ~torn' PROVE (Handed /\ Unread /\ Settled)'
  <2>1. ~torn /\ pendingSocketData = <<>>
    BY <1>1, <1>5 DEF TcpInv
  <2>2. completeFrames = <<>>
    BY <1>1, <2>1 DEF TcpInv, Settled
  <2>3. Found' = 0
    <3>1. Found' = 0 + 0
      BY <1>1, <1>2, <2>2 DEF Found
    <3> QED BY SMT, <3>1
  <2>4. Handed'
    BY SMT, <1>1, <1>2, <1>3, <2>2, <2>3 DEF Handed
  <2>5. Unread'
    BY SMT, <1>1, <1>2, <1>3, <2>1, <2>3 DEF Unread
  <2>6. Settled'
    BY SMT, <1>1, <1>2, <2>2, <2>3 DEF Settled
  <2> QED BY <2>4, <2>5, <2>6
<1>6. torn' \in BOOLEAN /\ received' \in 0 .. Len(stream')
  BY <1>1, <1>2, <1>3 DEF TcpInv
<1> QED BY <1>4, <1>5, <1>6 DEF TcpInv

LEMMA TcpInitHolds ==
  ASSUME TcpInit
  PROVE  TcpInv
<1>1. \A S : <<>> \in Seq(S) /\ Len(<<>>) = 0
  BY EmptySeq
<1>2. Start(<<>>, 1) = 0 /\ 0 + 1 = 1 /\ (\A i : i \notin 1 .. 0) /\ 0 \in 0 .. 0
  BY SMT DEF Start
<1>3. Placed
  BY <1>1, <1>2 DEF Placed, TcpInit
<1>4. Found = 0
  <2>1. Found = 0 + 0
    BY <1>1 DEF Found, TcpInit
  <2> QED BY SMT, <2>1
<1>5. Handed
  BY SMT, <1>1, <1>2, <1>4 DEF Handed, TcpInit
<1>6. Unread
  BY SMT, <1>1, <1>2, <1>4 DEF Unread, TcpInit
<1>7. Settled
  BY SMT, <1>1, <1>4 DEF Settled, TcpInit
<1>8. torn \in BOOLEAN /\ received \in 0 .. Len(stream)
  BY <1>1, <1>2 DEF TcpInit
<1> QED BY <1>3, <1>5, <1>6, <1>7, <1>8 DEF TcpInv

LEMMA TcpInvInductive ==
  ASSUME \A m \in Messages : WellFormed(m)
  PROVE  TcpInv /\ [TcpNext]_tcpVars => TcpInv'
<1> SUFFICES ASSUME TcpInv, [TcpNext]_tcpVars PROVE TcpInv'
  OBVIOUS
<1>1. CASE \E m \in Messages : Write(m)
  BY <1>1, WriteKeeps
<1>2. CASE \E n \in 1 .. Len(stream) : Receive(n)
  BY <1>2, ReceiveKeeps
<1>3. CASE Consume
  BY <1>3, ConsumeKeeps
<1>4. CASE Return
  BY <1>4, ReturnKeeps
<1>5. ASSUME NEW is \in {"discard", "throw"}, Turn(is) PROVE TcpInv'
  <2>1. NextFrame(pendingSocketData).is = is /\ UNCHANGED <<sent, stream, ends, received, torn>>
    BY <1>5 DEF Turn
  <2>2. torn
    BY <1>5, <2>1, OnlyWhenTorn
  <2>3. Placed'
    BY <2>1, PeerKept
  <2> QED BY <2>1, <2>2, <2>3 DEF TcpInv
<1>6. CASE Discard
  BY <1>5, <1>6 DEF Discard
<1>7. CASE Throw
  BY <1>5, <1>7 DEF Throw
<1>8. CASE Reconnect
  BY <1>8, ReconnectKeeps
<1>9. CASE UNCHANGED tcpVars
  BY <1>9 DEF tcpVars, TcpInv, Placed, Handed, Unread, Settled, Found, Start, InStream
<1> QED BY <1>1, <1>2, <1>3, <1>4, <1>6, <1>7, <1>8, <1>9 DEF TcpNext

LEMMA TcpInvHolds ==
  ASSUME \A m \in Messages : WellFormed(m)
  PROVE  TcpSpec => []TcpInv
<1>1. TcpInit => TcpInv
  BY TcpInitHolds
<1>2. TcpInv /\ [TcpNext]_tcpVars => TcpInv'
  BY TcpInvInductive
<1> QED BY <1>1, <1>2, PTL DEF TcpSpec

LEMMA TransparentWhenIdle ==
  ASSUME TcpInv
  PROVE  FramingTransparent
<1>1. SUFFICES ASSUME ~torn, ~scanning
      PROVE frames = [i \in {i \in DOMAIN sent : ends[i] <= received} |-> FrameOf(sent[i])]
  BY DEF FramingTransparent
<1>2. PICK d, n, r : d = Found /\ n = Len(sent) /\ r = received
  OBVIOUS
<1>3. completeFrames = <<>> /\ (d < n => r < ends[d + 1])
  BY <1>1, <1>2 DEF TcpInv, Settled
<1>4. /\ d \in Nat /\ n \in Nat /\ d <= n /\ d = Len(frames) + Len(completeFrames) /\ Len(frames) \in Nat
      /\ Start(ends, d + 1) \in Nat /\ Len(pendingSocketData) \in Nat /\ r \in Nat
  BY <1>1, <1>2, ReaderFacts
<1>5. Len(frames) = d
  <2>1. d = Len(frames) + 0
    BY <1>3, <1>4, EmptySeq
  <2> QED BY SMT, <1>4, <2>1
<1>6. Start(ends, d + 1) <= r
  <2>1. Start(ends, d + 1) + Len(pendingSocketData) = r
    BY <1>1, <1>2 DEF TcpInv, Unread
  <2> QED BY SMT, <1>4, <2>1
<1>7. /\ sent \in Seq(Messages) /\ ends \in Seq(Nat) /\ Len(ends) = n
      /\ \A i, j \in 1 .. n : i <= j => ends[i] <= ends[j]
  BY <1>2 DEF TcpInv, Placed
<1>8. ASSUME NEW i \in 1 .. n PROVE (ends[i] <= r) <=> i \in 1 .. d
  <2>1. ends[i] \in Nat
    BY <1>7, ElementOfSeq
  <2>2. CASE i \in 1 .. d
    <3>1. d + 1 # 1 /\ (d + 1) - 1 = d /\ d \in 1 .. n /\ i <= d
      BY SMT, <1>4, <2>2
    <3>2. Start(ends, d + 1) = ends[d] /\ ends[i] <= ends[d] /\ ends[d] \in Nat
      BY <1>7, <3>1, ElementOfSeq DEF Start
    <3> QED BY SMT, <1>4, <1>6, <2>1, <2>2, <3>2
  <2>3. CASE i \notin 1 .. d
    <3>1. d + 1 \in 1 .. n /\ d + 1 <= i /\ d < n
      BY SMT, <1>4, <2>3
    <3>2. ends[d + 1] <= ends[i] /\ ends[d + 1] \in Nat /\ r < ends[d + 1]
      BY <1>3, <1>7, <3>1, ElementOfSeq
    <3> QED BY SMT, <1>4, <2>1, <2>3, <3>2
  <2> QED BY <2>2, <2>3
<1>9. {i \in DOMAIN sent : ends[i] <= r} = 1 .. d
  <2>1. DOMAIN sent = 1 .. n
    BY <1>2, <1>7, LenProperties
  <2>2. \A i \in 1 .. d : i \in 1 .. n
    BY SMT, <1>4
  <2> QED BY <1>8, <2>1, <2>2
<1>10. frames = [i \in 1 .. d |-> frames[i]]
  <2>1. frames \in Seq({FrameOf(m) : m \in Messages})
    BY <1>1 DEF TcpInv, Handed
  <2> QED BY <1>5, <2>1, LenProperties
<1>11. \A i \in 1 .. d : frames[i] = FrameOf(sent[i])
  BY <1>1, <1>5 DEF TcpInv, Handed
<1> QED BY <1>2, <1>9, <1>10, <1>11

\* FramingTransparent, for any messages that handleFraming can find in a stream, any
\* number of them, any cuts that TCP makes and any number of connections: the node
\* client hands on exactly the messages that have arrived completely (handleFraming,
\* TSASN1NodeClient.ts:389-425).
THEOREM FramesAreMessages ==
  ASSUME \A m \in Messages : WellFormed(m)
  PROVE  TcpSpec => []FramingTransparent
<1>1. TcpInv => FramingTransparent
  BY TransparentWhenIdle
<1> QED BY <1>1, TcpInvHolds, PTL

\* CleanStream: until a connection is torn, the branch that handleFraming's comment
\* says is never reached on a clean stream is not, no header is without a number and
\* parseBerLength does not throw (TSASN1NodeClient.ts:416-421, 446-478, 566-570).
THEOREM CleanStreamHolds ==
  ASSUME \A m \in Messages : WellFormed(m)
  PROVE  TcpSpec => []CleanStream
<1>1. TcpInv => CleanStream
  <2>1. \A f, r : [is |-> "frame", frame |-> f, rest |-> r].is = "frame"
    OBVIOUS
  <2> QED BY <2>1, NextTurn DEF CleanStream
<1> QED BY <1>1, TcpInvHolds, PTL
=============================================================================
