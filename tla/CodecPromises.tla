--------------------------- MODULE CodecPromises ---------------------------
(* What the codecs of lengths and integers promise of one input. *)
EXTENDS BerLength, AsnIntCodec

VARIABLE job       \* the input under test, if any

\* Every reader of a BER length takes the length and the octets BEncDefLen wrote, and
\* never takes one from a beginning of them; BEncDefLen and BEncDefLen2 differ just
\* below 2^24 and nowhere else.
LengthsReadBack ==
  job.of = "length" =>
    LengthReads(job.len, <<0, 255>>) /\ PrefixWaits(job.len) /\ EncodersAgree(job.len)

\* AsnInt of the C++ library reads back what either library wrote, and unsigned
\* integers with their top bit set survive in both libraries.
IntegersReadBack ==
  /\ job.of = "int" => IntReadsBack(job.value)
  /\ job.of = "unsigned" => UnsignedReadsBack(job.word)
=============================================================================
