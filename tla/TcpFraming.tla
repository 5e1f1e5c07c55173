----------------------------- MODULE TcpFraming -----------------------------
(* The frames of a TCP connection: the JSON length header a sender puts in       *)
(* front of a message, and the TypeScript node client's handleFraming, which     *)
(* cuts the received octets into frames.  The peer writes messages, TCP hands on *)
(* any number of octets at a time, and each turn of handleFraming's loop is a    *)
(* step, during which nothing else of the client runs.                           *)
EXTENDS BerLength, SequencesExt

CONSTANTS
  Messages,    \* what a peer may send
  MaxWrites    \* the number of messages it sends

VARIABLES
  sent,               \* the messages written to this connection
  stream,             \* their octets
  ends,               \* where each of them ends in the stream
  received,           \* the number of octets that TCP has handed on
  pendingSocketData,  \* the octets handleFraming has not consumed
  completeFrames,     \* the frames of the current call of handleFraming
  scanning,           \* handleFraming is in its loop
  frames,             \* what onSocketMessage got from this connection
  torn,               \* a connection was lost in the middle of a frame
  writes              \* the number of messages written to all connections

tcpVars == <<sent, stream, ends, received, pendingSocketData, completeFrames, scanning,
             frames, torn, writes>>

FRAME_START_JSON == 74
RoseTags == 161 .. 164
JSON_HEADER_SIZE == 8
IsDigit(b) == b \in 48 .. 57

\* The longest JSON text that GetJsonLengthPrefix takes.
MaxJsonLength == 9999999

\* The longest BER message: the length reader shifts 32 bit signed numbers.
MaxBerLength == 2147483647

\* A number in exactly seven decimal digits.
Digit(n, unit) == 48 + ((n \div unit) % 10)
SevenDigits(n) ==
  <<Digit(n, 1000000), Digit(n, 100000), Digit(n, 10000), Digit(n, 1000),
    Digit(n, 100), Digit(n, 10), Digit(n, 1)>>

GetJsonLengthPrefix(n) == <<FRAME_START_JSON>> \o SevenDigits(n)

\* A character is the octets of its UTF-8 form and its number of UTF-16 units.
Utf8(chars) == FlattenSeq([i \in DOMAIN chars |-> chars[i].utf8])
Utf16Length(chars) == FoldLeft(LAMBDA n, c : n + c.units, 0, chars)

\* The C++ peer counts the octets of the JSON text.
SendJsonCpp(octets) == GetJsonLengthPrefix(Len(octets)) \o octets

\* The node client counts what `data.length` counts, and writes UTF-8.
SendJsonTs(chars) == GetJsonLengthPrefix(Utf16Length(chars)) \o Utf8(chars)

\* A BER message carries its own length.
SendBer(tag, contents) == <<tag>> \o BEncDefLen(Len(contents)) \o contents

\* A message as its sender writes it, and the frame its receiver must get: the
\* JSON text without its header, the whole BER message.
Wire(m) ==
  CASE m.as = "cpp json" -> SendJsonCpp(m.octets)
    [] m.as = "ts json" -> SendJsonTs(m.chars)
    [] m.as = "ber" -> SendBer(m.tag, m.octets)

FrameOf(m) == CASE m.as = "cpp json" -> m.octets
                [] m.as = "ts json" -> Utf8(m.chars)
                [] m.as = "ber" -> Wire(m)

-----------------------------------------------------------------------------
(* One turn of handleFraming's loop *)

\* parseInt of the header's seven characters: the digits before the first other
\* character.
ParseInt(octets) ==
  LET ends7 == {k \in 0 .. 7 : \A i \in 1 .. k : IsDigit(octets[i])}
      n == CHOOSE k \in ends7 : \A j \in ends7 : j <= k
      Then(v, i) == IF i <= n THEN 10 * v + octets[i] - 48 ELSE v
  IN [nan |-> n = 0,
      value |-> Then(Then(Then(Then(Then(Then(Then(0, 1), 2), 3), 4), 5), 6), 7)]

\* One attempt at a frame: the frame when it is complete, and what is left.
Frame(p, from, total) ==
  [is |-> "frame", frame |-> SubSeq(p, from, total), rest |-> SubSeq(p, total + 1, Len(p))]
NoFrame(is, rest) == [is |-> is, frame |-> <<>>, rest |-> rest]

\* A header without a number costs its first octet, and ends this read's scan.
tryConsumeJsonFrame(p) ==
  IF Len(p) < JSON_HEADER_SIZE THEN NoFrame("wait", p)
  ELSE LET length == ParseInt(SubSeq(p, 2, JSON_HEADER_SIZE))
           total == JSON_HEADER_SIZE + length.value
       IN IF length.nan THEN NoFrame("wait", Tail(p))
          ELSE IF Len(p) < total THEN NoFrame("wait", p)
          ELSE Frame(p, JSON_HEADER_SIZE + 1, total)

tryConsumeBerFrame(p) ==
  IF Len(p) < 2 THEN NoFrame("wait", p)
  ELSE LET length == parseBerLength(Tail(p))
           total == 1 + length.used + length.len
       IN IF length.is # "len" THEN NoFrame(length.is, p)
          ELSE IF Len(p) < total THEN NoFrame("wait", p)
          ELSE Frame(p, 1, total)

\* What the first octet asks for; one that starts no frame is discarded.
NextFrame(p) ==
  IF p = <<>> THEN NoFrame("wait", p)
  ELSE IF p[1] = FRAME_START_JSON THEN tryConsumeJsonFrame(p)
  ELSE IF p[1] \in RoseTags THEN tryConsumeBerFrame(p)
  ELSE NoFrame("discard", Tail(p))

-----------------------------------------------------------------------------
(* The connection *)

TcpInit ==
  /\ sent = <<>> /\ stream = <<>> /\ ends = <<>> /\ received = 0
  /\ pendingSocketData = <<>> /\ completeFrames = <<>> /\ scanning = FALSE
  /\ frames = <<>> /\ torn = FALSE /\ writes = 0

\* The peer writes a message.
Write(m) ==
  /\ writes < MaxWrites /\ writes' = writes + 1
  /\ sent' = Append(sent, m)
  /\ stream' = stream \o Wire(m)
  /\ ends' = Append(ends, Len(stream) + Len(Wire(m)))
  /\ UNCHANGED <<received, pendingSocketData, completeFrames, scanning, frames, torn>>

\* Mutant: a read drops what the reads before it left.
ReceiveFresh(n) ==
  /\ ~scanning /\ scanning' = TRUE
  /\ n \in received + 1 .. Len(stream) /\ received' = n
  /\ pendingSocketData' = SubSeq(stream, received + 1, n)
  /\ UNCHANGED <<sent, stream, ends, completeFrames, frames, torn, writes>>

\* TCP hands on the octets up to the nth to onmessage, which calls handleFraming.
Receive(n) ==
  /\ ~scanning /\ scanning' = TRUE
  /\ n \in received + 1 .. Len(stream) /\ received' = n
  /\ pendingSocketData' = pendingSocketData \o SubSeq(stream, received + 1, n)
  /\ UNCHANGED <<sent, stream, ends, completeFrames, frames, torn, writes>>

\* The next turn of the loop has the given outcome.
Turn(is) ==
  /\ scanning /\ NextFrame(pendingSocketData).is = is
  /\ pendingSocketData' = NextFrame(pendingSocketData).rest
  /\ UNCHANGED <<sent, stream, ends, received, torn, writes>>

Consume ==
  /\ Turn("frame")
  /\ completeFrames' = Append(completeFrames, NextFrame(pendingSocketData).frame)
  /\ UNCHANGED <<scanning, frames>>

Discard == Turn("discard") /\ UNCHANGED <<completeFrames, scanning, frames>>

\* handleFraming returns, and onmessage hands its frames on one after the other.
Return ==
  /\ Turn("wait")
  /\ frames' = frames \o completeFrames /\ completeFrames' = <<>> /\ scanning' = FALSE

\* What parseBerLength throws leaves handleFraming: its frames are lost.
Throw == Turn("throw") /\ completeFrames' = <<>> /\ scanning' = FALSE /\ UNCHANGED frames

\* The connection is lost, and getConnectionSocket makes the next one.  The octets
\* of an unfinished frame stay in pendingSocketData.
Reconnect ==
  /\ ~scanning
  /\ sent' = <<>> /\ stream' = <<>> /\ ends' = <<>> /\ received' = 0 /\ frames' = <<>>
  /\ torn' = (torn \/ pendingSocketData # <<>>)
  /\ UNCHANGED <<pendingSocketData, completeFrames, scanning, writes>>

TcpNext ==
  \/ \E m \in Messages : Write(m)
  \/ \E n \in 1 .. Len(stream) : Receive(n)
  \/ Consume
  \/ Discard
  \/ Return
  \/ Throw
  \/ Reconnect

TcpSpec == TcpInit /\ [][TcpNext]_tcpVars

-----------------------------------------------------------------------------
(* What the receiver must be able to rely on *)

\* However TCP cuts the stream, after every read exactly the messages that have arrived
\* completely have been handed on, each once, whole and in order, unless a connection
\* was lost in the middle of a frame before: handleFraming never resets its octets.
FramingTransparent ==
  ~torn /\ ~scanning =>
    frames = [i \in {i \in DOMAIN sent : ends[i] <= received} |-> FrameOf(sent[i])]

\* "On a clean TCP stream this branch should never be reached": the loop discards no
\* octet, of an unknown frame or of a header without a number, and throws nothing
\* (TSASN1NodeClient.ts:418, 446, 568).
CleanStream ==
  ~torn /\ scanning =>
    \/ NextFrame(pendingSocketData).is = "frame"
    \/ NextFrame(pendingSocketData) = NoFrame("wait", pendingSocketData)

\* A message that handleFraming can find in a stream: a JSON text that
\* GetJsonLengthPrefix takes and whose header counts its octets, or a BER message
\* with the tag of a ROSE message.
WellFormed(m) ==
  \/ m.as = "cpp json" /\ m.octets \in Seq(Nat) /\ Len(m.octets) <= MaxJsonLength
  \/ /\ m.as = "ts json" /\ Utf8(m.chars) \in Seq(Nat) /\ Len(Utf8(m.chars)) <= MaxJsonLength
     /\ Utf16Length(m.chars) = Len(Utf8(m.chars))
  \/ m.as = "ber" /\ m.tag \in RoseTags /\ m.octets \in Seq(Nat) /\ Len(m.octets) <= MaxBerLength
=============================================================================
