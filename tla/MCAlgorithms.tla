---------------------------- MODULE MCAlgorithms ----------------------------
(* The sequential parts, each over its own inputs: a step takes one input of    *)
(* one algorithm, is one of a TCP connection, or changes what a session may     *)
(* send.                                                                        *)
EXTENDS TcpFraming, CodecPromises, TypeOrder, SequenceCodec, SessionPolicy

Idle == [of |-> "nothing"]

-----------------------------------------------------------------------------
(* Framing: messages whose contents hold the octets that start a frame, one of  *)
(* them long enough for the long form of a BER length.                          *)
Char(octets, units) == [utf8 |-> octets, units |-> units]
\* The node client takes the length of a text in UTF-16 units, which is right for ASCII.
AsciiChars == {Char(<<74>>, 1), Char(<<48>>, 1)}

CppJson(octets) == [as |-> "cpp json", octets |-> octets]
TsJson(chars) == [as |-> "ts json", chars |-> chars]
Ber(tag, octets) == [as |-> "ber", tag |-> tag, octets |-> octets]

LongBer == Ber(163, [i \in 1 .. 130 |-> IF i % 2 = 0 THEN 74 ELSE 161])
ShortMessages ==
  {CppJson(<<74, 48>>), CppJson(<<195, 164, 161>>), Ber(161, <<>>), Ber(164, <<162, 5, 74>>)}
    \cup {TsJson(<<c, d>>) : c, d \in AsciiChars}

MCMessages == ShortMessages \cup {LongBer}

\* These messages are the ones that the theorems about framing assume.
ASSUME FramesFindable == \A m \in MCMessages : WellFormed(m)

-----------------------------------------------------------------------------
(* Lengths and integers: around every bound of the code. *)
Near(n) == {n - 2, n - 1, n, n + 1, n + 2}
TakeLength ==
  \E len \in 0 .. 300 \cup Near(65536) \cup Near(16777126) \cup Near(16777216)
               \cup {1000, 2147483646, 2147483647} :
    job' = [of |-> "length", len |-> len]

Magnitudes == 0 .. 260 \cup Near(32768) \cup Near(65536) \cup Near(8388608)
                \cup Near(16777216) \cup {2147483646, 2147483647}
TakeInt == \E v \in Magnitudes \cup {-n - 1 : n \in Magnitudes} : job' = [of |-> "int", value |-> v]

EdgeOctets == {0, 1, 127, 128, 255}
TakeUnsigned ==
  \E w \in [1 .. 4 -> EdgeOctets] : job' = [of |-> "unsigned", word |-> <<w[1], w[2], w[3], w[4]>>]

-----------------------------------------------------------------------------
(* Type definitions: every module of three definitions of the given shapes, and *)
(* modules of four in which the last two refer to each other.                   *)
Def(kind, refs, others) == [kind |-> kind, refs |-> refs, others |-> others]
RefsTo(n) == {Reference(to, optional) : to \in 1 .. n, optional \in BOOLEAN}
Sequences2(n) ==
  {Def("sequence", refs, TRUE) : refs \in {{r, q} : r, q \in RefsTo(n)} \cup {{}}}
Shapes(n) ==
  {Def("library", {}, FALSE)} \cup Sequences2(n)
    \cup {Def("choice", {Reference(i, FALSE)}, b) : i \in 1 .. n, b \in BOOLEAN}
    \cup {Def("choice", {Reference(i, FALSE), Reference(j, FALSE)}, FALSE) : i, j \in 1 .. n}
    \cup {Def(k, {Reference(i, FALSE)}, FALSE) : k \in {"list", "ref"}, i \in 1 .. n}

\* The compiler does not get past a definition that refers only to itself.
Resolvable(types) ==
  \A td \in DOMAIN types :
    LET next == [u \in DOMAIN types |-> IF types[u].kind = "ref" THEN BuildLocalRefList(types, u) ELSE {}]
    IN td \notin Reached(next, td)

Order(types) == Resolvable(types) /\ job' = [of |-> "order", types |-> types]
TakeTypes ==
  \/ \E a, b, c \in Shapes(3) : Order(<<a, b, c>>)
  \/ \E a, b \in Sequences2(4) : \E o, p \in BOOLEAN :
       Order(<<a, b, Def("sequence", {Reference(4, o)}, TRUE), Def("sequence", {Reference(3, p)}, TRUE)>>)

-----------------------------------------------------------------------------
(* SEQUENCEs of up to three elements of these kinds, of which some were added   *)
(* after the marker and some are known to an older version; and the envelope.   *)
ElementKinds ==
  {Untagged(UTF8STRING, p) : p \in {"mandatory", "optional"}}
    \cup {Untagged(INTEGER, p) : p \in {"mandatory", "default"}}
    \cup {Implicit(n, UTF8STRING, "optional") : n \in {0, 1}}
    \cup {Implicit(1, INTEGER, "mandatory"), Explicit(0, UTF8STRING, "optional")}
    \cup {ChoiceType(<<INTEGER, Cntx(1)>>, p) : p \in {"mandatory", "optional"}}
    \cup {TaggedChoice(0, <<INTEGER, UTF8STRING>>, "optional")}
    \cup {AnyType(p) : p \in {"mandatory", "optional"}}

TakeElements ==
  \/ \E shape \in Envelope :
       job' = [of |-> "elements", shape |-> shape, known |-> Len(shape.elements)]
  \/ \E elements \in UNION {[1 .. n -> ElementKinds] : n \in 1 .. 3}, open \in BOOLEAN :
       \E roots, known \in 0 .. Len(elements) :
         /\ roots <= known /\ (~open => roots = Len(elements))
         /\ job' = [of |-> "elements", shape |-> Shape(elements, roots, open), known |-> known]

-----------------------------------------------------------------------------
\* Two interfaces; operation 2 may be stored for both of them.
TwoOwners == [id \in {"o1", "o2"} |-> IF id = "o1" THEN {"m1"} ELSE {"m1", "m2"}]
\* The peer may announce the first interface with its first operation only.
OneOffer == {[m \in {"m1", "m2"} |-> IF m = "m1" THEN {"o1"} ELSE {}]}

MCInit == Init /\ TcpInit /\ job = Idle

\* One input, taken from the beginning.
Take(step) == Init /\ TcpInit /\ job = Idle /\ step /\ UNCHANGED <<vars, tcpVars>>
Connection == Init /\ job = Idle /\ TcpNext /\ UNCHANGED <<vars, job>>
Session == TcpInit /\ job = Idle /\ Next /\ UNCHANGED <<tcpVars, job>>

MCNext ==
  \/ Take(TakeLength)
  \/ Take(TakeInt)
  \/ Take(TakeUnsigned)
  \/ Take(TakeTypes)
  \/ Take(TakeElements)
  \/ Connection
  \/ Session

MCSpec == MCInit /\ [][MCNext]_<<vars, tcpVars, job>>

-----------------------------------------------------------------------------
(* The algorithms' properties at the input under test. *)

\* SortTypeDependencies loses no definition and its failure branches are unreachable;
\* MkRecType warns about infinite recursion only where a definition has no finite value, and,
\* in a module none of whose CHOICEs has several alternatives, about every such definition or
\* one it leads to.
TypesOrdered == job.of = "order" => OrderComplete(job.types) /\ WarningsRight(job.types)

\* SortTypeDependencies puts a class before the classes that contain it by value, except on a
\* circle of values and where a recursive class contains by value one that is not recursive
\* but leads to a recursive one, which is put last.
ClassesDefinedBeforeUse == job.of = "order" => DefinedBeforeUse(job.types)

\* The generated decoder of a SEQUENCE reads what the encoder of the same, an older or a
\* newer version of the class wrote, and what it does not know it sends on unchanged.
ElementsReadBack == job.of = "elements" => ReadsBack(job.shape, job.known)

=============================================================================
