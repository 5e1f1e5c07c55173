--------------------------- MODULE SequenceCodec ---------------------------
(* The code c++-gen writes for a SEQUENCE: BEncContent, BDecContent, JEnc and   *)
(* JDec of the generated class, for a given list of elements, and the check the *)
(* compiler makes of that list.                                                 *)
(*                                                                              *)
(* Data are abstracted to their identity and their tags: an encoded element is  *)
(* [tags |-> its tags, outermost first, of |-> the element it came from].  A    *)
(* tag is its class and code; lengths are definite.  The parser moves the       *)
(* marker `...` behind the elements that were added after it, so a SEQUENCE is  *)
(* its elements, how many of them are root elements, and whether it is open.    *)
EXTENDS Integers, Sequences, FiniteSets, SequencesExt

Univ(code) == [class |-> "UNIV", code |-> code]
Cntx(code) == [class |-> "CNTX", code |-> code]

Null == [null |-> TRUE]        \* a pointer that is not set
Default == [default |-> TRUE]  \* a member that has its DEFAULT value

INTEGER == Univ(2)
OCTETSTRING == Univ(4)
NULLTYPE == Univ(5)
UTF8STRING == Univ(12)
SEQ == Univ(16)

\* An element: the tags GetTags collects for it; whether those are the tags of
\* the alternatives of a CHOICE without a tag of its own; the alternatives of a
\* CHOICE behind a tag; the universal tag of its root type, if it has one; and
\* whether it is mandatory, OPTIONAL or has a DEFAULT.
Element(tags, stolen, inner, root, presence) ==
  [tags |-> tags, stolen |-> stolen, inner |-> inner, root |-> root, presence |-> presence]
Untagged(type, presence) == Element(<<type>>, FALSE, {}, {type}, presence)
Implicit(n, type, presence) == Element(<<Cntx(n)>>, FALSE, {}, {type}, presence)
Explicit(n, type, presence) == Element(<<Cntx(n), type>>, FALSE, {}, {type}, presence)
ChoiceType(alternatives, presence) == Element(alternatives, TRUE, {}, {}, presence)
TaggedChoice(n, alternatives, presence) ==
  Element(<<Cntx(n)>>, FALSE, ToSet(alternatives), {}, presence)
AnyType(presence) == Element(<<>>, FALSE, {}, {}, presence)

IsAny(e) == e.tags = <<>>
IsPtr(e) == e.presence # "mandatory"

Shape(elements, roots, open) == [elements |-> elements, roots |-> roots, open |-> open]
Added(shape, i) == i > shape.roots

-----------------------------------------------------------------------------
(* ChkSeqTags *)

\* The tags an element may be written with.
FirstTags(e) == IF e.stolen THEN ToSet(e.tags) ELSE {e.tags[i] : i \in DOMAIN e.tags \cap {1}}

\* The elements that may be the next one written when element i is left out.
Following(shape, i) ==
  {j \in i + 1 .. Len(shape.elements) : \A k \in i + 1 .. j - 1 : IsPtr(shape.elements[k])}

\* Consecutive optional elements and the one after them have distinct tags; an
\* ANY is taken to be right.
ChkSeqTags(shape) ==
  \A i \in DOMAIN shape.elements : IsPtr(shape.elements[i]) =>
    \A j \in Following(shape, i) :
      FirstTags(shape.elements[i]) \cap FirstTags(shape.elements[j]) = {}

-----------------------------------------------------------------------------
(* BEncContent *)

\* Whether the encoders write member i: an optional one that is set, one with a
\* DEFAULT that is set to something else.
Written(shape, object, i) == object.members[i] \notin {Null, Default}

BEncContent(shape, object) ==
  LET indices == [i \in DOMAIN shape.elements |-> i]
      written == SelectSeq(indices, LAMBDA i : Written(shape, object, i))
  IN [k \in DOMAIN written |-> object.members[written[k]]]
       \o (IF shape.open THEN object.extension ELSE <<>>)

-----------------------------------------------------------------------------
(* BDecContent *)

\* The first optional element may be written with its universal tag instead of
\* the context tag [0], or with [0] instead of its universal tag, if the rest
\* of the optional elements leaves no doubt.
BothVariants(shape) ==
  LET optional == SelectSeq(shape.elements, LAMBDA e : e.presence = "optional" /\ ~IsAny(e))
      context == SelectSeq(optional, LAMBDA e : e.tags[1].class = "CNTX")
      regular == Len(optional) - Len(context)
  IN /\ context # <<>>
     /\ \/ regular = 1 /\ context[1].tags[1].code > 0
        \/ regular = 0 /\ context[1].tags[1].code = 0

FirstOptional(shape, i) ==
  /\ shape.elements[i].presence = "optional"
  /\ \A j \in 1 .. i - 1 : shape.elements[j].presence # "optional"

OtherTags(shape, i) ==
  LET e == shape.elements[i]
  IN IF ~BothVariants(shape) \/ ~FirstOptional(shape, i) \/ e.stolen \/ IsAny(e) THEN {}
     ELSE IF e.tags[1].class = "CNTX" THEN e.root
     ELSE {Cntx(0)}

Matches(shape, i, tag) ==
  \/ IsAny(shape.elements[i])
  \/ tag \in FirstTags(shape.elements[i]) \cup OtherTags(shape, i)

\* The tags behind the first one.  (An explicit tag left out through OtherTags
\* is still expected: what follows is then the content, not a tag.)
InnerTagsMatch(e, data) ==
  \/ e.stolen \/ IsAny(e)
  \/ e.inner # {} /\ Len(data.tags) = 2 /\ data.tags[2] \in e.inner
  \/ e.inner = {} /\ Tail(data.tags) = Tail(e.tags)

\* Mutant: the elements added after the marker count as mandatory.
RestMandatory(shape, i) ==
  ~shape.open /\ \A j \in i + 1 .. Len(shape.elements) : IsPtr(shape.elements[j])

RestAreTailOptional(shape, i) ==
  \A j \in i + 1 .. Len(shape.elements) : IsPtr(shape.elements[j]) \/ Added(shape, j)

\* The decoder: the members read so far; the element whose tag is in tag1, if
\* any; the elements behind it; and whether it goes on, has returned, has thrown
\* or has read a tag beyond its own content.
Decoder(members, tag1, rest, state) ==
  [members |-> members, tag1 |-> tag1, rest |-> rest, extension |-> <<>>, state |-> state]
Clear(shape) == [i \in DOMAIN shape.elements |-> Null]

\* Reads the next tag.
BDecTag(d) ==
  IF d.rest = <<>> THEN [d EXCEPT !.state = "beyond"]
  ELSE [d EXCEPT !.tag1 = <<Head(d.rest)>>, !.rest = Tail(d.rest)]
BDecValidateEnd(d) == IF d.rest = <<>> THEN [d EXCEPT !.state = "returned"] ELSE BDecTag(d)

\* After element i: the next tag, unless element i is the last one.
NextTag(shape, i, d) ==
  LET taken == [d EXCEPT !.tag1 = <<>>]
  IN IF i = Len(shape.elements) /\ ~shape.open THEN taken
     ELSE IF RestAreTailOptional(shape, i) THEN BDecValidateEnd(taken)
     ELSE BDecTag(taken)

\* A mandatory ANY is read whether or not there is a tag.
DecodeElement(shape, d, i) ==
  LET e == shape.elements[i]
      present == d.tag1 # <<>> /\ Matches(shape, i, d.tag1[1].tags[1])
  IN IF d.state # "reading" THEN d
     ELSE IF present /\ InnerTagsMatch(e, d.tag1[1])
     THEN NextTag(shape, i, [d EXCEPT !.members[i] = d.tag1[1]])
     ELSE IF IsAny(e) /\ ~IsPtr(e) THEN [d EXCEPT !.state = "beyond"]
     ELSE IF present \/ ~IsPtr(e) THEN [d EXCEPT !.state = "thrown"]
     ELSE d

\* The first tag; an addition, an ANY or the marker in first place reads none.
FirstTag(shape, data) ==
  LET d == Decoder(Clear(shape), <<>>, data, "reading")
  IN IF shape.roots = 0 \/ IsAny(shape.elements[1]) THEN d
     ELSE BDecValidateEnd(d)

\* AsnExtension::readFromBuffer: the element in tag1 and the ones behind it.
ReadFromBuffer(d) ==
  [d EXCEPT !.extension = IF d.tag1 = <<>> THEN <<>> ELSE d.tag1 \o d.rest, !.state = "returned"]

BDecContent(shape, data) ==
  LET d == FoldLeft(LAMBDA acc, i : DecodeElement(shape, acc, i),
                    FirstTag(shape, data), [i \in DOMAIN shape.elements |-> i])
  IN IF d.state # "reading" THEN d
     ELSE IF shape.open THEN ReadFromBuffer(d)
     ELSE [d EXCEPT !.state = IF d.tag1 = <<>> /\ d.rest = <<>> THEN "returned" ELSE "thrown"]

-----------------------------------------------------------------------------
(* JEnc and JDec: members by name, extensions left out. *)

JEnc(shape, object) ==
  [i \in {j \in DOMAIN shape.elements : Written(shape, object, j)} |-> object.members[i]]

\* A member whose name is missing is an error unless it is a pointer.
JDec(shape, json) ==
  [members |-> [i \in DOMAIN shape.elements |-> IF i \in DOMAIN json THEN json[i] ELSE Null],
   state |-> IF \E i \in DOMAIN shape.elements \ DOMAIN json : ~IsPtr(shape.elements[i])
             THEN "thrown" ELSE "returned"]

-----------------------------------------------------------------------------
(* The ROSE envelope, as cpp-lib/src/SNACCROSE.cpp was generated. *)

ROSERejectChoice == <<INTEGER, NULLTYPE>>
RejectProblem == <<Cntx(0), Cntx(1), Cntx(2), Cntx(3)>>

ROSEResultSeq == Shape(<<Untagged(INTEGER, "mandatory"), AnyType("mandatory")>>, 2, TRUE)
ROSEAuth == Shape(<<Untagged(UTF8STRING, "mandatory"), Untagged(OCTETSTRING, "mandatory")>>, 2, TRUE)
ROSEError ==
  Shape(<<Explicit(1, UTF8STRING, "optional"), Untagged(INTEGER, "mandatory"),
          Untagged(INTEGER, "mandatory"), AnyType("optional")>>, 4, FALSE)
ROSEAuthRequest == Shape(<<Untagged(SEQ, "mandatory"), Untagged(UTF8STRING, "optional")>>, 2, TRUE)
ROSEAuthResult == Shape(<<Untagged(SEQ, "mandatory"), Untagged(UTF8STRING, "optional")>>, 2, TRUE)
ROSEInvoke ==
  Shape(<<Explicit(1, UTF8STRING, "optional"), Untagged(INTEGER, "mandatory"),
          Implicit(0, INTEGER, "optional"), Explicit(2, UTF8STRING, "optional"),
          Explicit(3, SEQ, "optional"), Implicit(4, INTEGER, "optional"),
          Untagged(INTEGER, "mandatory"), AnyType("optional")>>, 8, FALSE)
ROSEResult ==
  Shape(<<Explicit(1, UTF8STRING, "optional"), Untagged(INTEGER, "mandatory"),
          Untagged(SEQ, "optional")>>, 3, TRUE)
ROSEReject ==
  Shape(<<Explicit(1, UTF8STRING, "optional"), ChoiceType(ROSERejectChoice, "mandatory"),
          ChoiceType(RejectProblem, "optional"), Untagged(UTF8STRING, "optional"),
          Explicit(4, SEQ, "optional")>>, 5, TRUE)

Envelope ==
  {ROSEResultSeq, ROSEAuth, ROSEError, ROSEAuthRequest, ROSEAuthResult, ROSEInvoke, ROSEResult,
   ROSEReject}

-----------------------------------------------------------------------------
(* What the decoders are for *)

\* The objects of a class: a value of an ANY may have any tag.
Encodings(e) ==
  IF IsAny(e) THEN {<<SEQ>>, <<UTF8STRING>>, <<Cntx(1)>>}
  ELSE IF e.stolen THEN {<<t>> : t \in ToSet(e.tags)}
  ELSE IF e.inner # {} THEN {<<e.tags[1], t>> : t \in e.inner}
  ELSE {e.tags}
MemberValues(e, i) ==
  {[tags |-> tags, of |-> i] : tags \in Encodings(e)}
    \cup (CASE e.presence = "mandatory" -> {}
            [] e.presence = "optional" -> {Null}
            [] e.presence = "default" -> {Null, Default})
Objects(shape) ==
  LET extend(lists, i) == {Append(m, v) : m \in lists, v \in MemberValues(shape.elements[i], i)}
  IN {[members |-> m, extension |-> <<>>] :
        m \in FoldLeft(extend, {<<>>}, [i \in DOMAIN shape.elements |-> i])}

\* The version of the class that knows the first n elements.
Version(shape, n) == Shape(SubSeq(shape.elements, 1, n), shape.roots, shape.open)
Known(object, n) == [members |-> SubSeq(object.members, 1, n), extension |-> <<>>]

\* What an object reads back as: a DEFAULT that was not written is not set.
AsRead(members) == [i \in DOMAIN members |-> IF members[i] = Default THEN Null ELSE members[i]]

\* A reader can tell the elements of a writer apart: no element that may be
\* missing is ANY or accepts a further tag that the next one has, or precedes an
\* ANY.
Unambiguous(reader, writer) ==
  \A i \in DOMAIN reader.elements : IsPtr(reader.elements[i]) =>
    \A j \in Following(writer, i) :
      /\ ~IsAny(reader.elements[i]) /\ ~IsAny(writer.elements[j])
      /\ OtherTags(reader, i) \cap FirstTags(writer.elements[j]) = {}

\* A list of elements that the compiler accepts, that starts with a root element
\* other than ANY.
Usable(shape) == ChkSeqTags(shape) /\ shape.roots > 0 /\ ~IsAny(shape.elements[1])

\* The decoder reads what the encoder of the same class wrote.  One of an older
\* version keeps the elements it does not know and writes the same octets again;
\* one of a newer version reads what an older one wrote.  JSON carries the same
\* members as BER.
ReadsBack(shape, n) ==
  LET older == Version(shape, n)
  IN Usable(shape) /\ Unambiguous(shape, shape) /\ Unambiguous(older, shape) =>
       \A object \in Objects(shape) :
         LET data == BEncContent(shape, object)
             same == BDecContent(shape, data)
             old == BDecContent(older, data)
             new == BDecContent(shape, BEncContent(older, Known(object, n)))
             json == JDec(shape, JEnc(shape, object))
         IN /\ same.state = "returned" /\ same.members = AsRead(object.members)
            /\ same.extension = <<>>
            /\ old.state = "returned" /\ old.members = AsRead(SubSeq(object.members, 1, n))
            /\ BEncContent(older, old) = data
            /\ new.state = "returned"
            /\ new.members = [i \in DOMAIN same.members |-> IF i > n THEN Null ELSE same.members[i]]
            /\ json.state = "returned" /\ json.members = same.members
=============================================================================
