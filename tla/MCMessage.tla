------------------------------ MODULE MCMessage ------------------------------
(***************************************************************************)
(* Whole requests, built of segments: fields, files, parts without a name, *)
(* raw segments, and blocks whose body is missing, with every way in which *)
(* a message may end.                                                      *)
(***************************************************************************)
EXTENDS MessageProperties, SequencesExt

CONSTANTS B, X   \* the byte of the boundary, any other byte

MCByte == SpecialBytes \cup {B, X, DISPOSITION, ENCODING, NAME, FILENAME, UNUSABLE, BASE64,
                             UNDECODABLE}
ShortBoundary == <<B>>

Header(value) == <<DISPOSITION, COLON>> \o value \o CRLF
Segment(block, body) == CRLF \o block \o CRLF \o body

AField == Segment(Header(<<NAME, NAME>>), <<X>>)
AFile == Segment(Header(<<NAME, NAME, FILENAME>>), <<X>>)
EmptyNamed == Segment(Header(<<NAME, FILENAME>>), <<X>>)
Nameless == Segment(<<>>, <<X>>)
(* Two dispositions that can be decoded, the last with an empty name, and  *)
(* a third that cannot.                                                    *)
Repeated ==
  Segment(Header(<<NAME, NAME>>) \o Header(<<NAME>>) \o Header(<<UNDECODABLE>>), <<X, CR>>)
NoBody == Segment(Header(<<NAME, NAME>>), <<>>)
Raw == <<X>>
Encoded(disposition, body) ==
  Segment(Header(disposition) \o <<ENCODING, COLON, BASE64>> \o CRLF, body)
EncodedFile == Encoded(<<NAME, NAME, FILENAME>>, <<X>>)
EncodedField == Encoded(<<NAME, NAME>>, <<X, X, X, X>>)

(* After the last token: nothing, the beginnings of a suffix, a close, a   *)
(* header line that is cut short.  Or no token at all after a segment.     *)
Tails == {<<>>, <<DASH>>, <<SP>>, <<DASH, DASH>>, <<DASH, DASH, CR, LF>>, CRLF, <<X>>}
Endings == {CRLF \o Token \o tail : tail \in Tails} \cup {<<>>, CRLF}

Message(segments, ending) ==
  FoldLeft(LAMBDA s, segment : s \o (IF s = <<>> THEN <<>> ELSE CRLF) \o Token \o segment,
           <<>>, segments) \o ending

Messages(kinds, most) ==
  {Message(segments, ending) :
     segments \in UNION {[1..n -> kinds] : n \in 0..most}, ending \in Endings}

FieldMessages == Messages({AField, Nameless, Repeated, NoBody, Raw}, 2)

(* Header blocks that the input cuts short, at the header limit and around. *)
Blocks == {Message(<<AFile>>, CRLF \o Token \o CRLF \o [i \in 1..n |-> X]) : n \in 18..21}

FileMessages ==
  Messages({AField, AFile}, 2) \cup Messages({EmptyNamed, EncodedFile, EncodedField}, 1) \cup Blocks

(* Parts with many header lines, each as short as it can be but the first. *)
HeaderMessages ==
  {Token \o CRLF \o first \o FlattenSeq([i \in 1..n |-> <<COLON>> \o CRLF]) \o CRLF \o <<X>> :
     first \in {<<>>, <<X, COLON>> \o CRLF}, n \in 0..6}
HeaderLimit == 20
HeaderCount == MAX_HEADER_COUNT(HeaderLimit)

MCMessages == FieldMessages \cup FileMessages \cup HeaderMessages

KnownParts ==
  [name : {{}, {0}, {1}}, filename : {"absent", "usable", "unusable"}, base64 : BOOLEAN]

NoLimit == {}
One == {1}
Twenty == {HeaderLimit}
=============================================================================
