------------------------------- MODULE MCFuzz -------------------------------
(***************************************************************************)
(* Requests built from fragments: an opening that brings the parser to     *)
(* each of its states, then every short sequence of the fragments that     *)
(* make it change state again.                                             *)
(***************************************************************************)
EXTENDS FuzzTarget, MultipartProperties, SequencesExt

CONSTANTS B, X, Depth   \* a byte of the boundary, any other byte, fragments per request

MCByte == SpecialBytes \cup {B, X}
ShortBoundary == <<B>>
DashBoundary == <<DASH>>   \* the token ---, which overlaps itself

Blocks == CRLF \o CRLF
Openings ==
  {<<>>, Token, Token \o Blocks, Token \o CRLF \o <<X, X>>, Token \o <<DASH, DASH>>,
   Token \o <<X>>}
Fragments ==
  {<<CR>>, <<LF>>, CRLF, <<DASH>>, <<SP>>, <<X>>, <<COLON>>, Token}

Joined(pieces) == FoldLeft(LAMBDA s, t : s \o t, <<>>, pieces)

(* Whitespace after the token that ends a part or a raw segment, up to the *)
(* header limit and beyond it.                                             *)
Padded ==
  {Token \o start \o <<X>> \o CRLF \o Token \o [i \in 1..n |-> blank] \o tail :
     start \in {Blocks, CRLF, <<>>}, n \in 0..8, blank \in {SP, TAB},
     tail \in {<<>>, <<DASH>>, CRLF}}

MCRequests ==
  Padded \cup {opening \o Joined(pieces) :
                  opening \in Openings,
                  pieces \in UNION {[1..n -> Fragments] : n \in 0..Depth}}

(* Header lines one byte at a time, for the limits on a line and on their  *)
(* number.                                                                 *)
LineFragments == {<<X>>, <<COLON>>, <<CR>>, CRLF, <<COLON, CR, LF>>, <<DASH>>, Token}
LineRequests ==
  {Token \o CRLF \o Joined(pieces) : pieces \in UNION {[1..n -> LineFragments] : n \in 0..Depth}}

NoLimit == {}
SmallLimit == {6}
LineSize == {13}
LineLimit == {10}
=============================================================================
