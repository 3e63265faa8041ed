------------------------------ MODULE MCParser ------------------------------
(* A parser with the one-byte boundary <<B>>, fed fragments of messages.   *)
EXTENDS MultipartProperties

CONSTANTS B, X   \* the byte of the boundary, and any other byte

MCByte == SpecialBytes \cup {B, X}
MCBoundary == <<B>>

(* Delimiters and bodies: every suffix a token can have, cut everywhere    *)
(* but inside a token and inside the CRLFCRLF that is fed as one chunk.    *)
DelimiterChunks ==
  {<<>>, <<CR>>, <<LF>>, <<DASH>>, <<SP>>, <<X>>, Token, <<CR, LF, CR, LF>>,
   Token \o CRLF, CRLF \o Token}
DelimiterMaxSize == {13}
DelimiterHeaderLimit == {4}
=============================================================================
