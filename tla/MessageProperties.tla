--------------------------- MODULE MessageProperties ---------------------------
(***************************************************************************)
(* What is claimed of a whole request in the terms of its message, read    *)
(* once from beginning to end: which fields are in POST, what the field    *)
(* limit counts, and when a header limit refuses.                          *)
(***************************************************************************)
EXTENDS Upload, MultipartReference

(***************************************************************************)
(* The adapter's bounds on header lines and their number refuse nothing    *)
(* that Django's limit on the whole block would not: where the parser      *)
(* raises a header error, a block of the message is over that limit, or a  *)
(* segment without a block is, with the beginning of the next token if the *)
(* read that is refused ends in it (parser.py:40-43, 127-132).             *)
(***************************************************************************)
HeaderCountIsRedundant ==
  phase = "raised" => HasSegmentOverLimit(request, unread # <<>>, eof)

-----------------------------------------------------------------------------
(* The message as its reader sees it: segments between tokens.  A segment  *)
(* is a part if it has a header block with something after it, or if it is *)
(* the last one and has a header block.                                    *)
Segments == SplitAtTokens(request)
PartSegments ==
  {k \in 2..Len(Segments) :
     IsPart(Segments[k]) \/ (k = Len(Segments) /\ HeaderEnds(Segments[k]) # {})}

Lines(k) == FieldsWithin(Segments[k], BlockLength(Segments[k]) - 2)

(* Of the lines with a name, the one that counts is the last that can be   *)
(* decoded.                                                                *)
LastValue(lines, name) ==
  LET usable == {i \in DOMAIN lines : Decodable(lines[i]) /\ lines[i].name = name}
  IN  IF usable = {} THEN <<>> ELSE lines[Max(usable)].value

DispositionOf(k) == LastValue(Lines(k), <<DISPOSITION>>)
IsBase64(k) == LastValue(Lines(k), <<ENCODING>>) = <<BASE64>>

IsFile(k) == Has(DispositionOf(k), FILENAME)
Fields == {k \in PartSegments : ~IsFile(k) /\ Has(DispositionOf(k), NAME)}

BodySize(k) ==
  Len(IF k = Len(Segments) THEN BodyOf(Segments[k]) ELSE WithoutLineEnd(BodyOf(Segments[k])))
NameLength(k) == Cardinality({i \in DOMAIN DispositionOf(k) : DispositionOf(k)[i] = NAME}) - 1

(***************************************************************************)
(* A request that is parsed without an exception has exactly the fields of *)
(* its message in POST, in order and with all their data, decoded if that  *)
(* is base64: those between two tokens and one that the end of the input   *)
(* cuts short, named by the last disposition that can be decoded, however  *)
(* the bytes were cut into chunks (multipart.rs:365-493, parser.py:139-212,*)
(* 327-338, 382-398).                                                      *)
(***************************************************************************)
PostOfTheMessage ==
  LET position(k) == Cardinality({j \in Fields : j <= k})
  IN  pc = "completing" /\ exception = "none" =>
        /\ Len(post) = Cardinality(Fields)
        /\ \A k \in Fields :
             /\ post[position(k)].name = NameLength(k)
             /\ IF IsBase64(k) THEN post[position(k)].size <= BodySize(k)
                ELSE post[position(k)].size = BodySize(k)

(***************************************************************************)
(* What the field limit counts: every segment after the preamble that is   *)
(* not a file, named or not.  What follows the last token counts, too,     *)
(* unless it is nothing.                                                   *)
(***************************************************************************)
Counted ==
  {k \in 2..Len(Segments) : (k = Len(Segments) => Segments[k] # <<>>)
                              /\ (k \in PartSegments => ~IsFile(k))}

(* A raw segment that ends with a token whose suffix the end of the input  *)
(* cuts short: feed_eof does not report it.                                *)
UnreportedRaw ==
  LET n == Len(Segments)
  IN  n > 2 /\ n - 1 \notin PartSegments /\ IsIncomplete(Segments[n]) /\ Segments[n] # <<>>

(***************************************************************************)
(* A request is refused for the number of its fields exactly when its      *)
(* message has two more than the maximum, the segment after the last token *)
(* being one of them: the adapter's counter, its allowance, terminal_raw   *)
(* and exact_boundary_at_eof come to that, for every way in which messages *)
(* end (parser.py:123-125, 166-190, 224-225, 309-325).                     *)
(***************************************************************************)
FieldLimitOfTheMessage ==
  \/ exception = "none" /\ pc \in {"interrupting", "completing"}
  \/ exception = "TooManyFields"
  => (exception = "TooManyFields"
        <=> \E maximum \in MaxFields : Cardinality(Counted) > maximum + 1)

(* The same but for the one ending that the adapter does not count in full. *)
FieldLimitOfReportedSegments == UnreportedRaw \/ FieldLimitOfTheMessage
=============================================================================
