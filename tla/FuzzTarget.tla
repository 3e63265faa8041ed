------------------------------ MODULE FuzzTarget ------------------------------
(***************************************************************************)
(* The differential fuzz target of the parser: one request is parsed in    *)
(* one chunk, then again in several, and the two outcomes are compared.    *)
(* The target draws one chunk size per input; here every chunk of the      *)
(* second pass has its own size, which covers each fixed one and the       *)
(* uneven chunks of an upload.                                             *)
(***************************************************************************)
EXTENDS Request, MultipartReference

(* The target's boundary is a literal, fuzz-boundary (multipart_parser.rs:15). *)
ASSUME FuzzAssumption == \A i \in 1..Len(Boundary) : Boundary[i] \notin {CR, LF}

VARIABLES
  pass,          \* "contiguous", "incremental", "compared"
  contiguous,    \* the outcome of the first pass: a sequence of at most one
  incremental    \* the outcome of the second

fuzzVars == <<inputVars, pass, contiguous, incremental>>

FuzzInit ==
  /\ Init
  /\ RequestInit
  /\ pass = "contiguous"
  /\ contiguous = <<>>
  /\ incremental = <<>>

(* request.chunks(chunk_size)                                              *)
NextChunkSizes ==
  IF pass = "contiguous" THEN {Len(request)}
  ELSE {n \in ChunkSizes : n <= Len(unread)} \cup {Len(unread)}

FeedChunk ==
  /\ pass # "compared"
  /\ unread # <<>>
  /\ \E n \in NextChunkSizes : FeedNext(n)
  /\ UNCHANGED <<pass, contiguous, incremental>>

RunLoop == Loop /\ UNCHANGED fuzzVars

EndInput == unread = <<>> /\ pass # "compared" /\ FeedEof /\ UNCHANGED fuzzVars

(* Terminal: a FeedError, an EofError, or what finish() says.  Every error *)
(* that the parser model raises for a header limit is already one name.    *)
Terminal ==
  IF phase = "raised"
  THEN [at |-> IF eof THEN "EofError" ELSE "FeedError", error |-> error]
  ELSE [at |-> "Finished", error |-> IF Finished THEN "none" ELSE "Incomplete"]

Outcome == [events |-> AppendEvents(<<>>, received), terminal |-> Terminal]

ParseEnds ==
  \/ phase = "raised"
  \/ phase = "idle" /\ eof

Reset ==
  /\ state' = "Preamble" /\ buffer' = <<>> /\ size' = 0
  /\ headers' = <<>> /\ total' = 0 /\ pending' = FALSE /\ eof' = FALSE
  /\ phase' = "idle" /\ error' = "none" /\ events' = <<>> /\ received' = <<>>

(* The end of parse(): the outcome is kept, and the second pass starts     *)
(* with a new parser.                                                      *)
EndPass ==
  /\ ParseEnds
  /\ \/ /\ pass = "contiguous"
        /\ contiguous' = <<Outcome>>
        /\ pass' = "incremental"
        /\ unread' = request
        /\ Reset
        /\ UNCHANGED <<request, incremental>>
     \/ /\ pass = "incremental"
        /\ incremental' = <<Outcome>>
        /\ pass' = "compared"
        /\ UNCHANGED <<vars, request, unread, contiguous>>

(* The target returns once the outcomes are compared.                      *)
TargetReturns == pass = "compared" /\ UNCHANGED <<vars, fuzzVars>>

FuzzNext == FeedChunk \/ RunLoop \/ EndInput \/ EndPass \/ TargetReturns

FuzzSpec == FuzzInit /\ [][FuzzNext]_<<vars, fuzzVars>>

-----------------------------------------------------------------------------
Compared == pass = "compared"
FedBy(outcome) == outcome[1].terminal.at = "FeedError"

(***************************************************************************)
(* The assertion of the fuzz target (multipart_parser.rs:132-140): the two *)
(* outcomes are equal, and when both passes fail in a feed only the errors *)
(* are compared.                                                           *)
(***************************************************************************)
FuzzAssertion ==
  Compared =>
    IF FedBy(contiguous) /\ FedBy(incremental)
    THEN contiguous[1].terminal.error = incremental[1].terminal.error
    ELSE contiguous = incremental

(* A segment that opens no header block, after a token that is not usable  *)
(* as a delimiter or that closes the message, and that is longer than the  *)
(* header limit once the beginning of the next token is counted with it.   *)
HasLongRawSegment ==
  LET segments == SplitAtTokens(request)
  IN  \E k \in 2..(Len(segments) - 1) :
        /\ HeaderEnds(segments[k]) = {}
        /\ OpenLength(segments[k]) = {}
        /\ OverLimit(Len(segments[k]) + Len(Token) - 1)

(***************************************************************************)
(* What does hold of the assertion: without an over-long raw segment the   *)
(* outcome does not depend on how the request is cut into chunks.          *)
(***************************************************************************)
ChunkingIsInvisible == HasLongRawSegment \/ FuzzAssertion

(***************************************************************************)
(* What max_size does to it: a request over it fails in a feed in both     *)
(* passes, though not always with the same error, and one within it is     *)
(* parsed as if there were no such limit (multipart.rs:117-123).           *)
(***************************************************************************)
SizeLimitIsExact ==
  LET over == \E limit \in MaxSize : Len(request) > limit
      refused(outcome) == outcome[1].terminal.error = "TooLarge"
  IN  Compared =>
        IF over THEN FedBy(contiguous) /\ FedBy(incremental) /\ refused(contiguous)
        ELSE ~refused(contiguous) /\ ~refused(incremental) /\ FuzzAssertion

(***************************************************************************)
(* When no limit ends a parse, its events and the answer of finish() are   *)
(* those of the reference reading of the complete message, however it was  *)
(* cut into chunks (multipart.rs:103-505).                                 *)
(***************************************************************************)
ParsesTheMessage ==
  ParseEnds /\ phase # "raised" =>
    /\ Finished <=> IsComplete(request)
    /\ Outcome.events = Reference(request)

(***************************************************************************)
(* At no moment has a caller been given anything that the reading of the   *)
(* complete message does not begin with: no byte of a delimiter delivered  *)
(* as data, no part begun that turns out to be raw, whatever is still to   *)
(* come, and whether or not a limit ends the parse (multipart.rs:365-493). *)
(***************************************************************************)
NothingIsTakenBack == DeliveredOf(AppendEvents(<<>>, received), Reference(request))

(***************************************************************************)
(* A part is begun only if its header block, from the end of its boundary  *)
(* token to the end of the empty line, is within max_total_header_size:    *)
(* padding after the token, lines without a colon and the empty line are   *)
(* all charged (multipart.rs:209, 256, 265, 285, 298-302).                 *)
(***************************************************************************)
BegunPartsFitTheLimit ==
  LET segments == SplitAtTokens(request)
      withBlock == {k \in 2..Len(segments) :
                      IsPart(segments[k]) \/ (k = Len(segments) /\ HeaderEnds(segments[k]) # {})}
      begun == Cardinality({i \in DOMAIN received : received[i].kind = "Begin"})
  IN  \A k \in withBlock :
        Cardinality({j \in withBlock : j <= k}) <= begun => ~OverLimit(BlockLength(segments[k]))

(***************************************************************************)
(* The converse: a parse is refused for its headers only if some segment   *)
(* is over the limit.  Where the chunks end adds to that the beginning of  *)
(* a token, and only while there is more to come: once all of the request  *)
(* is fed, as it is at once in the first pass, the segment by itself is    *)
(* over (multipart.rs:285, 306-363, 454-459).                              *)
(***************************************************************************)
RefusedOnlyOverTheLimit ==
  error = "HeaderLimit" => HasSegmentOverLimit(request, unread # <<>>, eof)
=============================================================================
