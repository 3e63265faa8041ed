------------------------- MODULE MultipartProperties -------------------------
(***************************************************************************)
(* What is claimed of the parser for every chunking of every message: the  *)
(* invariants its handlers rely on, the event protocol its callers rely    *)
(* on, and that a call of feed always comes back.                          *)
(***************************************************************************)
EXTENDS MultipartParser

KindsOf(s) == [i \in DOMAIN s |-> s[i].kind]

Stream == INSTANCE EventStream WITH
            stream <- KindsOf(received), closed <- eof, failed <- (phase = "raised")

(* The caller only ever holds a well-formed, growing event stream, and an  *)
(* error or the end of input is final (the batches of feed_map_data and    *)
(* feed_eof_map_data, multipart.rs:103-191).                               *)
ImplementsEventStream == Stream!Spec

(***************************************************************************)
(* A part is open in the stream exactly while the parser is in the body of *)
(* that part with its Begin sent.  The handlers push Data and End on the   *)
(* strength of `state' and `pending_headers' alone (multipart.rs:373-438); *)
(* after the end of input the last part may stay open for good.            *)
(***************************************************************************)
OpenPart == Stream!InPart(KindsOf(received \o events))

BodyMeansOpenPart ==
  phase # "raised" => ((state = "Body" /\ ~pending) <=> OpenPart)

(***************************************************************************)
(* The header account is kept per header block: outside a block nothing is *)
(* charged, so the limit a raw segment or a delimiter's padding is held to *)
(* (multipart.rs:458, 319-325) is never eaten up by an earlier part.       *)
(***************************************************************************)
NothingChargedOutsideHeaders ==
  phase # "raised" /\ state # "Header" /\ ~pending => total = 0 /\ headers = <<>>

(***************************************************************************)
(* No part is begun with more fields than max_header_count, or with a      *)
(* field longer than max_header_size (multipart.rs:245, 262, 271, 299),    *)
(* and the account of a header block never passes max_total_header_size.   *)
(***************************************************************************)
DeliveredHeadersWithinLimits ==
  /\ \A i \in DOMAIN received :
       received[i].kind = "Begin" =>
         /\ Len(received[i].headers) <= MaxHeaderCount
         /\ \A k \in DOMAIN received[i].headers :
              LET field == received[i].headers[k]
              IN  Len(field.name) + 1 + Len(field.value) <= MaxHeaderSize
  /\ phase = "idle" => \A limit \in MaxTotalHeaderSize : total <= limit

(***************************************************************************)
(* `The parser never accumulates part bodies' (multipart.rs:3-5): when     *)
(* feed returns inside a body, what it keeps is at most one undecided      *)
(* delimiter, and what follows the token in it is within the limit on a    *)
(* header block, however the body was cut into chunks.                     *)
(***************************************************************************)
BodyIsNotAccumulated ==
  phase = "idle" /\ state = "Body" =>
    IF Find(buffer, Token) = {}
    THEN Len(buffer) < DelimiterLength
    ELSE \A limit \in MaxTotalHeaderSize :
           Len(buffer) <= DelimiterLength + (IF limit = 0 THEN 1 ELSE limit)

(***************************************************************************)
(* Every pass of feed's loop that goes round again consumes input, decides *)
(* a pending part, or turns a raw segment into a header block, so the loop *)
(* of multipart.rs:124-136 ends after at most this many passes.            *)
(***************************************************************************)
PassesLeft ==
  2 * Len(buffer) + (IF state \in {"Discard", "End"} THEN 1 ELSE 0)

LoopProgresses ==
  [][phase = "feeding" /\ phase' = "feeding" => PassesLeft' < PassesLeft]_vars

(* A call of feed returns or raises: no state and no buffer content keeps  *)
(* the loop of multipart.rs:124-136 turning or leaves it without a match.  *)
FeedReturns == [](phase = "feeding" => <>(phase # "feeding"))
=============================================================================
