-------------------------- MODULE MultipartReference --------------------------
(***************************************************************************)
(* What a complete message means, without buffering, chunks or states: the *)
(* boundary tokens cut it into segments, and each segment between two      *)
(* tokens is a part, or raw.  This is the meaning that the comments of     *)
(* multipart.rs give to Django's BoundaryIter, read as a definition; it is *)
(* the yardstick that the parser is compared with and models no code.      *)
(*                                                                         *)
(* The only definition translated from code is AppendEvents.               *)
(***************************************************************************)
EXTENDS MultipartParser

(* The bytes between two offsets.                                          *)
Slice(message, start, end) == SubSeq(message, start + 1, end)

(* The offsets of the leftmost tokens that do not overlap: those that end  *)
(* within the first bytes of the message.                                  *)
WithTokenEndingAt(message, n, before) ==
  LET index == n - Len(Token)
      overlaps == before # <<>> /\ index < before[Len(before)] + Len(Token)
  IN  IF index >= 0 /\ Slice(message, index, n) = Token /\ ~overlaps
      THEN Append(before, index) ELSE before

TokensWithin(message, length) ==
  LET tokens[n \in Nat] ==
        IF n = 0 THEN <<>> ELSE WithTokenEndingAt(message, n, tokens[n - 1])
  IN  tokens[length]

TokensOf(message) == TokensWithin(message, Len(message))

(* The segments between them; the first is the preamble.                   *)
SegmentStart(tokens, k) == IF k = 1 THEN 0 ELSE tokens[k - 1] + Len(Token)
SegmentEnd(message, tokens, k) == IF k > Len(tokens) THEN Len(message) ELSE tokens[k]

SplitAtTokens(message) ==
  LET tokens == TokensOf(message)
  IN  [k \in 1..(Len(tokens) + 1) |->
         Slice(message, SegmentStart(tokens, k), SegmentEnd(message, tokens, k))]

(* The lines of a segment: CRLF ends one at offset n.                      *)
EndsLine(segment, n) ==
  n \in 2..Len(segment) /\ segment[n - 1] = CR /\ segment[n] = LF

LineStart(segment, n) ==
  LET starts == {i \in 0..(n - 2) : i = 0 \/ EndsLine(segment, i)}
  IN  CHOOSE i \in starts : \A j \in starts : j <= i

(* A line with a colon is a field.                                         *)
FieldIn(line) ==
  LET fields == {Field(line, separator) : separator \in Find(line, <<COLON>>)}
  IN  IF fields = {} THEN <<>> ELSE <<CHOOSE field \in fields : TRUE>>

FieldEndingAt(segment, n) ==
  IF EndsLine(segment, n) THEN FieldIn(Slice(segment, LineStart(segment, n), n - 2)) ELSE <<>>

(* The fields of the lines that end within the first bytes of a segment.   *)
FieldsWithin(segment, length) ==
  LET fields[n \in Nat] ==
        IF n = 0 THEN <<>> ELSE fields[n - 1] \o FieldEndingAt(segment, n)
  IN  fields[length]

HeaderEnds(segment) == Find(segment, CRLF \o CRLF)
BlockLength(segment) == (CHOOSE i \in HeaderEnds(segment) : TRUE) + 4
BodyOf(segment) == From(segment, BlockLength(segment))

(* A segment with a header block and anything after it is a part.          *)
IsPart(segment) == HeaderEnds(segment) # {} /\ BodyOf(segment) # <<>>

BeginOf(segment) == BeginEvent(FieldsWithin(segment, BlockLength(segment) - 2))

(* The limit on a header block, as a reader of the message counts it.      *)
OverLimit(length) == \E limit \in MaxTotalHeaderSize : length > limit

(* Body data do not include the line end before the token: CRLF, or either *)
(* byte of it alone.                                                       *)
WithoutLineEnd(body) ==
  LET cuts == {n \in 0..Len(body) : From(body, n) \in {<<>>, <<CR>>, <<LF>>, CRLF}}
  IN  Upto(body, CHOOSE n \in cuts : \A m \in cuts : n <= m)

(* The k-th segment's events.  The last segment has no token after it: its *)
(* part is never ended, and its body keeps its trailing line end.  A raw   *)
(* segment is reported only when the token after it has a decided suffix.  *)
SegmentEvents(segments, k) ==
  LET segment == segments[k]
      last == k = Len(segments)
      body == BodyOf(segment)
      decided == ~(k + 1 = Len(segments) /\ IsIncomplete(segments[k + 1]))
  IN  CASE k \notin 2..Len(segments) -> <<>>
        [] k \in 2..Len(segments) /\ last /\ HeaderEnds(segment) # {} ->
             <<BeginOf(segment)>> \o DataOf(body)
        [] k \in 2..Len(segments) /\ ~last /\ IsPart(segment) ->
             <<BeginOf(segment)>> \o DataOf(WithoutLineEnd(body)) \o <<EndEvent>>
        [] k \in 2..Len(segments) /\ ~last /\ ~IsPart(segment) /\ decided -> <<RawEvent>>
        [] OTHER -> <<>>

(* What the first segments mean.                                           *)
EventsWithin(segments, count) ==
  LET told[k \in Nat] ==
        IF k = 0 THEN <<>> ELSE told[k - 1] \o SegmentEvents(segments, k)
  IN  told[count]

Reference(message) ==
  LET segments == SplitAtTokens(message)
  IN  EventsWithin(segments, Len(segments))

(* When finish() accepts the message.                                      *)
IsComplete(message) ==
  LET segments == SplitAtTokens(message)
      n == Len(segments)
      tail == segments[n]
      before == segments[n - 1]
  IN  /\ n > 1
      /\ IF IsIncomplete(tail)
         THEN /\ n > 2
              /\ \/ IsPart(before) /\ tail = <<>>
                 \/ HeaderEnds(before) = {} /\ IsClose(before \o Token)
         ELSE IsClose(tail) /\ HeaderEnds(tail) = {}

(***************************************************************************)
(* Some segment is over that limit: a header block, from the token before  *)
(* it to the end of the empty line, or a segment that has none.  While     *)
(* there is `more' to come, the chunk that is refused may end in the token *)
(* behind such a segment, and the beginning of the token is then charged   *)
(* with it (multipart.rs:458).  When the input has `ended', a last segment *)
(* that exactly fills the limit is refused already (:350), and the token   *)
(* between a raw block and an undecided suffix is charged with the suffix  *)
(* (:333-336).                                                             *)
(***************************************************************************)
HasSegmentOverLimit(message, more, ended) ==
  LET segments == SplitAtTokens(message)
      afterRawBlock(k) ==
        /\ k > 2 /\ HeaderEnds(segments[k - 1]) = {} /\ OpenLength(segments[k - 1]) # {}
        /\ IsIncomplete(segments[k])
      beyond(k) == CASE k < Len(segments) -> IF more THEN Len(Token) - 1 ELSE 0
                     [] k = Len(segments) /\ ended ->
                          IF afterRawBlock(k) THEN Len(Token) + 1 ELSE 1
                     [] OTHER -> 0
      charge(k) == IF HeaderEnds(segments[k]) # {} THEN BlockLength(segments[k])
                   ELSE Len(segments[k]) + beyond(k)
  IN  \E k \in 2..Len(segments) : OverLimit(charge(k))

-----------------------------------------------------------------------------
(* append_events of the fuzz target: adjacent Data events are one.         *)
AppendEvent(output, event) ==
  LET n == Len(output)
  IN  IF n > 0 /\ event.kind = "Data" /\ output[n].kind = "Data"
      THEN [output EXCEPT ![n].data = @ \o event.data]
      ELSE Append(output, event)

AppendEvents(output, produced) ==
  LET joined[n \in 0..Len(produced)] ==
        IF n = 0 THEN output ELSE AppendEvent(joined[n - 1], produced[n])
  IN  joined[Len(produced)]

(* s is what has been delivered of t, whose last Data may still be growing. *)
DeliveredOf(s, t) ==
  /\ Len(s) <= Len(t)
  /\ \A i \in 1..Len(s) :
       \/ s[i] = t[i]
       \/ /\ i = Len(s)
          /\ s[i].kind = "Data" /\ t[i].kind = "Data"
          /\ StartsWith(t[i].data, s[i].data)
=============================================================================
