--------------------------- MODULE MultipartParser ---------------------------
(***************************************************************************)
(* The Sans-IO multipart parser of multipart.rs: one object that is fed    *)
(* chunks, buffers what it cannot classify yet, and returns batches of     *)
(* events.  feed_map_data is a loop that calls the handler of the current  *)
(* state until a handler makes no progress; each call of a handler is one  *)
(* step here.  An Err leaves through `?', so the events that the same call *)
(* of feed had already collected are lost to the caller.                   *)
(*                                                                         *)
(* A definition whose name has a suffix after an underscore (Exceeds_AtLimit) *)
(* is a variant of the one that follows it, with a defect that the         *)
(* properties have to notice; the specification does not use it.           *)
(***************************************************************************)
EXTENDS MultipartBytes

CONSTANTS Chunks,              \* the chunks a caller may feed
          MaxSize,             \* max_size: Option<usize>
          MaxHeaderCount,      \* max_header_count
          MaxHeaderSize,       \* max_header_size
          MaxTotalHeaderSize   \* max_total_header_size: Option<usize>

ASSUME ChunksAssumption == Chunks \subseteq Seq(Byte)

ASSUME LimitsAssumption ==
  /\ MaxSize \subseteq Nat /\ MaxTotalHeaderSize \subseteq Nat
  /\ MaxHeaderCount \in Nat /\ MaxHeaderSize \in Nat

VARIABLES
  state,      \* MultipartState
  buffer,     \* the bytes not consumed yet
  size,       \* the bytes fed so far
  headers,    \* current_headers
  total,      \* current_total_header_size
  pending,    \* pending_headers: the header block is complete, Begin is not sent
  eof,        \* eof_received
  phase,      \* idle between calls, feeding inside feed's loop, raised after an Err
  error,      \* what the Err says
  events,     \* the Vec that the running call of feed has collected
  received    \* every event the calls have returned so far

parserVars == <<state, buffer, headers, total, pending>>
callVars == <<phase, error, events, received>>
vars == <<state, buffer, size, headers, total, pending, eof,
          phase, error, events, received>>

States == {"Preamble", "Header", "Body", "Discard", "End"}
Headers == Seq([name : Seq(Byte), value : Seq(Byte)])
Event == [kind : {"Begin"}, headers : Headers]
           \cup [kind : {"Data"}, data : Seq(Byte)]
           \cup [kind : {"End", "Raw"}]
Errors == {"none", "HeaderLimit", "TooLarge", "FedAfterEof"}

BeginEvent(fields) == [kind |-> "Begin", headers |-> fields]
DataEvent(bytes) == [kind |-> "Data", data |-> bytes]
EndEvent == [kind |-> "End"]
RawEvent == [kind |-> "Raw"]

TypeOK ==
  /\ state \in States
  /\ buffer \in Seq(Byte)
  /\ size \in Nat
  /\ headers \in Headers
  /\ total \in Nat
  /\ pending \in BOOLEAN
  /\ eof \in BOOLEAN
  /\ phase \in {"idle", "feeding", "raised"}
  /\ error \in Errors
  /\ events \in Seq(Event)
  /\ received \in Seq(Event)

Init ==
  /\ state = "Preamble"
  /\ buffer = <<>>
  /\ size = 0
  /\ headers = <<>>
  /\ total = 0
  /\ pending = FALSE
  /\ eof = FALSE
  /\ phase = "idle"
  /\ error = "none"
  /\ events = <<>>
  /\ received = <<>>

-----------------------------------------------------------------------------
(* How a handler ends: Ok(true), Ok(false), or Err.                        *)
Continue(new) ==
  /\ events' = events \o new
  /\ UNCHANGED <<phase, error, received>>

Return(new) ==
  /\ phase' = "idle"
  /\ received' = received \o (events \o new)
  /\ events' = <<>>
  /\ UNCHANGED error

Raise(reason) ==
  /\ phase' = "raised"
  /\ error' = reason
  /\ events' = <<>>
  /\ UNCHANGED received

Exceeds_AtLimit(length) == \E limit \in MaxTotalHeaderSize : length >= limit

(* check_total_header_size, and what check_incomplete_header_prefix adds.   *)
Exceeds(length) == \E limit \in MaxTotalHeaderSize : length > limit

PrefixExceeds_Uncounted(spent, tail) == ~StartsWith(tail, <<DASH>>) /\ Exceeds(spent)

PrefixExceeds(spent, tail) == ~StartsWith(tail, <<DASH>>) /\ Exceeds(spent + Len(tail))

(* emit_data pushes nothing for an empty slice.                            *)
DataOf(bytes) == IF bytes = <<>> THEN <<>> ELSE <<DataEvent(bytes)>>

TailAt(index) == From(buffer, index + Len(Token))

(* The padding after the token is not charged.                             *)
AfterToken_PaddingFree(index, spent) ==
  \/ \E consumed \in OpenLength(TailAt(index)) :
       /\ state' = "Header"
       /\ total' = 0
       /\ buffer' = From(TailAt(index), consumed)
  \/ /\ ~\E consumed \in OpenLength(TailAt(index)) : TRUE
     /\ ~IsIncomplete(TailAt(index))
     /\ state' = IF IsClose(TailAt(index)) THEN "End" ELSE "Discard"
     /\ total' = spent
     /\ buffer' = TailAt(index)

(* `consumed' is taken to count from the start of the token.               *)
AfterToken_Underflow(index, spent) ==
  \/ \E consumed \in OpenLength(TailAt(index)) :
       /\ state' = "Header"
       /\ total' = consumed - Len(Token)
       /\ buffer' = From(TailAt(index), consumed)
  \/ /\ ~\E consumed \in OpenLength(TailAt(index)) : TRUE
     /\ ~IsIncomplete(TailAt(index))
     /\ state' = IF IsClose(TailAt(index)) THEN "End" ELSE "Discard"
     /\ total' = spent
     /\ buffer' = TailAt(index)

(***************************************************************************)
(* The arms that every handler shares once the token at index has a        *)
(* decided suffix: Open, Close, Invalid and BareLineFeed.  `spent' is what *)
(* current_total_header_size holds when no new header block starts.        *)
(***************************************************************************)
AfterToken(index, spent) ==
  \/ \E consumed \in OpenLength(TailAt(index)) :
       /\ state' = "Header"
       /\ total' = consumed
       /\ buffer' = From(TailAt(index), consumed)
  \/ /\ IsClose(TailAt(index))
     /\ state' = "End"
     /\ total' = spent
     /\ buffer' = TailAt(index)
  \/ /\ IsUnusable(TailAt(index))
     /\ state' = "Discard"
     /\ total' = spent
     /\ buffer' = TailAt(index)

-----------------------------------------------------------------------------
(* handle_preamble                                                         *)
PreambleToken ==
  /\ state = "Preamble"
  /\ \E index \in Find(buffer, Token) : AfterToken(index, total)
  /\ UNCHANGED <<headers, pending>>
  /\ Continue(<<>>)

(* Ok(true) instead of Ok(false).                                          *)
PreambleIncomplete_Retried ==
  /\ state = "Preamble"
  /\ \E index \in Find(buffer, Token) :
       /\ IsIncomplete(TailAt(index))
       /\ buffer' = From(buffer, index)
  /\ UNCHANGED <<state, headers, total, pending>>
  /\ Continue(<<>>)

PreambleIncomplete ==
  /\ state = "Preamble"
  /\ \E index \in Find(buffer, Token) :
       /\ IsIncomplete(TailAt(index))
       /\ \/ /\ PrefixExceeds(total, TailAt(index))
             /\ Raise("HeaderLimit")
             /\ UNCHANGED buffer
          \/ /\ ~PrefixExceeds(total, TailAt(index))
             /\ buffer' = From(buffer, index)
             /\ Return(<<>>)
  /\ UNCHANGED <<state, headers, total, pending>>

(* Too little is kept of a preamble to recognise a token that is cut.      *)
PreambleScan_KeepsLess ==
  /\ state = "Preamble"
  /\ Find(buffer, Token) = {}
  /\ LET retained == Len(Token) - 2
     IN  buffer' = IF Len(buffer) > retained
                   THEN From(buffer, Len(buffer) - retained) ELSE buffer
  /\ UNCHANGED <<state, headers, total, pending>>
  /\ Return(<<>>)

PreambleScan ==
  /\ state = "Preamble"
  /\ Find(buffer, Token) = {}
  /\ LET retained == Len(Token) + 1
     IN  buffer' = IF Len(buffer) > retained
                   THEN From(buffer, Len(buffer) - retained) ELSE buffer
  /\ UNCHANGED <<state, headers, total, pending>>
  /\ Return(<<>>)

-----------------------------------------------------------------------------
(* handle_raw_boundary, called with the state `origin'.                    *)
RawBoundary(index, origin, spent) ==
  \/ /\ AfterToken(index, spent)
     /\ Continue(<<RawEvent>>)
  \/ /\ IsIncomplete(TailAt(index))
     /\ state' = origin
     /\ total' = spent
     /\ buffer' = From(buffer, index)
     /\ Return(<<>>)

(* handle_header: a boundary token before the line ends, the empty line, a *)
(* complete line, and a line whose end has not arrived.                    *)
HeaderBoundary ==
  /\ state = "Header"
  /\ \E index \in Find(buffer, Token) :
       /\ \A lineEnd \in Find(buffer, CRLF) : index < lineEnd
       /\ \/ /\ index > MaxHeaderSize \/ Exceeds(total + index)
             /\ Raise("HeaderLimit")
             /\ UNCHANGED <<state, buffer, headers, total>>
          \/ /\ ~(index > MaxHeaderSize \/ Exceeds(total + index))
             /\ headers' = <<>>
             /\ RawBoundary(index, "Header", 0)
  /\ UNCHANGED pending

(* The empty line is left in the buffer.                                   *)
HeaderEnd_Undrained ==
  /\ state = "Header"
  /\ 0 \in Find(buffer, CRLF)
  /\ pending' = TRUE
  /\ state' = "Body"
  /\ Continue(<<>>)
  /\ UNCHANGED <<buffer, headers, total>>

HeaderEnd ==
  /\ state = "Header"
  /\ 0 \in Find(buffer, CRLF)
  /\ \/ /\ Exceeds(total + Len(CRLF))
        /\ Raise("HeaderLimit")
        /\ UNCHANGED <<state, buffer, pending>>
     \/ /\ ~Exceeds(total + Len(CRLF))
        /\ buffer' = From(buffer, Len(CRLF))
        /\ pending' = TRUE
        /\ state' = "Body"
        /\ Continue(<<>>)
  /\ UNCHANGED <<headers, total>>

(* One field more than the limit is let through.                           *)
LineRefused_OneMore(index) ==
  \/ index > MaxHeaderSize
  \/ Exceeds(total + index + Len(CRLF))
  \/ /\ Find(Upto(buffer, index), <<COLON>>) # {}
     /\ Len(headers) > MaxHeaderCount

(* The limits on a complete line of this length; only fields are counted.  *)
LineRefused(index) ==
  \/ index > MaxHeaderSize
  \/ Exceeds(total + index + Len(CRLF))
  \/ /\ Find(Upto(buffer, index), <<COLON>>) # {}
     /\ Len(headers) = MaxHeaderCount

(* A line without a colon is charged to the limit and otherwise ignored.   *)
HeaderLine ==
  /\ state = "Header"
  /\ \E index \in Find(buffer, CRLF) :
       LET line == Upto(buffer, index)
       IN  /\ index > 0
           /\ \A boundary \in Find(buffer, Token) : index <= boundary
           /\ \/ /\ LineRefused(index)
                 /\ Raise("HeaderLimit")
                 /\ UNCHANGED <<buffer, headers, total>>
              \/ /\ ~LineRefused(index)
                 /\ \/ /\ Find(line, <<COLON>>) = {}
                       /\ UNCHANGED headers
                    \/ \E separator \in Find(line, <<COLON>>) :
                         headers' = Append(headers, Field(line, separator))
                 /\ total' = total + index + Len(CRLF)
                 /\ buffer' = From(buffer, index + Len(CRLF))
                 /\ Continue(<<>>)
  /\ UNCHANGED <<state, pending>>

(* The beginning of a token is charged at once, as in a raw segment.       *)
Undecided_ChargesToken ==
  IF buffer # <<>> /\ buffer[Len(buffer)] = CR THEN 1 ELSE 0

(* A trailing CR or the beginning of a token is not charged yet.           *)
Undecided ==
  IF buffer # <<>> /\ buffer[Len(buffer)] = CR THEN 1 ELSE PartialSuffixLength(buffer)

HeaderPartial ==
  /\ state = "Header"
  /\ Find(buffer, Token) = {}
  /\ Find(buffer, CRLF) = {}
  /\ LET charged == Len(buffer) - Undecided
         refused == charged > MaxHeaderSize \/ Exceeds(total + charged)
     IN  \/ refused /\ Raise("HeaderLimit")
         \/ ~refused /\ Return(<<>>)
  /\ UNCHANGED parserVars

-----------------------------------------------------------------------------
(***************************************************************************)
(* handle_body.  While pending, Begin waits until it is known that no      *)
(* boundary token follows the headers at once; then the same call sends it *)
(* and searches the body.                                                  *)
(***************************************************************************)
BodyAwaitsToken ==
  /\ state = "Body"
  /\ pending
  /\ Len(buffer) < Len(Token)
  /\ StartsWith(Token, buffer)
  /\ UNCHANGED parserVars
  /\ Return(<<>>)

(* The state is left as it is when an empty body turns out to be raw.      *)
BodyIsRaw_StaysInBody ==
  /\ state = "Body"
  /\ pending
  /\ StartsWith(buffer, Token)
  /\ headers' = <<>>
  /\ pending' = FALSE
  /\ RawBoundary(0, "Body", 0)

BodyIsRaw ==
  /\ state = "Body"
  /\ pending
  /\ StartsWith(buffer, Token)
  /\ headers' = <<>>
  /\ pending' = FALSE
  /\ RawBoundary(0, "Discard", 0)

BodyBegun ==
  /\ state = "Body"
  /\ pending => ~StartsWith(buffer, Token) /\ ~StartsWith(Token, buffer)
  /\ pending' = FALSE
  /\ headers' = IF pending THEN <<>> ELSE headers

Began == IF pending THEN <<BeginEvent(headers)>> ELSE <<>>
(* The account is not reset when Begin is sent.                            *)
Spent_NotReset == total

Spent == IF pending THEN 0 ELSE total

BodyToken ==
  /\ BodyBegun
  /\ \E index \in Find(buffer, Token) :
       /\ AfterToken(index, Spent)
       /\ Continue(Began \o DataOf(Upto(buffer, BodyDataEnd(buffer, index))) \o <<EndEvent>>)

(* Begin is forgotten when the first data ends in an undecided delimiter.  *)
BodyIncomplete_NoBegin ==
  /\ BodyBegun
  /\ \E index \in Find(buffer, Token) :
       LET dataEnd == BodyDataEnd(buffer, index)
       IN  /\ IsIncomplete(TailAt(index))
           /\ buffer' = From(buffer, dataEnd)
           /\ Return(DataOf(Upto(buffer, dataEnd)))
  /\ total' = Spent
  /\ UNCHANGED state

BodyIncomplete ==
  /\ BodyBegun
  /\ \E index \in Find(buffer, Token) :
       LET dataEnd == BodyDataEnd(buffer, index)
       IN  /\ IsIncomplete(TailAt(index))
           /\ \/ /\ PrefixExceeds(Spent, TailAt(index))
                 /\ Raise("HeaderLimit")
                 /\ UNCHANGED buffer
              \/ /\ ~PrefixExceeds(Spent, TailAt(index))
                 /\ buffer' = From(buffer, dataEnd)
                 /\ Return(Began \o DataOf(Upto(buffer, dataEnd)))
  /\ total' = Spent
  /\ UNCHANGED state

BodyScan ==
  /\ BodyBegun
  /\ Find(buffer, Token) = {}
  /\ LET retained == DelimiterLength - 1
         emitted == IF Len(buffer) > retained THEN Len(buffer) - retained ELSE 0
     IN  /\ buffer' = From(buffer, emitted)
         /\ Return(Began \o DataOf(Upto(buffer, emitted)))
  /\ total' = Spent
  /\ UNCHANGED state

-----------------------------------------------------------------------------
(* handle_raw_segment: what follows a token that opens no part is searched *)
(* for a header block or for the next token.                               *)
RawHeaders ==
  /\ state \in {"Discard", "End"}
  /\ \E headerEnd \in Find(buffer, CRLF \o CRLF) :
       \A boundary \in Find(buffer, Token) : headerEnd < boundary
  /\ headers' = <<>>
  /\ total' = 0
  /\ state' = "Header"
  /\ UNCHANGED <<buffer, pending>>
  /\ Continue(<<>>)

RawToken ==
  /\ state \in {"Discard", "End"}
  /\ \E index \in Find(buffer, Token) :
       /\ \A headerEnd \in Find(buffer, CRLF \o CRLF) : ~(headerEnd < index)
       /\ RawBoundary(index, state, total)
  /\ UNCHANGED <<headers, pending>>

RawPartial ==
  /\ state \in {"Discard", "End"}
  /\ Find(buffer, CRLF \o CRLF) = {}
  /\ Find(buffer, Token) = {}
  /\ \/ Exceeds(total + Len(buffer)) /\ Raise("HeaderLimit")
     \/ ~Exceeds(total + Len(buffer)) /\ Return(<<>>)
  /\ UNCHANGED parserVars

-----------------------------------------------------------------------------
(* One pass of the loop of feed_map_data.                                  *)
Loop ==
  /\ phase = "feeding"
  /\ \/ PreambleToken \/ PreambleIncomplete \/ PreambleScan
     \/ HeaderBoundary \/ HeaderEnd \/ HeaderLine \/ HeaderPartial
     \/ BodyAwaitsToken \/ BodyIsRaw \/ BodyToken \/ BodyIncomplete \/ BodyScan
     \/ RawHeaders \/ RawToken \/ RawPartial
  /\ UNCHANGED <<size, eof>>

(* Each chunk has the limit for itself.                                    *)
TooLarge_ByChunk(chunk) == \E limit \in MaxSize : Len(chunk) > limit

TooLarge(chunk) == \E limit \in MaxSize : size + Len(chunk) > limit

(* The entry of feed_map_data, up to its loop.                             *)
Feed(chunk) ==
  /\ phase = "idle"
  /\ \/ /\ eof
        /\ Raise("FedAfterEof")
        /\ UNCHANGED <<size, buffer>>
     \/ /\ ~eof /\ TooLarge(chunk)
        /\ Raise("TooLarge")
        /\ UNCHANGED <<size, buffer>>
     \/ /\ ~eof /\ ~TooLarge(chunk)
        /\ size' = size + Len(chunk)
        /\ buffer' = buffer \o chunk
        /\ phase' = "feeding"
        /\ UNCHANGED <<error, events, received>>
  /\ UNCHANGED <<state, headers, total, pending, eof>>

(***************************************************************************)
(* feed_eof_map_data.  A second call returns no event and changes nothing: *)
(* it would be a stuttering step.                                          *)
(***************************************************************************)
EofHeaderSize ==
  LET suffix(length) == From(buffer, length)
      open(length) == IF /\ IsIncomplete(suffix(length))
                         /\ ~StartsWith(suffix(length), <<DASH>>)
                      THEN {Len(suffix(length))} ELSE {}
  IN  CASE state = "Header" -> {total + Len(buffer)}
        [] state = "Preamble" /\ StartsWith(buffer, Token) -> open(Len(Token))
        [] state = "Body" /\ StartsWith(buffer, CRLF \o Token) -> open(DelimiterLength)
        [] OTHER -> {}

EofRefused == \E length \in EofHeaderSize, limit \in MaxTotalHeaderSize : length >= limit

FeedEof ==
  /\ phase = "idle"
  /\ ~eof
  /\ eof' = TRUE
  /\ pending' = FALSE
  /\ \/ /\ EofRefused
        /\ total' = Spent
        /\ headers' = IF pending THEN <<>> ELSE headers
        /\ Raise("HeaderLimit")
        /\ UNCHANGED <<state, buffer>>
     \/ /\ ~EofRefused
        /\ total' = Spent
        /\ headers' = <<>>
        /\ buffer' = <<>>
        /\ \/ /\ state = "Body"
              /\ \E index \in Find(buffer, Token) :
                   /\ IsIncomplete(TailAt(index))
                   /\ state' = IF TailAt(index) = <<>> THEN "End" ELSE "Discard"
                   /\ Return(Began \o DataOf(Upto(buffer, BodyDataEnd(buffer, index)))
                                   \o <<EndEvent>>)
           \/ /\ state = "Body"
              /\ \A index \in Find(buffer, Token) : ~IsIncomplete(TailAt(index))
              /\ Return(Began \o DataOf(buffer))
              /\ UNCHANGED state
           \/ /\ state # "Body"
              /\ Return(Began)
              /\ UNCHANGED state
  /\ UNCHANGED size

(* The callers drop a parser that has raised.                              *)
Dropped == phase = "raised" /\ UNCHANGED vars

Next == (\E chunk \in Chunks : Feed(chunk)) \/ Loop \/ FeedEof \/ Dropped

Spec == Init /\ [][Next]_vars

(* finish()                                                                *)
Finished == state = "End"

(* feed's loop does not block: it runs to its return once entered.         *)
FairSpec == Spec /\ WF_vars(Loop)
=============================================================================
