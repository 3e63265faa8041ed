---------------------------- MODULE ReadingProofs ----------------------------
(***************************************************************************)
(* The parser reads the message: whatever chunks it is fed, what it has    *)
(* told is what the segments before the one it is in mean, and in that     *)
(* segment it is where the reference would be. From that invariant         *)
(* (ReadInv): nothing is ever told that the message does not mean, and     *)
(* once the input has ended the events are those of the message and        *)
(* finish() accepts exactly the complete messages. With an account of what *)
(* has been charged to the header limits (ReckonInv): no part is begun     *)
(* whose header block is over them, and (RefusalInv) a parse is refused    *)
(* for its headers only if some segment of the message is.                 *)
(***************************************************************************)
EXTENDS ReferenceProofs

-----------------------------------------------------------------------------
(* Where in the message the parser is.                                     *)

(* What the parser has told so far, as a caller sees it.                   *)
Produced == Joined(History)

(* The lines of a header block that have been read.                        *)
HeaderLines(piece, q, fields) ==
  /\ q = 0 \/ EndsLine(piece, q)
  /\ \A h \in Occurrences(piece, CRLF \o CRLF) : q <= h + 2
  /\ fields = FieldsWithin(piece, q)
  /\ \/ OpenLength(piece) # {} /\ q > 0
     \/ OpenLength(piece) = {} /\ HeaderEnds(piece) # {}

(* Header: the lines before p have been read, or all of a segment that has *)
(* no header block (handle_header).                                        *)
InHeader(m, k, p, f) ==
  /\ Produced = Told(m, k - 1)
  /\ \/ /\ p = EndOf(m, k) /\ TokenSeen(m, k, f)
        /\ OpenLength(PieceOf(m, k)) # {} /\ HeaderEnds(PieceOf(m, k)) = {}
        /\ headers = <<>>
     \/ HeaderLines(PieceOf(m, k), p - StartOf(m, k), headers)

(* Discard and End: a segment that is no part, known by its suffix, or     *)
(* read to its token (handle_raw).                                         *)
InRaw(m, k, p, f) ==
  /\ Produced = Told(m, k - 1)
  /\ headers = <<>>
  /\ \/ /\ p = EndOf(m, k) /\ TokenSeen(m, k, f)
        /\ ~IsPart(PieceOf(m, k))
        /\ HeaderEnds(PieceOf(m, k)) = {} => (state = "End" <=> IsClose(RestOf(m, k)))
        /\ state = "End" => HeaderEnds(PieceOf(m, k)) = {}
     \/ /\ p = StartOf(m, k)
        /\ IF state = "End" THEN IsClose(RestOf(m, k)) ELSE IsUnusable(RestOf(m, k))

(* Body with its Begin withheld: nothing of the body has been read.        *)
InBegin(m, k, p) ==
  /\ Produced = Told(m, k - 1)
  /\ HeaderEnds(PieceOf(m, k)) # {}
  /\ p = BodyStart(m, k)
  /\ headers = FieldsWithin(PieceOf(m, k), BlockLength(PieceOf(m, k)) - 2)

(* Where body data may have been cut.                                      *)
DataCut(m, k, p) ==
  /\ HeaderEnds(PieceOf(m, k)) # {}
  /\ BodyStart(m, k) <= p
  /\ k < Count(m) =>
       /\ BodyStart(m, k) < EndOf(m, k) /\ p <= DataEnd(m, k)
       /\ p = BodyStart(m, k) \/ p + 2 <= EndOf(m, k) \/ p = DataEnd(m, k)

(* Body: the data up to p have been sent.                                  *)
InData(m, k, p) ==
  /\ Produced = (Told(m, k - 1) \o <<BeginOf(PieceOf(m, k))>>)
                  \o DataOf(Slice(m, BodyStart(m, k), p))
  /\ headers = <<>>
  /\ DataCut(m, k, p)

(* The bytes from p to f of the message are buffered, p is in segment k,   *)
(* and the parser knows what the segments before it mean.                  *)
At(m, k, p, f) ==
  /\ Window(m, k, p, f)
  /\ buffer = Slice(m, p, f)
  /\ state = "Preamble" => k = 1 /\ Produced = <<>> /\ headers = <<>>
  /\ state # "Preamble" => k \in 2..Count(m)
  /\ state = "Header" => InHeader(m, k, p, f)
  /\ state = "Body" /\ pending => InBegin(m, k, p)
  /\ state = "Body" /\ ~pending => InData(m, k, p)
  /\ state \in {"Discard", "End"} => InRaw(m, k, p, f)

(* What the return of feed leaves to be decided by more bytes.             *)
Quiet(m, k, p, f) ==
  \/ /\ ~pending /\ TokenSeen(m, k, f) /\ IsIncomplete(Suffix(m, k, f))
     /\ state \in {"Header", "Discard", "End"} => p = EndOf(m, k)
  \/ /\ ~TokenSeen(m, k, f)
     /\ state = "Header" => Find(buffer, CRLF) = {}
     /\ pending => Len(buffer) < Len(Token) /\ StartsWith(Token, buffer)
     /\ state \in {"Discard", "End"} => Find(buffer, CRLF \o CRLF) = {}

-----------------------------------------------------------------------------
(* The arms after a token.                                                 *)

(* What a step sends is joined to what was told.                           *)
LEMMA ProducedGrows ==
  ASSUME TypeOK, NEW new \in Seq(Event), Continue(new) \/ Return(new)
  PROVE  Produced' = Joined(History \o new)
<1>1. History' = History \o new
  BY HistoryType
<1>2. Produced' = Joined(History')
  BY DEF Produced
<1> QED
  BY <1>1, <1>2

(* A token that is found ends the segment.                                 *)
LEMMA TokenPlace ==
  ASSUME NEW m, NEW k, NEW p, NEW f, Window(m, k, p, f), buffer = Slice(m, p, f),
         NEW index \in Find(buffer, Token)
  PROVE  /\ index = EndOf(m, k) - p /\ index \in Nat
         /\ TokenSeen(m, k, f) /\ k < Count(m)
         /\ Window(m, k, EndOf(m, k), f)
         /\ Window(m, k + 1, StartOf(m, k + 1), f)
         /\ From(buffer, index) = Slice(m, EndOf(m, k), f)
         /\ TailAt(index) = Suffix(m, k, f)
<1> DEFINE E == EndOf(m, k)
<1>1. index = E - p /\ TokenSeen(m, k, f)
  BY TokenInBuffer
<1>2. k < Count(m) /\ E + Len(Token) <= f
  BY <1>1 DEF TokenSeen
<1>3. /\ m \in Seq(Byte) /\ Len(m) \in Nat /\ Count(m) \in Nat
      /\ k \in 1..Count(m) /\ p \in Nat /\ f \in Nat
      /\ StartOf(m, k) \in Nat /\ E \in Nat
      /\ StartOf(m, k) <= p /\ p <= E
      /\ p <= f /\ f <= Len(m)
      /\ k + 1 \in 1..Count(m)
      /\ StartOf(m, k + 1) = E + Len(Token)
  BY <1>2, WindowBounds
<1>4. Len(Token) \in Nat
  BY TokenBytes
<1>5. E <= f /\ StartOf(m, k) <= E /\ E - p \in Nat /\ p + (E - p) = E /\ E - p <= f - p
  BY <1>2, <1>3, <1>4
<1>6. Window(m, k, E, f)
  BY <1>3, <1>5 DEF Window
<1>7. Window(m, k + 1, StartOf(m, k + 1), f)
  <2>1. StartOf(m, k + 1) <= EndOf(m, k + 1)
    BY <1>3, SegmentBounds
  <2>2. StartOf(m, k + 1) \in Nat /\ StartOf(m, k + 1) <= f
    BY <1>2, <1>3, <1>4
  <2> QED
    BY <1>3, <2>1, <2>2 DEF Window
<1>8. From(Slice(m, p, f), E - p) = Slice(m, E, f)
  <2> DEFINE c == E - p
  <2>1. /\ m \in Seq(Byte) /\ p \in Nat /\ f \in Nat /\ p <= f /\ f <= Len(m)
        /\ c \in Nat /\ c <= f - p
    BY <1>3, <1>5
  <2> HIDE DEF c
  <2>2. From(Slice(m, p, f), c) = Slice(m, p + c, f)
    <3>1. Within(m, p, f, c)
      BY <2>1 DEF Within
    <3> QED
      BY <3>1, EndsOfSlice
  <2> QED
    BY <1>5, <2>2 DEF c
<1>9. From(Slice(m, p, f), (E - p) + Len(Token)) = Slice(m, StartOf(m, k + 1), f)
  <2> DEFINE c == (E - p) + Len(Token)
  <2>1. /\ m \in Seq(Byte) /\ p \in Nat /\ f \in Nat /\ p <= f /\ f <= Len(m)
        /\ c \in Nat /\ c <= f - p
    BY <1>2, <1>3, <1>4, <1>5, SMTT(60)
  <2>2. p + c = StartOf(m, k + 1)
    BY <1>3, <1>4
  <2> HIDE DEF c
  <2>3. From(Slice(m, p, f), c) = Slice(m, p + c, f)
    <3>1. Within(m, p, f, c)
      BY <2>1 DEF Within
    <3> QED
      BY <3>1, EndsOfSlice
  <2> QED
    BY <2>2, <2>3 DEF c
<1> QED
  BY <1>1, <1>2, <1>5, <1>6, <1>7, <1>8, <1>9 DEF TailAt, Suffix

(* The arms after a token with a decided suffix.                           *)
LEMMA TokenStep ==
  ASSUME TypeOK, NEW m, NEW k, NEW p, NEW f, Window(m, k, p, f), buffer = Slice(m, p, f),
         NEW index \in Find(buffer, Token), NEW spent, AfterToken(index, spent),
         NEW new \in Seq(Event), Continue(new),
         headers' = <<>>, ~EndsUndecided(m, k) => Joined(History \o new) = Told(m, k)
  PROVE  \E q : At(m, k + 1, q, f)'
<1> DEFINE S == StartOf(m, k + 1)
           tail == TailAt(index)
           piece == PieceOf(m, k + 1)
<1>1. /\ k < Count(m) /\ Window(m, k + 1, S, f) /\ tail = Slice(m, S, f)
  BY TokenPlace DEF Suffix
<1>2. /\ m \in Seq(Byte) /\ k \in Nat /\ k + 1 \in 2..Count(m) /\ (k + 1) - 1 = k
      /\ S \in Nat /\ f \in Nat /\ S <= f /\ f <= Len(m) /\ Len(m) \in Nat
  <2>1. k \in 1..Count(m) /\ k \in Nat /\ Count(m) \in Nat /\ m \in Seq(Byte)
    BY WindowBounds
  <2>2. S \in Nat /\ f \in Nat /\ S <= f /\ f <= Len(m) /\ Len(m) \in Nat
    BY <1>1, WindowBounds, Zenon
  <2> QED
    BY <1>1, <2>1, <2>2
<1>3. \/ \E n \in OpenLength(tail) : state' = "Header" /\ buffer' = From(tail, n)
      \/ IsClose(tail) /\ state' = "End" /\ buffer' = tail
      \/ IsUnusable(tail) /\ state' = "Discard" /\ buffer' = tail
  BY DEF AfterToken
<1>4. Produced' = Told(m, (k + 1) - 1)
  <2>1. OpenLength(tail) # {} \/ IsClose(tail) \/ IsUnusable(tail)
    BY <1>3
  <2>2. ~EndsUndecided(m, k)
    BY <1>1, <1>2, <2>1, DecidedAhead
  <2>3. Joined(History \o new) = Told(m, k)
    BY <2>2
  <2>4. Produced' = Joined(History \o new)
    BY ProducedGrows
  <2> QED
    BY <1>2, <2>3, <2>4
<1> HIDE DEF S, tail, piece
<1>5. ASSUME NEW n \in OpenLength(tail), state' = "Header", buffer' = From(tail, n)
      PROVE  At(m, k + 1, S + n, f)'
  <2>1. /\ n \in Nat /\ n >= 2 /\ S + n <= EndOf(m, k + 1) /\ S + n <= f
        /\ n \in OpenLength(piece)
        /\ EndsLine(piece, n)
        /\ FieldsWithin(piece, n) = <<>>
        /\ \A h \in Occurrences(piece, CRLF \o CRLF) : n <= h + 2
    BY <1>1, <1>5, OpenAhead DEF S, piece
  <2>2. /\ S + n \in Nat /\ S <= S + n /\ n <= f - S /\ (S + n) - S = n /\ n > 0
    BY <1>2, <2>1
  <2>3. Window(m, k + 1, S + n, f)
    BY <1>1, <1>2, <2>1, <2>2 DEF Window, S
  <2>4. buffer' = Slice(m, S + n, f)
    <3>1. /\ m \in Seq(Byte) /\ S \in Nat /\ f \in Nat /\ S <= f /\ f <= Len(m)
          /\ n \in Nat /\ n <= f - S
      BY <1>2, <2>1, <2>2
    <3>2. From(Slice(m, S, f), n) = Slice(m, S + n, f)
      <4>1. Within(m, S, f, n)
        BY <3>1 DEF Within
      <4> QED
        BY <4>1, EndsOfSlice
    <3> QED
      BY <1>1, <1>5, <3>2
  <2>5. HeaderLines(piece, n, headers')
    BY <2>1, <2>2 DEF HeaderLines
  <2>6. InHeader(m, k + 1, S + n, f)'
    BY <1>4, <2>2, <2>5 DEF InHeader, piece, S
  <2> QED
    BY <1>2, <1>5, <2>3, <2>4, <2>6 DEF At
<1>6. ASSUME \/ IsClose(tail) /\ state' = "End"
             \/ IsUnusable(tail) /\ state' = "Discard",
             buffer' = tail
      PROVE  At(m, k + 1, S, f)'
  <2>1. IF state' = "End" THEN IsClose(RestOf(m, k + 1)) ELSE IsUnusable(RestOf(m, k + 1))
    <3>1. /\ IsClose(tail) => IsClose(RestOf(m, k + 1))
          /\ IsUnusable(tail) => IsUnusable(RestOf(m, k + 1))
      BY <1>1, <1>2, DecidedAhead DEF S
    <3> QED
      BY <1>6, <3>1
  <2>2. InRaw(m, k + 1, S, f)'
    BY <1>4, <2>1 DEF InRaw, S
  <2> QED
    BY <1>1, <1>2, <1>6, <2>2 DEF At
<1> QED
  BY <1>3, <1>5, <1>6

-----------------------------------------------------------------------------
(* The steps of the loop (multipart.rs:186-505).                           *)

(* The next step of the loop stays with the message.                       *)
Reaches(m, f) ==
  \E k, p : At(m, k, p, f)' /\ (phase' = "idle" => Quiet(m, k, p, f)')

(* A step that sends nothing.                                              *)
LEMMA NothingProduced ==
  ASSUME TypeOK, Continue(<<>>) \/ Return(<<>>)
  PROVE  Produced' = Produced /\ Joined(History \o <<>>) = Produced
<1>1. <<>> \in Seq(Event)
  OBVIOUS
<1>2. Produced' = Joined(History \o <<>>)
  BY <1>1, ProducedGrows
<1>3. History \o <<>> = History
  BY HistoryType, ConcatEmptySeq
<1> QED
  BY <1>2, <1>3 DEF Produced

(* A step that sends a raw segment.                                        *)
LEMMA RawProduced ==
  ASSUME TypeOK
  PROVE  Joined(History \o <<RawEvent>>) = Produced \o <<RawEvent>>
<1>1. RawEvent \in Event /\ RawEvent.kind # "Data"
  BY EventTypes DEF RawEvent
<1>2. History \in Seq(Event)
  BY HistoryType
<1> QED
  BY <1>1, <1>2, JoinOther DEF Produced

(* A segment after the preamble.                                           *)
LEMMA SegmentNumber ==
  ASSUME NEW m, NEW k, NEW p, NEW f, Window(m, k, p, f), k \in 2..Count(m)
  PROVE  /\ m \in Seq(Byte) /\ k \in Nat /\ k \in 1..Count(m) /\ Count(m) \in Nat
         /\ PieceOf(m, k) \in Seq(Byte) /\ Len(PieceOf(m, k)) = EndOf(m, k) - StartOf(m, k)
         /\ Told(m, k - 1) \in Seq(Event)
<1>1. m \in Seq(Byte) /\ k \in Nat /\ k \in 1..Count(m) /\ Count(m) \in Nat
  BY WindowBounds
<1> QED
  BY <1>1, PieceProperties, ToldSegment

(* handle_raw_boundary, in a segment that is no part.                      *)
LEMMA BoundaryStep ==
  ASSUME TypeOK, phase = "feeding", NEW m, NEW k, NEW p, NEW f,
         Window(m, k, p, f), buffer = Slice(m, p, f), k \in 2..Count(m),
         Produced = Told(m, k - 1),
         NEW index \in Find(buffer, Token),
         NEW origin \in {"Header", "Discard", "End"}, NEW spent,
         RawBoundary(index, origin, spent), headers' = <<>>, pending' = FALSE,
         ~IsPart(PieceOf(m, k)),
         origin = "Header" => OpenLength(PieceOf(m, k)) # {} /\ HeaderEnds(PieceOf(m, k)) = {},
         origin \in {"Discard", "End"} =>
           /\ HeaderEnds(PieceOf(m, k)) = {} => (origin = "End" <=> IsClose(RestOf(m, k)))
           /\ origin = "End" => HeaderEnds(PieceOf(m, k)) = {}
  PROVE  Reaches(m, f)
<1>1. /\ TokenSeen(m, k, f) /\ k < Count(m)
      /\ Window(m, k, EndOf(m, k), f)
      /\ From(buffer, index) = Slice(m, EndOf(m, k), f)
      /\ TailAt(index) = Suffix(m, k, f)
  BY TokenPlace
<1>2. CASE AfterToken(index, spent) /\ Continue(<<RawEvent>>)
  <2>1. <<RawEvent>> \in Seq(Event)
    BY EventTypes
  <2>2. ~EndsUndecided(m, k) => Joined(History \o <<RawEvent>>) = Told(m, k)
    <3>1. ~EndsUndecided(m, k) => Told(m, k) = Told(m, k - 1) \o <<RawEvent>>
      BY <1>1, SegmentNumber, ToldSegment
    <3> QED
      BY <3>1, RawProduced
  <2>3. \E q : At(m, k + 1, q, f)'
    BY <1>2, <2>1, <2>2, TokenStep
  <2>4. phase' # "idle"
    BY <1>2 DEF Continue
  <2> QED
    BY <2>3, <2>4 DEF Reaches
<1>3. CASE /\ IsIncomplete(TailAt(index))
           /\ state' = origin
           /\ buffer' = From(buffer, index)
           /\ Return(<<>>)
  <2>1. Produced' = Told(m, k - 1)
    BY <1>3, NothingProduced
  <2>2. state' = "Header" => InHeader(m, k, EndOf(m, k), f)'
    BY <1>1, <1>3, <2>1 DEF InHeader
  <2>3. state' \in {"Discard", "End"} => InRaw(m, k, EndOf(m, k), f)'
    BY <1>1, <1>3, <2>1 DEF InRaw
  <2>4. At(m, k, EndOf(m, k), f)'
    BY <1>1, <1>3, <2>2, <2>3 DEF At
  <2>5. Quiet(m, k, EndOf(m, k), f)'
    BY <1>1, <1>3 DEF Quiet
  <2> QED
    BY <2>4, <2>5 DEF Reaches
<1> QED
  BY <1>2, <1>3 DEF RawBoundary

(* A search that finds no token keeps the last bytes.                      *)
Emitted == IF Len(buffer) > Len(Token) + 1 THEN Len(buffer) - (Len(Token) + 1) ELSE 0

(* Keeping the last bytes stays in the window.                             *)
LEMMA ScanPlace ==
  ASSUME NEW m, NEW k, NEW p, NEW f, Window(m, k, p, f), buffer = Slice(m, p, f),
         Find(buffer, Token) = {}
  PROVE  /\ ~TokenSeen(m, k, f)
         /\ Window(m, k, p + Emitted, f)
         /\ From(buffer, Emitted) = Slice(m, p + Emitted, f)
         /\ Upto(buffer, Emitted) = Slice(m, p, p + Emitted)
         /\ Slice(m, p, p + Emitted) \in Seq(Byte)
         /\ k < Count(m) => p + Emitted = p \/ (p + Emitted) + 2 <= EndOf(m, k)
         /\ p + Emitted \in Nat /\ p <= p + Emitted
<1> DEFINE n == Emitted
           E == EndOf(m, k)
<1>1. ~TokenSeen(m, k, f)
  BY TokenInBuffer
<1>2. /\ m \in Seq(Byte) /\ p \in Nat /\ f \in Nat /\ E \in Nat /\ StartOf(m, k) \in Nat
      /\ k \in 1..Count(m) /\ Count(m) \in Nat /\ Len(m) \in Nat
      /\ StartOf(m, k) <= p /\ p <= E /\ p <= f /\ f <= Len(m)
      /\ k = Count(m) => E = Len(m)
  BY WindowBounds
<1>3. Len(buffer) = f - p /\ Len(Token) \in Nat
  BY WindowBuffer, TokenBytes
<1>4. n \in Nat /\ n <= f - p /\ (n # 0 => p + n = f - (Len(Token) + 1))
  BY <1>2, <1>3 DEF Emitted
<1>5. k < Count(m) => f < E + Len(Token)
  BY <1>1, <1>2, <1>3 DEF TokenSeen
<1> HIDE DEF n, E
<1>6. k < Count(m) => p + n = p \/ (p + n) + 2 <= E
  BY <1>2, <1>3, <1>4, <1>5
<1>7. p + n \in Nat /\ p <= p + n /\ p + n <= f /\ StartOf(m, k) <= p + n
  BY <1>2, <1>4
<1>8. p + n <= E
  BY <1>2, <1>6, <1>7
<1>9. Window(m, k, p + n, f)
  BY <1>2, <1>7, <1>8 DEF Window, E
<1>10. From(Slice(m, p, f), n) = Slice(m, p + n, f) /\ Upto(Slice(m, p, f), n) = Slice(m, p, p + n)
  <2>1. m \in Seq(Byte) /\ p \in Nat /\ f \in Nat /\ p <= f /\ f <= Len(m) /\ n \in Nat /\ n <= f - p
    BY <1>2, <1>4
  <2>2. From(Slice(m, p, f), n) = Slice(m, p + n, f)
    <3>1. Within(m, p, f, n)
      BY <2>1 DEF Within
    <3> QED
      BY <3>1, EndsOfSlice
  <2>3. Upto(Slice(m, p, f), n) = Slice(m, p, p + n)
    <3>1. Within(m, p, f, n)
      BY <2>1 DEF Within
    <3> QED
      BY <3>1, EndsOfSlice
  <2> QED
    BY <2>2, <2>3
<1>11. Slice(m, p, p + n) \in Seq(Byte)
  <2>1. p + n <= Len(m)
    BY <1>2, <1>7
  <2> QED
    BY <1>2, <1>7, <2>1, SliceProperties, Zenon
<1> QED
  BY <1>1, <1>6, <1>7, <1>9, <1>10, <1>11 DEF n, E

(* handle_preamble.                                                        *)
LEMMA PreambleReads ==
  ASSUME TypeOK, PendingOnlyInBody, phase = "feeding", NEW m, NEW k, NEW p, NEW f,
         At(m, k, p, f), PreambleToken \/ PreambleIncomplete \/ PreambleScan,
         phase' # "raised"
  PROVE  Reaches(m, f)
<1>1. state = "Preamble" /\ pending = FALSE
  BY DEF PreambleToken, PreambleIncomplete, PreambleScan, PendingOnlyInBody, TypeOK
<1>2. /\ Window(m, k, p, f) /\ buffer = Slice(m, p, f)
      /\ k = 1 /\ Produced = <<>> /\ headers = <<>>
  BY <1>1 DEF At
<1>3. Told(m, k) = <<>>
  BY <1>2, WindowBounds, ToldPreamble
<1>4. <<>> \in Seq(Event)
  OBVIOUS
<1>5. CASE PreambleToken
  <2>1. PICK index \in Find(buffer, Token) : AfterToken(index, total)
    BY <1>5 DEF PreambleToken
  <2>2. headers' = <<>> /\ Continue(<<>>) /\ phase' = "feeding"
    BY <1>2, <1>5 DEF PreambleToken, Continue
  <2>3. Joined(History \o <<>>) = Told(m, k)
    BY <1>2, <1>3, <2>2, NothingProduced
  <2>4. \E q : At(m, k + 1, q, f)'
    BY <1>2, <1>4, <2>1, <2>2, <2>3, TokenStep
  <2> QED
    BY <2>2, <2>4 DEF Reaches
<1>6. CASE PreambleIncomplete
  <2>1. PICK index \in Find(buffer, Token) :
               /\ IsIncomplete(TailAt(index))
               /\ buffer' = From(buffer, index)
               /\ Return(<<>>)
    BY <1>6 DEF PreambleIncomplete, Raise
  <2>2. /\ TokenSeen(m, k, f)
        /\ Window(m, k, EndOf(m, k), f)
        /\ buffer' = Slice(m, EndOf(m, k), f)
        /\ IsIncomplete(Suffix(m, k, f))
    BY <1>2, <2>1, TokenPlace
  <2>3. state' = "Preamble" /\ pending' = FALSE /\ headers' = <<>>
    BY <1>1, <1>2, <1>6 DEF PreambleIncomplete
  <2>4. Produced' = <<>>
    BY <1>2, <2>1, NothingProduced
  <2>5. At(m, k, EndOf(m, k), f)' /\ Quiet(m, k, EndOf(m, k), f)'
    BY <1>2, <2>2, <2>3, <2>4 DEF At, Quiet
  <2> QED
    BY <2>5 DEF Reaches
<1>7. CASE PreambleScan
  <2>1. /\ Find(buffer, Token) = {} /\ Return(<<>>)
        /\ buffer' = IF Len(buffer) > Len(Token) + 1
                     THEN From(buffer, Len(buffer) - (Len(Token) + 1)) ELSE buffer
    BY <1>7 DEF PreambleScan
  <2>2. /\ ~TokenSeen(m, k, f)
        /\ Window(m, k, p + Emitted, f)
        /\ From(buffer, Emitted) = Slice(m, p + Emitted, f)
    BY <1>2, <2>1, ScanPlace
  <2>3. buffer' = From(buffer, Emitted)
    <3>1. buffer \in Seq(Byte)
      BY DEF TypeOK
    <3>2. From(buffer, 0) = buffer
      <4>1. From(buffer, 0) = Slice(buffer, 0, Len(buffer))
        BY FromIsSlice
      <4> QED
        BY <3>1, <4>1, SliceWhole
    <3> QED
      BY <2>1, <3>2 DEF Emitted
  <2>4. state' = "Preamble" /\ pending' = FALSE /\ headers' = <<>>
    BY <1>1, <1>2, <1>7 DEF PreambleScan
  <2>5. Produced' = <<>>
    BY <1>2, <2>1, NothingProduced
  <2> PICK q : q = p + Emitted
    OBVIOUS
  <2>6. At(m, k, q, f)'
    BY <1>2, <2>2, <2>3, <2>4, <2>5 DEF At
  <2>7. Quiet(m, k, q, f)'
    BY <2>2, <2>4 DEF Quiet
  <2> QED
    BY <2>6, <2>7 DEF Reaches
<1> QED
  BY <1>5, <1>6, <1>7

(* An empty line is two line ends.                                         *)
LEMMA TwoLineEnds ==
  ASSUME NEW s \in Seq(Byte), NEW h \in Occurrences(s, CRLF \o CRLF)
  PROVE  /\ h \in Nat /\ h + 4 <= Len(s)
         /\ h \in Occurrences(s, CRLF) /\ h + 2 \in Occurrences(s, CRLF)
         /\ EndsLine(s, h + 2) /\ EndsLine(s, h + 4)
<1>1. /\ h \in Nat /\ h + 4 <= Len(s)
      /\ s[h + 1] = CR /\ s[h + 2] = LF /\ s[h + 3] = CR /\ s[h + 4] = LF
  BY EmptyLineMeans
<1>2. Len(s) \in Nat
  BY LenProperties
<1>3. /\ h + 2 \in Nat /\ (h + 2) + 1 = h + 3 /\ (h + 2) + 2 = h + 4 /\ h + 2 <= Len(s)
      /\ h + 2 \in 2..Len(s) /\ h + 4 \in 2..Len(s)
      /\ (h + 2) - 1 = h + 1 /\ (h + 4) - 1 = h + 3
  BY <1>1, <1>2
<1>4. h \in Occurrences(s, CRLF) /\ h + 2 \in Occurrences(s, CRLF)
  BY <1>1, <1>3, LineEndMeans
<1> QED
  BY <1>1, <1>3, <1>4 DEF EndsLine

(* What occurs in the segment occurs in the buffer, and the reverse.       *)
LEMMA PieceInBuffer ==
  ASSUME NEW m, NEW k, NEW p, NEW f, Window(m, k, p, f), NEW w \in Seq(Byte),
         NEW i \in Occurrences(PieceOf(m, k), w),
         p <= StartOf(m, k) + i, StartOf(m, k) + i + Len(w) <= f
  PROVE  (StartOf(m, k) + i) - p \in Occurrences(Slice(m, p, f), w)
<1> DEFINE S == StartOf(m, k)
           E == EndOf(m, k)
           x == (S + i) - p
<1>1. /\ m \in Seq(Byte) /\ S \in Nat /\ E \in Nat /\ S <= E /\ E <= Len(m)
      /\ p \in Nat /\ f \in Nat /\ p <= f /\ f <= Len(m) /\ Len(m) \in Nat
  <2>1. S <= p /\ p <= E
    BY WindowBounds
  <2> QED
    BY <2>1, WindowBounds
<1>2. i \in Int
  BY LenProperties DEF Occurrences
<1>3. i \in Nat /\ S + i \in Occurrences(m, w) /\ S + i + Len(w) <= E
  <2>1. i \in Occurrences(Slice(m, S, E), w)
    BY DEF PieceOf
  <2> HIDE DEF S, E
  <2> QED
    BY <1>1, <1>2, <2>1, SliceOccurrences, Zenon
<1>4. Len(w) \in Nat
  BY LenProperties
<1>5. x \in Int /\ x \in Nat /\ p + x = S + i /\ p + x + Len(w) <= f
  BY <1>1, <1>3, <1>4
<1> HIDE DEF x
<1>6. p + x \in Occurrences(m, w)
  BY <1>3, <1>5
<1>7. x \in Occurrences(Slice(m, p, f), w)
  BY <1>1, <1>5, <1>6, SliceOccurrences, Zenon
<1> QED
  BY <1>7 DEF x

(* And what occurs in the buffer, before the end of the segment, occurs in *)
(* the segment.                                                            *)
LEMMA BufferInPiece ==
  ASSUME NEW m, NEW k, NEW p, NEW f, Window(m, k, p, f), NEW w \in Seq(Byte),
         NEW x \in Occurrences(Slice(m, p, f), w), p + x + Len(w) <= EndOf(m, k)
  PROVE  (p + x) - StartOf(m, k) \in Occurrences(PieceOf(m, k), w)
<1> DEFINE S == StartOf(m, k)
           E == EndOf(m, k)
           i == (p + x) - S
<1>1. /\ m \in Seq(Byte) /\ S \in Nat /\ E \in Nat /\ S <= p /\ S <= E /\ E <= Len(m)
      /\ p \in Nat /\ f \in Nat /\ p <= f /\ f <= Len(m) /\ Len(m) \in Nat
  <2>1. S <= p /\ p <= E
    BY WindowBounds
  <2> QED
    BY <2>1, WindowBounds
<1>2. x \in Int
  <2>1. Slice(m, p, f) \in Seq(Byte)
    BY WindowBuffer
  <2> QED
    BY <2>1, LenProperties DEF Occurrences
<1>3. x \in Nat /\ p + x \in Occurrences(m, w)
  <2> HIDE DEF S, E
  <2> QED
    BY <1>1, <1>2, SliceOccurrences, Zenon
<1>4. Len(w) \in Nat
  BY LenProperties
<1>5. i \in Int /\ i \in Nat /\ S + i = p + x /\ S + i + Len(w) <= E
  BY <1>1, <1>3, <1>4
<1> HIDE DEF i
<1>6. S + i \in Occurrences(m, w)
  BY <1>3, <1>5
<1>7. i \in Occurrences(Slice(m, S, E), w)
  <2> HIDE DEF S, E
  <2> QED
    BY <1>1, <1>5, <1>6, SliceOccurrences, Zenon
<1> QED
  BY <1>7 DEF i, PieceOf

(* The lengths of the line ends.                                           *)
LEMMA LineEndWords ==
  /\ CRLF \in Seq(Byte) /\ Len(CRLF) = 2
  /\ CRLF \o CRLF \in Seq(Byte) /\ Len(CRLF \o CRLF) = 4
<1>1. CRLF \in Seq(Byte) /\ Len(CRLF) = 2
  BY TokenProperties
<1>2. CRLF \o CRLF \in Seq(Byte) /\ Len(CRLF \o CRLF) = 4
  BY ByteAssumption DEF SpecialBytes, CRLF
<1> QED
  BY <1>1, <1>2

(* A segment whose lines are being read and whose token comes before the   *)
(* next line end has no header block.                                      *)
LEMMA NoLineNoBlock ==
  ASSUME NEW m, NEW k, NEW p, NEW f, Window(m, k, p, f), NEW fields,
         HeaderLines(PieceOf(m, k), p - StartOf(m, k), fields), EndOf(m, k) <= f,
         \A i \in Find(Slice(m, p, f), CRLF) : EndOf(m, k) - p <= i
  PROVE  HeaderEnds(PieceOf(m, k)) = {} /\ OpenLength(PieceOf(m, k)) # {}
<1> DEFINE S == StartOf(m, k)
           E == EndOf(m, k)
           piece == PieceOf(m, k)
<1>1. /\ m \in Seq(Byte) /\ S \in Nat /\ E \in Nat /\ S <= p /\ p <= E
      /\ p \in Nat /\ f \in Nat /\ k \in 1..Count(m)
  BY WindowBounds
<1>2. piece \in Seq(Byte) /\ Len(piece) = E - S
  BY <1>1, PieceProperties
<1>3. ASSUME NEW h \in HeaderEnds(piece) PROVE FALSE
  <2>1. h \in Occurrences(piece, CRLF \o CRLF)
    BY <1>3 DEF HeaderEnds, Find
  <2>2. h \in Nat /\ h + 4 <= Len(piece) /\ h + 2 \in Occurrences(piece, CRLF)
    BY <1>2, <2>1, TwoLineEnds
  <2>3. p - S <= h + 2
    BY <2>1 DEF HeaderLines
  <2>4. p <= S + (h + 2) /\ S + (h + 2) + 2 <= E /\ S + (h + 2) + 2 <= f
    BY <1>1, <1>2, <2>2, <2>3, SMTT(60)
  <2>5. (S + (h + 2)) - p \in Occurrences(Slice(m, p, f), CRLF)
    <3>1. S + (h + 2) + Len(CRLF) <= f
      BY <2>4, LineEndWords
    <3> QED
      BY <2>2, <2>4, <3>1, LineEndWords, PieceInBuffer
  <2>6. PICK i \in Find(Slice(m, p, f), CRLF) : i <= (S + (h + 2)) - p
    BY <2>5, FoundIsLeftmost
  <2>7. E - p <= i
    BY <2>6
  <2>8. i \in Nat
    <3>1. Slice(m, p, f) \in Seq(Byte)
      BY WindowBuffer
    <3> QED
      BY <2>6, <3>1, LineEndWords, FindProperties
  <2> QED
    BY <1>1, <2>2, <2>4, <2>6, <2>7, <2>8, SMTT(60)
<1>4. HeaderEnds(piece) = {}
  BY <1>3
<1> QED
  BY <1>4 DEF HeaderLines

(* handle_header.                                                          *)
LEMMA HeaderBoundaryReads ==
  ASSUME TypeOK, PendingOnlyInBody, phase = "feeding", NEW m, NEW k, NEW p, NEW f,
         At(m, k, p, f), HeaderBoundary, phase' # "raised"
  PROVE  Reaches(m, f)
<1>1. state = "Header" /\ pending = FALSE
  BY DEF HeaderBoundary, PendingOnlyInBody, TypeOK
<1>2. /\ Window(m, k, p, f) /\ buffer = Slice(m, p, f)
      /\ k \in 2..Count(m) /\ InHeader(m, k, p, f)
  BY <1>1 DEF At
<1>3. PICK index \in Find(buffer, Token) :
        /\ \A lineEnd \in Find(buffer, CRLF) : index < lineEnd
        /\ headers' = <<>>
        /\ RawBoundary(index, "Header", 0)
  BY DEF HeaderBoundary, Raise
<1>4. index = EndOf(m, k) - p /\ TokenSeen(m, k, f) /\ index \in Nat
  BY <1>2, TokenPlace
<1>5. EndOf(m, k) <= f
  BY <1>2, <1>4, WindowBounds, TokenBytes DEF TokenSeen
<1>6. HeaderEnds(PieceOf(m, k)) = {} /\ OpenLength(PieceOf(m, k)) # {}
  <2>1. CASE HeaderLines(PieceOf(m, k), p - StartOf(m, k), headers)
    <3>1. \A i \in Find(buffer, CRLF) : EndOf(m, k) - p <= i
      <4>1. ASSUME NEW i \in Find(buffer, CRLF) PROVE i \in Nat
        <5>1. buffer \in Seq(Byte)
          BY DEF TypeOK
        <5> QED
          BY <5>1, LineEndWords, FindProperties
      <4> QED
        BY <1>3, <1>4, <4>1
    <3> QED
      BY <1>2, <1>5, <2>1, <3>1, NoLineNoBlock
  <2> QED
    BY <1>2, <2>1 DEF InHeader
<1>7. ~IsPart(PieceOf(m, k))
  BY <1>6 DEF IsPart
<1>8. pending' = FALSE
  BY <1>1 DEF HeaderBoundary
<1>9. Produced = Told(m, k - 1)
  BY <1>2 DEF InHeader
<1> QED
  BY <1>2, <1>3, <1>6, <1>7, <1>8, <1>9, BoundaryStep

(* A line end in the buffer, before any token, is in the segment.          *)
LEMMA LineBeforeToken ==
  ASSUME NEW m, NEW k, NEW p, NEW f, Window(m, k, p, f),
         NEW index \in Find(Slice(m, p, f), CRLF),
         \A boundary \in Find(Slice(m, p, f), Token) : index <= boundary
  PROVE  /\ index \in Nat
         /\ p + index + 2 <= EndOf(m, k) /\ p + index + 2 <= f
         /\ (p + index) - StartOf(m, k) \in Occurrences(PieceOf(m, k), CRLF)
         /\ EndsLine(PieceOf(m, k), ((p + index) - StartOf(m, k)) + 2)
<1> DEFINE S == StartOf(m, k)
           E == EndOf(m, k)
           x == p + index
           piece == PieceOf(m, k)
<1>1. /\ m \in Seq(Byte) /\ S \in Nat /\ E \in Nat /\ S <= p /\ p <= E /\ Len(m) \in Nat
      /\ p \in Nat /\ f \in Nat /\ k \in 1..Count(m) /\ p <= f /\ f <= Len(m)
  BY WindowBounds
<1>2. index \in Nat /\ x \in Occurrences(m, CRLF) /\ x + Len(CRLF) <= f
  BY <1>1, LineEndWords, FindInSlice, Zenon
<1>3. x + 2 <= f /\ m[x + 2] = LF /\ x \in Nat
  BY <1>1, <1>2, LineEndWords, LineEndMeans
<1>4. ASSUME TokenSeen(m, k, f) PROVE x + 2 <= E + Len(Token)
  <2>1. E - p \in Find(Slice(m, p, f), Token)
    BY <1>4, TokenInBuffer
  <2>2. index <= E - p
    BY <2>1
  <2> QED
    BY <1>1, <1>2, <2>2, TokenBytes
<1>5. x + 2 <= E
  <2>1. /\ x + 2 \in Nat /\ p < x + 2 /\ x + 2 <= f /\ m[x + 2] \in {CR, LF}
        /\ TokenSeen(m, k, f) => x + 2 <= EndOf(m, k) + Len(Token)
    BY <1>1, <1>2, <1>3, <1>4
  <2> HIDE DEF x
  <2> QED
    BY <2>1, LineByteInSegment, Zenon
<1>6. x - S \in Occurrences(piece, CRLF)
  <2>1. index \in Occurrences(Slice(m, p, f), CRLF)
    BY DEF Find
  <2>2. p + index + Len(CRLF) <= EndOf(m, k)
    BY <1>5, LineEndWords
  <2> QED
    BY <2>1, <2>2, LineEndWords, BufferInPiece
<1>7. EndsLine(piece, (x - S) + 2)
  <2>1. piece \in Seq(Byte) /\ Len(piece) = E - S
    BY <1>1, PieceProperties
  <2> DEFINE i == x - S
  <2>2. i \in Nat /\ i + 2 <= Len(piece) /\ piece[i + 1] = CR /\ piece[i + 2] = LF
    BY <1>6, <2>1, LineEndMeans
  <2> HIDE DEF i
  <2>3. i + 2 \in 2..Len(piece) /\ (i + 2) - 1 = i + 1
    BY <1>1, <2>1, <2>2
  <2>4. EndsLine(piece, i + 2)
    BY <2>2, <2>3 DEF EndsLine
  <2> QED
    BY <2>4 DEF i
<1> QED
  BY <1>2, <1>3, <1>5, <1>6, <1>7

(* Reading n bytes of the segment moves the window.                        *)
LEMMA WindowMoves ==
  ASSUME NEW m, NEW k, NEW p, NEW f, Window(m, k, p, f), NEW n \in Nat,
         p + n <= EndOf(m, k), p + n <= f
  PROVE  /\ Window(m, k, p + n, f)
         /\ From(Slice(m, p, f), n) = Slice(m, p + n, f)
         /\ Upto(Slice(m, p, f), n) = Slice(m, p, p + n)
<1>1. /\ m \in Seq(Byte) /\ p \in Nat /\ f \in Nat /\ p <= f /\ f <= Len(m)
      /\ StartOf(m, k) \in Nat /\ StartOf(m, k) <= p
      /\ k \in 1..Count(m)
  BY WindowBounds
<1>2. n <= f - p /\ p + n \in Nat /\ StartOf(m, k) <= p + n
  BY <1>1
<1>3. Window(m, k, p + n, f)
  BY <1>1, <1>2 DEF Window
<1>4. From(Slice(m, p, f), n) = Slice(m, p + n, f)
  <2>1. Within(m, p, f, n)
    BY <1>1, <1>2 DEF Within
  <2> QED
    BY <2>1, EndsOfSlice
<1>5. Upto(Slice(m, p, f), n) = Slice(m, p, p + n)
  <2>1. Within(m, p, f, n)
    BY <1>1, <1>2 DEF Within
  <2> QED
    BY <2>1, EndsOfSlice
<1> QED
  BY <1>3, <1>4, <1>5

(* In the second reading of a header the first byte is a line's.           *)
LEMMA LineIsNotToken ==
  ASSUME NEW m, NEW k, NEW p, NEW f, Window(m, k, p, f), TokenSeen(m, k, f), p = EndOf(m, k),
         NEW w \in Seq(Byte), Len(w) >= 2, w[1] = CR,
         0 \in Occurrences(Slice(m, p, f), w)
  PROVE  FALSE
<1>1. m \in Seq(Byte) /\ p \in Nat /\ f \in Nat /\ p <= f /\ f <= Len(m)
      /\ k < Count(m) /\ p \in Occurrences(m, Token)
  BY WindowBounds DEF TokenSeen
<1>2. p + 0 \in Occurrences(m, w)
  <2>1. 0 \in Int
    OBVIOUS
  <2> QED
    BY <1>1, <2>1, SliceOccurrences
<1>3. 1 \in 1..Len(w) /\ p + 0 = p
  BY <1>1, LenProperties
<1>4. m[p + 1] = w[1]
  BY <1>1, <1>2, <1>3, OccurrenceRange
<1>5. m[p + 1] = DASH
  BY <1>1, OccurrenceBytes
<1> QED
  BY <1>4, <1>5, BytesDiffer

(* handle_header, at the empty line that ends the block.                   *)
LEMMA HeaderEndReads ==
  ASSUME TypeOK, PendingOnlyInBody, phase = "feeding", NEW m, NEW k, NEW p, NEW f,
         At(m, k, p, f), HeaderEnd, phase' # "raised"
  PROVE  Reaches(m, f)
<1> DEFINE S == StartOf(m, k)
           E == EndOf(m, k)
           piece == PieceOf(m, k)
           q == p - S
<1>1. /\ state = "Header" /\ 0 \in Find(buffer, CRLF)
      /\ buffer' = From(buffer, Len(CRLF))
      /\ pending' = TRUE /\ state' = "Body" /\ Continue(<<>>) /\ headers' = headers
  BY DEF HeaderEnd, Raise
<1>2. /\ Window(m, k, p, f) /\ buffer = Slice(m, p, f)
      /\ k \in 2..Count(m) /\ InHeader(m, k, p, f)
  BY <1>1 DEF At
<1>3. /\ S \in Nat /\ E \in Nat /\ S <= p /\ p <= E /\ p \in Nat /\ m \in Seq(Byte)
      /\ k \in 1..Count(m)
  BY <1>2, WindowBounds
<1>4. piece \in Seq(Byte) /\ Len(piece) = E - S
  BY <1>3, PieceProperties
<1>5. HeaderLines(piece, q, headers)
  <2>1. ASSUME p = E, TokenSeen(m, k, f) PROVE FALSE
    <3>1. 0 \in Occurrences(Slice(m, p, f), CRLF)
      BY <1>1, <1>2 DEF Find
    <3>2. CRLF \in Seq(Byte) /\ Len(CRLF) >= 2 /\ CRLF[1] = CR
      BY LineEndWords DEF CRLF
    <3> QED
      BY <1>2, <2>1, <3>1, <3>2, LineIsNotToken
  <2> QED
    BY <1>2, <2>1 DEF InHeader
<1>6. \A boundary \in Find(Slice(m, p, f), Token) : 0 <= boundary
  BY <1>2, TokenPlace
<1>7. /\ p + 0 + 2 <= E /\ p + 0 + 2 <= f
      /\ (p + 0) - S \in Occurrences(piece, CRLF)
      /\ EndsLine(piece, ((p + 0) - S) + 2)
  BY <1>1, <1>2, <1>6, LineBeforeToken, SMTT(30)
<1>8. p + 2 <= E /\ p + 2 <= f /\ EndsLine(piece, q + 2) /\ q \in Occurrences(piece, CRLF)
  <2>1. p + 0 = p
    BY <1>3
  <2> QED
    BY <1>7, <2>1
<1>9. q \in Nat /\ q + 2 <= Len(piece)
  BY <1>3, <1>4, <1>8
<1>10. q # 0
  <2>1. ASSUME q = 0 PROVE FALSE
    <3>1. 2 \in OpenLength(piece)
      <4>1. EndsLine(piece, 2)
        BY <1>8, <2>1
      <4>2. \A i \in 1..(2 - 2) : FALSE
        OBVIOUS
      <4> QED
        BY <4>1, <4>2 DEF EndsLine, OpenLength
    <3> QED
      BY <1>5, <2>1, <3>1 DEF HeaderLines
  <2> QED
    BY <2>1
<1>11. EndsLine(piece, q)
  BY <1>5, <1>10 DEF HeaderLines
<1>12. q >= 2 /\ q - 2 \in HeaderEnds(piece)
  <2>1. q >= 2 /\ piece[q - 1] = CR /\ piece[q] = LF
    BY <1>9, <1>11 DEF EndsLine
  <2>2. piece[q + 1] = CR /\ piece[q + 2] = LF
    BY <1>4, <1>8, LineEndMeans
  <2>3. /\ q - 2 \in Nat /\ (q - 2) + 4 <= Len(piece)
        /\ (q - 2) + 1 = q - 1 /\ (q - 2) + 2 = q /\ (q - 2) + 3 = q + 1 /\ (q - 2) + 4 = q + 2
    BY <1>9, <2>1
  <2>4. q - 2 \in Occurrences(piece, CRLF \o CRLF)
    BY <1>4, <2>1, <2>2, <2>3, EmptyLineMeans
  <2>5. ASSUME NEW h \in Occurrences(piece, CRLF \o CRLF) PROVE q - 2 <= h
    <3>1. q <= h + 2
      BY <1>5 DEF HeaderLines
    <3>2. h \in Nat
      BY <1>4, TwoLineEnds
    <3> QED
      BY <1>9, <3>1, <3>2
  <2> QED
    BY <2>1, <2>4, <2>5 DEF HeaderEnds, Find
<1>13. BlockLength(piece) = q + 2
  <2>1. BlockLength(piece) = (q - 2) + 4
    BY <1>4, <1>12, BlockProperties
  <2> QED
    BY <1>9, <2>1
<1>14. p + 2 = BodyStart(m, k) /\ BlockLength(piece) - 2 = q
  BY <1>3, <1>9, <1>13 DEF BodyStart
<1>15. Window(m, k, p + 2, f) /\ buffer' = Slice(m, p + 2, f)
  BY <1>1, <1>2, <1>8, LineEndWords, WindowMoves
<1>16. Produced' = Told(m, k - 1)
  BY <1>1, <1>2, NothingProduced DEF InHeader
<1>17. InBegin(m, k, p + 2)'
  <2>1. headers' = FieldsWithin(piece, BlockLength(piece) - 2)
    BY <1>1, <1>5, <1>14 DEF HeaderLines
  <2> QED
    BY <1>12, <1>14, <1>16, <2>1 DEF InBegin
<1>18. At(m, k, p + 2, f)'
  BY <1>1, <1>2, <1>15, <1>17 DEF At
<1>19. phase' # "idle"
  BY <1>1 DEF Continue
<1> QED
  BY <1>18, <1>19 DEF Reaches

(* handle_header, without a whole line.                                    *)
LEMMA HeaderPartialReads ==
  ASSUME TypeOK, PendingOnlyInBody, phase = "feeding", NEW m, NEW k, NEW p, NEW f,
         At(m, k, p, f), HeaderPartial, phase' # "raised"
  PROVE  Reaches(m, f)
<1>1. /\ state = "Header" /\ Find(buffer, Token) = {} /\ Find(buffer, CRLF) = {}
      /\ Return(<<>>) /\ UNCHANGED parserVars
  BY DEF HeaderPartial, Raise
<1>2. /\ Window(m, k, p, f) /\ buffer = Slice(m, p, f)
      /\ k \in 2..Count(m) /\ InHeader(m, k, p, f)
  BY <1>1 DEF At
<1>3. pending = FALSE
  BY <1>1 DEF PendingOnlyInBody, TypeOK
<1>4. ~TokenSeen(m, k, f)
  BY <1>1, <1>2, ScanPlace
<1>5. Produced' = Produced
  BY <1>1, NothingProduced
<1>6. /\ state' = state /\ buffer' = buffer /\ headers' = headers /\ pending' = pending
  BY <1>1 DEF parserVars
<1>7. At(m, k, p, f)'
  BY <1>1, <1>2, <1>5, <1>6 DEF At, InHeader
<1>8. Quiet(m, k, p, f)'
  BY <1>1, <1>3, <1>4, <1>6 DEF Quiet
<1> QED
  BY <1>7, <1>8 DEF Reaches

(* The next line of a header block.                                        *)
LEMMA NextHeaderLine ==
  ASSUME NEW m, NEW k, NEW p, NEW f, Window(m, k, p, f), NEW fields,
         HeaderLines(PieceOf(m, k), p - StartOf(m, k), fields),
         NEW index \in Find(Slice(m, p, f), CRLF), index > 0,
         \A boundary \in Find(Slice(m, p, f), Token) : index <= boundary
  PROVE  HeaderLines(PieceOf(m, k), (p + index + 2) - StartOf(m, k),
                     fields \o FieldIn(Upto(Slice(m, p, f), index)))
<1> DEFINE S == StartOf(m, k)
           E == EndOf(m, k)
           piece == PieceOf(m, k)
           q == p - S
           e == q + index
<1>1. /\ S \in Nat /\ E \in Nat /\ S <= p /\ p <= E /\ p \in Nat /\ m \in Seq(Byte)
      /\ f \in Nat /\ p <= f /\ f <= Len(m) /\ E <= Len(m)
      /\ k \in 1..Count(m)
  BY WindowBounds
<1>2. piece \in Seq(Byte) /\ Len(piece) = E - S
  BY <1>1, PieceProperties
<1>3. /\ index \in Nat
      /\ p + index + 2 <= E /\ p + index + 2 <= f
      /\ (p + index) - S \in Occurrences(piece, CRLF)
      /\ EndsLine(piece, ((p + index) - S) + 2)
  BY LineBeforeToken
<1>4. (p + index) - S = e /\ q \in Nat /\ e \in Nat /\ q < e /\ (p + index + 2) - S = e + 2
      /\ e + 2 <= Len(piece)
  BY <1>1, <1>2, <1>3, SMTT(60)
<1>5. EndsLine(piece, e + 2)
  BY <1>3, <1>4
<1>6. /\ q = 0 \/ EndsLine(piece, q)
      /\ \A h \in Occurrences(piece, CRLF \o CRLF) : q <= h + 2
      /\ fields = FieldsWithin(piece, q)
      /\ \/ OpenLength(piece) # {} /\ q > 0
         \/ OpenLength(piece) = {} /\ HeaderEnds(piece) # {}
  BY DEF HeaderLines
<1> HIDE DEF S, E, piece, q, e

(* No line of the segment ends between.                                    *)
<1>7. ASSUME NEW j \in Nat, q < j, EndsLine(piece, j) PROVE e + 2 <= j
  <2>1. j \in 2..Len(piece) /\ piece[j - 1] = CR /\ piece[j] = LF
    BY <1>7 DEF EndsLine
  <2>2. j # q + 1
    <3>1. CASE q = 0
      BY <2>1, <3>1
    <3>2. CASE EndsLine(piece, q)
      <4>1. piece[q] = LF
        BY <3>2 DEF EndsLine
      <4>2. j = q + 1 => j - 1 = q
        BY <1>4
      <4> QED
        BY <2>1, <4>1, <4>2, BytesDiffer
    <3> QED
      BY <1>6, <3>1, <3>2
  <2> DEFINE i == j - 2
  <2>3. i \in Nat /\ q <= i /\ i + 2 = j /\ i + 1 = j - 1 /\ i + 2 <= Len(piece)
    BY <1>2, <1>4, <1>7, <2>1, <2>2
  <2> HIDE DEF i
  <2>4. i \in Occurrences(piece, CRLF)
    <3>1. piece[i + 1] = CR /\ piece[i + 2] = LF
      BY <2>1, <2>3
    <3> QED
      BY <1>2, <2>3, <3>1, LineEndMeans
  <2>5. CASE S + i + 2 <= f
    <3>1. p <= S + i /\ S + i + Len(CRLF) <= f
      BY <1>1, <1>4, <2>3, <2>5, LineEndWords DEF q
    <3>2. (S + i) - p \in Occurrences(Slice(m, p, f), CRLF)
      BY <2>4, <3>1, LineEndWords, PieceInBuffer DEF S, piece
    <3>3. index <= (S + i) - p
      BY <3>2 DEF Find
    <3> QED
      BY <1>1, <1>3, <1>4, <2>3, <3>3 DEF q, e
  <2>6. CASE ~(S + i + 2 <= f)
    BY <1>1, <1>3, <1>4, <2>3, <2>6 DEF e, q
  <2> QED
    BY <2>5, <2>6
<1>8. ASSUME NEW h \in Occurrences(piece, CRLF \o CRLF) PROVE e + 2 <= h + 2
  <2>1. /\ h \in Nat /\ h + 2 \in Nat /\ h + 4 \in Nat
        /\ EndsLine(piece, h + 2) /\ EndsLine(piece, h + 4) /\ q <= h + 2
    BY <1>2, <1>6, <1>8, TwoLineEnds
  <2>2. CASE q < h + 2
    BY <1>7, <2>1, <2>2
  <2>3. CASE q = h + 2
    <3>1. e + 2 <= h + 4
      BY <1>4, <1>7, <2>1, <2>3
    <3>2. e > q
      BY <1>4
    <3> QED
      BY <1>4, <2>1, <2>3, <3>1, <3>2
  <2> QED
    BY <1>4, <2>1, <2>2, <2>3
<1>9. FieldsWithin(piece, e + 2) = FieldsWithin(piece, q) \o FieldIn(Slice(piece, q, e))
  <2>1. \A j \in (q + 1)..(e + 1) : ~EndsLine(piece, j)
    <3>1. ASSUME NEW j \in (q + 1)..(e + 1), EndsLine(piece, j) PROVE FALSE
      <4>1. j \in Nat /\ q < j
        BY <1>4, <3>1
      <4> QED
        BY <1>4, <1>7, <3>1, <4>1
    <3> QED
      BY <3>1
  <2>2. q <= e
    BY <1>4
  <2> QED
    BY <1>2, <1>4, <1>5, <1>6, <2>1, <2>2, FieldsOfNextLine
<1>10. Slice(piece, q, e) = Upto(Slice(m, p, f), index)
  <2>1. Slice(piece, q, e) = Slice(m, S + q, S + e)
    <3>1. piece = Slice(m, S, E)
      BY DEF piece, S, E, PieceOf
    <3>2. /\ m \in Seq(Byte) /\ S \in Nat /\ E \in Nat /\ S <= E /\ E <= Len(m)
          /\ q \in Nat /\ e \in Nat /\ q <= e /\ e <= E - S
      BY <1>1, <1>2, <1>4
    <3>3. Slice(Slice(m, S, E), q, e) = Slice(m, S + q, S + e)
      BY <3>2, SliceOfSlice, SMTT(60)
    <3> QED
      BY <3>1, <3>3
  <2>2. S + q = p /\ S + e = p + index
    BY <1>1, <1>3 DEF q, e
  <2>3. Upto(Slice(m, p, f), index) = Slice(m, p, p + index)
    <3>1. index <= f - p
      BY <1>1, <1>3
    <3>2. Within(m, p, f, index)
      BY <1>1, <1>3, <3>1 DEF Within
    <3> QED
      BY <3>2, EndsOfSlice
  <2> QED
    BY <2>1, <2>2, <2>3
<1>11. /\ e + 2 > 0
       /\ \/ OpenLength(piece) # {} /\ e + 2 > 0
          \/ OpenLength(piece) = {} /\ HeaderEnds(piece) # {}
  BY <1>4, <1>6
<1>12. HeaderLines(piece, e + 2, fields \o FieldIn(Upto(Slice(m, p, f), index)))
  BY <1>5, <1>6, <1>8, <1>9, <1>10, <1>11 DEF HeaderLines
<1> QED
  BY <1>4, <1>12 DEF piece, S

(* handle_header, at a line of the block.                                  *)
LEMMA HeaderLineReads ==
  ASSUME TypeOK, PendingOnlyInBody, phase = "feeding", NEW m, NEW k, NEW p, NEW f,
         At(m, k, p, f), HeaderLine, phase' # "raised"
  PROVE  Reaches(m, f)
<1>1. PICK index \in Find(buffer, CRLF) :
        /\ index > 0
        /\ \A boundary \in Find(buffer, Token) : index <= boundary
        /\ \/ /\ Find(Upto(buffer, index), <<COLON>>) = {}
              /\ UNCHANGED headers
           \/ \E separator \in Find(Upto(buffer, index), <<COLON>>) :
                headers' = Append(headers, Field(Upto(buffer, index), separator))
        /\ buffer' = From(buffer, index + Len(CRLF))
        /\ Continue(<<>>)
  BY DEF HeaderLine, Raise
<1>2. state = "Header" /\ UNCHANGED <<state, pending>> /\ pending = FALSE
  BY DEF HeaderLine, PendingOnlyInBody, TypeOK
<1>3. /\ Window(m, k, p, f) /\ buffer = Slice(m, p, f)
      /\ k \in 2..Count(m) /\ InHeader(m, k, p, f)
  BY <1>2 DEF At
<1>4. /\ index \in Nat
      /\ p + index + 2 <= EndOf(m, k) /\ p + index + 2 <= f
  BY <1>1, <1>3, LineBeforeToken
<1>5. HeaderLines(PieceOf(m, k), p - StartOf(m, k), headers)
  <2>1. ASSUME p = EndOf(m, k), TokenSeen(m, k, f) PROVE FALSE
    <3>1. EndOf(m, k) - p \in Find(buffer, Token)
      BY <1>3, <2>1, TokenInBuffer
    <3>2. index <= EndOf(m, k) - p /\ p \in Nat
      BY <1>1, <1>3, <3>1, WindowBounds
    <3> QED
      BY <1>1, <1>4, <2>1, <3>2
  <2> QED
    BY <1>3, <2>1 DEF InHeader
<1>6. headers' = headers \o FieldIn(Upto(buffer, index))
  <2>1. headers \in Headers
    BY DEF TypeOK
  <2>2. CASE Find(Upto(buffer, index), <<COLON>>) = {} /\ UNCHANGED headers
    <3>1. FieldIn(Upto(buffer, index)) = <<>>
      BY <2>2, FieldInCases
    <3> QED
      BY <2>1, <2>2, <3>1, ConcatEmptySeq DEF Headers
  <2>3. ASSUME NEW separator \in Find(Upto(buffer, index), <<COLON>>),
               headers' = Append(headers, Field(Upto(buffer, index), separator))
        PROVE  headers' = headers \o FieldIn(Upto(buffer, index))
    <3>1. FieldIn(Upto(buffer, index)) = <<Field(Upto(buffer, index), separator)>>
      BY FieldInCases
    <3>2. Field(Upto(buffer, index), separator) \in [name : Seq(Byte), value : Seq(Byte)]
      <4>1. Upto(buffer, index) \in Seq(Byte)
        BY <1>1, LineEndProperties
      <4> QED
        BY <4>1, FieldProperties
    <3>3. Append(headers, Field(Upto(buffer, index), separator))
            = headers \o <<Field(Upto(buffer, index), separator)>>
      BY <2>1, <3>2, AppendIsConcat DEF Headers
    <3> QED
      BY <2>3, <3>1, <3>3
  <2> QED
    BY <1>1, <2>2, <2>3
<1> PICK q : q = p + (index + 2)
  OBVIOUS
<1>7. p \in Nat /\ q = p + index + 2 /\ index + 2 \in Nat /\ q <= EndOf(m, k) /\ q <= f
  <2>1. p \in Nat
    BY <1>3, WindowBounds
  <2> QED
    BY <1>4, <2>1
<1>8. Window(m, k, q, f) /\ buffer' = Slice(m, q, f)
  <2>1. buffer' = From(buffer, index + 2)
    BY <1>1, LineEndWords
  <2> QED
    BY <1>3, <1>7, <2>1, WindowMoves
<1>9. HeaderLines(PieceOf(m, k), q - StartOf(m, k), headers')
  <2>1. HeaderLines(PieceOf(m, k), (p + index + 2) - StartOf(m, k),
                     headers \o FieldIn(Upto(Slice(m, p, f), index)))
    BY <1>1, <1>3, <1>5, NextHeaderLine
  <2> QED
    BY <1>3, <1>6, <1>7, <2>1
<1>10. Produced' = Told(m, k - 1)
  BY <1>1, <1>3, NothingProduced DEF InHeader
<1>11. InHeader(m, k, q, f)'
  BY <1>9, <1>10 DEF InHeader
<1>12. At(m, k, q, f)'
  BY <1>2, <1>3, <1>8, <1>11 DEF At
<1>13. phase' # "idle"
  BY <1>1 DEF Continue
<1> QED
  BY <1>12, <1>13 DEF Reaches

(* What follows a token that opens no part is no open suffix later.        *)
LEMMA RawOpensNothing ==
  ASSUME NEW m, NEW k, NEW f, Window(m, k, StartOf(m, k), f),
         IsClose(RestOf(m, k)) \/ IsUnusable(RestOf(m, k))
  PROVE  OpenLength(PieceOf(m, k)) = {}
<1>1. /\ PieceOf(m, k) \in Seq(Byte) /\ RestOf(m, k) \in Seq(Byte)
      /\ Len(PieceOf(m, k)) \in Nat
      /\ Len(PieceOf(m, k)) <= Len(RestOf(m, k)) /\ Len(RestOf(m, k)) \in Nat
      /\ \A i \in 1..Len(PieceOf(m, k)) : RestOf(m, k)[i] = PieceOf(m, k)[i]
  BY SegmentInBuffer, SMTT(30)
<1>2. ASSUME NEW n \in OpenLength(PieceOf(m, k)) PROVE FALSE
  <2>1. n \in Nat /\ n <= Len(PieceOf(m, k))
    BY <1>1, <1>2, OpenBytes
  <2>2. n <= Len(RestOf(m, k)) /\ \A i \in 1..n : RestOf(m, k)[i] = PieceOf(m, k)[i]
    BY <1>1, <2>1
  <2>3. n \in OpenLength(RestOf(m, k))
    BY <1>1, <1>2, <2>2, OpenTransfer
  <2> QED
    BY <1>1, <2>3, CloseIsDecided DEF IsUnusable
<1> QED
  BY <1>2

(* handle_raw, at the empty line that ends an unwanted header block.       *)
LEMMA RawHeadersRead ==
  ASSUME TypeOK, PendingOnlyInBody, phase = "feeding", NEW m, NEW k, NEW p, NEW f,
         At(m, k, p, f), RawHeaders, phase' # "raised"
  PROVE  Reaches(m, f)
<1> DEFINE S == StartOf(m, k)
           E == EndOf(m, k)
           piece == PieceOf(m, k)
           w == CRLF \o CRLF
<1>1. /\ state \in {"Discard", "End"} /\ headers' = <<>> /\ state' = "Header"
      /\ UNCHANGED <<buffer, pending>> /\ Continue(<<>>)
  BY DEF RawHeaders
<1>2. PICK x \in Find(buffer, w) : \A boundary \in Find(buffer, Token) : x < boundary
  BY DEF RawHeaders
<1>3. /\ Window(m, k, p, f) /\ buffer = Slice(m, p, f)
      /\ k \in 2..Count(m) /\ InRaw(m, k, p, f)
  BY <1>1 DEF At
<1>4. /\ S \in Nat /\ E \in Nat /\ S <= p /\ p <= E /\ p \in Nat /\ m \in Seq(Byte)
      /\ f \in Nat /\ p <= f /\ f <= Len(m) /\ k \in 1..Count(m)
  BY <1>3, WindowBounds
<1>5. piece \in Seq(Byte) /\ Len(piece) = E - S
  BY <1>4, PieceProperties
<1>6. x \in Occurrences(buffer, w) /\ buffer \in Seq(Byte)
  BY <1>2 DEF Find, TypeOK
<1>7. x \in Nat /\ x + 4 <= Len(buffer) /\ buffer[x + 4] = LF
  BY <1>6, EmptyLineMeans
<1>8. Len(buffer) = f - p /\ \A i \in 1..(f - p) : buffer[i] = m[p + i]
  BY <1>3, WindowBuffer
<1>9. ~(p = E /\ TokenSeen(m, k, f))
  <2>1. ASSUME p = E, TokenSeen(m, k, f) PROVE FALSE
    <3>1. E - p \in Find(buffer, Token)
      BY <1>3, <2>1, TokenInBuffer
    <3>2. x < E - p
      BY <1>2, <3>1
    <3> QED
      BY <1>4, <1>7, <2>1, <3>2
  <2> QED
    BY <2>1
<1>10. /\ p = S
       /\ IF state = "End" THEN IsClose(RestOf(m, k)) ELSE IsUnusable(RestOf(m, k))
       /\ Produced = Told(m, k - 1)
  BY <1>3, <1>9 DEF InRaw
<1>11. OpenLength(piece) = {}
  <2>1. Window(m, k, StartOf(m, k), f)
    BY <1>3, <1>10
  <2> QED
    BY <1>10, <2>1, RawOpensNothing
<1>12. p + x + 4 <= E
  <2> PICK y : y = p + x + 4
    OBVIOUS
  <2>1. y \in Nat /\ p < y /\ y <= f /\ m[y] = LF
    <3>1. x + 4 \in 1..(f - p) /\ y = p + (x + 4)
      BY <1>4, <1>7, <1>8
    <3>2. m[y] = LF
      BY <1>7, <1>8, <3>1
    <3> QED
      BY <1>4, <1>7, <1>8, <3>1, <3>2
  <2>2. TokenSeen(m, k, f) => y <= EndOf(m, k) + Len(Token)
    <3>1. ASSUME TokenSeen(m, k, f) PROVE y <= EndOf(m, k) + Len(Token)
      <4>1. E - p \in Find(buffer, Token)
        BY <1>3, <3>1, TokenInBuffer
      <4>2. x < E - p
        BY <1>2, <4>1
      <4> QED
        BY <1>4, <1>7, <4>2, TokenBytes
    <3> QED
      BY <3>1
  <2>3. y <= EndOf(m, k)
    <3>1. m[y] \in {CR, LF}
      BY <2>1
    <3> QED
      BY <1>3, <2>1, <2>2, <3>1, LineByteInSegment
  <2> QED
    BY <2>3
<1>13. HeaderEnds(piece) # {}
  <2>1. w \in Seq(Byte) /\ p + x + Len(w) <= EndOf(m, k)
    BY <1>12, LineEndWords
  <2>2. x \in Occurrences(Slice(m, p, f), w)
    BY <1>3, <1>6
  <2>3. (p + x) - StartOf(m, k) \in Occurrences(PieceOf(m, k), w)
    BY <1>3, <2>1, <2>2, BufferInPiece
  <2> QED
    BY <2>3, FoundIsLeftmost DEF HeaderEnds
<1>14. HeaderLines(piece, p - S, headers')
  <2>1. p - S = 0
    BY <1>4, <1>10
  <2>2. FieldsWithin(piece, 0) = <<>>
    BY <1>5, FieldsWithinEquations
  <2>3. \A h \in Occurrences(piece, CRLF \o CRLF) : 0 <= h + 2
    BY <1>5, TwoLineEnds
  <2> QED
    BY <1>1, <1>11, <1>13, <2>1, <2>2, <2>3 DEF HeaderLines
<1>15. InHeader(m, k, p, f)'
  <2>1. Produced' = Told(m, k - 1)
    BY <1>1, <1>10, NothingProduced
  <2> QED
    BY <1>14, <2>1 DEF InHeader
<1>16. At(m, k, p, f)'
  BY <1>1, <1>3, <1>15 DEF At
<1>17. phase' # "idle"
  BY <1>1 DEF Continue
<1> QED
  BY <1>16, <1>17 DEF Reaches

(* handle_raw, at the token.                                               *)
LEMMA RawTokenReads ==
  ASSUME TypeOK, PendingOnlyInBody, phase = "feeding", NEW m, NEW k, NEW p, NEW f,
         At(m, k, p, f), RawToken, phase' # "raised"
  PROVE  Reaches(m, f)
<1> DEFINE S == StartOf(m, k)
           E == EndOf(m, k)
           piece == PieceOf(m, k)
           w == CRLF \o CRLF
<1>1. /\ state \in {"Discard", "End"} /\ UNCHANGED <<headers, pending>> /\ pending = FALSE
  BY DEF RawToken, PendingOnlyInBody, TypeOK
<1>2. PICK index \in Find(buffer, Token) :
        /\ \A headerEnd \in Find(buffer, w) : ~(headerEnd < index)
        /\ RawBoundary(index, state, total)
  BY DEF RawToken
<1>3. /\ Window(m, k, p, f) /\ buffer = Slice(m, p, f)
      /\ k \in 2..Count(m) /\ InRaw(m, k, p, f)
  BY <1>1 DEF At
<1>4. /\ S \in Nat /\ E \in Nat /\ S <= p /\ p <= E /\ p \in Nat /\ m \in Seq(Byte)
      /\ f \in Nat /\ p <= f /\ f <= Len(m) /\ k \in 1..Count(m)
  BY <1>3, WindowBounds
<1>5. piece \in Seq(Byte) /\ Len(piece) = E - S
  BY <1>4, PieceProperties
<1>6. index = E - p /\ index \in Nat /\ TokenSeen(m, k, f) /\ E <= f
  <2>1. index = E - p /\ index \in Nat /\ TokenSeen(m, k, f)
    BY <1>3, TokenPlace
  <2> QED
    BY <1>4, <2>1, TokenBytes DEF TokenSeen
<1>7. Produced = Told(m, k - 1) /\ headers = <<>>
  BY <1>3 DEF InRaw
<1>8. /\ ~IsPart(piece)
      /\ HeaderEnds(piece) = {} => (state = "End" <=> IsClose(RestOf(m, k)))
      /\ state = "End" => HeaderEnds(piece) = {}
  <2>1. CASE p = S /\ IF state = "End" THEN IsClose(RestOf(m, k)) ELSE IsUnusable(RestOf(m, k))
    <3>1. ASSUME NEW h \in HeaderEnds(piece) PROVE FALSE
      <4>1. h \in Occurrences(piece, w)
        BY <3>1 DEF HeaderEnds, Find
      <4>2. h \in Nat /\ h + 4 <= Len(piece)
        BY <1>5, <4>1, EmptyLineMeans
      <4>3. (S + h) - p \in Occurrences(Slice(m, p, f), w)
        <5>1. w \in Seq(Byte) /\ p <= S + h /\ S + h + Len(w) <= f
          BY <1>4, <1>5, <1>6, <2>1, <4>2, LineEndWords, SMTT(60)
        <5> QED
          BY <1>3, <4>1, <5>1, PieceInBuffer
      <4>4. PICK j \in Find(Slice(m, p, f), w) : j <= (S + h) - p
        BY <4>3, FoundIsLeftmost
      <4>5. j \in Nat
        <5>1. Slice(m, p, f) \in Seq(Byte)
          BY <1>3, WindowBuffer
        <5> QED
          BY <4>4, <5>1, LineEndWords, FindProperties
      <4>6. ~(j < index)
        BY <1>2, <1>3, <4>4
      <4> QED
        BY <1>4, <1>5, <1>6, <4>2, <4>4, <4>5, <4>6, SMTT(60)
    <3>2. HeaderEnds(piece) = {}
      BY <3>1
    <3> QED
      BY <1>1, <2>1, <3>2 DEF IsPart, IsUnusable
  <2> QED
    BY <1>3, <2>1 DEF InRaw
<1>9. state \in {"Header", "Discard", "End"} /\ state # "Header"
  BY <1>1
<1>10. headers' = <<>> /\ pending' = FALSE
  BY <1>1, <1>7
<1> QED
  BY <1>2, <1>3, <1>7, <1>8, <1>9, <1>10, BoundaryStep

(* handle_raw, without either.                                             *)
LEMMA RawPartialReads ==
  ASSUME TypeOK, PendingOnlyInBody, phase = "feeding", NEW m, NEW k, NEW p, NEW f,
         At(m, k, p, f), RawPartial, phase' # "raised"
  PROVE  Reaches(m, f)
<1>1. /\ state \in {"Discard", "End"}
      /\ Find(buffer, Token) = {} /\ Find(buffer, CRLF \o CRLF) = {}
      /\ Return(<<>>) /\ UNCHANGED parserVars
  BY DEF RawPartial, Raise
<1>2. /\ Window(m, k, p, f) /\ buffer = Slice(m, p, f)
      /\ k \in 2..Count(m) /\ InRaw(m, k, p, f)
  BY <1>1 DEF At
<1>3. pending = FALSE
  BY <1>1 DEF PendingOnlyInBody, TypeOK
<1>4. ~TokenSeen(m, k, f)
  BY <1>1, <1>2, ScanPlace
<1>5. Produced' = Produced
  BY <1>1, NothingProduced
<1>6. /\ state' = state /\ buffer' = buffer /\ headers' = headers /\ pending' = pending
  BY <1>1 DEF parserVars
<1>7. At(m, k, p, f)'
  BY <1>1, <1>2, <1>5, <1>6 DEF At, InRaw
<1>8. Quiet(m, k, p, f)'
  BY <1>1, <1>3, <1>4, <1>6 DEF Quiet
<1> QED
  BY <1>7, <1>8 DEF Reaches

(* handle_body, when the buffer may be the beginning of a token.           *)
LEMMA BodyAwaitsReads ==
  ASSUME TypeOK, PendingOnlyInBody, phase = "feeding", NEW m, NEW k, NEW p, NEW f,
         At(m, k, p, f), BodyAwaitsToken, phase' # "raised"
  PROVE  Reaches(m, f)
<1>1. /\ state = "Body" /\ pending /\ pending = TRUE
      /\ Len(buffer) < Len(Token) /\ StartsWith(Token, buffer)
      /\ Return(<<>>) /\ UNCHANGED parserVars
  BY DEF BodyAwaitsToken, TypeOK
<1>2. /\ Window(m, k, p, f) /\ buffer = Slice(m, p, f)
      /\ k \in 2..Count(m) /\ InBegin(m, k, p)
  BY <1>1 DEF At
<1>3. ~TokenSeen(m, k, f)
  <2>1. Len(buffer) = f - p
    BY <1>2, WindowBuffer
  <2> QED
    BY <1>1, <1>2, <2>1, WindowBounds, TokenBytes DEF TokenSeen
<1>4. Produced' = Produced
  BY <1>1, NothingProduced
<1>5. /\ state' = state /\ buffer' = buffer /\ headers' = headers /\ pending' = pending
  BY <1>1 DEF parserVars
<1>6. At(m, k, p, f)'
  BY <1>1, <1>2, <1>4, <1>5 DEF At, InBegin
<1>7. Quiet(m, k, p, f)'
  BY <1>1, <1>3, <1>5 DEF Quiet
<1> QED
  BY <1>6, <1>7 DEF Reaches

(* handle_body, when the token follows the header block at once.           *)
LEMMA BodyIsRawReads ==
  ASSUME TypeOK, PendingOnlyInBody, phase = "feeding", NEW m, NEW k, NEW p, NEW f,
         At(m, k, p, f), BodyIsRaw, phase' # "raised"
  PROVE  Reaches(m, f)
<1>1. /\ state = "Body" /\ pending /\ StartsWith(buffer, Token)
      /\ headers' = <<>> /\ pending' = FALSE /\ RawBoundary(0, "Discard", 0)
  BY DEF BodyIsRaw
<1>2. /\ Window(m, k, p, f) /\ buffer = Slice(m, p, f)
      /\ k \in 2..Count(m) /\ InBegin(m, k, p)
  BY <1>1 DEF At
<1>3. 0 \in Find(buffer, Token)
  BY <1>1, PrefixIsFound
<1>4. 0 = EndOf(m, k) - p
  BY <1>2, <1>3, TokenPlace
<1>5. ~IsPart(PieceOf(m, k)) /\ HeaderEnds(PieceOf(m, k)) # {}
  <2>1. p = EndOf(m, k) /\ m \in Seq(Byte) /\ k \in 1..Count(m)
    BY <1>2, <1>4, WindowBounds
  <2>2. HeaderEnds(PieceOf(m, k)) # {} /\ BodyStart(m, k) = EndOf(m, k)
    BY <1>2, <2>1 DEF InBegin
  <2>3. EndOf(m, k) \in Nat
    BY <1>2, WindowBounds
  <2> QED
    BY <2>1, <2>2, <2>3, BodySlices
<1>6. Produced = Told(m, k - 1)
  BY <1>2 DEF InBegin
<1>7. "Discard" \in {"Header", "Discard", "End"} /\ "Discard" # "Header" /\ "Discard" # "End"
  OBVIOUS
<1> QED
  BY <1>1, <1>2, <1>3, <1>5, <1>6, <1>7, BoundaryStep

(* Where the body data may be cut once Begin is sent.                      *)
LEMMA BegunCut ==
  ASSUME TypeOK, NEW m, NEW k, NEW p, NEW f, At(m, k, p, f), BodyBegun
  PROVE  /\ state = "Body" /\ headers' = <<>> /\ pending' = FALSE
         /\ Window(m, k, p, f) /\ buffer = Slice(m, p, f) /\ k \in 2..Count(m)
         /\ DataCut(m, k, p)
<1> DEFINE B == BodyStart(m, k)
           E == EndOf(m, k)
<1>1. /\ state = "Body" /\ pending' = FALSE /\ pending \in BOOLEAN
      /\ pending => ~StartsWith(buffer, Token) /\ ~StartsWith(Token, buffer)
      /\ headers' = IF pending THEN <<>> ELSE headers
  BY DEF BodyBegun, TypeOK
<1>2. /\ Window(m, k, p, f) /\ buffer = Slice(m, p, f) /\ k \in 2..Count(m)
      /\ pending => InBegin(m, k, p)
      /\ ~pending => InData(m, k, p)
  BY <1>1 DEF At
<1>3. CASE ~pending
  BY <1>1, <1>2, <1>3 DEF InData
<1>4. CASE pending
  <2>1. HeaderEnds(PieceOf(m, k)) # {} /\ p = B
    BY <1>2, <1>4 DEF InBegin
  <2>2. /\ m \in Seq(Byte) /\ p \in Nat /\ f \in Nat /\ p <= f /\ f <= Len(m) /\ Len(m) \in Nat
        /\ k \in 1..Count(m) /\ p <= E /\ E \in Nat
        /\ k < Count(m) => E \in Occurrences(m, Token) /\ E + Len(Token) <= Len(m)
    BY <1>2, WindowBounds
  <2>3. B \in Nat /\ B <= DataEnd(m, k)
    BY <2>1, <2>2, BodySlices
  <2>4. ASSUME k < Count(m), p = E PROVE FALSE
    <3>1. CASE TokenSeen(m, k, f)
      <4>1. E - p \in Find(buffer, Token)
        BY <1>2, <3>1, TokenInBuffer
      <4>2. 0 \in Occurrences(buffer, Token)
        BY <2>2, <2>4, <4>1 DEF Find
      <4>3. buffer \in Seq(Byte) /\ Token \in Seq(Byte)
        BY TokenProperties DEF TypeOK
      <4>4. 0 + Len(Token) <= Len(buffer) /\ Len(Token) \in Nat
        BY <4>2, <4>3, OccurrenceRange, TokenBytes
      <4>5. Slice(buffer, 0, 0 + Len(Token)) = Token
        BY <4>2, <4>3, <4>4, OccurrenceIsSlice
      <4>6. StartsWith(buffer, Token)
        BY <4>4, <4>5, UptoIsSlice DEF StartsWith
      <4> QED
        BY <1>1, <1>4, <4>6
    <3>2. CASE ~TokenSeen(m, k, f)
      <4> DEFINE c == f - p
      <4>1. Token \in Seq(Byte) /\ Len(Token) \in Nat
        BY TokenProperties
      <4>2. p + Len(Token) <= Len(m) /\ p \in Occurrences(m, Token)
        BY <2>2, <2>4
      <4>3. Slice(m, p, p + Len(Token)) = Token
        BY <2>2, <4>1, <4>2, OccurrenceIsSlice
      <4>4. c \in Nat /\ c <= Len(Token) /\ p + c = f
        BY <2>2, <2>4, <3>2, <4>1 DEF TokenSeen
      <4> HIDE DEF c
      <4>5. Upto(Slice(m, p, p + Len(Token)), c) = Slice(m, p, p + c)
        <5> DEFINE e == p + Len(Token)
        <5>1. /\ m \in Seq(Byte) /\ p \in Nat /\ e \in Nat /\ p <= e /\ e <= Len(m)
              /\ c \in Nat /\ c <= e - p
          BY <2>2, <4>1, <4>2, <4>4
        <5> HIDE DEF e
        <5>2. Upto(Slice(m, p, e), c) = Slice(m, p, p + c)
          <6>1. Within(m, p, e, c)
            BY <5>1 DEF Within
          <6> QED
            BY <6>1, EndsOfSlice
        <5> QED
          BY <5>2 DEF e
      <4>6. Len(buffer) = c
        BY <1>2, WindowBuffer DEF c
      <4>7. StartsWith(Token, buffer)
        BY <1>2, <4>3, <4>4, <4>5, <4>6 DEF StartsWith
      <4> QED
        BY <1>1, <1>4, <4>7
    <3> QED
      BY <3>1, <3>2
  <2>5. DataCut(m, k, p)
    BY <2>1, <2>2, <2>3, <2>4 DEF DataCut
  <2> QED
    BY <1>1, <1>2, <1>4, <2>5
<1> QED
  BY <1>3, <1>4

(* The body data that a step sends, after Begin or after data.             *)
LEMMA BodyEmits ==
  ASSUME TypeOK, NEW m, NEW k, NEW p, NEW f, At(m, k, p, f), state = "Body",
         NEW y \in Nat, p <= y, y <= f
  PROVE  /\ Began \o DataOf(Slice(m, p, y)) \in Seq(Event)
         /\ Joined(History \o (Began \o DataOf(Slice(m, p, y))))
              = (Told(m, k - 1) \o <<BeginOf(PieceOf(m, k))>>)
                  \o DataOf(Slice(m, BodyStart(m, k), y))
<1> DEFINE B == BodyStart(m, k)
           b == BeginOf(PieceOf(m, k))
           T == Told(m, k - 1)
           d == Slice(m, p, y)
<1>1. /\ Window(m, k, p, f) /\ buffer = Slice(m, p, f) /\ k \in 2..Count(m)
      /\ pending => InBegin(m, k, p)
      /\ ~pending => InData(m, k, p)
  BY DEF At
<1>2. /\ m \in Seq(Byte) /\ p \in Nat /\ f \in Nat /\ f <= Len(m) /\ Len(m) \in Nat
      /\ k \in 1..Count(m)
  BY <1>1, WindowBounds
<1>3. T \in Seq(Event) /\ PieceOf(m, k) \in Seq(Byte)
  BY <1>1, SegmentNumber
<1>4. HeaderEnds(PieceOf(m, k)) # {}
  BY <1>1 DEF InBegin, InData, DataCut
<1>5. b \in Event /\ b.kind = "Begin"
  BY <1>3, <1>4, BeginOfType
<1>6. B \in Nat /\ B <= p
  <2>1. B \in Nat
    BY <1>2, <1>4, BodySlices
  <2> QED
    BY <1>1, <2>1 DEF InBegin, InData, DataCut
<1>7. y <= Len(m) /\ p <= Len(m)
  BY <1>2
<1>8. d \in Seq(Byte) /\ DataOf(d) \in Seq(Event)
  BY <1>2, <1>7, SliceProperties, DataOfType
<1>9. History \in Seq(Event) /\ Began \in Seq(Event)
  BY HistoryType, BeganType
<1> HIDE DEF B, b, T, d
<1>10. Joined((History \o Began) \o DataOf(d)) = (T \o <<b>>) \o DataOf(Slice(m, B, y))
  <2>1. CASE pending
    <3>1. Began = <<b>> /\ p = B /\ Produced = T
      BY <1>1, <2>1 DEF InBegin, Began, BeginOf, b, B, T
    <3>2. Joined(History \o <<b>>) = T \o <<b>>
      BY <1>5, <1>9, <3>1, JoinOther DEF Produced
    <3>3. <<>> \in Seq(Byte) /\ DataOf(<<>>) = <<>>
      BY DEF DataOf
    <3>4. T \o <<b>> \in Seq(Event) /\ History \o <<b>> \in Seq(Event)
      BY <1>3, <1>5, <1>9
    <3>5. (T \o <<b>>) \o <<>> = T \o <<b>>
      BY <3>4, ConcatEmptySeq
    <3>6. Joined(History \o <<b>>) = (T \o <<b>>) \o DataOf(<<>>)
      BY <3>2, <3>3, <3>5
    <3>7. Joined((History \o <<b>>) \o DataOf(d)) = (T \o <<b>>) \o DataOf(<<>> \o d)
      <4>1. \A x, z \in Seq(Byte) :
              Joined(History \o <<b>>) = (T \o <<b>>) \o DataOf(x)
                => Joined((History \o <<b>>) \o DataOf(z)) = (T \o <<b>>) \o DataOf(x \o z)
        BY <1>3, <1>5, <3>4, JoinData
      <4> QED
        BY <1>8, <3>3, <3>6, <4>1
    <3>8. <<>> \o d = d /\ d = Slice(m, B, y)
      BY <1>8, <3>1, ConcatEmptySeq DEF d
    <3> QED
      BY <3>1, <3>7, <3>8
  <2>2. CASE ~pending
    <3>1. Began = <<>> /\ Produced = (T \o <<b>>) \o DataOf(Slice(m, B, p))
      BY <1>1, <2>2 DEF InData, Began, b, B, T
    <3>2. History \o Began = History
      BY <1>9, <3>1, ConcatEmptySeq
    <3>3. Slice(m, B, p) \in Seq(Byte)
      BY <1>2, <1>6, <1>7, SliceProperties
    <3>4. Joined(History \o DataOf(d)) = (T \o <<b>>) \o DataOf(Slice(m, B, p) \o d)
      <4>1. \A x, z \in Seq(Byte) :
              Joined(History) = (T \o <<b>>) \o DataOf(x)
                => Joined(History \o DataOf(z)) = (T \o <<b>>) \o DataOf(x \o z)
        BY <1>3, <1>5, <1>9, JoinData, ZenonT(60)
      <4>2. Joined(History) = (T \o <<b>>) \o DataOf(Slice(m, B, p))
        BY <3>1 DEF Produced
      <4> QED
        BY <1>8, <3>3, <4>1, <4>2
    <3>5. Slice(m, B, p) \o Slice(m, p, y) = Slice(m, B, y)
      BY <1>2, <1>6, <1>7, SliceConcat, Zenon
    <3> QED
      BY <3>2, <3>4, <3>5 DEF d
  <2> QED
    BY <2>1, <2>2
<1>11. (History \o Began) \o DataOf(d) = History \o (Began \o DataOf(d))
       /\ Began \o DataOf(d) \in Seq(Event)
  BY <1>8, <1>9, EventsAssociate
<1> QED
  BY <1>10, <1>11 DEF T, b, B, d

(* A token found in a body, and where the data before it ends.             *)
LEMMA BodyDataAt ==
  ASSUME TypeOK, NEW m, NEW k, NEW p, NEW f, At(m, k, p, f), BodyBegun,
         NEW index \in Find(buffer, Token)
  PROVE  /\ BodyDataEnd(buffer, index) \in Nat
         /\ p + BodyDataEnd(buffer, index) = DataEnd(m, k)
         /\ BodyStart(m, k) <= DataEnd(m, k) /\ BodyStart(m, k) < EndOf(m, k)
         /\ DataEnd(m, k) \in Nat /\ p <= DataEnd(m, k) /\ DataEnd(m, k) <= f
         /\ Upto(buffer, BodyDataEnd(buffer, index)) = Slice(m, p, DataEnd(m, k))
         /\ From(buffer, BodyDataEnd(buffer, index)) = Slice(m, DataEnd(m, k), f)
         /\ Window(m, k, DataEnd(m, k), f)
         /\ TokenSeen(m, k, f) /\ k < Count(m)
<1> DEFINE E == EndOf(m, k)
           D == DataEnd(m, k)
           n == BodyDataEnd(buffer, index)
<1>1. /\ state = "Body"
      /\ Window(m, k, p, f) /\ buffer = Slice(m, p, f) /\ k \in 2..Count(m)
      /\ DataCut(m, k, p)
  BY BegunCut
<1>2. index = E - p /\ index \in Nat /\ TokenSeen(m, k, f) /\ k < Count(m)
  BY <1>1, TokenPlace
<1>3. /\ m \in Seq(Byte) /\ p \in Nat /\ f \in Nat /\ p <= f /\ f <= Len(m)
      /\ k \in 1..Count(m) /\ E \in Nat /\ p <= E
  BY <1>1, WindowBounds
<1>4. /\ HeaderEnds(PieceOf(m, k)) # {} /\ BodyStart(m, k) <= p
      /\ BodyStart(m, k) < E /\ p <= D
      /\ p = BodyStart(m, k) \/ p + 2 <= E \/ p = D
  BY <1>1, <1>2 DEF DataCut
<1>5. /\ BodyStart(m, k) \in Nat /\ D \in Nat /\ BodyStart(m, k) <= D /\ D <= E
  BY <1>3, <1>4, BodySlices
<1>6. E <= f
  BY <1>2, <1>3, TokenBytes DEF TokenSeen
<1>7. n \in Nat
  BY <1>2, DataEndRange
<1>8. p + n = D
  BY <1>1, <1>2, <1>4, <1>6, DataEndAgrees
<1> HIDE DEF E, D, n
<1>9. p + n <= EndOf(m, k) /\ p + n <= f
  BY <1>3, <1>5, <1>6, <1>8 DEF E
<1>10. /\ Window(m, k, p + n, f)
       /\ From(Slice(m, p, f), n) = Slice(m, p + n, f)
       /\ Upto(Slice(m, p, f), n) = Slice(m, p, p + n)
  BY <1>1, <1>7, <1>9, WindowMoves
<1> QED
  BY <1>1, <1>2, <1>4, <1>5, <1>6, <1>7, <1>8, <1>9, <1>10 DEF E, D, n

(* handle_body, at a token with a decided suffix.                          *)
LEMMA BodyTokenReads ==
  ASSUME TypeOK, PendingOnlyInBody, phase = "feeding", NEW m, NEW k, NEW p, NEW f,
         At(m, k, p, f), BodyToken, phase' # "raised"
  PROVE  Reaches(m, f)
<1> DEFINE D == DataEnd(m, k)
           sent == Began \o DataOf(Slice(m, p, D))
<1>1. BodyBegun
  BY DEF BodyToken
<1>2. PICK index \in Find(buffer, Token) :
        /\ AfterToken(index, Spent)
        /\ Continue(Began \o DataOf(Upto(buffer, BodyDataEnd(buffer, index))) \o <<EndEvent>>)
  BY DEF BodyToken
<1>3. /\ state = "Body" /\ headers' = <<>>
      /\ Window(m, k, p, f) /\ buffer = Slice(m, p, f) /\ k \in 2..Count(m)
      /\ DataCut(m, k, p)
  BY <1>1, BegunCut
<1>4. /\ BodyStart(m, k) < EndOf(m, k)
      /\ D \in Nat /\ p <= D /\ D <= f
      /\ Upto(buffer, BodyDataEnd(buffer, index)) = Slice(m, p, D)
      /\ k < Count(m)
  BY <1>1, BodyDataAt
<1>5. /\ sent \in Seq(Event)
      /\ Joined(History \o sent)
           = (Told(m, k - 1) \o <<BeginOf(PieceOf(m, k))>>)
               \o DataOf(Slice(m, BodyStart(m, k), D))
  BY <1>3, <1>4, BodyEmits
<1> HIDE DEF D, sent
<1>6. Continue(sent \o <<EndEvent>>)
  BY <1>2, <1>4 DEF sent
<1>7. <<EndEvent>> \in Seq(Event) /\ EndEvent \in Event /\ EndEvent.kind # "Data"
  BY EventTypes DEF EndEvent
<1>8. History \in Seq(Event)
  BY HistoryType
<1>9. /\ sent \o <<EndEvent>> \in Seq(Event)
      /\ History \o sent \in Seq(Event)
      /\ History \o (sent \o <<EndEvent>>) = (History \o sent) \o <<EndEvent>>
  BY <1>5, <1>7, <1>8, EventsAssociate
<1>10. Joined(History \o (sent \o <<EndEvent>>)) = Joined(History \o sent) \o <<EndEvent>>
  BY <1>7, <1>9, JoinOther
<1>11. Joined(History \o (sent \o <<EndEvent>>)) = Told(m, k)
  <2>1. m \in Seq(Byte) /\ k \in 1..Count(m)
    BY <1>3, WindowBounds
  <2>2. IsPart(PieceOf(m, k))
    BY <1>3, <1>4, <2>1, BodySlices DEF DataCut
  <2> QED
    BY <1>3, <1>4, <1>5, <1>10, <2>1, <2>2, ToldSegment DEF D
<1>12. \E q : At(m, k + 1, q, f)'
  BY <1>2, <1>3, <1>6, <1>9, <1>11, TokenStep
<1>13. phase' # "idle"
  BY <1>6 DEF Continue
<1> QED
  BY <1>12, <1>13 DEF Reaches

(* handle_body, at a token with an undecided suffix.                       *)
LEMMA BodyIncompleteReads ==
  ASSUME TypeOK, PendingOnlyInBody, phase = "feeding", NEW m, NEW k, NEW p, NEW f,
         At(m, k, p, f), BodyIncomplete, phase' # "raised"
  PROVE  Reaches(m, f)
<1> DEFINE sent == Began \o DataOf(Slice(m, p, DataEnd(m, k)))
<1>1. BodyBegun /\ state' = state
  BY DEF BodyIncomplete
<1>2. PICK index \in Find(buffer, Token) :
        /\ IsIncomplete(TailAt(index))
        /\ buffer' = From(buffer, BodyDataEnd(buffer, index))
        /\ Return(Began \o DataOf(Upto(buffer, BodyDataEnd(buffer, index))))
  BY DEF BodyIncomplete, Raise
<1>3. /\ state = "Body" /\ headers' = <<>> /\ pending' = FALSE
      /\ Window(m, k, p, f) /\ buffer = Slice(m, p, f) /\ k \in 2..Count(m)
      /\ DataCut(m, k, p)
  BY <1>1, BegunCut
<1> PICK q : q = DataEnd(m, k)
  OBVIOUS
<1>4. /\ BodyStart(m, k) <= q /\ BodyStart(m, k) < EndOf(m, k)
      /\ q \in Nat /\ p <= q /\ q <= f
      /\ Upto(buffer, BodyDataEnd(buffer, index)) = Slice(m, p, q)
      /\ From(buffer, BodyDataEnd(buffer, index)) = Slice(m, q, f)
      /\ Window(m, k, q, f)
      /\ TokenSeen(m, k, f)
  BY <1>1, BodyDataAt
<1>5. /\ sent \in Seq(Event)
      /\ Joined(History \o sent)
           = (Told(m, k - 1) \o <<BeginOf(PieceOf(m, k))>>)
               \o DataOf(Slice(m, BodyStart(m, k), q))
  BY <1>3, <1>4, BodyEmits
<1>6. Return(sent)
  BY <1>2, <1>4
<1>7. Produced' = Joined(History \o sent)
  BY <1>5, <1>6, ProducedGrows
<1>8. DataCut(m, k, q)
  BY <1>3, <1>4 DEF DataCut
<1>9. InData(m, k, q)'
  BY <1>3, <1>5, <1>7, <1>8 DEF InData
<1>10. At(m, k, q, f)'
  BY <1>1, <1>2, <1>3, <1>4, <1>9 DEF At
<1>11. IsIncomplete(Suffix(m, k, f))
  BY <1>2, <1>3, TokenPlace
<1>12. Quiet(m, k, q, f)'
  BY <1>1, <1>3, <1>4, <1>11 DEF Quiet
<1> QED
  BY <1>10, <1>12 DEF Reaches

(* handle_body, without a token.                                           *)
LEMMA BodyScanReads ==
  ASSUME TypeOK, PendingOnlyInBody, phase = "feeding", NEW m, NEW k, NEW p, NEW f,
         At(m, k, p, f), BodyScan, phase' # "raised"
  PROVE  Reaches(m, f)
<1> DEFINE sent == Began \o DataOf(Slice(m, p, p + Emitted))
<1>1. BodyBegun /\ state' = state /\ Find(buffer, Token) = {}
  BY DEF BodyScan
<1>2. /\ buffer' = From(buffer, Emitted)
      /\ Return(Began \o DataOf(Upto(buffer, Emitted)))
  <2>1. DelimiterLength - 1 = Len(Token) + 1
    BY TokenProperties
  <2> QED
    BY <2>1 DEF BodyScan, Emitted
<1>3. /\ state = "Body" /\ headers' = <<>> /\ pending' = FALSE
      /\ Window(m, k, p, f) /\ buffer = Slice(m, p, f) /\ k \in 2..Count(m)
      /\ DataCut(m, k, p)
  BY <1>1, BegunCut
<1> PICK q : q = p + Emitted
  OBVIOUS
<1>4. /\ ~TokenSeen(m, k, f)
      /\ Window(m, k, q, f)
      /\ From(buffer, Emitted) = Slice(m, q, f)
      /\ Upto(buffer, Emitted) = Slice(m, p, q)
      /\ k < Count(m) => q = p \/ q + 2 <= EndOf(m, k)
      /\ q \in Nat /\ p <= q /\ q <= f
  <2>1. /\ ~TokenSeen(m, k, f)
        /\ Window(m, k, q, f)
        /\ From(buffer, Emitted) = Slice(m, q, f)
        /\ Upto(buffer, Emitted) = Slice(m, p, q)
        /\ k < Count(m) => q = p \/ q + 2 <= EndOf(m, k)
        /\ q \in Nat /\ p <= q
    BY <1>1, <1>3, ScanPlace
  <2>2. q <= f
    BY <2>1, WindowBounds
  <2> QED
    BY <2>1, <2>2
<1>5. /\ sent \in Seq(Event)
      /\ Joined(History \o sent)
           = (Told(m, k - 1) \o <<BeginOf(PieceOf(m, k))>>)
               \o DataOf(Slice(m, BodyStart(m, k), q))
  BY <1>3, <1>4, BodyEmits
<1>6. Return(sent)
  BY <1>2, <1>4
<1>7. Produced' = Joined(History \o sent)
  BY <1>5, <1>6, ProducedGrows
<1>8. DataCut(m, k, q)
  <2>1. /\ m \in Seq(Byte) /\ k \in 1..Count(m) /\ EndOf(m, k) \in Nat /\ p \in Nat
    BY <1>3, WindowBounds
  <2>2. /\ HeaderEnds(PieceOf(m, k)) # {} /\ BodyStart(m, k) <= p
        /\ k < Count(m) => BodyStart(m, k) < EndOf(m, k)
    BY <1>3 DEF DataCut
  <2>3. /\ BodyStart(m, k) \in Nat /\ DataEnd(m, k) \in Nat
        /\ EndOf(m, k) <= DataEnd(m, k) + 2
    BY <2>1, <2>2, BodySlices
  <2>4. CASE q = p
    BY <1>3, <2>4
  <2>5. CASE k < Count(m) => q + 2 <= EndOf(m, k)
    <3>1. BodyStart(m, k) <= q
      BY <1>4, <2>1, <2>2, <2>3
    <3>2. k < Count(m) => q <= DataEnd(m, k)
      BY <1>4, <2>1, <2>3, <2>5
    <3> QED
      BY <2>2, <2>5, <3>1, <3>2 DEF DataCut
  <2> QED
    BY <1>4, <2>4, <2>5
<1>9. InData(m, k, q)'
  BY <1>3, <1>5, <1>7, <1>8 DEF InData
<1>10. At(m, k, q, f)'
  BY <1>1, <1>2, <1>3, <1>4, <1>9 DEF At
<1>11. Quiet(m, k, q, f)'
  BY <1>1, <1>3, <1>4 DEF Quiet
<1> QED
  BY <1>10, <1>11 DEF Reaches

(* Every pass of the loop of feed stays with the message.                  *)
LEMMA LoopReads ==
  ASSUME TypeOK, PendingOnlyInBody, NEW m, NEW k, NEW p, NEW f,
         At(m, k, p, f), Loop, phase' # "raised"
  PROVE  Reaches(m, f)
<1>1. phase = "feeding"
  BY DEF Loop
<1>2. CASE PreambleToken \/ PreambleIncomplete \/ PreambleScan
  BY <1>1, <1>2, PreambleReads
<1>3. CASE HeaderBoundary
  BY <1>1, <1>3, HeaderBoundaryReads
<1>4. CASE HeaderEnd
  BY <1>1, <1>4, HeaderEndReads
<1>5. CASE HeaderLine
  BY <1>1, <1>5, HeaderLineReads
<1>6. CASE HeaderPartial
  BY <1>1, <1>6, HeaderPartialReads
<1>7. CASE BodyAwaitsToken
  BY <1>1, <1>7, BodyAwaitsReads
<1>8. CASE BodyIsRaw
  BY <1>1, <1>8, BodyIsRawReads
<1>9. CASE BodyToken
  BY <1>1, <1>9, BodyTokenReads
<1>10. CASE BodyIncomplete
  BY <1>1, <1>10, BodyIncompleteReads
<1>11. CASE BodyScan
  BY <1>1, <1>11, BodyScanReads
<1>12. CASE RawHeaders
  BY <1>1, <1>12, RawHeadersRead
<1>13. CASE RawToken
  BY <1>1, <1>13, RawTokenReads
<1>14. CASE RawPartial
  BY <1>1, <1>14, RawPartialReads
<1> QED
  BY <1>2, <1>3, <1>4, <1>5, <1>6, <1>7, <1>8, <1>9, <1>10, <1>11, <1>12, <1>13, <1>14
     DEF Loop

(* What has been produced when feed returns is delivered of the message.   *)
LEMMA ProducedIsDelivered ==
  ASSUME NEW m, NEW k, NEW p, NEW f, At(m, k, p, f)', state' \in States, pending' \in BOOLEAN
  PROVE  DeliveredOf(Produced', Reference(m))
<1>1. /\ m \in Seq(Byte) /\ k \in Nat /\ Count(m) \in Nat /\ p \in Nat
      /\ k \in 1..Count(m) /\ p <= EndOf(m, k) /\ EndOf(m, k) <= Len(m)
      /\ EndOf(m, k) \in Nat /\ Len(m) \in Nat
  <2>1. Window(m, k, p, f)
    BY DEF At
  <2> QED
    BY <2>1, WindowBounds
<1>2. CASE state' = "Preamble"
  <2>1. Produced' = Told(m, 1)
    BY <1>1, <1>2, ToldPreamble DEF At
  <2> QED
    BY <1>1, <2>1, DeliveredTold
<1>3. CASE Produced' = Told(m, k - 1) /\ k \in 2..Count(m)
  <2>1. k - 1 \in Nat /\ k - 1 <= Count(m)
    BY <1>1, <1>3
  <2> QED
    BY <1>1, <1>3, <2>1, DeliveredTold
<1>4. CASE InData(m, k, p)' /\ k \in 2..Count(m)
  <2>1. /\ HeaderEnds(PieceOf(m, k)) # {} /\ BodyStart(m, k) <= p
        /\ k < Count(m) => BodyStart(m, k) < EndOf(m, k) /\ p <= DataEnd(m, k)
    BY <1>4 DEF InData, DataCut
  <2>2. p <= Len(m)
    BY <1>1
  <2>3. Produced' = (Told(m, k - 1) \o <<BeginOf(PieceOf(m, k))>>)
                     \o DataOf(Slice(m, BodyStart(m, k), p))
    BY <1>4 DEF InData
  <2> QED
    BY <1>1, <1>4, <2>1, <2>2, <2>3, DeliveredPart
<1> QED
  BY <1>2, <1>3, <1>4 DEF At, InHeader, InRaw, InBegin, States

-----------------------------------------------------------------------------
(* feed, and the end of the input.                                         *)

(* A chunk is appended to the buffer.                                      *)
LEMMA FeedReads ==
  ASSUME TypeOK, NEW m, NEW k, NEW p, NEW f, At(m, k, p, f), unread = From(m, f),
         NEW n \in 0..Len(unread), FeedNext(n), phase' # "raised"
  PROVE  /\ phase' = "feeding" /\ eof' = eof /\ ~eof /\ received' = received
         /\ request' = request
         /\ \E g : f <= g /\ At(m, k, p, g)' /\ unread' = From(m, g)
<1>1. /\ ~eof /\ buffer' = buffer \o Upto(unread, n)
      /\ phase' = "feeding" /\ UNCHANGED <<eof, events, received, state, headers, pending>>
      /\ unread' = From(unread, n) /\ request' = request
  BY DEF FeedNext, Feed, Raise
<1>2. Window(m, k, p, f) /\ buffer = Slice(m, p, f)
  BY DEF At
<1>3. /\ m \in Seq(Byte) /\ p \in Nat /\ f \in Nat /\ p <= f /\ f <= Len(m) /\ Len(m) \in Nat
      /\ k \in 1..Count(m) /\ StartOf(m, k) <= p /\ p <= EndOf(m, k)
      /\ EndOf(m, k) \in Nat
  BY <1>2, WindowBounds
<1>4. unread = Slice(m, f, Len(m)) /\ Len(unread) = Len(m) - f
  <2>1. unread = Slice(m, f, Len(m))
    BY FromIsSlice
  <2> DEFINE l == Len(m)
  <2>2. m \in Seq(Byte) /\ f \in Nat /\ l \in Nat /\ f <= l /\ l <= Len(m)
    BY <1>3
  <2> HIDE DEF l
  <2>3. Len(Slice(m, f, l)) = l - f
    <3>1. Within(m, f, l, 0)
      BY <2>2 DEF Within
    <3> QED
      BY <3>1, EndsOfSlice
  <2> QED
    BY <2>1, <2>3 DEF l
<1> PICK g : g = f + n
  OBVIOUS
<1>5. /\ n \in Nat /\ n <= Len(m) - f /\ g \in Nat /\ f <= g /\ g <= Len(m) /\ p <= g
      /\ g = f + n
  BY <1>3, <1>4
<1>6. Upto(unread, n) = Slice(m, f, g) /\ From(unread, n) = Slice(m, g, Len(m))
  <2> DEFINE l == Len(m)
  <2>1. /\ m \in Seq(Byte) /\ f \in Nat /\ l \in Nat /\ f <= l /\ l <= Len(m)
        /\ n \in Nat /\ n <= l - f
    BY <1>3, <1>5
  <2> HIDE DEF l
  <2>2. Upto(Slice(m, f, l), n) = Slice(m, f, f + n)
    <3>1. Within(m, f, l, n)
      BY <2>1 DEF Within
    <3> QED
      BY <3>1, EndsOfSlice
  <2>3. From(Slice(m, f, l), n) = Slice(m, f + n, l)
    <3>1. Within(m, f, l, n)
      BY <2>1 DEF Within
    <3> QED
      BY <3>1, EndsOfSlice
  <2> QED
    BY <1>4, <1>5, <2>2, <2>3 DEF l
<1>7. unread' = From(m, g)
  BY <1>1, <1>6, FromIsSlice
<1>8. buffer' = Slice(m, p, g)
  <2>1. Slice(m, p, f) \o Slice(m, f, g) = Slice(m, p, g)
    BY <1>3, <1>5, SliceConcat, ZenonT(60)
  <2> QED
    BY <1>1, <1>2, <1>6, <2>1
<1>9. Window(m, k, p, g)
  BY <1>3, <1>5 DEF Window
<1>10. TokenSeen(m, k, f) => TokenSeen(m, k, g)
  BY <1>3, <1>5, TokenBytes DEF TokenSeen
<1>11. Produced' = Produced
  BY <1>1 DEF Produced, History
<1>12. At(m, k, p, g)'
  <2>1. state' = "Header" => InHeader(m, k, p, g)'
    BY <1>1, <1>10, <1>11 DEF At, InHeader
  <2>2. state' = "Body" /\ pending' => InBegin(m, k, p)'
    BY <1>1, <1>11 DEF At, InBegin
  <2>3. state' = "Body" /\ ~pending' => InData(m, k, p)'
    BY <1>1, <1>11 DEF At, InData
  <2>4. state' \in {"Discard", "End"} => InRaw(m, k, p, g)'
    BY <1>1, <1>10, <1>11 DEF At, InRaw
  <2> QED
    BY <1>1, <1>8, <1>9, <1>11, <2>1, <2>2, <2>3, <2>4 DEF At
<1> QED
  BY <1>1, <1>5, <1>7, <1>12

(* When finish() accepts a message, over its segments.                     *)
LEMMA CompleteMeans ==
  ASSUME NEW m \in Seq(Byte), NEW n, n = Count(m)
  PROVE  IsComplete(m) <=>
           /\ n > 1
           /\ IF IsIncomplete(PieceOf(m, n))
              THEN /\ n > 2
                   /\ \/ IsPart(PieceOf(m, n - 1)) /\ PieceOf(m, n) = <<>>
                      \/ /\ HeaderEnds(PieceOf(m, n - 1)) = {}
                         /\ IsClose(PieceOf(m, n - 1) \o Token)
              ELSE IsClose(PieceOf(m, n)) /\ HeaderEnds(PieceOf(m, n)) = {}
<1>1. /\ Len(SplitAtTokens(m)) = n /\ n \in Nat /\ n >= 1
      /\ SplitAtTokens(m)[n] = PieceOf(m, n)
      /\ n > 1 => SplitAtTokens(m)[n - 1] = PieceOf(m, n - 1)
  <2>1. Count(m) \in Nat /\ Count(m) >= 1
    BY SegmentBounds
  <2>2. /\ Len(SplitAtTokens(m)) = Count(m)
        /\ \A k \in 1..Count(m) : SplitAtTokens(m)[k] = PieceOf(m, k)
    BY SplitIsPieces
  <2>3. n \in 1..Count(m) /\ (n > 1 => n - 1 \in 1..Count(m))
    BY <2>1
  <2> QED
    BY <2>1, <2>2, <2>3
<1> QED
  BY <1>1 DEF IsComplete

(* At the end of the input the parser is in the last segment, or before an *)
(* undecided last segment.                                                 *)
LEMMA LastSegment ==
  ASSUME NEW m, NEW k, NEW p, Window(m, k, p, Len(m)), Quiet(m, k, p, Len(m))
  PROVE  \/ /\ ~pending /\ TokenSeen(m, k, Len(m)) /\ IsIncomplete(Suffix(m, k, Len(m)))
            /\ state \in {"Header", "Discard", "End"} => p = EndOf(m, k)
            /\ Count(m) = k + 1 /\ EndsUndecided(m, k)
            /\ PieceOf(m, k + 1) = Suffix(m, k, Len(m))
            /\ Reference(m) = Told(m, k)
         \/ /\ ~TokenSeen(m, k, Len(m)) /\ Count(m) = k /\ EndOf(m, k) = Len(m)
            /\ state = "Header" => Find(buffer, CRLF) = {}
            /\ state \in {"Discard", "End"} => Find(buffer, CRLF \o CRLF) = {}
            /\ Reference(m) = Told(m, k)
<1>1. /\ m \in Seq(Byte) /\ Len(m) \in Nat /\ Count(m) \in Nat /\ k \in 1..Count(m) /\ k \in Nat
      /\ EndOf(m, k) \in Nat
      /\ k = Count(m) => EndOf(m, k) = Len(m)
      /\ k < Count(m) => /\ EndOf(m, k) + Len(Token) <= Len(m)
                         /\ k + 1 \in 1..Count(m)
                         /\ StartOf(m, k + 1) = EndOf(m, k) + Len(Token)
  BY WindowBounds
<1>2. TokenSeen(m, k, Len(m)) <=> k < Count(m)
  BY <1>1 DEF TokenSeen
<1>3. Reference(m) = Told(m, Count(m))
  BY <1>1, ToldEquations
<1>4. CASE ~TokenSeen(m, k, Len(m))
  <2>1. Count(m) = k
    BY <1>1, <1>2, <1>4
  <2> QED
    BY <1>1, <1>3, <1>4, <2>1 DEF Quiet
<1>5. CASE TokenSeen(m, k, Len(m))
  <2>1. /\ ~pending /\ IsIncomplete(Suffix(m, k, Len(m)))
        /\ state \in {"Header", "Discard", "End"} => p = EndOf(m, k)
    BY <1>5 DEF Quiet
  <2>2. Window(m, k + 1, StartOf(m, k + 1), Len(m))
    <3>1. /\ StartOf(m, k + 1) \in Nat /\ StartOf(m, k + 1) <= EndOf(m, k + 1)
          /\ StartOf(m, k + 1) <= Len(m) /\ k + 1 \in 1..Count(m)
      BY <1>1, <1>2, <1>5, SegmentBounds
    <3> QED
      BY <1>1, <3>1 DEF Window
  <2>3. IsIncomplete(Slice(m, StartOf(m, k + 1), Len(m)))
    BY <2>1 DEF Suffix
  <2>4. /\ k + 1 = Count(m)
        /\ PieceOf(m, k + 1) = Slice(m, StartOf(m, k + 1), Len(m))
        /\ IsIncomplete(PieceOf(m, k + 1))
        /\ HeaderEnds(PieceOf(m, k + 1)) = {}
    BY <2>2, <2>3, UndecidedIsLast
  <2>5. Told(m, k + 1) = Told(m, k)
    <3>1. k + 1 \in 2..Count(m) /\ (k + 1) - 1 = k
      BY <1>1, <2>4
    <3> QED
      BY <1>1, <2>4, <3>1, ToldSegment
  <2> QED
    BY <1>3, <1>5, <2>1, <2>4, <2>5 DEF Suffix, EndsUndecided
<1> QED
  BY <1>4, <1>5

(* Once the input has ended, the events are those of the message, and what *)
(* finish() says is whether it is complete.                                *)
Concluded(m) == Produced' = Reference(m) /\ (Finished' <=> IsComplete(m))

(* feed_eof, outside a body, adds nothing.                                 *)
LEMMA EofQuiet ==
  ASSUME TypeOK, PendingOnlyInBody, FeedEof, phase' # "raised", state # "Body"
  PROVE  Produced' = Produced /\ state' = state
<1>1. ~pending /\ Began = <<>> /\ Return(Began) /\ state' = state
  BY DEF PendingOnlyInBody, Began, FeedEof, Raise
<1> QED
  BY <1>1, NothingProduced

(* An open suffix is not closed by what comes after it.                    *)
LEMMA OpenNotClosed ==
  ASSUME NEW s \in Seq(Byte), OpenLength(s) # {}
  PROVE  ~IsClose(s \o Token)
<1>1. PICK n \in OpenLength(s) : TRUE
  OBVIOUS
<1>2. n \in Nat /\ n <= Len(s) /\ Len(s) \in Nat
  BY <1>1, OpenBytes, LenProperties
<1>3. Token \in Seq(Byte) /\ Len(Token) \in Nat
  BY TokenProperties
<1>4. /\ s \o Token \in Seq(Byte) /\ Len(s \o Token) = Len(s) + Len(Token)
      /\ \A i \in 1..Len(s) : (s \o Token)[i] = s[i]
  BY <1>2, <1>3, ConcatProperties
<1>5. n <= Len(s \o Token) /\ \A i \in 1..n : (s \o Token)[i] = s[i]
  BY <1>2, <1>3, <1>4
<1>6. n \in OpenLength(s \o Token)
  BY <1>1, <1>4, <1>5, OpenTransfer
<1> QED
  BY <1>4, <1>6, OpenIsDecided

(* Whether a segment and its token close is seen in the rest of the        *)
(* message.                                                                *)
LEMMA CloseInRest ==
  ASSUME NEW m, NEW k, NEW f, Window(m, k, EndOf(m, k), f), k < Count(m)
  PROVE  IsClose(PieceOf(m, k) \o Token) <=> IsClose(RestOf(m, k))
<1> DEFINE S == StartOf(m, k)
           E == EndOf(m, k)
           s == PieceOf(m, k)
           r == RestOf(m, k)
<1>1. /\ m \in Seq(Byte) /\ S \in Nat /\ E \in Nat /\ S <= E /\ Len(m) \in Nat
      /\ k \in 1..Count(m)
      /\ E \in Occurrences(m, Token) /\ E + Len(Token) <= Len(m)
  BY WindowBounds
<1>2. /\ s \in Seq(Byte) /\ Len(s) = E - S /\ \A i \in 1..(E - S) : s[i] = m[S + i]
      /\ r \in Seq(Byte) /\ Len(r) = Len(m) - S /\ \A i \in 1..(Len(m) - S) : r[i] = m[S + i]
  BY <1>1, PieceProperties
<1>3. Token \in Seq(Byte) /\ Len(Token) \in Nat /\ Len(Token) >= 3
  BY TokenProperties
<1>4. /\ s \o Token \in Seq(Byte) /\ Len(s \o Token) = (E - S) + Len(Token)
      /\ \A i \in 1..((E - S) + Len(Token)) :
           (s \o Token)[i] = IF i <= E - S THEN s[i] ELSE Token[i - (E - S)]
  <2>1. s \in Seq(Byte) /\ Len(s) = E - S /\ E - S \in Nat
    BY <1>1, <1>2
  <2> HIDE DEF s, S, E
  <2>2. /\ s \o Token \in Seq(Byte) /\ Len(s \o Token) = Len(s) + Len(Token)
        /\ \A i \in 1..(Len(s) + Len(Token)) :
             (s \o Token)[i] = IF i <= Len(s) THEN s[i] ELSE Token[i - Len(s)]
    BY <1>3, <2>1, ConcatProperties
  <2> QED
    BY <2>1, <2>2
<1>5. \A j \in 1..Len(Token) : m[E + j] = Token[j]
  BY <1>1, <1>3, OccurrenceRange
<1>6. ASSUME NEW i \in 1..2 PROVE (s \o Token)[i] = r[i]
  <2>1. i \in 1..((E - S) + Len(Token)) /\ i \in 1..(Len(m) - S) /\ r[i] = m[S + i]
    BY <1>1, <1>2, <1>3, SMTT(60)
  <2>2. CASE i <= E - S
    <3>1. i \in 1..(E - S)
      BY <1>1, <2>2
    <3> QED
      BY <1>2, <1>4, <2>1, <2>2, <3>1
  <2>3. CASE ~(i <= E - S)
    <3>1. i - (E - S) \in 1..Len(Token) /\ E + (i - (E - S)) = S + i
      BY <1>1, <1>3, <2>3
    <3>2. m[S + i] = Token[i - (E - S)]
      BY <1>5, <3>1
    <3> QED
      BY <1>4, <2>1, <2>3, <3>2
  <2> QED
    BY <2>2, <2>3
<1>7. Len(s \o Token) >= 2 /\ Len(r) >= 2
  BY <1>1, <1>2, <1>3, <1>4, SMTT(60)
<1>8. (s \o Token)[1] = r[1] /\ (s \o Token)[2] = r[2]
  <2>1. 1 \in 1..2 /\ 2 \in 1..2
    OBVIOUS
  <2> HIDE DEF s, r
  <2> QED
    BY <1>6, <2>1
<1> HIDE DEF s, r
<1>9. IsClose(s \o Token) <=> IsClose(r)
  BY <1>2, <1>4, <1>7, <1>8, CloseMeans
<1> QED
  BY <1>9 DEF s, r

(* feed_eof and finish, in the preamble.                                   *)
LEMMA EofInPreamble ==
  ASSUME TypeOK, PendingOnlyInBody, NEW m, NEW k, NEW p, At(m, k, p, Len(m)),
         Quiet(m, k, p, Len(m)), FeedEof, phase' # "raised", state = "Preamble"
  PROVE  Concluded(m)
<1>1. Window(m, k, p, Len(m)) /\ k = 1 /\ Produced = <<>>
  BY DEF At
<1>2. m \in Seq(Byte) /\ Count(m) \in Nat
  BY <1>1, WindowBounds
<1>3. Told(m, k) = <<>>
  BY <1>1, <1>2, ToldPreamble
<1>4. Produced' = <<>> /\ state' = "Preamble"
  BY <1>1, EofQuiet
<1>5. Reference(m) = Told(m, k) /\ ~IsComplete(m)
  <2>1. CASE Count(m) = k + 1 /\ EndsUndecided(m, k) /\ Reference(m) = Told(m, k)
    <3>1. Count(m) = 2 /\ k + 1 = 2 /\ IsIncomplete(PieceOf(m, 2))
      BY <1>1, <2>1 DEF EndsUndecided
    <3> QED
      BY <1>2, <2>1, <3>1, CompleteMeans
  <2>2. CASE Count(m) = k /\ Reference(m) = Told(m, k)
    BY <1>1, <1>2, <2>2, CompleteMeans
  <2> QED
    BY <1>1, <2>1, <2>2, LastSegment
<1> QED
  BY <1>3, <1>4, <1>5 DEF Concluded, Finished

(* feed_eof and finish, in a header block.                                 *)
LEMMA EofInHeader ==
  ASSUME TypeOK, PendingOnlyInBody, NEW m, NEW k, NEW p, At(m, k, p, Len(m)),
         Quiet(m, k, p, Len(m)), FeedEof, phase' # "raised", state = "Header"
  PROVE  Concluded(m)
<1> DEFINE piece == PieceOf(m, k)
<1>1. /\ Window(m, k, p, Len(m)) /\ k \in 2..Count(m) /\ InHeader(m, k, p, Len(m))
      /\ buffer = Slice(m, p, Len(m))
  BY DEF At
<1>2. /\ m \in Seq(Byte) /\ Count(m) \in Nat /\ k \in Nat /\ p \in Nat /\ k \in 1..Count(m)
      /\ Len(m) \in Nat /\ EndOf(m, k) \in Nat /\ EndOf(m, k) <= Len(m)
  BY <1>1, WindowBounds
<1>3. piece \in Seq(Byte)
  BY <1>2, PieceProperties
<1>4. Produced' = Told(m, k - 1) /\ state' = "Header"
  BY <1>1, EofQuiet DEF InHeader
<1>5. CASE /\ TokenSeen(m, k, Len(m)) /\ p = EndOf(m, k)
           /\ Count(m) = k + 1 /\ EndsUndecided(m, k) /\ Reference(m) = Told(m, k)
  <2>1. HeaderEnds(piece) = {} /\ OpenLength(piece) # {}
    <3>1. CASE HeaderLines(PieceOf(m, k), p - StartOf(m, k), headers)
      <4>1. ASSUME NEW i \in Find(Slice(m, p, Len(m)), CRLF) PROVE EndOf(m, k) - p <= i
        <5>1. i \in Nat
          <6>1. Slice(m, p, Len(m)) \in Seq(Byte)
            BY <1>1, WindowBuffer
          <6> QED
            BY <6>1, LineEndWords, FindProperties
        <5> QED
          BY <1>2, <1>5, <5>1
      <4> QED
        BY <1>1, <1>2, <3>1, <4>1, NoLineNoBlock
    <3> QED
      BY <1>1, <3>1 DEF InHeader
  <2>2. ~IsPart(piece)
    BY <2>1 DEF IsPart
  <2>3. Told(m, k) = Told(m, k - 1)
    <3>1. k < Count(m)
      BY <1>2, <1>5
    <3> QED
      BY <1>1, <1>2, <1>5, <2>2, <3>1, ToldSegment
  <2>4. ~IsClose(piece \o Token)
    BY <1>3, <2>1, OpenNotClosed
  <2>5. ~IsComplete(m)
    <3>1. (k + 1) - 1 = k /\ IsIncomplete(PieceOf(m, k + 1))
      BY <1>2, <1>5 DEF EndsUndecided
    <3> QED
      BY <1>2, <1>5, <2>2, <2>4, <3>1, CompleteMeans
  <2> QED
    BY <1>4, <1>5, <2>3, <2>5 DEF Concluded, Finished
<1>6. CASE /\ ~TokenSeen(m, k, Len(m)) /\ Count(m) = k /\ EndOf(m, k) = Len(m)
           /\ Find(buffer, CRLF) = {} /\ Reference(m) = Told(m, k)
  <2>1. HeaderLines(PieceOf(m, k), p - StartOf(m, k), headers)
    BY <1>1, <1>6 DEF InHeader
  <2>2. HeaderEnds(piece) = {} /\ OpenLength(piece) # {}
    <3>1. \A i \in Find(Slice(m, p, Len(m)), CRLF) : EndOf(m, k) - p <= i
      BY <1>1, <1>6
    <3> QED
      BY <1>1, <1>2, <2>1, <3>1, NoLineNoBlock
  <2>3. Told(m, k) = Told(m, k - 1)
    BY <1>1, <1>2, <1>6, <2>2, ToldSegment
  <2>4. ~IsComplete(m)
    <3>1. ~IsIncomplete(piece) /\ ~IsClose(piece)
      BY <1>3, <2>2, OpenIsDecided
    <3> QED
      BY <1>2, <1>6, <3>1, CompleteMeans
  <2> QED
    BY <1>4, <1>6, <2>3, <2>4 DEF Concluded, Finished
<1> QED
  BY <1>1, <1>5, <1>6, LastSegment

(* feed_eof and finish, in a segment that is no part.                      *)
LEMMA EofInRaw ==
  ASSUME TypeOK, PendingOnlyInBody, NEW m, NEW k, NEW p, At(m, k, p, Len(m)),
         Quiet(m, k, p, Len(m)), FeedEof, phase' # "raised", state \in {"Discard", "End"}
  PROVE  Concluded(m)
<1> DEFINE piece == PieceOf(m, k)
<1>1. /\ Window(m, k, p, Len(m)) /\ k \in 2..Count(m) /\ InRaw(m, k, p, Len(m))
      /\ buffer = Slice(m, p, Len(m))
  BY DEF At
<1>2. /\ m \in Seq(Byte) /\ Count(m) \in Nat /\ k \in Nat /\ p \in Nat /\ k \in 1..Count(m)
      /\ Len(m) \in Nat /\ EndOf(m, k) \in Nat /\ EndOf(m, k) <= Len(m)
      /\ StartOf(m, k) \in Nat
  BY <1>1, WindowBounds
<1>3. piece \in Seq(Byte) /\ Len(piece) = EndOf(m, k) - StartOf(m, k)
  BY <1>2, PieceProperties
<1>4. Produced' = Told(m, k - 1) /\ (Finished' <=> state = "End")
  BY <1>1, EofQuiet DEF InRaw, Finished
<1>5. CASE /\ TokenSeen(m, k, Len(m)) /\ p = EndOf(m, k)
           /\ Count(m) = k + 1 /\ EndsUndecided(m, k) /\ Reference(m) = Told(m, k)
  <2>1. /\ ~IsPart(piece)
        /\ HeaderEnds(piece) = {} => (state = "End" <=> IsClose(RestOf(m, k)))
        /\ state = "End" => HeaderEnds(piece) = {}
    <3>1. CASE /\ p = StartOf(m, k)
               /\ IF state = "End" THEN IsClose(RestOf(m, k)) ELSE IsUnusable(RestOf(m, k))
      <4>1. Len(piece) = 0
        BY <1>2, <1>3, <1>5, <3>1
      <4>2. HeaderEnds(piece) = {}
        <5>1. ASSUME NEW h \in HeaderEnds(piece) PROVE FALSE
          <6>1. h \in Nat /\ h + 4 <= Len(piece)
            BY <1>3, <5>1, BlockProperties
          <6> QED
            BY <4>1, <6>1
        <5> QED
          BY <5>1
      <4> QED
        BY <3>1, <4>2 DEF IsPart, IsUnusable
    <3> QED
      BY <1>1, <3>1 DEF InRaw
  <2>2. k < Count(m) /\ (k + 1) - 1 = k /\ IsIncomplete(PieceOf(m, k + 1))
    BY <1>2, <1>5 DEF EndsUndecided
  <2>3. Told(m, k) = Told(m, k - 1)
    BY <1>1, <1>2, <1>5, <2>1, <2>2, ToldSegment
  <2>4. IsClose(piece \o Token) <=> IsClose(RestOf(m, k))
    <3>1. Window(m, k, EndOf(m, k), Len(m))
      BY <1>1, <1>5
    <3> QED
      BY <2>2, <3>1, CloseInRest
  <2>5. IsComplete(m) <=> HeaderEnds(piece) = {} /\ IsClose(piece \o Token)
    <3>1. k + 1 > 2
      BY <1>1, <1>2
    <3> QED
      BY <1>2, <1>5, <2>1, <2>2, <3>1, CompleteMeans
  <2> QED
    BY <1>4, <1>5, <2>1, <2>3, <2>4, <2>5 DEF Concluded
<1>6. CASE /\ ~TokenSeen(m, k, Len(m)) /\ Count(m) = k
           /\ Find(buffer, CRLF \o CRLF) = {} /\ Reference(m) = Told(m, k)
  <2>1. /\ p = StartOf(m, k)
        /\ IF state = "End" THEN IsClose(RestOf(m, k)) ELSE IsUnusable(RestOf(m, k))
    BY <1>1, <1>6 DEF InRaw
  <2>2. PieceOf(m, k) = RestOf(m, k) /\ Slice(m, StartOf(m, k), Len(m)) = RestOf(m, k)
    <3>1. Window(m, k, StartOf(m, k), Len(m))
      BY <1>1, <2>1
    <3> QED
      BY <1>6, <3>1, SegmentInBuffer, SMTT(30)
  <2>3. HeaderEnds(piece) = {}
    BY <1>1, <1>6, <2>1, <2>2 DEF HeaderEnds
  <2>4. Told(m, k) = Told(m, k - 1)
    BY <1>1, <1>2, <1>6, <2>3, ToldSegment
  <2>5. /\ ~IsIncomplete(piece)
        /\ state = "End" <=> IsClose(piece)
    BY <1>3, <2>1, <2>2, CloseIsDecided DEF IsUnusable
  <2>6. IsComplete(m) <=> IsClose(piece)
    <3>1. k > 1
      BY <1>1, <1>2
    <3> QED
      BY <1>2, <1>6, <2>3, <2>5, <3>1, CompleteMeans
  <2> QED
    BY <1>4, <1>6, <2>4, <2>5, <2>6 DEF Concluded
<1> QED
  BY <1>1, <1>5, <1>6, LastSegment

(* feed_eof and finish, in a body before an undecided last segment.        *)
LEMMA EofInUndecidedBody ==
  ASSUME TypeOK, PendingOnlyInBody, NEW m, NEW k, NEW p, At(m, k, p, Len(m)),
         FeedEof, phase' # "raised", state = "Body",
         ~pending, TokenSeen(m, k, Len(m)), IsIncomplete(Suffix(m, k, Len(m))),
         Count(m) = k + 1, EndsUndecided(m, k), PieceOf(m, k + 1) = Suffix(m, k, Len(m)),
         Reference(m) = Told(m, k)
  PROVE  Concluded(m)
<1> DEFINE D == DataEnd(m, k)
           sent == Began \o DataOf(Slice(m, p, D))
<1>1. /\ Window(m, k, p, Len(m)) /\ k \in 2..Count(m) /\ InData(m, k, p)
      /\ buffer = Slice(m, p, Len(m))
  BY DEF At
<1>2. /\ m \in Seq(Byte) /\ Count(m) \in Nat /\ k \in Nat /\ k \in 1..Count(m)
  BY <1>1, WindowBounds
<1>3. headers = <<>> /\ headers' = <<>> /\ pending' = FALSE
  BY <1>1 DEF InData, FeedEof, Raise
<1>4. BodyBegun
  BY <1>3 DEF BodyBegun
<1>5. \A index \in Find(buffer, Token) : IsIncomplete(TailAt(index))
  BY <1>1, TokenPlace
<1>6. Find(buffer, Token) # {}
  BY <1>1, TokenInBuffer
<1>7. PICK index \in Find(buffer, Token) :
        /\ state' = IF TailAt(index) = <<>> THEN "End" ELSE "Discard"
        /\ Return(Began \o DataOf(Upto(buffer, BodyDataEnd(buffer, index))) \o <<EndEvent>>)
  BY <1>5, <1>6 DEF FeedEof, Raise
<1>8. TailAt(index) = PieceOf(m, k + 1)
  BY <1>1, TokenPlace
<1>9. /\ BodyStart(m, k) < EndOf(m, k)
      /\ D \in Nat /\ p <= D /\ D <= Len(m)
      /\ Upto(buffer, BodyDataEnd(buffer, index)) = Slice(m, p, D)
      /\ k < Count(m)
  BY <1>4, BodyDataAt
<1>10. /\ sent \in Seq(Event)
       /\ Joined(History \o sent)
            = (Told(m, k - 1) \o <<BeginOf(PieceOf(m, k))>>)
                \o DataOf(Slice(m, BodyStart(m, k), D))
  BY <1>9, BodyEmits
<1> HIDE DEF D, sent
<1>11. Return(sent \o <<EndEvent>>)
  BY <1>7, <1>9 DEF sent
<1>12. <<EndEvent>> \in Seq(Event) /\ EndEvent \in Event /\ EndEvent.kind # "Data"
  BY EventTypes DEF EndEvent
<1>13. History \in Seq(Event)
  BY HistoryType
<1>14. /\ sent \o <<EndEvent>> \in Seq(Event)
       /\ History \o sent \in Seq(Event)
       /\ History \o (sent \o <<EndEvent>>) = (History \o sent) \o <<EndEvent>>
  BY <1>10, <1>12, <1>13, EventsAssociate
<1>15. Joined(History \o (sent \o <<EndEvent>>)) = Joined(History \o sent) \o <<EndEvent>>
  BY <1>12, <1>14, JoinOther
<1>16. IsPart(PieceOf(m, k)) /\ HeaderEnds(PieceOf(m, k)) # {}
  BY <1>1, <1>2, <1>9, BodySlices DEF InData, DataCut
<1>17. Joined(History \o (sent \o <<EndEvent>>)) = Told(m, k)
  BY <1>1, <1>2, <1>9, <1>10, <1>15, <1>16, ToldSegment DEF D
<1>18. Produced' = Told(m, k)
  BY <1>11, <1>14, <1>17, ProducedGrows
<1>19. IsComplete(m) <=> PieceOf(m, k + 1) = <<>>
  <2>1. k + 1 > 2 /\ (k + 1) - 1 = k /\ IsIncomplete(PieceOf(m, k + 1))
    BY <1>1, <1>2
  <2> QED
    BY <1>2, <1>16, <2>1, CompleteMeans
<1> QED
  BY <1>7, <1>8, <1>18, <1>19 DEF Concluded, Finished

(* feed_eof and finish, in a body that runs to the end of the message.     *)
LEMMA EofInLastBody ==
  ASSUME TypeOK, PendingOnlyInBody, NEW m, NEW k, NEW p, At(m, k, p, Len(m)),
         FeedEof, phase' # "raised", state = "Body",
         ~TokenSeen(m, k, Len(m)), Count(m) = k, Reference(m) = Told(m, k)
  PROVE  Concluded(m)
<1> DEFINE piece == PieceOf(m, k)
<1>1. /\ Window(m, k, p, Len(m)) /\ k \in 2..Count(m) /\ buffer = Slice(m, p, Len(m))
      /\ InBegin(m, k, p) \/ InData(m, k, p)
  BY DEF At, TypeOK
<1>2. /\ m \in Seq(Byte) /\ Count(m) \in Nat /\ k \in Nat /\ k \in 1..Count(m)
      /\ p \in Nat /\ Len(m) \in Nat /\ p <= Len(m)
  BY <1>1, WindowBounds
<1>3. piece \in Seq(Byte)
  BY <1>2, PieceProperties
<1>4. HeaderEnds(piece) # {}
  BY <1>1 DEF InBegin, InData, DataCut
<1>5. Find(buffer, Token) = {}
  BY <1>1, TokenInBuffer
<1>6. Return(Began \o DataOf(Slice(m, p, Len(m)))) /\ state' = "Body"
  BY <1>1, <1>5 DEF FeedEof, Raise
<1>7. /\ Began \o DataOf(Slice(m, p, Len(m))) \in Seq(Event)
      /\ Joined(History \o (Began \o DataOf(Slice(m, p, Len(m)))))
           = (Told(m, k - 1) \o <<BeginOf(piece)>>) \o DataOf(Slice(m, BodyStart(m, k), Len(m)))
  <2> DEFINE l == Len(m)
  <2>1. l \in Nat /\ p <= l /\ l <= l /\ At(m, k, p, l)
    BY <1>2
  <2> HIDE DEF l
  <2>2. /\ Began \o DataOf(Slice(m, p, l)) \in Seq(Event)
        /\ Joined(History \o (Began \o DataOf(Slice(m, p, l))))
             = (Told(m, k - 1) \o <<BeginOf(piece)>>) \o DataOf(Slice(m, BodyStart(m, k), l))
    BY <2>1, BodyEmits
  <2> QED
    BY <2>2 DEF l
<1>8. Produced' = Told(m, k)
  <2>1. Produced' = Joined(History \o (Began \o DataOf(Slice(m, p, Len(m)))))
    BY <1>6, <1>7, ProducedGrows
  <2> QED
    BY <1>1, <1>2, <1>4, <1>7, <2>1, ToldSegment
<1>9. ~IsComplete(m)
  <2>1. ~IsIncomplete(piece)
    <3>1. PICK h \in Occurrences(piece, CRLF \o CRLF) : TRUE
      BY <1>4 DEF HeaderEnds, Find
    <3>2. h \in Nat /\ h + 4 <= Len(piece) /\ piece[h + 2] = LF
      BY <1>3, EmptyLineMeans
    <3>3. h + 2 \in 1..Len(piece)
      BY <1>3, <3>2, LenProperties
    <3>4. LF \notin {DASH, SP, TAB, CR}
      BY BytesDiffer
    <3> QED
      BY <1>3, <3>2, <3>3, <3>4, IncompleteMeans
  <2> QED
    BY <1>2, <1>4, <2>1, CompleteMeans
<1> QED
  BY <1>6, <1>8, <1>9 DEF Concluded, Finished

(* When the whole message has been fed, feed_eof concludes it.             *)
LEMMA EofReads ==
  ASSUME TypeOK, PendingOnlyInBody, NEW m, NEW k, NEW p, At(m, k, p, Len(m)),
         Quiet(m, k, p, Len(m)), FeedEof, phase' # "raised"
  PROVE  Concluded(m)
<1>1. Window(m, k, p, Len(m)) /\ state \in States
  BY DEF At, TypeOK
<1>2. CASE state = "Body"
  BY <1>1, <1>2, LastSegment, EofInUndecidedBody, EofInLastBody
<1> QED
  BY <1>1, <1>2, EofInPreamble, EofInHeader, EofInRaw DEF States

-----------------------------------------------------------------------------
(* The invariant, and the theorems.                                        *)

(* The parser's steps on the chunks of a request, whoever its caller is;   *)
(* the fuzz target begins the same request again.                          *)
Receives == unread # <<>> /\ \E n \in 0..Len(unread) : FeedNext(n)
Turns == Loop /\ UNCHANGED inputVars
HearsTheEnd == unread = <<>> /\ FeedEof /\ UNCHANGED inputVars
Restarts == Reset /\ unread' = request /\ request' = request

ParseStep == Receives \/ Turns \/ HearsTheEnd \/ Restarts \/ UNCHANGED <<vars, inputVars>>

(* Where in the message the parser is.                                     *)
Reading ==
  \E k, p, f : /\ At(request, k, p, f)
               /\ unread = From(request, f)
               /\ phase = "idle" => Quiet(request, k, p, f)

(* The inductive invariant: in what has been fed the parser is somewhere;  *)
(* what has been returned is delivered of the message; and once the input  *)
(* has ended, it is the message.                                           *)
ReadInv ==
  /\ ProtocolInv
  /\ FeedingIsBeforeEof
  /\ request \in Seq(Byte) /\ unread \in Seq(Byte)
  /\ phase # "raised" /\ ~eof => Reading
  /\ DeliveredOf(Joined(received), Reference(request))
  /\ phase = "idle" /\ eof =>
       Joined(received) = Reference(request) /\ (Finished <=> IsComplete(request))

(* Nothing is buffered at the start of a message.                          *)
LEMMA ReadingStarts ==
  ASSUME NEW m \in Seq(Byte)
  PROVE  /\ Window(m, 1, 0, 0) /\ Slice(m, 0, 0) = <<>> /\ ~TokenSeen(m, 1, 0)
         /\ From(m, 0) = m
         /\ <<>> \o <<>> = <<>> /\ Joined(<<>>) = <<>>
         /\ DeliveredOf(<<>>, Reference(m)) /\ DeliveredOf(Reference(m), Reference(m))
<1>1. /\ Len(m) \in Nat /\ Count(m) \in Nat /\ 1 \in 1..Count(m)
      /\ StartOf(m, 1) = 0 /\ EndOf(m, 1) \in Nat
  <2>1. Count(m) \in Nat /\ Count(m) >= 1 /\ StartOf(m, 1) = 0
    BY SegmentBounds
  <2>2. 1 \in 1..Count(m)
    BY <2>1
  <2>3. EndOf(m, 1) \in Nat
    BY <2>2, SegmentBounds
  <2> QED
    BY <2>1, <2>2, <2>3, LenProperties
<1>2. Window(m, 1, 0, 0)
  BY <1>1 DEF Window
<1>3. Slice(m, 0, 0) = <<>>
  BY <1>1, SliceEmpty
<1>4. <<>> \o <<>> = <<>> /\ Joined(<<>>) = <<>>
  BY ConcatEmptySeq, JoinedEquations
<1>5. ~TokenSeen(m, 1, 0)
  BY <1>1, TokenBytes DEF TokenSeen
<1>6. From(m, 0) = m
  BY FromIsSlice, SliceWhole
<1>7. DeliveredOf(<<>>, Reference(m)) /\ DeliveredOf(Reference(m), Reference(m))
  <2>1. Told(m, 1) = <<>> /\ Told(m, Count(m)) = Reference(m)
    BY ToldPreamble, ToldEquations
  <2>2. 1 \in Nat /\ 1 <= Count(m) /\ Count(m) <= Count(m)
    BY <1>1
  <2>3. DeliveredOf(Told(m, 1), Reference(m))
    BY <1>1, <2>2, DeliveredTold
  <2>4. DeliveredOf(Told(m, Count(m)), Reference(m))
    BY <1>1, <2>2, DeliveredTold
  <2> QED
    BY <2>1, <2>3, <2>4
<1> QED
  BY <1>2, <1>3, <1>4, <1>5, <1>6, <1>7

(* A step that leaves the parser alone.                                    *)
LEMMA ReadingUnchanged ==
  ASSUME UNCHANGED vars, NEW m, NEW k, NEW p, NEW f, At(m, k, p, f)
  PROVE  /\ At(m, k, p, f)'
         /\ Quiet(m, k, p, f) => Quiet(m, k, p, f)'
<1>1. /\ state' = state /\ buffer' = buffer /\ headers' = headers /\ pending' = pending
      /\ received' = received /\ events' = events
  BY DEF vars
<1>2. Produced' = Produced
  BY <1>1 DEF Produced, History
<1>3. At(m, k, p, f)'
  BY <1>1, <1>2 DEF At, InHeader, InRaw, InBegin, InData
<1>4. Quiet(m, k, p, f) => Quiet(m, k, p, f)'
  BY <1>1 DEF Quiet
<1> QED
  BY <1>3, <1>4

(* A parse begins at the start of its message.                             *)
LEMMA ReadInit ==
  ASSUME Init, RequestInit
  PROVE  ReadInv
<1>1. Init /\ request \in Seq(Byte) /\ unread = request
  BY RequestsAssumption DEF RequestInit
<1>2. ProtocolInv
  BY <1>1, ProtocolInit
<1> PICK m : m = request
  OBVIOUS
<1>3. /\ Window(m, 1, 0, 0) /\ Slice(m, 0, 0) = <<>> /\ ~TokenSeen(m, 1, 0)
      /\ From(m, 0) = m
      /\ <<>> \o <<>> = <<>> /\ Joined(<<>>) = <<>>
      /\ DeliveredOf(<<>>, Reference(m))
  BY <1>1, ReadingStarts
<1>4. Produced = <<>>
  BY <1>1, <1>3 DEF Init, Produced, History
<1>5. At(m, 1, 0, 0)
  BY <1>1, <1>3, <1>4 DEF Init, At
<1>6. Quiet(m, 1, 0, 0)
  BY <1>1, <1>3 DEF Init, Quiet
<1>7. Reading
  BY <1>1, <1>3, <1>5, <1>6 DEF Reading
<1> QED
  BY <1>1, <1>2, <1>3, <1>7 DEF ReadInv, Init, FeedingIsBeforeEof

(* A step that leaves the parser and its input alone.                      *)
LEMMA ReadStutters ==
  ASSUME ReadInv, UNCHANGED <<vars, inputVars>>
  PROVE  ReadInv'
<1>1. UNCHANGED vars /\ request' = request /\ unread' = unread
  BY DEF inputVars
<1>2. ProtocolInv'
  BY <1>1, ProtocolStep DEF ReadInv
<1>3. phase' # "raised" /\ ~eof' => Reading'
  <2> SUFFICES ASSUME phase' # "raised", ~eof' PROVE Reading'
    OBVIOUS
  <2> PICK m : m = request
    OBVIOUS
  <2>1. phase' = phase /\ eof' = eof
    BY <1>1 DEF vars
  <2>2. PICK k, p, f : At(m, k, p, f) /\ unread = From(m, f) /\ (phase = "idle" => Quiet(m, k, p, f))
    BY <2>1 DEF ReadInv, Reading
  <2>3. At(m, k, p, f)' /\ (phase' = "idle" => Quiet(m, k, p, f)')
    BY <1>1, <2>1, <2>2, ReadingUnchanged
  <2> QED
    BY <1>1, <2>2, <2>3 DEF Reading
<1> QED
  BY <1>1, <1>2, <1>3 DEF ReadInv, vars, FeedingIsBeforeEof, Finished

(* feed, given the next chunk.                                             *)
LEMMA ReadFeed ==
  ASSUME ReadInv, Receives
  PROVE  ReadInv'
<1>1. /\ ProtocolInv /\ TypeOK /\ request \in Seq(Byte)
      /\ unread \in Seq(Byte) /\ Len(unread) \in Nat
      /\ phase # "raised" /\ ~eof => Reading
      /\ DeliveredOf(Joined(received), Reference(request))
  BY LenProperties DEF ReadInv, ProtocolInv
<1>2. PICK n \in 0..Len(unread) : FeedNext(n)
  BY DEF Receives
<1>3. /\ request' = request
      /\ Feed(Upto(unread, n)) /\ unread' = From(unread, n) /\ phase = "idle"
      /\ received' = received
  BY <1>2 DEF FeedNext, Feed, Raise
<1>4. Upto(unread, n) \in Seq(Byte) /\ unread' \in Seq(Byte)
  BY <1>1, <1>3, UptoProperties, FromProperties
<1>5. ProtocolInv'
  BY <1>1, <1>3, <1>4, ProtocolFeed
<1>6. phase' # "idle" /\ FeedingIsBeforeEof'
  BY <1>3 DEF Feed, Raise, FeedingIsBeforeEof
<1>7. ASSUME phase' # "raised" PROVE Reading'
  <2> PICK m : m = request
    OBVIOUS
  <2>1. ~eof
    BY <1>3, <1>7 DEF Feed, Raise
  <2>2. PICK k, p, f : At(m, k, p, f) /\ unread = From(m, f)
    BY <1>1, <1>3, <2>1 DEF Reading
  <2>3. \E g : At(m, k, p, g)' /\ unread' = From(m, g)
    BY <1>1, <1>2, <1>7, <2>2, FeedReads
  <2> QED
    BY <1>3, <1>6, <2>3 DEF Reading
<1> QED
  BY <1>1, <1>3, <1>4, <1>5, <1>6, <1>7 DEF ReadInv

(* A pass of the loop of feed.                                             *)
LEMMA ReadLoop ==
  ASSUME ReadInv, Turns
  PROVE  ReadInv'
<1>1. /\ ProtocolInv /\ TypeOK /\ PendingOnlyInBody /\ request \in Seq(Byte)
      /\ phase = "feeding" /\ ~eof
      /\ Reading
      /\ DeliveredOf(Joined(received), Reference(request))
      /\ Loop /\ eof' = eof
      /\ request' = request /\ unread' = unread
  BY DEF ReadInv, ProtocolInv, FeedingIsBeforeEof, Turns, Loop, inputVars
<1>2. ProtocolInv'
  BY <1>1, ProtocolStep DEF Next
<1>3. Outcomes
  BY <1>1, LoopOutcome
<1> PICK m : m = request
  OBVIOUS
<1>4. ASSUME phase' # "raised" PROVE Reading'
  <2>1. PICK k, p, f : At(m, k, p, f) /\ unread = From(m, f)
    BY <1>1 DEF Reading
  <2>2. Reaches(m, f)
    BY <1>1, <1>4, <2>1, LoopReads
  <2> QED
    BY <1>1, <2>1, <2>2 DEF Reaches, Reading
<1>5. DeliveredOf(Joined(received'), Reference(request'))
  <2>1. CASE phase' # "idle"
    BY <1>1, <1>3, <2>1 DEF Outcomes, Continue, Return, Raise
  <2>2. CASE phase' = "idle"
    <3>1. PICK k, p, f : At(m, k, p, f)'
      BY <1>1, <1>4, <2>2 DEF Reading
    <3>2. events' = <<>> /\ received' \in Seq(Event) /\ state' \in States /\ pending' \in BOOLEAN
      BY <1>2, <2>2 DEF ProtocolInv, BatchIsHandedOver, TypeOK
    <3>3. Produced' = Joined(received')
      BY <3>2, ConcatEmptySeq DEF Produced, History
    <3>4. DeliveredOf(Produced', Reference(m))
      BY <3>1, <3>2, ProducedIsDelivered
    <3> QED
      BY <1>1, <3>3, <3>4
  <2> QED
    BY <2>1, <2>2
<1> QED
  BY <1>1, <1>2, <1>4, <1>5 DEF ReadInv, FeedingIsBeforeEof

(* feed_eof, and finish after it.                                          *)
LEMMA ReadEnd ==
  ASSUME ReadInv, HearsTheEnd
  PROVE  ReadInv'
<1>1. /\ ProtocolInv /\ TypeOK /\ PendingOnlyInBody /\ request \in Seq(Byte)
      /\ phase = "idle" /\ ~eof /\ eof' = TRUE
      /\ Reading /\ unread = <<>>
      /\ DeliveredOf(Joined(received), Reference(request))
      /\ FeedEof
      /\ request' = request /\ unread' = unread
  BY DEF ReadInv, ProtocolInv, HearsTheEnd, FeedEof, inputVars
<1>2. ProtocolInv'
  BY <1>1, ProtocolStep DEF Next
<1>3. /\ phase' # "feeding"
      /\ phase' = "raised" => received' = received
  BY <1>1 DEF FeedEof, Raise, Return
<1> PICK m : m = request
  OBVIOUS
<1>4. ASSUME phase' # "raised" PROVE Concluded(m) /\ Joined(received') = Produced'
  <2>1. PICK k, p, f : At(m, k, p, f) /\ unread = From(m, f) /\ Quiet(m, k, p, f)
    BY <1>1 DEF Reading
  <2>2. f = Len(m)
    <3>1. m \in Seq(Byte) /\ f \in Nat /\ f <= Len(m) /\ Len(m) \in Nat
      BY <2>1, WindowBounds DEF At
    <3>2. Len(From(m, f)) = Len(m) - f
      BY <3>1, FromProperties
    <3>3. Len(From(m, f)) = 0
      BY <1>1, <2>1
    <3> QED
      BY <3>1, <3>2, <3>3
  <2>3. Concluded(m)
    BY <1>1, <1>4, <2>1, <2>2, EofReads
  <2>4. events' = <<>> /\ received' \in Seq(Event)
    BY <1>2, <1>3 DEF ProtocolInv, BatchIsHandedOver, TypeOK
  <2> QED
    BY <2>3, <2>4, ConcatEmptySeq DEF Produced, History
<1>5. DeliveredOf(Reference(m), Reference(m))
  BY <1>1, ReadingStarts
<1> QED
  BY <1>1, <1>2, <1>3, <1>4, <1>5 DEF ReadInv, Concluded, FeedingIsBeforeEof

(* Another parser begins the same message.                                 *)
LEMMA ReadRestarts ==
  ASSUME ReadInv, Restarts
  PROVE  ReadInv'
<1>0. request \in Seq(Byte) /\ request' = request
  BY DEF ReadInv, Restarts
<1>1. Init'
  BY DEF Restarts, Reset, Init
<1>2. ProtocolInv'
  <2>1. (Init => ProtocolInv)'
    BY ProtocolInit, PTL
  <2> QED
    BY <1>1, <2>1
<1> PICK m : m = request
  OBVIOUS
<1>3. /\ Window(m, 1, 0, 0) /\ Slice(m, 0, 0) = <<>> /\ ~TokenSeen(m, 1, 0)
      /\ From(m, 0) = m
      /\ <<>> \o <<>> = <<>> /\ Joined(<<>>) = <<>>
      /\ DeliveredOf(<<>>, Reference(m))
  BY <1>0, ReadingStarts
<1>4. Produced' = <<>>
  BY <1>3 DEF Restarts, Reset, Produced, History
<1>5. At(m, 1, 0, 0)'
  BY <1>3, <1>4 DEF Restarts, Reset, At
<1>6. Quiet(m, 1, 0, 0)'
  BY <1>3 DEF Restarts, Reset, Quiet
<1>7. Reading'
  BY <1>0, <1>3, <1>5, <1>6 DEF Restarts, Reset, Reading
<1> QED
  BY <1>0, <1>2, <1>3, <1>7 DEF ReadInv, Restarts, Reset, FeedingIsBeforeEof

(* Every step keeps the invariant.                                         *)
LEMMA ReadStep ==
  ASSUME ReadInv, ParseStep
  PROVE  ReadInv'
BY ReadStutters, ReadFeed, ReadLoop, ReadEnd, ReadRestarts DEF ParseStep

(* The first pass of the target feeds everything in one chunk.             *)
WholePass == pass = "contiguous" => unread \in {request, <<>>}

(* The target takes these steps and no others.                             *)
LEMMA FuzzStep ==
  ASSUME request \in Seq(Byte), unread \in Seq(Byte), WholePass, [FuzzNext]_<<vars, fuzzVars>>
  PROVE  ParseStep /\ WholePass'
<1>1. Len(unread) \in Nat /\ Len(request) \in Nat
  BY LenProperties
<1>2. CASE FeedChunk
  <2>1. PICK n \in NextChunkSizes : FeedNext(n)
    BY <1>2 DEF FeedChunk
  <2>2. /\ unread # <<>> /\ pass' = pass
        /\ request' = request /\ unread' = From(unread, n)
    BY <1>2, <2>1 DEF FeedChunk, FeedNext
  <2>3. n \in 0..Len(unread) /\ (pass = "contiguous" => n = Len(unread))
    <3>1. CASE pass = "contiguous"
      <4>1. n = Len(request) /\ unread = request
        BY <2>1, <2>2, <3>1 DEF NextChunkSizes, WholePass
      <4> QED
        BY <1>1, <4>1
    <3>2. CASE pass # "contiguous"
      <4>1. n \in {i \in ChunkSizes : i <= Len(unread)} \cup {Len(unread)}
        BY <2>1, <3>2 DEF NextChunkSizes
      <4>2. n \in Nat /\ n <= Len(unread)
        BY <1>1, <4>1, RequestsAssumption
      <4> QED
        BY <3>2, <4>2
    <3> QED
      BY <3>1, <3>2
  <2>4. From(unread, Len(unread)) = <<>>
    BY <1>1, FromIsSlice, SliceEmpty
  <2> QED
    BY <2>1, <2>2, <2>3, <2>4 DEF WholePass, ParseStep, Receives
<1>3. CASE RunLoop
  BY <1>3 DEF RunLoop, ParseStep, Turns, WholePass, fuzzVars, inputVars
<1>4. CASE EndInput
  BY <1>4 DEF EndInput, ParseStep, HearsTheEnd, WholePass, fuzzVars, inputVars
<1>5. CASE EndPass
  BY <1>5 DEF EndPass, ParseStep, Restarts, WholePass, inputVars
<1>6. CASE TargetReturns \/ UNCHANGED <<vars, fuzzVars>>
  BY <1>6 DEF TargetReturns, ParseStep, WholePass, fuzzVars, inputVars
<1> QED
  BY <1>2, <1>3, <1>4, <1>5, <1>6 DEF FuzzNext

LEMMA FuzzStarts == FuzzInit => Init /\ RequestInit /\ WholePass
BY DEF FuzzInit, RequestInit, WholePass

(* The invariant holds throughout.                                         *)
LEMMA ReadInvariant == FuzzSpec => []ReadInv
<1>1. FuzzInit => ReadInv /\ WholePass
  BY FuzzStarts, ReadInit
<1>2. ReadInv /\ WholePass /\ [FuzzNext]_<<vars, fuzzVars>> => ReadInv' /\ WholePass'
  <2> SUFFICES ASSUME ReadInv, WholePass, [FuzzNext]_<<vars, fuzzVars>>
               PROVE  ReadInv' /\ WholePass'
    OBVIOUS
  <2>1. ParseStep /\ WholePass'
    BY FuzzStep DEF ReadInv
  <2> QED
    BY <2>1, ReadStep
<1> QED
  BY <1>1, <1>2, PTL DEF FuzzSpec

(* At no moment has a caller been given what the message does not mean:    *)
(* whatever the chunks, the events returned so far are the beginning of    *)
(* those of the message, the last Data perhaps cut short (feed,            *)
(* multipart.rs:103-184).                                                  *)
THEOREM NothingTakenBack == FuzzSpec => []NothingIsTakenBack
<1>1. ReadInv => NothingIsTakenBack
  BY DEF ReadInv, NothingIsTakenBack, Joined
<1> QED
  BY <1>1, ReadInvariant, PTL

(* What is parsed is the message: when the target has ended a pass without *)
(* an error, the events are those of the message, and finish() accepts it  *)
(* exactly when it is complete (feed, feed_eof and finish,                 *)
(* multipart.rs:103-505).                                                  *)
THEOREM ParserCorrect == FuzzSpec => []ParsesTheMessage
<1>1. ReadInv => ParsesTheMessage
  BY DEF ReadInv, ParsesTheMessage, ParseEnds, Outcome, Joined
<1> QED
  BY <1>1, ReadInvariant, PTL

-----------------------------------------------------------------------------
(* How many parts have been begun.                                         *)

BeginsIn(stream) == {i \in DOMAIN stream : stream[i].kind = "Begin"}
BeginCount(stream) == Cardinality(BeginsIn(stream))

(* A segment that is read as a part, if what comes before it is read.      *)
HasBlock(m, k) ==
  k \in 2..Count(m) /\ (IsPart(PieceOf(m, k)) \/ (k = Count(m) /\ HeaderEnds(PieceOf(m, k)) # {}))

BlocksUpto(m, k) == {j \in 2..Count(m) : HasBlock(m, j) /\ j <= k}

(* One event more.                                                         *)
LEMMA BeginsOfOneMore ==
  ASSUME NEW s \in Seq(Event), NEW e \in Event
  PROVE  /\ BeginCount(s) \in Nat
         /\ BeginCount(s \o <<e>>) = IF e.kind = "Begin" THEN BeginCount(s) + 1 ELSE BeginCount(s)
<1> DEFINE t == s \o <<e>>
           n == Len(s) + 1
<1>1. Len(s) \in Nat /\ DOMAIN s = 1..Len(s) /\ <<e>> \in Seq(Event) /\ Len(<<e>>) = 1 /\ <<e>>[1] = e
  BY LenProperties
<1>2. /\ t \in Seq(Event) /\ Len(t) = n
      /\ \A i \in 1..n : t[i] = IF i <= Len(s) THEN s[i] ELSE <<e>>[i - Len(s)]
  BY <1>1, ConcatProperties
<1>3. DOMAIN t = 1..n
  BY <1>2, LenProperties
<1> HIDE DEF t
<1>4. \A i \in 1..Len(s) : t[i] = s[i] /\ i \in 1..n
  BY <1>1, <1>2
<1>5. t[n] = e /\ n \in 1..n /\ n \notin 1..Len(s)
  <2>1. n \in 1..n /\ ~(n <= Len(s)) /\ n - Len(s) = 1
    BY <1>1
  <2> QED
    BY <1>1, <1>2, <2>1
<1>6. \A i \in 1..n : i \in 1..Len(s) \/ i = n
  BY <1>1
<1>7. BeginsIn(t) = IF e.kind = "Begin" THEN BeginsIn(s) \cup {n} ELSE BeginsIn(s)
  BY <1>1, <1>3, <1>4, <1>5, <1>6 DEF BeginsIn
<1>8. IsFiniteSet(BeginsIn(s)) /\ n \notin BeginsIn(s)
  <2>1. IsFiniteSet(1..Len(s))
    BY <1>1, FS_Interval
  <2>2. BeginsIn(s) \in SUBSET (1..Len(s))
    BY <1>1 DEF BeginsIn
  <2> QED
    BY <1>5, <2>1, <2>2, FS_Subset
<1> QED
  BY <1>7, <1>8, FS_AddElement, FS_CardinalityType DEF BeginCount, t

(* No events, and Data.                                                    *)
LEMMA BeginsOfData ==
  /\ BeginCount(<<>>) = 0
  /\ \A s \in Seq(Event), x \in Seq(Byte) : BeginCount(s \o DataOf(x)) = BeginCount(s)
<1>1. BeginsIn(<<>>) = {}
  BY DEF BeginsIn
<1>2. BeginCount(<<>>) = 0
  BY <1>1, FS_EmptySet DEF BeginCount
<1>3. ASSUME NEW s \in Seq(Event), NEW x \in Seq(Byte)
      PROVE  BeginCount(s \o DataOf(x)) = BeginCount(s)
  <2>1. CASE x = <<>>
    <3>1. s \o <<>> = s
      BY ConcatEmptySeq
    <3> QED
      BY <2>1, <3>1 DEF DataOf
  <2>2. CASE x # <<>>
    <3>1. DataOf(x) = <<DataEvent(x)>> /\ DataEvent(x) \in Event /\ DataEvent(x).kind # "Begin"
      BY <2>2, EventTypes DEF DataOf, DataEvent
    <3> QED
      BY <3>1, BeginsOfOneMore
  <2> QED
    BY <2>1, <2>2
<1> QED
  BY <1>2, <1>3

(* An event that is joined to a stream begins what it would begin alone.   *)
LEMMA BeginsOfAppended ==
  ASSUME NEW s \in Seq(Event), NEW e \in Event
  PROVE  BeginCount(AppendEvent(s, e))
           = IF e.kind = "Begin" THEN BeginCount(s) + 1 ELSE BeginCount(s)
<1> DEFINE N == Len(s)
           joins == N > 0 /\ e.kind = "Data" /\ s[N].kind = "Data"
<1>1. N \in Nat /\ DOMAIN s = 1..N /\ AppendEvent(s, e) \in Seq(Event)
  BY LenProperties, AppendEventCases
<1>2. CASE ~joins
  <2>1. AppendEvent(s, e) = Append(s, e)
    BY <1>2, AppendEventCases
  <2>2. Append(s, e) = s \o <<e>>
    BY AppendIsConcat
  <2> QED
    BY <2>1, <2>2, BeginsOfOneMore
<1>3. CASE joins
  <2> DEFINE last == DataEvent(s[N].data \o e.data)
             t == [s EXCEPT ![N] = last]
  <2>1. AppendEvent(s, e) = t
    BY <1>3, AppendEventCases
  <2>2. N \in DOMAIN s /\ last.kind = "Data"
    BY <1>1, <1>3 DEF DataEvent
  <2> HIDE DEF last
  <2>3. DOMAIN t = DOMAIN s /\ \A i \in DOMAIN s : t[i] = IF i = N THEN last ELSE s[i]
    OBVIOUS
  <2>4. BeginsIn(t) = BeginsIn(s)
    BY <1>3, <2>2, <2>3 DEF BeginsIn
  <2> QED
    BY <1>3, <2>1, <2>4 DEF BeginCount
<1> QED
  BY <1>2, <1>3

(* A stream that is not empty is one event longer than another.            *)
LEMMA LastEvent ==
  ASSUME NEW t \in Seq(Event), NEW n \in Nat, Len(t) = n + 1
  PROVE  \E u \in Seq(Event), e \in Event : t = Append(u, e) /\ Len(u) = n
<1> DEFINE u == [i \in 1..n |-> t[i]]
           x == Append(u, t[n + 1])
<1>1. n + 1 \in 1..(n + 1) /\ \A i \in 1..(n + 1) : t[i] \in Event
  BY LenProperties
<1>2. \A i \in 1..n : i \in 1..(n + 1) /\ t[i] \in Event
  BY <1>1
<1>3. u \in Seq(Event) /\ Len(u) = n /\ \A i \in 1..n : u[i] = t[i]
  BY <1>2
<1> HIDE DEF u
<1>4. /\ x \in Seq(Event) /\ Len(x) = n + 1 /\ x[n + 1] = t[n + 1]
      /\ \A i \in 1..n : x[i] = u[i]
  BY <1>1, <1>3, AppendProperties
<1> HIDE DEF x
<1>5. \A i \in 1..Len(x) : x[i] = t[i]
  BY <1>1, <1>3, <1>4
<1>6. x = t
  BY <1>4, <1>5, SeqEqual
<1> QED
  BY <1>1, <1>3, <1>6 DEF x

(* Joining adjacent Data begins nothing and forgets no Begin.              *)
LEMMA BeginsOfJoined ==
  ASSUME NEW s \in Seq(Event)
  PROVE  BeginCount(Joined(s)) = BeginCount(s)
<1> DEFINE Same == {n \in Nat : \A t \in Seq(Event) :
                      Len(t) = n => BeginCount(Joined(t)) = BeginCount(t)}
<1>1. 0 \in Same
  <2>1. ASSUME NEW t \in Seq(Event), Len(t) = 0 PROVE BeginCount(Joined(t)) = BeginCount(t)
    BY <2>1, EmptySeq, JoinedEquations
  <2> QED
    BY <2>1
<1>2. ASSUME NEW n \in Same PROVE n + 1 \in Same
  <2> SUFFICES ASSUME NEW t \in Seq(Event), Len(t) = n + 1
               PROVE  BeginCount(Joined(t)) = BeginCount(t)
    OBVIOUS
  <2>1. PICK u \in Seq(Event), e \in Event : t = Append(u, e) /\ Len(u) = n
    BY LastEvent
  <2>2. BeginCount(Joined(u)) = BeginCount(u)
    BY <2>1
  <2>3. t = u \o <<e>> /\ Joined(t) = AppendEvent(Joined(u), e) /\ Joined(u) \in Seq(Event)
    BY <2>1, JoinedEquations, AppendIsConcat
  <2> QED
    BY <2>2, <2>3, BeginsOfAppended, BeginsOfOneMore
<1>3. Same \in SUBSET Nat
  OBVIOUS
<1>4. Len(s) \in Nat
  BY LenProperties
<1> HIDE DEF Same
<1>5. Same = Nat
  BY <1>1, <1>2, <1>3, EveryNatural
<1> USE DEF Same
<1> QED
  BY <1>4, <1>5

(* The segments are in order.                                              *)
LEMMA SegmentsInOrder ==
  ASSUME NEW m \in Seq(Byte), NEW j \in 1..Count(m), NEW k \in 1..Count(m), j < k
  PROVE  EndOf(m, j) < StartOf(m, k)
<1>0. /\ Count(m) \in Nat /\ Len(Token) \in Nat /\ Len(Token) >= 3
      /\ \A i \in 1..Count(m) :
           /\ StartOf(m, i) \in Nat /\ EndOf(m, i) \in Nat /\ StartOf(m, i) <= EndOf(m, i)
           /\ i < Count(m) => StartOf(m, i + 1) = EndOf(m, i) + Len(Token)
  BY SegmentBounds, TokenProperties
<1> DEFINE Later == {n \in Nat : j + n + 1 <= Count(m) => EndOf(m, j) < StartOf(m, j + n + 1)}
<1>1. 0 \in Later
  <2>1. ASSUME j + 0 + 1 <= Count(m) PROVE EndOf(m, j) < StartOf(m, j + 0 + 1)
    <3>1. j < Count(m) /\ j + 0 + 1 = j + 1
      BY <1>0, <2>1
    <3> QED
      BY <1>0, <3>1
  <2> QED
    BY <2>1
<1>2. ASSUME NEW n \in Later PROVE n + 1 \in Later
  <2> SUFFICES ASSUME j + (n + 1) + 1 <= Count(m)
               PROVE  EndOf(m, j) < StartOf(m, j + (n + 1) + 1)
    OBVIOUS
  <2> DEFINE i == j + n + 1
  <2>1. n \in Nat /\ i \in 1..Count(m) /\ i < Count(m) /\ i + 1 = j + (n + 1) + 1
    BY <1>0
  <2>2. EndOf(m, j) < StartOf(m, i)
    BY <2>1
  <2> HIDE DEF i
  <2>3. EndOf(m, j) < StartOf(m, i + 1)
    BY <1>0, <2>1, <2>2, SMTT(60)
  <2> QED
    BY <2>1, <2>3
<1>3. Later \in SUBSET Nat
  OBVIOUS
<1> HIDE DEF Later
<1>4. Later = Nat
  BY <1>1, <1>2, <1>3, EveryNatural
<1>5. k - j - 1 \in Nat /\ j + (k - j - 1) + 1 = k /\ k <= Count(m)
  BY <1>0
<1>6. k - j - 1 \in Later
  BY <1>4, <1>5
<1> QED
  BY <1>5, <1>6 DEF Later

(* A place is in one segment only.                                         *)
LEMMA OneSegment ==
  ASSUME NEW m, NEW j, NEW k, NEW p, NEW f, Window(m, j, p, f), Window(m, k, p, f)
  PROVE  j = k
<1>1. /\ m \in Seq(Byte) /\ j \in 1..Count(m) /\ k \in 1..Count(m)
      /\ j \in Nat /\ k \in Nat /\ p \in Nat
      /\ StartOf(m, j) \in Nat /\ EndOf(m, j) \in Nat /\ StartOf(m, j) <= p /\ p <= EndOf(m, j)
      /\ StartOf(m, k) \in Nat /\ EndOf(m, k) \in Nat /\ StartOf(m, k) <= p /\ p <= EndOf(m, k)
  BY WindowBounds
<1>2. ~(j < k)
  BY <1>1, SegmentsInOrder
<1>3. ~(k < j)
  BY <1>1, SegmentsInOrder
<1> QED
  BY <1>1, <1>2, <1>3

(* One segment more, and a later one.                                      *)
LEMMA BlocksCounted ==
  ASSUME NEW m \in Seq(Byte), NEW k \in Nat
  PROVE  /\ Cardinality(BlocksUpto(m, k)) \in Nat
         /\ Cardinality(BlocksUpto(m, k + 1))
              = IF HasBlock(m, k + 1) THEN Cardinality(BlocksUpto(m, k)) + 1
                ELSE Cardinality(BlocksUpto(m, k))
         /\ \A j \in 2..Count(m) : HasBlock(m, j) /\ k < j =>
              Cardinality(BlocksUpto(m, k)) + 1 <= Cardinality(BlocksUpto(m, j))
<1>0. Count(m) \in Nat
  BY SegmentBounds
<1>1. ASSUME NEW j PROVE IsFiniteSet(BlocksUpto(m, j)) /\ Cardinality(BlocksUpto(m, j)) \in Nat
  <2>1. IsFiniteSet(2..Count(m))
    BY <1>0, FS_Interval
  <2>2. BlocksUpto(m, j) \in SUBSET (2..Count(m))
    BY DEF BlocksUpto
  <2> QED
    BY <2>1, <2>2, FS_Subset, FS_CardinalityType
<1>2. BlocksUpto(m, k + 1)
        = IF HasBlock(m, k + 1) THEN BlocksUpto(m, k) \cup {k + 1} ELSE BlocksUpto(m, k)
  <2>1. \A j \in 2..Count(m) : j <= k + 1 <=> j <= k \/ j = k + 1
    OBVIOUS
  <2>2. HasBlock(m, k + 1) => k + 1 \in 2..Count(m)
    BY DEF HasBlock
  <2> QED
    BY <2>1, <2>2, Zenon DEF BlocksUpto
<1>3. k + 1 \notin BlocksUpto(m, k)
  BY DEF BlocksUpto
<1>4. ASSUME NEW j \in 2..Count(m), HasBlock(m, j), k < j
      PROVE  Cardinality(BlocksUpto(m, k)) + 1 <= Cardinality(BlocksUpto(m, j))
  <2>1. j \notin BlocksUpto(m, k) /\ BlocksUpto(m, k) \cup {j} \in SUBSET BlocksUpto(m, j)
    BY <1>4 DEF BlocksUpto
  <2>2. Cardinality(BlocksUpto(m, k) \cup {j}) = Cardinality(BlocksUpto(m, k)) + 1
    BY <1>1, <2>1, FS_AddElement
  <2>3. Cardinality(BlocksUpto(m, k) \cup {j}) <= Cardinality(BlocksUpto(m, j))
    BY <1>1, <2>1, FS_Subset
  <2> QED
    BY <2>2, <2>3
<1>5. Cardinality(BlocksUpto(m, k + 1))
        = IF HasBlock(m, k + 1) THEN Cardinality(BlocksUpto(m, k)) + 1
          ELSE Cardinality(BlocksUpto(m, k))
  BY <1>1, <1>2, <1>3, FS_AddElement
<1> QED
  BY <1>1, <1>4, <1>5

(* What the segments mean begins one part for each of them that has a      *)
(* header block.                                                           *)
LEMMA BeginsOfTold ==
  ASSUME NEW m \in Seq(Byte), NEW k \in Nat, k <= Count(m)
  PROVE  BeginCount(Told(m, k)) = Cardinality(BlocksUpto(m, k))
<1>0. Count(m) \in Nat /\ Count(m) >= 1
  BY SegmentBounds
<1> DEFINE Counted == {n \in Nat : n <= Count(m) =>
                         BeginCount(Told(m, n)) = Cardinality(BlocksUpto(m, n))}
<1>1. 0 \in Counted
  <2>1. BlocksUpto(m, 0) = {}
    BY DEF BlocksUpto
  <2>2. Told(m, 0) = <<>>
    BY ToldEquations
  <2> QED
    BY <2>1, <2>2, BeginsOfData, FS_EmptySet
<1>2. ASSUME NEW n \in Counted PROVE n + 1 \in Counted
  <2> SUFFICES ASSUME n + 1 <= Count(m)
               PROVE  BeginCount(Told(m, n + 1)) = Cardinality(BlocksUpto(m, n + 1))
    OBVIOUS
  <2> DEFINE k1 == n + 1
             piece == PieceOf(m, k1)
             T == Told(m, n)
  <2>1. n \in Nat /\ n <= Count(m) /\ BeginCount(T) = Cardinality(BlocksUpto(m, n)) /\ k1 - 1 = n
    BY <1>0
  <2>2. T \in Seq(Event)
    BY <2>1, ToldEquations
  <2>3. Cardinality(BlocksUpto(m, n + 1))
          = IF HasBlock(m, k1) THEN BeginCount(T) + 1 ELSE BeginCount(T)
    BY <2>1, BlocksCounted
  <2>4. CASE n = 0
    <3>1. ~HasBlock(m, k1)
      BY <2>4 DEF HasBlock
    <3>2. Told(m, k1) = <<>> /\ T = <<>>
      BY <2>4, ToldPreamble, ToldEquations
    <3> QED
      BY <2>3, <3>1, <3>2
  <2>5. CASE n # 0
    <3>1. k1 \in 2..Count(m) /\ k1 \in 1..Count(m)
      BY <1>0, <2>1, <2>5
    <3> HIDE DEF k1, T
    <3>2. /\ k1 < Count(m) /\ ~IsPart(piece) /\ ~EndsUndecided(m, k1)
               => Told(m, k1) = T \o <<RawEvent>>
          /\ k1 < Count(m) /\ ~IsPart(piece) /\ EndsUndecided(m, k1) => Told(m, k1) = T
          /\ k1 < Count(m) /\ IsPart(piece)
               => Told(m, k1) = ((T \o <<BeginOf(piece)>>)
                                   \o DataOf(Slice(m, BodyStart(m, k1), DataEnd(m, k1))))
                                  \o <<EndEvent>>
          /\ k1 = Count(m) /\ HeaderEnds(piece) = {} => Told(m, k1) = T
          /\ k1 = Count(m) /\ HeaderEnds(piece) # {}
               => Told(m, k1) = (T \o <<BeginOf(piece)>>)
                                  \o DataOf(Slice(m, BodyStart(m, k1), Len(m)))
      BY <2>1, <3>1, ToldSegment DEF T
    <3>3. /\ RawEvent \in Event /\ RawEvent.kind # "Begin"
          /\ EndEvent \in Event /\ EndEvent.kind # "Begin"
      BY EventTypes DEF RawEvent, EndEvent
    <3>4. k1 < Count(m) \/ k1 = Count(m)
      BY <1>0, <3>1
    <3>5. CASE ~HasBlock(m, k1)
      <4>1. Told(m, k1) = T \/ Told(m, k1) = T \o <<RawEvent>>
        BY <3>1, <3>2, <3>4, <3>5 DEF HasBlock
      <4>2. BeginCount(T \o <<RawEvent>>) = BeginCount(T)
        BY <2>2, <3>3, BeginsOfOneMore
      <4> QED
        BY <2>3, <3>5, <4>1, <4>2 DEF k1
    <3>6. CASE HasBlock(m, k1)
      <4>1. HeaderEnds(piece) # {} /\ (k1 < Count(m) => IsPart(piece))
        BY <3>4, <3>6 DEF HasBlock, IsPart
      <4>2. /\ BeginOf(piece) \in Event /\ BeginOf(piece).kind = "Begin"
            /\ T \o <<BeginOf(piece)>> \in Seq(Event)
        <5>1. piece \in Seq(Byte)
          BY <3>1, PieceProperties
        <5>2. BeginOf(piece) \in Event /\ BeginOf(piece).kind = "Begin"
          BY <4>1, <5>1, BeginOfType
        <5>3. <<BeginOf(piece)>> \in Seq(Event)
          BY <5>2
        <5> QED
          BY <2>2, <5>2, <5>3, ConcatProperties
      <4>3. BeginCount(T \o <<BeginOf(piece)>>) = BeginCount(T) + 1
        BY <2>2, <4>2, BeginsOfOneMore
      <4>4. \A x \in Seq(Byte) :
              /\ (T \o <<BeginOf(piece)>>) \o DataOf(x) \in Seq(Event)
              /\ BeginCount((T \o <<BeginOf(piece)>>) \o DataOf(x)) = BeginCount(T) + 1
        <5>1. ASSUME NEW x \in Seq(Byte)
              PROVE  (T \o <<BeginOf(piece)>>) \o DataOf(x) \in Seq(Event)
          BY <4>2, DataOfType, ConcatProperties
        <5> QED
          BY <4>2, <4>3, <5>1, BeginsOfData
      <4>5. \A x \in Seq(Byte) :
              BeginCount(((T \o <<BeginOf(piece)>>) \o DataOf(x)) \o <<EndEvent>>) = BeginCount(T) + 1
        BY <3>3, <4>4, BeginsOfOneMore
      <4>6. /\ Slice(m, BodyStart(m, k1), DataEnd(m, k1)) \in Seq(Byte)
            /\ Slice(m, BodyStart(m, k1), Len(m)) \in Seq(Byte)
        <5>1. /\ BodyStart(m, k1) \in Nat /\ DataEnd(m, k1) \in Nat
              /\ BodyStart(m, k1) <= DataEnd(m, k1)
              /\ DataEnd(m, k1) <= EndOf(m, k1) /\ BodyStart(m, k1) <= EndOf(m, k1)
          BY <3>1, <4>1, BodySlices
        <5>2. EndOf(m, k1) \in Nat /\ EndOf(m, k1) <= Len(m) /\ Len(m) \in Nat
          BY <3>1, SegmentBounds, LenProperties
        <5>3. DataEnd(m, k1) <= Len(m) /\ BodyStart(m, k1) <= Len(m) /\ Len(m) <= Len(m)
          BY <5>1, <5>2
        <5> QED
          BY <5>1, <5>2, <5>3, SliceProperties
      <4> QED
        BY <2>3, <3>2, <3>4, <3>6, <4>1, <4>4, <4>5, <4>6 DEF k1
    <3> QED
      BY <3>5, <3>6
  <2> QED
    BY <2>4, <2>5
<1>3. Counted \in SUBSET Nat
  OBVIOUS
<1> HIDE DEF Counted
<1>4. Counted = Nat
  BY <1>1, <1>2, <1>3, EveryNatural
<1> USE DEF Counted
<1> QED
  BY <1>4

(* The header block of a segment is within the limit.                      *)
WithinLimit(m, k) == ~OverLimit(BlockLength(PieceOf(m, k)))

(* The parts that these events begin are within the limit.                 *)
BegunFit(m, s) ==
  \A k \in 2..Count(m) :
    HasBlock(m, k) /\ Cardinality(BlocksUpto(m, k)) <= BeginCount(s) => WithinLimit(m, k)

(* It says of what has been returned what the property says.               *)
LEMMA BegunFitMeans ==
  ASSUME request \in Seq(Byte), BegunFit(request, received)
  PROVE  BegunPartsFitTheLimit
<1> PICK m : m = request
  OBVIOUS
<1> DEFINE segments == SplitAtTokens(m)
           withBlock == {j \in 2..Len(segments) :
                           IsPart(segments[j]) \/ (j = Len(segments) /\ HeaderEnds(segments[j]) # {})}
<1>1. Count(m) \in Nat /\ Len(segments) = Count(m) /\ \A j \in 2..Count(m) : segments[j] = PieceOf(m, j)
  <2>1. Count(m) \in Nat /\ Len(segments) = Count(m) /\ \A j \in 1..Count(m) : segments[j] = PieceOf(m, j)
    BY SplitIsPieces, SegmentBounds
  <2>2. \A j \in 2..Count(m) : j \in 1..Count(m)
    OBVIOUS
  <2> QED
    BY <2>1, <2>2
<1> HIDE DEF segments
<1>2. \A j : j \in withBlock <=> j \in 2..Count(m) /\ HasBlock(m, j)
  BY <1>1 DEF HasBlock
<1>3. \A i : {j \in withBlock : j <= i} = BlocksUpto(m, i)
  BY <1>2 DEF BlocksUpto
<1>4. ASSUME NEW i \in withBlock, Cardinality({j \in withBlock : j <= i}) <= BeginCount(received)
      PROVE  ~OverLimit(BlockLength(segments[i]))
  <2> HIDE DEF withBlock
  <2>1. i \in 2..Count(m) /\ HasBlock(m, i)
    BY <1>2
  <2>2. Cardinality(BlocksUpto(m, i)) <= BeginCount(received)
    BY <1>3, <1>4
  <2> QED
    BY <1>1, <2>1, <2>2 DEF BegunFit, WithinLimit
<1> QED
  BY <1>4 DEF BegunPartsFitTheLimit, BeginCount, BeginsIn, segments

(* If as many parts are begun as the first k segments have, and these are  *)
(* within the limit, then the parts begun are within the limit.            *)
LEMMA CountedFit ==
  ASSUME NEW m \in Seq(Byte), NEW s, NEW k \in Nat,
         BeginCount(s) = Cardinality(BlocksUpto(m, k)),
         \A j \in 2..Count(m) : HasBlock(m, j) /\ j <= k => WithinLimit(m, j)
  PROVE  BegunFit(m, s)
<1> SUFFICES ASSUME NEW i \in 2..Count(m), HasBlock(m, i),
                    Cardinality(BlocksUpto(m, i)) <= BeginCount(s)
             PROVE  WithinLimit(m, i)
  BY DEF BegunFit
<1>1. Count(m) \in Nat
  BY SegmentBounds
<1>2. Cardinality(BlocksUpto(m, i)) \in Nat /\ Cardinality(BlocksUpto(m, k)) \in Nat
  BY <1>1, BlocksCounted
<1>3. ASSUME k < i PROVE FALSE
  <2>1. Cardinality(BlocksUpto(m, k)) + 1 <= Cardinality(BlocksUpto(m, i))
    BY <1>3, BlocksCounted
  <2> QED
    BY <1>2, <2>1
<1> QED
  BY <1>1, <1>3

-----------------------------------------------------------------------------
(* What has been charged.                                                  *)

(* Every header block before segment k is within the limit.                *)
EarlierFit(m, k) == \A j \in 2..Count(m) : HasBlock(m, j) /\ j < k => WithinLimit(m, j)

(* The line end of an open suffix.                                         *)
Opening(m, k) == IF OpenLength(PieceOf(m, k)) = {} THEN 0 ELSE 2

(* current_total_header_size in a header block: what has been read of the  *)
(* segment, or nothing any more once its token has been met.  A field      *)
(* takes a colon and a line end at least.                                  *)
HeaderAccount(m, k, p, f) ==
  \/ /\ total = p - StartOf(m, k)
     /\ phase = "idle" => ~TokenSeen(m, k, f)
     /\ 3 * Len(headers) + Opening(m, k) <= total
  \/ total = 0 /\ headers = <<>> /\ p = EndOf(m, k) /\ TokenSeen(m, k, f)

Charged(m, k, p, f) ==
  /\ state = "Header" => HeaderAccount(m, k, p, f)
  /\ state = "Body" => WithinLimit(m, k)
  /\ EarlierFit(m, k)

(* The buffer says where the parser is.                                    *)
LEMMA Arrives ==
  ASSUME NEW m, NEW k, NEW p, NEW f, NEW j, NEW q,
         At(m, k, p, f)', Window(m, j, q, f), buffer' = Slice(m, q, f)
  PROVE  k = j /\ p = q
<1>1. Window(m, k, p, f) /\ buffer' = Slice(m, p, f)
  BY DEF At
<1>2. Len(Slice(m, p, f)) = f - p /\ Len(Slice(m, q, f)) = f - q
  BY <1>1, WindowBuffer
<1>3. p \in Nat /\ q \in Nat /\ f \in Nat
  BY <1>1, WindowBounds
<1>4. f - p = f - q
  BY <1>1, <1>2
<1>5. p = q
  BY <1>3, <1>4
<1> QED
  BY <1>1, <1>5, OneSegment

(* The next segment's predecessors.                                        *)
LEMMA OneMoreFits ==
  ASSUME NEW m, NEW k \in Nat, EarlierFit(m, k), HasBlock(m, k) => WithinLimit(m, k)
  PROVE  EarlierFit(m, k + 1)
<1>1. ASSUME NEW j \in 2..Count(m), HasBlock(m, j), j < k + 1 PROVE WithinLimit(m, j)
  <2>1. j < k \/ j = k
    BY <1>1
  <2> QED
    BY <1>1, <2>1 DEF EarlierFit
<1> QED
  BY <1>1 DEF EarlierFit

(* The arms after a token charge a new header block its first line.        *)
LEMMA TokenCharges ==
  ASSUME TypeOK, NEW m, NEW k, NEW p, NEW f, Window(m, k, p, f), buffer = Slice(m, p, f),
         NEW index \in Find(buffer, Token), NEW spent, AfterToken(index, spent),
         phase' = "feeding", headers' = <<>>,
         EarlierFit(m, k), HasBlock(m, k) => WithinLimit(m, k),
         NEW k2, NEW p2, At(m, k2, p2, f)'
  PROVE  Charged(m, k2, p2, f)'
<1> DEFINE S == StartOf(m, k + 1)
           tail == TailAt(index)
<1>1. /\ k < Count(m) /\ Window(m, k + 1, S, f) /\ tail = Slice(m, S, f)
  BY TokenPlace DEF Suffix
<1>2. /\ m \in Seq(Byte) /\ k \in Nat
      /\ S \in Nat /\ f \in Nat /\ S <= f /\ f <= Len(m) /\ Len(m) \in Nat
  BY <1>1, WindowBounds, Zenon
<1>3. \/ \E n \in OpenLength(tail) : state' = "Header" /\ total' = n /\ buffer' = From(tail, n)
      \/ state' \in {"End", "Discard"} /\ buffer' = tail
  BY DEF AfterToken
<1>4. EarlierFit(m, k + 1)
  BY <1>2, OneMoreFits
<1> HIDE DEF S, tail
<1>5. ASSUME NEW n \in OpenLength(tail), state' = "Header", total' = n, buffer' = From(tail, n)
      PROVE  Charged(m, k2, p2, f)'
  <2>1. n \in Nat /\ n >= 2 /\ S + n <= EndOf(m, k + 1) /\ S + n <= f
    BY <1>1, <1>5, OpenAhead DEF S
  <2>2. Window(m, k + 1, S + n, f) /\ buffer' = Slice(m, S + n, f)
    BY <1>1, <1>5, <2>1, WindowMoves
  <2>3. k2 = k + 1 /\ p2 = S + n
    BY <2>2, Arrives
  <2>4. total' = p2 - StartOf(m, k2) /\ 3 * Len(headers') + Opening(m, k2) <= total'
    <3>1. Len(headers') = 0
      OBVIOUS
    <3>2. Opening(m, k2) \in {0, 2}
      BY DEF Opening
    <3> QED
      BY <1>2, <1>5, <2>1, <2>3, <3>1, <3>2 DEF S
  <2>5. phase' # "idle"
    OBVIOUS
  <2> QED
    BY <1>4, <1>5, <2>3, <2>4, <2>5 DEF Charged, HeaderAccount
<1>6. ASSUME state' \in {"End", "Discard"}, buffer' = tail
      PROVE  Charged(m, k2, p2, f)'
  <2>1. k2 = k + 1
    BY <1>1, <1>6, Arrives
  <2> QED
    BY <1>4, <1>6, <2>1 DEF Charged
<1> QED
  BY <1>3, <1>5, <1>6

(* handle_raw_boundary, in a segment whose header block is no part.        *)
LEMMA BoundaryCharges ==
  ASSUME TypeOK, NEW m, NEW k, NEW p, NEW f, Window(m, k, p, f), buffer = Slice(m, p, f),
         NEW index \in Find(buffer, Token), phase = "feeding",
         NEW origin \in {"Header", "Discard", "End"}, NEW spent,
         RawBoundary(index, origin, spent), headers' = <<>>,
         origin = "Header" => spent = 0,
         EarlierFit(m, k), ~HasBlock(m, k),
         NEW k2, NEW p2, At(m, k2, p2, f)'
  PROVE  Charged(m, k2, p2, f)'
<1>1. CASE AfterToken(index, spent) /\ Continue(<<RawEvent>>)
  <2>1. phase' = "feeding"
    BY <1>1 DEF Continue
  <2> QED
    BY <1>1, <2>1, TokenCharges
<1>2. CASE /\ state' = origin /\ total' = spent
           /\ buffer' = From(buffer, index)
  <2>1. /\ TokenSeen(m, k, f) /\ Window(m, k, EndOf(m, k), f)
        /\ From(buffer, index) = Slice(m, EndOf(m, k), f)
    BY TokenPlace
  <2>2. k2 = k /\ p2 = EndOf(m, k)
    BY <1>2, <2>1, Arrives
  <2>3. state' = "Header" => HeaderAccount(m, k2, p2, f)'
    BY <1>2, <2>1, <2>2 DEF HeaderAccount
  <2>4. state' # "Body"
    BY <1>2
  <2> QED
    BY <2>2, <2>3, <2>4 DEF Charged
<1> QED
  BY <1>1, <1>2 DEF RawBoundary

(* handle_preamble.                                                        *)
LEMMA PreambleCharges ==
  ASSUME TypeOK, phase = "feeding", NEW m, NEW k, NEW p, NEW f, At(m, k, p, f),
         Charged(m, k, p, f), PreambleToken \/ PreambleIncomplete \/ PreambleScan,
         phase' # "raised", NEW k2, NEW p2, At(m, k2, p2, f)'
  PROVE  Charged(m, k2, p2, f)'
<1>1. state = "Preamble"
  BY DEF PreambleToken, PreambleIncomplete, PreambleScan
<1>2. /\ Window(m, k, p, f) /\ buffer = Slice(m, p, f) /\ k = 1 /\ headers = <<>>
      /\ EarlierFit(m, k) /\ ~HasBlock(m, k)
  BY <1>1 DEF At, Charged, HasBlock
<1>3. CASE PreambleToken
  <2>1. /\ \E index \in Find(buffer, Token) : AfterToken(index, total)
        /\ headers' = <<>> /\ phase' = "feeding"
    BY <1>2, <1>3 DEF PreambleToken, Continue
  <2> QED
    BY <1>2, <2>1, TokenCharges
<1>4. CASE PreambleIncomplete \/ PreambleScan
  <2>1. state' = "Preamble"
    BY <1>1, <1>4 DEF PreambleIncomplete, PreambleScan
  <2>2. k2 = k
    BY <1>2, <2>1 DEF At
  <2> QED
    BY <1>2, <2>1, <2>2 DEF Charged
<1> QED
  BY <1>3, <1>4

(* Where the parser reads lines, the account is what it has read of the    *)
(* segment.                                                                *)
LEMMA LinesAccount ==
  ASSUME NEW m, NEW k, NEW p, NEW f, At(m, k, p, f), Charged(m, k, p, f), state = "Header",
         ~(p = EndOf(m, k) /\ TokenSeen(m, k, f))
  PROVE  /\ Window(m, k, p, f) /\ buffer = Slice(m, p, f) /\ k \in 2..Count(m)
         /\ EarlierFit(m, k)
         /\ total = p - StartOf(m, k) /\ 3 * Len(headers) + Opening(m, k) <= total
         /\ HeaderLines(PieceOf(m, k), total, headers)
BY DEF At, Charged, HeaderAccount, InHeader

(* A segment whose token comes before a line end has no header block.      *)
LEMMA NoBlockBeforeToken ==
  ASSUME TypeOK, NEW m, NEW k, NEW p, NEW f, At(m, k, p, f), state = "Header",
         NEW index \in Find(buffer, Token), \A lineEnd \in Find(buffer, CRLF) : index < lineEnd
  PROVE  HeaderEnds(PieceOf(m, k)) = {}
<1>1. /\ Window(m, k, p, f) /\ buffer = Slice(m, p, f) /\ InHeader(m, k, p, f)
  BY DEF At
<1>2. index = EndOf(m, k) - p /\ TokenSeen(m, k, f) /\ index \in Nat
  BY <1>1, TokenPlace
<1>3. EndOf(m, k) <= f
  BY <1>1, <1>2, WindowBounds, TokenBytes DEF TokenSeen
<1>4. CASE HeaderLines(PieceOf(m, k), p - StartOf(m, k), headers)
  <2>1. ASSUME NEW i \in Find(buffer, CRLF) PROVE EndOf(m, k) - p <= i
    <3>1. i \in Nat
      BY LineEndWords, FindProperties DEF TypeOK
    <3> QED
      BY <1>2, <3>1
  <2> QED
    BY <1>1, <1>3, <1>4, <2>1, NoLineNoBlock
<1> QED
  BY <1>1, <1>4 DEF InHeader

(* handle_header, at a token.                                              *)
LEMMA HeaderBoundaryCharges ==
  ASSUME TypeOK, phase = "feeding", NEW m, NEW k, NEW p, NEW f, At(m, k, p, f),
         Charged(m, k, p, f), HeaderBoundary,
         phase' # "raised", NEW k2, NEW p2, At(m, k2, p2, f)'
  PROVE  Charged(m, k2, p2, f)'
<1>1. state = "Header"
  BY DEF HeaderBoundary
<1>2. /\ Window(m, k, p, f) /\ buffer = Slice(m, p, f) /\ EarlierFit(m, k)
      /\ k \in 2..Count(m) /\ InHeader(m, k, p, f)
  BY <1>1 DEF At, Charged
<1>3. PICK index \in Find(buffer, Token) :
        /\ \A lineEnd \in Find(buffer, CRLF) : index < lineEnd
        /\ headers' = <<>>
        /\ RawBoundary(index, "Header", 0)
  BY DEF HeaderBoundary, Raise
<1>4. HeaderEnds(PieceOf(m, k)) = {}
  BY <1>1, <1>3, NoBlockBeforeToken
<1>5. ~HasBlock(m, k)
  BY <1>4 DEF HasBlock, IsPart
<1> QED
  BY <1>2, <1>3, <1>5, BoundaryCharges

(* A line end at the start of the buffer is not in a token.                *)
LEMMA LineIsRead ==
  ASSUME TypeOK, NEW m, NEW k, NEW p, NEW f, Window(m, k, p, f), buffer = Slice(m, p, f),
         NEW index \in Find(buffer, CRLF),
         \A boundary \in Find(buffer, Token) : index <= boundary
  PROVE  ~(p = EndOf(m, k) /\ TokenSeen(m, k, f))
<1>1. ASSUME p = EndOf(m, k), TokenSeen(m, k, f) PROVE FALSE
  <2>1. EndOf(m, k) - p \in Find(buffer, Token)
    BY <1>1, TokenInBuffer
  <2>2. index <= EndOf(m, k) - p /\ p \in Nat
    BY <2>1, WindowBounds
  <2>3. index \in Nat /\ p + index + 2 <= EndOf(m, k)
    BY LineBeforeToken
  <2> QED
    BY <1>1, <2>2, <2>3
<1> QED
  BY <1>1

(* Where the empty line is that ends the header block.                     *)
LEMMA BlockEndsHere ==
  ASSUME TypeOK, NEW m, NEW k, NEW p, NEW f, At(m, k, p, f), Charged(m, k, p, f),
         state = "Header", 0 \in Find(buffer, CRLF)
  PROVE  /\ HeaderEnds(PieceOf(m, k)) # {} /\ BlockLength(PieceOf(m, k)) = total + 2
         /\ Window(m, k, p + 2, f) /\ From(buffer, 2) = Slice(m, p + 2, f)
         /\ k \in 2..Count(m) /\ EarlierFit(m, k) /\ p \in Nat
<1> DEFINE S == StartOf(m, k)
           E == EndOf(m, k)
           piece == PieceOf(m, k)
           q == p - S
<1>1. Window(m, k, p, f) /\ buffer = Slice(m, p, f)
  BY DEF At
<1>2. \A boundary \in Find(Slice(m, p, f), Token) : 0 <= boundary
  BY <1>1, TokenPlace
<1>3. ~(p = E /\ TokenSeen(m, k, f))
  BY <1>1, <1>2, LineIsRead
<1>4. /\ k \in 2..Count(m) /\ EarlierFit(m, k)
      /\ total = q /\ HeaderLines(piece, q, headers)
  BY <1>3, LinesAccount
<1>5. /\ S \in Nat /\ E \in Nat /\ S <= p /\ p <= E /\ p \in Nat /\ m \in Seq(Byte)
      /\ k \in 1..Count(m)
  BY <1>1, WindowBounds
<1>6. piece \in Seq(Byte) /\ Len(piece) = E - S
  BY <1>5, PieceProperties
<1>7. /\ p + 0 + 2 <= E /\ p + 0 + 2 <= f
      /\ (p + 0) - S \in Occurrences(piece, CRLF)
      /\ EndsLine(piece, ((p + 0) - S) + 2)
  BY <1>1, <1>2, LineBeforeToken, SMTT(60)
<1>8. p + 2 <= E /\ p + 2 <= f /\ EndsLine(piece, q + 2) /\ q \in Occurrences(piece, CRLF)
  <2>1. p + 0 = p
    BY <1>5
  <2> QED
    BY <1>7, <2>1
<1>9. q \in Nat /\ q + 2 <= Len(piece)
  BY <1>5, <1>6, <1>8
<1>10. q # 0
  <2>1. ASSUME q = 0 PROVE FALSE
    <3>1. 2 \in OpenLength(piece)
      <4>1. EndsLine(piece, 2)
        BY <1>8, <2>1
      <4>2. \A i \in 1..(2 - 2) : FALSE
        OBVIOUS
      <4> QED
        BY <4>1, <4>2 DEF EndsLine, OpenLength
    <3> QED
      BY <1>4, <2>1, <3>1 DEF HeaderLines
  <2> QED
    BY <2>1
<1>11. EndsLine(piece, q)
  BY <1>4, <1>10 DEF HeaderLines
<1>12. q >= 2 /\ q - 2 \in HeaderEnds(piece)
  <2>1. q >= 2 /\ piece[q - 1] = CR /\ piece[q] = LF
    BY <1>9, <1>11 DEF EndsLine
  <2>2. piece[q + 1] = CR /\ piece[q + 2] = LF
    BY <1>6, <1>8, LineEndMeans
  <2>3. /\ q - 2 \in Nat /\ (q - 2) + 4 <= Len(piece)
        /\ (q - 2) + 1 = q - 1 /\ (q - 2) + 2 = q /\ (q - 2) + 3 = q + 1 /\ (q - 2) + 4 = q + 2
    BY <1>9, <2>1
  <2>4. q - 2 \in Occurrences(piece, CRLF \o CRLF)
    BY <1>6, <2>1, <2>2, <2>3, EmptyLineMeans
  <2>5. ASSUME NEW h \in Occurrences(piece, CRLF \o CRLF) PROVE q - 2 <= h
    <3>1. q <= h + 2
      BY <1>4 DEF HeaderLines
    <3>2. h \in Nat
      BY <1>6, TwoLineEnds
    <3> QED
      BY <1>9, <3>1, <3>2
  <2> QED
    BY <2>1, <2>4, <2>5 DEF HeaderEnds, Find
<1>13. BlockLength(piece) = q + 2
  <2>1. BlockLength(piece) = (q - 2) + 4
    BY <1>6, <1>12, BlockProperties
  <2> QED
    BY <1>9, <2>1
<1>14. Window(m, k, p + 2, f) /\ From(buffer, 2) = Slice(m, p + 2, f)
  BY <1>1, <1>8, WindowMoves
<1> QED
  BY <1>4, <1>5, <1>12, <1>13, <1>14

(* handle_header, at the empty line: the whole block has been charged.     *)
LEMMA HeaderEndCharges ==
  ASSUME TypeOK, phase = "feeding", NEW m, NEW k, NEW p, NEW f, At(m, k, p, f),
         Charged(m, k, p, f), HeaderEnd,
         phase' # "raised", NEW k2, NEW p2, At(m, k2, p2, f)'
  PROVE  Charged(m, k2, p2, f)'
<1>1. /\ state = "Header" /\ 0 \in Find(buffer, CRLF) /\ ~Exceeds(total + Len(CRLF))
      /\ buffer' = From(buffer, Len(CRLF)) /\ state' = "Body"
  BY DEF HeaderEnd, Raise
<1>2. /\ BlockLength(PieceOf(m, k)) = total + 2
      /\ Window(m, k, p + 2, f) /\ From(buffer, 2) = Slice(m, p + 2, f)
      /\ EarlierFit(m, k)
  BY <1>1, BlockEndsHere
<1>3. k2 = k
  BY <1>1, <1>2, LineEndWords, Arrives
<1>4. WithinLimit(m, k)
  BY <1>1, <1>2, LineEndWords DEF WithinLimit, OverLimit, Exceeds
<1> QED
  BY <1>1, <1>2, <1>3, <1>4 DEF Charged

(* handle_header, at a line: it is charged, and a field takes three bytes  *)
(* at least.                                                               *)
LEMMA HeaderLineCharges ==
  ASSUME TypeOK, phase = "feeding", NEW m, NEW k, NEW p, NEW f, At(m, k, p, f),
         Charged(m, k, p, f), HeaderLine,
         phase' # "raised", NEW k2, NEW p2, At(m, k2, p2, f)'
  PROVE  Charged(m, k2, p2, f)'
<1>1. PICK index \in Find(buffer, CRLF) :
        /\ index > 0
        /\ \A boundary \in Find(buffer, Token) : index <= boundary
        /\ headers' = headers \/ \E field : headers' = Append(headers, field)
        /\ total' = total + index + Len(CRLF)
        /\ buffer' = From(buffer, index + Len(CRLF))
  BY DEF HeaderLine, Raise
<1>2. state = "Header" /\ state' = "Header" /\ phase' = "feeding"
  BY DEF HeaderLine, Continue, Raise
<1>3. Window(m, k, p, f) /\ buffer = Slice(m, p, f)
  BY DEF At
<1>4. /\ index \in Nat
      /\ p + index + 2 <= EndOf(m, k) /\ p + index + 2 <= f
  BY <1>1, <1>3, LineBeforeToken
<1>5. /\ total = p - StartOf(m, k) /\ 3 * Len(headers) + Opening(m, k) <= total
      /\ EarlierFit(m, k) /\ Opening(m, k) \in {0, 2}
  BY <1>1, <1>2, <1>3, LineIsRead, LinesAccount DEF Opening
<1>6. p \in Nat /\ StartOf(m, k) \in Nat
  BY <1>3, WindowBounds
<1> PICK n : n = index + 2
  OBVIOUS
<1>7. n \in Nat /\ p + n <= EndOf(m, k) /\ p + n <= f
  BY <1>4, <1>6
<1>8. Window(m, k, p + n, f) /\ buffer' = Slice(m, p + n, f)
  <2>1. buffer' = From(buffer, n)
    BY <1>1, LineEndWords
  <2> QED
    BY <1>3, <1>7, <2>1, WindowMoves
<1>9. k2 = k /\ p2 = p + n
  BY <1>8, Arrives
<1>10. total' = total + n
  BY <1>1, <1>4, <1>5, <1>6, LineEndWords
<1>11. Len(headers) \in Nat /\ Len(headers') <= Len(headers) + 1 /\ Len(headers') \in Nat
  <2>1. headers \in Headers
    BY DEF TypeOK
  <2>2. Len(headers) \in Nat
    BY <2>1, LenProperties DEF Headers
  <2>3. \A field : Len(Append(headers, field)) = Len(headers) + 1
    BY <2>1 DEF Headers
  <2> QED
    BY <1>1, <2>2, <2>3
<1>12. total' = p2 - StartOf(m, k2) /\ 3 * Len(headers') + Opening(m, k2) <= total'
  <2>1. total' = (p + n) - StartOf(m, k)
    BY <1>5, <1>6, <1>7, <1>10
  <2>2. n >= 3
    BY <1>1, <1>4
  <2>3. \A o \in {0, 2} : 3 * Len(headers) + o <= total => 3 * Len(headers') + o <= total + n
    BY <1>5, <1>6, <1>7, <1>11, <2>2
  <2> QED
    BY <1>5, <1>9, <1>10, <2>1, <2>3
<1> QED
  BY <1>2, <1>5, <1>9, <1>12 DEF Charged, HeaderAccount

(* handle_header, without a whole line.                                    *)
LEMMA HeaderPartialCharges ==
  ASSUME TypeOK, phase = "feeding", NEW m, NEW k, NEW p, NEW f, At(m, k, p, f),
         Charged(m, k, p, f), HeaderPartial,
         phase' # "raised", NEW k2, NEW p2, At(m, k2, p2, f)'
  PROVE  Charged(m, k2, p2, f)'
<1>1. state = "Header" /\ Find(buffer, Token) = {} /\ UNCHANGED parserVars
  BY DEF HeaderPartial
<1>2. Window(m, k, p, f) /\ buffer = Slice(m, p, f)
  BY DEF At
<1>3. ~TokenSeen(m, k, f)
  BY <1>1, <1>2, ScanPlace
<1>4. /\ total = p - StartOf(m, k) /\ 3 * Len(headers) + Opening(m, k) <= total
      /\ EarlierFit(m, k)
  BY <1>1, <1>3, LinesAccount
<1>5. state' = state /\ buffer' = buffer /\ headers' = headers /\ total' = total
  BY <1>1 DEF parserVars
<1>6. k2 = k /\ p2 = p
  BY <1>2, <1>5, Arrives
<1> QED
  BY <1>1, <1>3, <1>4, <1>5, <1>6 DEF Charged, HeaderAccount

(* handle_body, when the buffer may be the beginning of a token.           *)
LEMMA BodyAwaitsCharges ==
  ASSUME NEW m, NEW k, NEW p, NEW f, At(m, k, p, f),
         Charged(m, k, p, f), BodyAwaitsToken, NEW k2, NEW p2, At(m, k2, p2, f)'
  PROVE  Charged(m, k2, p2, f)'
<1>1. state = "Body" /\ state' = state /\ buffer' = buffer
  BY DEF BodyAwaitsToken, parserVars
<1>2. Window(m, k, p, f) /\ buffer = Slice(m, p, f)
  BY DEF At
<1>3. k2 = k
  BY <1>1, <1>2, Arrives
<1> QED
  BY <1>1, <1>3 DEF Charged

(* handle_body, when the token follows the header block at once.           *)
LEMMA BodyIsRawCharges ==
  ASSUME TypeOK, phase = "feeding", NEW m, NEW k, NEW p, NEW f, At(m, k, p, f),
         Charged(m, k, p, f), BodyIsRaw, NEW k2, NEW p2, At(m, k2, p2, f)'
  PROVE  Charged(m, k2, p2, f)'
<1>1. /\ state = "Body" /\ pending /\ StartsWith(buffer, Token)
      /\ headers' = <<>> /\ RawBoundary(0, "Discard", 0)
  BY DEF BodyIsRaw
<1>2. /\ Window(m, k, p, f) /\ buffer = Slice(m, p, f)
      /\ k \in 2..Count(m) /\ InBegin(m, k, p) /\ EarlierFit(m, k)
  BY <1>1 DEF At, Charged
<1>3. 0 \in Find(buffer, Token)
  BY <1>1, PrefixIsFound
<1>4. 0 = EndOf(m, k) - p /\ k < Count(m)
  BY <1>2, <1>3, TokenPlace
<1>5. ~HasBlock(m, k)
  <2>1. /\ p = EndOf(m, k) /\ m \in Seq(Byte) /\ k \in 1..Count(m) /\ k \in Nat
        /\ Count(m) \in Nat /\ EndOf(m, k) \in Nat
    BY <1>2, <1>4, WindowBounds
  <2>2. HeaderEnds(PieceOf(m, k)) # {} /\ BodyStart(m, k) = EndOf(m, k)
    BY <1>2, <2>1 DEF InBegin
  <2>3. ~IsPart(PieceOf(m, k))
    BY <2>1, <2>2, BodySlices
  <2> QED
    BY <1>4, <2>1, <2>3 DEF HasBlock
<1>6. "Discard" \in {"Header", "Discard", "End"} /\ "Discard" # "Header"
  OBVIOUS
<1> QED
  BY <1>1, <1>2, <1>3, <1>5, <1>6, BoundaryCharges

(* handle_body, at a token with a decided suffix.                          *)
LEMMA BodyTokenCharges ==
  ASSUME TypeOK, phase = "feeding", NEW m, NEW k, NEW p, NEW f, At(m, k, p, f),
         Charged(m, k, p, f), BodyToken, NEW k2, NEW p2, At(m, k2, p2, f)'
  PROVE  Charged(m, k2, p2, f)'
<1>1. BodyBegun /\ phase' = "feeding"
  BY DEF BodyToken, Continue
<1>2. PICK index \in Find(buffer, Token) : AfterToken(index, Spent)
  BY DEF BodyToken
<1>3. /\ state = "Body" /\ headers' = <<>> /\ Window(m, k, p, f) /\ buffer = Slice(m, p, f)
  BY <1>1, BegunCut
<1>4. EarlierFit(m, k) /\ WithinLimit(m, k)
  BY <1>3 DEF Charged
<1> QED
  BY <1>1, <1>2, <1>3, <1>4, TokenCharges

(* handle_body, without a token, or with an undecided one.                 *)
LEMMA BodyStaysCharged ==
  ASSUME TypeOK, phase = "feeding", NEW m, NEW k, NEW p, NEW f, At(m, k, p, f),
         Charged(m, k, p, f), BodyIncomplete \/ BodyScan, phase' # "raised",
         NEW k2, NEW p2, At(m, k2, p2, f)'
  PROVE  Charged(m, k2, p2, f)'
<1>1. BodyBegun /\ state' = state
  BY DEF BodyIncomplete, BodyScan
<1>2. state = "Body" /\ Window(m, k, p, f) /\ buffer = Slice(m, p, f)
  BY <1>1, BegunCut
<1>3. \E q : Window(m, k, q, f) /\ buffer' = Slice(m, q, f)
  <2>1. CASE BodyIncomplete
    <3>1. PICK index \in Find(buffer, Token) : buffer' = From(buffer, BodyDataEnd(buffer, index))
      BY <2>1 DEF BodyIncomplete, Raise
    <3> QED
      BY <1>1, <3>1, BodyDataAt
  <2>2. CASE BodyScan
    <3>1. DelimiterLength - 1 = Len(Token) + 1
      BY TokenProperties
    <3>2. Find(buffer, Token) = {} /\ buffer' = From(buffer, Emitted)
      BY <2>2, <3>1 DEF BodyScan, Emitted
    <3> QED
      BY <1>2, <3>2, ScanPlace
  <2> QED
    BY <2>1, <2>2
<1>4. k2 = k
  BY <1>3, Arrives
<1> QED
  BY <1>1, <1>2, <1>4 DEF Charged

(* handle_raw, at the empty line that ends an unwanted header block.       *)
LEMMA RawHeadersCharge ==
  ASSUME TypeOK, phase = "feeding", NEW m, NEW k, NEW p, NEW f, At(m, k, p, f),
         Charged(m, k, p, f), RawHeaders, NEW k2, NEW p2, At(m, k2, p2, f)'
  PROVE  Charged(m, k2, p2, f)'
<1>1. /\ state \in {"Discard", "End"} /\ headers' = <<>> /\ total' = 0 /\ state' = "Header"
      /\ buffer' = buffer /\ phase' = "feeding"
  BY DEF RawHeaders, Continue
<1>2. PICK x \in Find(buffer, CRLF \o CRLF) : \A boundary \in Find(buffer, Token) : x < boundary
  BY DEF RawHeaders
<1>3. /\ Window(m, k, p, f) /\ buffer = Slice(m, p, f)
      /\ InRaw(m, k, p, f) /\ EarlierFit(m, k)
  BY <1>1 DEF At, Charged
<1>4. p \in Nat /\ StartOf(m, k) \in Nat
  BY <1>3, WindowBounds
<1>5. x \in Nat
  BY <1>2, LineEndWords, FindProperties DEF TypeOK
<1>6. ~(p = EndOf(m, k) /\ TokenSeen(m, k, f))
  <2>1. ASSUME p = EndOf(m, k), TokenSeen(m, k, f) PROVE FALSE
    <3>1. EndOf(m, k) - p \in Find(buffer, Token)
      BY <1>3, <2>1, TokenInBuffer
    <3>2. x < EndOf(m, k) - p
      BY <1>2, <3>1
    <3> QED
      BY <1>4, <1>5, <2>1, <3>2
  <2> QED
    BY <2>1
<1>7. p = StartOf(m, k)
  BY <1>3, <1>6 DEF InRaw
<1>8. k2 = k /\ p2 = p
  BY <1>1, <1>3, Arrives
<1>9. total' = p2 - StartOf(m, k2) /\ 3 * Len(headers') + Opening(m, k2) <= total'
  <2>1. Len(headers') = 0
    BY <1>1
  <2>2. Opening(m, k2) = 0
    <3>1. InHeader(m, k2, p2, f)'
      BY <1>1 DEF At
    <3>2. p - StartOf(m, k) = 0
      BY <1>4, <1>7
    <3> QED
      BY <1>8, <1>6, <3>1, <3>2 DEF InHeader, HeaderLines, Opening
  <2> QED
    BY <1>1, <1>4, <1>7, <1>8, <2>1, <2>2
<1> QED
  BY <1>1, <1>3, <1>8, <1>9 DEF Charged, HeaderAccount

(* handle_raw, at the token: the segment is no part.                       *)
LEMMA RawTokenCharges ==
  ASSUME TypeOK, phase = "feeding", NEW m, NEW k, NEW p, NEW f, At(m, k, p, f),
         Charged(m, k, p, f), RawToken, NEW k2, NEW p2, At(m, k2, p2, f)'
  PROVE  Charged(m, k2, p2, f)'
<1> DEFINE w == CRLF \o CRLF
           piece == PieceOf(m, k)
<1>1. state \in {"Discard", "End"} /\ headers' = headers
  BY DEF RawToken
<1>2. PICK index \in Find(buffer, Token) :
        /\ \A headerEnd \in Find(buffer, w) : ~(headerEnd < index)
        /\ RawBoundary(index, state, total)
  BY DEF RawToken
<1>3. /\ Window(m, k, p, f) /\ buffer = Slice(m, p, f)
      /\ k \in 2..Count(m) /\ InRaw(m, k, p, f) /\ EarlierFit(m, k)
  BY <1>1 DEF At, Charged
<1>4. /\ StartOf(m, k) \in Nat /\ EndOf(m, k) \in Nat /\ p \in Nat /\ m \in Seq(Byte)
      /\ StartOf(m, k) <= p /\ p <= EndOf(m, k)
      /\ f \in Nat /\ k \in 1..Count(m) /\ k \in Nat /\ Count(m) \in Nat
  BY <1>3, WindowBounds
<1>5. piece \in Seq(Byte) /\ Len(piece) = EndOf(m, k) - StartOf(m, k)
  BY <1>4, PieceProperties
<1>6. /\ index = EndOf(m, k) - p /\ index \in Nat /\ TokenSeen(m, k, f) /\ k < Count(m)
      /\ EndOf(m, k) <= f
  <2>1. index = EndOf(m, k) - p /\ index \in Nat /\ TokenSeen(m, k, f) /\ k < Count(m)
    BY <1>3, TokenPlace
  <2> QED
    BY <1>4, <2>1, TokenBytes DEF TokenSeen
<1>7. ~IsPart(piece)
  <2>1. CASE p = StartOf(m, k)
    <3>1. ASSUME NEW h \in HeaderEnds(piece) PROVE FALSE
      <4>1. h \in Occurrences(piece, w)
        BY <3>1 DEF HeaderEnds, Find
      <4>2. h \in Nat /\ h + 4 <= Len(piece)
        BY <1>5, <4>1, EmptyLineMeans
      <4>3. (StartOf(m, k) + h) - p \in Occurrences(Slice(m, p, f), w)
        <5>1. w \in Seq(Byte) /\ p <= StartOf(m, k) + h /\ StartOf(m, k) + h + Len(w) <= f
          BY <1>4, <1>5, <1>6, <2>1, <4>2, LineEndWords, SMTT(60)
        <5> QED
          BY <1>3, <4>1, <5>1, PieceInBuffer
      <4>4. PICK j \in Find(Slice(m, p, f), w) : j <= (StartOf(m, k) + h) - p
        BY <4>3, FoundIsLeftmost
      <4>5. j \in Nat
        <5>1. Slice(m, p, f) \in Seq(Byte)
          BY <1>3, WindowBuffer
        <5> QED
          BY <4>4, <5>1, LineEndWords, FindProperties
      <4>6. ~(j < index)
        BY <1>2, <1>3, <4>4
      <4> QED
        BY <1>4, <1>5, <1>6, <4>2, <4>4, <4>5, <4>6, SMTT(60)
    <3> QED
      BY <3>1 DEF IsPart
  <2> QED
    BY <1>3, <2>1 DEF InRaw
<1>8. ~HasBlock(m, k)
  BY <1>4, <1>6, <1>7 DEF HasBlock
<1>9. headers' = <<>>
  BY <1>1, <1>3 DEF InRaw
<1>10. state \in {"Header", "Discard", "End"} /\ state # "Header"
  BY <1>1
<1> QED
  BY <1>2, <1>3, <1>8, <1>9, <1>10, BoundaryCharges

(* handle_raw, without either.                                             *)
LEMMA RawPartialCharges ==
  ASSUME NEW m, NEW k, NEW p, NEW f, At(m, k, p, f),
         Charged(m, k, p, f), RawPartial, NEW k2, NEW p2, At(m, k2, p2, f)'
  PROVE  Charged(m, k2, p2, f)'
<1>1. state \in {"Discard", "End"} /\ state' = state /\ buffer' = buffer
  BY DEF RawPartial, parserVars
<1>2. Window(m, k, p, f) /\ buffer = Slice(m, p, f)
  BY DEF At
<1>3. k2 = k
  BY <1>1, <1>2, Arrives
<1> QED
  BY <1>1, <1>3 DEF Charged

(* Every pass of the loop of feed charges what it reads.                   *)
LEMMA LoopCharges ==
  ASSUME TypeOK, NEW m, NEW k, NEW p, NEW f, At(m, k, p, f), Charged(m, k, p, f),
         Loop, phase' # "raised", NEW k2, NEW p2, At(m, k2, p2, f)'
  PROVE  Charged(m, k2, p2, f)'
<1>1. phase = "feeding"
  BY DEF Loop
<1>2. CASE PreambleToken \/ PreambleIncomplete \/ PreambleScan
  BY <1>1, <1>2, PreambleCharges
<1>3. CASE HeaderBoundary
  BY <1>1, <1>3, HeaderBoundaryCharges
<1>4. CASE HeaderEnd
  BY <1>1, <1>4, HeaderEndCharges
<1>5. CASE HeaderLine
  BY <1>1, <1>5, HeaderLineCharges
<1>6. CASE HeaderPartial
  BY <1>1, <1>6, HeaderPartialCharges
<1>7. CASE BodyAwaitsToken
  BY <1>7, BodyAwaitsCharges
<1>8. CASE BodyIsRaw
  BY <1>1, <1>8, BodyIsRawCharges
<1>9. CASE BodyToken
  BY <1>1, <1>9, BodyTokenCharges
<1>10. CASE BodyIncomplete \/ BodyScan
  BY <1>1, <1>10, BodyStaysCharged
<1>11. CASE RawHeaders
  BY <1>1, <1>11, RawHeadersCharge
<1>12. CASE RawToken
  BY <1>1, <1>12, RawTokenCharges
<1>13. CASE RawPartial
  BY <1>13, RawPartialCharges
<1> QED
  BY <1>2, <1>3, <1>4, <1>5, <1>6, <1>7, <1>8, <1>9, <1>10, <1>11, <1>12, <1>13 DEF Loop

(* The parts of the segments before k.                                     *)
LEMMA ToldFits ==
  ASSUME NEW m \in Seq(Byte), NEW k \in 1..Count(m), EarlierFit(m, k), NEW s,
         BeginCount(s) = BeginCount(Told(m, k - 1))
  PROVE  BegunFit(m, s)
<1>1. Count(m) \in Nat
  BY SegmentBounds
<1>2. k - 1 \in Nat /\ k - 1 <= Count(m)
  BY <1>1
<1>3. BeginCount(s) = Cardinality(BlocksUpto(m, k - 1))
  BY <1>2, BeginsOfTold
<1>4. ASSUME NEW j \in 2..Count(m), HasBlock(m, j), j <= k - 1 PROVE WithinLimit(m, j)
  BY <1>1, <1>4 DEF EarlierFit
<1> QED
  BY <1>2, <1>3, <1>4, CountedFit

(* And of segment k.                                                       *)
LEMMA DataFits ==
  ASSUME NEW m \in Seq(Byte), NEW k \in 2..Count(m), EarlierFit(m, k), WithinLimit(m, k),
         NEW p, DataCut(m, k, p), p \in Nat, p <= Len(m), NEW s,
         BeginCount(s) = BeginCount((Told(m, k - 1) \o <<BeginOf(PieceOf(m, k))>>)
                                      \o DataOf(Slice(m, BodyStart(m, k), p)))
  PROVE  BegunFit(m, s)
<1> DEFINE b == BeginOf(PieceOf(m, k))
           T == Told(m, k - 1)
           d == Slice(m, BodyStart(m, k), p)
<1>1. Count(m) \in Nat
  BY SegmentBounds
<1>2. k \in 1..Count(m) /\ k \in Nat /\ k - 1 \in Nat /\ k - 1 <= Count(m) /\ (k - 1) + 1 = k
  BY <1>1
<1>3. PieceOf(m, k) \in Seq(Byte) /\ T \in Seq(Event)
  BY <1>2, PieceProperties, ToldSegment
<1>4. HeaderEnds(PieceOf(m, k)) # {}
  BY DEF DataCut
<1>5. b \in Event /\ b.kind = "Begin"
  BY <1>3, <1>4, BeginOfType
<1>6. /\ BodyStart(m, k) \in Nat /\ BodyStart(m, k) <= p
      /\ k < Count(m) => IsPart(PieceOf(m, k))
  BY <1>2, <1>4, BodySlices DEF DataCut
<1>7. d \in Seq(Byte)
  BY <1>6, SliceProperties
<1>8. HasBlock(m, k)
  BY <1>1, <1>2, <1>4, <1>6 DEF HasBlock
<1> HIDE DEF b, T, d
<1>9. T \o <<b>> \in Seq(Event) /\ BeginCount(T \o <<b>>) = BeginCount(T) + 1
  BY <1>3, <1>5, BeginsOfOneMore
<1>10. BeginCount((T \o <<b>>) \o DataOf(d)) = BeginCount(T) + 1
  BY <1>7, <1>9, BeginsOfData
<1>11. BeginCount(T) = Cardinality(BlocksUpto(m, k - 1))
  BY <1>2, BeginsOfTold DEF T
<1>12. Cardinality(BlocksUpto(m, k)) = Cardinality(BlocksUpto(m, k - 1)) + 1
  BY <1>2, <1>8, BlocksCounted
<1>13. BeginCount(s) = Cardinality(BlocksUpto(m, k))
  BY <1>10, <1>11, <1>12 DEF b, T, d
<1>14. ASSUME NEW j \in 2..Count(m), HasBlock(m, j), j <= k PROVE WithinLimit(m, j)
  <2>1. j < k \/ j = k
    BY <1>2, <1>14
  <2> QED
    BY <1>14, <2>1 DEF EarlierFit
<1> QED
  BY <1>2, <1>13, <1>14, CountedFit

(* What has been produced when feed returns.                               *)
LEMMA ProducedFits ==
  ASSUME NEW m, NEW k, NEW p, NEW f, At(m, k, p, f)', Charged(m, k, p, f)',
         state' \in States, pending' \in BOOLEAN, NEW s, BeginCount(s) = BeginCount(Produced')
  PROVE  BegunFit(m, s)
<1>1. /\ m \in Seq(Byte) /\ Count(m) \in Nat /\ p \in Nat /\ p <= Len(m)
      /\ k \in 1..Count(m) /\ k \in Nat
  <2>1. Window(m, k, p, f)
    BY DEF At
  <2>2. /\ p \in Nat /\ p <= EndOf(m, k) /\ EndOf(m, k) \in Nat /\ EndOf(m, k) <= Len(m)
        /\ Len(m) \in Nat
    BY <2>1, WindowBounds
  <2> QED
    BY <2>1, <2>2, WindowBounds
<1>2. EarlierFit(m, k) /\ (state' = "Body" => WithinLimit(m, k))
  BY DEF Charged
<1>3. CASE state' = "Preamble"
  <2>1. Produced' = Told(m, k - 1)
    <3>1. k = 1 /\ Produced' = <<>>
      BY <1>3 DEF At
    <3>2. k - 1 = 0
      BY <3>1
    <3> QED
      BY <1>1, <3>1, <3>2, ToldEquations
  <2> QED
    BY <1>1, <1>2, <2>1, ToldFits
<1>4. CASE Produced' = Told(m, k - 1)
  BY <1>1, <1>2, <1>4, ToldFits
<1>5. CASE state' = "Body" /\ ~pending'
  <2>1. k \in 2..Count(m) /\ InData(m, k, p)'
    BY <1>5 DEF At
  <2>2. /\ DataCut(m, k, p)
        /\ Produced' = (Told(m, k - 1) \o <<BeginOf(PieceOf(m, k))>>)
                         \o DataOf(Slice(m, BodyStart(m, k), p))
    BY <2>1 DEF InData
  <2>3. BeginCount(s) = BeginCount((Told(m, k - 1) \o <<BeginOf(PieceOf(m, k))>>)
                                      \o DataOf(Slice(m, BodyStart(m, k), p)))
    BY <2>2
  <2> QED
    BY <1>1, <1>2, <1>5, <2>1, <2>2, <2>3, DataFits
<1> QED
  BY <1>3, <1>4, <1>5 DEF At, InHeader, InRaw, InBegin, States

(* What the parser has charged, wherever in the message it is.             *)
Reckoning ==
  \E k, p, f : /\ At(request, k, p, f)
               /\ Charged(request, k, p, f)
               /\ unread = From(request, f)
               /\ phase = "idle" => Quiet(request, k, p, f)

(* The inductive invariant: the parser reads the message, has charged what *)
(* it has read of a header block, and has begun no part over the limit.    *)
ReckonInv ==
  /\ ReadInv
  /\ phase # "raised" /\ ~eof => Reckoning
  /\ BegunFit(request, received)

(* Nothing is begun or charged at the start of a message.                  *)
LEMMA ReckoningStarts ==
  ASSUME NEW m \in Seq(Byte)
  PROVE  BegunFit(m, <<>>) /\ EarlierFit(m, 1)
<1>1. EarlierFit(m, 1)
  BY DEF EarlierFit
<1>2. Count(m) \in Nat /\ 1 \in 1..Count(m) /\ 1 - 1 = 0
  BY SegmentBounds
<1>3. Told(m, 1 - 1) = <<>>
  BY <1>2, ToldEquations
<1> QED
  BY <1>1, <1>2, <1>3, ToldFits

LEMMA ReckonInit ==
  ASSUME Init, RequestInit
  PROVE  ReckonInv
<1>1. Init /\ request \in Seq(Byte) /\ unread = request
  BY RequestsAssumption DEF RequestInit
<1> PICK m : m = request
  OBVIOUS
<1>2. /\ Window(m, 1, 0, 0) /\ Slice(m, 0, 0) = <<>> /\ ~TokenSeen(m, 1, 0)
      /\ From(m, 0) = m
      /\ <<>> \o <<>> = <<>> /\ Joined(<<>>) = <<>>
  BY <1>1, ReadingStarts
<1>3. Produced = <<>>
  BY <1>1, <1>2 DEF Init, Produced, History
<1>4. At(m, 1, 0, 0) /\ Quiet(m, 1, 0, 0)
  BY <1>1, <1>2, <1>3 DEF Init, At, Quiet
<1>5. BegunFit(m, <<>>) /\ EarlierFit(m, 1)
  BY <1>1, ReckoningStarts
<1>6. Charged(m, 1, 0, 0)
  BY <1>1, <1>5 DEF Init, Charged
<1>7. Reckoning
  BY <1>1, <1>2, <1>4, <1>6 DEF Reckoning
<1> QED
  BY <1>1, <1>5, <1>7, ReadInit DEF ReckonInv, Init

(* A step that leaves the parser and its input alone.                      *)
LEMMA ReckonStutters ==
  ASSUME ReckonInv, ReadInv', UNCHANGED <<vars, inputVars>>
  PROVE  ReckonInv'
<1>1. UNCHANGED vars /\ request' = request /\ unread' = unread
  BY DEF inputVars
<1>2. /\ phase' = phase /\ eof' = eof /\ received' = received
      /\ state' = state /\ total' = total /\ headers' = headers
  BY <1>1 DEF vars
<1>3. ASSUME phase' # "raised", ~eof' PROVE Reckoning'
  <2> PICK m : m = request
    OBVIOUS
  <2>1. PICK k, p, f : /\ At(m, k, p, f) /\ Charged(m, k, p, f) /\ unread = From(m, f)
                       /\ phase = "idle" => Quiet(m, k, p, f)
    BY <1>2, <1>3 DEF ReckonInv, Reckoning
  <2>2. At(m, k, p, f)' /\ (phase' = "idle" => Quiet(m, k, p, f)')
    BY <1>1, <1>2, <2>1, ReadingUnchanged
  <2>3. Charged(m, k, p, f)'
    BY <1>2, <2>1 DEF Charged, HeaderAccount
  <2> QED
    BY <1>1, <2>1, <2>2, <2>3 DEF Reckoning
<1> QED
  BY <1>1, <1>2, <1>3 DEF ReckonInv

(* feed, given the next chunk.                                             *)
LEMMA ReckonFeed ==
  ASSUME ReckonInv, ReadInv', Receives
  PROVE  ReckonInv'
<1>1. /\ ReadInv /\ TypeOK /\ request \in Seq(Byte)
      /\ phase # "raised" /\ ~eof => Reckoning
  BY DEF ReckonInv, ReadInv, ProtocolInv
<1>2. PICK n \in 0..Len(unread) : FeedNext(n)
  BY DEF Receives
<1>3. /\ request' = request
      /\ Feed(Upto(unread, n)) /\ phase = "idle" /\ received' = received
      /\ state' = state /\ total' = total /\ headers' = headers
  BY <1>2 DEF FeedNext, Feed, Raise
<1>4. ASSUME phase' # "raised" PROVE Reckoning'
  <2> PICK m : m = request
    OBVIOUS
  <2>1. ~eof
    BY <1>3, <1>4 DEF Feed, Raise
  <2>2. PICK k, p, f : At(m, k, p, f) /\ Charged(m, k, p, f) /\ unread = From(m, f)
    BY <1>1, <1>3, <2>1 DEF Reckoning
  <2>3. phase' = "feeding" /\ \E g : f <= g /\ At(m, k, p, g)' /\ unread' = From(m, g)
    BY <1>1, <1>2, <1>4, <2>2, FeedReads
  <2>4. PICK g : f <= g /\ At(m, k, p, g)' /\ unread' = From(m, g)
    BY <2>3
  <2>5. TokenSeen(m, k, f) => TokenSeen(m, k, g)
    <3>1. Window(m, k, p, f) /\ Window(m, k, p, g)
      BY <2>2, <2>4 DEF At
    <3>2. f \in Nat /\ g \in Nat /\ EndOf(m, k) \in Nat
      BY <3>1, WindowBounds
    <3> QED
      BY <2>4, <3>2, TokenBytes DEF TokenSeen
  <2>6. Charged(m, k, p, g)'
    BY <1>3, <2>2, <2>3, <2>5 DEF Charged, HeaderAccount
  <2> QED
    BY <1>3, <2>3, <2>4, <2>6 DEF Reckoning
<1> QED
  BY <1>1, <1>3, <1>4 DEF ReckonInv

(* A pass of the loop of feed.                                             *)
LEMMA ReckonLoop ==
  ASSUME ReckonInv, ReadInv', Turns
  PROVE  ReckonInv'
<1>1. /\ ReadInv /\ TypeOK /\ PendingOnlyInBody /\ request \in Seq(Byte)
      /\ phase = "feeding" /\ ~eof
      /\ Reckoning /\ BegunFit(request, received)
      /\ Loop /\ request' = request /\ unread' = unread
  BY DEF ReckonInv, ReadInv, ProtocolInv, FeedingIsBeforeEof, Turns, Loop, inputVars
<1>2. Outcomes
  BY <1>1, LoopOutcome
<1> PICK m : m = request
  OBVIOUS
<1>3. ASSUME phase' # "raised" PROVE Reckoning'
  <2>1. PICK k, p, f : At(m, k, p, f) /\ Charged(m, k, p, f) /\ unread = From(m, f)
    BY <1>1 DEF Reckoning
  <2>2. PICK k2, p2 : At(m, k2, p2, f)' /\ (phase' = "idle" => Quiet(m, k2, p2, f)')
    BY <1>1, <1>3, <2>1, LoopReads DEF Reaches
  <2>3. Charged(m, k2, p2, f)'
    BY <1>1, <1>3, <2>1, <2>2, LoopCharges
  <2> QED
    BY <1>1, <2>1, <2>2, <2>3 DEF Reckoning
<1>4. BegunFit(request', received')
  <2>1. CASE phase' # "idle"
    <3>1. received' = received
      BY <1>1, <1>2, <2>1 DEF Outcomes, Continue, Return, Raise
    <3> QED
      BY <1>1, <3>1
  <2>2. CASE phase' = "idle"
    <3>1. PICK k, p, f : At(m, k, p, f)' /\ Charged(m, k, p, f)'
      BY <1>1, <1>3, <2>2 DEF Reckoning
    <3>2. events' = <<>> /\ received' \in Seq(Event) /\ state' \in States /\ pending' \in BOOLEAN
      BY <2>2 DEF ReadInv, ProtocolInv, BatchIsHandedOver, TypeOK
    <3>3. Produced' = Joined(received')
      BY <3>2, ConcatEmptySeq DEF Produced, History
    <3>4. BeginCount(received') = BeginCount(Produced')
      BY <3>2, <3>3, BeginsOfJoined
    <3> QED
      BY <1>1, <3>1, <3>2, <3>4, ProducedFits
  <2> QED
    BY <2>1, <2>2
<1>5. ~eof'
  BY <1>1 DEF Loop
<1> QED
  BY <1>3, <1>4 DEF ReckonInv

(* feed_eof begins the part that has been withheld, if any.                *)
LEMMA ReckonEnd ==
  ASSUME ReckonInv, ReadInv', HearsTheEnd
  PROVE  ReckonInv'
<1>1. /\ ReadInv /\ TypeOK /\ PendingOnlyInBody /\ request \in Seq(Byte)
      /\ phase = "idle" /\ ~eof /\ eof' = TRUE
      /\ Reckoning /\ unread = <<>> /\ BegunFit(request, received)
      /\ FeedEof /\ request' = request
  BY DEF ReckonInv, ReadInv, ProtocolInv, HearsTheEnd, FeedEof, inputVars
<1>2. phase' = "raised" => received' = received
  BY <1>1 DEF FeedEof, Raise, Return
<1> PICK m : m = request
  OBVIOUS
<1>3. ASSUME phase' # "raised" PROVE BegunFit(m, received')
  <2>1. PICK k, p, f : /\ At(m, k, p, f) /\ Charged(m, k, p, f)
                       /\ unread = From(m, f) /\ Quiet(m, k, p, f)
    BY <1>1 DEF Reckoning
  <2>2. /\ Window(m, k, p, f) /\ m \in Seq(Byte) /\ k \in 1..Count(m) /\ Count(m) \in Nat
        /\ k \in Nat /\ f \in Nat /\ f <= Len(m) /\ Len(m) \in Nat
    BY <2>1, WindowBounds DEF At
  <2>3. f = Len(m)
    <3>1. Len(From(m, f)) = Len(m) - f
      BY <2>2, FromProperties
    <3>2. Len(From(m, f)) = 0
      BY <1>1, <2>1
    <3> QED
      BY <2>2, <3>1, <3>2
  <2>4. Produced' = Joined(received') /\ received' \in Seq(Event)
    <3>1. phase' = "idle"
      BY <1>1, <1>3 DEF FeedEof, Raise, Return
    <3>2. events' = <<>> /\ received' \in Seq(Event)
      BY <3>1 DEF ReadInv, ProtocolInv, BatchIsHandedOver, TypeOK
    <3> QED
      BY <3>2, ConcatEmptySeq DEF Produced, History
  <2>5. BeginCount(received') = BeginCount(Produced')
    BY <2>4, BeginsOfJoined
  <2>6. EarlierFit(m, k) /\ (state = "Body" => WithinLimit(m, k))
    BY <2>1 DEF Charged
  <2>7. CASE state = "Body"
    <3>1. Concluded(m)
      BY <1>1, <1>3, <2>1, <2>3, EofReads
    <3>2. Produced' = Told(m, k)
      BY <2>1, <2>2, <2>3, <3>1, LastSegment DEF Concluded
    <3>3. BeginCount(received') = Cardinality(BlocksUpto(m, k))
      <4>1. k <= Count(m)
        BY <2>2
      <4> QED
        BY <2>2, <2>5, <3>2, <4>1, BeginsOfTold
    <3>4. ASSUME NEW j \in 2..Count(m), HasBlock(m, j), j <= k PROVE WithinLimit(m, j)
      <4>1. j < k \/ j = k
        BY <2>2, <3>4
      <4> QED
        BY <2>6, <2>7, <3>4, <4>1 DEF EarlierFit
    <3> QED
      BY <2>2, <3>3, <3>4, CountedFit
  <2>8. CASE state # "Body"
    <3>1. Produced' = Produced
      BY <1>1, <1>3, <2>8, EofQuiet
    <3>2. Produced = Told(m, k - 1)
      <4>1. CASE state = "Preamble"
        <5>1. k = 1 /\ Produced = <<>>
          BY <2>1, <4>1 DEF At
        <5>2. k - 1 = 0
          BY <5>1
        <5> QED
          BY <2>2, <5>1, <5>2, ToldEquations
      <4>2. CASE state # "Preamble"
        BY <1>1, <2>1, <2>8, <4>2 DEF At, InHeader, InRaw, TypeOK, States
      <4> QED
        BY <4>1, <4>2
    <3> QED
      BY <2>2, <2>5, <2>6, <3>1, <3>2, ToldFits
  <2> QED
    BY <2>7, <2>8
<1> QED
  BY <1>1, <1>2, <1>3 DEF ReckonInv

(* Another parser begins the same message.                                 *)
LEMMA ReckonRestarts ==
  ASSUME ReckonInv, ReadInv', Restarts
  PROVE  ReckonInv'
<1>0. request \in Seq(Byte) /\ request' = request
  BY DEF ReckonInv, ReadInv, Restarts
<1> PICK m : m = request
  OBVIOUS
<1>1. /\ Window(m, 1, 0, 0) /\ Slice(m, 0, 0) = <<>> /\ ~TokenSeen(m, 1, 0)
      /\ From(m, 0) = m
      /\ <<>> \o <<>> = <<>> /\ Joined(<<>>) = <<>>
  BY <1>0, ReadingStarts
<1>2. Produced' = <<>>
  BY <1>1 DEF Restarts, Reset, Produced, History
<1>3. At(m, 1, 0, 0)' /\ Quiet(m, 1, 0, 0)'
  BY <1>1, <1>2 DEF Restarts, Reset, At, Quiet
<1>4. BegunFit(m, <<>>) /\ EarlierFit(m, 1)
  BY <1>0, ReckoningStarts
<1>5. Charged(m, 1, 0, 0)'
  BY <1>4 DEF Restarts, Reset, Charged
<1>6. Reckoning'
  BY <1>0, <1>1, <1>3, <1>5 DEF Restarts, Reset, Reckoning
<1>7. received' = <<>>
  BY DEF Restarts, Reset
<1> QED
  BY <1>0, <1>4, <1>6, <1>7 DEF ReckonInv

(* Every step keeps the invariant.                                         *)
LEMMA ReckonStep ==
  ASSUME ReckonInv, ParseStep
  PROVE  ReckonInv'
<1>1. ReadInv'
  BY ReadStep DEF ReckonInv
<1> QED
  BY <1>1, ReckonStutters, ReckonFeed, ReckonLoop, ReckonEnd, ReckonRestarts DEF ParseStep

(* The invariant holds throughout.                                         *)
LEMMA ReckonInvariant == FuzzSpec => []ReckonInv
<1>1. FuzzInit => ReckonInv /\ WholePass
  BY FuzzStarts, ReckonInit
<1>2. ReckonInv /\ WholePass /\ [FuzzNext]_<<vars, fuzzVars>> => ReckonInv' /\ WholePass'
  <2> SUFFICES ASSUME ReckonInv, WholePass, [FuzzNext]_<<vars, fuzzVars>>
               PROVE  ReckonInv' /\ WholePass'
    OBVIOUS
  <2>1. ParseStep /\ WholePass'
    BY FuzzStep DEF ReckonInv, ReadInv
  <2> QED
    BY <2>1, ReckonStep
<1> QED
  BY <1>1, <1>2, PTL DEF FuzzSpec

(* A part is begun only if its header block, from the end of its boundary  *)
(* token to the end of the empty line, is within max_total_header_size,    *)
(* whatever the chunks (the charges of handle_header and of the arms after *)
(* a token, multipart.rs:205-211, 250-302).                                *)
THEOREM PartsFit == FuzzSpec => []BegunPartsFitTheLimit
<1>1. ReckonInv => BegunPartsFitTheLimit
  BY BegunFitMeans DEF ReckonInv, ReadInv
<1> QED
  BY <1>1, ReckonInvariant, PTL

-----------------------------------------------------------------------------
(* What is refused.                                                        *)

(* The limits as the adapter derives them from its one total (parser.py:   *)
(* MAX_HEADER_COUNT, MAX_HEADER_LINE_SIZE): no line is longer than the     *)
(* total, and the total is spent before there are too many fields.         *)
TotalIsDecisive ==
  \E limit \in MaxTotalHeaderSize : limit <= MaxHeaderSize /\ limit <= 3 * MaxHeaderCount + 4

(* Every total the adapter can be given leads to such limits.              *)
LEMMA AdapterLimitsDecide ==
  ASSUME NEW most \in Nat, most >= 2, MaxTotalHeaderSize = {most},
         MaxHeaderSize = most, MaxHeaderCount = (most - 2) \div 3
  PROVE  TotalIsDecisive
<1>1. most - 2 \in Nat /\ most <= 3 * ((most - 2) \div 3) + 4
  OBVIOUS
<1> QED
  BY <1>1 DEF TotalIsDecisive

(* What a segment may be charged with, at most, while there is more to     *)
(* come or the input has ended.                                            *)
AfterRawBlock(m, k) ==
  /\ k > 2 /\ HeaderEnds(PieceOf(m, k - 1)) = {} /\ OpenLength(PieceOf(m, k - 1)) # {}
  /\ IsIncomplete(PieceOf(m, k))

Beyond(m, k, more, ended) ==
  CASE k < Count(m) -> IF more THEN Len(Token) - 1 ELSE 0
    [] k = Count(m) /\ ended -> IF AfterRawBlock(m, k) THEN Len(Token) + 1 ELSE 1
    [] OTHER -> 0

ChargeOf(m, k, more, ended) ==
  IF HeaderEnds(PieceOf(m, k)) # {} THEN BlockLength(PieceOf(m, k))
  ELSE Len(PieceOf(m, k)) + Beyond(m, k, more, ended)

OverIn(m, k, more, ended) == k \in 2..Count(m) /\ OverLimit(ChargeOf(m, k, more, ended))

LEMMA OverMeans ==
  ASSUME request \in Seq(Byte), NEW k, NEW more \in BOOLEAN, NEW ended \in BOOLEAN,
         OverIn(request, k, more, ended)
  PROVE  HasSegmentOverLimit(request, more, ended)
<1> PICK m : m = request
  OBVIOUS
<1> DEFINE segments == SplitAtTokens(m)
<1>1. /\ k \in 2..Count(m) /\ OverLimit(ChargeOf(m, k, more, ended))
      /\ Count(m) \in Nat /\ Len(segments) = Count(m)
      /\ \A j \in 1..Count(m) : segments[j] = PieceOf(m, j)
  BY SplitIsPieces, SegmentBounds DEF OverIn
<1>2. segments[k] = PieceOf(m, k) /\ segments[k - 1] = PieceOf(m, k - 1) /\ k <= Count(m)
  <2>1. k \in 1..Count(m) /\ k - 1 \in 1..Count(m)
    BY <1>1
  <2> QED
    BY <1>1, <2>1
<1> DEFINE afterRawBlock(j) ==
             /\ j > 2 /\ HeaderEnds(segments[j - 1]) = {} /\ OpenLength(segments[j - 1]) # {}
             /\ IsIncomplete(segments[j])
           beyond(j) == CASE j < Len(segments) -> IF more THEN Len(Token) - 1 ELSE 0
                          [] j = Len(segments) /\ ended ->
                               IF afterRawBlock(j) THEN Len(Token) + 1 ELSE 1
                          [] OTHER -> 0
           charge(j) == IF HeaderEnds(segments[j]) # {} THEN BlockLength(segments[j])
                        ELSE Len(segments[j]) + beyond(j)
<1>3. HasSegmentOverLimit(m, more, ended) <=> \E j \in 2..Len(segments) : OverLimit(charge(j))
  BY DEF HasSegmentOverLimit, segments
<1>4. charge(k) = ChargeOf(m, k, more, ended)
  BY <1>1, <1>2 DEF ChargeOf, Beyond, AfterRawBlock
<1> HIDE DEF charge
<1> QED
  BY <1>1, <1>3, <1>4

(* A charge over the limit is enough, whatever else is charged.            *)
LEMMA ChargeBounds ==
  ASSUME NEW m \in Seq(Byte), NEW k \in 2..Count(m),
         NEW more \in BOOLEAN, NEW ended \in BOOLEAN
  PROVE  /\ ChargeOf(m, k, more, ended) \in Nat
         /\ HeaderEnds(PieceOf(m, k)) = {} => Len(PieceOf(m, k)) <= ChargeOf(m, k, more, ended)
         /\ HeaderEnds(PieceOf(m, k)) = {} /\ k = Count(m) /\ ended
              => Len(PieceOf(m, k)) + 1 <= ChargeOf(m, k, more, ended)
         /\ HeaderEnds(PieceOf(m, k)) = {} /\ k < Count(m) /\ more
              => ChargeOf(m, k, more, ended) = Len(PieceOf(m, k)) + Len(Token) - 1
         /\ \A h \in HeaderEnds(PieceOf(m, k)) :
              ChargeOf(m, k, more, ended) = h + 4 /\ h \in Nat
<1>1. /\ k \in 1..Count(m) /\ k \in Nat /\ Count(m) \in Nat
  BY SegmentBounds
<1>2. PieceOf(m, k) \in Seq(Byte) /\ Len(PieceOf(m, k)) \in Nat
  BY <1>1, PieceProperties
<1>3. Len(Token) \in Nat /\ Len(Token) >= 3
  BY TokenBytes
<1> DEFINE charge == ChargeOf(m, k, more, ended)
<1>4. ASSUME NEW h \in HeaderEnds(PieceOf(m, k))
      PROVE  charge = h + 4 /\ h \in Nat
  BY <1>2, <1>4, BlockProperties DEF ChargeOf
<1>5. ASSUME HeaderEnds(PieceOf(m, k)) = {}
      PROVE  /\ charge \in Nat
             /\ Len(PieceOf(m, k)) <= charge
             /\ k = Count(m) /\ ended => Len(PieceOf(m, k)) + 1 <= charge
             /\ k < Count(m) /\ more => charge = Len(PieceOf(m, k)) + Len(Token) - 1
  <2>1. charge = Len(PieceOf(m, k)) + Beyond(m, k, more, ended)
    BY <1>5 DEF ChargeOf
  <2>2. /\ Beyond(m, k, more, ended) \in Nat
        /\ ended /\ k = Count(m) => Beyond(m, k, more, ended) >= 1
        /\ k < Count(m) /\ more => Beyond(m, k, more, ended) = Len(Token) - 1
    BY <1>1, <1>3 DEF Beyond
  <2> HIDE DEF charge
  <2> QED
    BY <1>2, <1>3, <2>1, <2>2
<1> QED
  BY <1>4, <1>5

(* A number that exceeds the limit, and is not more than the charge.       *)
LEMMA ExceedsIn ==
  ASSUME NEW m \in Seq(Byte), NEW k \in 2..Count(m),
         NEW more \in BOOLEAN, NEW ended \in BOOLEAN, NEW n \in Nat, Exceeds(n),
         n <= ChargeOf(m, k, more, ended)
  PROVE  OverIn(m, k, more, ended)
<1>1. ChargeOf(m, k, more, ended) \in Nat
  BY ChargeBounds
<1>2. PICK limit \in MaxTotalHeaderSize : n > limit
  BY DEF Exceeds
<1>3. limit \in Nat
  BY LimitsAssumption
<1>4. ChargeOf(m, k, more, ended) > limit
  BY <1>1, <1>2, <1>3
<1> QED
  BY <1>4 DEF OverIn, OverLimit

(* What exceeds the limit on a line exceeds the limit on all of them.      *)
LEMMA LineExceeds ==
  ASSUME TotalIsDecisive, NEW n \in Nat, NEW i \in Nat, i > MaxHeaderSize, i <= n
  PROVE  Exceeds(n)
<1>1. PICK limit \in MaxTotalHeaderSize : limit <= MaxHeaderSize
  BY DEF TotalIsDecisive
<1>2. limit \in Nat /\ MaxHeaderSize \in Nat
  BY LimitsAssumption
<1>3. n > limit
  BY <1>1, <1>2
<1> QED
  BY <1>3 DEF Exceeds

(* What the buffer does not have, the segment has only after it.           *)
LEMMA AheadOfBuffer ==
  ASSUME NEW m, NEW k, NEW p, NEW f, Window(m, k, p, f), NEW w \in Seq(Byte),
         Find(Slice(m, p, f), w) = {},
         NEW i \in Occurrences(PieceOf(m, k), w), i \in Nat, p <= StartOf(m, k) + i
  PROVE  f < StartOf(m, k) + i + Len(w)
<1>1. f \in Nat /\ StartOf(m, k) \in Nat /\ Len(w) \in Nat
  BY WindowBounds, LenProperties
<1>2. ~(StartOf(m, k) + i + Len(w) <= f)
  BY PieceInBuffer, FindIsComplete
<1> QED
  BY <1>1, <1>2

(* A suffix of blanks lies within its segment, before any header block.    *)
LEMMA BlankAhead ==
  ASSUME NEW m, NEW k, NEW f, Window(m, k, StartOf(m, k), f),
         IsIncomplete(Slice(m, StartOf(m, k), f)),
         ~StartsWith(Slice(m, StartOf(m, k), f), <<DASH>>)
  PROVE  /\ f <= EndOf(m, k)
         /\ \A h \in HeaderEnds(PieceOf(m, k)) : f < StartOf(m, k) + h + 4
<1> DEFINE S == StartOf(m, k)
           E == EndOf(m, k)
           tail == Slice(m, S, f)
           piece == PieceOf(m, k)
<1>1. /\ m \in Seq(Byte) /\ S \in Nat /\ E \in Nat /\ f \in Nat /\ S <= E /\ S <= f
      /\ k \in 1..Count(m) /\ Count(m) \in Nat /\ Len(m) \in Nat /\ f <= Len(m)
      /\ k < Count(m) => E \in Occurrences(m, Token)
      /\ k = Count(m) => E = Len(m)
  BY WindowBounds
<1>2. /\ tail \in Seq(Byte) /\ Len(tail) = f - S
      /\ \A i \in 1..(f - S) : tail[i] = m[S + i]
  BY WindowBuffer
<1>3. /\ piece \in Seq(Byte) /\ Len(piece) = E - S
      /\ \A i \in 1..(E - S) : piece[i] = m[S + i]
  BY <1>1, PieceProperties
<1>4. IsIncomplete(tail) /\ ~StartsWith(tail, <<DASH>>)
  OBVIOUS
<1> HIDE DEF S, E, tail, piece
<1>5. \A i \in 1..Len(tail) : tail[i] \in {SP, TAB, CR}
  <2>1. ASSUME tail = <<DASH>> PROVE FALSE
    <3>1. Upto(tail, Len(tail)) = tail
      BY <1>2, SliceWhole, UptoIsSlice, Zenon
    <3>2. Len(tail) = Len(<<DASH>>) /\ Len(tail) = 1
      BY <2>1
    <3> QED
      BY <1>4, <2>1, <3>1, <3>2 DEF StartsWith
  <2> QED
    BY <1>4, <2>1 DEF IsIncomplete, Blank
<1>6. f <= E
  <2>1. ASSUME f > E PROVE FALSE
    <3>1. k < Count(m)
      BY <1>1, <2>1
    <3>2. m[E + 1] = DASH
      BY <1>1, <3>1, OccurrenceBytes
    <3>3. (E - S) + 1 \in 1..(f - S) /\ S + ((E - S) + 1) = E + 1
      BY <1>1, <2>1
    <3>4. DASH \in {SP, TAB, CR}
      BY <1>2, <1>5, <3>2, <3>3
    <3> QED
      BY <3>4, BytesDiffer
  <2> QED
    BY <1>1, <2>1
<1>7. ASSUME NEW h \in HeaderEnds(piece) PROVE f < S + h + 4
  <2>1. h \in Occurrences(piece, CRLF \o CRLF)
    BY <1>7 DEF HeaderEnds, Find
  <2>2. h \in Nat /\ h + 4 <= Len(piece) /\ piece[h + 2] = LF
    BY <1>3, <2>1, EmptyLineMeans
  <2>3. ASSUME S + h + 2 <= f PROVE FALSE
    <3>1. h + 2 \in 1..(f - S) /\ h + 2 \in 1..(E - S)
      BY <1>1, <1>3, <2>2, <2>3
    <3>2. tail[h + 2] = LF
      BY <1>2, <1>3, <2>2, <3>1
    <3>3. LF \in {SP, TAB, CR}
      BY <1>2, <1>5, <3>1, <3>2
    <3> QED
      BY <3>3, BytesDiffer
  <2> QED
    BY <1>1, <2>2, <2>3
<1> QED
  BY <1>6, <1>7 DEF S, E, piece

(* What is unfinished when the buffer ends is no more than the charge.     *)
LEMMA UnfinishedExceeds ==
  ASSUME NEW m, NEW k, NEW p, NEW f, Window(m, k, p, f), k \in 2..Count(m),
         ~TokenSeen(m, k, f), NEW n \in Nat, n <= f - StartOf(m, k), Exceeds(n),
         \A h \in HeaderEnds(PieceOf(m, k)) : f < StartOf(m, k) + h + 4,
         NEW more \in BOOLEAN, f # Len(m) => more
  PROVE  OverIn(m, k, more, FALSE)
<1> DEFINE S == StartOf(m, k)
           E == EndOf(m, k)
           charge == ChargeOf(m, k, more, FALSE)
<1>1. /\ m \in Seq(Byte) /\ S \in Nat /\ E \in Nat /\ f \in Nat /\ f <= Len(m) /\ Len(m) \in Nat
      /\ k \in 1..Count(m) /\ Count(m) \in Nat
      /\ k < Count(m) => E \in Occurrences(m, Token)
      /\ k = Count(m) => E = Len(m)
      /\ Len(Token) \in Nat /\ Len(Token) >= 3
  BY WindowBounds, TokenBytes
<1>2. Len(PieceOf(m, k)) = E - S
  BY <1>1, PieceProperties
<1>3. /\ charge \in Nat
      /\ HeaderEnds(PieceOf(m, k)) = {} => Len(PieceOf(m, k)) <= charge
      /\ HeaderEnds(PieceOf(m, k)) = {} /\ k < Count(m) /\ more
           => charge = Len(PieceOf(m, k)) + Len(Token) - 1
      /\ \A h \in HeaderEnds(PieceOf(m, k)) : charge = h + 4 /\ h \in Nat
  <2>1. PICK ended \in BOOLEAN : ended = FALSE
    OBVIOUS
  <2>2. charge = ChargeOf(m, k, more, ended)
    BY <2>1
  <2> HIDE DEF charge
  <2> QED
    BY <1>1, <2>2, ChargeBounds
<1>4. n <= charge => OverIn(m, k, more, FALSE)
  BY <1>1, ExceedsIn
<1> HIDE DEF charge
<1>5. n <= charge
  <2>1. CASE HeaderEnds(PieceOf(m, k)) # {}
    <3>1. PICK h \in HeaderEnds(PieceOf(m, k)) : charge = h + 4 /\ h \in Nat
      BY <1>3, <2>1
    <3>2. f < S + h + 4
      BY <3>1
    <3> QED
      BY <1>1, <3>1, <3>2
  <2>2. CASE HeaderEnds(PieceOf(m, k)) = {} /\ k < Count(m)
    <3>1. f < E + Len(Token)
      BY <1>1, <2>2 DEF TokenSeen
    <3>2. more
      <4>1. E + Len(Token) <= Len(m)
        BY <1>1, <2>2 DEF Occurrences
      <4> QED
        BY <1>1, <3>1, <4>1
    <3>3. charge = Len(PieceOf(m, k)) + Len(Token) - 1
      BY <1>3, <2>2, <3>2
    <3> QED
      BY <1>1, <1>2, <3>1, <3>3
  <2>3. CASE HeaderEnds(PieceOf(m, k)) = {} /\ k = Count(m)
    <3>1. f <= E
      BY <1>1, <2>3
    <3> QED
      BY <1>1, <1>2, <1>3, <2>3, <3>1
  <2> QED
    BY <1>1, <2>1, <2>2, <2>3
<1> QED
  BY <1>4, <1>5

(* handle_preamble and handle_body, at a token with an undecided suffix.   *)
LEMMA UndecidedExceeds ==
  ASSUME NEW m, NEW k, NEW p, NEW f, Window(m, k, p, f), buffer = Slice(m, p, f),
         NEW index \in Find(buffer, Token), IsIncomplete(TailAt(index)),
         PrefixExceeds(0, TailAt(index)),
         NEW more \in BOOLEAN, f # Len(m) => more
  PROVE  OverIn(m, k + 1, more, FALSE)
<1> DEFINE S == StartOf(m, k + 1)
           tail == Slice(m, S, f)
<1>1. /\ k < Count(m) /\ Window(m, k + 1, S, f) /\ TailAt(index) = tail
  BY TokenPlace DEF Suffix
<1>2. /\ k \in Nat /\ k + 1 \in Nat /\ k >= 1 /\ k + 1 \in 2..Count(m)
  BY <1>1, WindowBounds
<1>3. S \in Nat /\ f \in Nat /\ EndOf(m, k + 1) \in Nat /\ S <= f /\ Len(tail) = f - S
  BY <1>1, WindowBounds, WindowBuffer
<1>4. /\ f <= EndOf(m, k + 1)
      /\ \A h \in HeaderEnds(PieceOf(m, k + 1)) : f < S + h + 4
  BY <1>1, BlankAhead DEF PrefixExceeds
<1>5. ~TokenSeen(m, k + 1, f)
  BY <1>3, <1>4, TokenBytes DEF TokenSeen
<1>6. Exceeds(f - S) /\ f - S \in Nat /\ f - S <= f - S
  <2>1. Exceeds(0 + Len(tail)) /\ 0 + Len(tail) = f - S
    BY <1>1, <1>3 DEF PrefixExceeds
  <2> QED
    BY <1>3, <2>1
<1> QED
  BY <1>1, <1>2, <1>4, <1>5, <1>6, UnfinishedExceeds

(* handle_header, at a token.                                              *)
LEMMA HeaderBoundaryRefuses ==
  ASSUME TypeOK, TotalIsDecisive, phase = "feeding", NEW m, NEW k, NEW p, NEW f,
         At(m, k, p, f), Charged(m, k, p, f), HeaderBoundary, phase' = "raised",
         NEW more \in BOOLEAN, f # Len(m) => more
  PROVE  OverIn(m, k, more, FALSE)
<1>1. state = "Header"
  BY DEF HeaderBoundary
<1>2. /\ Window(m, k, p, f) /\ buffer = Slice(m, p, f) /\ k \in 2..Count(m)
      /\ HeaderAccount(m, k, p, f)
  BY <1>1 DEF At, Charged
<1>3. PICK index \in Find(buffer, Token) :
        /\ \A lineEnd \in Find(buffer, CRLF) : index < lineEnd
        /\ index > MaxHeaderSize \/ Exceeds(total + index)
  BY DEF HeaderBoundary, RawBoundary, Continue, Return
<1>4. index = EndOf(m, k) - p /\ index \in Nat
  BY <1>2, TokenPlace
<1>5. /\ m \in Seq(Byte) /\ StartOf(m, k) \in Nat /\ p \in Nat /\ EndOf(m, k) \in Nat
      /\ StartOf(m, k) <= p /\ k \in 1..Count(m) /\ total \in Nat
  BY <1>2, WindowBounds DEF TypeOK
<1>6. HeaderEnds(PieceOf(m, k)) = {} /\ Len(PieceOf(m, k)) = EndOf(m, k) - StartOf(m, k)
  BY <1>1, <1>3, <1>5, NoBlockBeforeToken, PieceProperties
<1>7. Exceeds(total + index)
  BY <1>3, <1>4, <1>5, LineExceeds
<1>8. total + index # 0
  <2>1. ~Exceeds(0)
    BY LimitsAssumption DEF Exceeds
  <2> QED
    BY <1>7, <2>1
<1>9. total = p - StartOf(m, k)
  BY <1>2, <1>4, <1>5, <1>8 DEF HeaderAccount
<1> DEFINE charge == ChargeOf(m, k, more, FALSE)
<1>10. charge \in Nat /\ Len(PieceOf(m, k)) <= charge
  BY <1>2, <1>5, <1>6, ChargeBounds
<1>11. ASSUME total + index \in Nat, total + index <= charge
       PROVE  OverIn(m, k, more, FALSE)
  BY <1>2, <1>5, <1>7, <1>11, ExceedsIn
<1> HIDE DEF charge
<1>12. total + index \in Nat /\ total + index <= charge
  BY <1>4, <1>5, <1>6, <1>9, <1>10
<1> QED
  BY <1>11, <1>12

(* handle_header, at the empty line.                                       *)
LEMMA HeaderEndRefuses ==
  ASSUME TypeOK, phase = "feeding", NEW m, NEW k, NEW p, NEW f,
         At(m, k, p, f), Charged(m, k, p, f), HeaderEnd, phase' = "raised",
         NEW more \in BOOLEAN, f # Len(m) => more
  PROVE  OverIn(m, k, more, FALSE)
<1>1. state = "Header" /\ 0 \in Find(buffer, CRLF) /\ Exceeds(total + Len(CRLF))
  BY DEF HeaderEnd, Continue
<1>2. /\ HeaderEnds(PieceOf(m, k)) # {} /\ BlockLength(PieceOf(m, k)) = total + 2
      /\ Window(m, k, p + 2, f) /\ k \in 2..Count(m)
  BY <1>1, BlockEndsHere
<1>3. ChargeOf(m, k, more, FALSE) = total + 2 /\ m \in Seq(Byte)
  BY <1>2, WindowBounds DEF ChargeOf
<1>4. total + 2 \in Nat /\ Exceeds(total + 2) /\ total + 2 <= total + 2
  BY <1>1, LineEndWords DEF TypeOK
<1> QED
  BY <1>2, <1>3, <1>4, ExceedsIn

(* A line that is read belongs to the segment's charge.                    *)
LEMMA LineIsCharged ==
  ASSUME TypeOK, NEW m, NEW k, NEW p, NEW f, At(m, k, p, f), Charged(m, k, p, f),
         state = "Header", NEW index \in Find(buffer, CRLF), index > 0,
         \A boundary \in Find(buffer, Token) : index <= boundary,
         NEW more \in BOOLEAN, f # Len(m) => more
  PROVE  /\ m \in Seq(Byte) /\ k \in 2..Count(m) /\ index \in Nat /\ total \in Nat
         /\ 3 * Len(headers) + Opening(m, k) <= total
         /\ total + index + 2 <= ChargeOf(m, k, more, FALSE)
         /\ OpenLength(PieceOf(m, k)) = {} =>
              total + index + 4 <= ChargeOf(m, k, more, FALSE)
<1> DEFINE piece == PieceOf(m, k)
           S == StartOf(m, k)
           fields == headers \o FieldIn(Upto(buffer, index))
           charge == ChargeOf(m, k, more, FALSE)
<1>1. Window(m, k, p, f) /\ buffer = Slice(m, p, f)
  BY DEF At
<1>2. /\ k \in 2..Count(m) /\ total = p - S /\ 3 * Len(headers) + Opening(m, k) <= total
      /\ HeaderLines(piece, p - S, headers)
  BY <1>1, LineIsRead, LinesAccount
<1>3. /\ m \in Seq(Byte) /\ S \in Nat /\ p \in Nat /\ S <= p /\ EndOf(m, k) \in Nat
      /\ k \in 1..Count(m) /\ total \in Nat
  BY <1>1, WindowBounds DEF TypeOK
<1>4. index \in Nat /\ p + index + 2 <= EndOf(m, k)
  BY <1>1, LineBeforeToken
<1>5. HeaderLines(piece, (p + index + 2) - S, fields)
  BY <1>1, <1>2, NextHeaderLine
<1>6. piece \in Seq(Byte) /\ Len(piece) = EndOf(m, k) - S
  BY <1>3, PieceProperties
<1>7. (p + index + 2) - S = total + index + 2
  BY <1>2, <1>3, <1>4
<1>10. /\ charge \in Nat
       /\ HeaderEnds(piece) = {} => Len(piece) <= charge
       /\ \A h \in HeaderEnds(piece) : charge = h + 4 /\ h \in Nat
  <2>1. PICK ended \in BOOLEAN : ended = FALSE
    OBVIOUS
  <2>2. charge = ChargeOf(m, k, more, ended)
    BY <2>1
  <2> HIDE DEF charge
  <2> QED
    BY <1>2, <1>3, <2>2, ChargeBounds
<1> HIDE DEF piece, S, fields, charge
<1>11. /\ total + index + 2 <= charge
       /\ OpenLength(piece) = {} => total + index + 4 <= charge
  <2>1. CASE HeaderEnds(piece) # {}
    <3>1. PICK h \in HeaderEnds(piece) : charge = h + 4 /\ h \in Nat
      BY <1>10, <2>1
    <3>2. total + index + 2 <= h + 2
      BY <1>5, <1>7, <3>1 DEF HeaderLines, HeaderEnds, Find
    <3> QED
      BY <1>2, <1>3, <1>4, <1>10, <3>1, <3>2
  <2>2. CASE HeaderEnds(piece) = {}
    <3>1. OpenLength(piece) # {}
      BY <1>2, <2>2 DEF HeaderLines
    <3> QED
      BY <1>2, <1>3, <1>4, <1>6, <1>10, <2>2, <3>1
  <2> QED
    BY <2>1, <2>2
<1> QED
  BY <1>2, <1>3, <1>4, <1>11 DEF piece, S, charge

(* handle_header, at a line.                                               *)
LEMMA HeaderLineRefuses ==
  ASSUME TypeOK, TotalIsDecisive, phase = "feeding", NEW m, NEW k, NEW p, NEW f,
         At(m, k, p, f), Charged(m, k, p, f), HeaderLine, phase' = "raised",
         NEW more \in BOOLEAN, f # Len(m) => more
  PROVE  OverIn(m, k, more, FALSE)
<1>1. PICK index \in Find(buffer, CRLF) :
        /\ state = "Header" /\ index > 0
        /\ \A boundary \in Find(buffer, Token) : index <= boundary
        /\ LineRefused(index)
  BY DEF HeaderLine, Continue
<1> DEFINE charge == ChargeOf(m, k, more, FALSE)
<1>2. /\ m \in Seq(Byte) /\ k \in 2..Count(m) /\ index \in Nat /\ total \in Nat
      /\ 3 * Len(headers) + Opening(m, k) <= total
      /\ total + index + 2 <= charge
      /\ OpenLength(PieceOf(m, k)) = {} => total + index + 4 <= charge
  BY <1>1, LineIsCharged
<1>3. charge \in Nat
  BY <1>2, ChargeBounds
<1>4. ASSUME NEW n \in Nat, Exceeds(n), n <= charge
      PROVE  OverIn(m, k, more, FALSE)
  BY <1>2, <1>4, ExceedsIn
<1> HIDE DEF charge
<1>5. CASE index > MaxHeaderSize
  <2>1. Exceeds(total + index) /\ total + index \in Nat
    BY <1>2, <1>5, LineExceeds
  <2>2. total + index <= charge
    BY <1>2, <1>3
  <2> QED
    BY <1>4, <2>1, <2>2
<1>6. CASE Exceeds(total + index + Len(CRLF))
  <2>1. Exceeds(total + index + 2) /\ total + index + 2 \in Nat
    BY <1>2, <1>6, LineEndWords
  <2> QED
    BY <1>2, <1>4, <2>1
<1>7. CASE Len(headers) = MaxHeaderCount
  <2>1. 3 * MaxHeaderCount + 5 <= charge
    <3>1. MaxHeaderCount \in Nat
      BY LimitsAssumption
    <3>2. CASE OpenLength(PieceOf(m, k)) = {}
      <4>1. Opening(m, k) = 0
        BY <3>2 DEF Opening
      <4> QED
        BY <1>1, <1>2, <1>3, <1>7, <3>1, <3>2, <4>1
    <3>3. CASE OpenLength(PieceOf(m, k)) # {}
      <4>1. Opening(m, k) = 2
        BY <3>3 DEF Opening
      <4> QED
        BY <1>1, <1>2, <1>3, <1>7, <3>1, <4>1
    <3> QED
      BY <3>2, <3>3
  <2>2. Exceeds(3 * MaxHeaderCount + 5) /\ 3 * MaxHeaderCount + 5 \in Nat
    <3>1. PICK limit \in MaxTotalHeaderSize : limit <= 3 * MaxHeaderCount + 4
      BY DEF TotalIsDecisive
    <3>2. limit \in Nat /\ MaxHeaderCount \in Nat
      BY LimitsAssumption
    <3>3. 3 * MaxHeaderCount + 5 > limit /\ 3 * MaxHeaderCount + 5 \in Nat
      BY <3>1, <3>2
    <3> QED
      BY <3>3 DEF Exceeds
  <2> QED
    BY <1>4, <2>1, <2>2
<1> QED
  BY <1>1, <1>5, <1>6, <1>7 DEF LineRefused

(* handle_header, without a whole line.                                    *)
LEMMA HeaderPartialRefuses ==
  ASSUME TypeOK, TotalIsDecisive, phase = "feeding", NEW m, NEW k, NEW p, NEW f,
         At(m, k, p, f), Charged(m, k, p, f), HeaderPartial, phase' = "raised",
         NEW more \in BOOLEAN, f # Len(m) => more
  PROVE  OverIn(m, k, more, FALSE)
<1> DEFINE piece == PieceOf(m, k)
           S == StartOf(m, k)
           charged == Len(buffer) - Undecided
<1>1. /\ state = "Header" /\ Find(buffer, Token) = {} /\ Find(buffer, CRLF) = {}
      /\ charged > MaxHeaderSize \/ Exceeds(total + charged)
  BY DEF HeaderPartial, Return
<1>2. Window(m, k, p, f) /\ buffer = Slice(m, p, f)
  BY DEF At
<1>3. ~TokenSeen(m, k, f)
  BY <1>1, <1>2, ScanPlace
<1>4. k \in 2..Count(m) /\ total = p - S /\ HeaderLines(piece, total, headers)
  BY <1>1, <1>3, LinesAccount
<1>5. /\ m \in Seq(Byte) /\ S \in Nat /\ p \in Nat /\ f \in Nat /\ S <= p /\ p <= f
      /\ k \in 1..Count(m)
  BY <1>2, WindowBounds
<1>6. Len(buffer) = f - p /\ buffer \in Seq(Byte)
  BY <1>2, WindowBuffer
<1>7. Undecided \in 0..Len(buffer)
  <2>1. Len(buffer) \in Nat
    BY <1>5, <1>6
  <2>2. buffer # <<>> => 1 \in 0..Len(buffer)
    BY <1>6, <2>1, EmptySeq
  <2> QED
    BY <1>6, <2>1, <2>2, PartialSuffixRange DEF Undecided
<1>8. charged \in Nat /\ charged <= f - p
  BY <1>5, <1>6, <1>7
<1>9. piece \in Seq(Byte)
  BY <1>5, PieceProperties
<1> HIDE DEF piece, S, charged
<1>10. total + charged \in Nat /\ total + charged <= f - S /\ charged <= total + charged
  BY <1>4, <1>5, <1>8
<1>11. Exceeds(total + charged)
  BY <1>1, <1>8, <1>10, LineExceeds
<1>12. ASSUME NEW h \in HeaderEnds(piece) PROVE f < S + h + 4
  <2>1. h \in Occurrences(piece, CRLF \o CRLF)
    BY <1>12 DEF HeaderEnds, Find
  <2>2. h \in Nat /\ h + 2 \in Occurrences(piece, CRLF)
    BY <1>9, <2>1, TwoLineEnds
  <2>3. total <= h + 2
    BY <1>4, <2>1 DEF HeaderLines
  <2>4. p <= S + (h + 2) /\ h + 2 \in Nat
    BY <1>4, <1>5, <2>2, <2>3
  <2>5. Find(Slice(m, p, f), CRLF) = {}
    BY <1>1, <1>2
  <2>6. f < S + (h + 2) + Len(CRLF)
    BY <1>2, <2>2, <2>4, <2>5, LineEndWords, AheadOfBuffer DEF S, piece
  <2> QED
    BY <1>5, <2>2, <2>6, LineEndWords
<1> QED
  BY <1>2, <1>3, <1>4, <1>10, <1>11, <1>12, UnfinishedExceeds DEF S, piece

(* handle_raw, without an empty line or a token.                           *)
LEMMA RawPartialRefuses ==
  ASSUME TypeOK, phase = "feeding", NEW m, NEW k, NEW p, NEW f,
         At(m, k, p, f), total = 0, RawPartial, phase' = "raised",
         NEW more \in BOOLEAN, f # Len(m) => more
  PROVE  OverIn(m, k, more, FALSE)
<1> DEFINE piece == PieceOf(m, k)
           S == StartOf(m, k)
           w == CRLF \o CRLF
<1>1. /\ state \in {"Discard", "End"} /\ Find(buffer, Token) = {} /\ Find(buffer, w) = {}
      /\ Exceeds(total + Len(buffer))
  BY DEF RawPartial, Return
<1>2. /\ Window(m, k, p, f) /\ buffer = Slice(m, p, f) /\ k \in 2..Count(m)
      /\ InRaw(m, k, p, f)
  BY <1>1 DEF At
<1>3. ~TokenSeen(m, k, f)
  BY <1>1, <1>2, ScanPlace
<1>4. p = S
  BY <1>2, <1>3 DEF InRaw
<1>5. /\ m \in Seq(Byte) /\ S \in Nat /\ f \in Nat /\ S <= f /\ k \in 1..Count(m)
  BY <1>2, <1>4, WindowBounds
<1>6. Len(buffer) = f - S /\ f - S \in Nat
  BY <1>2, <1>4, WindowBuffer
<1>7. piece \in Seq(Byte) /\ w \in Seq(Byte) /\ Len(w) = 4
  BY <1>5, PieceProperties, LineEndWords
<1> HIDE DEF piece, S
<1>8. Exceeds(f - S) /\ f - S <= f - S
  <2>1. total + Len(buffer) = f - S
    BY <1>6
  <2> QED
    BY <1>1, <1>6, <2>1
<1>9. ASSUME NEW h \in HeaderEnds(piece) PROVE f < S + h + 4
  <2>1. h \in Occurrences(piece, w)
    BY <1>9 DEF HeaderEnds, Find
  <2>2. h \in Nat
    BY <1>7, <2>1, TwoLineEnds
  <2>3. p <= S + h /\ Find(Slice(m, p, f), w) = {}
    BY <1>1, <1>2, <1>4, <1>5, <2>2
  <2>4. f < S + h + Len(w)
    BY <1>2, <1>7, <2>1, <2>2, <2>3, AheadOfBuffer DEF S, piece
  <2> QED
    BY <1>7, <2>4
<1> QED
  BY <1>2, <1>3, <1>6, <1>8, <1>9, UnfinishedExceeds DEF S, piece

(* handle_preamble and handle_body, at an undecided suffix.                *)
LEMMA IncompleteRefuses ==
  ASSUME TypeOK, NothingChargedOutsideHeaders, PendingOnlyInBody,
         phase = "feeding", NEW m, NEW k, NEW p, NEW f, At(m, k, p, f),
         PreambleIncomplete \/ BodyIncomplete, phase' = "raised",
         NEW more \in BOOLEAN, f # Len(m) => more
  PROVE  OverIn(m, k + 1, more, FALSE)
<1>1. Window(m, k, p, f) /\ buffer = Slice(m, p, f)
  BY DEF At
<1>2. \E index \in Find(buffer, Token) :
        IsIncomplete(TailAt(index)) /\ PrefixExceeds(0, TailAt(index))
  <2>1. CASE PreambleIncomplete
    <3>1. state = "Preamble" /\ ~pending
      BY <2>1 DEF PreambleIncomplete, PendingOnlyInBody
    <3>2. total = 0
      BY <3>1 DEF NothingChargedOutsideHeaders
    <3> QED
      BY <2>1, <3>2 DEF PreambleIncomplete, Return
  <2>2. CASE BodyIncomplete
    <3>1. state = "Body"
      BY <2>2 DEF BodyIncomplete, BodyBegun
    <3>2. Spent = 0
      BY <3>1 DEF NothingChargedOutsideHeaders, Spent
    <3> QED
      BY <2>2, <3>2 DEF BodyIncomplete, Return
  <2> QED
    BY <2>1, <2>2
<1> QED
  BY <1>1, <1>2, UndecidedExceeds

(* feed raises for a header limit only where a segment is over it.         *)
LEMMA LoopRefuses ==
  ASSUME TypeOK, TotalIsDecisive, NothingChargedOutsideHeaders, PendingOnlyInBody,
         NEW m, NEW k, NEW p, NEW f, At(m, k, p, f), Charged(m, k, p, f),
         Loop, phase' = "raised",
         NEW more \in BOOLEAN, f # Len(m) => more
  PROVE  \E j : OverIn(m, j, more, FALSE)
<1>1. phase = "feeding"
  BY DEF Loop
<1>2. CASE PreambleIncomplete \/ BodyIncomplete
  BY <1>1, <1>2, IncompleteRefuses
<1>3. CASE HeaderBoundary
  BY <1>1, <1>3, HeaderBoundaryRefuses
<1>4. CASE HeaderEnd
  BY <1>1, <1>4, HeaderEndRefuses
<1>5. CASE HeaderLine
  BY <1>1, <1>5, HeaderLineRefuses
<1>6. CASE HeaderPartial
  BY <1>1, <1>6, HeaderPartialRefuses
<1>7. CASE RawPartial
  <2>1. ~pending /\ state # "Header"
    BY <1>7 DEF RawPartial, PendingOnlyInBody
  <2>2. total = 0
    BY <1>1, <2>1 DEF NothingChargedOutsideHeaders
  <2> QED
    BY <1>1, <1>7, <2>2, RawPartialRefuses
<1>8. ~(\/ PreambleToken \/ PreambleScan \/ BodyAwaitsToken \/ BodyIsRaw \/ BodyToken
        \/ BodyScan \/ RawHeaders \/ RawToken)
  BY <1>1 DEF PreambleToken, PreambleScan, BodyAwaitsToken, BodyIsRaw, BodyToken, BodyScan,
              RawHeaders, RawToken, RawBoundary, Continue, Return
<1> QED
  BY <1>2, <1>3, <1>4, <1>5, <1>6, <1>7, <1>8 DEF Loop

(* At the end of input a block that fills the limit is refused already.    *)
LEMMA EndExceeds ==
  ASSUME NEW m \in Seq(Byte), NEW k \in 2..Count(m), NEW n \in Nat,
         NEW limit \in MaxTotalHeaderSize, n >= limit, n + 1 <= ChargeOf(m, k, FALSE, TRUE)
  PROVE  OverIn(m, k, FALSE, TRUE)
<1>1. limit \in Nat
  BY LimitsAssumption
<1>2. Exceeds(n + 1) /\ n + 1 \in Nat
  BY <1>1 DEF Exceeds
<1> QED
  BY <1>2, ExceedsIn

(* feed_eof, at a token whose suffix is still undecided.                   *)
LEMMA EofTokenRefuses ==
  ASSUME TypeOK, NEW m, NEW k, NEW p, Window(m, k, p, Len(m)), buffer = Slice(m, p, Len(m)),
         NEW index \in Find(buffer, Token), IsIncomplete(TailAt(index)),
         NEW limit \in MaxTotalHeaderSize, Len(TailAt(index)) >= limit
  PROVE  OverIn(m, k + 1, FALSE, TRUE)
<1>1. /\ k < Count(m) /\ Window(m, k + 1, StartOf(m, k + 1), Len(m))
      /\ TailAt(index) = Slice(m, StartOf(m, k + 1), Len(m))
  BY TokenPlace DEF Suffix
<1>2. /\ PieceOf(m, k + 1) = TailAt(index)
      /\ HeaderEnds(PieceOf(m, k + 1)) = {} /\ k + 1 = Count(m)
  BY <1>1, UndecidedIsLast
<1>3. /\ m \in Seq(Byte) /\ k + 1 \in 2..Count(m)
      /\ Len(PieceOf(m, k + 1)) \in Nat
  <2>1. m \in Seq(Byte) /\ k \in 1..Count(m) /\ Count(m) \in Nat /\ k + 1 \in 1..Count(m)
    BY <1>1, WindowBounds
  <2> QED
    BY <1>1, <2>1, PieceProperties
<1>4. Len(PieceOf(m, k + 1)) + 1 <= ChargeOf(m, k + 1, FALSE, TRUE)
  BY <1>2, <1>3, ChargeBounds
<1> QED
  BY <1>2, <1>3, <1>4, EndExceeds

(* feed_eof, in a header block.                                            *)
LEMMA EofHeaderRefuses ==
  ASSUME TypeOK, phase = "idle", state = "Header", NEW m, NEW k, NEW p,
         At(m, k, p, Len(m)), Charged(m, k, p, Len(m)), Quiet(m, k, p, Len(m)),
         NEW limit \in MaxTotalHeaderSize, total + Len(buffer) >= limit
  PROVE  \E j : OverIn(m, j, FALSE, TRUE)
<1> DEFINE piece == PieceOf(m, k)
<1>1. /\ Window(m, k, p, Len(m)) /\ k \in 2..Count(m) /\ InHeader(m, k, p, Len(m))
      /\ buffer = Slice(m, p, Len(m)) /\ HeaderAccount(m, k, p, Len(m))
  BY DEF At, Charged
<1>2. /\ m \in Seq(Byte) /\ Count(m) \in Nat /\ k \in Nat /\ p \in Nat /\ k \in 1..Count(m)
      /\ Len(m) \in Nat /\ EndOf(m, k) \in Nat /\ EndOf(m, k) <= Len(m)
      /\ StartOf(m, k) \in Nat /\ StartOf(m, k) <= p /\ p <= Len(m)
      /\ Len(buffer) = Len(m) - p
  BY <1>1, WindowBounds, WindowBuffer
<1>3. CASE /\ TokenSeen(m, k, Len(m)) /\ p = EndOf(m, k)
           /\ Count(m) = k + 1 /\ PieceOf(m, k + 1) = Suffix(m, k, Len(m))
           /\ IsIncomplete(Suffix(m, k, Len(m)))
  <2>1. HeaderEnds(piece) = {} /\ OpenLength(piece) # {}
    <3>1. CASE HeaderLines(PieceOf(m, k), p - StartOf(m, k), headers)
      <4>1. ASSUME NEW i \in Find(Slice(m, p, Len(m)), CRLF) PROVE EndOf(m, k) - p <= i
        <5>1. i \in Nat
          <6>1. Slice(m, p, Len(m)) \in Seq(Byte)
            BY <1>1, WindowBuffer
          <6> QED
            BY <6>1, LineEndWords, FindProperties
        <5> QED
          BY <1>2, <1>3, <5>1
      <4> QED
        BY <1>1, <1>2, <3>1, <4>1, NoLineNoBlock
    <3> QED
      BY <1>1, <3>1 DEF InHeader
  <2>2. total = 0
    BY <1>1, <1>3 DEF HeaderAccount
  <2>3. /\ k + 1 \in 1..Count(m) /\ k + 1 \in 2..Count(m) /\ k + 1 > 2
        /\ (k + 1) - 1 = k /\ ~(k + 1 < Count(m))
    BY <1>1, <1>2, <1>3
  <2>4. /\ StartOf(m, k + 1) = EndOf(m, k) + Len(Token) /\ EndOf(m, k + 1) = Len(m)
        /\ StartOf(m, k + 1) \in Nat /\ StartOf(m, k + 1) <= Len(m)
        /\ Window(m, k + 1, StartOf(m, k + 1), Len(m))
    <3>1. PICK index \in Find(buffer, Token) : TRUE
      BY <1>1, <1>3, TokenInBuffer
    <3>2. Window(m, k + 1, StartOf(m, k + 1), Len(m))
      BY <1>1, TokenPlace
    <3> QED
      BY <1>1, <1>3, <2>3, <3>2, WindowBounds
  <2>5. HeaderEnds(PieceOf(m, k + 1)) = {} /\ IsIncomplete(PieceOf(m, k + 1))
    BY <1>3, <2>4, UndecidedIsLast DEF Suffix
  <2>6. AfterRawBlock(m, k + 1)
    BY <2>1, <2>3, <2>5 DEF AfterRawBlock
  <2> DEFINE charge == ChargeOf(m, k + 1, FALSE, TRUE)
  <2>7. charge = Len(PieceOf(m, k + 1)) + (Len(Token) + 1)
    <3>1. k + 1 = Count(m)
      BY <1>3
    <3>2. Beyond(m, k + 1, FALSE, TRUE) = Len(Token) + 1
      BY <2>3, <2>6, <3>1 DEF Beyond
    <3> QED
      BY <2>5, <3>2 DEF ChargeOf
  <2>8. Len(PieceOf(m, k + 1)) = Len(m) - StartOf(m, k + 1)
    BY <1>2, <2>3, <2>4, PieceProperties
  <2>9. Len(Token) \in Nat
    BY TokenBytes
  <2>10. ASSUME Len(buffer) \in Nat, Len(buffer) >= limit, Len(buffer) + 1 <= charge
         PROVE  OverIn(m, k + 1, FALSE, TRUE)
    BY <1>2, <2>3, <2>10, EndExceeds
  <2> HIDE DEF charge
  <2>11. Len(buffer) \in Nat /\ Len(buffer) >= limit /\ Len(buffer) + 1 <= charge
    <3>1. limit \in Nat
      BY LimitsAssumption
    <3>2. Len(buffer) = Len(m) - EndOf(m, k) /\ Len(buffer) \in Nat /\ Len(buffer) >= limit
      BY <1>2, <1>3, <2>2, <3>1
    <3>3. charge = (Len(m) - (EndOf(m, k) + Len(Token))) + (Len(Token) + 1)
      BY <2>4, <2>7, <2>8
    <3> QED
      BY <1>2, <2>9, <3>2, <3>3
  <2> QED
    BY <2>10, <2>11
<1>4. CASE /\ ~TokenSeen(m, k, Len(m)) /\ Count(m) = k /\ EndOf(m, k) = Len(m)
           /\ Find(buffer, CRLF) = {}
  <2>1. HeaderLines(PieceOf(m, k), p - StartOf(m, k), headers) /\ total = p - StartOf(m, k)
    BY <1>1, <1>4 DEF InHeader, HeaderAccount
  <2>2. HeaderEnds(piece) = {}
    <3>1. \A i \in Find(Slice(m, p, Len(m)), CRLF) : EndOf(m, k) - p <= i
      BY <1>1, <1>4
    <3> QED
      BY <1>1, <1>2, <2>1, <3>1, NoLineNoBlock
  <2>3. total + Len(buffer) = Len(piece) /\ Len(piece) \in Nat
    <3>1. Len(piece) = EndOf(m, k) - StartOf(m, k) /\ Len(piece) \in Nat
      BY <1>2, PieceProperties
    <3> QED
      BY <1>2, <1>4, <2>1, <3>1
  <2>4. Len(piece) + 1 <= ChargeOf(m, k, FALSE, TRUE)
    BY <1>1, <1>2, <1>4, <2>2, ChargeBounds
  <2> QED
    BY <1>1, <1>2, <2>3, <2>4, EndExceeds
<1> QED
  BY <1>1, <1>3, <1>4, LastSegment

(* A buffer that starts with the delimiter has its token at offset 2.      *)
LEMMA DelimiterIsFound ==
  ASSUME buffer \in Seq(Byte), StartsWith(buffer, CRLF \o Token)
  PROVE  2 \in Find(buffer, Token) /\ TailAt(2) = From(buffer, DelimiterLength)
<1> DEFINE w == CRLF \o Token
<1>1. /\ Token \in Seq(Byte) /\ Len(Token) \in Nat /\ Len(Token) >= 3
      /\ CRLF \in Seq(Byte) /\ Len(CRLF) = 2 /\ DelimiterLength = 2 + Len(Token)
      /\ CRLF[1] = CR /\ CRLF[2] = LF /\ Token[1] = DASH
      /\ Len(buffer) \in Nat
  BY TokenProperties, TokenBytes, LenProperties DEF CRLF
<1>2. /\ w \in Seq(Byte) /\ Len(w) = 2 + Len(Token)
      /\ w[1] = CR /\ w[2] = LF
      /\ \A i \in 1..Len(Token) : w[2 + i] = Token[i]
  <2>0. /\ w \in Seq(Byte) /\ Len(w) = Len(CRLF) + Len(Token)
        /\ \A i \in 1..(Len(CRLF) + Len(Token)) :
             w[i] = IF i <= Len(CRLF) THEN CRLF[i] ELSE Token[i - Len(CRLF)]
    <3>1. CRLF \in Seq(Byte) /\ Token \in Seq(Byte)
      BY <1>1
    <3> QED
      BY <3>1, ConcatProperties, Zenon
  <2> HIDE DEF w
  <2>1. w \in Seq(Byte) /\ Len(w) = 2 + Len(Token)
    BY <1>1, <2>0
  <2>2. \A i \in 1..Len(w) : w[i] = IF i <= 2 THEN CRLF[i] ELSE Token[i - 2]
    BY <1>1, <2>0
  <2>3. 1 \in 1..Len(w) /\ 2 \in 1..Len(w)
    BY <1>1, <2>1
  <2>4. ASSUME NEW i \in 1..Len(Token) PROVE w[2 + i] = Token[i]
    <3>1. 2 + i \in 1..Len(w) /\ ~(2 + i <= 2) /\ (2 + i) - 2 = i
      BY <1>1, <2>1
    <3> QED
      BY <2>2, <3>1
  <2> QED
    BY <1>1, <2>1, <2>2, <2>3, <2>4
<1>3. Len(w) <= Len(buffer) /\ SubSeq(buffer, 1, Len(w)) = w
  BY DEF StartsWith, Upto
<1> HIDE DEF w
<1>4. \A i \in 1..Len(w) : buffer[i] = w[i]
  BY <1>1, <1>2, <1>3
<1>5. /\ buffer[1] = CR /\ buffer[2] = LF
      /\ \A i \in 1..Len(Token) : buffer[2 + i] = Token[i]
  BY <1>1, <1>2, <1>4
<1>6. 2 \in Occurrences(buffer, Token)
  BY <1>1, <1>2, <1>3, <1>5 DEF Occurrences
<1>7. ASSUME NEW j \in Occurrences(buffer, Token) PROVE 2 <= j
  <2>1. j \in Nat /\ buffer[j + 1] = DASH
    BY <1>1, <1>7, SMTT(60) DEF Occurrences
  <2>2. j # 0 /\ j # 1
    BY <1>5, <2>1, BytesDiffer
  <2> QED
    BY <2>1, <2>2
<1> QED
  BY <1>1, <1>6, <1>7 DEF Find, TailAt

(* feed_eof raises for a header limit only where a segment is over it.     *)
LEMMA EofRefuses ==
  ASSUME TypeOK, NEW m, NEW k, NEW p, At(m, k, p, Len(m)), Charged(m, k, p, Len(m)),
         Quiet(m, k, p, Len(m)), FeedEof, phase' = "raised"
  PROVE  \E j : OverIn(m, j, FALSE, TRUE)
<1>1. EofRefused /\ phase = "idle"
  BY DEF FeedEof, Return
<1>2. PICK length \in EofHeaderSize, limit \in MaxTotalHeaderSize : length >= limit
  BY <1>1 DEF EofRefused
<1>3. Window(m, k, p, Len(m)) /\ buffer = Slice(m, p, Len(m)) /\ buffer \in Seq(Byte)
  BY DEF At, TypeOK
<1>4. CASE state = "Header"
  <2>1. length = total + Len(buffer)
    BY <1>2, <1>4 DEF EofHeaderSize
  <2> QED
    BY <1>1, <1>2, <1>4, <2>1, EofHeaderRefuses
<1>5. CASE state = "Preamble"
  <2>1. /\ StartsWith(buffer, Token) /\ IsIncomplete(From(buffer, Len(Token)))
        /\ length = Len(From(buffer, Len(Token)))
    BY <1>2, <1>5 DEF EofHeaderSize
  <2>2. 0 \in Find(buffer, Token)
    BY <2>1, PrefixIsFound
  <2>3. TailAt(0) = From(buffer, Len(Token))
    <3>1. 0 + Len(Token) = Len(Token)
      BY TokenBytes
    <3> QED
      BY <3>1 DEF TailAt
  <2> QED
    BY <1>2, <1>3, <2>1, <2>2, <2>3, EofTokenRefuses
<1>6. CASE state = "Body"
  <2>1. /\ StartsWith(buffer, CRLF \o Token) /\ IsIncomplete(From(buffer, DelimiterLength))
        /\ length = Len(From(buffer, DelimiterLength))
    BY <1>2, <1>6 DEF EofHeaderSize
  <2>2. 2 \in Find(buffer, Token) /\ TailAt(2) = From(buffer, DelimiterLength)
    BY <1>3, <2>1, DelimiterIsFound
  <2> QED
    BY <1>2, <1>3, <2>1, <2>2, EofTokenRefuses
<1>7. CASE state \notin {"Header", "Preamble", "Body"}
  BY <1>2, <1>7 DEF EofHeaderSize
<1> QED
  BY <1>4, <1>5, <1>6, <1>7

(* The inductive invariant: the parser has charged what it has read, and   *)
(* what it has been refused for is in the message.                         *)
RefusalInv ==
  /\ ReckonInv
  /\ NothingChargedOutsideHeaders
  /\ phase # "raised" => error = "none"
  /\ RefusedOnlyOverTheLimit

LEMMA RefusalInit ==
  ASSUME Init, RequestInit
  PROVE  RefusalInv
BY ReckonInit DEF Init, RefusalInv, NothingChargedOutsideHeaders, RefusedOnlyOverTheLimit

(* A step that leaves the parser and its input alone.                      *)
LEMMA RefusalStutters ==
  ASSUME RefusalInv, ReckonInv', UNCHANGED <<vars, inputVars>>
  PROVE  RefusalInv'
BY DEF RefusalInv, vars, inputVars, NothingChargedOutsideHeaders, RefusedOnlyOverTheLimit

(* feed, given the next chunk: its errors are not of the headers.          *)
LEMMA RefusalFeed ==
  ASSUME RefusalInv, ReckonInv', Receives
  PROVE  RefusalInv'
<1>1. PICK chunk : Feed(chunk) /\ request' = request
  BY DEF Receives, FeedNext
<1>2. /\ phase = "idle" /\ state' = state /\ total' = total /\ headers' = headers
      /\ pending' = pending
      /\ \/ phase' = "raised" /\ error' \in {"FedAfterEof", "TooLarge"}
         \/ phase' = "feeding" /\ error' = error
  BY <1>1 DEF Feed, Raise
<1> QED
  BY <1>2 DEF RefusalInv, NothingChargedOutsideHeaders, RefusedOnlyOverTheLimit

(* A pass of the loop of feed.                                             *)
LEMMA RefusalLoop ==
  ASSUME TotalIsDecisive, RefusalInv, ReckonInv', Turns
  PROVE  RefusalInv'
<1>1. /\ TypeOK /\ PendingOnlyInBody /\ ProtocolInv /\ request \in Seq(Byte)
      /\ phase = "feeding" /\ ~eof /\ error = "none"
      /\ Reckoning /\ NothingChargedOutsideHeaders
      /\ Loop /\ request' = request
  BY DEF RefusalInv, ReckonInv, ReadInv, ProtocolInv, FeedingIsBeforeEof, Turns, Loop, inputVars
<1>2. Outcomes
  BY <1>1, LoopOutcome
<1>3. NothingChargedOutsideHeaders'
  BY <1>1, LoopAccount DEF AccountInv
<1>4. CASE phase' = "raised"
  <2>1. PICK k, p, f : /\ At(request, k, p, f) /\ Charged(request, k, p, f)
                       /\ unread = From(request, f)
    BY <1>1 DEF Reckoning
  <2>2. f # Len(request) => unread # <<>>
    <3>1. Window(request, k, p, f)
      BY <2>1 DEF At
    <3>2. f \in Nat /\ f <= Len(request) /\ Len(request) \in Nat
      BY <3>1, WindowBounds
    <3>3. Len(From(request, f)) = Len(request) - f
      BY <1>1, <3>2, FromProperties
    <3> QED
      BY <2>1, <3>2, <3>3, EmptySeq
  <2>3. \E j : OverIn(request, j, unread # <<>>, FALSE)
    <3>1. PICK more \in BOOLEAN : more <=> unread # <<>>
      OBVIOUS
    <3>2. more = (unread # <<>>)
      BY <3>1
    <3>3. \E j : OverIn(request, j, more, FALSE)
      BY <1>1, <1>4, <2>1, <2>2, <3>1, LoopRefuses
    <3> QED
      BY <3>2, <3>3
  <2>4. HasSegmentOverLimit(request, unread # <<>>, FALSE)
    <3>1. (unread # <<>>) \in BOOLEAN
      OBVIOUS
    <3> QED
      BY <1>1, <2>3, <3>1, OverMeans
  <2>5. unread' = unread /\ request' = request /\ eof' = FALSE
    <3>1. eof' = eof
      BY <1>1 DEF Loop
    <3> QED
      BY <1>1, <3>1 DEF inputVars, Turns
  <2> QED
    BY <1>3, <1>4, <2>4, <2>5 DEF RefusalInv, RefusedOnlyOverTheLimit
<1>5. CASE phase' # "raised"
  <2>1. error' = "none"
    BY <1>1, <1>2, <1>5 DEF Outcomes, Continue, Return, Raise
  <2> QED
    BY <1>3, <1>5, <2>1 DEF RefusalInv, RefusedOnlyOverTheLimit
<1> QED
  BY <1>4, <1>5

(* feed_eof, when everything has been fed.                                 *)
LEMMA RefusalEnd ==
  ASSUME TotalIsDecisive, RefusalInv, ReckonInv', HearsTheEnd
  PROVE  RefusalInv'
<1>1. /\ TypeOK /\ request \in Seq(Byte)
      /\ phase = "idle" /\ ~eof /\ error = "none"
      /\ Reckoning /\ NothingChargedOutsideHeaders /\ unread = <<>>
      /\ FeedEof /\ request' = request
  BY DEF RefusalInv, ReckonInv, ReadInv, ProtocolInv, HearsTheEnd, FeedEof, inputVars
<1>2. NothingChargedOutsideHeaders'
  <2> SUFFICES ASSUME phase' # "raised", state' # "Header" PROVE Uncharged'
    BY DEF NothingChargedOutsideHeaders, Uncharged
  <2>1. headers' = <<>> /\ total' = Spent /\ phase = "idle"
    BY <1>1 DEF FeedEof, Raise
  <2>2. state = "Header" => state' = "Header"
    BY <1>1 DEF FeedEof, Raise
  <2>3. Spent = 0
    BY <1>1, <2>1, <2>2 DEF Spent, NothingChargedOutsideHeaders
  <2> QED
    BY <2>1, <2>3 DEF Uncharged
<1>3. CASE phase' = "raised"
  <2> PICK m : m = request
    OBVIOUS
  <2>1. PICK k, p, f : /\ At(m, k, p, f) /\ Charged(m, k, p, f)
                       /\ unread = From(m, f) /\ Quiet(m, k, p, f)
    BY <1>1 DEF Reckoning
  <2>2. f = Len(m)
    <3>1. Window(m, k, p, f)
      BY <2>1 DEF At
    <3>2. f \in Nat /\ f <= Len(m) /\ Len(m) \in Nat /\ m \in Seq(Byte)
      BY <3>1, WindowBounds
    <3>3. Len(From(m, f)) = Len(m) - f
      BY <3>2, FromProperties
    <3>4. Len(From(m, f)) = 0
      BY <1>1, <2>1
    <3> QED
      BY <3>2, <3>3, <3>4
  <2>3. \E j : OverIn(m, j, FALSE, TRUE)
    BY <1>1, <1>3, <2>1, <2>2, EofRefuses
  <2>4. HasSegmentOverLimit(m, FALSE, TRUE)
    BY <1>1, <2>3, OverMeans
  <2>5. unread' = <<>> /\ request' = request /\ eof' = TRUE
    BY <1>1 DEF FeedEof, HearsTheEnd, inputVars
  <2> QED
    BY <1>2, <1>3, <2>4, <2>5 DEF RefusalInv, RefusedOnlyOverTheLimit
<1>4. CASE phase' # "raised"
  <2>1. error' = error
    BY <1>1, <1>4 DEF FeedEof, Raise, Return
  <2> QED
    BY <1>1, <1>2, <2>1 DEF RefusalInv, RefusedOnlyOverTheLimit
<1> QED
  BY <1>3, <1>4

(* Every step keeps the invariant.                                         *)
LEMMA RefusalStep ==
  ASSUME TotalIsDecisive, RefusalInv, ParseStep
  PROVE  RefusalInv'
<1>1. ReckonInv'
  BY ReckonStep DEF RefusalInv
<1>2. CASE Restarts
  BY <1>1, <1>2 DEF Restarts, Reset, RefusalInv, NothingChargedOutsideHeaders,
                    RefusedOnlyOverTheLimit
<1> QED
  BY <1>1, <1>2, RefusalStutters, RefusalFeed, RefusalLoop, RefusalEnd DEF ParseStep

(* A parse is refused for its headers only if some segment is over the     *)
(* limit, alone or, as long as not all of the request is fed, together     *)
(* with the beginning of the token behind it: with the limits as the       *)
(* adapter derives them from its total, neither the line length nor the    *)
(* number of fields refuses anything more (multipart.rs:285, 306-363).     *)
THEOREM RefusalsCorrect ==
  ASSUME TotalIsDecisive
  PROVE  FuzzSpec => []RefusedOnlyOverTheLimit
<1>1. FuzzInit => RefusalInv /\ WholePass
  BY FuzzStarts, RefusalInit
<1>2. RefusalInv /\ WholePass /\ [FuzzNext]_<<vars, fuzzVars>> => RefusalInv' /\ WholePass'
  <2> SUFFICES ASSUME RefusalInv, WholePass, [FuzzNext]_<<vars, fuzzVars>>
               PROVE  RefusalInv' /\ WholePass'
    OBVIOUS
  <2>1. ParseStep /\ WholePass'
    BY FuzzStep DEF RefusalInv, ReckonInv, ReadInv
  <2> QED
    BY <2>1, RefusalStep
<1>3. RefusalInv => RefusedOnlyOverTheLimit
  BY DEF RefusalInv
<1> QED
  BY <1>1, <1>2, <1>3, PTL DEF FuzzSpec
=============================================================================
