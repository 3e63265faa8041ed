------------------------ MODULE MultipartParserProofs ------------------------
(***************************************************************************)
(* Theorems about the parser, for every boundary, every limit and every    *)
(* chunking of every message: its types, that it implements EventStream,   *)
(* that feed's loop ends, that the account of header bytes is kept per     *)
(* header block, and that the limits hold: the header blocks that the      *)
(* parser hands out are within max_header_count, max_header_size and       *)
(* max_total_header_size, and what it holds back of a body is at most one  *)
(* undecided delimiter.                                                    *)
(***************************************************************************)
EXTENDS MultipartProperties, TLAPS, SequenceTheorems, FiniteSetTheorems, WellFoundedInduction

-----------------------------------------------------------------------------
(* What the byte-level operators return and how long it is.                *)

(* The bytes that the code compares with are seven different ones.         *)
LEMMA SpecialBytesDiffer ==
  DASH \notin Blank \cup {CR}
<1>1. ASSUME NEW a, NEW b, NEW c, NEW d, NEW e, NEW f
      PROVE  Cardinality({a, b, c, d, e, f}) <= 6
  <2> DEFINE g == [i \in 1..6 |-> IF i = 1 THEN a ELSE IF i = 2 THEN b ELSE IF i = 3 THEN c
                                  ELSE IF i = 4 THEN d ELSE IF i = 5 THEN e ELSE f]
  <2>1. g[1] = a /\ g[2] = b /\ g[3] = c /\ g[4] = d /\ g[5] = e /\ g[6] = f
    OBVIOUS
  <2>2. g \in [1..6 -> {a, b, c, d, e, f}]
    OBVIOUS
  <2> HIDE DEF g
  <2>3. \A y \in {a, b, c, d, e, f} : \E i \in 1..6 : g[i] = y
    BY <2>1
  <2>4. ExistsSurjection(1..6, {a, b, c, d, e, f})
    BY <2>2, <2>3 DEF ExistsSurjection, Surjection
  <2> QED
    BY <2>4, FS_SurjCardinalityBound
<1>2. ASSUME DASH = CR \/ DASH = SP \/ DASH = TAB PROVE FALSE
  <2>1. SpecialBytes = {CR, LF, SP, TAB, FF, COLON}
    BY <1>2 DEF SpecialBytes
  <2>2. Cardinality(SpecialBytes) <= 6
    BY <1>1, <2>1
  <2> QED
    BY <2>2, ByteAssumption
<1> QED
  BY <1>2 DEF Blank

(* A set of naturals that is not empty has a smallest element.  Of the     *)
(* numbers that refute a claim it is the least counterexample, so this is  *)
(* induction over the naturals.                                            *)
LEMMA LeastElement ==
  ASSUME NEW T \in SUBSET Nat, T # {}
  PROVE  \E m \in T : \A k \in T : m <= k
<1> DEFINE Intervals == {1..k : k \in T}
<1>1. \A k \in T : k \in Nat /\ IsFiniteSet(1..k) /\ 1..k \subseteq Nat
  BY FS_Interval
<1>2. Intervals \subseteq FiniteSubsetsOf(Nat) /\ Intervals # {}
  BY <1>1 DEF FiniteSubsetsOf
<1>3. PICK x \in Intervals : \A y \in Intervals : <<y, x>> \notin StrictSubsetOrdering(Nat)
  BY <1>2, FS_StrictSubsetOrderingWellFounded, WFMin, Zenon
<1>4. PICK m \in T : x = 1..m
  OBVIOUS
<1>5. ASSUME NEW k \in T, k < m PROVE FALSE
  <2>1. 1..k \subseteq 1..m /\ m \in 1..m /\ m \notin 1..k
    BY <1>1, <1>5
  <2>2. <<1..k, x>> \in StrictSubsetOrdering(Nat)
    BY <1>1, <1>4, <2>1 DEF StrictSubsetOrdering
  <2> QED
    BY <1>3, <2>2
<1> QED
  BY <1>1, <1>5

(* A set of naturals with an upper bound that is not empty has a largest.  *)
LEMMA GreatestElement ==
  ASSUME NEW n \in Nat, NEW T \in SUBSET (0..n), T # {}
  PROVE  \E m \in T : \A k \in T : k <= m
<1> DEFINE Down == {k \in 0..n : n - k \in T}
<1>1. Down \in SUBSET Nat
  OBVIOUS
<1>2. Down # {}
  <2>1. PICK m \in T : TRUE
    OBVIOUS
  <2>2. n - m \in 0..n /\ n - (n - m) = m
    BY <2>1
  <2> QED
    BY <2>1, <2>2
<1> HIDE DEF Down
<1>3. PICK least \in Down : \A k \in Down : least <= k
  BY <1>1, <1>2, LeastElement
<1> USE DEF Down
<1>4. ASSUME NEW k \in T PROVE k <= n - least
  <2>1. n - k \in 0..n /\ n - (n - k) = k
    OBVIOUS
  <2>2. n - k \in Down
    BY <2>1
  <2>3. least <= n - k /\ least \in 0..n
    BY <1>3, <2>2
  <2> QED
    BY <2>3
<1>5. n - least \in T
  BY <1>3
<1> QED
  BY <1>4, <1>5

(* Slicing off the first i elements leaves the others.                     *)
LEMMA FromProperties ==
  ASSUME NEW S, NEW s \in Seq(S), NEW i \in 0..Len(s)
  PROVE  From(s, i) \in Seq(S) /\ Len(From(s, i)) = Len(s) - i
<1>1. \A k \in (i + 1)..Len(s) : s[k] \in S
  BY LenProperties
<1>2. /\ SubSeq(s, i + 1, Len(s)) \in Seq(S)
      /\ Len(SubSeq(s, i + 1, Len(s)))
           = IF i + 1 <= Len(s) THEN Len(s) - (i + 1) + 1 ELSE 0
  BY <1>1, SubSeqProperties, LenProperties
<1> QED
  BY <1>2, LenProperties DEF From

(* Slicing off all but the first i elements.                               *)
LEMMA UptoProperties ==
  ASSUME NEW S, NEW s \in Seq(S), NEW i \in 0..Len(s)
  PROVE  Upto(s, i) \in Seq(S) /\ Len(Upto(s, i)) = i
<1>1. \A k \in 1..i : s[k] \in S
  BY LenProperties
<1>2. /\ SubSeq(s, 1, i) \in Seq(S)
      /\ Len(SubSeq(s, 1, i)) = IF 1 <= i THEN i - 1 + 1 ELSE 0
  BY <1>1, SubSeqProperties, LenProperties
<1> QED
  BY <1>2, LenProperties DEF Upto

(* A trailing or leading run is counted by a natural number no longer than *)
(* the sequence, so trimming it off yields a sequence again.               *)
LEMMA RunLength ==
  ASSUME NEW n \in Nat, NEW R \in SUBSET (1..n)
  PROVE  Cardinality(R) \in 0..n
<1>1. IsFiniteSet(1..n) /\ Cardinality(1..n) = IF 1 > n THEN 0 ELSE n - 1 + 1
  BY FS_Interval
<1>2. IsFiniteSet(R) /\ Cardinality(R) <= Cardinality(1..n)
  BY <1>1, FS_Subset
<1>3. Cardinality(R) \in Nat
  BY <1>2, FS_CardinalityType
<1> QED
  BY <1>1, <1>2, <1>3

(* Trimming a byte string from either end leaves a byte string over the    *)
(* same set that is no longer.                                             *)
LEMMA TrimProperties ==
  ASSUME NEW S, NEW s \in Seq(S), NEW B
  PROVE  /\ TrimEnd(s, B) \in Seq(S) /\ TrimStart(s, B) \in Seq(S)
         /\ Len(TrimEnd(s, B)) <= Len(s) /\ Len(TrimStart(s, B)) <= Len(s)
<1> DEFINE trailing == {i \in 1..Len(s) : \A j \in i..Len(s) : s[j] \in B}
           leading == {i \in 1..Len(s) : \A j \in 1..i : s[j] \in B}
<1>1. Len(s) \in Nat
  BY LenProperties
<1>2. Cardinality(trailing) \in 0..Len(s) /\ Cardinality(leading) \in 0..Len(s)
  BY <1>1, RunLength
<1>3. Len(s) - Cardinality(trailing) \in 0..Len(s)
  BY <1>1, <1>2
<1>4. /\ Upto(s, Len(s) - Cardinality(trailing)) \in Seq(S)
      /\ Len(Upto(s, Len(s) - Cardinality(trailing))) = Len(s) - Cardinality(trailing)
  BY <1>3, UptoProperties
<1>5. /\ From(s, Cardinality(leading)) \in Seq(S)
      /\ Len(From(s, Cardinality(leading))) = Len(s) - Cardinality(leading)
  BY <1>2, FromProperties
<1> QED
  BY <1>1, <1>2, <1>4, <1>5 DEF TrimEnd, TrimStart

(* The token and the delimiter lengths of the constructor agree.           *)
LEMMA TokenProperties ==
  /\ Token \in Seq(Byte)
  /\ Len(Token) = Len(Boundary) + 2
  /\ Len(Token) \in Nat /\ Len(Token) >= 3
  /\ CRLF \in Seq(Byte) /\ Len(CRLF) = 2
  /\ DelimiterLength = Len(Token) + 2
<1>1. <<DASH, DASH>> \in Seq(Byte) /\ Len(<<DASH, DASH>>) = 2
  BY ByteAssumption DEF SpecialBytes
<1>2. CRLF \in Seq(Byte) /\ Len(CRLF) = 2
  BY ByteAssumption DEF SpecialBytes, CRLF
<1>3. Boundary \in Seq(Byte) /\ Len(Boundary) \in Nat /\ Len(Boundary) >= 1
  BY BoundaryAssumption
<1>4. Token \in Seq(Byte) /\ Len(Token) = 2 + Len(Boundary)
  BY <1>1, <1>3, ConcatProperties DEF Token
<1> QED
  BY <1>2, <1>3, <1>4 DEF DelimiterLength

(* A match lies inside the sequence that was searched.                     *)
LEMMA FindProperties ==
  ASSUME NEW s \in Seq(Byte), NEW p \in Seq(Byte), NEW i \in Find(s, p)
  PROVE  i \in Nat /\ i + Len(p) <= Len(s) /\ i \in 0..Len(s)
<1>1. Len(s) \in Nat /\ Len(p) \in Nat
  BY LenProperties
<1>2. i \in 0..(Len(s) - Len(p))
  BY DEF Find, Occurrences
<1> QED
  BY <1>1, <1>2

(* Searching finds something exactly when there is something to be found.  *)
LEMMA FindIsComplete ==
  ASSUME NEW s, NEW p
  PROVE  Find(s, p) = {} <=> Occurrences(s, p) = {}
<1>1. Occurrences(s, p) \in SUBSET Nat
  BY DEF Occurrences
<1>2. ASSUME Occurrences(s, p) # {} PROVE Find(s, p) # {}
  <2>1. PICK i \in Occurrences(s, p) : \A j \in Occurrences(s, p) : i <= j
    BY <1>1, <1>2, LeastElement
  <2> QED
    BY <2>1 DEF Find
<1> QED
  BY <1>2 DEF Find

(* The occurrences in a suffix are those of the whole that begin in it.    *)
LEMMA SuffixOccurrences ==
  ASSUME NEW s \in Seq(Byte), NEW p \in Seq(Byte), NEW i \in 0..Len(s), NEW j \in Nat
  PROVE  j \in Occurrences(From(s, i), p) <=> i + j \in Occurrences(s, p)
<1>1. /\ Len(s) \in Nat /\ Len(p) \in Nat
      /\ \A k \in (i + 1)..Len(s) : s[k] \in Byte
  BY LenProperties
<1>2. Len(From(s, i)) = Len(s) - i
  BY FromProperties
<1>3. \A k \in 1..(Len(s) - i) : From(s, i)[k] = s[i + k]
  <2>1. \A k \in 1..(Len(s) - (i + 1) + 1) : SubSeq(s, i + 1, Len(s))[k] = s[i + 1 + k - 1]
    BY <1>1, SubSeqProperties
  <2> QED
    BY <1>1, <2>1 DEF From
<1>4. j \in 0..(Len(From(s, i)) - Len(p)) <=> i + j \in 0..(Len(s) - Len(p))
  BY <1>1, <1>2
<1>5. ASSUME j \in 0..(Len(From(s, i)) - Len(p)), NEW k \in 1..Len(p)
      PROVE  From(s, i)[j + k] = s[i + j + k]
  <2>1. j + k \in 1..(Len(s) - i) /\ i + (j + k) = i + j + k
    BY <1>1, <1>2, <1>5
  <2> QED
    BY <1>3, <2>1
<1> QED
  BY <1>4, <1>5 DEF Occurrences

(* A part's data never reaches past the token that ends it, and the line   *)
(* end between them is at most two bytes.                                  *)
LEMMA DataEndRange ==
  ASSUME NEW buf, NEW index \in Nat
  PROVE  BodyDataEnd(buf, index) \in 0..index /\ index - BodyDataEnd(buf, index) <= 2
BY DEF BodyDataEnd

(* What a buffer's end may be the beginning of a token is part of it.      *)
LEMMA PartialSuffixRange ==
  ASSUME NEW buf \in Seq(Byte)
  PROVE  PartialSuffixLength(buf) \in 0..Len(buf)
<1> DEFINE Ends(n) == n < Len(Token) /\ From(buf, Len(buf) - n) = Upto(Token, n)
           Lengths == {n \in 0..Len(buf) : Ends(n)}
<1>1. Len(buf) \in Nat
  BY LenProperties
<1>2. Ends(0)
  <2>1. 0 < Len(Token) /\ Token \in Seq(Byte)
    BY TokenProperties
  <2>2. Len(buf) - 0 \in 0..Len(buf) /\ 0 \in 0..Len(Token)
    BY <1>1, <2>1
  <2>3. /\ From(buf, Len(buf) - 0) \in Seq(Byte) /\ Len(From(buf, Len(buf) - 0)) = 0
        /\ Upto(Token, 0) \in Seq(Byte) /\ Len(Upto(Token, 0)) = 0
    BY <1>1, <2>1, <2>2, FromProperties, UptoProperties
  <2>4. From(buf, Len(buf) - 0) = <<>> /\ Upto(Token, 0) = <<>>
    BY <2>3, EmptySeq
  <2> QED
    BY <2>1, <2>4
<1>3. 0 \in Lengths
  BY <1>1, <1>2
<1> HIDE DEF Ends
<1>4. PICK n \in Lengths : \A m \in Lengths : m <= n
  BY <1>1, <1>3, GreatestElement
<1>5. \E n_1 \in 0..Len(buf) : Ends(n_1) /\ \A m \in 0..Len(buf) : Ends(m) => m <= n_1
  BY <1>4
<1> QED
  BY <1>5 DEF PartialSuffixLength, Ends

(* A header line with a colon becomes a field of byte strings, which with  *)
(* the colon are no longer than the line.                                  *)
LEMMA FieldProperties ==
  ASSUME NEW line \in Seq(Byte), NEW separator \in Find(line, <<COLON>>)
  PROVE  LET field == Field(line, separator)
         IN  /\ field \in [name : Seq(Byte), value : Seq(Byte)]
             /\ Len(field.name) + 1 + Len(field.value) <= Len(line)
<1>1. <<COLON>> \in Seq(Byte) /\ Len(<<COLON>>) = 1
  BY ByteAssumption DEF SpecialBytes
<1>2. separator \in Nat /\ separator + Len(<<COLON>>) <= Len(line)
  BY <1>1, FindProperties
<1>3. separator \in 0..Len(line) /\ separator + 1 \in 0..Len(line)
  BY <1>1, <1>2, LenProperties
<1>4. /\ Upto(line, separator) \in Seq(Byte) /\ Len(Upto(line, separator)) = separator
      /\ From(line, separator + 1) \in Seq(Byte)
      /\ Len(From(line, separator + 1)) = Len(line) - (separator + 1)
  BY <1>3, UptoProperties, FromProperties
<1>5. /\ TrimEnd(Upto(line, separator), {SP}) \in Seq(Byte)
      /\ Len(TrimEnd(Upto(line, separator), {SP})) <= separator
  BY <1>4, TrimProperties
<1>6. /\ TrimEnd(From(line, separator + 1), AsciiWhitespace) \in Seq(Byte)
      /\ Len(TrimEnd(From(line, separator + 1), AsciiWhitespace)) <= Len(line) - (separator + 1)
  BY <1>4, TrimProperties
<1>7. /\ TrimAscii(From(line, separator + 1)) \in Seq(Byte)
      /\ Len(TrimAscii(From(line, separator + 1)))
           <= Len(TrimEnd(From(line, separator + 1), AsciiWhitespace))
  BY <1>6, TrimProperties DEF TrimAscii
<1>8. Len(TrimAscii(From(line, separator + 1))) <= Len(line) - (separator + 1)
  BY <1>2, <1>6, <1>7, LenProperties
<1>9. Len(TrimEnd(Upto(line, separator), {SP})) + 1 + Len(TrimAscii(From(line, separator + 1)))
        <= Len(line)
  BY <1>2, <1>5, <1>7, <1>8, LenProperties
<1> QED
  BY <1>5, <1>7, <1>9 DEF Field

-----------------------------------------------------------------------------
(* Events and the outcome of a handler.                                    *)

(* The four constructors of MultipartEvent build events.                   *)
LEMMA EventTypes ==
  /\ \A fields \in Headers : BeginEvent(fields) \in Event
  /\ \A bytes \in Seq(Byte) : DataEvent(bytes) \in Event
  /\ EndEvent \in Event /\ RawEvent \in Event
BY DEF BeginEvent, DataEvent, EndEvent, RawEvent, Event

(* The at most one Data event for some bytes is a batch (an empty slice is *)
(* not pushed).                                                            *)
LEMMA DataOfType ==
  ASSUME NEW bytes \in Seq(Byte)
  PROVE  DataOf(bytes) \in Seq(Event)
BY EventTypes DEF DataOf

(* The at most one Begin event a body starts with is a batch, and what it  *)
(* spends is a natural number.                                             *)
LEMMA BeganType ==
  ASSUME TypeOK
  PROVE  Began \in Seq(Event) /\ Spent \in Nat
BY EventTypes DEF Began, Spent, TypeOK

(* Whatever a handler pushes, and however it ends, the caller's side keeps *)
(* its type.                                                               *)
LEMMA OutcomeType ==
  ASSUME TypeOK, NEW new \in Seq(Event),
         \/ Continue(new)
         \/ Return(new)
         \/ \E reason \in Errors : Raise(reason)
  PROVE  /\ phase' \in {"idle", "feeding", "raised"}
         /\ error' \in Errors
         /\ events' \in Seq(Event)
         /\ received' \in Seq(Event)
<1>1. events \in Seq(Event) /\ received \in Seq(Event)
  BY DEF TypeOK
<1>2. events \o new \in Seq(Event)
  BY <1>1, ConcatProperties
<1>3. received \o (events \o new) \in Seq(Event)
  BY <1>1, <1>2, ConcatProperties
<1>4. CASE Continue(new)
  BY <1>2, <1>4 DEF TypeOK, Continue
<1>5. CASE Return(new)
  BY <1>3, <1>5 DEF TypeOK, Return
<1>6. CASE \E reason \in Errors : Raise(reason)
  BY <1>6 DEF TypeOK, Raise
<1> QED
  BY <1>4, <1>5, <1>6

-----------------------------------------------------------------------------
(* The suffix of a token that was found, and the arms shared by handlers.  *)

(* What follows a token found in the buffer is a byte string of the        *)
(* remaining length, and what precedes it too.                             *)
LEMMA TailAtProperties ==
  ASSUME TypeOK, NEW index \in Find(buffer, Token)
  PROVE  /\ index \in 0..Len(buffer)
         /\ TailAt(index) \in Seq(Byte)
         /\ Len(TailAt(index)) = Len(buffer) - index - Len(Token)
         /\ Len(TailAt(index)) \in Nat
<1>1. buffer \in Seq(Byte) /\ Len(buffer) \in Nat
  BY DEF TypeOK
<1>2. index \in Nat /\ index + Len(Token) <= Len(buffer) /\ index \in 0..Len(buffer)
  BY <1>1, FindProperties, TokenProperties
<1>3. index + Len(Token) \in 0..Len(buffer)
  BY <1>1, <1>2, TokenProperties
<1> QED
  BY <1>1, <1>2, <1>3, FromProperties, TokenProperties DEF TailAt

(* A CRLF found in the buffer splits it into a line and a rest (the header *)
(* lines of handle_header).                                                *)
LEMMA LineEndProperties ==
  ASSUME TypeOK, NEW index \in Find(buffer, CRLF)
  PROVE  /\ index \in Nat
         /\ Upto(buffer, index) \in Seq(Byte)
         /\ From(buffer, index + Len(CRLF)) \in Seq(Byte)
         /\ Len(From(buffer, index + Len(CRLF))) = Len(buffer) - index - 2
<1>1. buffer \in Seq(Byte) /\ Len(buffer) \in Nat
  BY LenProperties DEF TypeOK
<1>2. CRLF \in Seq(Byte) /\ Len(CRLF) = 2
  BY TokenProperties
<1>3. index \in Nat /\ index + Len(CRLF) <= Len(buffer) /\ index \in 0..Len(buffer)
  BY <1>1, <1>2, FindProperties
<1>4. index + Len(CRLF) \in 0..Len(buffer)
  BY <1>1, <1>2, <1>3
<1>5. Upto(buffer, index) \in Seq(Byte)
  BY <1>1, <1>3, UptoProperties
<1>6. /\ From(buffer, index + Len(CRLF)) \in Seq(Byte)
      /\ Len(From(buffer, index + Len(CRLF))) = Len(buffer) - (index + Len(CRLF))
  BY <1>1, <1>4, FromProperties
<1> QED
  BY <1>1, <1>2, <1>3, <1>5, <1>6

(* The data that precedes a token is a slice of the buffer.                *)
LEMMA BodyDataProperties ==
  ASSUME TypeOK, NEW index \in Find(buffer, Token)
  PROVE  /\ Upto(buffer, BodyDataEnd(buffer, index)) \in Seq(Byte)
         /\ From(buffer, BodyDataEnd(buffer, index)) \in Seq(Byte)
<1>1. buffer \in Seq(Byte) /\ Len(buffer) \in Nat /\ index \in 0..Len(buffer)
  BY TailAtProperties, LenProperties DEF TypeOK
<1>2. BodyDataEnd(buffer, index) \in 0..Len(buffer)
  BY <1>1, DataEndRange
<1> QED
  BY <1>1, <1>2, UptoProperties, FromProperties

(* A buffer that starts with the token has it at offset 0.                 *)
LEMMA PrefixIsFound ==
  ASSUME TypeOK, StartsWith(buffer, Token)
  PROVE  0 \in Find(buffer, Token)
<1>1. buffer \in Seq(Byte) /\ Len(buffer) \in Nat /\ Len(Token) \in Nat
  BY TokenProperties, LenProperties DEF TypeOK
<1>2. Len(Token) <= Len(buffer) /\ SubSeq(buffer, 1, Len(Token)) = Token
  BY DEF StartsWith, Upto
<1>3. \A k \in 1..Len(Token) : buffer[0 + k] = Token[k]
  <2>1. \A k \in 1..Len(Token) : buffer[k] \in Byte
    BY <1>1, <1>2, LenProperties
  <2>2. \A k \in 1..(Len(Token) - 1 + 1) :
          SubSeq(buffer, 1, Len(Token))[k] = buffer[1 + k - 1]
    BY <1>1, <2>1, SubSeqProperties
  <2> QED
    BY <1>1, <1>2, <2>2
<1> QED
  BY <1>1, <1>2, <1>3 DEF Find, Occurrences

(* Each arm leaves a typed state, and consumes at least the token.         *)
LEMMA AfterTokenProperties ==
  ASSUME TypeOK, NEW index \in Find(buffer, Token), NEW spent \in Nat,
         AfterToken(index, spent)
  PROVE  /\ state' \in {"Header", "End", "Discard"}
         /\ total' \in Nat
         /\ buffer' \in Seq(Byte)
         /\ Len(buffer') <= Len(buffer) - Len(Token)
         /\ state' # "Header" => total' = spent
<1>1. /\ TailAt(index) \in Seq(Byte)
      /\ Len(TailAt(index)) \in Nat
      /\ Len(TailAt(index)) <= Len(buffer) - Len(Token)
  BY TailAtProperties, TokenProperties, LenProperties DEF TypeOK
<1>2. ASSUME NEW consumed \in OpenLength(TailAt(index)),
             state' = "Header", total' = consumed,
             buffer' = From(TailAt(index), consumed)
      PROVE  /\ total' \in Nat
             /\ buffer' \in Seq(Byte)
             /\ Len(buffer') <= Len(buffer) - Len(Token)
  <2>1. consumed \in 0..Len(TailAt(index))
    BY <1>1, <1>2 DEF OpenLength
  <2>2. buffer' \in Seq(Byte) /\ Len(buffer') = Len(TailAt(index)) - consumed
    BY <1>1, <1>2, <2>1, FromProperties
  <2> QED
    BY <1>1, <1>2, <2>1, <2>2, TokenProperties, LenProperties DEF TypeOK
<1> QED
  BY <1>1, <1>2 DEF AfterToken

(* Meeting the token of an unwanted segment leaves every variable it       *)
(* assigns of its type.                                                    *)
LEMMA RawBoundaryProperties ==
  ASSUME TypeOK, NEW index \in Find(buffer, Token),
         NEW origin \in States, NEW spent \in Nat,
         RawBoundary(index, origin, spent)
  PROVE  /\ state' \in States
         /\ total' \in Nat
         /\ buffer' \in Seq(Byte)
         /\ \/ AfterToken(index, spent) /\ Continue(<<RawEvent>>)
            \/ Return(<<>>) /\ state' = origin /\ total' = spent
<1>1. CASE AfterToken(index, spent) /\ Continue(<<RawEvent>>)
  BY <1>1, AfterTokenProperties DEF States
<1>2. CASE /\ state' = origin /\ total' = spent
           /\ buffer' = From(buffer, index) /\ Return(<<>>)
  <2>1. index \in 0..Len(buffer) /\ buffer \in Seq(Byte)
    BY TailAtProperties DEF TypeOK
  <2> QED
    BY <1>2, <2>1, FromProperties
<1> QED
  BY <1>1, <1>2 DEF RawBoundary

-----------------------------------------------------------------------------
(* Type correctness.                                                       *)

(* The parts of TypeOK that the handlers change.                           *)
ParserType ==
  /\ state \in States
  /\ buffer \in Seq(Byte)
  /\ headers \in Headers
  /\ total \in Nat
  /\ pending \in BOOLEAN

CallType ==
  /\ phase \in {"idle", "feeding", "raised"}
  /\ error \in Errors
  /\ events \in Seq(Event)
  /\ received \in Seq(Event)

(* OutcomeType for the batches the handlers return.                        *)
LEMMA BatchTypes ==
  ASSUME TypeOK
  PROVE  /\ <<>> \in Seq(Event)
         /\ <<RawEvent>> \in Seq(Event)
         /\ \A bytes \in Seq(Byte) :
              /\ Began \o DataOf(bytes) \in Seq(Event)
              /\ Began \o DataOf(bytes) \o <<EndEvent>> \in Seq(Event)
<1>1. <<>> \in Seq(Event) /\ <<RawEvent>> \in Seq(Event) /\ <<EndEvent>> \in Seq(Event)
  BY EventTypes
<1>2. ASSUME NEW bytes \in Seq(Byte)
      PROVE  Began \o DataOf(bytes) \in Seq(Event)
  BY BeganType, DataOfType, ConcatProperties
<1>3. ASSUME NEW bytes \in Seq(Byte)
      PROVE  Began \o DataOf(bytes) \o <<EndEvent>> \in Seq(Event)
  BY <1>1, <1>2, ConcatProperties
<1> QED
  BY <1>1, <1>2, <1>3

(* Every outcome of handle_preamble keeps the types.                       *)
LEMMA PreambleType ==
  ASSUME TypeOK, PreambleToken \/ PreambleIncomplete \/ PreambleScan
  PROVE  ParserType' /\ CallType'
<1> USE BatchTypes
<1>1. CASE PreambleToken
  <2>1. PICK index \in Find(buffer, Token) : AfterToken(index, total)
    BY <1>1 DEF PreambleToken
  <2>2. state' \in States /\ total' \in Nat /\ buffer' \in Seq(Byte)
    BY <2>1, AfterTokenProperties DEF TypeOK, States
  <2> QED
    BY <1>1, <2>2, OutcomeType DEF PreambleToken, TypeOK, ParserType, CallType
<1>2. CASE PreambleIncomplete
  <2>1. PICK index \in Find(buffer, Token) :
          \/ Raise("HeaderLimit") /\ UNCHANGED buffer
          \/ buffer' = From(buffer, index) /\ Return(<<>>)
    BY <1>2 DEF PreambleIncomplete
  <2>2. buffer' \in Seq(Byte)
    <3>1. buffer \in Seq(Byte) /\ index \in 0..Len(buffer)
      BY TailAtProperties DEF TypeOK
    <3>2. From(buffer, index) \in Seq(Byte)
      BY <3>1, FromProperties
    <3> QED
      BY <2>1, <3>1, <3>2
  <2>3. CallType'
    BY <2>1, OutcomeType DEF CallType, Errors
  <2> QED
    BY <1>2, <2>2, <2>3 DEF PreambleIncomplete, TypeOK, ParserType
<1>3. CASE PreambleScan
  <2>1. CallType'
    BY <1>3, OutcomeType DEF PreambleScan, CallType
  <2>2. buffer' \in Seq(Byte)
    <3>1. Len(buffer) > Len(Token) + 1
            => Len(buffer) - (Len(Token) + 1) \in 0..Len(buffer)
      BY TokenProperties, LenProperties DEF TypeOK
    <3> QED
      BY <1>3, <3>1, FromProperties DEF PreambleScan, TypeOK
  <2> QED
    BY <1>3, <2>1, <2>2 DEF PreambleScan, TypeOK, ParserType
<1> QED
  BY <1>1, <1>2, <1>3

(* Every outcome of handle_header keeps the types.                         *)
LEMMA HeaderType ==
  ASSUME TypeOK, HeaderBoundary \/ HeaderEnd \/ HeaderLine \/ HeaderPartial
  PROVE  ParserType' /\ CallType'
<1> USE BatchTypes
<1>1. CASE HeaderBoundary
  <2>1. PICK index \in Find(buffer, Token) :
          \/ Raise("HeaderLimit") /\ UNCHANGED <<state, buffer, headers, total>>
          \/ headers' = <<>> /\ RawBoundary(index, "Header", 0)
    BY <1>1 DEF HeaderBoundary
  <2>2. CASE Raise("HeaderLimit") /\ UNCHANGED <<state, buffer, headers, total>>
    BY <1>1, <2>2, OutcomeType DEF HeaderBoundary, TypeOK, ParserType, CallType, Errors
  <2>3. CASE headers' = <<>> /\ RawBoundary(index, "Header", 0)
    <3>1. "Header" \in States
      BY DEF States
    <3>2. /\ state' \in States /\ total' \in Nat /\ buffer' \in Seq(Byte)
          /\ Continue(<<RawEvent>>) \/ Return(<<>>)
      BY <2>3, <3>1, RawBoundaryProperties
    <3>3. CallType'
      BY <3>2, OutcomeType DEF CallType
    <3> QED
      BY <1>1, <2>3, <3>2, <3>3 DEF HeaderBoundary, TypeOK, ParserType, Headers
  <2> QED
    BY <2>1, <2>2, <2>3
<1>2. CASE HeaderEnd
  <2>1. CallType'
    BY <1>2, OutcomeType DEF HeaderEnd, CallType, Errors
  <2>2. From(buffer, Len(CRLF)) \in Seq(Byte)
    <3>1. 0 \in Find(buffer, CRLF) /\ 0 + Len(CRLF) = Len(CRLF)
      BY <1>2, TokenProperties DEF HeaderEnd
    <3> QED
      BY <3>1, LineEndProperties
  <2> QED
    BY <1>2, <2>1, <2>2 DEF HeaderEnd, TypeOK, ParserType, States
<1>3. CASE HeaderLine
  <2>1. PICK index \in Find(buffer, CRLF) :
          \/ Raise("HeaderLimit") /\ UNCHANGED <<buffer, headers, total>>
          \/ /\ \/ UNCHANGED headers
                \/ \E separator \in Find(Upto(buffer, index), <<COLON>>) :
                     headers' = Append(headers, Field(Upto(buffer, index), separator))
             /\ total' = total + index + Len(CRLF)
             /\ buffer' = From(buffer, index + Len(CRLF))
             /\ Continue(<<>>)
    BY <1>3 DEF HeaderLine
  <2>2. CallType'
    BY <2>1, OutcomeType DEF CallType, Errors
  <2>3. /\ index \in Nat
        /\ Upto(buffer, index) \in Seq(Byte)
        /\ From(buffer, index + Len(CRLF)) \in Seq(Byte)
    BY LineEndProperties
  <2>4. buffer' \in Seq(Byte) /\ total' \in Nat
    <3>1. buffer \in Seq(Byte) /\ total \in Nat /\ Len(CRLF) = 2
      BY TokenProperties DEF TypeOK
    <3> QED
      BY <2>1, <2>3, <3>1, SMTT(30)
  <2>5. headers' \in Headers
    <3>1. \A separator \in Find(Upto(buffer, index), <<COLON>>) :
            Append(headers, Field(Upto(buffer, index), separator)) \in Headers
      BY <2>3, FieldProperties, AppendProperties DEF TypeOK, Headers
    <3> QED
      BY <2>1, <3>1 DEF TypeOK
  <2> QED
    BY <1>3, <2>2, <2>4, <2>5 DEF HeaderLine, TypeOK, ParserType
<1>4. CASE HeaderPartial
  <2>1. Raise("HeaderLimit") \/ Return(<<>>)
    BY <1>4 DEF HeaderPartial
  <2>2. CallType'
    BY <2>1, OutcomeType DEF CallType, Errors
  <2> QED
    BY <1>4, <2>2 DEF HeaderPartial, TypeOK, ParserType, parserVars
<1> QED
  BY <1>1, <1>2, <1>3, <1>4

(* Every outcome of handle_body keeps the types.                           *)
LEMMA BodyType ==
  ASSUME TypeOK,
         BodyAwaitsToken \/ BodyIsRaw \/ BodyToken \/ BodyIncomplete \/ BodyScan
  PROVE  ParserType' /\ CallType'
<1> USE BatchTypes
<1>1. buffer \in Seq(Byte) /\ Len(buffer) \in Nat /\ <<>> \in Headers
  BY LenProperties DEF TypeOK, Headers
<1>2. BodyBegun => headers' \in Headers /\ pending' \in BOOLEAN
  BY <1>1 DEF BodyBegun, TypeOK
<1>3. Spent \in Nat
  BY BeganType
<1>4. CASE BodyAwaitsToken
  BY <1>4, OutcomeType DEF BodyAwaitsToken, parserVars, TypeOK, ParserType, CallType
<1>5. CASE BodyIsRaw
  <2>1. 0 \in Find(buffer, Token)
    BY <1>1, <1>5, PrefixIsFound DEF BodyIsRaw
  <2>2. /\ state' \in States /\ total' \in Nat /\ buffer' \in Seq(Byte)
        /\ Continue(<<RawEvent>>) \/ Return(<<>>)
    BY <1>5, <2>1, RawBoundaryProperties DEF BodyIsRaw, States
  <2>3. CallType'
    BY <2>2, OutcomeType DEF CallType
  <2> QED
    BY <1>1, <1>5, <2>2, <2>3 DEF BodyIsRaw, ParserType
<1>6. CASE BodyToken
  <2>1. PICK index \in Find(buffer, Token) :
          /\ AfterToken(index, Spent)
          /\ Continue(Began \o DataOf(Upto(buffer, BodyDataEnd(buffer, index))) \o <<EndEvent>>)
    BY <1>6 DEF BodyToken
  <2>2. Upto(buffer, BodyDataEnd(buffer, index)) \in Seq(Byte)
    BY BodyDataProperties
  <2>3. CallType'
    BY <2>1, <2>2, OutcomeType DEF CallType
  <2>4. state' \in States /\ total' \in Nat /\ buffer' \in Seq(Byte)
    BY <1>3, <2>1, AfterTokenProperties DEF States
  <2> QED
    BY <1>2, <1>6, <2>3, <2>4 DEF BodyToken, ParserType
<1>7. CASE BodyIncomplete
  <2>1. PICK index \in Find(buffer, Token) :
          \/ Raise("HeaderLimit") /\ UNCHANGED buffer
          \/ /\ buffer' = From(buffer, BodyDataEnd(buffer, index))
             /\ Return(Began \o DataOf(Upto(buffer, BodyDataEnd(buffer, index))))
    BY <1>7 DEF BodyIncomplete
  <2>2. /\ Upto(buffer, BodyDataEnd(buffer, index)) \in Seq(Byte)
        /\ From(buffer, BodyDataEnd(buffer, index)) \in Seq(Byte)
    BY BodyDataProperties
  <2>3. CallType'
    BY <2>1, <2>2, OutcomeType DEF CallType, Errors
  <2> QED
    BY <1>1, <1>2, <1>3, <1>7, <2>1, <2>2, <2>3 DEF BodyIncomplete, TypeOK, ParserType
<1>8. CASE BodyScan
  <2>1. PICK emitted \in 0..Len(buffer) :
          /\ buffer' = From(buffer, emitted)
          /\ Return(Began \o DataOf(Upto(buffer, emitted)))
    BY <1>1, <1>8, TokenProperties DEF BodyScan
  <2>2. Upto(buffer, emitted) \in Seq(Byte) /\ From(buffer, emitted) \in Seq(Byte)
    BY <1>1, UptoProperties, FromProperties
  <2>3. CallType'
    BY <2>1, <2>2, OutcomeType DEF CallType
  <2> QED
    BY <1>2, <1>3, <1>8, <2>1, <2>2, <2>3 DEF BodyScan, TypeOK, ParserType
<1> QED
  BY <1>4, <1>5, <1>6, <1>7, <1>8

(* Every outcome of handle_raw_segment keeps the types.                    *)
LEMMA RawType ==
  ASSUME TypeOK, RawHeaders \/ RawToken \/ RawPartial
  PROVE  ParserType' /\ CallType'
<1> USE BatchTypes
<1>1. CASE RawHeaders
  <2>1. CallType'
    BY <1>1, OutcomeType DEF RawHeaders, CallType
  <2>2. <<>> \in Headers
    BY DEF Headers
  <2> QED
    BY <1>1, <2>1, <2>2 DEF RawHeaders, TypeOK, ParserType, States
<1>2. CASE RawToken
  <2>1. PICK index \in Find(buffer, Token) : RawBoundary(index, state, total)
    BY <1>2 DEF RawToken
  <2>2. /\ state' \in States /\ total' \in Nat /\ buffer' \in Seq(Byte)
        /\ Continue(<<RawEvent>>) \/ Return(<<>>)
    BY <2>1, RawBoundaryProperties DEF TypeOK
  <2>3. CallType'
    BY <2>2, OutcomeType DEF CallType
  <2> QED
    BY <1>2, <2>2, <2>3 DEF RawToken, TypeOK, ParserType
<1>3. CASE RawPartial
  <2>1. Raise("HeaderLimit") \/ Return(<<>>)
    BY <1>3 DEF RawPartial
  <2>2. CallType'
    BY <2>1, OutcomeType DEF CallType, Errors
  <2> QED
    BY <1>3, <2>2 DEF RawPartial, parserVars, TypeOK, ParserType
<1> QED
  BY <1>1, <1>2, <1>3

(* A call of feed with a chunk keeps the types: the buffer grows by the    *)
(* chunk.                                                                  *)
LEMMA FeedType ==
  ASSUME TypeOK, NEW chunk \in Seq(Byte), Feed(chunk)
  PROVE  TypeOK'
<1>1. chunk \in Seq(Byte) /\ Len(chunk) \in Nat
  BY LenProperties
<1>2. buffer \o chunk \in Seq(Byte) /\ size + Len(chunk) \in Nat
  BY <1>1, ConcatProperties DEF TypeOK
<1>3. size' \in Nat /\ buffer' \in Seq(Byte)
  BY <1>2 DEF Feed, TypeOK
<1>4. CallType'
  <2>1. <<>> \in Seq(Event)
    OBVIOUS
  <2> QED
    BY <2>1 DEF Feed, Raise, CallType, TypeOK, Errors
<1> QED
  BY <1>3, <1>4 DEF Feed, TypeOK, CallType

(* A call of feed at the end of the input keeps the types, whatever state  *)
(* it finds.                                                               *)
LEMMA FeedEofType ==
  ASSUME TypeOK, FeedEof
  PROVE  TypeOK'
<1> USE BatchTypes
<1>1. /\ buffer \in Seq(Byte) /\ <<>> \in Seq(Byte) /\ <<>> \in Headers
      /\ Spent \in Nat /\ Began \in Seq(Event)
  BY BeganType DEF TypeOK, Headers
<1>2. \/ Raise("HeaderLimit") /\ UNCHANGED <<state, buffer>>
      \/ \E new \in Seq(Event) : /\ Return(new) /\ buffer' = <<>>
                               /\ state' \in States
  <2>1. \A index \in Find(buffer, Token) :
          Upto(buffer, BodyDataEnd(buffer, index)) \in Seq(Byte)
    BY BodyDataProperties
  <2> QED
    BY <1>1, <2>1 DEF FeedEof, TypeOK, States
<1>3. CallType'
  BY <1>2, OutcomeType DEF CallType, Errors
<1>4. state' \in States /\ buffer' \in Seq(Byte)
  BY <1>1, <1>2 DEF TypeOK
<1>5. headers' \in Headers /\ total' \in Nat
  BY <1>1 DEF FeedEof, TypeOK
<1> QED
  BY <1>3, <1>4, <1>5 DEF FeedEof, TypeOK, CallType

(* A new parser is type correct.                                           *)
LEMMA InitType ==
  ASSUME Init
  PROVE  TypeOK
<1>1. <<>> \in Seq(Byte) /\ <<>> \in Headers /\ <<>> \in Seq(Event)
  BY DEF Headers
<1>2. 0 \in Nat
  OBVIOUS
<1> QED
  BY <1>1, <1>2, Zenon DEF Init, TypeOK, States, Errors

(* Every step, and stuttering, keeps the types.                            *)
LEMMA NextType ==
  ASSUME TypeOK, [Next]_vars
  PROVE  TypeOK'
<1>1. ASSUME NEW chunk \in Chunks, Feed(chunk) PROVE TypeOK'
  BY <1>1, ChunksAssumption, FeedType
<1>2. CASE Loop
  <2>1. ParserType' /\ CallType'
    BY <1>2, PreambleType, HeaderType, BodyType, RawType DEF Loop
  <2> QED
    BY <1>2, <2>1 DEF Loop, TypeOK, ParserType, CallType
<1>3. CASE FeedEof
  BY <1>3, FeedEofType
<1>4. CASE UNCHANGED vars
  BY <1>4 DEF vars, TypeOK
<1> QED
  BY <1>1, <1>2, <1>3, <1>4 DEF Next, Dropped

(* Every variable keeps its type: no handler slices the buffer outside its *)
(* bounds, and no counter goes below zero.                                 *)
THEOREM TypeCorrect == Spec => []TypeOK
BY InitType, NextType, PTL DEF Spec

-----------------------------------------------------------------------------
(***************************************************************************)
(* The parser implements EventStream: whatever is fed and however it is    *)
(* cut, the caller holds a well-formed stream that only grows.             *)
(*                                                                         *)
(* The inductive invariant says of the history, which is what the caller   *)
(* has and then what the running call has collected, that it is well       *)
(* formed, and that it ends inside a part exactly when the parser is in a  *)
(* body whose Begin has been sent.  A pending Begin exists only in a body. *)
(***************************************************************************)

History == received \o events

Inside(event) == event.kind \in {"Begin", "Data"}

Good(s) == \A i \in 1..Len(s) :
             (s[i].kind \in {"Data", "End"}) <=> (i > 1 /\ Inside(s[i - 1]))

EndsInside(s) == s # <<>> /\ Inside(s[Len(s)])

InBody == state = "Body" /\ ~pending

BatchIsHandedOver == phase # "feeding" => events = <<>>
PendingOnlyInBody == pending => state = "Body"

ProtocolInv ==
  /\ TypeOK
  /\ PendingOnlyInBody
  /\ BatchIsHandedOver
  /\ Good(History)
  /\ phase # "raised" => (EndsInside(History) <=> InBody)

-----------------------------------------------------------------------------
(* Sequences of events.                                                    *)

(* Mapping events to their kinds keeps the length and the positions: the   *)
(* abstract stream is the parser's list of events without their payloads   *)
(* (MultipartEvent, multipart.rs).                                         *)
LEMMA KindsAgree ==
  ASSUME NEW s \in Seq(Event)
  PROVE  /\ KindsOf(s) \in Seq(Stream!Kinds)
         /\ Len(KindsOf(s)) = Len(s)
         /\ \A i \in 1..Len(s) : KindsOf(s)[i] = s[i].kind
         /\ Stream!WellFormed(KindsOf(s)) <=> Good(s)
         /\ Stream!InPart(KindsOf(s)) <=> EndsInside(s)
<1>1. Len(s) \in Nat /\ DOMAIN s = 1..Len(s) /\ \A i \in 1..Len(s) : s[i] \in Event
  BY LenProperties
<1>2. \A i \in 1..Len(s) : s[i].kind \in Stream!Kinds
  BY <1>1 DEF Event, Stream!Kinds
<1>3. KindsOf(s) = [i \in 1..Len(s) |-> s[i].kind]
  BY <1>1 DEF KindsOf
<1>4. KindsOf(s) \in Seq(Stream!Kinds)
  BY <1>1, <1>2, <1>3
<1>5. Len(KindsOf(s)) = Len(s)
  BY <1>1, <1>3, <1>4
<1>6. \A i \in 1..Len(s) : KindsOf(s)[i] = s[i].kind
  BY <1>3
<1>7. Stream!WellFormed(KindsOf(s)) <=> Good(s)
  <2>1. \A i \in 1..Len(s) : i > 1 => i - 1 \in 1..Len(s)
    BY <1>1
  <2> QED
    BY <1>5, <1>6, <2>1, ZenonT(60)
       DEF Stream!WellFormed, Stream!Allowed, Stream!Opens, Good, Inside
<1>8. Stream!InPart(KindsOf(s)) <=> EndsInside(s)
  <2>1. s # <<>> <=> Len(s) > 0
    BY <1>1
  <2>2. KindsOf(s) # <<>> <=> Len(s) > 0
    BY <1>1, <1>4, <1>5
  <2>3. Len(s) > 0 => Len(s) \in 1..Len(s)
    BY <1>1
  <2> QED
    BY <1>5, <1>6, <2>1, <2>2, <2>3 DEF Stream!InPart, Stream!Opens, EndsInside, Inside
<1> QED
  BY <1>4, <1>5, <1>6, <1>7, <1>8

(* One more event, of a kind that the end of the sequence allows.          *)
LEMMA Push ==
  ASSUME NEW s \in Seq(Event), NEW e \in Event, Good(s),
         (e.kind \in {"Data", "End"}) <=> EndsInside(s)
  PROVE  /\ s \o <<e>> \in Seq(Event)
         /\ Good(s \o <<e>>)
         /\ EndsInside(s \o <<e>>) <=> Inside(e)
<1>1. <<e>> \in Seq(Event) /\ Len(<<e>>) = 1 /\ <<e>>[1] = e
  OBVIOUS
<1>2. /\ s \o <<e>> \in Seq(Event)
      /\ Len(s \o <<e>>) = Len(s) + 1
      /\ \A i \in 1..(Len(s) + 1) :
           (s \o <<e>>)[i] = IF i <= Len(s) THEN s[i] ELSE <<e>>[i - Len(s)]
  BY <1>1, ConcatProperties
<1>3. Len(s) \in Nat
  BY LenProperties
<1>4. /\ \A i \in 1..Len(s) : (s \o <<e>>)[i] = s[i]
      /\ (s \o <<e>>)[Len(s) + 1] = e
  BY <1>1, <1>2, <1>3
<1>5. s # <<>> <=> Len(s) + 1 > 1
  BY <1>3
<1>6. ASSUME NEW i \in 1..(Len(s) + 1)
      PROVE  ((s \o <<e>>)[i].kind \in {"Data", "End"})
               <=> (i > 1 /\ Inside((s \o <<e>>)[i - 1]))
  <2>1. CASE i \in 1..Len(s)
    <3>1. i > 1 => i - 1 \in 1..Len(s)
      BY <1>3, <2>1
    <3> QED
      BY <1>4, <2>1, <3>1 DEF Good
  <2>2. CASE i = Len(s) + 1
    <3>1. i > 1 => i - 1 = Len(s) /\ i - 1 \in 1..Len(s)
      BY <1>3, <2>2
    <3> QED
      BY <1>4, <1>5, <2>2, <3>1 DEF EndsInside
  <2> QED
    BY <1>3, <2>1, <2>2
<1>7. Good(s \o <<e>>)
  BY <1>2, <1>6 DEF Good
<1>8. s \o <<e>> # <<>>
  BY <1>2, <1>3
<1> QED
  BY <1>2, <1>4, <1>7, <1>8 DEF EndsInside

(* What the caller has is good if the history is.                          *)
LEMMA GoodPrefix ==
  ASSUME NEW s \in Seq(Event), NEW t \in Seq(Event), Good(s \o t)
  PROVE  Good(s)
<1>1. /\ Len(s \o t) = Len(s) + Len(t)
      /\ \A i \in 1..(Len(s) + Len(t)) :
           (s \o t)[i] = IF i <= Len(s) THEN s[i] ELSE t[i - Len(s)]
  BY ConcatProperties
<1>2. Len(s) \in Nat /\ Len(t) \in Nat
  BY LenProperties
<1>3. \A i \in 1..Len(s) : i \in 1..Len(s \o t) /\ (s \o t)[i] = s[i]
  BY <1>1, <1>2
<1>4. \A i \in 1..Len(s) : i > 1 => i - 1 \in 1..Len(s)
  BY <1>2
<1> QED
  BY <1>3, <1>4 DEF Good

-----------------------------------------------------------------------------
(* The batches that handlers push, seen from the end of the history.       *)

(* History is a sequence of events, and a step of the loop that goes round *)
(* or returns appends exactly the batch it produced.                      *)
LEMMA HistoryType ==
  ASSUME TypeOK
  PROVE  /\ History \in Seq(Event)
         /\ \A new \in Seq(Event) : Continue(new) \/ Return(new) => History' = History \o new
<1>1. events \in Seq(Event) /\ received \in Seq(Event)
  BY DEF TypeOK
<1>2. ASSUME NEW new \in Seq(Event), Continue(new) PROVE History' = History \o new
  BY <1>1, <1>2, ConcatAssociative DEF Continue, History
<1>3. ASSUME NEW new \in Seq(Event), Return(new) PROVE History' = History \o new
  <2>1. (received \o events) \o new = received \o (events \o new)
    BY <1>1, ConcatAssociative
  <2>2. received' \in Seq(Event) /\ events' = <<>> /\ received' = received \o (events \o new)
    BY <1>1, <1>3, ConcatProperties DEF Return
  <2>3. received' \o events' = received'
    BY <2>2, ConcatEmptySeq
  <2> QED
    BY <2>1, <2>2, <2>3 DEF History
<1> QED
  BY <1>1, <1>2, <1>3, ConcatProperties DEF History

(* Begin, if it was held back, and the data: the history ends in the part. *)
LEMMA DataBatch ==
  ASSUME ProtocolInv, phase # "raised", state = "Body", NEW bytes \in Seq(Byte)
  PROVE  /\ History \o (Began \o DataOf(bytes)) \in Seq(Event)
         /\ Good(History \o (Began \o DataOf(bytes)))
         /\ EndsInside(History \o (Began \o DataOf(bytes)))
<1>1. TypeOK /\ History \in Seq(Event) /\ Good(History) /\ headers \in Headers
  BY HistoryType DEF ProtocolInv, TypeOK
<1>2. EndsInside(History) <=> ~pending
  BY DEF ProtocolInv, InBody
<1>3. BeginEvent(headers) \in Event /\ BeginEvent(headers).kind = "Begin"
  BY <1>1, EventTypes DEF BeginEvent
<1>4. DataEvent(bytes) \in Event /\ DataEvent(bytes).kind = "Data"
  BY EventTypes DEF DataEvent
<1>5. Began \in Seq(Event) /\ DataOf(bytes) \in Seq(Event)
  BY <1>1, BeganType, DataOfType
<1>6. /\ History \o Began \in Seq(Event)
      /\ Good(History \o Began)
      /\ EndsInside(History \o Began)
  <2>1. CASE pending
    BY <1>1, <1>2, <1>3, <2>1, Push DEF Began, Inside
  <2>2. CASE ~pending
    <3>1. History \o <<>> = History
      BY <1>1, ConcatEmptySeq
    <3> QED
      BY <1>1, <1>2, <2>2, <3>1 DEF Began
  <2> QED
    BY <2>1, <2>2
<1>7. /\ (History \o Began) \o DataOf(bytes) \in Seq(Event)
      /\ Good((History \o Began) \o DataOf(bytes))
      /\ EndsInside((History \o Began) \o DataOf(bytes))
  <2>1. CASE bytes = <<>>
    <3>1. (History \o Began) \o <<>> = History \o Began
      BY <1>6, ConcatEmptySeq
    <3> QED
      BY <1>6, <2>1, <3>1 DEF DataOf
  <2>2. CASE bytes # <<>>
    BY <1>4, <1>6, <2>2, Push DEF DataOf, Inside
  <2> QED
    BY <2>1, <2>2
<1>8. (History \o Began) \o DataOf(bytes) = History \o (Began \o DataOf(bytes))
  BY <1>1, <1>5, ConcatAssociative, SMTT(30)
<1> QED
  BY <1>7, <1>8

(* The same and End: the history ends outside a part.                      *)
LEMMA EndBatch ==
  ASSUME ProtocolInv, phase # "raised", state = "Body", NEW bytes \in Seq(Byte)
  PROVE  /\ Good(History \o (Began \o DataOf(bytes) \o <<EndEvent>>))
         /\ ~EndsInside(History \o (Began \o DataOf(bytes) \o <<EndEvent>>))
<1>1. /\ TypeOK /\ History \in Seq(Event)
      /\ Began \o DataOf(bytes) \in Seq(Event)
  BY HistoryType, BeganType, DataOfType, ConcatProperties DEF ProtocolInv
<1>2. EndEvent \in Event /\ EndEvent.kind = "End" /\ <<EndEvent>> \in Seq(Event)
  BY EventTypes DEF EndEvent
<1>3. /\ Good((History \o (Began \o DataOf(bytes))) \o <<EndEvent>>)
      /\ ~EndsInside((History \o (Began \o DataOf(bytes))) \o <<EndEvent>>)
  BY <1>2, DataBatch, Push DEF Inside
<1>4. (History \o (Began \o DataOf(bytes))) \o <<EndEvent>>
        = History \o ((Began \o DataOf(bytes)) \o <<EndEvent>>)
  BY <1>1, <1>2, ConcatAssociative, SMTT(60)
<1> QED
  BY <1>3, <1>4

(* Nothing, and a raw segment.                                             *)
LEMMA OtherBatches ==
  ASSUME ProtocolInv
  PROVE  /\ History \o <<>> = History
         /\ ~EndsInside(History)
              => Good(History \o <<RawEvent>>) /\ ~EndsInside(History \o <<RawEvent>>)
<1>1. History \in Seq(Event) /\ Good(History)
  BY HistoryType DEF ProtocolInv
<1>2. RawEvent \in Event /\ RawEvent.kind = "Raw"
  BY EventTypes DEF RawEvent
<1> QED
  BY <1>1, <1>2, ConcatEmptySeq, Push DEF Inside

-----------------------------------------------------------------------------
(* What the step has to keep, once TypeOK is known.                        *)
Kept ==
  /\ BatchIsHandedOver
  /\ Good(History)
  /\ phase # "raised" => (EndsInside(History) <=> InBody)

(* A step that hands out a batch the event history accepts, and leaves the *)
(* parser in a body exactly when that history ends inside a part, keeps    *)
(* the invariant's history conjuncts.                                      *)
LEMMA BatchKeeps ==
  ASSUME ProtocolInv, NEW new \in Seq(Event),
         (Continue(new) /\ phase = "feeding") \/ Return(new),
         Good(History \o new),
         EndsInside(History \o new) <=> InBody'
  PROVE  Kept'
<1>1. History' = History \o new
  BY HistoryType DEF ProtocolInv
<1>2. BatchIsHandedOver'
  BY DEF BatchIsHandedOver, Continue, Return
<1> QED
  BY <1>1, <1>2 DEF Kept

(* An Err drops the batch of its call: the history falls back to what the  *)
(* caller already has.                                                     *)
LEMMA RaiseKeeps ==
  ASSUME ProtocolInv, NEW reason, Raise(reason)
  PROVE  Kept'
<1>1. events \in Seq(Event) /\ received \in Seq(Event)
  BY DEF ProtocolInv, TypeOK
<1>2. Good(received)
  BY <1>1, GoodPrefix DEF ProtocolInv, History
<1>3. received \o <<>> = received
  BY <1>1, ConcatEmptySeq
<1> QED
  BY <1>2, <1>3 DEF Raise, Kept, History, BatchIsHandedOver

(* A step that hands out nothing and does not enter or leave a body keeps  *)
(* the history conjuncts (the early returns of handle_preamble,            *)
(* handle_header, handle_body).                                            *)
LEMMA QuietKeeps ==
  ASSUME ProtocolInv, phase # "raised",
         (Continue(<<>>) /\ phase = "feeding") \/ Return(<<>>),
         InBody' <=> InBody
  PROVE  Kept'
<1>1. <<>> \in Seq(Event)
  OBVIOUS
<1>2. Good(History \o <<>>) /\ (EndsInside(History \o <<>>) <=> InBody')
  BY OtherBatches DEF ProtocolInv
<1> QED
  BY <1>1, <1>2, BatchKeeps

(* A step that hands out one Raw event outside a body keeps the history    *)
(* conjuncts (the Raw pushed for an oversized preamble or segment).        *)
LEMMA RawKeeps ==
  ASSUME ProtocolInv, phase = "feeding", Continue(<<RawEvent>>), ~InBody, ~InBody'
  PROVE  Kept'
<1>1. <<RawEvent>> \in Seq(Event)
  BY EventTypes
<1>2. Good(History \o <<RawEvent>>) /\ ~EndsInside(History \o <<RawEvent>>)
  BY OtherBatches DEF ProtocolInv
<1> QED
  BY <1>1, <1>2, BatchKeeps

(* The shared arms leave the body; a raw boundary is met outside of one.   *)
LEMMA RawBoundaryKeeps ==
  ASSUME ProtocolInv, phase = "feeding", NEW index \in Find(buffer, Token),
         NEW origin \in States \ {"Body"}, NEW spent \in Nat,
         RawBoundary(index, origin, spent), ~InBody, ~pending'
  PROVE  Kept' /\ PendingOnlyInBody'
<1>1. /\ state' # "Body"
      /\ Continue(<<RawEvent>>) \/ Return(<<>>)
  BY AfterTokenProperties, RawBoundaryProperties DEF ProtocolInv
<1>2. ~InBody'
  BY <1>1 DEF InBody
<1> QED
  BY <1>1, <1>2, RawKeeps, QuietKeeps DEF PendingOnlyInBody

(* Every outcome of handle_preamble keeps the invariant.                   *)
LEMMA PreambleKeeps ==
  ASSUME ProtocolInv, phase = "feeding",
         PreambleToken \/ PreambleIncomplete \/ PreambleScan
  PROVE  Kept' /\ PendingOnlyInBody'
<1>1. state = "Preamble" /\ ~pending /\ pending' = pending
  BY DEF PreambleToken, PreambleIncomplete, PreambleScan, ProtocolInv, PendingOnlyInBody
<1>2. state' # "Body"
  <2>1. ASSUME NEW index \in Find(buffer, Token), AfterToken(index, total)
        PROVE  state' # "Body"
    BY <2>1, AfterTokenProperties DEF ProtocolInv, TypeOK
  <2> QED
    BY <1>1, <2>1 DEF PreambleToken, PreambleIncomplete, PreambleScan
<1>3. \/ Raise("HeaderLimit")
      \/ Continue(<<>>) \/ Return(<<>>)
  BY DEF PreambleToken, PreambleIncomplete, PreambleScan
<1>4. InBody' <=> InBody
  BY <1>1, <1>2 DEF InBody
<1> QED
  BY <1>1, <1>3, <1>4, RaiseKeeps, QuietKeeps DEF PendingOnlyInBody

(* Every outcome of handle_header keeps the invariant: no event is sent    *)
(* for a part whose headers are still arriving.                            *)
LEMMA HeaderKeeps ==
  ASSUME ProtocolInv, phase = "feeding",
         HeaderBoundary \/ HeaderEnd \/ HeaderLine \/ HeaderPartial
  PROVE  Kept' /\ PendingOnlyInBody'
<1>1. state = "Header" /\ ~pending /\ ~InBody
  BY DEF HeaderBoundary, HeaderEnd, HeaderLine, HeaderPartial,
         ProtocolInv, PendingOnlyInBody, InBody
<1>2. CASE HeaderBoundary
  <2>1. PICK index \in Find(buffer, Token) :
          \/ Raise("HeaderLimit") /\ state' = state
          \/ RawBoundary(index, "Header", 0)
    BY <1>2 DEF HeaderBoundary
  <2>2. pending' = pending
    BY <1>2 DEF HeaderBoundary
  <2>3. "Header" \in States \ {"Body"} /\ 0 \in Nat
    BY DEF States
  <2> QED
    BY <1>1, <2>1, <2>2, <2>3, RaiseKeeps, RawBoundaryKeeps DEF PendingOnlyInBody
<1>3. CASE HeaderEnd
  <2>1. CASE Raise("HeaderLimit") /\ pending' = pending
    BY <1>1, <2>1, RaiseKeeps DEF PendingOnlyInBody
  <2>2. CASE Continue(<<>>) /\ state' = "Body" /\ pending'
    BY <1>1, <2>2, QuietKeeps DEF PendingOnlyInBody, InBody
  <2> QED
    BY <1>3, <2>1, <2>2 DEF HeaderEnd
<1>4. CASE HeaderLine \/ HeaderPartial
  <2>1. /\ state' = state /\ pending' = pending
        /\ Raise("HeaderLimit") \/ Continue(<<>>) \/ Return(<<>>)
    BY <1>4 DEF HeaderLine, HeaderPartial, parserVars
  <2> QED
    BY <1>1, <2>1, RaiseKeeps, QuietKeeps DEF PendingOnlyInBody, InBody
<1> QED
  BY <1>2, <1>3, <1>4

(* Every outcome of handle_body keeps the invariant: Begin goes first,     *)
(* Data only inside the part, and End only with the token that closes it.  *)
LEMMA BodyKeeps ==
  ASSUME ProtocolInv, phase = "feeding",
         BodyAwaitsToken \/ BodyIsRaw \/ BodyToken \/ BodyIncomplete \/ BodyScan
  PROVE  Kept' /\ PendingOnlyInBody'
<1>1. /\ TypeOK /\ buffer \in Seq(Byte) /\ Len(buffer) \in Nat /\ Spent \in Nat
      /\ state = "Body"
  BY BeganType, LenProperties DEF ProtocolInv, TypeOK, BodyAwaitsToken, BodyIsRaw,
     BodyToken, BodyIncomplete, BodyScan, BodyBegun
<1>2. CASE BodyAwaitsToken
  BY <1>2, QuietKeeps DEF BodyAwaitsToken, parserVars, InBody, PendingOnlyInBody
<1>3. CASE BodyIsRaw
  <2>1. 0 \in Find(buffer, Token) /\ "Discard" \in States \ {"Body"} /\ 0 \in Nat
    BY <1>1, <1>3, PrefixIsFound DEF BodyIsRaw, States
  <2>2. ~InBody /\ ~pending'
    BY <1>3 DEF BodyIsRaw, InBody
  <2> QED
    BY <1>3, <2>1, <2>2, RawBoundaryKeeps DEF BodyIsRaw
<1>4. CASE BodyToken
  <2>1. PICK index \in Find(buffer, Token) :
          /\ AfterToken(index, Spent)
          /\ Continue(Began \o DataOf(Upto(buffer, BodyDataEnd(buffer, index))) \o <<EndEvent>>)
    BY <1>4 DEF BodyToken
  <2>2. state' # "Body"
    BY <1>1, <2>1, AfterTokenProperties
  <2>3. Upto(buffer, BodyDataEnd(buffer, index)) \in Seq(Byte)
    BY <1>1, BodyDataProperties
  <2>4. Kept'
    BY <1>1, <2>1, <2>2, <2>3, BatchTypes, EndBatch, BatchKeeps DEF InBody
  <2> QED
    BY <1>4, <2>4 DEF BodyToken, BodyBegun, PendingOnlyInBody
<1>5. CASE BodyIncomplete
  <2>1. PICK index \in Find(buffer, Token) :
          \/ Raise("HeaderLimit")
          \/ Return(Began \o DataOf(Upto(buffer, BodyDataEnd(buffer, index))))
    BY <1>5 DEF BodyIncomplete
  <2>2. state' = "Body" /\ ~pending'
    BY <1>1, <1>5 DEF BodyIncomplete, BodyBegun
  <2>3. Upto(buffer, BodyDataEnd(buffer, index)) \in Seq(Byte)
    BY <1>1, BodyDataProperties
  <2> QED
    BY <1>1, <2>1, <2>2, <2>3, BatchTypes, DataBatch, BatchKeeps, RaiseKeeps
       DEF InBody, PendingOnlyInBody
<1>6. CASE BodyScan
  <2>1. PICK emitted \in 0..Len(buffer) : Return(Began \o DataOf(Upto(buffer, emitted)))
    BY <1>1, <1>6, TokenProperties DEF BodyScan
  <2>2. state' = "Body" /\ ~pending'
    BY <1>1, <1>6 DEF BodyScan, BodyBegun
  <2>3. Upto(buffer, emitted) \in Seq(Byte)
    BY <1>1, UptoProperties
  <2> QED
    BY <1>1, <2>1, <2>2, <2>3, BatchTypes, DataBatch, BatchKeeps
       DEF InBody, PendingOnlyInBody
<1> QED
  BY <1>2, <1>3, <1>4, <1>5, <1>6

(* Every outcome of handle_raw_segment keeps the invariant: a segment is   *)
(* announced by one Raw event and never opens a part.                      *)
LEMMA RawSegmentKeeps ==
  ASSUME ProtocolInv, phase = "feeding", RawHeaders \/ RawToken \/ RawPartial
  PROVE  Kept' /\ PendingOnlyInBody'
<1>1. /\ state \in States \ {"Body"} /\ ~pending /\ ~InBody /\ pending' = pending
      /\ total \in Nat
  BY DEF RawHeaders, RawToken, RawPartial, parserVars,
         ProtocolInv, TypeOK, PendingOnlyInBody, InBody, States
<1>2. CASE RawToken
  <2>1. PICK index \in Find(buffer, Token) : RawBoundary(index, state, total)
    BY <1>2 DEF RawToken
  <2> QED
    BY <1>1, <2>1, RawBoundaryKeeps
<1>3. CASE RawHeaders \/ RawPartial
  <2>1. /\ state' # "Body"
        /\ Raise("HeaderLimit") \/ Continue(<<>>) \/ Return(<<>>)
    BY <1>1, <1>3 DEF RawHeaders, RawPartial, parserVars
  <2>2. InBody' <=> InBody
    BY <1>1, <2>1 DEF InBody
  <2> QED
    BY <1>1, <2>1, <2>2, RaiseKeeps, QuietKeeps DEF PendingOnlyInBody
<1> QED
  BY <1>2, <1>3

(* A call of feed with a chunk, which only appends to the buffer, keeps    *)
(* the invariant.                                                          *)
LEMMA FeedKeeps ==
  ASSUME ProtocolInv, NEW chunk, Feed(chunk)
  PROVE  Kept' /\ PendingOnlyInBody'
<1>1. state' = state /\ pending' = pending /\ phase = "idle" /\ events = <<>>
  BY DEF Feed, ProtocolInv, BatchIsHandedOver
<1>2. CASE \E reason : Raise(reason)
  BY <1>1, <1>2, RaiseKeeps DEF PendingOnlyInBody, ProtocolInv
<1>3. CASE phase' = "feeding" /\ UNCHANGED <<error, events, received>>
  BY <1>1, <1>3 DEF Kept, BatchIsHandedOver, History, InBody, ProtocolInv, PendingOnlyInBody
<1> QED
  BY <1>2, <1>3 DEF Feed

(* A call of feed at the end of the input keeps the invariant, whatever    *)
(* state it finds (feed_eof_map_data, multipart.rs).                       *)
LEMMA FeedEofKeeps ==
  ASSUME ProtocolInv, FeedEof
  PROVE  Kept' /\ PendingOnlyInBody'
<1>1. /\ TypeOK /\ buffer \in Seq(Byte) /\ phase # "raised" /\ ~pending'
  BY DEF FeedEof, ProtocolInv, TypeOK
<1>2. CASE Raise("HeaderLimit")
  BY <1>1, <1>2, RaiseKeeps DEF PendingOnlyInBody
<1>3. CASE /\ state = "Body" /\ state' # "Body"
           /\ \E index \in Find(buffer, Token) :
                Return(Began \o DataOf(Upto(buffer, BodyDataEnd(buffer, index)))
                             \o <<EndEvent>>)
  <2>1. PICK index \in Find(buffer, Token) :
          Return(Began \o DataOf(Upto(buffer, BodyDataEnd(buffer, index))) \o <<EndEvent>>)
    BY <1>3
  <2>2. Upto(buffer, BodyDataEnd(buffer, index)) \in Seq(Byte)
    BY <1>1, BodyDataProperties
  <2> QED
    BY <1>1, <1>3, <2>1, <2>2, BatchTypes, EndBatch, BatchKeeps DEF InBody, PendingOnlyInBody
<1>4. CASE state = "Body" /\ state' = state /\ Return(Began \o DataOf(buffer))
  BY <1>1, <1>4, BatchTypes, DataBatch, BatchKeeps DEF InBody, PendingOnlyInBody
<1>5. CASE state # "Body" /\ state' = state /\ Return(Began)
  <2>1. ~pending /\ Began = <<>>
    BY <1>5 DEF ProtocolInv, PendingOnlyInBody, Began
  <2> QED
    BY <1>1, <1>5, <2>1, QuietKeeps DEF InBody, PendingOnlyInBody
<1> QED
  BY <1>2, <1>3, <1>4, <1>5 DEF FeedEof

-----------------------------------------------------------------------------
(* The inductive invariant, and what follows from it.                      *)

(* A new parser satisfies the inductive invariant.                         *)
LEMMA ProtocolInit == Init => ProtocolInv
<1> SUFFICES ASSUME Init PROVE ProtocolInv
  OBVIOUS
<1>1. TypeOK
  BY InitType
<1>2. <<>> \in Seq(Event) /\ Len(<<>>) = 0
  OBVIOUS
<1>3. History = <<>>
  BY <1>2, ConcatEmptySeq DEF History, Init
<1>4. Good(<<>>) /\ ~EndsInside(<<>>)
  BY <1>2 DEF Good, EndsInside
<1> QED
  BY <1>1, <1>3, <1>4
     DEF Init, ProtocolInv, PendingOnlyInBody, BatchIsHandedOver, InBody

(* Every step of the parser, and stuttering, keeps the inductive           *)
(* invariant.                                                              *)
LEMMA ProtocolStep == ProtocolInv /\ [Next]_vars => ProtocolInv'
<1> SUFFICES ASSUME ProtocolInv, [Next]_vars PROVE ProtocolInv'
  OBVIOUS
<1>1. TypeOK'
  BY NextType DEF ProtocolInv
<1>2. Kept' /\ PendingOnlyInBody'
  <2>1. ASSUME NEW chunk \in Chunks, Feed(chunk) PROVE Kept' /\ PendingOnlyInBody'
    BY <2>1, FeedKeeps
  <2>2. CASE Loop
    BY <2>2, PreambleKeeps, HeaderKeeps, BodyKeeps, RawSegmentKeeps DEF Loop
  <2>3. CASE FeedEof
    BY <2>3, FeedEofKeeps
  <2>4. CASE UNCHANGED vars
    BY <2>4 DEF vars, ProtocolInv, Kept, PendingOnlyInBody, BatchIsHandedOver,
                History, InBody
  <2> QED
    BY <2>1, <2>2, <2>3, <2>4 DEF Next, Dropped
<1> QED
  BY <1>1, <1>2 DEF Kept, ProtocolInv

(* A chunk need not be one of Chunks for that.                             *)
LEMMA ProtocolFeed ==
  ASSUME ProtocolInv, NEW chunk \in Seq(Byte), Feed(chunk)
  PROVE  ProtocolInv'
BY FeedType, FeedKeeps DEF Kept, ProtocolInv

(* The inductive invariant holds in every reachable state.                 *)
LEMMA ProtocolInvariant == Spec => []ProtocolInv
BY ProtocolInit, ProtocolStep, PTL DEF Spec

(* The parser is in a body whose Begin it has sent exactly when the event  *)
(* stream is inside a part (the tests of `state' and `pending_headers' in  *)
(* multipart.rs:149-191 and 373-438 are right about the stream).           *)
THEOREM OpenPartCorrect == Spec => []BodyMeansOpenPart
<1>1. ProtocolInv => BodyMeansOpenPart
  BY HistoryType, KindsAgree DEF ProtocolInv, BodyMeansOpenPart, OpenPart, History, InBody
<1> QED
  BY <1>1, ProtocolInvariant, PTL

(* feed is entered only before the end of input.                           *)
FeedingIsBeforeEof == phase = "feeding" => ~eof

(* The loop of feed runs only before the end of the input was fed.         *)
LEMMA FeedingInvariant == Spec => []FeedingIsBeforeEof
<1>1. Init => FeedingIsBeforeEof
  BY DEF Init, FeedingIsBeforeEof
<1>2. FeedingIsBeforeEof /\ [Next]_vars => FeedingIsBeforeEof'
  <2> SUFFICES ASSUME FeedingIsBeforeEof, [Next]_vars PROVE FeedingIsBeforeEof'
    OBVIOUS
  <2>1. ASSUME NEW chunk \in Chunks, Feed(chunk) PROVE FeedingIsBeforeEof'
    BY <2>1 DEF Feed, Raise, FeedingIsBeforeEof
  <2>2. CASE Loop
    BY <2>2 DEF Loop, FeedingIsBeforeEof
  <2>3. CASE FeedEof
    BY <2>3 DEF FeedEof, Raise, Return, FeedingIsBeforeEof
  <2>4. CASE UNCHANGED vars
    BY <2>4 DEF vars, FeedingIsBeforeEof
  <2> QED
    BY <2>1, <2>2, <2>3, <2>4 DEF Next, Dropped
<1> QED
  BY <1>1, <1>2, PTL DEF Spec

(* How one pass of the loop ends.                                          *)
Outcomes ==
  \/ \E new \in Seq(Event) : Continue(new)
  \/ \E new \in Seq(Event) : Return(new)
  \/ Raise("HeaderLimit")

(* A pass of the loop ends in one of three ways: it goes round, the call   *)
(* returns, or it raises; in each the fields the event stream sees change  *)
(* as that outcome says.                                                   *)
LEMMA LoopOutcome ==
  ASSUME TypeOK, Loop
  PROVE  Outcomes
<1> USE BatchTypes
<1>1. ASSUME NEW index, NEW origin, NEW spent, RawBoundary(index, origin, spent)
      PROVE  Outcomes
  BY <1>1 DEF RawBoundary, Outcomes
<1>2. \A index \in Find(buffer, Token) :
        Upto(buffer, BodyDataEnd(buffer, index)) \in Seq(Byte)
  BY BodyDataProperties
<1>3. CASE PreambleToken \/ PreambleIncomplete \/ PreambleScan
  BY <1>3 DEF PreambleToken, PreambleIncomplete, PreambleScan, Outcomes
<1>4. CASE HeaderBoundary
  <2>1. Raise("HeaderLimit") \/ \E index : RawBoundary(index, "Header", 0)
    BY <1>4 DEF HeaderBoundary
  <2> QED
    BY <1>1, <2>1 DEF Outcomes
<1>5. CASE HeaderEnd \/ HeaderLine \/ HeaderPartial
  BY <1>5 DEF HeaderEnd, HeaderLine, HeaderPartial, Outcomes
<1>6. CASE BodyAwaitsToken \/ BodyIsRaw
  BY <1>1, <1>6 DEF BodyAwaitsToken, BodyIsRaw, Outcomes
<1>7. CASE BodyToken
  BY <1>2, <1>7 DEF BodyToken, Outcomes
<1>8. CASE BodyIncomplete
  BY <1>2, <1>8 DEF BodyIncomplete, Outcomes
<1>9. CASE BodyScan
  <2>1. buffer \in Seq(Byte) /\ Len(buffer) \in Nat
    BY LenProperties DEF TypeOK
  <2>2. PICK emitted \in 0..Len(buffer) : Return(Began \o DataOf(Upto(buffer, emitted)))
    BY <1>9, <2>1, TokenProperties DEF BodyScan
  <2>3. Upto(buffer, emitted) \in Seq(Byte)
    BY <2>1, UptoProperties
  <2> QED
    BY <2>2, <2>3 DEF Outcomes
<1>10. CASE RawToken
  BY <1>1, <1>10 DEF RawToken
<1>11. CASE RawHeaders \/ RawPartial
  BY <1>11 DEF RawHeaders, RawPartial, Outcomes
<1> QED
  BY <1>3, <1>4, <1>5, <1>6, <1>7, <1>8, <1>9, <1>10, <1>11 DEF Loop

(* A return extends what the caller has.                                   *)
LEMMA ReturnExtends ==
  ASSUME TypeOK, TypeOK', NEW new \in Seq(Event), Return(new)
  PROVE  Stream!IsExtension(KindsOf(received), KindsOf(received)')
<1>1. /\ received \in Seq(Event) /\ received' \in Seq(Event)
      /\ events \o new \in Seq(Event)
  BY ConcatProperties DEF TypeOK
<1>2. received' = received \o (events \o new)
  BY DEF Return
<1>3. /\ Len(received') = Len(received) + Len(events \o new)
      /\ \A i \in 1..Len(received) : received'[i] = received[i] /\ i \in 1..Len(received')
  BY <1>1, <1>2, ConcatProperties, LenProperties
<1>4. /\ Len(KindsOf(received)) = Len(received)
      /\ \A i \in 1..Len(received) : KindsOf(received)[i] = received[i].kind
  BY <1>1, KindsAgree
<1>5. /\ Len(KindsOf(received')) = Len(received')
      /\ \A i \in 1..Len(received') : KindsOf(received')[i] = received'[i].kind
  BY <1>1, KindsAgree
<1>6. KindsOf(received)' = KindsOf(received')
  BY DEF KindsOf
<1> QED
  BY <1>1, <1>3, <1>4, <1>5, <1>6, LenProperties, SMTT(30) DEF Stream!IsExtension

(* Every step of the parser is a step of the abstract event stream or      *)
(* leaves it unchanged.                                                    *)
LEMMA RefinementStep ==
  ASSUME ProtocolInv, ProtocolInv', FeedingIsBeforeEof, [Next]_vars
  PROVE  [Stream!Next]_(Stream!streamVars)
<1>1. TypeOK /\ TypeOK' /\ eof \in BOOLEAN /\ eof' \in BOOLEAN
  BY DEF ProtocolInv, TypeOK
<1>2. ASSUME received' = received, eof' = eof, (phase' = "raised") <=> (phase = "raised")
      PROVE  UNCHANGED Stream!streamVars
  BY <1>2, Zenon DEF Stream!streamVars, KindsOf
<1>3. ASSUME NEW reason, Raise(reason), phase # "raised", eof' \in {eof, TRUE}
      PROVE  Stream!Next
  <2>1. KindsOf(received)' = KindsOf(received)
    BY <1>3 DEF KindsOf, Raise
  <2>2. phase' = "raised"
    BY <1>3 DEF Raise
  <2> QED
    BY <1>3, <2>1, <2>2 DEF Stream!Next, Stream!Fail
<1>4. ASSUME NEW new \in Seq(Event), Return(new), phase # "raised", ~eof
      PROVE  Stream!Next
  <2>1. Stream!IsExtension(KindsOf(received), KindsOf(received)')
    BY <1>1, <1>4, ReturnExtends
  <2>2. Stream!WellFormed(KindsOf(received)')
    <3>1. received' \in Seq(Event) /\ events' \in Seq(Event) /\ Good(received' \o events')
      BY DEF ProtocolInv, TypeOK, History
    <3>2. Good(received')
      BY <3>1, GoodPrefix
    <3>3. KindsOf(received)' = KindsOf(received')
      BY DEF KindsOf
    <3> QED
      BY <3>1, <3>2, <3>3, KindsAgree
  <2>3. phase' # "raised"
    BY <1>4 DEF Return
  <2> QED
    BY <1>1, <1>4, <2>1, <2>2, <2>3 DEF Stream!Next, Stream!Deliver
<1>5. ASSUME NEW chunk \in Chunks, Feed(chunk) PROVE [Stream!Next]_(Stream!streamVars)
  <2>1. \/ \E reason : Raise(reason)
        \/ phase' = "feeding" /\ received' = received
    BY <1>5 DEF Feed
  <2>2. phase = "idle" /\ eof' = eof
    BY <1>5 DEF Feed
  <2> QED
    BY <1>2, <1>3, <2>1, <2>2
<1>6. CASE Loop
  <2>1. phase = "feeding" /\ eof' = eof /\ ~eof
    BY <1>6 DEF Loop, FeedingIsBeforeEof
  <2>2. ASSUME NEW new \in Seq(Event), Continue(new)
        PROVE  [Stream!Next]_(Stream!streamVars)
    <3>1. received' = received /\ phase' = phase
      BY <2>2 DEF Continue
    <3> QED
      BY <1>2, <2>1, <3>1
  <2> QED
    BY <1>1, <1>3, <1>4, <1>6, <2>1, <2>2, LoopOutcome DEF Outcomes
<1>7. CASE FeedEof
  <2>1. phase = "idle" /\ ~eof /\ eof' = TRUE
    BY <1>7 DEF FeedEof
  <2>2. Raise("HeaderLimit") \/ \E new \in Seq(Event) : Return(new)
    <3>1. buffer \in Seq(Byte) /\ Began \in Seq(Event)
      BY <1>1, BeganType DEF TypeOK
    <3>2. \A index \in Find(buffer, Token) :
            Upto(buffer, BodyDataEnd(buffer, index)) \in Seq(Byte)
      BY <1>1, BodyDataProperties
    <3> QED
      BY <1>1, <1>7, <3>1, <3>2, BatchTypes DEF FeedEof
  <2> QED
    BY <1>3, <1>4, <2>1, <2>2
<1>8. CASE UNCHANGED vars
  <2>1. received' = received /\ eof' = eof /\ phase' = phase
    BY <1>8 DEF vars
  <2> QED
    BY <1>2, <2>1
<1> QED
  BY <1>5, <1>6, <1>7, <1>8 DEF Next, Dropped

(* The parser implements EventStream: for every chunking of every message  *)
(* and every limit, the batches returned by feed and feed_eof make up a    *)
(* well-formed stream that only grows and is final after an error or the   *)
(* end of input.                                                           *)
THEOREM Refinement == Spec => ImplementsEventStream
<1>1. Init => Stream!Init
  <2> SUFFICES ASSUME Init PROVE Stream!Init
    OBVIOUS
  <2>1. received = <<>> /\ <<>> \in Seq(Event) /\ Len(<<>>) = 0
    BY DEF Init
  <2>2. KindsOf(received) = <<>>
    <3>1. KindsOf(<<>>) \in Seq(Stream!Kinds) /\ Len(KindsOf(<<>>)) = 0
      BY <2>1, KindsAgree
    <3> QED
      BY <2>1, <3>1, EmptySeq
  <2> QED
    BY <2>2 DEF Init, Stream!Init
<1>2. ProtocolInv /\ ProtocolInv' /\ FeedingIsBeforeEof /\ [Next]_vars
        => [Stream!Next]_(Stream!streamVars)
  BY RefinementStep
<1> QED
  BY <1>1, <1>2, ProtocolInvariant, FeedingInvariant, PTL
     DEF Spec, ImplementsEventStream, Stream!Spec

-----------------------------------------------------------------------------
(* feed's loop ends, the account of header bytes is kept per header block, *)
(* and the limits hold.                                                    *)

(* A pass that goes round again.                                           *)
GoesRound == phase = "feeding" /\ phase' = "feeding"

(* The buffer and the token have natural lengths, and the token at least   *)
(* three bytes.                                                            *)
LEMMA BufferLength ==
  ASSUME TypeOK
  PROVE  /\ buffer \in Seq(Byte) /\ Len(buffer) \in Nat
         /\ Len(Token) \in Nat /\ Len(Token) >= 3
BY TokenProperties, LenProperties DEF TypeOK

(* Consuming the token outweighs entering a raw state.                     *)
LEMMA TokenPass ==
  ASSUME TypeOK, NEW index \in Find(buffer, Token), NEW spent \in Nat,
         AfterToken(index, spent)
  PROVE  PassesLeft' < PassesLeft
<1>1. /\ buffer' \in Seq(Byte) /\ Len(buffer') \in Nat
      /\ Len(buffer') <= Len(buffer) - Len(Token)
  BY AfterTokenProperties, LenProperties
<1> QED
  BY <1>1, BufferLength DEF PassesLeft

(* A pass that meets the token of an unwanted segment goes round with      *)
(* fewer passes left: it consumed the token.                               *)
LEMMA RawBoundaryPass ==
  ASSUME TypeOK, NEW index \in Find(buffer, Token), NEW origin, NEW spent \in Nat,
         RawBoundary(index, origin, spent), GoesRound
  PROVE  PassesLeft' < PassesLeft
<1>1. AfterToken(index, spent)
  BY DEF RawBoundary, Return, GoesRound
<1> QED
  BY <1>1, TokenPass

(* Every pass of the loop of feed that goes round leaves fewer passes: it  *)
(* consumed bytes, or moved to a state that will (the `continue's of       *)
(* handle_* in multipart.rs).                                              *)
LEMMA PassConsumes ==
  ASSUME TypeOK, Loop, GoesRound
  PROVE  PassesLeft' < PassesLeft
<1>1. Spent \in Nat /\ total \in Nat
  BY BeganType DEF TypeOK
<1>2. CASE PreambleToken
  BY <1>1, <1>2, TokenPass DEF PreambleToken
<1>3. CASE HeaderBoundary
  <2>1. \E index \in Find(buffer, Token) : RawBoundary(index, "Header", 0)
    BY <1>3 DEF HeaderBoundary, Raise, GoesRound
  <2> QED
    BY <2>1, RawBoundaryPass
<1>4. CASE HeaderEnd
  <2>1. 0 \in Find(buffer, CRLF) /\ 0 + Len(CRLF) = Len(CRLF)
    BY <1>4, TokenProperties DEF HeaderEnd
  <2>2. Len(From(buffer, Len(CRLF))) = Len(buffer) - 2
    BY <2>1, LineEndProperties, BufferLength
  <2>3. buffer' = From(buffer, Len(CRLF)) /\ state' = "Body"
    BY <1>4 DEF HeaderEnd, Raise, GoesRound
  <2> QED
    BY <2>2, <2>3, BufferLength DEF PassesLeft
<1>5. CASE HeaderLine
  <2>1. PICK index \in Find(buffer, CRLF) : buffer' = From(buffer, index + Len(CRLF))
    BY <1>5 DEF HeaderLine, Raise, GoesRound
  <2>2. Len(buffer') = Len(buffer) - index - 2 /\ index \in Nat
    BY <2>1, LineEndProperties
  <2>3. state = "Header" /\ state' = "Header"
    BY <1>5 DEF HeaderLine
  <2> QED
    BY <2>2, <2>3, BufferLength DEF PassesLeft
<1>6. CASE BodyIsRaw
  <2>1. 0 \in Find(buffer, Token) /\ RawBoundary(0, "Discard", 0)
    BY <1>6, PrefixIsFound DEF BodyIsRaw
  <2> QED
    BY <2>1, RawBoundaryPass
<1>7. CASE BodyToken
  BY <1>1, <1>7, TokenPass DEF BodyToken
<1>8. CASE RawHeaders
  BY <1>8, BufferLength DEF RawHeaders, PassesLeft
<1>9. CASE RawToken
  BY <1>1, <1>9, RawBoundaryPass DEF RawToken
<1>10. CASE \/ PreambleIncomplete \/ PreambleScan \/ HeaderPartial \/ BodyAwaitsToken
            \/ BodyIncomplete \/ BodyScan \/ RawPartial
  BY <1>10 DEF PreambleIncomplete, PreambleScan, HeaderPartial, BodyAwaitsToken,
               BodyIncomplete, BodyScan, RawPartial, Return, Raise, GoesRound
<1> QED
  BY <1>2, <1>3, <1>4, <1>5, <1>6, <1>7, <1>8, <1>9, <1>10 DEF Loop

(* The loop of feed_map_data (multipart.rs:124-136) makes at most          *)
(* 2 * Len(buffer) + 2 passes: every pass that goes round again lowers a   *)
(* natural number, for every buffer and every limit.                       *)
THEOREM LoopEnds == Spec => LoopProgresses
<1>1. TypeOK /\ [Next]_vars
        => [GoesRound => PassesLeft' < PassesLeft]_vars
  <2> SUFFICES ASSUME TypeOK, Next, GoesRound PROVE PassesLeft' < PassesLeft
    BY DEF GoesRound
  <2>1. Loop
    BY DEF Next, Feed, FeedEof, Dropped, GoesRound
  <2> QED
    BY <2>1, PassConsumes
<1> QED
  BY <1>1, TypeCorrect, PTL DEF Spec, LoopProgresses, GoesRound

-----------------------------------------------------------------------------
(* The header account.                                                     *)
Uncharged == total = 0 /\ headers = <<>>

AccountInv ==
  /\ ProtocolInv
  /\ NothingChargedOutsideHeaders

(* A pass that meets the token of an unwanted segment with nothing spent   *)
(* leaves the header account at zero, unless it starts a header.           *)
LEMMA RawBoundaryAccount ==
  ASSUME TypeOK, NEW index \in Find(buffer, Token), NEW origin \in States,
         RawBoundary(index, origin, 0), headers' = <<>>
  PROVE  state' # "Header" => Uncharged'
<1>1. ASSUME AfterToken(index, 0), state' # "Header" PROVE total' = 0
  BY <1>1, AfterTokenProperties
<1> QED
  BY <1>1, RawBoundaryProperties DEF Uncharged

(* Every pass of the loop keeps the header account at zero outside of      *)
(* headers (the resets of current_total_header_size in multipart.rs).      *)
LEMMA LoopAccount ==
  ASSUME AccountInv, Loop
  PROVE  NothingChargedOutsideHeaders'
<1> SUFFICES ASSUME phase' # "raised", state' # "Header", ~pending' PROVE Uncharged'
  BY DEF NothingChargedOutsideHeaders, Uncharged
<1>1. /\ TypeOK /\ phase = "feeding"
      /\ ~pending /\ state # "Header" => Uncharged
      /\ pending => state = "Body"
  BY DEF AccountInv, ProtocolInv, Loop, NothingChargedOutsideHeaders, Uncharged,
         PendingOnlyInBody
<1>2. Spent \in Nat /\ total \in Nat
  BY <1>1, BeganType DEF TypeOK
<1>3. state = "Body" => Spent = 0 /\ (BodyBegun => headers' = <<>>)
  BY <1>1 DEF Spent, BodyBegun, Uncharged
<1>4. CASE PreambleToken
  BY <1>1, <1>2, <1>4, AfterTokenProperties DEF PreambleToken, Uncharged
<1>5. CASE PreambleIncomplete \/ PreambleScan
  BY <1>1, <1>5 DEF PreambleIncomplete, PreambleScan, Uncharged
<1>6. CASE HeaderBoundary
  <2>1. \E index \in Find(buffer, Token) :
          headers' = <<>> /\ RawBoundary(index, "Header", 0)
    BY <1>6 DEF HeaderBoundary, Raise
  <2>2. "Header" \in States
    BY DEF States
  <2> QED
    BY <1>1, <2>1, <2>2, RawBoundaryAccount
<1>7. CASE HeaderEnd \/ HeaderLine \/ HeaderPartial
  BY <1>1, <1>7 DEF HeaderEnd, HeaderLine, HeaderPartial, parserVars, Raise
<1>8. CASE BodyAwaitsToken
  BY <1>1, <1>8 DEF BodyAwaitsToken, parserVars, Uncharged
<1>9. CASE BodyIsRaw
  <2>1. 0 \in Find(buffer, Token) /\ "Discard" \in States
    BY <1>1, <1>9, PrefixIsFound DEF BodyIsRaw, States
  <2> QED
    BY <1>1, <1>9, <2>1, RawBoundaryAccount DEF BodyIsRaw
<1>10. CASE BodyToken
  <2>1. state = "Body" /\ BodyBegun
    BY <1>10 DEF BodyToken, BodyBegun
  <2>2. total' = Spent
    BY <1>1, <1>2, <1>10, AfterTokenProperties DEF BodyToken
  <2> QED
    BY <1>3, <2>1, <2>2 DEF Uncharged
<1>11. CASE BodyIncomplete \/ BodyScan
  BY <1>3, <1>11 DEF BodyIncomplete, BodyScan, BodyBegun, Uncharged
<1>12. CASE RawHeaders
  BY <1>12 DEF RawHeaders
<1>13. CASE RawToken
  <2>1. ~pending /\ Uncharged /\ headers' = headers /\ state \in States
    BY <1>1, <1>13 DEF RawToken, States
  <2>2. \E index \in Find(buffer, Token) : RawBoundary(index, state, 0)
    BY <1>13, <2>1 DEF RawToken, Uncharged
  <2> QED
    BY <1>1, <2>1, <2>2, RawBoundaryAccount DEF Uncharged
<1>14. CASE RawPartial
  BY <1>1, <1>14 DEF RawPartial, parserVars, Uncharged
<1> QED
  BY <1>4, <1>5, <1>6, <1>7, <1>8, <1>9, <1>10, <1>11, <1>12, <1>13, <1>14 DEF Loop

(* Outside a header block nothing is charged and no field is held, so the  *)
(* limit that a raw segment or a delimiter's padding is compared with      *)
(* (multipart.rs:319-325, 458) counts that segment's or delimiter's bytes  *)
(* and no others.                                                          *)
THEOREM AccountCorrect == Spec => []NothingChargedOutsideHeaders
<1>1. Init => NothingChargedOutsideHeaders
  BY DEF Init, NothingChargedOutsideHeaders
<1>2. /\ ProtocolInv /\ NothingChargedOutsideHeaders
      /\ [Next]_vars
      => NothingChargedOutsideHeaders'
  <2> SUFFICES ASSUME ProtocolInv, NothingChargedOutsideHeaders, [Next]_vars
               PROVE  NothingChargedOutsideHeaders'
    OBVIOUS
  <2>1. ASSUME NEW chunk \in Chunks, Feed(chunk) PROVE NothingChargedOutsideHeaders'
    BY <2>1 DEF Feed, NothingChargedOutsideHeaders
  <2>2. CASE Loop
    BY <2>2, LoopAccount DEF AccountInv
  <2>3. CASE FeedEof
    <3> SUFFICES ASSUME phase' # "raised", state' # "Header" PROVE Uncharged'
      BY DEF NothingChargedOutsideHeaders, Uncharged
    <3>1. headers' = <<>> /\ total' = Spent /\ phase = "idle"
      BY <2>3 DEF FeedEof, Raise
    <3>2. state = "Header" => state' = "Header"
      BY <2>3 DEF FeedEof, Raise
    <3>3. Spent = 0
      BY <3>1, <3>2 DEF Spent, NothingChargedOutsideHeaders
    <3> QED
      BY <3>1, <3>3 DEF Uncharged
  <2>4. CASE UNCHANGED vars
    BY <2>4 DEF vars, NothingChargedOutsideHeaders
  <2> QED
    BY <2>1, <2>2, <2>3, <2>4 DEF Next, Dropped
<1> QED
  BY <1>1, <1>2, ProtocolInvariant, PTL DEF Spec

-----------------------------------------------------------------------------
(* The limits.                                                             *)
FieldFits(field) == Len(field.name) + 1 + Len(field.value) <= MaxHeaderSize

BlockFits(fields) ==
  Len(fields) <= MaxHeaderCount /\ \A k \in DOMAIN fields : FieldFits(fields[k])

EventsFit(s) == \A i \in DOMAIN s : s[i].kind = "Begin" => BlockFits(s[i].headers)

(* The block being read, the batch being collected, and what the caller    *)
(* has, all fit: a block becomes a Begin that becomes the caller's.        *)
BlocksFit == BlockFits(headers) /\ EventsFit(events) /\ EventsFit(received)

(* Inside feed's loop the account of a block may be over the limit: the    *)
(* padding that Open consumed is compared with it only later, by whichever *)
(* pass returns or completes the block.                                    *)
WithinTotal == phase = "idle" \/ (phase # "raised" /\ pending) => ~Exceeds(total)

LimitInv == BlocksFit /\ WithinTotal

-----------------------------------------------------------------------------
(* Blocks and batches that fit.                                            *)

(* What is put together of fitting batches fits.                           *)
LEMMA ConcatFits ==
  ASSUME NEW s \in Seq(Event), NEW t \in Seq(Event), EventsFit(s), EventsFit(t)
  PROVE  EventsFit(s \o t)
<1>1. /\ s \o t \in Seq(Event)
      /\ Len(s \o t) = Len(s) + Len(t)
      /\ \A i \in 1..(Len(s) + Len(t)) :
           (s \o t)[i] = IF i <= Len(s) THEN s[i] ELSE t[i - Len(s)]
  BY ConcatProperties
<1>2. /\ Len(s) \in Nat /\ Len(t) \in Nat
      /\ DOMAIN s = 1..Len(s) /\ DOMAIN t = 1..Len(t)
      /\ DOMAIN (s \o t) = 1..(Len(s) + Len(t))
  BY <1>1, LenProperties
<1>3. ASSUME NEW i \in 1..(Len(s) + Len(t))
      PROVE  \/ i \in 1..Len(s) /\ (s \o t)[i] = s[i]
             \/ i - Len(s) \in 1..Len(t) /\ (s \o t)[i] = t[i - Len(s)]
  BY <1>1, <1>2
<1> QED
  BY <1>2, <1>3 DEF EventsFit

(* An event alone fits if it is no Begin or its block fits.                *)
LEMMA SingleFits ==
  ASSUME NEW e \in Event, e.kind = "Begin" => BlockFits(e.headers)
  PROVE  EventsFit(<<e>>)
<1>1. DOMAIN <<e>> = {1} /\ <<e>>[1] = e
  OBVIOUS
<1> QED
  BY <1>1 DEF EventsFit

(* Every batch that a handler pushes fits if the block in progress does.   *)
LEMMA BatchesFit ==
  ASSUME TypeOK, BlockFits(headers)
  PROVE  /\ EventsFit(<<>>) /\ EventsFit(<<RawEvent>>)
         /\ \A bytes \in Seq(Byte) :
              /\ EventsFit(Began \o DataOf(bytes))
              /\ EventsFit(Began \o DataOf(bytes) \o <<EndEvent>>)
<1>1. EventsFit(<<>>)
  BY DEF EventsFit
<1>2. EventsFit(<<RawEvent>>) /\ EventsFit(<<EndEvent>>)
  BY EventTypes, SingleFits DEF RawEvent, EndEvent
<1>3. EventsFit(Began)
  <2>1. headers \in Headers
    BY DEF TypeOK
  <2>2. /\ BeginEvent(headers) \in Event
        /\ BeginEvent(headers).headers = headers
    BY <2>1, EventTypes DEF BeginEvent
  <2> QED
    BY <1>1, <2>2, SingleFits DEF Began
<1>4. ASSUME NEW bytes \in Seq(Byte) PROVE EventsFit(DataOf(bytes))
  <2>1. DataEvent(bytes) \in Event /\ DataEvent(bytes).kind # "Begin"
    BY EventTypes DEF DataEvent
  <2> QED
    BY <1>1, <2>1, SingleFits DEF DataOf
<1>5. ASSUME NEW bytes \in Seq(Byte)
      PROVE  /\ EventsFit(Began \o DataOf(bytes))
             /\ EventsFit(Began \o DataOf(bytes) \o <<EndEvent>>)
  <2>1. /\ Began \in Seq(Event) /\ DataOf(bytes) \in Seq(Event)
        /\ Began \o DataOf(bytes) \in Seq(Event) /\ <<EndEvent>> \in Seq(Event)
    BY BeganType, DataOfType, BatchTypes, EventTypes
  <2>2. EventsFit(Began \o DataOf(bytes))
    BY <1>3, <1>4, <2>1, ConcatFits
  <2> QED
    BY <1>2, <2>1, <2>2, ConcatFits
<1> QED
  BY <1>1, <1>2, <1>5

(* However a handler ends, what has been collected and what the caller has *)
(* still fit if its batch does.                                            *)
LEMMA OutcomeFits ==
  ASSUME TypeOK, BlocksFit, NEW new \in Seq(Event), EventsFit(new),
         \/ Continue(new)
         \/ Return(new)
         \/ \E reason \in Errors : Raise(reason)
  PROVE  EventsFit(events') /\ EventsFit(received')
<1>1. /\ events \in Seq(Event) /\ received \in Seq(Event)
      /\ EventsFit(events) /\ EventsFit(received)
  BY DEF TypeOK, BlocksFit
<1>2. events \o new \in Seq(Event) /\ EventsFit(events \o new)
  BY <1>1, ConcatProperties, ConcatFits
<1>3. EventsFit(received \o (events \o new))
  BY <1>1, <1>2, ConcatFits
<1>4. EventsFit(<<>>)
  BY DEF EventsFit
<1> QED
  BY <1>1, <1>2, <1>3, <1>4 DEF Continue, Return, Raise

(* A complete line that is not refused leaves a block that fits: the field *)
(* it becomes is no longer than the line, and there was room for it.       *)
LEMMA LineFits ==
  ASSUME TypeOK, BlockFits(headers), NEW index \in Find(buffer, CRLF),
         NEW separator \in Find(Upto(buffer, index), <<COLON>>), ~LineRefused(index)
  PROVE  BlockFits(Append(headers, Field(Upto(buffer, index), separator)))
<1> DEFINE field == Field(Upto(buffer, index), separator)
<1>1. Len(headers) \in Nat /\ DOMAIN headers = 1..Len(headers)
  BY LenProperties DEF TypeOK, Headers
<1>2. /\ index \in Nat /\ index \in 0..Len(buffer) /\ buffer \in Seq(Byte)
      /\ Upto(buffer, index) \in Seq(Byte) /\ Len(Upto(buffer, index)) = index
  BY FindProperties, LineEndProperties, UptoProperties, TokenProperties DEF TypeOK
<1>3. /\ field \in [name : Seq(Byte), value : Seq(Byte)]
      /\ Len(field.name) + 1 + Len(field.value) <= index
  BY <1>2, FieldProperties
<1> HIDE DEF field
<1>4. ~(index > MaxHeaderSize) /\ Len(headers) # MaxHeaderCount
  BY DEF LineRefused
<1>5. FieldFits(field)
  <2>1. Len(field.name) \in Nat /\ Len(field.value) \in Nat
    BY <1>3, LenProperties
  <2>2. MaxHeaderSize \in Nat /\ index \in Nat
    BY <1>2, LimitsAssumption
  <2>3. Len(field.name) + 1 + Len(field.value) <= MaxHeaderSize
    BY <1>3, <1>4, <2>1, <2>2
  <2> QED
    BY <2>3 DEF FieldFits
<1>6. /\ Len(Append(headers, field)) = Len(headers) + 1
      /\ DOMAIN Append(headers, field) = 1..(Len(headers) + 1)
      /\ \A k \in 1..Len(headers) : Append(headers, field)[k] = headers[k]
      /\ Append(headers, field)[Len(headers) + 1] = field
  <2>1. headers \in Seq([name : Seq(Byte), value : Seq(Byte)])
    BY DEF TypeOK, Headers
  <2> QED
    BY <1>1, <1>3, <2>1, AppendProperties, LenProperties
<1>7. Len(headers) + 1 <= MaxHeaderCount
  <2>1. Len(headers) <= MaxHeaderCount /\ Len(headers) # MaxHeaderCount
    BY <1>4 DEF BlockFits
  <2>2. Len(headers) \in Nat /\ MaxHeaderCount \in Nat
    BY <1>1, LimitsAssumption
  <2> QED
    BY <2>1, <2>2
<1>8. ASSUME NEW k \in 1..(Len(headers) + 1) PROVE FieldFits(Append(headers, field)[k])
  <2>1. k \in 1..Len(headers) \/ k = Len(headers) + 1
    BY <1>1
  <2>2. \A i \in 1..Len(headers) : FieldFits(headers[i])
    BY <1>1 DEF BlockFits
  <2> QED
    BY <1>5, <1>6, <2>1, <2>2
<1>9. BlockFits(Append(headers, field))
  BY <1>6, <1>7, <1>8 DEF BlockFits
<1> QED
  BY <1>9 DEF field

-----------------------------------------------------------------------------
(* Blocks, handler by handler.                                             *)

(* Every pass of the loop hands out only blocks that fit, and only a field *)
(* that fits is added to the block in progress (handle_header, the limits  *)
(* of multipart.rs:245-306).                                               *)
LEMMA LoopFits ==
  ASSUME ProtocolInv, BlocksFit, Loop
  PROVE  BlocksFit'
<1>1. TypeOK /\ BlockFits(headers)
  BY DEF ProtocolInv, BlocksFit
<1>2. "HeaderLimit" \in Errors /\ "Header" \in States /\ "Discard" \in States
  BY DEF Errors, States
<1>3. BlockFits(<<>>)
  BY LimitsAssumption DEF BlockFits
<1>4. ASSUME NEW new \in {<<>>, <<RawEvent>>}, headers' \in {headers, <<>>},
             \/ Continue(new) \/ Return(new) \/ Raise("HeaderLimit")
      PROVE  BlocksFit'
  <2>1. new \in Seq(Event) /\ EventsFit(new)
    BY <1>1, BatchTypes, BatchesFit
  <2>2. EventsFit(events') /\ EventsFit(received')
    BY <1>1, <1>2, <1>4, <2>1, OutcomeFits
  <2> QED
    BY <1>1, <1>3, <1>4, <2>2 DEF BlocksFit
<1>5. ASSUME NEW new \in Seq(Event), EventsFit(new), headers' \in {headers, <<>>},
             \/ Continue(new) \/ Return(new) \/ Raise("HeaderLimit")
      PROVE  BlocksFit'
  <2>1. EventsFit(events') /\ EventsFit(received')
    BY <1>1, <1>2, <1>5, OutcomeFits
  <2> QED
    BY <1>1, <1>3, <1>5, <2>1 DEF BlocksFit
<1>6. ASSUME NEW index, NEW origin, NEW spent, RawBoundary(index, origin, spent),
             headers' \in {headers, <<>>}
      PROVE  BlocksFit'
  BY <1>4, <1>6 DEF RawBoundary
<1>7. CASE \/ PreambleToken \/ PreambleIncomplete \/ PreambleScan \/ HeaderEnd
           \/ HeaderPartial \/ BodyAwaitsToken \/ RawHeaders \/ RawPartial
  <2>1. headers' \in {headers, <<>>}
    BY <1>7 DEF PreambleToken, PreambleIncomplete, PreambleScan, HeaderEnd, HeaderPartial,
                BodyAwaitsToken, RawHeaders, RawPartial, parserVars
  <2>2. Continue(<<>>) \/ Return(<<>>) \/ Raise("HeaderLimit")
    BY <1>7 DEF PreambleToken, PreambleIncomplete, PreambleScan, HeaderEnd, HeaderPartial,
                BodyAwaitsToken, RawHeaders, RawPartial
  <2> QED
    BY <1>4, <2>1, <2>2
<1>8. CASE HeaderBoundary
  <2>1. \/ Raise("HeaderLimit") /\ headers' = headers
        \/ \E index \in Find(buffer, Token) :
             headers' = <<>> /\ RawBoundary(index, "Header", 0)
    BY <1>8 DEF HeaderBoundary
  <2> QED
    BY <1>4, <1>6, <2>1
<1>9. CASE HeaderLine
  <2>1. PICK index \in Find(buffer, CRLF) :
          \/ Raise("HeaderLimit") /\ headers' = headers
          \/ /\ ~LineRefused(index)
             /\ \/ headers' = headers
                \/ \E separator \in Find(Upto(buffer, index), <<COLON>>) :
                     headers' = Append(headers, Field(Upto(buffer, index), separator))
             /\ Continue(<<>>)
    BY <1>9 DEF HeaderLine
  <2>2. CASE headers' = headers /\ (Raise("HeaderLimit") \/ Continue(<<>>))
    BY <1>4, <2>2
  <2>3. ASSUME NEW separator \in Find(Upto(buffer, index), <<COLON>>), ~LineRefused(index),
               headers' = Append(headers, Field(Upto(buffer, index), separator)),
               Continue(<<>>)
        PROVE  BlocksFit'
    <3>1. BlockFits(headers')
      BY <1>1, <2>3, LineFits
    <3>2. EventsFit(events') /\ EventsFit(received')
      BY <1>1, <2>3, BatchTypes, BatchesFit, OutcomeFits
    <3> QED
      BY <3>1, <3>2 DEF BlocksFit
  <2> QED
    BY <2>1, <2>2, <2>3
<1>10. CASE BodyIsRaw
  BY <1>6, <1>10 DEF BodyIsRaw
<1>11. CASE BodyToken
  <2>1. PICK index \in Find(buffer, Token) :
          Continue(Began \o DataOf(Upto(buffer, BodyDataEnd(buffer, index))) \o <<EndEvent>>)
    BY <1>11 DEF BodyToken
  <2>2. Upto(buffer, BodyDataEnd(buffer, index)) \in Seq(Byte)
    BY <1>1, BodyDataProperties
  <2>3. headers' \in {headers, <<>>}
    BY <1>11 DEF BodyToken, BodyBegun
  <2> QED
    BY <1>1, <1>5, <2>1, <2>2, <2>3, BatchTypes, BatchesFit
<1>12. CASE BodyIncomplete
  <2>1. PICK index \in Find(buffer, Token) :
          \/ Raise("HeaderLimit")
          \/ Return(Began \o DataOf(Upto(buffer, BodyDataEnd(buffer, index))))
    BY <1>12 DEF BodyIncomplete
  <2>2. Upto(buffer, BodyDataEnd(buffer, index)) \in Seq(Byte)
    BY <1>1, BodyDataProperties
  <2>3. headers' \in {headers, <<>>}
    BY <1>12 DEF BodyIncomplete, BodyBegun
  <2> QED
    BY <1>1, <1>5, <2>1, <2>2, <2>3, BatchTypes, BatchesFit
<1>13. CASE BodyScan
  <2>1. PICK emitted \in 0..Len(buffer) : Return(Began \o DataOf(Upto(buffer, emitted)))
    BY <1>1, <1>13, BufferLength, TokenProperties DEF BodyScan
  <2>2. Upto(buffer, emitted) \in Seq(Byte)
    BY <1>1, BufferLength, UptoProperties
  <2>3. headers' \in {headers, <<>>}
    BY <1>13 DEF BodyScan, BodyBegun
  <2> QED
    BY <1>1, <1>5, <2>1, <2>2, <2>3, BatchTypes, BatchesFit
<1>14. CASE RawToken
  BY <1>6, <1>14 DEF RawToken
<1> QED
  BY <1>7, <1>8, <1>9, <1>10, <1>11, <1>12, <1>13, <1>14 DEF Loop

-----------------------------------------------------------------------------
(* The account of a block, handler by handler.                             *)

(* Nothing spent exceeds no limit, and neither does less than what does    *)
(* not.                                                                    *)
LEMMA ExceedsLess ==
  /\ ~Exceeds(0)
  /\ \A n, m \in Nat : ~Exceeds(n + m) => ~Exceeds(n)
BY LimitsAssumption DEF Exceeds

(* Every pass that returns, or completes a block, has compared the account *)
(* with the limit or reset it.                                             *)
LEMMA LoopWithinTotal ==
  ASSUME AccountInv, WithinTotal, Loop
  PROVE  WithinTotal'
<1> SUFFICES ASSUME phase' = "idle" \/ (phase' # "raised" /\ pending') PROVE ~Exceeds(total')
  BY DEF WithinTotal
<1>1. /\ TypeOK /\ phase = "feeding"
      /\ ~pending /\ state # "Header" => total = 0
      /\ pending => state = "Body" /\ ~Exceeds(total)
  BY DEF AccountInv, ProtocolInv, Loop, NothingChargedOutsideHeaders, PendingOnlyInBody,
         WithinTotal
<1>2. total \in Nat /\ pending \in BOOLEAN /\ buffer \in Seq(Byte) /\ Len(buffer) \in Nat
  BY <1>1, LenProperties DEF TypeOK
<1>3. state = "Body" => Spent = 0
  BY <1>1 DEF Spent
<1>4. ASSUME NEW index \in Find(buffer, Token), NEW origin \in States,
             RawBoundary(index, origin, 0), ~pending'
      PROVE  ~Exceeds(total')
  <2>1. Return(<<>>) /\ total' = 0
    BY <1>1, <1>4, RawBoundaryProperties DEF Continue
  <2> QED
    BY <2>1, ExceedsLess
<1>5. CASE PreambleToken
  BY <1>1, <1>5 DEF PreambleToken, Continue
<1>6. CASE PreambleIncomplete \/ PreambleScan
  BY <1>1, <1>6, ExceedsLess DEF PreambleIncomplete, PreambleScan
<1>7. CASE HeaderBoundary
  <2>1. \E index \in Find(buffer, Token) : RawBoundary(index, "Header", 0)
    BY <1>1, <1>7 DEF HeaderBoundary, Raise
  <2>2. ~pending'
    BY <1>1, <1>7 DEF HeaderBoundary
  <2>3. "Header" \in States
    BY DEF States
  <2> QED
    BY <1>4, <2>1, <2>2, <2>3
<1>8. CASE HeaderEnd
  <2>1. ~Exceeds(total + Len(CRLF)) /\ total' = total
    BY <1>8 DEF HeaderEnd, Raise
  <2>2. Len(CRLF) \in Nat
    BY TokenProperties
  <2> QED
    BY <1>2, <2>1, <2>2, ExceedsLess
<1>9. CASE HeaderLine
  BY <1>1, <1>9 DEF HeaderLine, Continue, Raise
<1>10. CASE HeaderPartial
  <2>1. ~Exceeds(total + (Len(buffer) - Undecided)) /\ total' = total
    BY <1>10 DEF HeaderPartial, Raise, parserVars
  <2>2. Undecided \in 0..Len(buffer)
    <3>1. buffer # <<>> => 1 \in 0..Len(buffer)
      BY <1>2, EmptySeq
    <3> QED
      BY <1>2, <3>1, PartialSuffixRange DEF Undecided
  <2>3. Len(buffer) - Undecided \in Nat
    BY <1>2, <2>2
  <2> QED
    BY <1>2, <2>1, <2>3, ExceedsLess
<1>11. CASE BodyAwaitsToken
  BY <1>1, <1>11 DEF BodyAwaitsToken, parserVars
<1>12. CASE BodyIsRaw
  <2>1. 0 \in Find(buffer, Token) /\ "Discard" \in States
    BY <1>1, <1>12, PrefixIsFound DEF BodyIsRaw, States
  <2> QED
    BY <1>4, <1>12, <2>1 DEF BodyIsRaw
<1>13. CASE BodyToken
  BY <1>1, <1>13 DEF BodyToken, BodyBegun, Continue
<1>14. CASE BodyIncomplete \/ BodyScan
  BY <1>3, <1>14, ExceedsLess DEF BodyIncomplete, BodyScan, BodyBegun
<1>15. CASE RawHeaders
  BY <1>1, <1>15 DEF RawHeaders, Continue
<1>16. CASE RawToken
  <2>1. ~pending' /\ total = 0 /\ state \in States
    BY <1>1, <1>16 DEF RawToken, States
  <2>2. \E index \in Find(buffer, Token) : RawBoundary(index, state, 0)
    BY <1>16, <2>1 DEF RawToken
  <2> QED
    BY <1>4, <2>1, <2>2
<1>17. CASE RawPartial
  BY <1>1, <1>17, ExceedsLess DEF RawPartial, parserVars
<1> QED
  BY <1>5, <1>6, <1>7, <1>8, <1>9, <1>10, <1>11, <1>12, <1>13, <1>14, <1>15, <1>16, <1>17
     DEF Loop

(* The end of the input flushes a block that fits, and charges nothing.    *)
LEMMA EofFits ==
  ASSUME ProtocolInv, LimitInv, FeedEof
  PROVE  LimitInv'
<1>1. /\ TypeOK /\ BlockFits(headers) /\ BlocksFit /\ buffer \in Seq(Byte)
      /\ phase = "idle" /\ ~pending' /\ total' = Spent
  BY DEF ProtocolInv, LimitInv, BlocksFit, FeedEof, TypeOK
<1>2. headers' \in {headers, <<>>} /\ BlockFits(<<>>)
  BY LimitsAssumption DEF FeedEof, BlockFits
<1>3. "HeaderLimit" \in Errors /\ <<>> \in Seq(Event)
  BY DEF Errors
<1>4. \/ Raise("HeaderLimit")
      \/ Return(Began)
      \/ Return(Began \o DataOf(buffer))
      \/ \E index \in Find(buffer, Token) :
           Return(Began \o DataOf(Upto(buffer, BodyDataEnd(buffer, index))) \o <<EndEvent>>)
  BY DEF FeedEof
<1>5. EventsFit(events') /\ EventsFit(received')
  <2>1. ASSUME NEW new \in Seq(Event), EventsFit(new), Return(new) \/ Raise("HeaderLimit")
        PROVE  EventsFit(events') /\ EventsFit(received')
    BY <1>1, <1>3, <2>1, OutcomeFits
  <2>2. CASE Raise("HeaderLimit")
    BY <1>1, <1>3, <2>1, <2>2, BatchesFit
  <2>3. CASE Return(Began)
    <3>1. Began = Began \o DataOf(<<>>)
      BY <1>1, BeganType, ConcatProperties DEF DataOf
    <3>2. <<>> \in Seq(Byte)
      OBVIOUS
    <3>3. Began \in Seq(Event) /\ EventsFit(Began)
      BY <1>1, <3>1, <3>2, BeganType, BatchesFit
    <3> QED
      BY <2>1, <2>3, <3>3
  <2>4. CASE Return(Began \o DataOf(buffer))
    BY <1>1, <2>1, <2>4, BatchTypes, BatchesFit
  <2>5. ASSUME NEW index \in Find(buffer, Token),
               Return(Began \o DataOf(Upto(buffer, BodyDataEnd(buffer, index))) \o <<EndEvent>>)
        PROVE  EventsFit(events') /\ EventsFit(received')
    <3>1. Upto(buffer, BodyDataEnd(buffer, index)) \in Seq(Byte)
      BY <1>1, BodyDataProperties
    <3> QED
      BY <1>1, <2>1, <2>5, <3>1, BatchTypes, BatchesFit
  <2> QED
    BY <1>4, <2>2, <2>3, <2>4, <2>5
<1>6. BlocksFit'
  BY <1>1, <1>2, <1>5 DEF BlocksFit
<1>7. WithinTotal'
  <2>1. ~Exceeds(Spent)
    BY <1>1, ExceedsLess DEF Spent, LimitInv, WithinTotal
  <2> QED
    BY <1>1, <2>1 DEF WithinTotal
<1> QED
  BY <1>6, <1>7 DEF LimitInv

(* No caller ever gets a Begin with too many fields or too long a field,   *)
(* and between calls no header block is charged more than                  *)
(* max_total_header_size, however the input is cut into chunks             *)
(* (multipart.rs:245-306, 319-325, 458).                                   *)
THEOREM DeliveredHeadersCorrect == Spec => []DeliveredHeadersWithinLimits
<1>1. Init => LimitInv
  <2> SUFFICES ASSUME Init PROVE LimitInv
    OBVIOUS
  <2>1. BlockFits(<<>>) /\ EventsFit(<<>>)
    BY LimitsAssumption DEF BlockFits, EventsFit
  <2> QED
    BY <2>1, ExceedsLess DEF Init, LimitInv, BlocksFit, WithinTotal
<1>2. /\ ProtocolInv /\ NothingChargedOutsideHeaders /\ LimitInv
      /\ [Next]_vars
      => LimitInv'
  <2> SUFFICES ASSUME ProtocolInv, NothingChargedOutsideHeaders, LimitInv, [Next]_vars
               PROVE  LimitInv'
    OBVIOUS
  <2>1. ASSUME NEW chunk \in Chunks, Feed(chunk) PROVE LimitInv'
    <3>1. /\ headers' = headers /\ received' = received /\ events' \in {events, <<>>}
          /\ total' = total /\ pending' = pending /\ phase = "idle"
      BY <2>1 DEF Feed, Raise
    <3>2. EventsFit(<<>>)
      BY DEF EventsFit
    <3>3. BlocksFit'
      BY <3>1, <3>2 DEF LimitInv, BlocksFit
    <3>4. WithinTotal'
      BY <3>1 DEF LimitInv, WithinTotal
    <3> QED
      BY <3>3, <3>4 DEF LimitInv
  <2>2. CASE Loop
    BY <2>2, LoopFits, LoopWithinTotal DEF AccountInv, LimitInv
  <2>3. CASE FeedEof
    BY <2>3, EofFits
  <2>4. CASE UNCHANGED vars
    BY <2>4 DEF vars, LimitInv, BlocksFit, WithinTotal
  <2> QED
    BY <2>1, <2>2, <2>3, <2>4 DEF Next, Dropped
<1>3. TypeOK /\ LimitInv => DeliveredHeadersWithinLimits
  <2> SUFFICES ASSUME TypeOK, LimitInv PROVE DeliveredHeadersWithinLimits
    OBVIOUS
  <2>1. phase = "idle" => \A limit \in MaxTotalHeaderSize : total <= limit
    BY LimitsAssumption DEF TypeOK, LimitInv, WithinTotal, Exceeds
  <2>2. \A i \in DOMAIN received : received[i].kind = "Begin" => BlockFits(received[i].headers)
    BY DEF LimitInv, BlocksFit, EventsFit
  <2> QED
    BY <2>1, <2>2 DEF DeliveredHeadersWithinLimits, BlockFits, FieldFits
<1> QED
  BY <1>1, <1>2, <1>3, TypeCorrect, ProtocolInvariant, AccountCorrect, PTL DEF Spec

-----------------------------------------------------------------------------
(* What is kept of a body.                                                 *)

(* A tail that is undecided and begins with a dash is that dash.           *)
LEMMA LoneDash ==
  ASSUME NEW tail \in Seq(Byte), IsIncomplete(tail), StartsWith(tail, <<DASH>>)
  PROVE  Len(tail) = 1
<1>1. Len(tail) \in Nat /\ Len(tail) >= 1
  BY LenProperties DEF StartsWith
<1>2. tail[1] = DASH
  <2>1. Upto(tail, 1) = <<DASH>>
    BY DEF StartsWith
  <2>2. Upto(tail, 1)[1] = tail[1]
    BY <1>1 DEF Upto
  <2> QED
    BY <2>1, <2>2
<1>3. ~(tail[1] \in Blank \/ tail[1] = CR)
  BY <1>2, SpecialBytesDiffer
<1>4. tail = <<DASH>>
  BY <1>1, <1>3 DEF IsIncomplete
<1> QED
  BY <1>4

(* A body whose delimiter is cut off after its token keeps no more than    *)
(* that delimiter, and of what follows its token no more than the limit.   *)
LEMMA UndecidedDelimiter ==
  ASSUME TypeOK, NEW index \in Find(buffer, Token), IsIncomplete(TailAt(index)),
         ~PrefixExceeds(0, TailAt(index)),
         buffer' = From(buffer, BodyDataEnd(buffer, index))
  PROVE  /\ Find(buffer', Token) # {}
         /\ \A limit \in MaxTotalHeaderSize :
              Len(buffer') <= DelimiterLength + (IF limit = 0 THEN 1 ELSE limit)
<1> DEFINE dataEnd == BodyDataEnd(buffer, index)
           tail == TailAt(index)
<1>1. /\ index \in 0..Len(buffer) /\ buffer \in Seq(Byte) /\ Len(buffer) \in Nat
      /\ tail \in Seq(Byte) /\ Len(tail) \in Nat
      /\ Len(tail) = Len(buffer) - index - Len(Token)
      /\ Len(Token) \in Nat /\ DelimiterLength = Len(Token) + 2
      /\ Token \in Seq(Byte)
  BY TailAtProperties, BufferLength, TokenProperties
<1>2. dataEnd \in 0..index /\ index - dataEnd <= 2
  <2>1. index \in Nat
    BY <1>1
  <2> QED
    BY <2>1, DataEndRange
<1> HIDE DEF dataEnd, tail
<1>3. Find(buffer', Token) # {}
  <2>1. index \in Occurrences(buffer, Token)
    BY DEF Find
  <2>2. dataEnd \in 0..Len(buffer) /\ index - dataEnd \in Nat /\ dataEnd + (index - dataEnd) = index
    BY <1>1, <1>2
  <2>3. index - dataEnd \in Occurrences(From(buffer, dataEnd), Token)
    BY <1>1, <2>1, <2>2, SuffixOccurrences
  <2> QED
    BY <2>3, FindIsComplete DEF dataEnd
<1>4. Len(buffer') <= DelimiterLength + Len(tail)
  <2>1. dataEnd \in 0..Len(buffer)
    BY <1>1, <1>2
  <2>2. Len(From(buffer, dataEnd)) = Len(buffer) - dataEnd
    BY <1>1, <2>1, FromProperties
  <2>3. Len(buffer) - dataEnd <= DelimiterLength + Len(tail)
    BY <1>1, <1>2
  <2> QED
    BY <2>2, <2>3 DEF dataEnd
<1>5. ASSUME NEW limit \in MaxTotalHeaderSize
      PROVE  Len(tail) <= IF limit = 0 THEN 1 ELSE limit
  <2>1. limit \in Nat
    BY LimitsAssumption
  <2>2. CASE StartsWith(tail, <<DASH>>)
    <3>1. Len(tail) = 1
      BY <1>1, <2>2, LoneDash DEF tail
    <3> QED
      BY <2>1, <3>1
  <2>3. CASE ~Exceeds(0 + Len(tail))
    <3>1. ~(0 + Len(tail) > limit)
      BY <2>3 DEF Exceeds
    <3> QED
      BY <1>1, <2>1, <3>1
  <2> QED
    BY <2>2, <2>3 DEF PrefixExceeds, tail
<1>6. ASSUME NEW limit \in MaxTotalHeaderSize
      PROVE  Len(buffer') <= DelimiterLength + (IF limit = 0 THEN 1 ELSE limit)
  <2>1. limit \in Nat
    BY LimitsAssumption
  <2>2. From(buffer, dataEnd) \in Seq(Byte)
    BY <1>1, <1>2, FromProperties
  <2>3. Len(buffer') \in Nat
    BY <2>2, LenProperties DEF dataEnd
  <2> QED
    BY <1>1, <1>4, <1>5, <2>1, <2>3
<1> QED
  BY <1>3, <1>6

(* Every pass of the loop that leaves the parser inside a body keeps at    *)
(* most one undecided delimiter (handle_body, multipart.rs:346-446).       *)
LEMMA LoopBoundsBody ==
  ASSUME AccountInv, Loop
  PROVE  BodyIsNotAccumulated'
<1> DEFINE Held == IF Find(buffer', Token) = {}
                   THEN Len(buffer') < DelimiterLength
                   ELSE \A limit \in MaxTotalHeaderSize :
                          Len(buffer') <= DelimiterLength + (IF limit = 0 THEN 1 ELSE limit)
<1> SUFFICES ASSUME phase' = "idle", state' = "Body" PROVE Held
  BY DEF BodyIsNotAccumulated
<1>1. /\ TypeOK /\ phase = "feeding"
      /\ ~pending /\ state # "Header" => total = 0
  BY DEF AccountInv, ProtocolInv, Loop, NothingChargedOutsideHeaders
<1>2. /\ buffer \in Seq(Byte) /\ Len(buffer) \in Nat
      /\ Len(Token) \in Nat /\ DelimiterLength = Len(Token) + 2 /\ Token \in Seq(Byte)
  BY <1>1, BufferLength, TokenProperties
<1>3. CASE \/ PreambleToken \/ PreambleIncomplete \/ PreambleScan \/ HeaderEnd
           \/ HeaderLine \/ HeaderPartial \/ BodyToken \/ RawHeaders \/ RawPartial
  BY <1>1, <1>3 DEF PreambleToken, PreambleIncomplete, PreambleScan, HeaderEnd, HeaderLine,
                    HeaderPartial, BodyToken, RawHeaders, RawPartial, Continue, Raise,
                    parserVars
<1>4. ASSUME NEW index, NEW origin, NEW spent, RawBoundary(index, origin, spent)
      PROVE  state' = origin
  BY <1>1, <1>4 DEF RawBoundary, Continue
<1>5. CASE HeaderBoundary
  BY <1>4, <1>5 DEF HeaderBoundary, Raise
<1>6. CASE BodyIsRaw
  BY <1>4, <1>6 DEF BodyIsRaw
<1>7. CASE RawToken
  BY <1>4, <1>7 DEF RawToken
<1>8. CASE BodyAwaitsToken
  <2>1. buffer' = buffer /\ Len(buffer) < Len(Token)
    BY <1>8 DEF BodyAwaitsToken, parserVars
  <2>2. Occurrences(buffer, Token) = {}
    <3>1. 0..(Len(buffer) - Len(Token)) = {}
      BY <1>2, <2>1
    <3> QED
      BY <3>1 DEF Occurrences
  <2>3. Find(buffer', Token) = {}
    BY <2>1, <2>2, FindIsComplete
  <2>4. Len(buffer') < DelimiterLength
    BY <1>2, <2>1
  <2> QED
    BY <2>3, <2>4
<1>9. CASE BodyIncomplete
  <2>1. Spent = 0
    BY <1>1, <1>9 DEF BodyIncomplete, BodyBegun, Spent
  <2>2. PICK index \in Find(buffer, Token) :
          /\ IsIncomplete(TailAt(index)) /\ ~PrefixExceeds(0, TailAt(index))
          /\ buffer' = From(buffer, BodyDataEnd(buffer, index))
    BY <1>9, <2>1 DEF BodyIncomplete, Raise
  <2> QED
    BY <1>1, <2>2, UndecidedDelimiter
<1>10. CASE BodyScan
  <2> DEFINE emitted == IF Len(buffer) > DelimiterLength - 1
                        THEN Len(buffer) - (DelimiterLength - 1) ELSE 0
  <2>1. buffer' = From(buffer, emitted) /\ Find(buffer, Token) = {}
    BY <1>10 DEF BodyScan
  <2>2. emitted \in 0..Len(buffer) /\ Len(buffer) - emitted < DelimiterLength
    BY <1>2
  <2> HIDE DEF emitted
  <2>3. Len(buffer') < DelimiterLength
    <3>1. Len(From(buffer, emitted)) = Len(buffer) - emitted
      BY <1>2, <2>2, FromProperties
    <3> QED
      BY <2>1, <2>2, <3>1
  <2>4. Find(buffer', Token) = {}
    <3>1. Occurrences(buffer, Token) = {}
      BY <2>1, FindIsComplete
    <3>2. ASSUME NEW j \in Occurrences(From(buffer, emitted), Token) PROVE FALSE
      <4>1. j \in Nat
        BY <3>2 DEF Occurrences
      <4> QED
        BY <1>2, <2>2, <3>1, <3>2, <4>1, SuffixOccurrences
    <3> QED
      BY <2>1, <3>2, FindIsComplete
  <2> QED
    BY <2>3, <2>4
<1> QED
  BY <1>3, <1>5, <1>6, <1>7, <1>8, <1>9, <1>10 DEF Loop

(* `The parser never accumulates part bodies' (multipart.rs:3-5), for      *)
(* every boundary, every input and every way to cut it: between calls,     *)
(* what is held inside a body is less than a delimiter, or a delimiter     *)
(* and as much of its suffix as a header block may have.                   *)
THEOREM BodyBounded == Spec => []BodyIsNotAccumulated
<1>1. Init => BodyIsNotAccumulated
  BY DEF Init, BodyIsNotAccumulated
<1>2. /\ ProtocolInv /\ NothingChargedOutsideHeaders /\ BodyIsNotAccumulated
      /\ [Next]_vars
      => BodyIsNotAccumulated'
  <2> SUFFICES ASSUME ProtocolInv, NothingChargedOutsideHeaders, BodyIsNotAccumulated,
                      [Next]_vars
               PROVE  BodyIsNotAccumulated'
    OBVIOUS
  <2>1. ASSUME NEW chunk \in Chunks, Feed(chunk) PROVE BodyIsNotAccumulated'
    BY <2>1 DEF Feed, Raise, BodyIsNotAccumulated
  <2>2. CASE Loop
    BY <2>2, LoopBoundsBody DEF AccountInv
  <2>3. CASE FeedEof
    <3>1. phase' = "idle" => buffer' = <<>>
      BY <2>3 DEF FeedEof, Raise
    <3>2. /\ Len(<<>>) = 0 /\ Len(<<>>) < DelimiterLength
      BY TokenProperties
    <3>3. Find(<<>>, Token) = {}
      <4>1. 0..(Len(<<>>) - Len(Token)) = {}
        BY TokenProperties
      <4>2. Occurrences(<<>>, Token) = {}
        BY <4>1 DEF Occurrences
      <4> QED
        BY <4>2, FindIsComplete
    <3> QED
      BY <3>1, <3>2, <3>3 DEF BodyIsNotAccumulated
  <2>4. CASE UNCHANGED vars
    BY <2>4 DEF vars, BodyIsNotAccumulated
  <2> QED
    BY <2>1, <2>2, <2>3, <2>4 DEF Next, Dropped
<1> QED
  BY <1>1, <1>2, ProtocolInvariant, AccountCorrect, PTL DEF Spec
=============================================================================
