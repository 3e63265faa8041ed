--------------------------- MODULE MultipartBytes ---------------------------
(***************************************************************************)
(* The byte-level vocabulary of the Sans-IO parser of multipart.rs: the    *)
(* boundary token, the search for it, the classification of what follows   *)
(* it, and the trimming of header lines.                                   *)
(*                                                                         *)
(* Offsets are the 0-based offsets of the Rust slices: offset i of a       *)
(* buffer is the place before buffer[i + 1].  A Rust Option<usize> is a    *)
(* set with at most one element, so that `if let Some(i) = find(..)' is    *)
(* \E i \in Find(..), and is_none_or(p) is \A i \in Find(..) : p(i).       *)
(***************************************************************************)
EXTENDS Integers, Sequences, FiniteSets

CONSTANTS Byte,                          \* the alphabet
          CR, LF, DASH, SP, TAB, FF, COLON, \* the bytes the code compares with
          Boundary                       \* the boundary parameter

SpecialBytes == {CR, LF, DASH, SP, TAB, FF, COLON}

MAX_BOUNDARY_LENGTH == 201

(* The constructor refuses any other boundary with a ValueError.           *)
ASSUME BoundaryAssumption ==
  /\ Boundary \in Seq(Byte)
  /\ Len(Boundary) \in 1..MAX_BOUNDARY_LENGTH

ASSUME ByteAssumption ==
  /\ SpecialBytes \subseteq Byte
  /\ Cardinality(SpecialBytes) = 7

CRLF == <<CR, LF>>
Token == <<DASH, DASH>> \o Boundary
DelimiterLength_NoLineEnd == Len(Boundary) + 2
DelimiterLength == Len(CRLF) + Len(Boundary) + 2

-----------------------------------------------------------------------------
(* Slices: From(s, i) is &s[i..] and Upto(s, i) is &s[..i].                *)
From(s, i) == SubSeq(s, i + 1, Len(s))
Upto(s, i) == SubSeq(s, 1, i)

StartsWith(s, p) == Len(p) <= Len(s) /\ Upto(s, Len(p)) = p

(* The offsets at which p occurs in s, and the smallest of them, if any.   *)
Occurrences(s, p) ==
  {i \in 0..(Len(s) - Len(p)) : \A k \in 1..Len(p) : s[i + k] = p[k]}

Find(s, p) == {i \in Occurrences(s, p) : \A j \in Occurrences(s, p) : i <= j}

-----------------------------------------------------------------------------
(***************************************************************************)
(* delimiter_suffix, as one predicate per variant, over the tail that      *)
(* follows the boundary token in the buffer.  A tail that is in none of    *)
(* the first three is Invalid or BareLineFeed, which every caller treats   *)
(* alike.                                                                  *)
(***************************************************************************)
Blank == {SP, TAB}

(* Open(consumed): linear whitespace and CRLF; the length of both.         *)
OpenLength(tail) ==
  {n \in 2..Len(tail) : /\ tail[n - 1] = CR
                        /\ tail[n] = LF
                        /\ \A i \in 1..(n - 2) : tail[i] \in Blank}

IsClose(tail) == StartsWith(tail, <<DASH, DASH>>)

(* Nothing, a lone dash, or whitespace with at most a CR after it.         *)
IsIncomplete(tail) ==
  \/ tail = <<DASH>>
  \/ \A i \in 1..Len(tail) : tail[i] \in Blank \/ (tail[i] = CR /\ i = Len(tail))

IsUnusable(tail) ==
  /\ OpenLength(tail) = {}
  /\ ~IsClose(tail)
  /\ ~IsIncomplete(tail)

-----------------------------------------------------------------------------
(* Only a CRLF pair is taken for the delimiter's line end.                 *)
BodyDataEnd_PairOnly(buf, index) ==
  IF index > 1 /\ buf[index] = LF /\ buf[index - 1] = CR THEN index - 2 ELSE index

(* Where the body data before a boundary token ends: one LF, then one CR,  *)
(* belong to the delimiter when they are there.                            *)
BodyDataEnd(buf, index) ==
  LET lf == IF index > 0 /\ buf[index] = LF THEN index - 1 ELSE index
  IN  IF lf > 0 /\ buf[lf] = CR THEN lf - 1 ELSE lf

(* The length of the longest proper prefix of the token that ends buf.     *)
PartialSuffixLength(buf) ==
  LET Ends(n) == n < Len(Token) /\ From(buf, Len(buf) - n) = Upto(Token, n)
  IN  CHOOSE n \in 0..Len(buf) : Ends(n) /\ \A m \in 0..Len(buf) : Ends(m) => m <= n

-----------------------------------------------------------------------------
(* Trimming, and a header line split at its first colon.                   *)
AsciiWhitespace == {SP, TAB, LF, FF, CR}

TrimEnd(s, B) ==
  Upto(s, Len(s) - Cardinality({i \in 1..Len(s) : \A j \in i..Len(s) : s[j] \in B}))

TrimStart(s, B) ==
  From(s, Cardinality({i \in 1..Len(s) : \A j \in 1..i : s[j] \in B}))

TrimAscii(s) == TrimStart(TrimEnd(s, AsciiWhitespace), AsciiWhitespace)

Field(line, separator) ==
  [name |-> TrimEnd(Upto(line, separator), {SP}),
   value |-> TrimAscii(From(line, separator + 1))]
=============================================================================
