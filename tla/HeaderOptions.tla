---------------------------- MODULE HeaderOptions ----------------------------
(***************************************************************************)
(* parse_options_header of headers.rs: a header value, its parameters, and *)
(* the quoting of theirs.  The adapter does not call it.                   *)
(*                                                                         *)
(* The value is scanned twice: once to cut it at the semicolons outside    *)
(* quotes, once more to remove the quotes and escapes of each parameter.   *)
(***************************************************************************)
EXTENDS SequencesExt, FiniteSetsExt, TLC

CONSTANTS Char, QUOTE, BACKSLASH, SEMICOLON, EQUALS, SP,
          UPPER, LOWER,   \* a letter in both cases
          MaxLength       \* bound on the texts tried

ASSUME HeaderAssumption ==
  /\ {QUOTE, BACKSLASH, SEMICOLON, EQUALS, SP, UPPER, LOWER} \subseteq Char
  /\ Cardinality({QUOTE, BACKSLASH, SEMICOLON, EQUALS, SP, UPPER, LOWER}) = 7
  /\ MaxLength \in Nat

VARIABLE text   \* what a caller puts into a value

Trimmed(s) ==
  LET kept == {i \in DOMAIN s : s[i] # SP}
  IN  IF kept = {} THEN <<>> ELSE SubSeq(s, Min(kept), Max(kept))

-----------------------------------------------------------------------------
(* The state of the first scan; the last segment is the one being read.    *)
NotQuoted == [quoted |-> FALSE, escaped |-> FALSE, segments |-> <<<<>>>>]

(* A backslash escapes outside quotes, too.                                *)
Escapes_Anywhere(scan, character) == character = BACKSLASH

(* An escaped quote ends the quotes.                                       *)
Escapes_Never(scan, character) == FALSE

Escapes(scan, character) == scan.quoted /\ character = BACKSLASH

ScanStep(scan, character) ==
  LET kept == [scan EXCEPT !.segments[Len(scan.segments)] = Append(@, character)]
  IN  CASE scan.escaped -> [kept EXCEPT !.escaped = FALSE]
        [] ~scan.escaped /\ Escapes(scan, character) -> [kept EXCEPT !.escaped = TRUE]
        [] ~scan.escaped /\ character = QUOTE -> [kept EXCEPT !.quoted = ~@]
        [] ~scan.escaped /\ ~scan.quoted /\ character = SEMICOLON ->
             [scan EXCEPT !.segments = Append(@, <<>>)]
        [] OTHER -> kept

Scan(value) == FoldLeft(ScanStep, NotQuoted, value)

-----------------------------------------------------------------------------
(* The second scan, of the inside of a quoted value.                       *)
UnquoteStep(read, character) ==
  IF ~read.escaped /\ character = BACKSLASH THEN [read EXCEPT !.escaped = TRUE]
  ELSE [escaped |-> FALSE, parameter |-> Append(read.parameter, character)]

Unquote(inside) == FoldLeft(UnquoteStep, [escaped |-> FALSE, parameter |-> <<>>], inside)

IsQuoted(raw) == raw # <<>> /\ Head(raw) = QUOTE
Inside(raw) == SubSeq(raw, 2, Len(raw) - 1)

Parameter(raw) == IF IsQuoted(raw) THEN Unquote(Inside(raw)).parameter ELSE raw

(* split_once at the last equals sign.                                     *)
Separator_Last(segment) == Max({i \in DOMAIN segment : segment[i] = EQUALS})

Separator(segment) == Min({i \in DOMAIN segment : segment[i] = EQUALS})

Key(segment) == Trimmed(SubSeq(segment, 1, Separator(segment) - 1))
RawValue(segment) == Trimmed(SubSeq(segment, Separator(segment) + 1, Len(segment)))

ToAsciiLowercase(key) == [i \in DOMAIN key |-> IF key[i] = UPPER THEN LOWER ELSE key[i]]

SegmentError(segment) ==
  IF ~Contains(segment, EQUALS) THEN "Missing parameter value"
  ELSE LET raw == RawValue(segment)
           malformed == IsQuoted(raw) /\ (Len(raw) < 2 \/ Last(raw) # QUOTE)
       IN  IF Key(segment) = <<>> THEN "Missing parameter key"
           ELSE IF malformed THEN "Malformed quoted parameter" ELSE "none"

(* What is wrong first, in the order in which the code meets it.           *)
ErrorIn(scan) ==
  LET wrong == {i \in 2..Len(scan.segments) : SegmentError(scan.segments[i]) # "none"}
  IN  IF scan.quoted \/ scan.escaped THEN "Malformed quoted parameter"
      ELSE IF Trimmed(Head(scan.segments)) = <<>> THEN "Missing header name"
      ELSE IF wrong # {} THEN SegmentError(scan.segments[Min(wrong)]) ELSE "none"

(* A later parameter of the same key replaces an earlier one.              *)
Insert(parameters, segment) ==
  (ToAsciiLowercase(Key(segment)) :> Parameter(RawValue(segment))) @@ parameters

ParseOptionsHeader(value) ==
  LET scan == Scan(value)
  IN  IF ErrorIn(scan) # "none"
      THEN [error |-> ErrorIn(scan), name |-> <<>>, parameters |-> <<>>]
      ELSE [error |-> "none", name |-> Trimmed(Head(scan.segments)),
            parameters |-> FoldLeft(Insert, <<>>, Tail(scan.segments))]

-----------------------------------------------------------------------------
(* Every text, a character at a time.                                      *)
Init == text = <<>>
Next == Len(text) < MaxLength /\ \E character \in Char : text' = Append(text, character)
Spec == Init /\ [][Next]_text

-----------------------------------------------------------------------------
(* A header value with a parameter whose key is in upper case.             *)
With(raw) == <<LOWER, SEMICOLON, SP, UPPER, EQUALS>> \o raw

(* The text as a quoted string.                                            *)
Quoted(s) ==
  <<QUOTE>> \o FoldLeft(LAMBDA out, c : out \o (IF c \in {QUOTE, BACKSLASH} THEN <<BACKSLASH, c>>
                                               ELSE <<c>>), <<>>, s) \o <<QUOTE>>

(***************************************************************************)
(* Any text survives quoting: a parameter with separators, spaces, quotes  *)
(* and backslashes in its quoted value is one parameter with that value,   *)
(* also when another one follows it (headers.rs:7, 15-30, 48-65).          *)
(***************************************************************************)
QuotedTextIsRead ==
  LET answer == ParseOptionsHeader(With(Quoted(text)) \o <<SEMICOLON, SP, EQUALS>>)
      alone == ParseOptionsHeader(With(Quoted(text)))
  IN  /\ alone.error = "none" /\ alone.name = <<LOWER>>
      /\ alone.parameters = (<<LOWER>> :> text)
      /\ answer.error = "Missing parameter key"

(***************************************************************************)
(* Without quotes and semicolons there is no quoting: the value is all     *)
(* that follows the first equals sign, backslashes and further equals      *)
(* signs included, without the spaces around it (headers.rs:39-47, 67).    *)
(***************************************************************************)
PlainTextIsKept ==
  ~Contains(text, QUOTE) /\ ~Contains(text, SEMICOLON) =>
    ParseOptionsHeader(With(text)) =
      [error |-> "none", name |-> <<LOWER>>, parameters |-> (<<LOWER>> :> Trimmed(text))]

(***************************************************************************)
(* What the comment at headers.rs:54 relies on: when the first scan has    *)
(* accepted a value, the second never ends in the middle of an escape, so  *)
(* that no backslash is lost at its end.                                   *)
(***************************************************************************)
NoEscapeIsLost ==
  ParseOptionsHeader(With(text)).error = "none" =>
    LET segments == Tail(Scan(With(text)).segments)
    IN  \A i \in DOMAIN segments :
          LET raw == RawValue(segments[i])
          IN  IsQuoted(raw) => ~Unquote(Inside(raw)).escaped
=============================================================================
