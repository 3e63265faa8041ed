---------------------------- MODULE Base64Decoder ----------------------------
(***************************************************************************)
(* _Base64Decoder of parser.py: a file part that is declared to be base64  *)
(* is decoded as it arrives, in groups of four characters.  feed returns a *)
(* chunk, or None when it has nothing to hand on yet.                      *)
(*                                                                         *)
(* A character is one of the base64 alphabet, the padding sign, white      *)
(* space, or any other.  Of what is decoded the length is kept.  Both feed *)
(* and finish are called by the adapter, which gives up at the first error *)
(* (_receive_part_data, _finish_part).                                     *)
(***************************************************************************)
EXTENDS Naturals, Sequences, FiniteSets

CONSTANTS DIGIT, PAD, SPACE, INVALID,  \* the characters
          Texts                      \* what parts may contain

Character == {DIGIT, PAD, SPACE, INVALID}

ASSUME CharacterAssumption == Cardinality(Character) = 4
ASSUME TextsAssumption == Texts \subseteq Seq(Character)

VARIABLES text,            \* the body of the part
          position,        \* how much of it has been fed
          lenient,         \* the interpreter's b64decode skips padding after a group
          buffer,
          paddingComplete,
          answer,          \* what the last feed returned: None is {}
          decoded,         \* history: the length of all that was handed on
          phase            \* open, failed, or finished

vars == <<text, position, lenient, buffer, paddingComplete, answer, decoded, phase>>

Stripped(s) ==
  LET kept[n \in 0..Len(s)] ==
        IF n = 0 THEN <<>>
        ELSE IF s[n] = SPACE THEN kept[n - 1] ELSE Append(kept[n - 1], s[n])
  IN  kept[Len(s)]

PaddingIn(s) == {i \in 1..Len(s) : s[i] = PAD}
FirstIn(indices) == CHOOSE i \in indices : \A j \in indices : i <= j

(***************************************************************************)
(* base64.b64decode(s, validate=True): whether it decodes s, and the       *)
(* length of the result.  Padding ends the last group, after two or three  *)
(* digits of it.  Versions of the library differ on padding signs that     *)
(* follow a complete group: `lenient' ones skip them, however many.        *)
(***************************************************************************)
PaddingFits(s) ==
  LET first == FirstIn(PaddingIn(s))
  IN  /\ PaddingIn(s) = first..Len(s)
      /\ first > 1
      /\ (Len(s) % 4 = 0 /\ Len(s) - first <= 1) \/ (lenient /\ first % 4 = 1)

Decodable(s) ==
  /\ \A i \in 1..Len(s) : s[i] \in {DIGIT, PAD}
  /\ IF PaddingIn(s) = {} THEN Len(s) % 4 = 0 ELSE PaddingFits(s)

DecodedLength(s) == (3 * Cardinality({i \in 1..Len(s) : s[i] = DIGIT})) \div 4

Init ==
  /\ text \in Texts /\ position = 0
  /\ lenient \in BOOLEAN
  /\ buffer = <<>> /\ paddingComplete = FALSE
  /\ answer = {} /\ decoded = 0 /\ phase = "open"

-----------------------------------------------------------------------------
(* The ways out of feed: None, or a chunk, or binascii.Error.              *)
Nothing == answer' = {} /\ UNCHANGED <<decoded, phase>>
Fail == phase' = "failed" /\ UNCHANGED <<answer, decoded>>
HandOn(length) == answer' = {length} /\ decoded' = decoded + length /\ UNCHANGED phase

(* b64decode of the candidate, the last thing feed does.                   *)
Decode(candidate) ==
  IF Decodable(candidate) THEN HandOn(DecodedLength(candidate)) ELSE Fail

(* White space alone.                                                      *)
FeedSpace ==
  /\ IF buffer = <<>> THEN HandOn(0) ELSE Nothing
  /\ UNCHANGED <<buffer, paddingComplete>>

FeedAfterPadding ==
  /\ paddingComplete
  /\ Fail
  /\ UNCHANGED <<buffer, paddingComplete>>

FeedIncomplete(extended) ==
  /\ Len(extended) < 4
  /\ buffer' = extended
  /\ Nothing
  /\ UNCHANGED paddingComplete

(* The characters of the last group that is not complete are dropped.      *)
Rest_Dropped(extended, complete) == <<>>

(* del self.buffer[:complete_length]                                       *)
Rest(extended, complete) == SubSeq(extended, complete + 1, Len(extended))

(* The end of the group with the first padding sign is compared with the   *)
(* complete groups only.                                                   *)
PaddingEnds_Complete(extended, complete) ==
  ((FirstIn(PaddingIn(extended)) - 1) \div 4 + 1) * 4 = complete

(* Nothing may follow the group with the first padding sign.               *)
PaddingEnds(extended, complete) ==
  ((FirstIn(PaddingIn(extended)) - 1) \div 4 + 1) * 4 = Len(extended)

FeedGroups(extended) ==
  LET complete == (Len(extended) \div 4) * 4
      candidate == SubSeq(extended, 1, complete)
  IN  /\ complete > 0
      /\ \/ /\ PaddingIn(candidate) = {}
            /\ buffer' = Rest(extended, complete)
            /\ Decode(candidate)
            /\ UNCHANGED paddingComplete
         \/ /\ PaddingIn(candidate) # {}
            /\ PaddingEnds(extended, complete)
            /\ buffer' = <<>> /\ paddingComplete' = TRUE
            /\ Decode(extended)
         \/ /\ PaddingIn(candidate) # {}
            /\ ~PaddingEnds(extended, complete)
            /\ buffer' = extended
            /\ Fail
            /\ UNCHANGED paddingComplete

Feed(upto) ==
  LET data == Stripped(SubSeq(text, position + 1, upto))
  IN  /\ phase = "open"
      /\ position' = upto
      /\ \/ data = <<>> /\ FeedSpace
         \/ data # <<>> /\ FeedAfterPadding
         \/ /\ data # <<>> /\ ~paddingComplete
            /\ FeedIncomplete(buffer \o data) \/ FeedGroups(buffer \o data)
      /\ UNCHANGED <<text, lenient>>

(* Whatever is left over is ignored.                                       *)
FinishPhase_Ignores == "finished"

FinishPhase == IF buffer # <<>> /\ ~Decodable(buffer) THEN "failed" ELSE "finished"

(* finish, at the end of the part.                                         *)
Finish ==
  /\ phase = "open" /\ position = Len(text)
  /\ phase' = FinishPhase
  /\ UNCHANGED <<text, position, lenient, buffer, paddingComplete, answer, decoded>>

Done == phase # "open" /\ UNCHANGED vars

Next == (\E upto \in position + 1..Len(text) : Feed(upto)) \/ Finish \/ Done

Spec == Init /\ [][Next]_vars

-----------------------------------------------------------------------------
(* The part without its white space, and the complete groups of what has   *)
(* been fed.                                                               *)
Encoded == Stripped(text)
Fed == Stripped(SubSeq(text, 1, position))
Groups == SubSeq(Fed, 1, (Len(Fed) \div 4) * 4)

(* Padding signs after a complete group: the only input on which the       *)
(* interpreters differ.                                                    *)
HasPaddingGroup ==
  PaddingIn(Encoded) # {} /\ lenient /\ FirstIn(PaddingIn(Encoded)) % 4 = 1

(***************************************************************************)
(* However the body is cut into chunks, it is decoded as in one piece: to  *)
(* the same bytes, and with an error exactly when it is no base64          *)
(* (_Base64Decoder, parser.py:51-79).  Where the library skips padding     *)
(* after a complete group, the decoder does so only if it is a group, too, *)
(* and comes with the one before.                                          *)
(***************************************************************************)
ChunksDecodeAsOne ==
  /\ phase = "finished" => Decodable(Encoded) /\ decoded = DecodedLength(Encoded)
  /\ phase = "failed" => ~Decodable(Encoded) \/ HasPaddingGroup

(***************************************************************************)
(* A file that is still being received has been handed on up to its last   *)
(* complete group, all of it valid, and at most three characters are kept  *)
(* (parser.py:58-75).                                                      *)
(***************************************************************************)
CompleteGroupsAreDecoded ==
  phase = "open" =>
    /\ Decodable(Groups)
    /\ decoded = DecodedLength(Groups)
    /\ Len(buffer) = Len(Fed) - Len(Groups)
=============================================================================
