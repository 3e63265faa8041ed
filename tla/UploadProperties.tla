--------------------------- MODULE UploadProperties ---------------------------
(***************************************************************************)
(* What is claimed of _parse for every event stream the parser may give it *)
(* and every answer of the upload handlers.                                *)
(***************************************************************************)
EXTENDS UploadAdapter

(* The event stream keeps the parser's protocol, so the checks of _parse   *)
(* that answer `Received ...' for an event out of place (parser.py:143-158,*)
(* 174-187, 320-323) never fire: current_part is reset whenever a part ends.*)
DefensiveErrorsUnreachable == exception # "Protocol"

-----------------------------------------------------------------------------
(* The parts of the message as the events tell it.                         *)
Indices(kind) == {i \in DOMAIN delivered : delivered[i].kind = kind}
IsFieldAt(i) == delivered[i].part.filename = "absent"
FieldsBegun == {i \in Indices("Begin") : IsFieldAt(i)}
NamedFields == {i \in FieldsBegun : delivered[i].part.name # {}}
CountedFiles == {i \in Indices("Begin") : ~IsFieldAt(i) /\ delivered[i].part.name # {}}

DataOf(i) == {j \in Indices("Data") : j > i /\ \A k \in i + 1..j : delivered[k].kind = "Data"}
IsEnded(i) == \E j \in Indices("End") : j = i + Cardinality(DataOf(i)) + 1

SumOf(weights) ==
  LET total[n \in 0..Len(weights)] == IF n = 0 THEN 0 ELSE total[n - 1] + weights[n]
  IN  total[Len(weights)]

SizeOf(i) == SumOf([n \in DOMAIN delivered |-> IF n \in DataOf(i) THEN delivered[n].size ELSE 0])

NameOf(i) == CHOOSE n \in delivered[i].part.name : TRUE

Cost(F) ==
  SumOf([n \in DOMAIN delivered |-> IF n \in F THEN SizeOf(n) + NameOf(n) + 2 ELSE 0])

PastTry == pc \in {"ended", "interrupting", "completing", "returned"}

(***************************************************************************)
(* POST holds the named fields of the message, in order and with all their *)
(* data (decoded if that is base64) and nothing else's, whatever files,    *)
(* raw segments and skipped parts come between them; a field that the end  *)
(* of the input cuts short is kept (parser.py:192, 209-212, 386-397).      *)
(* After a StopUpload, POST holds the fields that ended before it.         *)
(***************************************************************************)
PostIsWhatArrived ==
  LET kept == {i \in NamedFields : IsEnded(i) \/ (PastTry /\ exception = "none")}
      position(i) == Cardinality({j \in kept : j <= i})
  IN  exception \in {"none", "StopUpload"} =>
        /\ Len(post) = Cardinality(kept)
        /\ \A i \in kept :
             /\ post[position(i)].name = NameOf(i)
             /\ IF delivered[i].part.base64 THEN post[position(i)].size <= SizeOf(i)
                ELSE post[position(i)].size = SizeOf(i)

(***************************************************************************)
(* The limits on the number of fields and files.  Every part without a     *)
(* file name and every raw segment counts as a field.  A message that has  *)
(* arrived passes with one more than the maximum exactly when it has no    *)
(* raw segment after its last part: when it is cut short in a part, or     *)
(* ends with the token itself.  Before the end of the message that is not  *)
(* known, and one more than the maximum refuses nothing either             *)
(* (parser.py:123-125, 188-205, 224-225; tests/test_upload_handlers.py,    *)
(* test_truncated_field_uses_missing_terminal_raw_allowance and            *)
(* test_exact_boundary_token_at_eof_does_not_add_raw_field).               *)
(***************************************************************************)
FieldsCharged == Cardinality(FieldsBegun \cup Indices("Raw"))
BareToken == before = "Body" /\ final = "End"
CutShort == BareToken \/ Source!InPart([i \in DOMAIN delivered |-> delivered[i].kind])

HasArrived == eof /\ left = <<>>
Allowance == IF HasArrived /\ ~CutShort THEN 0 ELSE 1

CountLimitsAreExact ==
  /\ pc = "returned" /\ exception = "none" =>
       \A maximum \in MaxFields : FieldsCharged <= maximum + Allowance
  /\ exception = "TooManyFields" =>
       \E maximum \in MaxFields : FieldsCharged > maximum + Allowance
  /\ exception \in {"none", "StopUpload"} =>
       \A maximum \in MaxFiles : Cardinality(CountedFiles) <= maximum
  /\ exception = "TooManyFiles" => \E maximum \in MaxFiles : Cardinality(CountedFiles) > maximum

(***************************************************************************)
(* The limit on the memory of the fields holds of all named fields that    *)
(* have arrived, those still arriving included, at every moment, and only  *)
(* a message that is over it is refused for it (parser.py:354-360,         *)
(* 386-387, 416-420).  An empty field is charged when it ends.             *)
(***************************************************************************)
MemoryLimitIsExact ==
  /\ exception \in {"none", "StopUpload"} =>
       \A maximum \in MaxMemory :
         Cost({i \in NamedFields : SizeOf(i) > 0 \/ IsEnded(i)}) <= maximum
  /\ exception = "TooMuchData" => \E maximum \in MaxMemory : Cost(NamedFields) > maximum

-----------------------------------------------------------------------------
(* The first handler is told of every file that is started and offered     *)
(* every file that is finished, so its last call tells what became of the  *)
(* last upload.                                                            *)
Unsettled == 1 \in Handlers /\ heard[1].call \in {"new_file", "receive_data_chunk"}

(***************************************************************************)
(* A file that is skipped, cut short, dropped for its empty name or ended  *)
(* by the very end of the input is interrupted before upload_complete,     *)
(* unless a later file was finished; no other way leads past a started     *)
(* file than its completion (parser.py:188-193, 226-229, 414).             *)
(***************************************************************************)
UploadsAreSettled == pc = "completing" /\ exception = "none" => ~Unsettled

(***************************************************************************)
(* An exception caught by _parse is raised only after the upload in        *)
(* progress was interrupted and every handler's file closed, and no        *)
(* handler hears upload_complete (parser.py:217-222, 422-428).  A file may *)
(* be left open only because closing another one, of an earlier handler,   *)
(* failed, which is suppressed.                                            *)
(***************************************************************************)
CleanedUp ==
  /\ ~Unsettled
  /\ \A h \in Handlers :
       /\ file[h] = "open" => \E g \in 1..(h - 1) : file[g] = "failed"
       /\ heard[h].call # "upload_complete"

RaisedIsCleanedUp == pc = "raised" => CleanedUp

(***************************************************************************)
(* A file that FILES holds stays open while the request may still succeed, *)
(* although _close_files closes the `file' of every handler: only a        *)
(* SkipFile for a later upload closes it, and only if its handler has not  *)
(* yet opened a file for that upload (parser.py:237-242, 378-380).         *)
(***************************************************************************)
HandedOverFilesStayOpen ==
  [][\A h \in Handlers :
       file[h] = "handed over" /\ file'[h] \in {"closed", "failed"} =>
         exception' # "none" \/ (pc \in {"starting", "receiving"} /\ ~Told(h))]_vars

(***************************************************************************)
(* What one upload handler can rely on, whatever the other handlers do.    *)
(* The chunks of a file are contiguous from offset 0, by the lengths this  *)
(* handler was given; file_complete tells their sum.  A handler that was   *)
(* told of the file gets no chunk after it was closed by a SkipFile.  A    *)
(* completed upload is not interrupted unless another handler failed to    *)
(* complete it; after upload_interrupted there is only upload_complete,    *)
(* and after that nothing (parser.py:340-352, 371-380, 409-414, 437-439).  *)
(***************************************************************************)
LastCall(h) == heard[h].call
Offset(h) == IF heard[h].file = fileCount THEN heard[h].end ELSE 0

MayHear(h) ==
  LET new == heard'[h]
  IN  CASE new.call = "upload_complete" ->
             LastCall(h) # "upload_complete" /\ pc = "completing"
        [] new.call = "upload_interrupted" ->
             /\ LastCall(h) \notin {"upload_interrupted", "upload_complete"}
             /\ LastCall(h) = "file_complete" => h # 1 \/ pc = "aborting"
        [] new.call = "new_file" ->
             /\ LastCall(h) \notin {"upload_interrupted", "upload_complete"}
             /\ new.file # heard[h].file
        [] new.call = "receive_data_chunk" ->
             /\ LastCall(h) \notin {"upload_interrupted", "upload_complete"}
             /\ LastCall(h) # "file_complete" \/ new.file # heard[h].file
             /\ new.start = Offset(h)
             /\ new.told => file[h] # "closed"
        [] new.call = "file_complete" ->
             /\ LastCall(h) \notin {"upload_interrupted", "upload_complete"}
             /\ LastCall(h) # "file_complete" \/ new.file # heard[h].file
             /\ new.end = Offset(h)
             /\ new.told => file[h] # "closed"

HandlerContract == [][\A h \in Handlers : heard'[h] # heard[h] => MayHear(h)]_vars
=============================================================================
