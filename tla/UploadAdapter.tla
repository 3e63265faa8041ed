---------------------------- MODULE UploadAdapter ----------------------------
(***************************************************************************)
(* RustMultiPartParser._parse of parser.py: it feeds the request to the    *)
(* Rust parser, turns its events into fields and files, applies Django's   *)
(* limits, and drives the upload handlers of the request.                  *)
(*                                                                         *)
(* Two parties are outside.  The parser is any source of events that keeps *)
(* the protocol of EventStream; where one feed's batch ends and the next   *)
(* begins is arbitrary, so feed may raise between any two events (and the  *)
(* events it had collected then never arrive).  The upload handlers answer *)
(* each call as Django allows: they return, or raise one of the upload     *)
(* exceptions or any other.  Every call of a handler is one step.          *)
(*                                                                         *)
(* A definition with a suffix after an underscore is a variant of the one  *)
(* that follows it, with a defect; the specification does not use it.      *)
(*                                                                         *)
(* Lengths stand for data and names.  A Python None is the empty set and   *)
(* any other value of an optional is a set of one element.                 *)
(***************************************************************************)
EXTENDS Integers, Sequences, FiniteSets

CONSTANTS HandlerCount,  \* len(self._upload_handlers)
          Parts,         \* what the header blocks of the parts may say
          DataSizes,     \* lengths of a PartData and of what a handler passes on
          MaxFields,     \* settings.DATA_UPLOAD_MAX_NUMBER_FIELDS
          MaxFiles,      \* settings.DATA_UPLOAD_MAX_NUMBER_FILES
          MaxMemory,     \* settings.DATA_UPLOAD_MAX_MEMORY_SIZE
          MaxEvents      \* bound on the events before the end of the input, if any

Handlers == 1..HandlerCount

(* Of a header block: the stripped field name, the file name (absent also  *)
(* when empty; unusable when sanitize_file_name rejects it), the encoding. *)
PartHeaders == [name : SUBSET Nat, filename : {"absent", "usable", "unusable"},
                base64 : BOOLEAN]

ASSUME UploadAssumption ==
  /\ HandlerCount \in Nat
  /\ Parts \subseteq PartHeaders /\ DataSizes \subseteq Nat
  /\ \A p \in Parts : Cardinality(p.name) <= 1
  /\ MaxFields \subseteq Nat /\ MaxFiles \subseteq Nat /\ MaxMemory \subseteq Nat
  /\ MaxEvents \subseteq Nat

VARIABLES
  pc,          \* the loop or statement that _parse is at
  at,          \* the upload handler whose turn it is in that loop
  chunk,       \* the length of the chunk that the handlers hand on
  part,        \* current_part
  terminalRaw, \* terminal_raw
  exact,       \* exact_boundary_at_eof
  fieldBytes,  \* _field_bytes
  fieldCount,  \* _field_count
  fileCount,   \* _file_count
  unfinished,  \* _unfinished_upload
  post,        \* _post: name and length of each field
  files,       \* _files: the handler that returned each file
  exception,   \* the exception that ended the try statement
  drained,     \* the input has been read to its end
  eof,         \* feed_eof has been called
  left,        \* the events of feed_eof still to be handled
  before,      \* state_before_eof
  final,       \* the state of the parser after feed_eof
  delivered,   \* history: every event handled or being handled
  file,        \* each handler's `file'
  heard        \* history: the last call each handler got

partVars == <<part, chunk, terminalRaw, unfinished>>
accountVars == <<fieldBytes, fieldCount, fileCount, post, files>>
requestVars == <<eof, left, before, final, exact, delivered, drained>>
handlerVars == <<file, heard>>
vars == <<pc, at, chunk, part, terminalRaw, exact, fieldBytes, fieldCount, fileCount,
          unfinished, post, files, exception, drained, eof, left, before, final,
          delivered, file, heard>>

Source == INSTANCE EventStream WITH
            stream <- [i \in DOMAIN delivered |-> delivered[i].kind],
            closed <- eof /\ left = <<>>, failed <- (exception = "ParserError")

Event == [kind : {"Begin"}, part : Parts] \cup [kind : {"Data"}, size : DataSizes]
           \cup [kind : {"End", "Raw"}]

NoCall == [call |-> "none", file |-> 0, told |-> FALSE, start |-> 0, end |-> 0, times |-> 0]

Exceptions == {"none", "StopUpload", "ParserError", "BadBase64", "TooManyFields",
               "TooManyFiles", "TooMuchData", "HandlerError", "Protocol", "ReadError"}

TypeOK ==
  /\ pc \in {"raw", "events", "starting", "receiving", "finishing", "interrupting", "aborting",
             "ended", "completing", "returned", "raised", "escaped"}
  /\ at \in 1..(HandlerCount + 1)
  /\ chunk \in DataSizes \cup {0}
  /\ part \subseteq [name : SUBSET Nat, isFile : BOOLEAN, ignored : BOOLEAN,
                     base64 : BOOLEAN, data : Nat, counters : [Handlers -> Nat]]
  /\ Cardinality(part) <= 1
  /\ terminalRaw \in BOOLEAN /\ exact \in BOOLEAN /\ unfinished \in BOOLEAN
  /\ fieldBytes \in Nat /\ fieldCount \in Nat /\ fileCount \in Nat
  /\ post \in Seq([name : Nat, size : Nat])
  /\ files \in Seq(Handlers)
  /\ exception \in Exceptions
  /\ drained \in BOOLEAN /\ eof \in BOOLEAN
  /\ left \in Seq(Event) /\ delivered \in Seq(Event)
  /\ before \in {"End", "Body", "Other"} /\ final \in {"End", "Body", "Other"}
  /\ file \in [Handlers -> {"none", "open", "handed over", "closed", "failed"}]
  /\ heard \in [Handlers -> [call : {"none", "new_file", "receive_data_chunk",
                                     "file_complete", "upload_interrupted",
                                     "upload_complete"},
                             file : Nat, told : BOOLEAN, start : Nat, end : Nat,
                             times : Nat]]

Init ==
  /\ pc = "raw" /\ at = 1 /\ chunk = 0
  /\ part = {} /\ terminalRaw = FALSE /\ exact = FALSE
  /\ fieldBytes = 0 /\ fieldCount = 0 /\ fileCount = 0
  /\ unfinished = FALSE
  /\ post = <<>> /\ files = <<>>
  /\ exception = "none" /\ drained = FALSE
  /\ eof = FALSE /\ left = <<>> /\ before = "Other" /\ final = "Other" /\ delivered = <<>>
  /\ file = [h \in Handlers |-> "none"]
  /\ heard = [h \in Handlers |-> NoCall]

-----------------------------------------------------------------------------
(* How control moves: to the next handler of a loop, to another statement  *)
(* (at the first handler, if it is a loop), or there with an exception:    *)
(* into _abort_upload, after which it is raised, or past every except      *)
(* clause out of _parse.  What Django's inherited parse() does with the    *)
(* exception is no part of this module: it closes the handlers' files and  *)
(* raises it on.                                                           *)
NextHandler == pc' = pc /\ at' = at + 1
Goto(place) == pc' = place /\ at' = 1
AllCalled == at = HandlerCount + 1

(* A failure leaves _parse at once.                                        *)
Abort_Uncleaned(reason) == Goto("raised") /\ exception' = reason

Resume(place) == Goto(place) /\ UNCHANGED exception
Abort(reason) == Goto("aborting") /\ exception' = reason
Throw(reason) == Goto("escaped") /\ exception' = reason

(* _close_files, inherited: closes the `file' of every handler that has one. *)
CloseFiles(open) ==
  file' = [h \in Handlers |-> IF open[h] = "none" THEN "none" ELSE "closed"]

(* The close of one file raises; the files after it are not reached.       *)
CloseFails(open) ==
  \E h \in Handlers :
    /\ open[h] \notin {"none", "closed"}
    /\ file' = [g \in Handlers |-> CASE g = h -> "failed"
                                     [] g < h /\ open[g] # "none" -> "closed"
                                     [] OTHER -> open[g]]

(* except StopUpload: the files are closed, then the rest of the input is  *)
(* read unless the connection is to be reset.  Both may fail.              *)
Stop(open) ==
  \/ /\ CloseFiles(open)
     /\ \/ Goto("completing") /\ exception' = "StopUpload" /\ drained' \in {drained, TRUE}
        \/ ~eof /\ Throw("ReadError") /\ UNCHANGED drained
  \/ CloseFails(open) /\ Throw("HandlerError") /\ UNCHANGED drained

(* A call that handler h gets, about the file being received if any, and   *)
(* how many times on end it has got just this call.                        *)
Told(h) == heard[h].file = fileCount /\ heard[h].told
CallMade(call, told, start, end, times) ==
  [call |-> call, file |-> fileCount, told |-> told, start |-> start, end |-> end,
   times |-> times]

Call(h, call, told, start, end) ==
  heard' = [heard EXCEPT ![h] =
              CallMade(call, told, start, end,
                       IF @ = CallMade(call, told, start, end, @.times) THEN @.times + 1 ELSE 1)]

-----------------------------------------------------------------------------
(* Before the try statement.  An empty request is not parsed at all, a     *)
(* handler may take over the request in handle_raw_input, and the parser's *)
(* constructor may refuse the boundary.                                    *)
BeforeParsing ==
  /\ pc = "raw"
  /\ \/ at = 1 /\ Resume("returned")
     \/ /\ at \in Handlers
        /\ \/ NextHandler /\ UNCHANGED exception
           \/ Resume("returned")
           \/ Throw("HandlerError")
     \/ AllCalled /\ (Resume("events") \/ Throw("ParserError"))
  /\ UNCHANGED <<partVars, accountVars, requestVars, handlerVars>>

-----------------------------------------------------------------------------
(* The next event, from feed or from what feed_eof returned.               *)
Take(event) ==
  /\ pc = "events"
  /\ delivered' = Append(delivered, event)
  /\ \/ /\ ~eof
        /\ \A maximum \in MaxEvents : Len(delivered) < maximum
        /\ Source!WellFormed([i \in DOMAIN delivered' |-> delivered'[i].kind])
        /\ UNCHANGED left
     \/ /\ eof
        /\ left # <<>> /\ event = Head(left)
        /\ left' = Tail(left)
  /\ UNCHANGED <<eof, before, final, exact, drained>>

(* feed or the read before it raises; feed_eof may raise, too.             *)
SourceFails ==
  /\ pc = "events" /\ ~eof
  /\ Abort("ParserError")
  /\ eof' \in BOOLEAN
  /\ UNCHANGED <<partVars, accountVars, left, before, final, exact, delivered, drained,
                 handlerVars>>

(* _enforce_field_count, for this count; the last raw segment of a message *)
(* may still be missing.                                                   *)
TooManyFields(count, missing) == \E maximum \in MaxFields : count > maximum + missing

(* One counter too few.                                                    *)
Counters_OneShort == [h \in 1..(HandlerCount - 1) |-> 0]

Counters == [h \in Handlers |-> 0]

NewPart(p) ==
  [name |-> p.name, isFile |-> p.filename # "absent",
   ignored |-> p.name = {} \/ p.filename = "unusable",
   base64 |-> p.base64, data |-> 0, counters |-> Counters]

(* _begin_part of a field: even one without a name is counted.             *)
BeginField(p) ==
  /\ p.filename = "absent"
  /\ fieldCount' = fieldCount + 1
  /\ IF TooManyFields(fieldCount', 1)
     THEN Abort("TooManyFields") /\ UNCHANGED part
     ELSE Resume("events") /\ part' = {NewPart(p)}
  /\ UNCHANGED <<fileCount, unfinished>>

(* A file without a field name is ignored and not counted.                 *)
BeginUnnamedFile(p) ==
  /\ p.filename # "absent" /\ p.name = {}
  /\ part' = {NewPart(p)}
  /\ Resume("events") /\ UNCHANGED <<fieldCount, fileCount, unfinished>>

(* The file is started without being noted.                                *)
Unfinished_Unnoted(p) == unfinished

Unfinished(p) == unfinished \/ p.filename = "usable"

(* Any other file is counted, and started if its file name is usable.      *)
BeginFile(p) ==
  /\ p.filename # "absent" /\ p.name # {}
  /\ fileCount' = fileCount + 1
  /\ IF \E maximum \in MaxFiles : fileCount' > maximum
     THEN Abort("TooManyFiles") /\ UNCHANGED <<part, unfinished>>
     ELSE /\ part' = {NewPart(p)}
          /\ unfinished' = Unfinished(p)
          /\ Resume(IF p.filename = "usable" THEN "starting" ELSE "events")
  /\ UNCHANGED fieldCount

HandleBegin(p) ==
  /\ \/ part = {} /\ (BeginField(p) \/ BeginUnnamedFile(p) \/ BeginFile(p))
     \/ /\ part # {} /\ Abort("Protocol")
        /\ UNCHANGED <<part, fieldCount, fileCount, unfinished>>
  /\ terminalRaw' = FALSE
  /\ UNCHANGED <<chunk, fieldBytes, post, files, handlerVars>>

PartBegin == \E p \in Parts : Take([kind |-> "Begin", part |-> p]) /\ HandleBegin(p)

(***************************************************************************)
(* _start_file.  A handler opens its file in new_file, and may have done   *)
(* so when it raises.  StopFutureHandlers ends the loop; SkipFile is       *)
(* caught by _open_part.                                                   *)
(***************************************************************************)
Opened(h) == [file EXCEPT ![h] = "open"]

(* except SkipFile, with `open' the files that the handlers have by then.  *)
SkipFile(open) ==
  /\ \/ /\ CloseFiles(open)
        /\ part' = {[p EXCEPT !.ignored = TRUE] : p \in part}
        /\ Resume("events")
     \/ CloseFails(open) /\ Abort("HandlerError") /\ UNCHANGED part
  /\ UNCHANGED drained

NewFile ==
  /\ pc = "starting" /\ at \in Handlers
  /\ Call(at, "new_file", TRUE, 0, 0)
  /\ \/ /\ NextHandler \/ Goto("events")
        /\ file' = Opened(at)
        /\ UNCHANGED <<part, exception, drained>>
     \/ \E open \in {file, Opened(at)} :
          \/ SkipFile(open)
          \/ Stop(open) /\ UNCHANGED part
          \/ Abort("HandlerError") /\ file' = open /\ UNCHANGED <<part, drained>>
  /\ UNCHANGED <<chunk, terminalRaw, unfinished, accountVars, eof, left, before, final,
                 exact, delivered>>

LoopEnds ==
  /\ pc \in {"starting", "receiving"} /\ AllCalled
  /\ Resume("events")
  /\ UNCHANGED <<partVars, accountVars, requestVars, handlerVars>>

-----------------------------------------------------------------------------
(* _check_field_memory_size: what the finished fields took, and this one.  *)
FieldCost_Unnamed(p) == p.data + 2
FieldCost(p) == p.data + 2 + (CHOOSE n \in p.name : TRUE)
TooMuchData(p) == \E maximum \in MaxMemory : fieldBytes + FieldCost(p) > maximum

(* Only the last data of a field are kept.                                 *)
Grown_Replaced(p, size) == [p EXCEPT !.data = size]

Grown(p, size) == [p EXCEPT !.data = @ + size]

ReceiveFieldData(p, size) ==
  /\ ~p.ignored /\ ~p.isFile
  /\ part' = {Grown(p, size)}
  /\ IF TooMuchData(Grown(p, size)) THEN Abort("TooMuchData") ELSE Resume("events")
  /\ UNCHANGED chunk

(* The base64 decoder may keep the data back, fail, or hand on the groups  *)
(* of four that the data complete with up to three characters kept before. *)
ReceiveFileData(p, size) ==
  /\ ~p.ignored /\ p.isFile
  /\ \/ p.base64 /\ (Resume("events") \/ Abort("BadBase64")) /\ UNCHANGED chunk
     \/ /\ chunk' \in IF p.base64 THEN {n \in DataSizes \cup {0} : n <= 3 * ((size + 3) \div 4)}
                                  ELSE {size}
        /\ Resume("receiving")
  /\ UNCHANGED part

HandleData(size) ==
  /\ \/ part = {} /\ Abort("Protocol") /\ UNCHANGED <<part, chunk>>
     \/ \E p \in part :
          \/ ReceiveFieldData(p, size)
          \/ ReceiveFileData(p, size)
          \/ p.ignored /\ Resume("events") /\ UNCHANGED <<part, chunk>>
  /\ UNCHANGED <<terminalRaw, unfinished, accountVars, handlerVars>>

PartData == \E size \in DataSizes : Take([kind |-> "Data", size |-> size]) /\ HandleData(size)

Counted(h) == {[p EXCEPT !.counters[h] = @ + chunk] : p \in part}

(* receive_data_chunk: a handler passes on the chunk or another one, ends  *)
(* the loop with None, or raises.  Its counter moves by what it was given. *)
ReceiveChunk ==
  /\ pc = "receiving" /\ at \in Handlers
  /\ \E p \in part :
       Call(at, "receive_data_chunk", Told(at), p.counters[at], p.counters[at] + chunk)
  /\ \/ /\ \/ NextHandler /\ chunk' \in DataSizes \cup {chunk}
           \/ Goto("events") /\ UNCHANGED chunk
        /\ part' = Counted(at)
        /\ UNCHANGED <<exception, drained, file>>
     \/ SkipFile(file) /\ UNCHANGED chunk
     \/ Stop(file) /\ UNCHANGED <<chunk, part>>
     \/ Abort("HandlerError") /\ UNCHANGED <<chunk, part, drained, file>>
  /\ UNCHANGED <<terminalRaw, unfinished, accountVars, eof, left, before, final, exact,
                 delivered>>

-----------------------------------------------------------------------------
(* A value that is declared to be base64 is kept as it is if it is not.    *)
(* Padding is part of the last group; versions of b64decode differ on      *)
(* padding signs that follow a whole group, which some skip.               *)
ValueSizes(p) ==
  LET groups == p.data \div 4
  IN  {p.data} \cup (IF p.base64 THEN {3 * n : n \in 1..groups} ELSE {})
        \cup (IF p.base64 /\ p.data % 4 = 0 /\ groups > 0
              THEN {3 * groups - padding : padding \in 1..2} ELSE {})

(* _finish_part of a field, called on the way to `place'.                  *)
FinishField(p, place) ==
  \/ /\ \/ p.ignored /\ Resume(place)
        \/ ~p.ignored /\ TooMuchData(p) /\ Abort("TooMuchData")
     /\ UNCHANGED <<fieldBytes, post>>
  \/ /\ ~p.ignored /\ ~TooMuchData(p)
     /\ fieldBytes' = fieldBytes + FieldCost(p)
     /\ \E size \in ValueSizes(p) :
          post' = Append(post, [name |-> CHOOSE n \in p.name : TRUE, size |-> size])
     /\ Resume(place)

(* A file is not finished when an exact boundary token ends the input; one *)
(* whose name is empty is dropped here, with its upload unfinished.        *)
FinishFile(p) ==
  LET dropped == p.ignored \/ exact \/ 0 \in p.name
  IN  /\ \/ dropped /\ Resume("events")
         \/ ~dropped /\ p.base64 /\ Abort("BadBase64")
         \/ ~dropped /\ Resume("finishing")
      /\ UNCHANGED <<fieldBytes, post>>

HandleEnd ==
  /\ \/ part = {} /\ Abort("Protocol") /\ UNCHANGED <<part, terminalRaw, fieldBytes, post>>
     \/ /\ \E p \in part : IF p.isFile THEN FinishFile(p) ELSE FinishField(p, "events")
        /\ \/ pc' = "events" /\ part' = {} /\ terminalRaw' = TRUE
           \/ pc' # "events" /\ UNCHANGED <<part, terminalRaw>>
  /\ UNCHANGED <<chunk, fieldCount, fileCount, unfinished, files, handlerVars>>

PartEnd == Take([kind |-> "End"]) /\ HandleEnd

(* current_part is not reset.                                              *)
FileDone_KeepsPart ==
  Resume("events") /\ UNCHANGED part /\ terminalRaw' = TRUE /\ unfinished' = FALSE

FileDone ==
  /\ Resume("events")
  /\ part' = {} /\ terminalRaw' = TRUE /\ unfinished' = FALSE

(* file_complete is offered to the handlers in turn until one returns the  *)
(* file; then the part is over.  No SkipFile is caught here.               *)
FileComplete ==
  /\ pc = "finishing" /\ at \in Handlers
  /\ \E p \in part : Call(at, "file_complete", Told(at), 0, p.counters[at])
  /\ \/ /\ NextHandler
        /\ UNCHANGED <<part, terminalRaw, unfinished, files, exception, drained, file>>
     \/ /\ files' = Append(files, at)
        /\ file' = [file EXCEPT ![at] = IF @ = "open" THEN "handed over" ELSE @]
        /\ FileDone
        /\ UNCHANGED drained
     \/ /\ Stop(file) \/ (Abort("HandlerError") /\ UNCHANGED <<drained, file>>)
        /\ UNCHANGED <<part, terminalRaw, unfinished, files>>
  /\ UNCHANGED <<chunk, fieldBytes, fieldCount, fileCount, post, eof, left, before,
                 final, exact, delivered>>

NobodyReturnsFile ==
  /\ pc = "finishing" /\ AllCalled
  /\ FileDone
  /\ UNCHANGED <<chunk, accountVars, requestVars, handlerVars>>

-----------------------------------------------------------------------------
(* _record_raw_part                                                        *)
HandleRaw ==
  /\ \/ part # {} /\ Abort("Protocol") /\ UNCHANGED <<fieldCount, terminalRaw>>
     \/ /\ part = {}
        /\ fieldCount' = fieldCount + 1
        /\ IF TooManyFields(fieldCount', 1)
           THEN Abort("TooManyFields") /\ UNCHANGED terminalRaw
           ELSE Resume("events") /\ terminalRaw' = TRUE
  /\ UNCHANGED <<chunk, part, fieldBytes, fileCount, unfinished, post, files, handlerVars>>

RawPart == Take([kind |-> "Raw"]) /\ HandleRaw

-----------------------------------------------------------------------------
(***************************************************************************)
(* feed_eof.  Inside an open part the parser still has data, and the token *)
(* that may end the part; outside, a header block that ended with the      *)
(* input may begin one.  `before' and `final' are the parser's state        *)
(* before and afterwards; it is in a body, too, while it has a complete    *)
(* header block whose part it has not begun.                               *)
(***************************************************************************)
EofData == {<<>>} \cup {<<[kind |-> "Data", size |-> n]>> : n \in DataSizes}
EofEnd == {d \o <<[kind |-> "End"]>> : d \in EofData}
EofBegin == UNION {{<<[kind |-> "Begin", part |-> p]>> \o d : d \in EofData} : p \in Parts}

EofOutcomes(inPart) ==
  IF inPart
  THEN [events : EofData, before : {"Body"}, final : {"Body"}]
         \cup [events : EofEnd, before : {"Body"}, final : {"End", "Other"}]
  ELSE {[events |-> <<>>, before |-> state, final |-> state] : state \in {"End", "Other"}}
         \cup [events : EofBegin, before : {"Body"}, final : {"Body"}]

(* exact_boundary is never set.                                            *)
IsExact_Never(from, to) == FALSE

(* The state after feed_eof alone.                                         *)
IsExact_AnyEnd(from, to) == to = "End"

IsExact(from, to) == from = "Body" /\ to = "End"

(* What _parse keeps of a call of feed_eof.                                *)
EofReturns(batch, from, to) ==
  /\ pc = "events" /\ ~eof
  /\ left' = batch /\ before' = from /\ final' = to
  /\ exact' = IsExact(from, to)
  /\ eof' = TRUE /\ drained' = TRUE
  /\ UNCHANGED <<pc, at, exception, partVars, accountVars, delivered, handlerVars>>

FeedEof ==
  \E outcome \in EofOutcomes(Source!InPart([i \in DOMAIN delivered |-> delivered[i].kind])) :
    EofReturns(outcome.events, outcome.before, outcome.final)

(* finish() refuses a message without a closing boundary; a field that the *)
(* input cut short is then kept, a file is not.                            *)
Finish ==
  /\ pc = "events" /\ eof /\ left = <<>>
  /\ terminalRaw' = (terminalRaw /\ ~exact)
  /\ \/ /\ final # "End"
        /\ \E p \in part : ~p.isFile /\ FinishField(p, "ended")
        /\ part' = IF pc' = "ended" THEN {} ELSE part
     \/ /\ final = "End" \/ \A p \in part : p.isFile
        /\ Resume("ended")
        /\ UNCHANGED <<fieldBytes, post, part>>
  /\ UNCHANGED <<chunk, unfinished, fieldCount, fileCount, files, requestVars, handlerVars>>

(***************************************************************************)
(* The else clause of the try statement.  What it raises, or a handler     *)
(* raises in it, is not caught by the except clauses before it.            *)
(***************************************************************************)
Succeed ==
  /\ pc = "ended"
  /\ IF terminalRaw /\ TooManyFields(fieldCount, 0)
     THEN Throw("TooManyFields")
     ELSE Resume(IF unfinished THEN "interrupting" ELSE "completing")
  /\ UNCHANGED <<partVars, accountVars, requestVars, handlerVars>>

(* The else clause cleans up as after a failure: the files are closed.     *)
InterruptUpload_Closes ==
  /\ pc = "interrupting"
  /\ \/ /\ at \in Handlers
        /\ Call(at, "upload_interrupted", FALSE, 0, 0)
        /\ NextHandler /\ UNCHANGED <<exception, file>>
     \/ AllCalled /\ Resume("completing") /\ CloseFiles(file) /\ UNCHANGED heard
  /\ UNCHANGED <<partVars, accountVars, requestVars>>

(* The else clause belongs to the try statement.                           *)
InterruptUpload_InTry ==
  /\ pc = "interrupting"
  /\ \/ /\ at \in Handlers
        /\ Call(at, "upload_interrupted", FALSE, 0, 0)
        /\ (NextHandler /\ UNCHANGED exception) \/ Abort("HandlerError")
     \/ AllCalled /\ Resume("completing") /\ UNCHANGED heard
  /\ UNCHANGED <<partVars, accountVars, requestVars, file>>

(* _interrupt_upload from the else clause.                                 *)
InterruptUpload ==
  /\ pc = "interrupting"
  /\ \/ /\ at \in Handlers
        /\ Call(at, "upload_interrupted", FALSE, 0, 0)
        /\ \/ NextHandler /\ UNCHANGED exception
           \/ Throw("HandlerError")
     \/ AllCalled /\ Resume("completing") /\ UNCHANGED heard
  /\ UNCHANGED <<partVars, accountVars, requestVars, file>>

(* _abort_upload.  What a handler raises ends the loop and is suppressed,  *)
(* and so is what _close_files raises.                                     *)
AbortUpload ==
  /\ pc = "aborting"
  /\ \/ /\ unfinished /\ at \in Handlers
        /\ Call(at, "upload_interrupted", FALSE, 0, 0)
        /\ NextHandler \/ (pc' = pc /\ at' = HandlerCount + 1)
        /\ UNCHANGED <<exception, unfinished, file>>
     \/ /\ unfinished => AllCalled
        /\ unfinished' = FALSE
        /\ CloseFiles(file) \/ CloseFails(file)
        /\ Resume("raised")
        /\ UNCHANGED heard
  /\ UNCHANGED <<part, chunk, terminalRaw, accountVars, requestVars>>

(* any(handler.upload_complete() ...): a true answer ends it.              *)
UploadComplete ==
  /\ pc = "completing"
  /\ \/ /\ at \in Handlers
        /\ Call(at, "upload_complete", FALSE, 0, 0)
        /\ \/ NextHandler /\ UNCHANGED exception
           \/ Resume("returned")
           \/ Throw("HandlerError")
     \/ AllCalled /\ Resume("returned") /\ UNCHANGED heard
  /\ UNCHANGED <<partVars, accountVars, requestVars, file>>

-----------------------------------------------------------------------------
Done == pc \in {"returned", "raised", "escaped"} /\ UNCHANGED vars

Next ==
  \/ BeforeParsing \/ SourceFails
  \/ PartBegin \/ NewFile \/ LoopEnds \/ PartData \/ ReceiveChunk
  \/ PartEnd \/ FileComplete \/ NobodyReturnsFile \/ RawPart
  \/ FeedEof \/ Finish \/ Succeed \/ InterruptUpload \/ AbortUpload
  \/ UploadComplete \/ Done

Spec == Init /\ [][Next]_vars
=============================================================================
