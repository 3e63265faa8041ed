-------------------------------- MODULE Upload --------------------------------
(***************************************************************************)
(* A whole request: the bytes are read in chunks, the parser of            *)
(* multipart.rs turns them into batches of events, and _parse of parser.py *)
(* handles the events one by one and reads the next chunk when a batch is  *)
(* used up.  The parser is MultipartParser and the adapter UploadAdapter,  *)
(* whose abstract source of events is replaced by that parser: in place of *)
(* its actions Take, SourceFails and FeedEof stand the ones below.         *)
(***************************************************************************)
EXTENDS Request, MultipartProperties, PartHeaders

CONSTANTS HandlerCount, Parts, DataSizes, MaxFields, MaxFiles, MaxMemory, MaxEvents

VARIABLES
  \* the variables of UploadAdapter, whose eof is called ended here
  pc, at, chunk, part, terminalRaw, exact, fieldBytes, fieldCount, fileCount, unfinished,
  post, files, exception, drained, ended, left, before, final, delivered, file, heard

Adapter == INSTANCE UploadAdapter WITH eof <- ended

(* What UploadAdapter assumes of its constants.                            *)
ASSUME AdapterAssumption ==
  /\ HandlerCount \in Nat
  /\ Parts \subseteq Adapter!PartHeaders /\ DataSizes \subseteq Nat
  /\ \A p \in Parts : Cardinality(p.name) <= 1
  /\ MaxFields \subseteq Nat /\ MaxFiles \subseteq Nat /\ MaxMemory \subseteq Nat
  /\ MaxEvents \subseteq Nat

(* A line of a header name of one character and its value is the smallest. *)
MAX_HEADER_COUNT_Named(total_header_size) == (total_header_size - 2) \div 4

(* The number of headers that the adapter lets the parser collect.         *)
MAX_HEADER_COUNT(total_header_size) == (total_header_size - 2) \div 3

parserAll == vars
adapterAll == <<pc, at, chunk, part, terminalRaw, exact, fieldBytes, fieldCount, fileCount,
                unfinished, post, files, exception, drained, ended, left, before, final,
                delivered, file, heard>>
uploadVars == <<inputVars, parserAll, adapterAll>>

UploadInit ==
  /\ Init
  /\ Adapter!Init
  /\ RequestInit

-----------------------------------------------------------------------------
(* An event as the adapter sees it, and the parser's state as it tells     *)
(* states apart.                                                           *)
Seen(event) ==
  CASE event.kind = "Begin" -> [kind |-> "Begin", part |-> PartOf(event.headers)]
    [] event.kind = "Data" -> [kind |-> "Data", size |-> Len(event.data)]
    [] OTHER -> event

SeenState(s) == IF s \in {"Body", "End"} THEN s ELSE "Other"

(* parser.feed has returned, and all its events are handled.               *)
BatchIsHandled == pc = "events" /\ phase = "idle" /\ Len(delivered) = Len(received)

(* self._input_data.read and parser.feed.                                  *)
ReadChunk ==
  /\ BatchIsHandled
  /\ unread # <<>>
  /\ \E n \in {m \in ChunkSizes : m <= Len(unread)} \cup {Len(unread)} : FeedNext(n)
  /\ UNCHANGED adapterAll

ParserLoops == Loop /\ UNCHANGED <<inputVars, adapterAll>>

ReadFails ==
  /\ BatchIsHandled /\ ~eof
  /\ Adapter!SourceFails /\ UNCHANGED <<ended, inputVars, parserAll>>

(* feed or feed_eof has raised.                                            *)
ParserFails ==
  /\ phase = "raised"
  /\ Adapter!SourceFails /\ ended' = eof
  /\ UNCHANGED <<inputVars, parserAll>>

Handle(event) ==
  \/ event.kind = "Begin" /\ Adapter!HandleBegin(event.part)
  \/ event.kind = "Data" /\ Adapter!HandleData(event.size)
  \/ event.kind = "End" /\ Adapter!HandleEnd
  \/ event.kind = "Raw" /\ Adapter!HandleRaw

TakeEvent ==
  /\ pc = "events" /\ phase = "idle"
  /\ Len(delivered) < Len(received)
  /\ LET event == Seen(received[Len(delivered) + 1])
     IN  delivered' = Append(delivered, event) /\ Handle(event)
  /\ left' = IF ended THEN Tail(left) ELSE left
  /\ UNCHANGED <<ended, before, final, exact, drained, inputVars, parserAll>>

FeedEnd ==
  /\ BatchIsHandled
  /\ unread = <<>>
  /\ FeedEof
  /\ \/ /\ phase' = "idle"
        /\ LET batch == From(received', Len(received))
           IN  Adapter!EofReturns([i \in DOMAIN batch |-> Seen(batch[i])],
                                  SeenState(state), SeenState(state'))
     \/ phase' = "raised" /\ UNCHANGED adapterAll
  /\ UNCHANGED inputVars

(* The statements and handlers that neither read nor feed.                 *)
AdapterSteps ==
  /\ \/ Adapter!BeforeParsing \/ Adapter!NewFile \/ Adapter!LoopEnds \/ Adapter!ReceiveChunk
     \/ Adapter!FileComplete \/ Adapter!NobodyReturnsFile \/ Adapter!Finish \/ Adapter!Succeed
     \/ Adapter!InterruptUpload \/ Adapter!AbortUpload \/ Adapter!UploadComplete
  /\ UNCHANGED <<inputVars, parserAll>>

Answered == pc \in {"returned", "raised", "escaped"}

Stopped == Answered /\ UNCHANGED uploadVars

UploadNext ==
  \/ ReadChunk \/ ParserLoops \/ ReadFails \/ ParserFails \/ TakeEvent \/ FeedEnd
  \/ AdapterSteps \/ Stopped

UploadSpec == UploadInit /\ [][UploadNext]_uploadVars

(* Sequential code whose calls return: reads, handlers, the parser's loop. *)
FairUploadSpec == UploadSpec /\ WF_uploadVars(UploadNext)

-----------------------------------------------------------------------------
(***************************************************************************)
(* The adapter on the real parser is the adapter on an abstract source of  *)
(* events: the parser gives it only streams that EventStream allows, its   *)
(* feed_eof returns only what EofOutcomes lists, from and to the states    *)
(* listed there, and every event is handled once and in order.  So what is *)
(* claimed of UploadAdapter holds of requests (parser.py:139-199).         *)
(***************************************************************************)
ImplementsAdapter == Adapter!Spec

(***************************************************************************)
(* Every request is answered, whatever its bytes and their chunks: no loop *)
(* of the parser or of _parse goes round for ever, and none of the two     *)
(* waits for the other (multipart.rs:124, parser.py:139).                  *)
(***************************************************************************)
RequestEnds == <>Answered
=============================================================================
