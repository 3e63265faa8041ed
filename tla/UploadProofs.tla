----------------------------- MODULE UploadProofs -----------------------------
(***************************************************************************)
(* Proofs about the adapter, for every number of upload handlers, every    *)
(* limit, and every kind of part.                                          *)
(* First the event protocol, then the types, then what each action does,   *)
(* and from there what becomes of a request, whatever the handlers answer. *)
(***************************************************************************)
EXTENDS UploadProperties, SequenceTheorems, FiniteSetTheorems, TLAPS

(* The event protocol of EventStream, said of the events themselves.       *)
IsInside(s) == Len(s) > 0 /\ s[Len(s)].kind \in {"Begin", "Data"}

Good(s) ==
  \A i \in 1..Len(s) :
    s[i].kind \in {"Data", "End"} <=> (i > 1 /\ s[i - 1].kind \in {"Begin", "Data"})

(* The history and the events of feed_eof that are still to come are one   *)
(* well-formed stream, and between two events current_part is set exactly  *)
(* inside a part of it.  While handlers are being called, the event they   *)
(* are called for is already in the history.                               *)
StreamInv ==
  /\ delivered \in Seq(Event) /\ left \in Seq(Event) /\ eof \in BOOLEAN
  /\ ~eof => left = <<>>
  /\ Good(delivered \o left)

PartInv ==
  /\ exception # "Protocol"
  /\ pc \in {"raw", "events"} => (part # {} <=> IsInside(delivered))
  /\ pc \in {"starting", "receiving"} => part # {} /\ IsInside(delivered)
  /\ pc = "finishing" => ~IsInside(delivered)

-----------------------------------------------------------------------------
(* The kinds of events are a stream of the same length.                    *)
LEMMA KindsOfEvents ==
  ASSUME NEW s \in Seq(Event)
  PROVE  LET kinds == [i \in DOMAIN s |-> s[i].kind]
         IN  /\ kinds \in Seq({"Begin", "Data", "End", "Raw"})
             /\ Len(kinds) = Len(s)
             /\ \A i \in 1..Len(s) : kinds[i] = s[i].kind
<1> DEFINE kinds == [i \in DOMAIN s |-> s[i].kind]
<1>1. /\ DOMAIN s = 1..Len(s) /\ Len(s) \in Nat
      /\ \A i \in 1..Len(s) : s[i] \in Event
  BY LenProperties
<1>2. \A i \in 1..Len(s) : kinds[i] = s[i].kind /\ kinds[i] \in {"Begin", "Data", "End", "Raw"}
  BY <1>1 DEF Event
<1>3. kinds \in [1..Len(s) -> {"Begin", "Data", "End", "Raw"}]
  BY <1>1, <1>2
<1>4. kinds \in Seq({"Begin", "Data", "End", "Raw"}) /\ Len(kinds) = Len(s)
  BY <1>1, <1>3
<1> QED
  BY <1>2, <1>4

(* The two operators of EventStream that the adapter's model uses, on the  *)
(* kinds of events, say the same as the two above.                         *)
LEMMA StreamAgrees ==
  ASSUME NEW s \in Seq(Event)
  PROVE  /\ Source!WellFormed([i \in DOMAIN s |-> s[i].kind]) <=> Good(s)
         /\ Source!InPart([i \in DOMAIN s |-> s[i].kind]) <=> IsInside(s)
<1> DEFINE kinds == [i \in DOMAIN s |-> s[i].kind]
<1>1. /\ kinds \in Seq({"Begin", "Data", "End", "Raw"})
      /\ Len(kinds) = Len(s) /\ Len(s) \in Nat
      /\ \A i \in 1..Len(s) : kinds[i] = s[i].kind
  BY KindsOfEvents, LenProperties
<1> HIDE DEF kinds
<1>2. Source!WellFormed(kinds) <=> Good(s)
  BY <1>1 DEF Source!WellFormed, Source!Allowed, Source!Opens, Good
<1>3. kinds # <<>> <=> Len(kinds) > 0
  BY <1>1, EmptySeq
<1>4. Source!InPart(kinds) <=> IsInside(s)
  BY <1>1, <1>3 DEF Source!InPart, Source!Opens, IsInside
<1> QED
  BY <1>2, <1>4 DEF kinds

(* An event that the protocol allows next keeps the stream well formed.    *)
LEMMA GoodAppend ==
  ASSUME NEW s \in Seq(Event), NEW e \in Event, Good(s),
         e.kind \in {"Data", "End"} <=> IsInside(s)
  PROVE  /\ Append(s, e) \in Seq(Event)
         /\ Good(Append(s, e))
         /\ IsInside(Append(s, e)) <=> e.kind \in {"Begin", "Data"}
<1> DEFINE t == Append(s, e)
<1>1. /\ t \in Seq(Event) /\ Len(t) = Len(s) + 1 /\ Len(s) \in Nat
      /\ \A i \in 1..Len(s) : t[i] = s[i]
      /\ t[Len(s) + 1] = e
  BY AppendProperties, LenProperties
<1> HIDE DEF t
<1>2. ASSUME NEW i \in 1..Len(t)
      PROVE  t[i].kind \in {"Data", "End"}
               <=> (i > 1 /\ t[i - 1].kind \in {"Begin", "Data"})
  <2>1. CASE i \in 1..Len(s)
    <3>1. i > 1 => i - 1 \in 1..Len(s)
      BY <1>1, <2>1
    <3>2. t[i] = s[i] /\ (i > 1 => t[i - 1] = s[i - 1])
      BY <1>1, <2>1, <3>1
    <3> QED
      BY <2>1, <3>2 DEF Good
  <2>2. CASE i = Len(s) + 1
    BY <1>1, <2>2 DEF IsInside
  <2> QED
    BY <1>1, <2>1, <2>2
<1>3. Good(t)
  BY <1>2 DEF Good
<1>4. IsInside(t) <=> e.kind \in {"Begin", "Data"}
  BY <1>1 DEF IsInside
<1> QED
  BY <1>1, <1>3, <1>4 DEF t

(* A well-formed stream has well-formed beginnings, and the event after    *)
(* one is one that the protocol allows.                                    *)
LEMMA GoodPrefix ==
  ASSUME NEW s \in Seq(Event), NEW e \in Event, NEW t \in Seq(Event),
         Good(Append(s, e) \o t)
  PROVE  /\ Good(s)
         /\ e.kind \in {"Data", "End"} <=> IsInside(s)
<1> DEFINE u == Append(s, e) \o t
<1>1. /\ Len(s) \in Nat /\ Len(t) \in Nat
      /\ Append(s, e) \in Seq(Event) /\ Len(Append(s, e)) = Len(s) + 1
      /\ \A i \in 1..Len(s) : Append(s, e)[i] = s[i]
      /\ Append(s, e)[Len(s) + 1] = e
  BY AppendProperties, LenProperties
<1>2. /\ Len(u) = Len(s) + 1 + Len(t)
      /\ \A i \in 1..(Len(s) + 1) : u[i] = Append(s, e)[i]
  BY <1>1, ConcatProperties
<1>3. /\ \A i \in 1..Len(s) : u[i] = s[i]
      /\ u[Len(s) + 1] = e
  BY <1>1, <1>2
<1>4. Good(u)
  OBVIOUS
<1> HIDE DEF u
<1>5. ASSUME NEW i \in 1..Len(s)
      PROVE  s[i].kind \in {"Data", "End"}
               <=> (i > 1 /\ s[i - 1].kind \in {"Begin", "Data"})
  <2>1. i \in 1..Len(u) /\ u[i] = s[i]
    BY <1>1, <1>2, <1>3
  <2>2. i > 1 => u[i - 1] = s[i - 1]
    BY <1>1, <1>3
  <2> QED
    BY <1>4, <2>1, <2>2 DEF Good
<1>6. e.kind \in {"Data", "End"} <=> IsInside(s)
  <2>1. Len(s) + 1 \in 1..Len(u)
    BY <1>1, <1>2
  <2>2. Len(s) > 0 => Len(s) \in 1..Len(s)
    BY <1>1
  <2>3. /\ u[Len(s) + 1].kind \in {"Data", "End"}
             <=> (Len(s) + 1 > 1 /\ u[(Len(s) + 1) - 1].kind \in {"Begin", "Data"})
        /\ (Len(s) + 1) - 1 = Len(s)
    BY <1>1, <1>4, <2>1 DEF Good
  <2> QED
    BY <1>1, <1>3, <2>2, <2>3 DEF IsInside
<1> QED
  BY <1>5, <1>6 DEF Good

-----------------------------------------------------------------------------
(* Taking an event keeps the stream, and the event is one that the         *)
(* protocol allows: from feed because the source keeps the protocol, from  *)
(* feed_eof because what it returned does (parser.py:139-140, 171).        *)
LEMMA TakeKeeps ==
  ASSUME StreamInv, NEW event \in Event, Take(event)
  PROVE  /\ StreamInv'
         /\ event.kind \in {"Data", "End"} <=> IsInside(delivered)
         /\ IsInside(delivered') <=> event.kind \in {"Begin", "Data"}
<1>1. /\ delivered \in Seq(Event) /\ left \in Seq(Event) /\ eof \in BOOLEAN
      /\ ~eof => left = <<>>
      /\ Good(delivered \o left)
  BY DEF StreamInv
<1>2. delivered' = Append(delivered, event) /\ eof' = eof
  BY DEF Take
<1>3. delivered' \in Seq(Event)
  BY <1>1, <1>2, AppendProperties
<1>4. CASE ~eof
  <2>1. left' = <<>> /\ left = <<>>
    BY <1>1, <1>4 DEF Take
  <2>2. Good(delivered')
    <3>1. Source!WellFormed([i \in DOMAIN delivered' |-> delivered'[i].kind])
      BY <1>4 DEF Take
    <3> QED
      BY <1>3, <3>1, StreamAgrees
  <2>3. delivered' \o <<>> = delivered' /\ <<>> \in Seq(Event)
    BY <1>3, ConcatEmptySeq
  <2>4. Append(delivered, event) \o <<>> = delivered'
    BY <1>2, <2>3
  <2>5. Good(delivered) /\ (event.kind \in {"Data", "End"} <=> IsInside(delivered))
    BY <1>1, <2>2, <2>3, <2>4, GoodPrefix
  <2>6. IsInside(delivered') <=> event.kind \in {"Begin", "Data"}
    BY <1>1, <1>2, <2>5, GoodAppend
  <2> QED
    BY <1>1, <1>2, <1>3, <1>4, <2>1, <2>2, <2>3, <2>5, <2>6 DEF StreamInv
<1>5. CASE eof
  <2>1. left # <<>> /\ event = Head(left) /\ left' = Tail(left)
    BY <1>5 DEF Take
  <2>2. /\ left' \in Seq(Event)
        /\ left = <<event>> \o left'
    BY <1>1, <2>1, HeadTailProperties
  <2>3. <<event>> \in Seq(Event) /\ delivered \o <<event>> = Append(delivered, event)
    BY <1>1, AppendIsConcat
  <2>4. delivered \o left = delivered' \o left'
    BY <1>1, <1>2, <2>2, <2>3, ConcatAssociative, SMTT(30)
  <2>5. Good(Append(delivered, event) \o left')
    BY <1>1, <1>2, <2>4
  <2>6. Good(delivered) /\ (event.kind \in {"Data", "End"} <=> IsInside(delivered))
    BY <1>1, <2>2, <2>5, GoodPrefix
  <2>7. IsInside(delivered') <=> event.kind \in {"Begin", "Data"}
    BY <1>1, <1>2, <2>6, GoodAppend
  <2> QED
    BY <1>1, <1>2, <1>3, <1>5, <2>2, <2>5, <2>6, <2>7 DEF StreamInv
<1> QED
  BY <1>1, <1>4, <1>5

(* What feed_eof returns continues the stream: inside a part its last data *)
(* and its end, outside a part that begins with the end of the input.      *)
LEMMA EofBatch ==
  ASSUME NEW inPart \in BOOLEAN, NEW outcome \in EofOutcomes(inPart),
         NEW s \in Seq(Event), Good(s), IsInside(s) <=> inPart
  PROVE  outcome.events \in Seq(Event) /\ Good(s \o outcome.events)
<1> DEFINE Data(n) == [kind |-> "Data", size |-> n]
           Begin(p) == [kind |-> "Begin", part |-> p]
           End == [kind |-> "End"]
<1>1. /\ \A n \in DataSizes : Data(n) \in Event /\ Data(n).kind = "Data"
      /\ \A p \in Parts : Begin(p) \in Event /\ Begin(p).kind = "Begin"
      /\ End \in Event /\ End.kind = "End"
  BY DEF Event
<1>2. \A d \in EofData : d = <<>> \/ \E n \in DataSizes : d = <<Data(n)>>
  BY DEF EofData
<1>3. ASSUME inPart
      PROVE  \/ outcome.events \in EofData
             \/ \E d \in EofData : outcome.events = d \o <<End>>
  <2>1. outcome.events \in EofData \/ outcome.events \in EofEnd
    BY <1>3 DEF EofOutcomes
  <2> QED
    BY <2>1 DEF EofEnd
<1>9. ASSUME ~inPart
      PROVE  \/ outcome.events = <<>>
             \/ \E p \in Parts, d \in EofData : outcome.events = <<Begin(p)>> \o d
  <2>1. outcome.events = <<>> \/ outcome.events \in EofBegin
    BY <1>9 DEF EofOutcomes
  <2> QED
    BY <2>1 DEF EofBegin
<1> HIDE DEF Data, Begin, End
<1>4. /\ <<>> \in Seq(Event) /\ s \o <<>> = s /\ \A e \in Event : <<e>> \in Seq(Event)
      /\ \A e \in Event : <<>> \o <<e>> = <<e>> /\ <<e>> \o <<>> = <<e>>
  BY ConcatEmptySeq
<1>5. ASSUME NEW e \in Event PROVE s \o <<e>> = Append(s, e)
  BY <1>4, AppendIsConcat
<1>6. ASSUME NEW e \in Event, NEW f \in Event
      PROVE  /\ <<e>> \o <<f>> \in Seq(Event)
             /\ s \o (<<e>> \o <<f>>) = Append(Append(s, e), f)
  <2>1. <<e>> \o <<f>> \in Seq(Event) /\ Append(s, e) \in Seq(Event)
    BY <1>4, AppendProperties, ConcatProperties
  <2>2. s \o (<<e>> \o <<f>>) = (s \o <<e>>) \o <<f>>
    BY <1>4, ConcatAssociative
  <2> QED
    BY <1>4, <1>5, <2>1, <2>2, AppendIsConcat, ZenonT(60)
<1>7. CASE inPart
  <2>1. ASSUME NEW n \in DataSizes
        PROVE  /\ Append(s, Data(n)) \in Seq(Event) /\ Good(Append(s, Data(n)))
               /\ IsInside(Append(s, Data(n)))
    BY <1>1, <1>7, GoodAppend
  <2>2. CASE outcome.events \in EofData
    BY <1>1, <1>2, <1>4, <1>5, <2>1, <2>2
  <2>3. CASE \E d \in EofData : outcome.events = d \o <<End>>
    <3>1. PICK d \in EofData : outcome.events = d \o <<End>>
      BY <2>3
    <3>2. CASE d = <<>>
      <4>1. outcome.events = <<End>>
        BY <1>1, <1>4, <3>1, <3>2
      <4>2. Good(Append(s, End))
        BY <1>1, <1>7, GoodAppend
      <4> QED
        BY <1>1, <1>4, <1>5, <4>1, <4>2
    <3>3. ASSUME NEW n \in DataSizes, d = <<Data(n)>>
          PROVE  outcome.events \in Seq(Event) /\ Good(s \o outcome.events)
      <4>1. Good(Append(Append(s, Data(n)), End))
        BY <1>1, <2>1, GoodAppend
      <4> QED
        BY <1>1, <1>6, <3>1, <3>3, <4>1
    <3> QED
      BY <1>2, <3>2, <3>3
  <2> QED
    BY <1>3, <1>7, <2>2, <2>3
<1>8. CASE ~inPart
  <2>1. CASE outcome.events = <<>>
    BY <1>4, <2>1
  <2>2. ASSUME NEW p \in Parts, NEW d \in EofData, outcome.events = <<Begin(p)>> \o d
        PROVE  outcome.events \in Seq(Event) /\ Good(s \o outcome.events)
    <3>1. /\ Append(s, Begin(p)) \in Seq(Event) /\ Good(Append(s, Begin(p)))
          /\ IsInside(Append(s, Begin(p)))
      BY <1>1, <1>8, GoodAppend
    <3>2. CASE d = <<>>
      BY <1>1, <1>4, <1>5, <2>2, <3>1, <3>2
    <3>3. ASSUME NEW n \in DataSizes, d = <<Data(n)>>
          PROVE  outcome.events \in Seq(Event) /\ Good(s \o outcome.events)
      <4>1. Good(Append(Append(s, Begin(p)), Data(n)))
        BY <1>1, <3>1, GoodAppend
      <4> QED
        BY <1>1, <1>6, <2>2, <3>3, <4>1
    <3> QED
      BY <1>2, <3>2, <3>3
  <2> QED
    BY <1>8, <1>9, <2>1, <2>2
<1> QED
  BY <1>7, <1>8
-----------------------------------------------------------------------------
Inv == StreamInv /\ PartInv

(* Nothing has arrived yet.                                                *)
LEMMA InitInv == Init => Inv
<1> SUFFICES ASSUME Init PROVE Inv
  OBVIOUS
<1>1. /\ delivered = <<>> /\ left = <<>> /\ eof = FALSE
      /\ pc = "raw" /\ part = {} /\ exception = "none"
  BY DEF Init
<1>2. <<>> \in Seq(Event) /\ <<>> \o <<>> = <<>> /\ Len(<<>>) = 0
  BY EmptySeq, ConcatEmptySeq
<1>3. Good(<<>>) /\ ~IsInside(<<>>)
  BY <1>2 DEF Good, IsInside
<1> QED
  BY <1>1, <1>2, <1>3 DEF Inv, StreamInv, PartInv

(* A step that takes no event leaves the stream as it is.                  *)
LEMMA QuietKeeps ==
  ASSUME StreamInv, UNCHANGED <<delivered, left, eof>>
  PROVE  StreamInv'
BY DEF StreamInv

(* Leaving the loop over the events needs no claim about the part.         *)
LEMMA LeavingKeeps ==
  ASSUME StreamInv', exception' # "Protocol",
         pc' \in {"aborting", "completing", "interrupting", "ended", "returned", "raised",
                  "escaped"}
  PROVE  Inv'
BY DEF Inv, PartInv

(* The handlers answer while a file is started, received or finished: the  *)
(* file being received stays the part, and the event is handled.           *)
LEMMA NewFileKeeps == Inv /\ NewFile => Inv'
<1> SUFFICES ASSUME Inv, NewFile PROVE Inv'
  OBVIOUS
<1>1. UNCHANGED <<delivered, left, eof>> /\ pc = "starting"
  BY DEF NewFile
<1>2. StreamInv' /\ IsInside(delivered) /\ part # {} /\ exception # "Protocol"
  BY <1>1, QuietKeeps DEF Inv, PartInv
<1>3. CASE part' = part /\ exception' = exception /\ pc' \in {"starting", "events"}
  BY <1>1, <1>2, <1>3 DEF Inv, PartInv
<1>4. ASSUME NEW open, SkipFile(open) PROVE Inv'
  <2>1. \/ pc' = "events" /\ exception' = exception /\ part' # {}
        \/ pc' = "aborting" /\ exception' = "HandlerError"
    BY <1>2, <1>4 DEF SkipFile, Resume, Abort, Goto
  <2> QED
    BY <1>1, <1>2, <2>1, LeavingKeeps DEF Inv, PartInv
<1>5. ASSUME NEW open, Stop(open) PROVE Inv'
  BY <1>2, <1>5, LeavingKeeps DEF Stop, Goto, Throw
<1>6. ASSUME Abort("HandlerError") PROVE Inv'
  BY <1>2, <1>6, LeavingKeeps DEF Abort, Goto
<1> QED
  BY <1>1, <1>3, <1>4, <1>5, <1>6 DEF NewFile, NextHandler, Goto

(* A chunk changes the part's counters, not that there is a part.          *)
LEMMA ReceiveChunkKeeps == Inv /\ ReceiveChunk => Inv'
<1> SUFFICES ASSUME Inv, ReceiveChunk PROVE Inv'
  OBVIOUS
<1>1. UNCHANGED <<delivered, left, eof>> /\ pc = "receiving"
  BY DEF ReceiveChunk
<1>2. StreamInv' /\ IsInside(delivered) /\ part # {} /\ exception # "Protocol"
  BY <1>1, QuietKeeps DEF Inv, PartInv
<1>3. CASE part' = Counted(at) /\ exception' = exception /\ pc' \in {"receiving", "events"}
  <2>1. part' # {}
    BY <1>2, <1>3 DEF Counted
  <2> QED
    BY <1>1, <1>2, <1>3, <2>1 DEF Inv, PartInv
<1>4. ASSUME SkipFile(file) PROVE Inv'
  <2>1. \/ pc' = "events" /\ exception' = exception /\ part' # {}
        \/ pc' = "aborting" /\ exception' = "HandlerError"
    BY <1>2, <1>4 DEF SkipFile, Resume, Abort, Goto
  <2> QED
    BY <1>1, <1>2, <2>1, LeavingKeeps DEF Inv, PartInv
<1>5. ASSUME Stop(file) PROVE Inv'
  BY <1>2, <1>5, LeavingKeeps DEF Stop, Goto, Throw
<1>6. ASSUME Abort("HandlerError") PROVE Inv'
  BY <1>2, <1>6, LeavingKeeps DEF Abort, Goto
<1> QED
  BY <1>1, <1>3, <1>4, <1>5, <1>6 DEF ReceiveChunk, NextHandler, Goto

(* When every handler has answered, the part is still open.                *)
LEMMA LoopEndsKeeps == Inv /\ LoopEnds => Inv'
<1> SUFFICES ASSUME Inv, LoopEnds PROVE Inv'
  OBVIOUS
<1>1. /\ UNCHANGED <<delivered, left, eof, part, exception>>
      /\ pc \in {"starting", "receiving"} /\ pc' = "events"
  BY DEF LoopEnds, Resume, Goto, partVars, requestVars
<1>2. StreamInv'
  BY <1>1, QuietKeeps DEF Inv
<1> QED
  BY <1>1, <1>2 DEF Inv, PartInv

(* The end of the part is already in the history; the part goes with the   *)
(* file_complete that returns the file.                                    *)
LEMMA FileCompleteKeeps == Inv /\ FileComplete => Inv'
<1> SUFFICES ASSUME Inv, FileComplete PROVE Inv'
  OBVIOUS
<1>1. UNCHANGED <<delivered, left, eof>> /\ pc = "finishing"
  BY DEF FileComplete
<1>2. StreamInv' /\ ~IsInside(delivered) /\ exception # "Protocol"
  BY <1>1, QuietKeeps DEF Inv, PartInv
<1>3. CASE NextHandler /\ exception' = exception
  BY <1>1, <1>2, <1>3 DEF NextHandler, Inv, PartInv
<1>4. CASE FileDone
  BY <1>1, <1>2, <1>4 DEF FileDone, Resume, Goto, Inv, PartInv
<1>5. CASE Stop(file)
  BY <1>2, <1>5, LeavingKeeps DEF Stop, Goto, Throw
<1>6. CASE Abort("HandlerError")
  BY <1>2, <1>6, LeavingKeeps DEF Abort, Goto
<1> QED
  BY <1>3, <1>4, <1>5, <1>6 DEF FileComplete

(* The same when no handler returned the file.                             *)
LEMMA NobodyKeeps == Inv /\ NobodyReturnsFile => Inv'
<1> SUFFICES ASSUME Inv, NobodyReturnsFile PROVE Inv'
  OBVIOUS
<1>1. /\ UNCHANGED <<delivered, left, eof, exception>>
      /\ pc = "finishing" /\ pc' = "events" /\ part' = {}
  BY DEF NobodyReturnsFile, FileDone, Resume, Goto, requestVars
<1>2. StreamInv'
  BY <1>1, QuietKeeps DEF Inv
<1> QED
  BY <1>1, <1>2 DEF Inv, PartInv
-----------------------------------------------------------------------------
(* The five handlers of events: the check each begins with never fires,    *)
(* and each leaves current_part set exactly when the part is still open.   *)
LEMMA PartBeginKeeps == Inv /\ PartBegin => Inv'
<1> SUFFICES ASSUME Inv, PartBegin PROVE Inv'
  OBVIOUS
<1> DEFINE event(p) == [kind |-> "Begin", part |-> p]
<1>1. PICK p \in Parts :
        /\ Take(event(p))
        /\ \/ part = {} /\ (BeginField(p) \/ BeginUnnamedFile(p) \/ BeginFile(p))
           \/ part # {}
  BY DEF PartBegin, HandleBegin
<1>2. event(p) \in Event /\ event(p).kind = "Begin" /\ pc = "events"
  BY <1>1 DEF Event, Take
<1>3. StreamInv' /\ ~IsInside(delivered) /\ IsInside(delivered') /\ exception # "Protocol"
  BY <1>1, <1>2, TakeKeeps DEF Inv, PartInv
<1>4. part = {}
  BY <1>2, <1>3 DEF Inv, PartInv
<1>5. CASE BeginField(p)
  <2>1. \/ pc' = "aborting" /\ exception' = "TooManyFields"
        \/ pc' = "events" /\ exception' = exception /\ part' = {NewPart(p)}
    BY <1>5 DEF BeginField, Abort, Resume, Goto
  <2> QED
    BY <1>3, <2>1, LeavingKeeps DEF Inv, PartInv
<1>6. CASE BeginUnnamedFile(p)
  <2>1. pc' = "events" /\ exception' = exception /\ part' = {NewPart(p)}
    BY <1>6 DEF BeginUnnamedFile, Resume, Goto
  <2> QED
    BY <1>3, <2>1 DEF Inv, PartInv
<1>7. CASE BeginFile(p)
  <2>1. \/ pc' = "aborting" /\ exception' = "TooManyFiles"
        \/ pc' \in {"starting", "events"} /\ exception' = exception /\ part' = {NewPart(p)}
    BY <1>7 DEF BeginFile, Abort, Resume, Goto
  <2> QED
    BY <1>3, <2>1, LeavingKeeps DEF Inv, PartInv
<1> QED
  BY <1>1, <1>4, <1>5, <1>6, <1>7

(* Data find a part, and leave it there (parser.py:148-153).               *)
LEMMA PartDataKeeps == Inv /\ PartData => Inv'
<1> SUFFICES ASSUME Inv, PartData PROVE Inv'
  OBVIOUS
<1> DEFINE event(n) == [kind |-> "Data", size |-> n]
<1>1. PICK size \in DataSizes :
        /\ Take(event(size))
        /\ \/ part = {}
           \/ \E p \in part : \/ ReceiveFieldData(p, size)
                              \/ ReceiveFileData(p, size)
                              \/ p.ignored /\ Resume("events") /\ UNCHANGED <<part, chunk>>
  BY DEF PartData, HandleData
<1>2. event(size) \in Event /\ event(size).kind = "Data" /\ pc = "events"
  BY <1>1 DEF Event, Take
<1>3. StreamInv' /\ IsInside(delivered) /\ IsInside(delivered') /\ exception # "Protocol"
  BY <1>1, <1>2, TakeKeeps DEF Inv, PartInv
<1>4. part # {}
  BY <1>2, <1>3 DEF Inv, PartInv
<1>5. ASSUME NEW p, ReceiveFieldData(p, size) PROVE Inv'
  <2>1. \/ pc' = "aborting" /\ exception' = "TooMuchData"
        \/ pc' = "events" /\ exception' = exception /\ part' = {Grown(p, size)}
    BY <1>5 DEF ReceiveFieldData, Abort, Resume, Goto
  <2> QED
    BY <1>3, <2>1, LeavingKeeps DEF Inv, PartInv
<1>6. ASSUME NEW p, ReceiveFileData(p, size) PROVE Inv'
  <2>1. /\ part' = part
        /\ \/ pc' = "aborting" /\ exception' = "BadBase64"
           \/ pc' \in {"receiving", "events"} /\ exception' = exception
    BY <1>6 DEF ReceiveFileData, Abort, Resume, Goto
  <2> QED
    BY <1>3, <1>4, <2>1, LeavingKeeps DEF Inv, PartInv
<1>7. CASE Resume("events") /\ part' = part
  BY <1>3, <1>4, <1>7 DEF Resume, Goto, Inv, PartInv
<1> QED
  BY <1>1, <1>4, <1>5, <1>6, <1>7

(* How _finish_part of a field leaves control.                             *)
LEMMA FinishFieldGoes ==
  ASSUME NEW p, NEW place, FinishField(p, place)
  PROVE  \/ pc' = place /\ exception' = exception
         \/ pc' = "aborting" /\ exception' = "TooMuchData"
BY DEF FinishField, Abort, Resume, Goto

(* An end finds a part, and resets it at once or after file_complete       *)
(* (parser.py:174-187).                                                    *)
LEMMA PartEndKeeps == Inv /\ PartEnd => Inv'
<1> SUFFICES ASSUME Inv, PartEnd PROVE Inv'
  OBVIOUS
<1> DEFINE event == [kind |-> "End"]
<1>1. /\ Take(event)
      /\ \/ part = {}
         \/ /\ \E p \in part : IF p.isFile THEN FinishFile(p) ELSE FinishField(p, "events")
            /\ \/ pc' = "events" /\ part' = {}
               \/ pc' # "events" /\ part' = part
  BY DEF PartEnd, HandleEnd
<1>2. event \in Event /\ event.kind = "End" /\ pc = "events"
  BY <1>1 DEF Event, Take
<1>3. StreamInv' /\ IsInside(delivered) /\ ~IsInside(delivered') /\ exception # "Protocol"
  BY <1>1, <1>2, TakeKeeps DEF Inv, PartInv
<1>4. part # {}
  BY <1>2, <1>3 DEF Inv, PartInv
<1>5. PICK p \in part : IF p.isFile THEN FinishFile(p) ELSE FinishField(p, "events")
  BY <1>1, <1>4
<1>6. \/ pc' \in {"events", "finishing"} /\ exception' = exception
      \/ pc' = "aborting" /\ exception' \in {"TooMuchData", "BadBase64"}
  <2>1. CASE FinishFile(p)
    BY <2>1 DEF FinishFile, Abort, Resume, Goto
  <2>2. CASE FinishField(p, "events")
    BY <2>2, FinishFieldGoes
  <2> QED
    BY <1>5, <2>1, <2>2
<1>7. CASE pc' = "events" /\ part' = {} /\ exception' = exception
  BY <1>3, <1>7 DEF Inv, PartInv
<1>8. CASE pc' = "finishing" /\ exception' = exception
  BY <1>3, <1>8 DEF Inv, PartInv
<1>9. CASE pc' = "aborting" /\ exception' \in {"TooMuchData", "BadBase64"}
  BY <1>3, <1>9, LeavingKeeps
<1> QED
  BY <1>1, <1>4, <1>6, <1>7, <1>8, <1>9

(* A raw segment comes outside the parts (parser.py:199).                  *)
LEMMA RawPartKeeps == Inv /\ RawPart => Inv'
<1> SUFFICES ASSUME Inv, RawPart PROVE Inv'
  OBVIOUS
<1> DEFINE event == [kind |-> "Raw"]
<1>1. Take(event)
  BY DEF RawPart
<1>2. event \in Event /\ event.kind = "Raw" /\ pc = "events"
  BY <1>1 DEF Event, Take
<1>3. StreamInv' /\ ~IsInside(delivered) /\ ~IsInside(delivered') /\ exception # "Protocol"
  BY <1>1, <1>2, TakeKeeps DEF Inv, PartInv
<1>4. part = {}
  BY <1>2, <1>3 DEF Inv, PartInv
<1>5. /\ part' = part
      /\ \/ pc' = "aborting" /\ exception' = "TooManyFields"
         \/ pc' = "events" /\ exception' = exception
  BY <1>4 DEF RawPart, HandleRaw, Abort, Resume, Goto
<1> QED
  BY <1>3, <1>4, <1>5, LeavingKeeps DEF Inv, PartInv

-----------------------------------------------------------------------------
(* The end of the input.                                                   *)
LEMMA FeedEofKeeps == Inv /\ FeedEof => Inv'
<1> SUFFICES ASSUME Inv, FeedEof PROVE Inv'
  OBVIOUS
<1> DEFINE inPart == Source!InPart([i \in DOMAIN delivered |-> delivered[i].kind])
<1>1. /\ pc = "events" /\ ~eof /\ eof' = TRUE
      /\ UNCHANGED <<pc, exception, part, delivered>>
  BY DEF FeedEof, EofReturns, partVars
<1>2. PICK outcome \in EofOutcomes(inPart) : left' = outcome.events
  BY DEF FeedEof, EofReturns
<1>3. /\ delivered \in Seq(Event) /\ left = <<>> /\ Good(delivered \o left)
      /\ delivered \o <<>> = delivered
  BY <1>1, ConcatEmptySeq DEF Inv, StreamInv
<1>4. (IsInside(delivered) <=> inPart) /\ inPart \in BOOLEAN
  BY <1>3, StreamAgrees DEF Source!InPart
<1> HIDE DEF inPart
<1>5. left' \in Seq(Event) /\ Good(delivered \o left')
  BY <1>2, <1>3, <1>4, EofBatch
<1>6. StreamInv'
  BY <1>1, <1>3, <1>5 DEF StreamInv
<1> QED
  BY <1>1, <1>6 DEF Inv, PartInv

(* finish() and the field that it may keep end the loop over the events.   *)
LEMMA FinishKeeps == Inv /\ Finish => Inv'
<1> SUFFICES ASSUME Inv, Finish PROVE Inv'
  OBVIOUS
<1>1. UNCHANGED <<delivered, left, eof>>
  BY DEF Finish, requestVars
<1>2. \/ pc' = "ended" /\ exception' = exception
      \/ pc' = "aborting" /\ exception' = "TooMuchData"
  <2>1. CASE \E p \in part : FinishField(p, "ended")
    BY <2>1, FinishFieldGoes
  <2>2. CASE Resume("ended")
    BY <2>2 DEF Resume, Goto
  <2> QED
    BY <2>1, <2>2 DEF Finish
<1>3. exception' # "Protocol"
  BY <1>2 DEF Inv, PartInv
<1> QED
  BY <1>1, <1>2, <1>3, QuietKeeps, LeavingKeeps DEF Inv

(* What feed or a read raises ends the loop over the events.               *)
LEMMA SourceFailsKeeps == Inv /\ SourceFails => Inv'
<1> SUFFICES ASSUME Inv, SourceFails PROVE Inv'
  OBVIOUS
<1>1. /\ ~eof /\ eof' \in BOOLEAN /\ UNCHANGED <<delivered, left>>
      /\ pc' = "aborting" /\ exception' = "ParserError"
  BY DEF SourceFails, Abort, Goto
<1>2. StreamInv'
  BY <1>1 DEF Inv, StreamInv
<1> QED
  BY <1>1, <1>2, LeavingKeeps

(* Before the events, and after them.                                      *)
LEMMA OutsideKeeps ==
  ASSUME Inv,
         \/ BeforeParsing \/ Succeed \/ InterruptUpload \/ AbortUpload \/ UploadComplete
         \/ Done \/ UNCHANGED vars
  PROVE  Inv'
<1> USE DEF Goto, Resume, Abort, Throw, NextHandler
<1>1. UNCHANGED <<delivered, left, eof>>
  BY DEF BeforeParsing, Succeed, InterruptUpload, AbortUpload, UploadComplete, Done,
         requestVars, vars
<1>2. StreamInv' /\ exception # "Protocol"
  BY <1>1, QuietKeeps DEF Inv, PartInv
<1>3. CASE BeforeParsing
  <2>1. /\ UNCHANGED part /\ pc = "raw"
        /\ \/ pc' \in {"raw", "events"} /\ exception' = exception
           \/ pc' \in {"returned", "escaped"}
                /\ exception' \in {exception, "HandlerError", "ParserError"}
    BY <1>3 DEF BeforeParsing, partVars
  <2> QED
    BY <1>1, <1>2, <2>1, LeavingKeeps DEF Inv, PartInv
<1>4. CASE Succeed \/ InterruptUpload \/ AbortUpload \/ UploadComplete
  <2>1. /\ pc' \in {"aborting", "completing", "interrupting", "ended", "returned", "raised",
                    "escaped"}
        /\ exception' \in {exception, "HandlerError", "TooManyFields"}
    BY <1>4 DEF Succeed, InterruptUpload, AbortUpload, UploadComplete
  <2> QED
    BY <1>2, <2>1, LeavingKeeps
<1>5. CASE Done \/ UNCHANGED vars
  BY <1>5, <1>1, <1>2 DEF Done, vars, Inv, PartInv
<1> QED
  BY <1>3, <1>4, <1>5

-----------------------------------------------------------------------------
(* Every step keeps the stream and the part in step with each other.       *)
LEMMA NextInv == Inv /\ [Next]_vars => Inv'
BY NewFileKeeps, ReceiveChunkKeeps, LoopEndsKeeps, FileCompleteKeeps, NobodyKeeps,
   PartBeginKeeps, PartDataKeeps, PartEndKeeps, RawPartKeeps, FeedEofKeeps, FinishKeeps,
   SourceFailsKeeps, OutsideKeeps DEF Next

(***************************************************************************)
(* For any number of upload handlers, whatever they answer and however the *)
(* parser's events are batched, no check of _parse that answers `Received  *)
(* ...' for an event out of place fires (parser.py:143-158, 174-187,       *)
(* 320-323): current_part is set exactly inside a part of the stream.      *)
(***************************************************************************)
THEOREM DefensiveCorrect == Spec => []DefensiveErrorsUnreachable
<1>1. Init => Inv
  BY InitInv
<1>2. Inv /\ [Next]_vars => Inv'
  BY NextInv
<1>3. Inv => DefensiveErrorsUnreachable
  BY DEF Inv, PartInv, DefensiveErrorsUnreachable
<1> QED
  BY <1>1, <1>2, <1>3, PTL DEF Spec

-----------------------------------------------------------------------------
(* The types, in groups that a step leaves alone or changes together.      *)
Places == {"raw", "events", "starting", "receiving", "finishing", "interrupting", "aborting",
           "ended", "completing", "returned", "raised", "escaped"}
FileStates == {"none", "open", "handed over", "closed", "failed"}
Calls == {"none", "new_file", "receive_data_chunk", "file_complete", "upload_interrupted",
          "upload_complete"}
CallRecord ==
  [call : Calls, file : Nat, told : BOOLEAN, start : Nat, end : Nat, times : Nat]
PartRecord == [name : SUBSET Nat, isFile : BOOLEAN, ignored : BOOLEAN, base64 : BOOLEAN,
               data : Nat, counters : [Handlers -> Nat]]

ControlType == pc \in Places /\ at \in 1..(HandlerCount + 1) /\ exception \in Exceptions

FlagType ==
  /\ terminalRaw \in BOOLEAN /\ exact \in BOOLEAN /\ unfinished \in BOOLEAN
  /\ drained \in BOOLEAN
  /\ before \in {"End", "Body", "Other"} /\ final \in {"End", "Body", "Other"}

AccountType ==
  /\ fieldBytes \in Nat /\ fieldCount \in Nat /\ fileCount \in Nat
  /\ post \in Seq([name : Nat, size : Nat]) /\ files \in Seq(Handlers)

HandlerType == file \in [Handlers -> FileStates] /\ heard \in [Handlers -> CallRecord]

(* A part that is not ignored has a name, which the cost of a field and    *)
(* the entry that it becomes in POST take (parser.py:386-397).             *)
NamedPart(p) == p \in PartRecord /\ (p.name = {} => p.ignored)
PartType == part = {} \/ \E p : NamedPart(p) /\ part = {p}
ChunkType == chunk \in DataSizes \cup {0}

ShapeInv == ControlType /\ FlagType /\ AccountType /\ HandlerType /\ PartType /\ ChunkType

-----------------------------------------------------------------------------
(* Types.                                                                  *)

LEMMA PlaceType ==
  /\ HandlerCount \in Nat /\ 1 \in 1..(HandlerCount + 1)
  /\ \A h \in Handlers : h + 1 \in 1..(HandlerCount + 1) /\ h \in Nat /\ h >= 1
BY UploadAssumption DEF Handlers

(* Where control goes is one of the places, at one of the turns.           *)
LEMMA GotoType ==
  ASSUME ControlType,
         \/ at \in Handlers /\ NextHandler /\ UNCHANGED exception
         \/ \E place \in Places :
              \/ Resume(place)
              \/ Goto(place) /\ exception' \in Exceptions
         \/ \E reason \in Exceptions : Abort(reason) \/ Throw(reason)
  PROVE  ControlType'
BY PlaceType DEF ControlType, NextHandler, Resume, Goto, Abort, Throw, Places

(* The files stay files whether all of them or only some are closed.       *)
LEMMA CloseType ==
  ASSUME NEW open \in [Handlers -> FileStates], CloseFiles(open) \/ CloseFails(open)
  PROVE  file' \in [Handlers -> FileStates]
<1>1. CASE CloseFiles(open)
  BY <1>1 DEF CloseFiles, FileStates
<1>2. CASE CloseFails(open)
  <2>1. PICK h \in Handlers :
          file' = [g \in Handlers |-> CASE g = h -> "failed"
                                        [] g < h /\ open[g] # "none" -> "closed"
                                        [] OTHER -> open[g]]
    BY <1>2 DEF CloseFails
  <2>2. ASSUME NEW g \in Handlers
        PROVE  (CASE g = h -> "failed"
                  [] g < h /\ open[g] # "none" -> "closed"
                  [] OTHER -> open[g]) \in FileStates
    BY DEF FileStates
  <2> QED
    BY <2>1, <2>2
<1> QED
  BY <1>1, <1>2

(* How the answers of a handler about the file being received leave what   *)
(* they may change.                                                        *)
AnswerType ==
  ControlType /\ drained \in BOOLEAN /\ file \in [Handlers -> FileStates] /\ PartType

(* A StopUpload, from whatever handler and with whatever files open.       *)
LEMMA StopType ==
  ASSUME ShapeInv, NEW open \in [Handlers -> FileStates], Stop(open), UNCHANGED part
  PROVE  AnswerType'
<1>1. /\ "completing" \in Places
      /\ "StopUpload" \in Exceptions /\ "ReadError" \in Exceptions /\ "HandlerError" \in Exceptions
  BY DEF Places, Exceptions
<1>2. ControlType'
  BY <1>1, GotoType DEF Stop, ShapeInv
<1>3. drained' \in BOOLEAN
  BY DEF Stop, ShapeInv, FlagType
<1>4. file' \in [Handlers -> FileStates]
  BY CloseType DEF Stop
<1>5. PartType'
  BY DEF ShapeInv, PartType
<1> QED
  BY <1>2, <1>3, <1>4, <1>5 DEF AnswerType

(* A SkipFile makes the part an ignored one.                               *)
LEMMA SkipType ==
  ASSUME ShapeInv, NEW open \in [Handlers -> FileStates], SkipFile(open)
  PROVE  AnswerType'
<1>1. "events" \in Places /\ "HandlerError" \in Exceptions
  BY DEF Places, Exceptions
<1>2. ControlType'
  BY <1>1, GotoType DEF SkipFile, ShapeInv
<1>3. drained' \in BOOLEAN
  BY DEF SkipFile, ShapeInv, FlagType
<1>4. file' \in [Handlers -> FileStates]
  BY CloseType DEF SkipFile
<1>5. PartType'
  <2>1. part' = part \/ part' = {[p EXCEPT !.ignored = TRUE] : p \in part}
    BY DEF SkipFile
  <2>2. ASSUME NEW p, NamedPart(p) PROVE NamedPart([p EXCEPT !.ignored = TRUE])
    BY <2>2 DEF NamedPart, PartRecord
  <2>3. CASE part = {}
    BY <2>1, <2>3 DEF PartType
  <2>4. ASSUME NEW p, NamedPart(p), part = {p} PROVE PartType'
    <3>1. part' = {p} \/ part' = {[p EXCEPT !.ignored = TRUE]}
      BY <2>1, <2>4
    <3> QED
      BY <2>2, <2>4, <3>1 DEF PartType
  <2> QED
    BY <2>3, <2>4 DEF ShapeInv, PartType
<1> QED
  BY <1>2, <1>3, <1>4, <1>5 DEF AnswerType

(* Any other exception of a handler.                                       *)
LEMMA ErrorType ==
  ASSUME ShapeInv, Abort("HandlerError"), file' \in [Handlers -> FileStates],
         UNCHANGED <<part, drained>>
  PROVE  AnswerType'
<1>1. "HandlerError" \in Exceptions
  BY DEF Exceptions
<1>2. ControlType'
  BY <1>1, GotoType DEF ShapeInv
<1> QED
  BY <1>2 DEF AnswerType, ShapeInv, FlagType, PartType

(* A call is the last that its handler got, so many times on end.          *)
LEMMA CallCounts ==
  ASSUME HandlerType, NEW h \in Handlers, NEW call, NEW told, NEW start, NEW end,
         Call(h, call, told, start, end)
  PROVE  \E times \in Nat :
           heard' = [heard EXCEPT ![h] = CallMade(call, told, start, end, times)]
<1> DEFINE same == heard[h] = CallMade(call, told, start, end, heard[h].times)
           times == IF same THEN heard[h].times + 1 ELSE 1
<1>1. heard[h] \in CallRecord
  BY DEF HandlerType
<1>2. heard[h].times \in Nat
  BY <1>1 DEF CallRecord
<1>3. times \in Nat
  BY <1>2
<1>4. heard' = [heard EXCEPT ![h] = CallMade(call, told, start, end, times)]
  BY DEF Call
<1> HIDE DEF times
<1> QED
  BY <1>3, <1>4

(* A call is recorded as one.                                              *)
LEMMA CallType ==
  ASSUME ShapeInv, NEW h \in Handlers, NEW call \in Calls, NEW told \in BOOLEAN,
         NEW start \in Nat, NEW end \in Nat, Call(h, call, told, start, end)
  PROVE  /\ heard' \in [Handlers -> CallRecord]
         /\ heard'[h] = [call |-> call, file |-> fileCount, told |-> told,
                         start |-> start, end |-> end,
                         times |-> heard'[h].times]
         /\ \A g \in Handlers \ {h} : heard'[g] = heard[g]
<1>1. PICK times \in Nat :
        /\ heard' \in [Handlers -> CallRecord]
        /\ heard'[h] = CallMade(call, told, start, end, times)
        /\ \A g \in Handlers \ {h} : heard'[g] = heard[g]
  <2>1. HandlerType /\ fileCount \in Nat
    BY DEF ShapeInv, AccountType
  <2>2. PICK times \in Nat :
          heard' = [heard EXCEPT ![h] = CallMade(call, told, start, end, times)]
    BY <2>1, CallCounts
  <2>3. CallMade(call, told, start, end, times) \in CallRecord
    BY <2>1 DEF CallMade, CallRecord
  <2> QED
    BY <2>1, <2>2, <2>3 DEF HandlerType
<1>2. heard'[h].times = times
  BY <1>1 DEF CallMade
<1> QED
  BY <1>1, <1>2 DEF CallMade

(* What has been taken from the stream does not matter to the types.       *)
LEMMA TakeType ==
  ASSUME ShapeInv, NEW event, Take(event)
  PROVE  /\ UNCHANGED <<exact, drained, before, final>>
         /\ pc = "events"
BY DEF Take

(* A part that is begun.                                                   *)
LEMMA NewPartType ==
  ASSUME NEW p \in Parts
  PROVE  NamedPart(NewPart(p)) /\ p \in PartHeaders
<1>1. p \in PartHeaders
  BY UploadAssumption
<1>2. Counters \in [Handlers -> Nat]
  BY DEF Counters
<1> QED
  BY <1>1, <1>2 DEF NamedPart, NewPart, PartRecord, PartHeaders

(* All that is left of the types when a handler has answered.              *)
LEMMA AnswersShape ==
  ASSUME ShapeInv, AnswerType', heard' \in [Handlers -> CallRecord], ChunkType',
         UNCHANGED <<before, final, exact, fieldBytes, fieldCount, fileCount, post>>,
         terminalRaw' \in BOOLEAN, unfinished' \in BOOLEAN, files' \in Seq(Handlers)
  PROVE  ShapeInv'
<1>1. FlagType'
  BY DEF ShapeInv, AnswerType, FlagType
<1>2. AccountType'
  BY DEF ShapeInv, AccountType
<1> QED
  BY <1>1, <1>2 DEF ShapeInv, AnswerType, HandlerType

-----------------------------------------------------------------------------
LEMMA InitShape == Init => ShapeInv
<1> SUFFICES ASSUME Init PROVE ShapeInv
  OBVIOUS
<1>1. ControlType
  BY PlaceType DEF Init, ControlType, Places, Exceptions
<1>2. FlagType
  BY DEF Init, FlagType
<1>3. AccountType
  BY EmptySeq DEF Init, AccountType
<1>4. HandlerType
  <2>1. NoCall \in CallRecord
    BY DEF NoCall, CallRecord, Calls
  <2> QED
    BY <2>1 DEF Init, HandlerType, FileStates
<1>5. PartType /\ ChunkType
  BY DEF Init, PartType, ChunkType
<1> QED
  BY <1>1, <1>2, <1>3, <1>4, <1>5 DEF ShapeInv

LEMMA PartBeginShape == ShapeInv /\ PartBegin => ShapeInv'
<1> SUFFICES ASSUME ShapeInv, PartBegin PROVE ShapeInv'
  OBVIOUS
<1>1. PICK p \in Parts : Take([kind |-> "Begin", part |-> p]) /\ HandleBegin(p)
  BY DEF PartBegin
<1>2. NamedPart(NewPart(p))
  BY NewPartType
<1>3. ControlType'
  <2>1. /\ {"events", "starting"} \subseteq Places
        /\ {"TooManyFields", "TooManyFiles", "Protocol"} \subseteq Exceptions
    BY DEF Places, Exceptions
  <2>2. \/ \E place \in Places : Resume(place)
        \/ \E reason \in Exceptions : Abort(reason)
    BY <1>1, <2>1 DEF HandleBegin, BeginField, BeginUnnamedFile, BeginFile
  <2> QED
    BY <2>2, GotoType DEF ShapeInv
<1>4. FlagType'
  <2>1. UNCHANGED <<exact, drained, before, final>> /\ terminalRaw' = FALSE
    BY <1>1, TakeType DEF HandleBegin
  <2>2. unfinished' \in {unfinished, Unfinished(p)}
    BY <1>1 DEF HandleBegin, BeginField, BeginUnnamedFile, BeginFile
  <2> QED
    BY <2>1, <2>2 DEF ShapeInv, FlagType, Unfinished
<1>5. AccountType'
  <2>1. /\ UNCHANGED <<fieldBytes, post, files>>
        /\ fieldCount' \in {fieldCount, fieldCount + 1}
        /\ fileCount' \in {fileCount, fileCount + 1}
    BY <1>1 DEF HandleBegin, BeginField, BeginUnnamedFile, BeginFile
  <2> QED
    BY <2>1 DEF ShapeInv, AccountType
<1>6. HandlerType'
  BY <1>1 DEF HandleBegin, handlerVars, ShapeInv, HandlerType
<1>7. PartType' /\ ChunkType'
  <2>1. chunk' = chunk /\ part' \in {part, {NewPart(p)}}
    BY <1>1 DEF HandleBegin, BeginField, BeginUnnamedFile, BeginFile
  <2> QED
    BY <1>2, <2>1 DEF ShapeInv, PartType, ChunkType
<1> QED
  BY <1>3, <1>4, <1>5, <1>6, <1>7 DEF ShapeInv

LEMMA NewFileShape == ShapeInv /\ NewFile => ShapeInv'
<1> SUFFICES ASSUME ShapeInv, NewFile PROVE ShapeInv'
  OBVIOUS
<1>1. /\ at \in Handlers /\ file \in [Handlers -> FileStates]
      /\ Opened(at) \in [Handlers -> FileStates]
  BY DEF NewFile, ShapeInv, HandlerType, Opened, FileStates
<1>2. heard' \in [Handlers -> CallRecord]
  BY <1>1, CallType DEF NewFile, Calls
<1>3. AnswerType'
  <2>1. CASE /\ NextHandler \/ Goto("events")
             /\ file' = Opened(at) /\ UNCHANGED <<part, exception, drained>>
    <3>1. ControlType'
      BY <1>1, <2>1, GotoType DEF ShapeInv, Resume, Places
    <3> QED
      BY <1>1, <2>1, <3>1 DEF AnswerType, ShapeInv, FlagType, PartType
  <2>2. ASSUME NEW open \in [Handlers -> FileStates], SkipFile(open) PROVE AnswerType'
    BY <2>2, SkipType
  <2>3. ASSUME NEW open \in [Handlers -> FileStates], Stop(open), UNCHANGED part
        PROVE  AnswerType'
    BY <2>3, StopType
  <2>4. ASSUME NEW open \in [Handlers -> FileStates], Abort("HandlerError"), file' = open,
               UNCHANGED <<part, drained>>
        PROVE  AnswerType'
    BY <2>4, ErrorType
  <2> QED
    BY <1>1, <2>1, <2>2, <2>3, <2>4 DEF NewFile
<1>4. /\ UNCHANGED <<chunk, terminalRaw, unfinished, before, final, exact>>
      /\ UNCHANGED <<fieldBytes, fieldCount, fileCount, post, files>>
  BY DEF NewFile, accountVars
<1> QED
  BY <1>2, <1>3, <1>4, AnswersShape DEF ShapeInv, FlagType, AccountType, ChunkType

(* Data of a field make it grow, data of a file are handed on.             *)
LEMMA PartDataShape == ShapeInv /\ PartData => ShapeInv'
<1> SUFFICES ASSUME ShapeInv, PartData PROVE ShapeInv'
  OBVIOUS
<1>1. PICK size \in DataSizes : Take([kind |-> "Data", size |-> size]) /\ HandleData(size)
  BY DEF PartData
<1>2. ControlType'
  <2>1. /\ {"events", "receiving"} \subseteq Places
        /\ {"TooMuchData", "BadBase64", "Protocol"} \subseteq Exceptions
    BY DEF Places, Exceptions
  <2>2. \/ \E place \in Places : Resume(place)
        \/ \E reason \in Exceptions : Abort(reason)
    BY <1>1, <2>1 DEF HandleData, ReceiveFieldData, ReceiveFileData
  <2> QED
    BY <2>2, GotoType DEF ShapeInv
<1>3. PartType' /\ ChunkType'
  <2>1. CASE part' = part /\ chunk' = chunk
    BY <2>1 DEF ShapeInv, PartType, ChunkType
  <2>2. ASSUME NEW p \in part, ReceiveFieldData(p, size) PROVE PartType' /\ ChunkType'
    <3>1. NamedPart(p) /\ size \in Nat
      BY <2>2, UploadAssumption DEF ShapeInv, PartType
    <3>2. NamedPart(Grown(p, size))
      BY <3>1 DEF NamedPart, PartRecord, Grown
    <3> QED
      BY <2>2, <3>2 DEF ReceiveFieldData, ShapeInv, PartType, ChunkType
  <2>3. ASSUME NEW p \in part, ReceiveFileData(p, size) PROVE PartType' /\ ChunkType'
    <3>1. part' = part /\ chunk' \in DataSizes \cup {0}
      BY <2>3 DEF ReceiveFileData, ShapeInv, ChunkType
    <3> QED
      BY <3>1 DEF ShapeInv, PartType, ChunkType
  <2> QED
    BY <1>1, <2>1, <2>2, <2>3 DEF HandleData
<1>4. /\ UNCHANGED <<exact, drained, before, final, terminalRaw, unfinished>>
      /\ UNCHANGED <<fieldBytes, fieldCount, fileCount, post, files, file, heard>>
  BY <1>1, TakeType DEF HandleData, accountVars, handlerVars
<1>5. FlagType' /\ AccountType' /\ HandlerType'
  BY <1>4 DEF ShapeInv, FlagType, AccountType, HandlerType
<1> QED
  BY <1>2, <1>3, <1>5 DEF ShapeInv

(* A handler's counter moves by the length of a chunk.                     *)
LEMMA ReceiveChunkShape == ShapeInv /\ ReceiveChunk => ShapeInv'
<1> SUFFICES ASSUME ShapeInv, ReceiveChunk PROVE ShapeInv'
  OBVIOUS
<1>1. /\ at \in Handlers /\ file \in [Handlers -> FileStates] /\ chunk \in Nat
      /\ heard \in [Handlers -> CallRecord] /\ fileCount \in Nat
  <2>1. at \in Handlers
    BY DEF ReceiveChunk
  <2>2. chunk \in Nat
    BY UploadAssumption DEF ShapeInv, ChunkType
  <2> QED
    BY <2>1, <2>2 DEF ShapeInv, HandlerType, AccountType
<1>2. PICK p \in part :
        Call(at, "receive_data_chunk", Told(at), p.counters[at], p.counters[at] + chunk)
  BY DEF ReceiveChunk
<1>3. NamedPart(p) /\ part = {p} /\ p.counters \in [Handlers -> Nat] /\ p.counters[at] \in Nat
  BY <1>1, <1>2 DEF ShapeInv, PartType, NamedPart, PartRecord
<1>4. heard' \in [Handlers -> CallRecord]
  <2>1. Told(at) \in BOOLEAN
    BY <1>1 DEF Told, CallRecord
  <2>2. p.counters[at] + chunk \in Nat /\ "receive_data_chunk" \in Calls
    BY <1>1, <1>3 DEF Calls
  <2> QED
    BY <1>1, <1>2, <1>3, <2>1, <2>2, CallType
<1>5. AnswerType'
  <2>1. CASE /\ NextHandler \/ Goto("events")
             /\ part' = Counted(at) /\ UNCHANGED <<exception, drained, file>>
    <3>1. ControlType'
      BY <1>1, <2>1, GotoType DEF ShapeInv, Resume, Places
    <3>2. part' = {[p EXCEPT !.counters[at] = @ + chunk]}
      BY <1>3, <2>1 DEF Counted
    <3>3. NamedPart([p EXCEPT !.counters[at] = @ + chunk])
      BY <1>1, <1>3 DEF NamedPart, PartRecord
    <3>4. PartType'
      BY <3>2, <3>3 DEF PartType
    <3> QED
      BY <1>1, <2>1, <3>1, <3>4 DEF AnswerType, ShapeInv, FlagType
  <2>2. CASE SkipFile(file)
    BY <1>1, <2>2, SkipType
  <2>3. CASE Stop(file) /\ UNCHANGED part
    BY <1>1, <2>3, StopType
  <2>4. CASE Abort("HandlerError") /\ UNCHANGED <<part, drained, file>>
    BY <1>1, <2>4, ErrorType
  <2> QED
    BY <2>1, <2>2, <2>3, <2>4 DEF ReceiveChunk
<1>6. /\ UNCHANGED <<terminalRaw, unfinished, before, final, exact>>
      /\ UNCHANGED <<fieldBytes, fieldCount, fileCount, post, files>>
  BY DEF ReceiveChunk, accountVars
<1>7. ChunkType'
  BY DEF ReceiveChunk, ShapeInv, ChunkType
<1> QED
  BY <1>4, <1>5, <1>6, <1>7, AnswersShape DEF ShapeInv, FlagType, AccountType

(* What a finished field adds to the account: a name, a size and their     *)
(* cost.                                                                   *)
LEMMA FinishFieldType ==
  ASSUME ShapeInv, NEW p \in part, NEW place \in Places, FinishField(p, place)
  PROVE  /\ ControlType'
         /\ fieldBytes' \in Nat /\ post' \in Seq([name : Nat, size : Nat])
<1>1. NamedPart(p) /\ fieldBytes \in Nat /\ post \in Seq([name : Nat, size : Nat])
  BY DEF ShapeInv, PartType, AccountType
<1>2. ControlType'
  <2>1. "TooMuchData" \in Exceptions
    BY DEF Exceptions
  <2> QED
    BY <2>1, GotoType DEF FinishField, ShapeInv
<1>3. CASE UNCHANGED <<fieldBytes, post>>
  BY <1>1, <1>2, <1>3
<1>4. ASSUME ~p.ignored, fieldBytes' = fieldBytes + FieldCost(p), NEW size \in ValueSizes(p),
             post' = Append(post, [name |-> CHOOSE n \in p.name : TRUE, size |-> size])
      PROVE  fieldBytes' \in Nat /\ post' \in Seq([name : Nat, size : Nat])
  <2>1. (CHOOSE n \in p.name : TRUE) \in Nat /\ p.data \in Nat
    BY <1>1, <1>4 DEF NamedPart, PartRecord
  <2>2. size \in Nat
    <3>1. CASE size = p.data
      BY <2>1, <3>1
    <3> DEFINE groups == p.data \div 4
    <3>2. groups \in Nat
      BY <2>1
    <3>3. \/ size = p.data
          \/ \E n \in 1..groups : size = 3 * n
          \/ groups > 0 /\ \E padding \in 1..2 : size = 3 * groups - padding
      BY <1>4 DEF ValueSizes
    <3> HIDE DEF groups
    <3> QED
      BY <3>1, <3>2, <3>3
  <2> QED
    BY <1>1, <1>4, <2>1, <2>2, AppendProperties DEF FieldCost
<1> QED
  BY <1>2, <1>3, <1>4 DEF FinishField

LEMMA PartEndShape == ShapeInv /\ PartEnd => ShapeInv'
<1> SUFFICES ASSUME ShapeInv, PartEnd PROVE ShapeInv'
  OBVIOUS
<1>1. Take([kind |-> "End"]) /\ HandleEnd
  BY DEF PartEnd
<1>2. /\ {"events", "finishing"} \subseteq Places /\ {"BadBase64", "Protocol"} \subseteq Exceptions
      /\ fieldBytes \in Nat /\ post \in Seq([name : Nat, size : Nat])
  BY DEF Places, Exceptions, ShapeInv, AccountType
<1>3. /\ ControlType'
      /\ fieldBytes' \in Nat /\ post' \in Seq([name : Nat, size : Nat])
  <2>1. CASE Abort("Protocol") /\ UNCHANGED <<fieldBytes, post>>
    BY <1>2, <2>1, GotoType DEF ShapeInv
  <2>2. ASSUME NEW p \in part, FinishFile(p)
        PROVE  ControlType' /\ UNCHANGED <<fieldBytes, post>>
    <3>1. \/ \E place \in Places : Resume(place)
          \/ \E reason \in Exceptions : Abort(reason)
      BY <1>2, <2>2 DEF FinishFile
    <3> QED
      BY <2>2, <3>1, GotoType DEF FinishFile, ShapeInv
  <2>3. ASSUME NEW p \in part, FinishField(p, "events")
        PROVE  /\ ControlType'
               /\ fieldBytes' \in Nat /\ post' \in Seq([name : Nat, size : Nat])
    BY <1>2, <2>3, FinishFieldType
  <2> QED
    BY <1>1, <1>2, <2>1, <2>2, <2>3 DEF HandleEnd
<1>4. part' \in {part, {}} /\ terminalRaw' \in {terminalRaw, TRUE}
  BY <1>1 DEF HandleEnd
<1>5. PartType'
  BY <1>4 DEF ShapeInv, PartType
<1>6. UNCHANGED <<exact, drained, before, final, chunk, fieldCount, fileCount, unfinished,
                  files, file, heard>>
  BY <1>1, TakeType DEF HandleEnd, handlerVars
<1>7. FlagType' /\ HandlerType' /\ ChunkType'
  BY <1>4, <1>6 DEF ShapeInv, FlagType, HandlerType, ChunkType
<1>8. AccountType'
  BY <1>3, <1>6 DEF ShapeInv, AccountType
<1> QED
  BY <1>3, <1>5, <1>7, <1>8 DEF ShapeInv

(* A file is offered to the handlers in turn.                              *)
LEMMA FileCompleteShape == ShapeInv /\ FileComplete => ShapeInv'
<1> SUFFICES ASSUME ShapeInv, FileComplete PROVE ShapeInv'
  OBVIOUS
<1>1. /\ at \in Handlers /\ file \in [Handlers -> FileStates]
      /\ heard \in [Handlers -> CallRecord]
  BY DEF FileComplete, ShapeInv, HandlerType
<1>2. heard' \in [Handlers -> CallRecord]
  <2>1. PICK p \in part : Call(at, "file_complete", Told(at), 0, p.counters[at])
    BY DEF FileComplete
  <2>2. Told(at) \in BOOLEAN
    BY <1>1 DEF Told, CallRecord
  <2>3. p.counters[at] \in Nat /\ 0 \in Nat /\ "file_complete" \in Calls
    BY <1>1, <2>1 DEF Calls, ShapeInv, PartType, NamedPart, PartRecord
  <2> QED
    BY <1>1, <2>1, <2>2, <2>3, CallType
<1>3. AnswerType'
  <2>1. CASE NextHandler /\ UNCHANGED <<part, exception, drained, file>>
    <3>1. ControlType'
      BY <1>1, <2>1, GotoType DEF ShapeInv
    <3> QED
      BY <1>1, <2>1, <3>1 DEF AnswerType, ShapeInv, FlagType, PartType
  <2>2. CASE /\ file' = [file EXCEPT ![at] = IF @ = "open" THEN "handed over" ELSE @]
             /\ FileDone /\ UNCHANGED drained
    <3>1. ControlType'
      BY <2>2, GotoType DEF ShapeInv, FileDone, Places
    <3>2. file' \in [Handlers -> FileStates]
      BY <1>1, <2>2 DEF FileStates
    <3>3. part' = {} /\ drained' \in BOOLEAN
      BY <2>2 DEF FileDone, ShapeInv, FlagType
    <3> QED
      BY <3>1, <3>2, <3>3 DEF AnswerType, PartType
  <2>3. CASE Stop(file) /\ UNCHANGED part
    BY <1>1, <2>3, StopType
  <2>4. CASE Abort("HandlerError") /\ UNCHANGED <<part, drained, file>>
    BY <1>1, <2>4, ErrorType
  <2> QED
    BY <2>1, <2>2, <2>3, <2>4 DEF FileComplete
<1>4. /\ UNCHANGED <<chunk, before, final, exact, fieldBytes, fieldCount, fileCount, post>>
      /\ terminalRaw' \in {terminalRaw, TRUE} /\ unfinished' \in {unfinished, FALSE}
      /\ files' \in {files, Append(files, at)}
  BY DEF FileComplete, FileDone
<1>5. terminalRaw' \in BOOLEAN /\ unfinished' \in BOOLEAN /\ ChunkType'
  BY <1>4 DEF ShapeInv, FlagType, ChunkType
<1>6. files' \in Seq(Handlers)
  <2>1. files \in Seq(Handlers)
    BY DEF ShapeInv, AccountType
  <2> QED
    BY <1>1, <1>4, <2>1, AppendProperties
<1> QED
  BY <1>2, <1>3, <1>4, <1>5, <1>6, AnswersShape

(* Steps between the calls: only control and the flags move.               *)
LEMMA FlagsShape ==
  ASSUME ShapeInv, ControlType', FlagType', part' \in {part, {}},
         UNCHANGED <<fieldBytes, fileCount, post, files, handlerVars, chunk>>,
         fieldCount' \in Nat
  PROVE  ShapeInv'
<1>1. PartType' /\ ChunkType'
  BY DEF ShapeInv, PartType, ChunkType
<1>2. AccountType' /\ HandlerType'
  BY DEF ShapeInv, AccountType, HandlerType, handlerVars
<1> QED
  BY <1>1, <1>2 DEF ShapeInv

LEMMA RawPartShape == ShapeInv /\ RawPart => ShapeInv'
<1> SUFFICES ASSUME ShapeInv, RawPart PROVE ShapeInv'
  OBVIOUS
<1>1. Take([kind |-> "Raw"]) /\ HandleRaw
  BY DEF RawPart
<1>2. ControlType'
  <2>1. "events" \in Places /\ {"TooManyFields", "Protocol"} \subseteq Exceptions
    BY DEF Places, Exceptions
  <2>2. \/ \E place \in Places : Resume(place)
        \/ \E reason \in Exceptions : Abort(reason)
    BY <1>1, <2>1 DEF HandleRaw
  <2> QED
    BY <2>2, GotoType DEF ShapeInv
<1>3. /\ fieldCount' \in {fieldCount, fieldCount + 1} /\ terminalRaw' \in {terminalRaw, TRUE}
      /\ UNCHANGED <<chunk, part, fieldBytes, fileCount, unfinished, post, files, handlerVars>>
  BY <1>1 DEF HandleRaw
<1>4. FlagType' /\ fieldCount' \in Nat
  <2>1. UNCHANGED <<exact, drained, before, final>>
    BY <1>1, TakeType
  <2>2. unfinished' = unfinished /\ terminalRaw' \in {terminalRaw, TRUE}
    BY <1>3
  <2>3. FlagType'
    BY <2>1, <2>2 DEF ShapeInv, FlagType
  <2> QED
    BY <1>3, <2>3 DEF ShapeInv, AccountType
<1> QED
  BY <1>2, <1>3, <1>4, FlagsShape

LEMMA FinishShape == ShapeInv /\ Finish => ShapeInv'
<1> SUFFICES ASSUME ShapeInv, Finish PROVE ShapeInv'
  OBVIOUS
<1>1. /\ ControlType'
      /\ fieldBytes' \in Nat /\ post' \in Seq([name : Nat, size : Nat])
      /\ part' \in {part, {}}
  <2>1. "ended" \in Places
    BY DEF Places
  <2>2. ASSUME NEW p \in part, FinishField(p, "ended"),
               part' = IF pc' = "ended" THEN {} ELSE part
        PROVE  /\ ControlType'
               /\ fieldBytes' \in Nat /\ post' \in Seq([name : Nat, size : Nat])
               /\ part' \in {part, {}}
    BY <2>1, <2>2, FinishFieldType
  <2>3. CASE Resume("ended") /\ UNCHANGED <<fieldBytes, post, part>>
    BY <2>1, <2>3, GotoType DEF ShapeInv, AccountType
  <2> QED
    BY <2>2, <2>3 DEF Finish
<1>2. /\ UNCHANGED <<chunk, unfinished, fieldCount, fileCount, files, before, final, exact,
                     drained, file, heard>>
      /\ terminalRaw' = (terminalRaw /\ ~exact)
  BY DEF Finish, requestVars, handlerVars
<1>3. FlagType' /\ HandlerType' /\ ChunkType'
  BY <1>2 DEF ShapeInv, FlagType, HandlerType, ChunkType
<1>4. AccountType' /\ PartType'
  BY <1>1, <1>2 DEF ShapeInv, AccountType, PartType
<1> QED
  BY <1>1, <1>3, <1>4 DEF ShapeInv

(* feed_eof returns a batch, and the two states it was called between.     *)
LEMMA FeedEofShape == ShapeInv /\ FeedEof => ShapeInv'
<1> SUFFICES ASSUME ShapeInv, FeedEof PROVE ShapeInv'
  OBVIOUS
<1> DEFINE inPart == Source!InPart([i \in DOMAIN delivered |-> delivered[i].kind])
<1>1. PICK outcome \in EofOutcomes(inPart) :
        EofReturns(outcome.events, outcome.before, outcome.final)
  BY DEF FeedEof
<1> HIDE DEF inPart
<1>2. outcome.before \in {"End", "Body", "Other"} /\ outcome.final \in {"End", "Body", "Other"}
  BY DEF EofOutcomes
<1>3. FlagType'
  BY <1>1, <1>2 DEF EofReturns, IsExact, partVars, ShapeInv, FlagType
<1>4. UNCHANGED <<pc, at, exception, part, fieldBytes, fieldCount, fileCount, post, files,
                  handlerVars, chunk>>
  BY <1>1 DEF EofReturns, partVars, accountVars
<1>5. ControlType' /\ fieldCount' \in Nat
  BY <1>4 DEF ShapeInv, ControlType, AccountType
<1> QED
  BY <1>3, <1>4, <1>5, FlagsShape

LEMMA QuietShape ==
  ASSUME ShapeInv,
         \/ BeforeParsing \/ SourceFails \/ LoopEnds \/ NobodyReturnsFile
         \/ Succeed \/ Done \/ UNCHANGED vars
  PROVE  ShapeInv'
<1>1. /\ UNCHANGED <<fieldBytes, fieldCount, fileCount, post, files, handlerVars, chunk>>
      /\ UNCHANGED <<exact, drained, before, final>>
      /\ part' \in {part, {}} /\ terminalRaw' \in {terminalRaw, TRUE}
      /\ unfinished' \in {unfinished, FALSE}
  BY DEF BeforeParsing, SourceFails, LoopEnds, NobodyReturnsFile, Succeed, Done, vars,
         FileDone, partVars, accountVars, requestVars, handlerVars
<1>2. FlagType' /\ fieldCount' \in Nat
  BY <1>1 DEF ShapeInv, FlagType, AccountType
<1>3. ControlType'
  <2>1. /\ {"returned", "events", "interrupting", "completing"} \subseteq Places
        /\ {"HandlerError", "ParserError", "TooManyFields"} \subseteq Exceptions
    BY DEF Places, Exceptions
  <2>2. CASE BeforeParsing
    BY <2>1, <2>2, GotoType DEF BeforeParsing, ShapeInv
  <2>3. CASE SourceFails \/ LoopEnds \/ NobodyReturnsFile
    BY <2>1, <2>3, GotoType DEF SourceFails, LoopEnds, NobodyReturnsFile, FileDone, ShapeInv
  <2>4. CASE Succeed
    BY <2>1, <2>4, GotoType DEF Succeed, ShapeInv
  <2>5. CASE Done \/ UNCHANGED vars
    BY <2>5 DEF Done, vars, ShapeInv, ControlType
  <2> QED
    BY <2>2, <2>3, <2>4, <2>5
<1> QED
  BY <1>1, <1>2, <1>3, FlagsShape

(* The calls after the loop over the events.                               *)
LEMMA OutsideShape ==
  ASSUME ShapeInv, InterruptUpload \/ AbortUpload \/ UploadComplete
  PROVE  ShapeInv'
<1>1. {"completing", "raised", "returned"} \subseteq Places /\ "HandlerError" \in Exceptions
  BY DEF Places, Exceptions
<1>2. file \in [Handlers -> FileStates] /\ heard \in [Handlers -> CallRecord] /\ ControlType
  BY DEF ShapeInv, HandlerType
<1>3. HandlerType'
  <2>1. \/ heard' = heard
        \/ at \in Handlers /\ \E call \in Calls : Call(at, call, FALSE, 0, 0)
    BY DEF InterruptUpload, AbortUpload, UploadComplete, Calls
  <2>2. heard' \in [Handlers -> CallRecord]
    BY <1>2, <2>1, CallType
  <2>3. file' = file \/ CloseFiles(file) \/ CloseFails(file)
    BY DEF InterruptUpload, AbortUpload, UploadComplete
  <2> QED
    BY <1>2, <2>2, <2>3, CloseType DEF HandlerType
<1>4. ControlType'
  <2>1. CASE InterruptUpload
    BY <1>1, <1>2, <2>1, GotoType DEF InterruptUpload
  <2>2. CASE UploadComplete
    BY <1>1, <1>2, <2>2, GotoType DEF UploadComplete
  <2>3. CASE AbortUpload
    <3>1. CASE pc' = pc /\ at' = HandlerCount + 1 /\ UNCHANGED exception
      BY <1>2, <3>1, PlaceType DEF ControlType
    <3>2. CASE at \in Handlers /\ NextHandler /\ UNCHANGED exception
      BY <1>2, <3>2, GotoType
    <3>3. CASE Resume("raised")
      BY <1>1, <1>2, <3>3, GotoType
    <3> QED
      BY <2>3, <3>1, <3>2, <3>3 DEF AbortUpload
  <2> QED
    BY <2>1, <2>2, <2>3
<1>5. UNCHANGED <<part, chunk, terminalRaw, accountVars, requestVars>>
  BY DEF InterruptUpload, AbortUpload, UploadComplete, partVars
<1>6. unfinished' \in {unfinished, FALSE}
  BY DEF InterruptUpload, AbortUpload, UploadComplete, partVars
<1>7. FlagType' /\ AccountType'
  BY <1>5, <1>6 DEF ShapeInv, FlagType, AccountType, accountVars, requestVars
<1>8. PartType' /\ ChunkType'
  BY <1>5 DEF ShapeInv, PartType, ChunkType
<1> QED
  BY <1>3, <1>4, <1>7, <1>8 DEF ShapeInv

LEMMA NextShape == ShapeInv /\ [Next]_vars => ShapeInv'
BY PartBeginShape, NewFileShape, PartDataShape, ReceiveChunkShape, PartEndShape,
   FileCompleteShape, RawPartShape, FinishShape, FeedEofShape, QuietShape, OutsideShape
   DEF Next

(* The stream and the rest together are type correct; a part is one        *)
(* record.                                                                 *)
LEMMA ShapeIsType ==
  ASSUME Inv, ShapeInv
  PROVE  TypeOK
<1>1. part \subseteq PartRecord /\ Cardinality(part) <= 1
  <2>1. CASE part = {}
    BY <2>1, FS_EmptySet
  <2>2. ASSUME NEW p, NamedPart(p), part = {p} PROVE part \subseteq PartRecord /\ Cardinality(part) <= 1
    <3>1. Cardinality({p}) = 1
      BY FS_Singleton
    <3> QED
      BY <2>2, <3>1 DEF NamedPart
  <2> QED
    BY <2>1, <2>2 DEF ShapeInv, PartType
<1> QED
  BY <1>1 DEF Inv, StreamInv, ShapeInv, ControlType, FlagType, AccountType, HandlerType,
              ChunkType, PartRecord, Places, FileStates, Calls, CallRecord, TypeOK

(* Every variable of _parse keeps its type, whatever the parts say and the *)
(* handlers answer; a part that is not ignored has a name.                 *)
THEOREM UploadTypeCorrect == Spec => []TypeOK
<1>1. Init => Inv /\ ShapeInv
  BY InitInv, InitShape
<1>2. Inv /\ ShapeInv /\ [Next]_vars => Inv' /\ ShapeInv'
  BY NextInv, NextShape
<1>3. Inv /\ ShapeInv => TypeOK
  BY ShapeIsType
<1> QED
  BY <1>1, <1>2, <1>3, PTL DEF Spec

-----------------------------------------------------------------------------
(* What a step of the handlers' loops does to control.                     *)

(* The events are being handled, nothing has been raised.                  *)
Trying == {"raw", "events", "starting", "receiving", "finishing", "ended"}

(* The part is a file that the handlers were told of.                      *)
UploadOpen == \E p \in part : p.isFile /\ ~p.ignored

(* An exception has ended the try statement.                               *)
Failed ==
  /\ exception' # "none"
  /\ \/ pc' = "aborting" /\ at' = 1
     \/ pc' \in {"completing", "escaped"}

LEMMA AbortFails ==
  ASSUME NEW reason, reason # "none", Abort(reason)
  PROVE  Failed
BY DEF Failed, Abort, Goto

LEMMA StopFails ==
  ASSUME NEW open, Stop(open)
  PROVE  Failed
BY DEF Failed, Stop, Goto, Throw

(* After a SkipFile nothing more of the part is handed on.                 *)
LEMMA SkipIgnores ==
  ASSUME PartType, NEW open, SkipFile(open)
  PROVE  \/ pc' = "events" /\ exception' = exception /\ ~UploadOpen'
         \/ Failed
<1>1. CASE Resume("events") /\ part' = {[p EXCEPT !.ignored = TRUE] : p \in part}
  <2>1. ASSUME NEW q \in part' PROVE q.ignored
    <3>1. PICK p \in part : q = [p EXCEPT !.ignored = TRUE]
      BY <1>1
    <3>2. p \in PartRecord
      BY DEF PartType, NamedPart
    <3> QED
      BY <3>1, <3>2 DEF PartRecord
  <2> QED
    BY <1>1, <2>1 DEF Resume, Goto, UploadOpen
<1>2. CASE Abort("HandlerError")
  BY <1>2, AbortFails
<1> QED
  BY <1>1, <1>2 DEF SkipFile

(* A call is the last that its handler got, and no other handler's.        *)
LEMMA CallEffect ==
  ASSUME HandlerType, NEW h \in Handlers, NEW call, NEW told, NEW start, NEW end,
         Call(h, call, told, start, end)
  PROVE  /\ heard'[h] = [call |-> call, file |-> fileCount, told |-> told,
                         start |-> start, end |-> end,
                         times |-> heard'[h].times]
         /\ heard'[h].call = call
         /\ \A g \in Handlers \ {h} : heard'[g] = heard[g]
<1>1. PICK times \in Nat :
        heard' = [heard EXCEPT ![h] = CallMade(call, told, start, end, times)]
  BY CallCounts
<1>2. /\ heard'[h] = CallMade(call, told, start, end, times)
      /\ \A g \in Handlers \ {h} : heard'[g] = heard[g]
  BY <1>1 DEF HandlerType
<1>3. heard'[h].times = times
  BY <1>2 DEF CallMade
<1> QED
  BY <1>2, <1>3 DEF CallMade

(* A call that is repeated is seen, too: it counts one more.               *)
LEMMA CallIsSeen ==
  ASSUME HandlerType, NEW h \in Handlers, NEW call, NEW told, NEW start, NEW end,
         Call(h, call, told, start, end)
  PROVE  heard'[h] # heard[h]
<1>1. heard[h].times \in Nat
  BY DEF HandlerType, CallRecord
<1>2. CASE heard[h] = CallMade(call, told, start, end, heard[h].times)
  <2>1. heard'[h] = CallMade(call, told, start, end, heard[h].times + 1)
    BY <1>2 DEF Call, HandlerType
  <2>2. heard'[h].times = heard[h].times + 1
    BY <2>1 DEF CallMade
  <2> QED
    BY <1>1, <2>2
<1>3. CASE heard[h] # CallMade(call, told, start, end, heard[h].times)
  <2>1. heard'[h] = CallMade(call, told, start, end, 1)
    BY <1>3 DEF Call, HandlerType
  <2>2. heard'[h].times = 1
    BY <2>1 DEF CallMade
  <2> QED
    BY <1>3, <2>1, <2>2
<1> QED
  BY <1>2, <1>3

(* What was recorded of a handler that was, or was not, told of the file.  *)
LEMMA CallTold ==
  ASSUME NEW h, NEW call, NEW known, NEW start, NEW end,
         heard'[h] = [call |-> call, file |-> known, told |-> Told(h),
                      start |-> start, end |-> end,
                      times |-> heard'[h].times]
  PROVE  heard'[h].told <=> Told(h)
<1>1. heard'[h].told = Told(h)
  BY SMT
<1> QED
  BY <1>1

(* new_file: the handler has opened a file, or the part is over for it.    *)
LEMMA NewFileEffect ==
  ASSUME ShapeInv, NewFile
  PROVE  /\ pc = "starting" /\ at \in Handlers /\ UNCHANGED <<unfinished, fileCount>>
         /\ heard'[at] = [call |-> "new_file", file |-> fileCount, told |-> TRUE,
                          start |-> 0, end |-> 0,
                          times |-> heard'[at].times]
         /\ \A h \in Handlers \ {at} : heard'[h] = heard[h]
         /\ \/ /\ (pc' = "starting" /\ at' = at + 1) \/ pc' = "events"
               /\ file' = Opened(at) /\ UNCHANGED <<part, exception>>
            \/ pc' = "events" /\ exception' = exception /\ ~UploadOpen'
            \/ Failed
<1>1. pc = "starting" /\ at \in Handlers /\ UNCHANGED <<unfinished, fileCount>>
  BY DEF NewFile, accountVars
<1>2. /\ heard'[at] = [call |-> "new_file", file |-> fileCount, told |-> TRUE,
                       start |-> 0, end |-> 0,
                       times |-> heard'[at].times]
      /\ \A h \in Handlers \ {at} : heard'[h] = heard[h]
  <2>1. Call(at, "new_file", TRUE, 0, 0)
    BY DEF NewFile
  <2>2. PICK told \in BOOLEAN : told = TRUE /\ Call(at, "new_file", told, 0, 0)
    BY <2>1
  <2> DEFINE call == "new_file"
  <2>4. Call(at, call, told, 0, 0) /\ at \in Handlers
    BY <1>1, <2>2
  <2> HIDE DEF call
  <2>3. HandlerType
    BY DEF ShapeInv
  <2>5. /\ heard'[at] = [call |-> call, file |-> fileCount, told |-> told,
                         start |-> 0, end |-> 0, times |-> heard'[at].times]
        /\ \A h \in Handlers \ {at} : heard'[h] = heard[h]
    BY <2>3, <2>4, CallEffect
  <2> QED
    BY <2>2, <2>5 DEF call
<1>3. ASSUME NEW open, SkipFile(open) \/ Stop(open) \/ Abort("HandlerError")
      PROVE  \/ pc' = "events" /\ exception' = exception /\ ~UploadOpen'
             \/ Failed
  BY <1>3, SkipIgnores, StopFails, AbortFails DEF ShapeInv
<1>4. CASE /\ NextHandler \/ Goto("events")
           /\ file' = Opened(at) /\ UNCHANGED <<part, exception, drained>>
  BY <1>1, <1>2, <1>4 DEF NextHandler, Goto
<1>5. CASE \E open \in {file, Opened(at)} :
             SkipFile(open) \/ Stop(open) \/ Abort("HandlerError")
  BY <1>1, <1>2, <1>3, <1>5
<1> QED
  BY <1>4, <1>5 DEF NewFile

(* receive_data_chunk: the handler's counter moves by the chunk's length.  *)
LEMMA ReceiveChunkEffect ==
  ASSUME ShapeInv, ReceiveChunk
  PROVE  /\ pc = "receiving" /\ at \in Handlers /\ UNCHANGED <<unfinished, fileCount>>
         /\ \E p \in PartRecord :
              /\ part = {p}
              /\ heard'[at] = [call |-> "receive_data_chunk", file |-> fileCount,
                               told |-> Told(at), start |-> p.counters[at],
                               end |-> p.counters[at] + chunk,
                               times |-> heard'[at].times]
              /\ \/ /\ pc' \in {"receiving", "events"} /\ UNCHANGED <<file, exception>>
                    /\ part' = {[p EXCEPT !.counters[at] = @ + chunk]}
                 \/ pc' = "events" /\ exception' = exception /\ ~UploadOpen'
                 \/ Failed
         /\ heard'[at].call = "receive_data_chunk"
         /\ \A h \in Handlers \ {at} : heard'[h] = heard[h]
<1>1. pc = "receiving" /\ at \in Handlers /\ UNCHANGED <<unfinished, fileCount>>
  BY DEF ReceiveChunk, accountVars
<1>2. PICK p \in part :
        Call(at, "receive_data_chunk", Told(at), p.counters[at], p.counters[at] + chunk)
  BY DEF ReceiveChunk
<1>3. p \in PartRecord /\ part = {p}
  BY DEF ShapeInv, PartType, NamedPart
<1>4. /\ heard'[at] = [call |-> "receive_data_chunk", file |-> fileCount,
                       told |-> Told(at), start |-> p.counters[at],
                       end |-> p.counters[at] + chunk,
                       times |-> heard'[at].times]
      /\ heard'[at].call = "receive_data_chunk"
      /\ \A h \in Handlers \ {at} : heard'[h] = heard[h]
  BY <1>1, <1>2, CallEffect DEF ShapeInv
<1>5. \/ /\ pc' \in {"receiving", "events"} /\ UNCHANGED <<file, exception>>
         /\ part' = {[p EXCEPT !.counters[at] = @ + chunk]}
      \/ pc' = "events" /\ exception' = exception /\ ~UploadOpen'
      \/ Failed
  <2>1. CASE /\ NextHandler \/ Goto("events")
             /\ part' = Counted(at) /\ UNCHANGED <<exception, drained, file>>
    BY <1>1, <1>3, <2>1 DEF NextHandler, Goto, Counted
  <2>2. CASE SkipFile(file) \/ Stop(file) \/ Abort("HandlerError")
    BY <2>2, SkipIgnores, StopFails, AbortFails DEF ShapeInv
  <2> QED
    BY <2>1, <2>2 DEF ReceiveChunk
<1> QED
  BY <1>1, <1>3, <1>4, <1>5

(* file_complete: the handler passes, or returns the file and ends the     *)
(* part.                                                                   *)
LEMMA FileCompleteEffect ==
  ASSUME ShapeInv, FileComplete
  PROVE  /\ pc = "finishing" /\ at \in Handlers /\ fileCount' = fileCount
         /\ \E p \in PartRecord :
              /\ part = {p}
              /\ heard'[at] = [call |-> "file_complete", file |-> fileCount,
                               told |-> Told(at), start |-> 0, end |-> p.counters[at],
                               times |-> heard'[at].times]
         /\ heard'[at].call = "file_complete"
         /\ \A h \in Handlers \ {at} : heard'[h] = heard[h]
         /\ \/ /\ pc' = "finishing" /\ at' = at + 1
               /\ UNCHANGED <<part, unfinished, file, exception>>
            \/ /\ pc' = "events" /\ part' = {} /\ unfinished' = FALSE
               /\ exception' = exception
               /\ file' = [file EXCEPT ![at] = IF @ = "open" THEN "handed over" ELSE @]
            \/ Failed /\ unfinished' = unfinished
<1>1. pc = "finishing" /\ at \in Handlers /\ fileCount' = fileCount
  BY DEF FileComplete
<1>2. PICK p \in part : Call(at, "file_complete", Told(at), 0, p.counters[at])
  BY DEF FileComplete
<1>3. p \in PartRecord /\ part = {p}
  BY DEF ShapeInv, PartType, NamedPart
<1>4. /\ heard'[at] = [call |-> "file_complete", file |-> fileCount,
                       told |-> Told(at), start |-> 0, end |-> p.counters[at],
                       times |-> heard'[at].times]
      /\ heard'[at].call = "file_complete"
      /\ \A h \in Handlers \ {at} : heard'[h] = heard[h]
  BY <1>1, <1>2, CallEffect DEF ShapeInv
<1>5. \/ /\ pc' = "finishing" /\ at' = at + 1
         /\ UNCHANGED <<part, unfinished, file, exception>>
      \/ /\ pc' = "events" /\ part' = {} /\ unfinished' = FALSE
         /\ exception' = exception
         /\ file' = [file EXCEPT ![at] = IF @ = "open" THEN "handed over" ELSE @]
      \/ Failed /\ unfinished' = unfinished
  <2>1. CASE NextHandler /\ UNCHANGED <<part, unfinished, file, exception>>
    BY <1>1, <2>1 DEF NextHandler
  <2>2. CASE /\ file' = [file EXCEPT ![at] = IF @ = "open" THEN "handed over" ELSE @]
             /\ FileDone
    BY <2>2 DEF FileDone, Resume, Goto
  <2>3. CASE (Stop(file) \/ Abort("HandlerError")) /\ unfinished' = unfinished
    BY <2>3, StopFails, AbortFails
  <2> QED
    BY <2>1, <2>2, <2>3 DEF FileComplete
<1> QED
  BY <1>1, <1>3, <1>4, <1>5

(* A part begins: only a file with a usable name is started.               *)
LEMMA PartBeginEffect ==
  ASSUME Inv, ShapeInv, PartBegin
  PROVE  /\ pc = "events" /\ UNCHANGED <<file, heard>>
         /\ fileCount' \in {fileCount, fileCount + 1}
         /\ \/ unfinished' = unfinished
               /\ (Failed \/ (pc' = "events" /\ exception' = exception /\ ~UploadOpen'))
            \/ /\ pc' = "starting" /\ at' = 1 /\ exception' = exception
               /\ fileCount' = fileCount + 1 /\ unfinished' = TRUE /\ UploadOpen'
               /\ \A p \in part' : p.counters = Counters
<1>1. PICK p \in Parts : Take([kind |-> "Begin", part |-> p]) /\ HandleBegin(p)
  BY DEF PartBegin
<1>2. part = {}
  <2>1. [kind |-> "Begin", part |-> p] \in Event /\ pc = "events"
    BY <1>1 DEF Event, Take
  <2> QED
    BY <1>1, <2>1, TakeKeeps DEF Inv, PartInv
<1>3. /\ pc = "events" /\ UNCHANGED <<file, heard>>
      /\ BeginField(p) \/ BeginUnnamedFile(p) \/ BeginFile(p)
  BY <1>1, <1>2 DEF HandleBegin, handlerVars, Take
<1>4. /\ p \in PartHeaders /\ NewPart(p).counters = Counters
      /\ NewPart(p).isFile <=> p.filename # "absent"
      /\ NewPart(p).ignored <=> p.name = {} \/ p.filename = "unusable"
  BY NewPartType DEF NewPart
<1>5. CASE BeginField(p)
  <2>1. UNCHANGED <<fileCount, unfinished>>
    BY <1>5 DEF BeginField
  <2>2. CASE Abort("TooManyFields")
    BY <1>3, <2>1, <2>2, AbortFails
  <2>3. CASE Resume("events") /\ part' = {NewPart(p)}
    BY <1>3, <1>4, <1>5, <2>1, <2>3 DEF BeginField, Resume, Goto, UploadOpen
  <2> QED
    BY <1>5, <2>2, <2>3 DEF BeginField
<1>6. CASE BeginUnnamedFile(p)
  BY <1>3, <1>4, <1>6 DEF BeginUnnamedFile, Resume, Goto, UploadOpen
<1>7. CASE BeginFile(p)
  <2>1. fileCount' = fileCount + 1 /\ p.filename # "absent" /\ p.name # {}
    BY <1>7 DEF BeginFile
  <2>2. CASE Abort("TooManyFiles") /\ unfinished' = unfinished
    BY <1>3, <2>1, <2>2, AbortFails
  <2>3. CASE /\ p.filename = "usable" /\ Resume("starting") /\ part' = {NewPart(p)}
             /\ unfinished' = Unfinished(p)
    BY <1>3, <1>4, <2>1, <2>3 DEF Resume, Goto, UploadOpen, Unfinished
  <2>4. CASE /\ p.filename # "usable" /\ Resume("events") /\ part' = {NewPart(p)}
             /\ unfinished' = Unfinished(p)
    <3>1. p.filename = "unusable"
      BY <1>4, <2>1, <2>4 DEF PartHeaders
    <3>2. unfinished' = unfinished
      BY <2>4 DEF Unfinished, ShapeInv, FlagType
    <3>3. ~UploadOpen'
      BY <1>4, <2>4, <3>1 DEF UploadOpen
    <3> QED
      BY <1>3, <2>1, <2>4, <3>2, <3>3 DEF Resume, Goto
  <2> QED
    BY <1>7, <2>2, <2>3, <2>4 DEF BeginFile
<1> QED
  BY <1>3, <1>5, <1>6, <1>7

(* Data make a field grow, or are handed on if the file was started.       *)
LEMMA PartDataEffect ==
  ASSUME Inv, ShapeInv, PartData
  PROVE  /\ pc = "events" /\ UNCHANGED <<file, heard, fileCount, unfinished>>
         /\ \/ Failed
            \/ /\ pc' = "events" /\ exception' = exception
               /\ UploadOpen' => part' = part
            \/ /\ pc' = "receiving" /\ UNCHANGED <<part, exception>>
               /\ UploadOpen
<1>1. PICK size \in DataSizes : Take([kind |-> "Data", size |-> size]) /\ HandleData(size)
  BY DEF PartData
<1>2. pc = "events" /\ UNCHANGED <<file, heard, fileCount, unfinished>>
  BY <1>1 DEF HandleData, handlerVars, accountVars, Take
<1>3. CASE Abort("Protocol")
  BY <1>2, <1>3, AbortFails
<1>4. ASSUME NEW p \in part, ReceiveFieldData(p, size)
      PROVE  Failed \/ (pc' = "events" /\ exception' = exception /\ ~UploadOpen')
  <2>1. p \in PartRecord
    BY DEF ShapeInv, PartType, NamedPart
  <2>2. ~Grown(p, size).isFile
    BY <1>4, <2>1 DEF Grown, PartRecord, ReceiveFieldData
  <2>3. ~UploadOpen'
    BY <1>4, <2>2 DEF ReceiveFieldData, UploadOpen
  <2> QED
    BY <1>4, <2>3, AbortFails DEF ReceiveFieldData, Resume, Goto
<1>5. ASSUME NEW p \in part, ReceiveFileData(p, size)
      PROVE  /\ UploadOpen /\ part' = part
             /\ \/ Failed
                \/ pc' \in {"events", "receiving"} /\ exception' = exception
  BY <1>5, AbortFails DEF ReceiveFileData, Resume, Goto, UploadOpen
<1>6. CASE Resume("events") /\ part' = part
  BY <1>2, <1>6 DEF Resume, Goto
<1> QED
  BY <1>1, <1>2, <1>3, <1>4, <1>5, <1>6 DEF HandleData

(* The end of a part: it is over, or offered to the handlers.              *)
LEMMA PartEndEffect ==
  ASSUME Inv, ShapeInv, PartEnd
  PROVE  /\ pc = "events" /\ UNCHANGED <<file, heard, fileCount, unfinished>>
         /\ \/ Failed
            \/ pc' = "events" /\ exception' = exception /\ part' = {}
            \/ /\ pc' = "finishing" /\ at' = 1 /\ UNCHANGED <<part, exception>>
               /\ UploadOpen
<1>1. Take([kind |-> "End"]) /\ HandleEnd
  BY DEF PartEnd
<1>2. /\ pc = "events" /\ UNCHANGED <<file, heard, fileCount, unfinished>>
      /\ pc' = "events" => part' = {} \/ Abort("Protocol")
      /\ pc' # "events" => part' = part
  BY <1>1 DEF HandleEnd, handlerVars, Take
<1>3. CASE Abort("Protocol")
  BY <1>2, <1>3, AbortFails
<1>4. ASSUME NEW p \in part, p.isFile, FinishFile(p)
      PROVE  \/ Failed
             \/ pc' = "events" /\ exception' = exception
             \/ pc' = "finishing" /\ at' = 1 /\ exception' = exception /\ UploadOpen
  BY <1>4, AbortFails DEF FinishFile, Resume, Goto, UploadOpen
<1>5. ASSUME NEW p \in part, FinishField(p, "events")
      PROVE  Failed \/ (pc' = "events" /\ exception' = exception)
  BY <1>5, AbortFails DEF FinishField, Resume, Goto
<1>6. Abort("Protocol") => Failed
  BY AbortFails
<1> QED
  BY <1>1, <1>2, <1>3, <1>4, <1>5, <1>6 DEF HandleEnd

(* The steps between the events and after the last: control moves on.      *)
LEMMA BetweenEffect ==
  ASSUME \/ BeforeParsing \/ LoopEnds \/ RawPart \/ FeedEof \/ Finish \/ SourceFails
  PROVE  /\ UNCHANGED <<file, heard, fileCount, unfinished>>
         /\ part' \in {part, {}}
         /\ \/ Failed
            \/ pc = "raw" /\ pc' = "raw" /\ exception' = exception
            \/ pc = "raw" /\ pc' = "returned"
            \/ pc = "raw" /\ pc' = "events" /\ exception' = exception
            \/ /\ pc \in {"starting", "receiving"} /\ AllCalled /\ pc' = "events"
               /\ UNCHANGED <<part, exception>>
            \/ /\ pc = "events" /\ pc' \in {"events", "ended"} /\ exception' = exception
<1>1. /\ UNCHANGED <<file, heard, fileCount, unfinished>>
      /\ part' \in {part, {}}
  BY DEF BeforeParsing, LoopEnds, RawPart, HandleRaw, FeedEof, EofReturns, Finish,
         SourceFails, partVars, accountVars, handlerVars
<1>2. CASE BeforeParsing
  <2>1. ASSUME NEW reason \in {"HandlerError", "ParserError"}, Throw(reason) PROVE Failed
    BY <2>1 DEF Throw, Goto, Failed
  <2> QED
    BY <1>1, <1>2, <2>1 DEF BeforeParsing, NextHandler, Resume, Goto
<1>3. CASE LoopEnds
  BY <1>1, <1>3 DEF LoopEnds, Resume, Goto, partVars
<1>4. CASE RawPart
  <2>1. pc = "events" /\ (Resume("events") \/ Abort("TooManyFields") \/ Abort("Protocol"))
    BY <1>4 DEF RawPart, HandleRaw, Take
  <2> QED
    BY <1>1, <2>1, AbortFails DEF Resume, Goto
<1>5. CASE FeedEof
  BY <1>1, <1>5 DEF FeedEof, EofReturns
<1>6. CASE Finish
  <2>1. pc = "events" /\ (Resume("ended") \/ Abort("TooMuchData"))
    BY <1>6 DEF Finish, FinishField
  <2> QED
    BY <1>1, <2>1, AbortFails DEF Resume, Goto
<1>7. CASE SourceFails
  BY <1>1, <1>7, AbortFails DEF SourceFails
<1> QED
  BY <1>2, <1>3, <1>4, <1>5, <1>6, <1>7

(* No handler returned the file.                                           *)
LEMMA NobodyEffect ==
  ASSUME NobodyReturnsFile
  PROVE  /\ pc = "finishing" /\ AllCalled /\ UNCHANGED <<file, heard, fileCount, exception>>
         /\ pc' = "events" /\ part' = {} /\ unfinished' = FALSE
BY DEF NobodyReturnsFile, FileDone, Resume, Goto, accountVars, handlerVars

-----------------------------------------------------------------------------
(* Control: nothing has been raised while the events are handled, the      *)
(* handlers are called for an open upload only, and an open upload, or one *)
(* that is being interrupted, is noted in _unfinished_upload.              *)
ControlInv ==
  /\ pc \in Trying \cup {"interrupting"} => exception = "none"
  /\ pc \in {"aborting", "raised"} => exception # "none"
  /\ pc = "interrupting" => unfinished
  /\ pc \in {"starting", "receiving", "finishing"} => UploadOpen
  /\ pc \in Trying /\ UploadOpen => unfinished

(* The stream, the types and control; no claim about a handler.            *)
BaseInv == Inv /\ ShapeInv /\ ControlInv

LEMMA ControlKeeps ==
  ASSUME BaseInv, [Next]_vars
  PROVE  ControlInv'
<1> USE DEF BaseInv
<1>1. Failed => ControlInv'
  BY DEF Failed, ControlInv, Trying
<1>2. CASE NewFile
  <2>1. /\ pc = "starting" /\ unfinished' = unfinished
        /\ \/ pc' \in {"starting", "events"} /\ UNCHANGED <<part, exception>>
           \/ pc' = "events" /\ exception' = exception /\ ~UploadOpen'
           \/ Failed
    BY <1>2, NewFileEffect
  <2> QED
    BY <1>1, <2>1 DEF ControlInv, Trying, UploadOpen
<1>3. CASE ReceiveChunk
  <2>1. PICK p \in PartRecord :
          /\ part = {p} /\ pc = "receiving" /\ at \in Handlers /\ unfinished' = unfinished
          /\ \/ /\ pc' \in {"receiving", "events"} /\ UNCHANGED <<file, exception>>
                /\ part' = {[p EXCEPT !.counters[at] = @ + chunk]}
             \/ pc' = "events" /\ exception' = exception /\ ~UploadOpen'
             \/ Failed
    BY <1>3, ReceiveChunkEffect
  <2>2. UploadOpen /\ unfinished /\ exception = "none"
    BY <2>1 DEF ControlInv, Trying
  <2>3. CASE part' = {[p EXCEPT !.counters[at] = @ + chunk]}
    <3>1. UploadOpen'
      BY <2>1, <2>2, <2>3 DEF UploadOpen, PartRecord
    <3> QED
      BY <1>1, <2>1, <2>2, <3>1 DEF ControlInv, Trying
  <2> QED
    BY <1>1, <2>1, <2>2, <2>3 DEF ControlInv, Trying
<1>4. CASE FileComplete
  <2>1. /\ pc = "finishing"
        /\ \/ pc' = "finishing" /\ UNCHANGED <<part, unfinished, exception>>
           \/ pc' = "events" /\ part' = {} /\ exception' = exception
           \/ Failed
    BY <1>4, FileCompleteEffect
  <2> QED
    BY <1>1, <2>1 DEF ControlInv, Trying, UploadOpen
<1>5. CASE NobodyReturnsFile
  BY <1>5, NobodyEffect DEF ControlInv, Trying, UploadOpen
<1>6. CASE PartBegin
  <2>1. /\ pc = "events"
        /\ \/ Failed
           \/ pc' = "events" /\ exception' = exception /\ ~UploadOpen'
           \/ pc' = "starting" /\ exception' = exception /\ unfinished' = TRUE /\ UploadOpen'
    BY <1>6, PartBeginEffect
  <2> QED
    BY <1>1, <2>1 DEF ControlInv, Trying
<1>7. CASE PartData
  BY <1>1, <1>7, PartDataEffect DEF ControlInv, Trying, UploadOpen
<1>8. CASE PartEnd
  BY <1>1, <1>8, PartEndEffect DEF ControlInv, Trying, UploadOpen
<1>9. CASE BeforeParsing \/ LoopEnds \/ RawPart \/ FeedEof \/ Finish \/ SourceFails
  BY <1>1, <1>9, BetweenEffect DEF ControlInv, Trying, UploadOpen
<1>10. CASE Succeed
  BY <1>10 DEF Succeed, Throw, Resume, Goto, ControlInv, Trying, partVars
<1>11. CASE InterruptUpload \/ AbortUpload \/ UploadComplete
  BY <1>11 DEF InterruptUpload, AbortUpload, UploadComplete, Throw, Resume, Goto, NextHandler,
               ControlInv, Trying, partVars
<1>12. CASE Done \/ UNCHANGED vars
  BY <1>12 DEF Done, vars, ControlInv, Trying, UploadOpen
<1> QED
  BY <1>2, <1>3, <1>4, <1>5, <1>6, <1>7, <1>8, <1>9, <1>10, <1>11, <1>12 DEF Next

LEMMA BaseInvariant == Spec => []BaseInv
<1>1. Init => BaseInv
  <2> SUFFICES ASSUME Init PROVE ControlInv
    BY InitInv, InitShape DEF BaseInv
  <2> QED
    BY DEF Init, ControlInv, UploadOpen
<1>2. BaseInv /\ [Next]_vars => BaseInv'
  BY NextInv, NextShape, ControlKeeps DEF BaseInv
<1> QED
  BY <1>1, <1>2, PTL DEF Spec

-----------------------------------------------------------------------------
(* What becomes of a request: the uploads that are begun are settled, what *)
(* is raised is cleaned up, each handler hears what its contract allows,   *)
(* and the limits on the number of fields and files are exact.             *)

(* The first handler: while the events are handled its last call tells     *)
(* exactly whether _unfinished_upload is set, and in the loops that call   *)
(* every handler it has been told first.                                   *)
FirstIsBehind ==
  \/ pc \in {"raw", "events", "receiving", "ended"}
  \/ pc = "starting" /\ at > 1
  \/ pc \in {"finishing", "interrupting"} /\ at = 1

SettledInv ==
  1 \in Handlers =>
    /\ FirstIsBehind => (Unsettled <=> unfinished)
    /\ Unsettled => unfinished \/ pc \in {"completing", "returned", "escaped"}
    /\ pc \in {"finishing", "interrupting", "aborting"} /\ at > 1 => ~Unsettled
    /\ pc = "completing" /\ exception = "none" => ~Unsettled
    /\ pc = "raised" => ~Unsettled

LEMMA SettledKeeps ==
  ASSUME BaseInv, SettledInv, [Next]_vars
  PROVE  SettledInv'
<1> SUFFICES ASSUME 1 \in Handlers PROVE SettledInv'
  BY DEF SettledInv
<1> USE DEF BaseInv
<1>1. /\ FirstIsBehind => (Unsettled <=> unfinished)
      /\ Unsettled => unfinished \/ pc \in {"completing", "returned", "escaped"}
      /\ pc \in {"finishing", "interrupting", "aborting"} /\ at > 1 => ~Unsettled
      /\ pc = "completing" /\ exception = "none" => ~Unsettled
      /\ pc = "raised" => ~Unsettled
      /\ unfinished \in BOOLEAN
  BY DEF SettledInv, ShapeInv, FlagType
<1>2. /\ AllCalled => at > 1
      /\ at \in Handlers => (at = 1 \/ at > 1) /\ at + 1 > 1 /\ (at > 1 => 1 # at)
      /\ HandlerCount + 1 > 1
  BY UploadAssumption DEF AllCalled, Handlers
<1>3. heard'[1] = heard[1] => (Unsettled' <=> Unsettled)
  BY DEF Unsettled
<1>4. ASSUME Failed, Unsettled' => unfinished' PROVE SettledInv'
  BY <1>4 DEF Failed, SettledInv, FirstIsBehind
<1>5. CASE NewFile
  <2>1. /\ pc = "starting" /\ unfinished' = unfinished /\ unfinished
        /\ \/ pc' = "starting" /\ at' = at + 1
           \/ pc' = "events"
           \/ Failed
    BY <1>5, NewFileEffect DEF ControlInv, Trying
  <2>2. Unsettled'
    <3>1. CASE at = 1
      <4>1. heard'[1].call = "new_file"
        BY <1>5, <3>1, NewFileEffect
      <4> QED
        BY <4>1 DEF Unsettled
    <3>2. CASE at > 1
      <4>1. heard'[1] = heard[1]
        BY <1>2, <1>5, <3>2, NewFileEffect
      <4> QED
        BY <1>1, <1>3, <2>1, <3>2, <4>1 DEF FirstIsBehind
    <3> QED
      BY <1>2, <1>5, <3>1, <3>2, NewFileEffect
  <2> QED
    BY <1>4, <2>1, <2>2 DEF SettledInv, FirstIsBehind
<1>6. CASE ReceiveChunk
  <2>1. /\ pc = "receiving" /\ at \in Handlers /\ unfinished' = unfinished /\ unfinished
        /\ pc' \in {"receiving", "events"} \/ Failed
    BY <1>6, ReceiveChunkEffect DEF ControlInv, Trying
  <2>2. Unsettled'
    <3>1. CASE at = 1
      <4>1. heard'[1].call = "receive_data_chunk"
        BY <1>6, <3>1, ReceiveChunkEffect
      <4> QED
        BY <4>1 DEF Unsettled
    <3>2. CASE at > 1
      <4>1. heard'[1] = heard[1]
        BY <1>2, <1>6, <2>1, <3>2, ReceiveChunkEffect
      <4> QED
        BY <1>1, <1>3, <2>1, <4>1 DEF FirstIsBehind
    <3> QED
      BY <1>2, <2>1, <3>1, <3>2
  <2> QED
    BY <1>4, <2>1, <2>2 DEF SettledInv, FirstIsBehind
<1>7. CASE FileComplete
  <2>1. /\ pc = "finishing" /\ at \in Handlers
        /\ \/ pc' = "finishing" /\ at' = at + 1
           \/ pc' = "events" /\ unfinished' = FALSE
           \/ Failed
    BY <1>7, FileCompleteEffect
  <2>2. ~Unsettled'
    <3>1. CASE at = 1
      <4>1. heard'[1].call = "file_complete"
        BY <1>7, <3>1, FileCompleteEffect
      <4> QED
        BY <4>1 DEF Unsettled
    <3>2. CASE at > 1
      <4>1. heard'[1] = heard[1]
        BY <1>2, <1>7, <2>1, <3>2, FileCompleteEffect
      <4> QED
        BY <1>1, <1>3, <2>1, <3>2, <4>1
    <3> QED
      BY <1>2, <2>1, <3>1, <3>2
  <2> QED
    BY <1>2, <1>4, <2>1, <2>2 DEF SettledInv, FirstIsBehind
<1>8. CASE NobodyReturnsFile
  BY <1>1, <1>2, <1>3, <1>8, NobodyEffect DEF SettledInv, FirstIsBehind
<1>9. CASE PartBegin
  <2>1. /\ pc = "events" /\ (Unsettled' <=> Unsettled)
        /\ \/ unfinished' = unfinished /\ (Failed \/ pc' = "events")
           \/ pc' = "starting" /\ at' = 1 /\ unfinished' = TRUE
    BY <1>3, <1>9, PartBeginEffect
  <2> QED
    BY <1>1, <1>4, <2>1 DEF SettledInv, FirstIsBehind
<1>10. CASE PartData
  <2>1. /\ pc = "events" /\ (Unsettled' <=> Unsettled) /\ unfinished' = unfinished
        /\ Failed \/ pc' \in {"events", "receiving"}
    BY <1>3, <1>10, PartDataEffect
  <2> QED
    BY <1>1, <1>4, <2>1 DEF SettledInv, FirstIsBehind
<1>11. CASE PartEnd
  <2>1. /\ pc = "events" /\ (Unsettled' <=> Unsettled) /\ unfinished' = unfinished
        /\ Failed \/ pc' = "events" \/ (pc' = "finishing" /\ at' = 1)
    BY <1>3, <1>11, PartEndEffect
  <2> QED
    BY <1>1, <1>4, <2>1 DEF SettledInv, FirstIsBehind
<1>12. CASE BeforeParsing \/ LoopEnds \/ RawPart \/ FeedEof \/ Finish \/ SourceFails
  <2>1. /\ (Unsettled' <=> Unsettled) /\ unfinished' = unfinished
        /\ \/ Failed
           \/ pc = "raw" /\ pc' \in {"raw", "events", "returned"}
           \/ pc \in {"starting", "receiving"} /\ AllCalled /\ pc' = "events"
           \/ pc = "events" /\ pc' \in {"events", "ended"}
    BY <1>3, <1>12, BetweenEffect
  <2>2. Failed => pc \notin {"completing", "returned", "escaped"}
    BY <1>12 DEF BeforeParsing, LoopEnds, RawPart, Take, FeedEof, EofReturns, Finish, SourceFails
  <2> QED
    BY <1>1, <1>2, <1>4, <2>1, <2>2 DEF SettledInv, FirstIsBehind
<1>13. CASE Succeed
  <2>1. /\ pc = "ended" /\ (Unsettled' <=> Unsettled) /\ unfinished' = unfinished
        /\ \/ pc' = "escaped"
           \/ unfinished /\ pc' = "interrupting" /\ at' = 1
           \/ ~unfinished /\ pc' = "completing"
    BY <1>3, <1>13 DEF Succeed, Throw, Resume, Goto, partVars, handlerVars
  <2> QED
    BY <1>1, <2>1 DEF SettledInv, FirstIsBehind
<1>14. CASE InterruptUpload
  <2>1. CASE at \in Handlers /\ Call(at, "upload_interrupted", FALSE, 0, 0)
    <3>1. /\ heard'[at].call = "upload_interrupted"
          /\ \A h \in Handlers \ {at} : heard'[h] = heard[h]
      BY <2>1, CallEffect DEF ShapeInv
    <3>2. ~Unsettled'
      BY <1>1, <1>2, <1>3, <1>14, <2>1, <3>1 DEF Unsettled, InterruptUpload
    <3>3. /\ (pc' = "interrupting" /\ at' = at + 1) \/ pc' = "escaped"
          /\ unfinished' = unfinished
      <4>1. unfinished' = unfinished /\ ~AllCalled
        BY <1>14, <2>1, PlaceType DEF InterruptUpload, partVars, AllCalled, Handlers
      <4> QED
        BY <1>14, <4>1 DEF InterruptUpload, NextHandler, Throw, Goto
    <3> QED
      BY <1>2, <2>1, <3>2, <3>3 DEF SettledInv, FirstIsBehind
  <2>2. CASE AllCalled /\ Resume("completing") /\ UNCHANGED heard
    BY <1>1, <1>2, <1>3, <1>14, <2>2 DEF InterruptUpload, Resume, Goto, SettledInv, FirstIsBehind
  <2> QED
    BY <1>14, <2>1, <2>2 DEF InterruptUpload
<1>15. CASE AbortUpload
  <2>1. CASE /\ at \in Handlers /\ Call(at, "upload_interrupted", FALSE, 0, 0)
             /\ NextHandler \/ (pc' = pc /\ at' = HandlerCount + 1)
    <3>1. /\ heard'[at].call = "upload_interrupted"
          /\ \A h \in Handlers \ {at} : heard'[h] = heard[h]
      BY <2>1, CallEffect DEF ShapeInv
    <3>2. ~Unsettled'
      BY <1>1, <1>2, <1>3, <1>15, <2>1, <3>1 DEF Unsettled, AbortUpload
    <3>3. pc' = "aborting" /\ at' > 1
      BY <1>2, <1>15, <2>1 DEF AbortUpload, NextHandler
    <3> QED
      BY <3>2, <3>3 DEF SettledInv, FirstIsBehind
  <2>2. CASE (unfinished => AllCalled) /\ Resume("raised") /\ UNCHANGED heard
    BY <1>1, <1>2, <1>3, <1>15, <2>2 DEF AbortUpload, Resume, Goto, SettledInv, FirstIsBehind
  <2> QED
    BY <1>15, <2>1, <2>2 DEF AbortUpload
<1>16. CASE UploadComplete
  <2>1. /\ pc = "completing"
        /\ \/ pc' = "completing" /\ exception' = exception
           \/ pc' \in {"returned", "escaped"}
    BY <1>16 DEF UploadComplete, NextHandler, Throw, Resume, Goto
  <2>2. ~Unsettled => ~Unsettled'
    <3>1. CASE UNCHANGED heard
      BY <1>3, <3>1
    <3>2. CASE at \in Handlers /\ Call(at, "upload_complete", FALSE, 0, 0)
      <4>1. /\ heard'[at].call = "upload_complete"
            /\ \A h \in Handlers \ {at} : heard'[h] = heard[h]
        BY <3>2, CallEffect DEF ShapeInv
      <4> QED
        BY <1>2, <1>3, <3>2, <4>1 DEF Unsettled
    <3> QED
      BY <1>16, <3>1, <3>2 DEF UploadComplete
  <2> QED
    BY <1>1, <2>1, <2>2 DEF SettledInv, FirstIsBehind
<1>17. CASE Done \/ UNCHANGED vars
  BY <1>1, <1>3, <1>17 DEF Done, vars, SettledInv, FirstIsBehind
<1> QED
  BY <1>5, <1>6, <1>7, <1>8, <1>9, <1>10, <1>11, <1>12, <1>13, <1>14, <1>15, <1>16, <1>17
     DEF Next

LEMMA SettledInvariant == Spec => []SettledInv
<1>1. Init => SettledInv
  <2> SUFFICES ASSUME Init, 1 \in Handlers PROVE SettledInv
    BY DEF SettledInv
  <2>1. ~Unsettled /\ unfinished = FALSE /\ pc = "raw"
    BY DEF Init, Unsettled, NoCall
  <2> QED
    BY <2>1 DEF SettledInv
<1>2. BaseInv /\ SettledInv /\ [Next]_vars => SettledInv'
  BY SettledKeeps
<1> QED
  BY <1>1, <1>2, BaseInvariant, PTL DEF Spec

(* An upload that is not completed is interrupted before upload_complete:  *)
(* for any number of handlers and any answers, no request that ends        *)
(* without an exception gets to upload_complete while the first handler's  *)
(* last call is of an upload begun (parser.py:188-193, 226-229, 414).      *)
THEOREM SettledCorrect == Spec => []UploadsAreSettled
<1>1. SettledInv => UploadsAreSettled
  BY DEF SettledInv, UploadsAreSettled, Unsettled
<1> QED
  BY <1>1, SettledInvariant, PTL

-----------------------------------------------------------------------------
(* The calls that end a request come once each, to one handler after the   *)
(* other: upload_interrupted after the events, upload_complete at the very *)
(* end.                                                                    *)
LastCallsInv ==
  \A h \in Handlers :
    /\ heard[h].call = "upload_complete" =>
         pc \in {"completing", "returned", "escaped"} /\ (pc = "completing" => h < at)
    /\ heard[h].call = "upload_interrupted" =>
         pc \notin Trying /\ (pc \in {"interrupting", "aborting"} => h < at)

LEMMA LastCallsKeeps ==
  ASSUME BaseInv, LastCallsInv, [Next]_vars
  PROVE  LastCallsInv'
<1> USE DEF BaseInv
<1>1. ASSUME pc \in Trying,
             \A h \in Handlers :
               \/ heard'[h] = heard[h]
               \/ heard'[h].call \in {"new_file", "receive_data_chunk", "file_complete"}
      PROVE  LastCallsInv'
  <2> SUFFICES ASSUME NEW h \in Handlers
               PROVE  /\ heard'[h].call # "upload_complete"
                      /\ heard'[h].call # "upload_interrupted"
    BY DEF LastCallsInv
  <2>1. heard[h].call # "upload_complete" /\ heard[h].call # "upload_interrupted"
    BY <1>1 DEF LastCallsInv, Trying
  <2> QED
    BY <1>1, <2>1
<1>2. \A h \in Handlers : h < at + 1 <=> h < at \/ h = at
  BY DEF Handlers, ShapeInv, ControlType
<1>3. CASE NewFile
  BY <1>1, <1>3, NewFileEffect DEF Trying
<1>4. CASE ReceiveChunk
  BY <1>1, <1>4, ReceiveChunkEffect DEF Trying
<1>5. CASE FileComplete
  BY <1>1, <1>5, FileCompleteEffect DEF Trying
<1>6. CASE PartBegin \/ PartData \/ PartEnd \/ NobodyReturnsFile
  BY <1>1, <1>6, PartBeginEffect, PartDataEffect, PartEndEffect, NobodyEffect DEF Trying
<1>7. CASE BeforeParsing \/ LoopEnds \/ RawPart \/ FeedEof \/ Finish \/ SourceFails
  <2>1. pc \in Trying
    BY <1>7 DEF BeforeParsing, LoopEnds, RawPart, Take, FeedEof, EofReturns, Finish,
                SourceFails, Trying
  <2> QED
    BY <1>1, <1>7, <2>1, BetweenEffect
<1>8. CASE Succeed
  BY <1>1, <1>8 DEF Succeed, Trying, handlerVars
<1>9. CASE InterruptUpload
  <2>1. CASE at \in Handlers /\ Call(at, "upload_interrupted", FALSE, 0, 0)
    <3>1. /\ heard'[at].call = "upload_interrupted"
          /\ \A h \in Handlers \ {at} : heard'[h] = heard[h]
      BY <2>1, CallEffect DEF ShapeInv
    <3>2. pc = "interrupting" /\ ((pc' = "interrupting" /\ at' = at + 1) \/ pc' = "escaped")
      <4>1. ~AllCalled
        BY <2>1, PlaceType DEF AllCalled, Handlers
      <4> QED
        BY <1>9, <4>1 DEF InterruptUpload, NextHandler, Throw, Goto
    <3> QED
      BY <1>2, <2>1, <3>1, <3>2 DEF LastCallsInv, Trying
  <2>2. CASE AllCalled /\ Resume("completing") /\ UNCHANGED heard
    BY <1>9, <2>2 DEF InterruptUpload, Resume, Goto, LastCallsInv, Trying
  <2> QED
    BY <1>9, <2>1, <2>2 DEF InterruptUpload
<1>10. CASE AbortUpload
  <2>1. CASE /\ at \in Handlers /\ Call(at, "upload_interrupted", FALSE, 0, 0)
             /\ NextHandler \/ (pc' = pc /\ at' = HandlerCount + 1)
    <3>1. /\ heard'[at].call = "upload_interrupted"
          /\ \A h \in Handlers \ {at} : heard'[h] = heard[h]
      BY <2>1, CallEffect DEF ShapeInv
    <3>2. /\ pc = "aborting" /\ pc' = "aborting"
          /\ at' = at + 1 \/ at' = HandlerCount + 1
      BY <1>10, <2>1 DEF AbortUpload, NextHandler
    <3>3. \A h \in Handlers : h < HandlerCount + 1
      BY PlaceType DEF Handlers
    <3> QED
      BY <1>2, <2>1, <3>1, <3>2, <3>3 DEF LastCallsInv, Trying
  <2>2. CASE Resume("raised") /\ UNCHANGED heard
    BY <1>10, <2>2 DEF AbortUpload, Resume, Goto, LastCallsInv, Trying
  <2> QED
    BY <1>10, <2>1, <2>2 DEF AbortUpload
<1>11. CASE UploadComplete
  <2>1. CASE at \in Handlers /\ Call(at, "upload_complete", FALSE, 0, 0)
    <3>1. /\ heard'[at].call = "upload_complete"
          /\ \A h \in Handlers \ {at} : heard'[h] = heard[h]
      BY <2>1, CallEffect DEF ShapeInv
    <3>2. /\ pc = "completing"
          /\ \/ pc' = "completing" /\ at' = at + 1
             \/ pc' \in {"returned", "escaped"}
      BY <1>11 DEF UploadComplete, NextHandler, Throw, Resume, Goto
    <3> QED
      BY <1>2, <2>1, <3>1, <3>2 DEF LastCallsInv, Trying
  <2>2. CASE Resume("returned") /\ UNCHANGED heard
    BY <1>11, <2>2 DEF UploadComplete, Resume, Goto, LastCallsInv, Trying
  <2> QED
    BY <1>11, <2>1, <2>2 DEF UploadComplete
<1>12. CASE Done \/ UNCHANGED vars
  BY <1>12 DEF Done, vars, LastCallsInv
<1> QED
  BY <1>3, <1>4, <1>5, <1>6, <1>7, <1>8, <1>9, <1>10, <1>11, <1>12 DEF Next

LEMMA LastCallsInvariant == Spec => []LastCallsInv
<1>1. Init => LastCallsInv
  BY DEF Init, LastCallsInv, NoCall
<1>2. BaseInv /\ LastCallsInv /\ [Next]_vars => LastCallsInv'
  BY LastCallsKeeps
<1> QED
  BY <1>1, <1>2, BaseInvariant, PTL DEF Spec

-----------------------------------------------------------------------------
(* _close_files reaches every file, or fails at one and has closed those   *)
(* of the handlers before it.                                              *)
FilesAreClosed ==
  \A h \in Handlers : file[h] = "open" => \E g \in 1..(h - 1) : file[g] = "failed"

LEMMA ClosesFiles ==
  ASSUME NEW open, CloseFiles(open) \/ CloseFails(open)
  PROVE  FilesAreClosed'
<1>1. CASE CloseFiles(open)
  BY <1>1 DEF CloseFiles, FilesAreClosed
<1>2. CASE CloseFails(open)
  <2>1. PICK h \in Handlers :
          file' = [g \in Handlers |-> CASE g = h -> "failed"
                                        [] g < h /\ open[g] # "none" -> "closed"
                                        [] OTHER -> open[g]]
    BY <1>2 DEF CloseFails
  <2>2. ASSUME NEW f \in Handlers, file'[f] = "open"
        PROVE  \E g \in 1..(f - 1) : file'[g] = "failed"
    <3>1. f # h /\ ~(f < h /\ open[f] # "none") /\ open[f] = "open"
      BY <2>1, <2>2
    <3>2. h \in 1..(f - 1)
      BY <3>1, PlaceType DEF Handlers
    <3>3. file'[h] = "failed"
      <4>1. h \in Int /\ ~(h < h)
        BY PlaceType DEF Handlers
      <4> QED
        BY <2>1, <4>1
    <3> QED
      BY <3>2, <3>3
  <2> QED
    BY <2>2 DEF FilesAreClosed
<1> QED
  BY <1>1, <1>2

(* Only _abort_upload, once it has closed the files, raises what _parse    *)
(* has caught.                                                             *)
LEMMA RaisedComesFromAbort ==
  ASSUME [Next]_vars, pc' = "raised"
  PROVE  (pc = "raised" /\ UNCHANGED file) \/ CloseFiles(file) \/ CloseFails(file)
<1> USE DEF Goto, Resume, Abort, Throw, NextHandler
<1>1. CASE BeforeParsing \/ SourceFails \/ LoopEnds \/ FeedEof \/ Succeed
  BY <1>1 DEF BeforeParsing, SourceFails, LoopEnds, FeedEof, EofReturns, Succeed
<1>2. CASE PartBegin \/ PartData \/ RawPart
  BY <1>2 DEF PartBegin, PartData, RawPart, HandleBegin, HandleData, HandleRaw, BeginField,
              BeginUnnamedFile, BeginFile, ReceiveFieldData, ReceiveFileData
<1>3. CASE NewFile \/ ReceiveChunk \/ FileComplete \/ NobodyReturnsFile
  BY <1>3 DEF NewFile, ReceiveChunk, FileComplete, NobodyReturnsFile, FileDone, SkipFile, Stop
<1>4. CASE PartEnd \/ Finish
  BY <1>4 DEF PartEnd, HandleEnd, FinishFile, FinishField, Finish
<1>5. CASE InterruptUpload \/ AbortUpload \/ UploadComplete
  BY <1>5 DEF InterruptUpload, AbortUpload, UploadComplete
<1>6. CASE Done \/ UNCHANGED vars
  BY <1>6 DEF Done, vars
<1> QED
  BY <1>1, <1>2, <1>3, <1>4, <1>5, <1>6 DEF Next

(* Whatever _parse raises after catching it, every upload is interrupted,  *)
(* every file closed but for those after a failed close, and no handler    *)
(* hears upload_complete (parser.py:217-222, 422-428).                     *)
THEOREM RaisedCorrect == Spec => []RaisedIsCleanedUp
<1> DEFINE RaisedIsClosed == pc = "raised" => FilesAreClosed
<1>1. Init => RaisedIsClosed
  BY DEF Init
<1>2. RaisedIsClosed /\ [Next]_vars => RaisedIsClosed'
  <2> SUFFICES ASSUME RaisedIsClosed, [Next]_vars, pc' = "raised" PROVE FilesAreClosed'
    OBVIOUS
  <2>1. (pc = "raised" /\ UNCHANGED file) \/ CloseFiles(file) \/ CloseFails(file)
    BY RaisedComesFromAbort
  <2> QED
    BY <2>1, ClosesFiles DEF FilesAreClosed
<1>3. SettledInv /\ LastCallsInv /\ RaisedIsClosed => RaisedIsCleanedUp
  <2> SUFFICES ASSUME SettledInv, LastCallsInv, FilesAreClosed, pc = "raised" PROVE CleanedUp
    BY DEF RaisedIsCleanedUp
  <2>1. ~Unsettled
    BY DEF SettledInv, Unsettled
  <2>2. \A h \in Handlers : heard[h].call # "upload_complete"
    BY DEF LastCallsInv
  <2> QED
    BY <2>1, <2>2 DEF CleanedUp, FilesAreClosed
<1> QED
  BY <1>1, <1>2, <1>3, SettledInvariant, LastCallsInvariant, PTL DEF Spec

-----------------------------------------------------------------------------
(* The upload in progress, as handler h has it: its `file' is open if it   *)
(* was told of this upload, it has not completed it, and the part's counter*)
(* stands where the last call left it.  While a file is started, a handler *)
(* whose turn is still to come has not heard of it.                        *)
KnowsFile(h) == heard[h].file <= fileCount

Unheard(h) == pc = "starting" /\ h >= at => heard[h].file # fileCount

Receives(h) == pc \in Trying /\ UploadOpen /\ (pc = "finishing" => h >= at)

InStep(h) ==
  /\ Told(h) => file[h] = "open"
  /\ heard[h].file = fileCount => LastCall(h) # "file_complete"
  /\ \A p \in part : p.counters[h] = Offset(h)

UploadInv == \A h \in Handlers : KnowsFile(h) /\ Unheard(h) /\ (Receives(h) => InStep(h))

(* A step that calls no handler and starts no file.                        *)
LEMMA QuietUpload ==
  ASSUME UploadInv, UNCHANGED <<file, heard, fileCount>>, pc' # "starting",
         pc' \in Trying /\ UploadOpen' => part' = part /\ pc \in Trying \ {"finishing"}
  PROVE  UploadInv'
<1> SUFFICES ASSUME NEW h \in Handlers
             PROVE  KnowsFile(h)' /\ Unheard(h)' /\ (Receives(h)' => InStep(h)')
  BY DEF UploadInv
<1>1. KnowsFile(h) /\ (Receives(h) => InStep(h))
  BY DEF UploadInv
<1>2. KnowsFile(h)' /\ Unheard(h)'
  BY <1>1 DEF KnowsFile, Unheard
<1>3. ASSUME Receives(h)' PROVE InStep(h)'
  <2>1. part' = part /\ pc \in Trying \ {"finishing"} /\ UploadOpen
    BY <1>3 DEF Receives, UploadOpen
  <2>2. InStep(h)
    BY <1>1, <2>1 DEF Receives
  <2> QED
    BY <2>1, <2>2 DEF InStep, Told, LastCall, Offset
<1> QED
  BY <1>2, <1>3

(* A call after which nothing more of the upload is handed on.             *)
LEMMA LastOfUpload ==
  ASSUME HandlerType, AccountType, UploadInv, at \in Handlers, fileCount' = fileCount,
         heard'[at].file = fileCount,
         \A h \in Handlers \ {at} : heard'[h] = heard[h],
         pc' # "starting", pc' \in Trying => ~UploadOpen'
  PROVE  UploadInv'
<1> SUFFICES ASSUME NEW h \in Handlers
             PROVE  KnowsFile(h)' /\ Unheard(h)' /\ (Receives(h)' => InStep(h)')
  BY DEF UploadInv
<1>1. heard'[h].file <= fileCount
  <2>1. CASE h = at
    BY <2>1 DEF AccountType
  <2>2. CASE h # at
    BY <2>2 DEF UploadInv, KnowsFile
  <2> QED
    BY <2>1, <2>2
<1> QED
  BY <1>1 DEF KnowsFile, Unheard, Receives

LEMMA NewFileUpload ==
  ASSUME BaseInv, UploadInv, NewFile
  PROVE  UploadInv'
<1>1. /\ HandlerType /\ AccountType /\ pc = "starting" /\ at \in Handlers
      /\ fileCount' = fileCount /\ UploadOpen
      /\ heard'[at] = [call |-> "new_file", file |-> fileCount, told |-> TRUE,
                       start |-> 0, end |-> 0,
                       times |-> heard'[at].times]
      /\ \A h \in Handlers \ {at} : heard'[h] = heard[h]
  BY NewFileEffect DEF BaseInv, ShapeInv, ControlInv
<1>2. CASE /\ (pc' = "starting" /\ at' = at + 1) \/ pc' = "events"
           /\ file' = Opened(at) /\ UNCHANGED <<part, exception>>
  <2> SUFFICES ASSUME NEW h \in Handlers
               PROVE  KnowsFile(h)' /\ Unheard(h)' /\ (Receives(h)' => InStep(h)')
    BY DEF UploadInv
  <2>1. KnowsFile(h) /\ Unheard(h) /\ InStep(h)
    BY <1>1 DEF UploadInv, Receives, Trying
  <2>2. CASE h = at
    <3>1. KnowsFile(h)' /\ at >= at /\ ~(at >= at + 1)
      BY <1>1, <2>2, PlaceType DEF KnowsFile, AccountType
    <3>2. Unheard(h)'
      BY <1>2, <2>2, <3>1 DEF Unheard
    <3>3. \A p \in part : p.counters[h] = 0
      BY <1>1, <2>1, <2>2, <3>1 DEF InStep, Offset, Unheard
    <3>4. file'[h] = "open"
      BY <1>1, <1>2, <2>2 DEF Opened, HandlerType
    <3>5. LastCall(h)' # "file_complete" /\ Offset(h)' = 0
      BY <1>1, <2>2 DEF LastCall, Offset
    <3> QED
      BY <1>2, <3>1, <3>2, <3>3, <3>4, <3>5 DEF InStep
  <2>3. CASE h # at
    <3>1. heard'[h] = heard[h] /\ file'[h] = file[h]
      BY <1>1, <1>2, <2>3 DEF Opened, HandlerType
    <3>2. KnowsFile(h)'
      BY <1>1, <2>1, <3>1 DEF KnowsFile
    <3>3. h >= at + 1 => h >= at
      BY <1>1, PlaceType
    <3>4. Unheard(h)'
      BY <1>1, <1>2, <2>1, <3>1, <3>3 DEF Unheard
    <3>5. InStep(h)'
      BY <1>1, <1>2, <2>1, <3>1 DEF InStep, Told, LastCall, Offset
    <3> QED
      BY <3>2, <3>4, <3>5
  <2> QED
    BY <2>2, <2>3
<1>3. CASE (pc' = "events" /\ ~UploadOpen') \/ Failed
  <2>1. pc' # "starting" /\ (pc' \in Trying => ~UploadOpen')
    BY <1>3 DEF Failed, Trying
  <2>2. heard'[at].file = fileCount
    BY <1>1
  <2> QED
    BY <1>1, <2>1, <2>2, LastOfUpload
<1> QED
  BY <1>2, <1>3, NewFileEffect DEF BaseInv

(* The counter of the handler moves with what it heard.                    *)
LEMMA ReceiveChunkUpload ==
  ASSUME BaseInv, UploadInv, ReceiveChunk
  PROVE  UploadInv'
<1>1. PICK p \in PartRecord :
        /\ pc = "receiving" /\ at \in Handlers /\ fileCount' = fileCount
        /\ part = {p}
        /\ heard'[at] = [call |-> "receive_data_chunk", file |-> fileCount,
                         told |-> Told(at), start |-> p.counters[at],
                         end |-> p.counters[at] + chunk,
                         times |-> heard'[at].times]
        /\ \/ /\ pc' \in {"receiving", "events"} /\ UNCHANGED <<file, exception>>
              /\ part' = {[p EXCEPT !.counters[at] = @ + chunk]}
           \/ pc' = "events" /\ exception' = exception /\ ~UploadOpen'
           \/ Failed
        /\ \A h \in Handlers \ {at} : heard'[h] = heard[h]
  BY ReceiveChunkEffect DEF BaseInv
<1>2. HandlerType /\ AccountType /\ UploadOpen
  BY <1>1 DEF BaseInv, ShapeInv, ControlInv
<1>3. CASE /\ pc' \in {"receiving", "events"} /\ UNCHANGED <<file, exception>>
           /\ part' = {[p EXCEPT !.counters[at] = @ + chunk]}
  <2> SUFFICES ASSUME NEW h \in Handlers
               PROVE  KnowsFile(h)' /\ Unheard(h)' /\ InStep(h)'
    BY DEF UploadInv
  <2>1. KnowsFile(h) /\ InStep(h)
    BY <1>1, <1>2 DEF UploadInv, Receives, Trying
  <2>2. Unheard(h)'
    BY <1>3 DEF Unheard
  <2>3. CASE h = at
    <3>1. KnowsFile(h)'
      BY <1>1, <1>2, <2>3 DEF KnowsFile, AccountType
    <3>2. Told(h)' <=> Told(h)
      <4>1. heard'[h].file = fileCount'
        BY <1>1, <2>3
      <4>2. heard'[at] = [call |-> "receive_data_chunk", file |-> fileCount,
                          told |-> Told(at), start |-> p.counters[at],
                          end |-> p.counters[at] + chunk,
                          times |-> heard'[at].times]
        BY <1>1
      <4>3. heard'[at].told <=> Told(at)
        BY <4>2, CallTold
      <4> QED
        BY <2>3, <4>1, <4>3 DEF Told
    <3>3. [p EXCEPT !.counters[at] = @ + chunk].counters[h] = p.counters[at] + chunk
      BY <1>1, <2>3 DEF PartRecord
    <3>4. LastCall(h)' # "file_complete" /\ Offset(h)' = p.counters[at] + chunk
      BY <1>1, <2>3 DEF LastCall, Offset
    <3> QED
      BY <1>3, <2>1, <2>2, <3>1, <3>2, <3>3, <3>4 DEF InStep
  <2>4. CASE h # at
    <3>1. heard'[h] = heard[h] /\ fileCount' = fileCount /\ file' = file
      BY <1>1, <1>3, <2>4
    <3>2. [p EXCEPT !.counters[at] = @ + chunk].counters[h] = p.counters[h]
      BY <1>1, <2>4 DEF PartRecord
    <3> QED
      BY <1>1, <1>3, <2>1, <2>2, <3>1, <3>2 DEF KnowsFile, InStep, Told, LastCall, Offset
  <2> QED
    BY <2>3, <2>4
<1>4. CASE (pc' = "events" /\ ~UploadOpen') \/ Failed
  <2>1. pc' # "starting" /\ (pc' \in Trying => ~UploadOpen') /\ heard'[at].file = fileCount
    BY <1>1, <1>4 DEF Failed, Trying
  <2> QED
    BY <1>1, <1>2, <2>1, LastOfUpload
<1> QED
  BY <1>1, <1>3, <1>4

(* The handlers before the one whose turn it is have passed on the file.   *)
LEMMA FileCompleteUpload ==
  ASSUME BaseInv, UploadInv, FileComplete
  PROVE  UploadInv'
<1>1. /\ pc = "finishing" /\ at \in Handlers /\ fileCount' = fileCount
      /\ heard'[at].file = fileCount
      /\ \A h \in Handlers \ {at} : heard'[h] = heard[h]
      /\ \/ /\ pc' = "finishing" /\ at' = at + 1
            /\ UNCHANGED <<part, unfinished, file, exception>>
         \/ pc' = "events" /\ part' = {}
         \/ Failed
  <2>1. PICK p \in PartRecord :
          heard'[at] = [call |-> "file_complete", file |-> fileCount,
                        told |-> Told(at), start |-> 0, end |-> p.counters[at],
                        times |-> heard'[at].times]
    BY FileCompleteEffect DEF BaseInv
  <2>2. heard'[at].file = fileCount
    BY <2>1
  <2> QED
    BY <2>2, FileCompleteEffect DEF BaseInv
<1>2. HandlerType /\ AccountType /\ UploadOpen
  BY <1>1 DEF BaseInv, ShapeInv, ControlInv
<1>3. CASE pc' = "finishing" /\ at' = at + 1 /\ UNCHANGED <<part, file>>
  <2> SUFFICES ASSUME NEW h \in Handlers
               PROVE  KnowsFile(h)' /\ Unheard(h)' /\ (Receives(h)' => InStep(h)')
    BY DEF UploadInv
  <2>1. Unheard(h)'
    BY <1>3 DEF Unheard
  <2>2. KnowsFile(h)'
    BY <1>1, <1>2, SMTT(60) DEF UploadInv, KnowsFile, AccountType
  <2>3. ASSUME Receives(h)' PROVE InStep(h)'
    <3>1. h >= at + 1 
      BY <1>3, <2>3 DEF Receives
    <3>2. h >= at /\ h # at
      BY <1>1, <3>1, PlaceType
    <3>3. InStep(h) /\ heard'[h] = heard[h]
      BY <1>1, <1>2, <3>2 DEF UploadInv, Receives, Trying
    <3> QED
      BY <1>1, <1>3, <3>3 DEF InStep, Told, LastCall, Offset
  <2> QED
    BY <2>1, <2>2, <2>3
<1>4. CASE (pc' = "events" /\ part' = {}) \/ Failed
  <2>1. pc' # "starting" /\ (pc' \in Trying => ~UploadOpen')
    BY <1>4 DEF Failed, Trying, UploadOpen
  <2> QED
    BY <1>1, <1>2, <2>1, LastOfUpload
<1> QED
  BY <1>1, <1>3, <1>4

(* A part that begins may be a new file, of which no handler has heard.    *)
LEMMA PartBeginUpload ==
  ASSUME BaseInv, UploadInv, PartBegin
  PROVE  UploadInv'
<1>1. /\ UNCHANGED <<file, heard>> /\ fileCount' \in {fileCount, fileCount + 1}
      /\ \/ Failed \/ (pc' = "events" /\ ~UploadOpen')
         \/ /\ pc' = "starting" /\ at' = 1 /\ fileCount' = fileCount + 1
            /\ \A p \in part' : p.counters = Counters
  BY PartBeginEffect DEF BaseInv
<1>2. HandlerType /\ fileCount \in Nat
  BY DEF BaseInv, ShapeInv, AccountType
<1> SUFFICES ASSUME NEW h \in Handlers
             PROVE  KnowsFile(h)' /\ Unheard(h)' /\ (Receives(h)' => InStep(h)')
  BY DEF UploadInv
<1>3. heard[h].file \in Nat /\ heard[h].file <= fileCount
  BY <1>2 DEF HandlerType, CallRecord, UploadInv, KnowsFile
<1>4. KnowsFile(h)'
  BY <1>1, <1>2, <1>3 DEF KnowsFile
<1>5. CASE Failed \/ (pc' = "events" /\ ~UploadOpen')
  BY <1>4, <1>5 DEF Failed, Trying, Unheard, Receives
<1>6. CASE /\ pc' = "starting" /\ at' = 1 /\ fileCount' = fileCount + 1
           /\ \A p \in part' : p.counters = Counters
  <2>1. heard'[h].file # fileCount'
    BY <1>1, <1>2, <1>3, <1>6
  <2>2. Counters[h] = 0
    BY DEF Counters
  <2> QED
    BY <1>4, <1>6, <2>1, <2>2 DEF Unheard, InStep, Told, Offset
<1> QED
  BY <1>1, <1>5, <1>6

LEMMA UploadKeeps ==
  ASSUME BaseInv, UploadInv, [Next]_vars
  PROVE  UploadInv'
<1>1. CASE PartData
  <2>1. /\ pc = "events" /\ UNCHANGED <<file, heard, fileCount>>
        /\ \/ Failed
           \/ pc' = "events" /\ (UploadOpen' => part' = part)
           \/ pc' = "receiving" /\ part' = part
    BY <1>1, PartDataEffect DEF BaseInv
  <2> QED
    BY <2>1, QuietUpload DEF Failed, Trying
<1>2. CASE PartEnd
  <2>1. /\ pc = "events" /\ UNCHANGED <<file, heard, fileCount>>
        /\ \/ Failed
           \/ pc' = "events" /\ part' = {}
           \/ pc' = "finishing" /\ part' = part
    BY <1>2, PartEndEffect DEF BaseInv
  <2> QED
    BY <2>1, QuietUpload DEF Failed, Trying, UploadOpen
<1>3. CASE BeforeParsing \/ LoopEnds \/ RawPart \/ FeedEof \/ Finish \/ SourceFails
  <2>1. /\ UNCHANGED <<file, heard, fileCount>> /\ part' \in {part, {}}
        /\ \/ Failed
           \/ pc' # "starting" /\ pc \in Trying \ {"finishing"}
    BY <1>3, BetweenEffect DEF Trying
  <2> QED
    BY <2>1, QuietUpload DEF Failed, Trying, UploadOpen
<1>4. CASE NobodyReturnsFile
  BY <1>4, NobodyEffect, QuietUpload DEF UploadOpen
<1>5. CASE Succeed
  <2>1. UNCHANGED <<file, heard, fileCount>> /\ pc' \in {"escaped", "interrupting", "completing"}
    BY <1>5 DEF Succeed, accountVars, handlerVars, Throw, Resume, Goto
  <2> QED
    BY <2>1, QuietUpload DEF Trying
<1>6. CASE InterruptUpload \/ AbortUpload \/ UploadComplete
  <2>1. /\ pc' \notin Trying /\ pc' # "starting" /\ fileCount' = fileCount
        /\ \/ heard' = heard
           \/ at \in Handlers /\ \E call \in Calls : Call(at, call, FALSE, 0, 0)
    BY <1>6 DEF InterruptUpload, AbortUpload, UploadComplete, accountVars, Calls, Trying,
                NextHandler, Throw, Resume, Goto
  <2>2. CASE heard' = heard
    BY <2>1, <2>2 DEF UploadInv, KnowsFile, Unheard, Receives
  <2>3. ASSUME at \in Handlers, NEW call \in Calls, Call(at, call, FALSE, 0, 0)
        PROVE  UploadInv'
    <3>1. /\ heard'[at].file = fileCount
          /\ \A h \in Handlers \ {at} : heard'[h] = heard[h]
      <4>1. HandlerType
        BY DEF BaseInv, ShapeInv
      <4>2. PICK told \in BOOLEAN : Call(at, call, told, 0, 0)
        BY <2>3
      <4>3. /\ heard'[at] = [call |-> call, file |-> fileCount, told |-> told,
                             start |-> 0, end |-> 0, times |-> heard'[at].times]
            /\ \A h \in Handlers \ {at} : heard'[h] = heard[h]
        BY <2>3, <4>1, <4>2, CallEffect
      <4> QED
        BY <4>3
    <3> QED
      BY <2>1, <2>3, <3>1, LastOfUpload DEF BaseInv, ShapeInv
  <2> QED
    BY <2>1, <2>2, <2>3
<1>7. CASE Done \/ UNCHANGED vars
  <2>1. UNCHANGED vars
    BY <1>7 DEF Done
  <2> QED
    BY <2>1 DEF vars, UploadInv, KnowsFile, Unheard, Receives, InStep, UploadOpen, Told,
                LastCall, Offset
<1> QED
  BY <1>1, <1>2, <1>3, <1>4, <1>5, <1>6, <1>7, NewFileUpload, ReceiveChunkUpload,
     FileCompleteUpload, PartBeginUpload DEF Next

LEMMA UploadInvariant == Spec => []UploadInv
<1>1. Init => UploadInv
  <2> SUFFICES ASSUME Init PROVE UploadInv
    OBVIOUS
  <2>1. part = {} /\ pc = "raw" /\ fileCount = 0 /\ \A h \in Handlers : heard[h].file = 0
    BY DEF Init, NoCall
  <2> QED
    BY <2>1 DEF UploadInv, KnowsFile, Unheard, Receives, UploadOpen
<1>2. BaseInv /\ UploadInv /\ [Next]_vars => UploadInv'
  BY UploadKeeps
<1> QED
  BY <1>1, <1>2, BaseInvariant, PTL DEF Spec

(* A file that FILES holds stays open while the request may still succeed, *)
(* whatever the uploads after it come to: what closes it is an exception   *)
(* or a SkipFile for an upload that its handler was not told of            *)
(* (parser.py:237-242, 378-380).                                           *)
THEOREM HandedOverCorrect == Spec => HandedOverFilesStayOpen
<1> DEFINE Stays ==
      \A h \in Handlers :
        file[h] = "handed over" /\ file'[h] \in {"closed", "failed"} =>
          exception' # "none" \/ (pc \in {"starting", "receiving"} /\ ~Told(h))
<1>1. BaseInv /\ UploadInv /\ [Next]_vars => [Stays]_vars
  <2> SUFFICES ASSUME BaseInv, UploadInv, Next, NEW h \in Handlers,
                      file[h] = "handed over", file'[h] \in {"closed", "failed"},
                      exception' = "none"
               PROVE  pc \in {"starting", "receiving"} /\ ~Told(h)
    BY Zenon
  <2>1. HandlerType /\ file' # file /\ ~Failed
    BY DEF BaseInv, ShapeInv, Failed
  <2>2. pc \in {"starting", "receiving"} => ~Told(h)
    BY DEF BaseInv, ControlInv, Trying, UploadInv, Receives, InStep
  <2>3. CASE NewFile \/ ReceiveChunk
    BY <2>2, <2>3 DEF NewFile, ReceiveChunk
  <2>4. CASE FileComplete
    <3>1. file' = [file EXCEPT ![at] = IF @ = "open" THEN "handed over" ELSE @]
      BY <2>1, <2>4, FileCompleteEffect DEF BaseInv
    <3> QED
      BY <2>1, <3>1 DEF HandlerType
  <2>5. CASE AbortUpload
    <3>1. exception' = exception /\ exception # "none"
      BY <2>5 DEF AbortUpload, Resume, BaseInv, ControlInv
    <3> QED
      BY <3>1
  <2>6. CASE PartBegin \/ PartData \/ PartEnd \/ NobodyReturnsFile
    BY <2>1, <2>6, PartBeginEffect, PartDataEffect, PartEndEffect, NobodyEffect DEF BaseInv
  <2>7. CASE BeforeParsing \/ LoopEnds \/ RawPart \/ FeedEof \/ Finish \/ SourceFails
    BY <2>1, <2>7, BetweenEffect
  <2>8. CASE Succeed \/ InterruptUpload \/ UploadComplete \/ Done
    BY <2>1, <2>8 DEF Succeed, InterruptUpload, UploadComplete, Done, handlerVars, vars
  <2> QED
    BY <2>3, <2>4, <2>5, <2>6, <2>7, <2>8 DEF Next
<1> QED
  BY <1>1, BaseInvariant, UploadInvariant, PTL DEF Spec, HandedOverFilesStayOpen

(* The calls of one handler, one action after the other.                   *)
LEMMA NewFileIsHeard ==
  ASSUME BaseInv, UploadInv, LastCallsInv, NewFile
  PROVE  MayHear(at) /\ \A h \in Handlers \ {at} : heard'[h] = heard[h]
<1>1. /\ pc = "starting" /\ at \in Handlers
      /\ heard'[at] = [call |-> "new_file", file |-> fileCount, told |-> TRUE,
                       start |-> 0, end |-> 0,
                       times |-> heard'[at].times]
      /\ \A h \in Handlers \ {at} : heard'[h] = heard[h]
  BY NewFileEffect DEF BaseInv
<1>2. heard'[at].call = "new_file" /\ heard'[at].file = fileCount
  BY <1>1
<1>3. heard[at].file # fileCount
  BY <1>1, PlaceType DEF UploadInv, Unheard
<1>4. LastCall(at) \notin {"upload_interrupted", "upload_complete"}
  BY <1>1 DEF LastCallsInv, LastCall, Trying
<1> QED
  BY <1>1, <1>2, <1>3, <1>4 DEF MayHear

LEMMA ChunkIsHeard ==
  ASSUME BaseInv, UploadInv, LastCallsInv, ReceiveChunk
  PROVE  MayHear(at) /\ \A h \in Handlers \ {at} : heard'[h] = heard[h]
<1>1. PICK p \in PartRecord :
        /\ pc = "receiving" /\ at \in Handlers /\ part = {p}
        /\ heard'[at] = [call |-> "receive_data_chunk", file |-> fileCount,
                         told |-> Told(at), start |-> p.counters[at],
                         end |-> p.counters[at] + chunk,
                         times |-> heard'[at].times]
        /\ \A h \in Handlers \ {at} : heard'[h] = heard[h]
  BY ReceiveChunkEffect DEF BaseInv
<1>2. /\ heard'[at].call = "receive_data_chunk" /\ heard'[at].file = fileCount
      /\ heard'[at].start = p.counters[at]
  BY <1>1
<1>3. heard'[at].told <=> Told(at)
  BY <1>1, CallTold
<1>4. InStep(at)
  BY <1>1 DEF BaseInv, ControlInv, UploadInv, Receives, Trying
<1>5. LastCall(at) \notin {"upload_interrupted", "upload_complete"}
  BY <1>1 DEF LastCallsInv, LastCall, Trying
<1>6. LastCall(at) # "file_complete" \/ fileCount # heard[at].file
  BY <1>4 DEF InStep
<1>7. heard'[at].start = Offset(at) /\ (heard'[at].told => file[at] # "closed")
  BY <1>1, <1>2, <1>3, <1>4 DEF InStep
<1> QED
  BY <1>1, <1>2, <1>5, <1>6, <1>7 DEF MayHear

LEMMA FileCompleteIsHeard ==
  ASSUME BaseInv, UploadInv, LastCallsInv, FileComplete
  PROVE  MayHear(at) /\ \A h \in Handlers \ {at} : heard'[h] = heard[h]
<1>1. PICK p \in PartRecord :
        /\ pc = "finishing" /\ at \in Handlers /\ part = {p}
        /\ heard'[at] = [call |-> "file_complete", file |-> fileCount,
                         told |-> Told(at), start |-> 0, end |-> p.counters[at],
                         times |-> heard'[at].times]
        /\ \A h \in Handlers \ {at} : heard'[h] = heard[h]
  BY FileCompleteEffect DEF BaseInv
<1>2. /\ heard'[at].call = "file_complete" /\ heard'[at].file = fileCount
      /\ heard'[at].end = p.counters[at]
  BY <1>1
<1>3. heard'[at].told <=> Told(at)
  BY <1>1, CallTold
<1>4. InStep(at)
  BY <1>1, PlaceType DEF BaseInv, ControlInv, UploadInv, Receives, Trying
<1>5. LastCall(at) \notin {"upload_interrupted", "upload_complete"}
  BY <1>1 DEF LastCallsInv, LastCall, Trying
<1>6. LastCall(at) # "file_complete" \/ fileCount # heard[at].file
  BY <1>4 DEF InStep
<1>7. heard'[at].end = Offset(at) /\ (heard'[at].told => file[at] # "closed")
  BY <1>1, <1>2, <1>3, <1>4 DEF InStep
<1> QED
  BY <1>1, <1>2, <1>5, <1>6, <1>7 DEF MayHear

(* What is left to hear when the events are over.                          *)
LEMMA EndIsHeard ==
  ASSUME BaseInv, SettledInv, LastCallsInv, InterruptUpload \/ AbortUpload \/ UploadComplete,
         heard' # heard
  PROVE  at \in Handlers /\ MayHear(at) /\ \A h \in Handlers \ {at} : heard'[h] = heard[h]
<1>1. HandlerType
  BY DEF BaseInv, ShapeInv
<1>2. CASE UploadComplete
  <2>1. pc = "completing" /\ at \in Handlers /\ Call(at, "upload_complete", FALSE, 0, 0)
    BY <1>2 DEF UploadComplete
  <2>2. /\ heard'[at].call = "upload_complete"
        /\ \A h \in Handlers \ {at} : heard'[h] = heard[h]
    BY <1>1, <2>1, CallEffect
  <2>3. LastCall(at) # "upload_complete"
    BY <2>1, PlaceType DEF LastCallsInv, LastCall
  <2> QED
    BY <2>1, <2>2, <2>3 DEF MayHear
<1>3. CASE InterruptUpload \/ AbortUpload
  <2>1. /\ pc \in {"interrupting", "aborting"} /\ at \in Handlers
        /\ Call(at, "upload_interrupted", FALSE, 0, 0)
    BY <1>3 DEF InterruptUpload, AbortUpload
  <2>2. /\ heard'[at].call = "upload_interrupted"
        /\ \A h \in Handlers \ {at} : heard'[h] = heard[h]
    BY <1>1, <2>1, CallEffect
  <2>3. LastCall(at) \notin {"upload_interrupted", "upload_complete"}
    BY <2>1, PlaceType DEF LastCallsInv, LastCall
  <2>4. ASSUME LastCall(at) = "file_complete", at = 1, pc = "interrupting" PROVE FALSE
    <3>1. FirstIsBehind /\ unfinished
      BY <2>4 DEF FirstIsBehind, BaseInv, ControlInv
    <3>2. Unsettled
      BY <2>1, <2>4, <3>1 DEF SettledInv
    <3> QED
      BY <2>4, <3>2 DEF Unsettled, LastCall
  <2> QED
    BY <2>1, <2>2, <2>3, <2>4 DEF MayHear
<1> QED
  BY <1>2, <1>3

(* For any number of handlers, every call that one of them gets is one     *)
(* that the contract allows after the calls before it, whatever the others *)
(* answer: contiguous chunks, the size they add up to, no chunk of a file  *)
(* that a SkipFile closed, each file completed at most once and the last   *)
(* calls once and in order (parser.py:340-352, 371-380, 409-414, 437-439). *)
(* A call that repeats the one before it is not missed: CallIsSeen.        *)
THEOREM ContractCorrect == Spec => HandlerContract
<1> DEFINE Hears == \A h \in Handlers : heard'[h] # heard[h] => MayHear(h)
<1>1. BaseInv /\ UploadInv /\ SettledInv /\ LastCallsInv /\ [Next]_vars => [Hears]_vars
  <2> SUFFICES ASSUME BaseInv, UploadInv, SettledInv, LastCallsInv, Next PROVE Hears
    BY Zenon
  <2>1. CASE heard' = heard
    BY <2>1
  <2>2. CASE MayHear(at) /\ \A h \in Handlers \ {at} : heard'[h] = heard[h]
    BY <2>2
  <2>3. CASE NewFile \/ ReceiveChunk \/ FileComplete
    BY <2>2, <2>3, NewFileIsHeard, ChunkIsHeard, FileCompleteIsHeard
  <2>4. CASE PartBegin \/ PartData \/ PartEnd \/ NobodyReturnsFile
    BY <2>1, <2>4, PartBeginEffect, PartDataEffect, PartEndEffect, NobodyEffect DEF BaseInv
  <2>5. CASE BeforeParsing \/ LoopEnds \/ RawPart \/ FeedEof \/ Finish \/ SourceFails
    BY <2>1, <2>5, BetweenEffect
  <2>6. CASE InterruptUpload \/ AbortUpload \/ UploadComplete
    BY <2>1, <2>2, <2>6, EndIsHeard
  <2>7. CASE Succeed \/ Done
    BY <2>1, <2>7 DEF Succeed, Done, handlerVars, vars
  <2> QED
    BY <2>3, <2>4, <2>5, <2>6, <2>7 DEF Next
<1> QED
  BY <1>1, BaseInvariant, UploadInvariant, SettledInvariant, LastCallsInvariant,
     PTL DEF Spec, HandlerContract

-----------------------------------------------------------------------------
(* What is counted, said of the events one by one.                         *)
IsCharged(e) == e.kind = "Raw" \/ (e.kind = "Begin" /\ e.part.filename = "absent")
IsFileCounted(e) == e.kind = "Begin" /\ e.part.filename # "absent" /\ e.part.name # {}

Charged(s) == {i \in 1..Len(s) : IsCharged(s[i])}
FilesIn(s) == {i \in 1..Len(s) : IsFileCounted(s[i])}

LEMMA CountsAgree ==
  ASSUME delivered \in Seq(Event)
  PROVE  /\ FieldsCharged = Cardinality(Charged(delivered))
         /\ CountedFiles = FilesIn(delivered)
<1>1. DOMAIN delivered = 1..Len(delivered)
  BY LenProperties
<1>2. FieldsBegun \cup Indices("Raw") = Charged(delivered)
  BY <1>1 DEF FieldsBegun, Indices, IsFieldAt, Charged, IsCharged
<1>3. CountedFiles = FilesIn(delivered)
  BY <1>1 DEF CountedFiles, Indices, IsFieldAt, FilesIn, IsFileCounted
<1> QED
  BY <1>2, <1>3 DEF FieldsCharged

(* A set of positions grows by the next position or stays.                 *)
LEMMA OneMore ==
  ASSUME NEW n \in Nat, NEW S \in SUBSET (1..n)
  PROVE  /\ Cardinality(S) \in Nat
         /\ Cardinality(S \cup {n + 1}) = Cardinality(S) + 1
<1>1. IsFiniteSet(1..n)
  BY FS_Interval
<1>2. IsFiniteSet(S) /\ Cardinality(S) \in Nat
  BY <1>1, FS_Subset, FS_CardinalityType
<1>3. n + 1 \notin S
  OBVIOUS
<1> QED
  BY <1>2, <1>3, FS_AddElement

(* One more event is one more field, one more file, or neither.            *)
LEMMA CountsAppend ==
  ASSUME NEW s \in Seq(Event), NEW e \in Event
  PROVE  /\ Cardinality(Charged(s)) \in Nat /\ Cardinality(FilesIn(s)) \in Nat
         /\ Cardinality(Charged(Append(s, e)))
              = Cardinality(Charged(s)) + (IF IsCharged(e) THEN 1 ELSE 0)
         /\ Cardinality(FilesIn(Append(s, e)))
              = Cardinality(FilesIn(s)) + (IF IsFileCounted(e) THEN 1 ELSE 0)
<1> DEFINE t == Append(s, e)
<1>1. /\ Len(t) = Len(s) + 1 /\ Len(s) \in Nat
      /\ \A i \in 1..Len(s) : t[i] = s[i]
      /\ t[Len(s) + 1] = e
  BY AppendProperties, LenProperties
<1> HIDE DEF t
<1>2. /\ 1..Len(t) = (1..Len(s)) \cup {Len(s) + 1}
      /\ Charged(s) \in SUBSET (1..Len(s)) /\ FilesIn(s) \in SUBSET (1..Len(s))
  BY <1>1 DEF Charged, FilesIn
<1>3. Charged(t) = Charged(s) \cup (IF IsCharged(e) THEN {Len(s) + 1} ELSE {})
  BY <1>1, <1>2 DEF Charged
<1>4. FilesIn(t) = FilesIn(s) \cup (IF IsFileCounted(e) THEN {Len(s) + 1} ELSE {})
  BY <1>1, <1>2 DEF FilesIn
<1>5. /\ Cardinality(Charged(s)) \in Nat
      /\ Cardinality(Charged(s) \cup {Len(s) + 1}) = Cardinality(Charged(s)) + 1
  BY <1>1, <1>2, OneMore
<1>6. /\ Cardinality(FilesIn(s)) \in Nat
      /\ Cardinality(FilesIn(s) \cup {Len(s) + 1}) = Cardinality(FilesIn(s)) + 1
  BY <1>1, <1>2, OneMore
<1>7. Cardinality(Charged(t)) = Cardinality(Charged(s)) + (IF IsCharged(e) THEN 1 ELSE 0)
  <2>1. CASE IsCharged(e)
    BY <1>3, <1>5, <2>1
  <2>2. CASE ~IsCharged(e)
    <3>1. Charged(t) = Charged(s)
      BY <1>3, <2>2
    <3> QED
      BY <1>5, <2>2, <3>1
  <2> QED
    BY <2>1, <2>2
<1>8. Cardinality(FilesIn(t)) = Cardinality(FilesIn(s)) + (IF IsFileCounted(e) THEN 1 ELSE 0)
  <2>1. CASE IsFileCounted(e)
    BY <1>4, <1>6, <2>1
  <2>2. CASE ~IsFileCounted(e)
    <3>1. FilesIn(t) = FilesIn(s)
      BY <1>4, <2>2
    <3> QED
      BY <1>6, <2>2, <3>1
  <2> QED
    BY <2>1, <2>2
<1> QED
  BY <1>5, <1>6, <1>7, <1>8 DEF t

(* The counters are what the events add up to (parser.py:188-205, 323-340).*)
TallyInv ==
  /\ fieldCount = Cardinality(Charged(delivered))
  /\ fileCount = Cardinality(FilesIn(delivered))

(* What each event adds, and how a limit that it breaks ends the loop.     *)
FieldAdmitted ==
  /\ fieldCount' = fieldCount + 1 /\ fileCount' = fileCount
  /\ \/ TooManyFields(fieldCount', 1) /\ pc' = "aborting" /\ exception' = "TooManyFields"
     \/ ~TooManyFields(fieldCount', 1) /\ exception' = exception

FileAdmitted ==
  /\ fieldCount' = fieldCount /\ fileCount' = fileCount + 1
  /\ LET tooMany == \E maximum \in MaxFiles : fileCount' > maximum
     IN  \/ tooMany /\ pc' = "aborting" /\ exception' = "TooManyFiles"
         \/ ~tooMany /\ exception' = exception

(* Steps that count nothing and refuse for no count.                       *)
Uncounted ==
  /\ UNCHANGED <<fieldCount, fileCount>>
  /\ exception' \notin {"TooManyFields", "TooManyFiles"} \/ exception' = exception
  /\ exception' \in {"none", "StopUpload"} => exception \in {"none", "StopUpload"}
  /\ pc' \in Trying => pc \in Trying

LEMMA PartBeginCounts ==
  ASSUME BaseInv, PartBegin
  PROVE  /\ \E e \in Event :
              /\ delivered' = Append(delivered, e) /\ e.kind = "Begin"
              /\ \/ IsCharged(e) /\ ~IsFileCounted(e) /\ FieldAdmitted
                 \/ ~IsCharged(e) /\ IsFileCounted(e) /\ FileAdmitted
                 \/ ~IsCharged(e) /\ ~IsFileCounted(e) /\ Uncounted
         /\ pc = "events" /\ UNCHANGED <<exact, before, final>>
         /\ pc' \in {"events", "starting", "aborting"}
<1>1. PICK p \in Parts : Take([kind |-> "Begin", part |-> p]) /\ HandleBegin(p)
  BY DEF PartBegin
<1> DEFINE e == [kind |-> "Begin", part |-> p]
<1>2. /\ e \in Event /\ pc = "events" /\ e.kind = "Begin" /\ e.part = p
      /\ delivered' = Append(delivered, e) /\ UNCHANGED <<exact, before, final>>
  BY <1>1 DEF Event, Take
<1>3. part = {}
  <2>1. ~IsInside(delivered)
    BY <1>1, <1>2, TakeKeeps DEF BaseInv, Inv
  <2> QED
    BY <1>2, <2>1 DEF BaseInv, Inv, PartInv
<1>4. BeginField(p) \/ BeginUnnamedFile(p) \/ BeginFile(p)
  BY <1>1, <1>3 DEF HandleBegin
<1> HIDE DEF e
<1>5. CASE BeginField(p)
  <2>1. IsCharged(e) /\ ~IsFileCounted(e)
    BY <1>2, <1>5 DEF BeginField, IsCharged, IsFileCounted
  <2>2. FieldAdmitted /\ pc' \in {"events", "aborting"}
    BY <1>5 DEF BeginField, Abort, Resume, Goto, FieldAdmitted
  <2> QED
    BY <1>2, <2>1, <2>2
<1>6. CASE BeginUnnamedFile(p)
  <2>1. ~IsCharged(e) /\ ~IsFileCounted(e)
    BY <1>2, <1>6 DEF BeginUnnamedFile, IsCharged, IsFileCounted
  <2>2. Uncounted /\ pc' = "events"
    BY <1>2, <1>6 DEF BeginUnnamedFile, Resume, Goto, Uncounted, Trying
  <2> QED
    BY <1>2, <2>1, <2>2
<1>7. CASE BeginFile(p)
  <2>1. ~IsCharged(e) /\ IsFileCounted(e)
    BY <1>2, <1>7 DEF BeginFile, IsCharged, IsFileCounted
  <2>2. FileAdmitted /\ pc' \in {"events", "starting", "aborting"}
    BY <1>7 DEF BeginFile, Abort, Resume, Goto, FileAdmitted
  <2> QED
    BY <1>2, <2>1, <2>2
<1> QED
  BY <1>4, <1>5, <1>6, <1>7

LEMMA RawPartCounts ==
  ASSUME BaseInv, RawPart
  PROVE  /\ \E e \in Event :
              /\ delivered' = Append(delivered, e) /\ IsCharged(e) /\ ~IsFileCounted(e)
         /\ FieldAdmitted
         /\ pc = "events" /\ UNCHANGED <<exact, before, final>>
         /\ pc' = "aborting" \/ (pc' = "events" /\ terminalRaw' = TRUE)
<1> DEFINE e == [kind |-> "Raw"]
<1>1. Take(e) /\ HandleRaw
  BY DEF RawPart
<1>2. /\ e \in Event /\ pc = "events" /\ IsCharged(e) /\ ~IsFileCounted(e)
      /\ delivered' = Append(delivered, e) /\ UNCHANGED <<exact, before, final>>
  BY <1>1 DEF Event, Take, IsCharged, IsFileCounted
<1>3. part = {}
  <2>1. e.kind = "Raw"
    OBVIOUS
  <2>2. ~IsInside(delivered)
    BY <1>1, <1>2, <2>1, TakeKeeps DEF BaseInv, Inv
  <2> QED
    BY <1>2, <2>2 DEF BaseInv, Inv, PartInv
<1>4. /\ FieldAdmitted
      /\ pc' = "aborting" \/ (pc' = "events" /\ terminalRaw' = TRUE)
  BY <1>1, <1>3 DEF HandleRaw, Abort, Resume, Goto, FieldAdmitted
<1> QED
  BY <1>2, <1>4

(* Data and ends are not counted.                                          *)
LEMMA InnerCounts ==
  ASSUME BaseInv, PartData \/ PartEnd
  PROVE  /\ \E e \in Event :
              /\ delivered' = Append(delivered, e) /\ ~IsCharged(e) /\ ~IsFileCounted(e)
         /\ Uncounted
         /\ pc = "events" /\ UNCHANGED <<exact, before, final>>
<1>1. CASE PartData
  <2>1. PICK size \in DataSizes : Take([kind |-> "Data", size |-> size]) /\ HandleData(size)
    BY <1>1 DEF PartData
  <2>2. /\ [kind |-> "Data", size |-> size] \in Event
        /\ ~IsCharged([kind |-> "Data", size |-> size])
        /\ ~IsFileCounted([kind |-> "Data", size |-> size])
    BY DEF Event, IsCharged, IsFileCounted
  <2>3. /\ delivered' = Append(delivered, [kind |-> "Data", size |-> size])
        /\ pc = "events" /\ UNCHANGED <<exact, before, final>>
    BY <2>1 DEF Take
  <2>4. Uncounted
    BY <2>1, <2>3 DEF HandleData, ReceiveFieldData, ReceiveFileData, Abort, Resume, Goto,
                      accountVars, Uncounted, Trying
  <2> QED
    BY <2>2, <2>3, <2>4
<1>2. CASE PartEnd
  <2>1. Take([kind |-> "End"]) /\ HandleEnd
    BY <1>2 DEF PartEnd
  <2>2. /\ [kind |-> "End"] \in Event
        /\ ~IsCharged([kind |-> "End"]) /\ ~IsFileCounted([kind |-> "End"])
    BY DEF Event, IsCharged, IsFileCounted
  <2>3. /\ delivered' = Append(delivered, [kind |-> "End"])
        /\ pc = "events" /\ UNCHANGED <<exact, before, final>>
    BY <2>1 DEF Take
  <2>4. Uncounted
    BY <2>1, <2>3 DEF HandleEnd, FinishField, FinishFile, Abort, Resume, Goto,
                      Uncounted, Trying
  <2> QED
    BY <2>2, <2>3, <2>4
<1> QED
  BY <1>1, <1>2

(* No other step takes an event.                                           *)
LEMMA OtherCounts ==
  ASSUME BaseInv,
         \/ BeforeParsing \/ SourceFails \/ NewFile \/ LoopEnds \/ ReceiveChunk
         \/ FileComplete \/ NobodyReturnsFile \/ FeedEof \/ Finish
         \/ InterruptUpload \/ AbortUpload \/ UploadComplete \/ Done \/ UNCHANGED vars
  PROVE  UNCHANGED delivered /\ Uncounted
<1> USE DEF Goto, Resume, Abort, Throw, NextHandler, Uncounted
<1>1. CASE BeforeParsing \/ LoopEnds \/ SourceFails \/ NobodyReturnsFile \/ FeedEof
  BY <1>1 DEF BeforeParsing, LoopEnds, SourceFails, NobodyReturnsFile, FileDone, FeedEof,
              EofReturns, accountVars, requestVars, Trying
<1>2. CASE NewFile \/ ReceiveChunk \/ FileComplete
  <2>1. exception = "none" /\ pc \in Trying
    BY <1>2 DEF NewFile, ReceiveChunk, FileComplete, BaseInv, ControlInv, Trying
  <2>2. UNCHANGED <<delivered, fieldCount, fileCount>>
    BY <1>2 DEF NewFile, ReceiveChunk, FileComplete, accountVars
  <2>3. exception' \notin {"TooManyFields", "TooManyFiles"} \/ exception' = exception
    BY <1>2 DEF NewFile, ReceiveChunk, FileComplete, FileDone, SkipFile, Stop
  <2> QED
    BY <2>1, <2>2, <2>3
<1>3. CASE Finish
  BY <1>3 DEF Finish, FinishField, requestVars, Trying
<1>4. CASE InterruptUpload \/ AbortUpload \/ UploadComplete
  BY <1>4 DEF InterruptUpload, AbortUpload, UploadComplete, accountVars, requestVars, Trying
<1>5. CASE Done \/ UNCHANGED vars
  BY <1>5 DEF Done, vars
<1> QED
  BY <1>1, <1>2, <1>3, <1>4, <1>5

LEMMA TallyKeeps ==
  ASSUME BaseInv, TallyInv, [Next]_vars
  PROVE  TallyInv'
<1>1. delivered \in Seq(Event)
  BY DEF BaseInv, Inv, StreamInv
<1>2. ASSUME NEW e \in Event, delivered' = Append(delivered, e),
             fieldCount' = fieldCount + (IF IsCharged(e) THEN 1 ELSE 0),
             fileCount' = fileCount + (IF IsFileCounted(e) THEN 1 ELSE 0)
      PROVE  TallyInv'
  BY <1>1, <1>2, CountsAppend DEF TallyInv
<1>3. fieldCount \in Nat /\ fileCount \in Nat
  BY DEF BaseInv, ShapeInv, AccountType
<1>4. CASE PartBegin
  <2>1. PICK e \in Event :
          /\ delivered' = Append(delivered, e)
          /\ \/ IsCharged(e) /\ ~IsFileCounted(e) /\ FieldAdmitted
             \/ ~IsCharged(e) /\ IsFileCounted(e) /\ FileAdmitted
             \/ ~IsCharged(e) /\ ~IsFileCounted(e) /\ Uncounted
    BY <1>4, PartBeginCounts
  <2> QED
    BY <1>2, <1>3, <2>1 DEF FieldAdmitted, FileAdmitted, Uncounted
<1>5. CASE RawPart
  <2>1. PICK e \in Event :
          /\ delivered' = Append(delivered, e) /\ IsCharged(e) /\ ~IsFileCounted(e)
          /\ FieldAdmitted
    BY <1>5, RawPartCounts
  <2> QED
    BY <1>2, <1>3, <2>1 DEF FieldAdmitted
<1>6. CASE PartData \/ PartEnd
  <2>1. PICK e \in Event :
          /\ delivered' = Append(delivered, e) /\ ~IsCharged(e) /\ ~IsFileCounted(e)
          /\ Uncounted
    BY <1>6, InnerCounts
  <2> QED
    BY <1>2, <1>3, <2>1 DEF Uncounted
<1>7. CASE Succeed
  BY <1>7 DEF Succeed, accountVars, requestVars, TallyInv
<1>8. ASSUME UNCHANGED delivered, Uncounted PROVE TallyInv'
  BY <1>8 DEF Uncounted, TallyInv
<1> QED
  BY <1>4, <1>5, <1>6, <1>7, <1>8, OtherCounts DEF Next

(* The counts are within the limits while the events are handled, one      *)
(* field over for the raw segment that may still be the last; and a        *)
(* refusal for a count is one of a count that is over the limit.           *)
AdmittedInv ==
  /\ exception = "TooManyFields" => \E maximum \in MaxFields : fieldCount > maximum
  /\ exception = "TooManyFiles" => \E maximum \in MaxFiles : fileCount > maximum
  /\ exception \in {"none", "StopUpload"} => \A maximum \in MaxFiles : fileCount <= maximum
  /\ pc \in Trying => \A maximum \in MaxFields : fieldCount <= maximum + 1

LEMMA AdmittedKeeps ==
  ASSUME BaseInv, AdmittedInv, [Next]_vars
  PROVE  AdmittedInv'
<1>1. /\ fieldCount \in Nat /\ fileCount \in Nat
      /\ MaxFields \subseteq Nat /\ MaxFiles \subseteq Nat
  BY UploadAssumption DEF BaseInv, ShapeInv, AccountType
<1>2. Uncounted => AdmittedInv'
  BY DEF Uncounted, AdmittedInv
<1>3. pc = "events" => pc \in Trying /\ exception = "none"
  BY DEF BaseInv, ControlInv, Trying
<1>4. ASSUME FieldAdmitted, pc = "events" PROVE AdmittedInv'
  <2>1. CASE TooManyFields(fieldCount', 1) /\ pc' = "aborting" /\ exception' = "TooManyFields"
    BY <1>1, <1>4, <2>1 DEF FieldAdmitted, TooManyFields, AdmittedInv, Trying
  <2>2. CASE ~TooManyFields(fieldCount', 1) /\ exception' = exception
    <3>1. \A maximum \in MaxFields : fieldCount' <= maximum + 1
      BY <1>1, <1>4, <2>2 DEF FieldAdmitted, TooManyFields
    <3> QED
      BY <1>3, <1>4, <2>2, <3>1 DEF FieldAdmitted, AdmittedInv
  <2> QED
    BY <1>4, <2>1, <2>2 DEF FieldAdmitted
<1>5. ASSUME FileAdmitted, pc = "events" PROVE AdmittedInv'
  <2>1. CASE /\ \E maximum \in MaxFiles : fileCount' > maximum
             /\ pc' = "aborting" /\ exception' = "TooManyFiles"
    BY <2>1 DEF AdmittedInv, Trying
  <2>2. CASE ~(\E maximum \in MaxFiles : fileCount' > maximum) /\ exception' = exception
    <3>1. \A maximum \in MaxFiles : fileCount' <= maximum
      BY <1>1, <1>5, <2>2 DEF FileAdmitted
    <3>2. \A maximum \in MaxFields : fieldCount' <= maximum + 1
      BY <1>3, <1>5 DEF FileAdmitted, AdmittedInv
    <3> QED
      BY <1>3, <1>5, <2>2, <3>1, <3>2 DEF AdmittedInv
  <2> QED
    BY <1>5, <2>1, <2>2 DEF FileAdmitted
<1>6. CASE Succeed
  <2>1. /\ UNCHANGED <<fieldCount, fileCount>> /\ pc' \notin Trying
        /\ \/ TooManyFields(fieldCount, 0) /\ exception' = "TooManyFields"
           \/ exception' = exception
    BY <1>6 DEF Succeed, Throw, Resume, Goto, accountVars, Trying
  <2>2. TooManyFields(fieldCount, 0) => \E maximum \in MaxFields : fieldCount > maximum
    BY <1>1 DEF TooManyFields
  <2> QED
    BY <2>1, <2>2 DEF AdmittedInv
<1> QED
  BY <1>2, <1>4, <1>5, <1>6, PartBeginCounts, RawPartCounts, InnerCounts, OtherCounts DEF Next

(* terminal_raw is set whenever the events so far end with a raw segment or*)
(* the end of a part, until finish() finds that the input ended with the   *)
(* token itself (parser.py:188-196, 205).                                  *)
TerminalInv ==
  /\ exact <=> BareToken
  /\ pc = "raw" => delivered = <<>>
  /\ pc \in {"raw", "events", "starting", "receiving"} =>
       terminalRaw \/ delivered = <<>> \/ IsInside(delivered)
  /\ pc = "ended" => terminalRaw \/ exact \/ delivered = <<>> \/ IsInside(delivered)

LEMMA TerminalKeeps ==
  ASSUME BaseInv, TerminalInv, [Next]_vars
  PROVE  TerminalInv'
<1> DEFINE Reached == terminalRaw \/ delivered = <<>> \/ IsInside(delivered)
<1>1. ASSUME UNCHANGED <<exact, before, final>>, pc' # "raw", pc' # "ended",
             pc' \in {"events", "starting", "receiving"} => Reached'
      PROVE  TerminalInv'
  BY <1>1 DEF TerminalInv, BareToken
<1>2. CASE PartBegin
  <2>1. IsInside(delivered')
    <3>1. PICK p \in Parts : Take([kind |-> "Begin", part |-> p])
      BY <1>2 DEF PartBegin
    <3>2. [kind |-> "Begin", part |-> p] \in Event
      BY DEF Event
    <3> QED
      BY <3>1, <3>2, TakeKeeps DEF BaseInv, Inv
  <2> QED
    BY <1>1, <1>2, <2>1, PartBeginCounts
<1>3. CASE PartData
  <2>1. IsInside(delivered')
    <3>1. PICK size \in DataSizes : Take([kind |-> "Data", size |-> size])
      BY <1>3 DEF PartData
    <3>2. [kind |-> "Data", size |-> size] \in Event
      BY DEF Event
    <3> QED
      BY <3>1, <3>2, TakeKeeps DEF BaseInv, Inv
  <2>2. pc' \in {"events", "receiving", "aborting", "completing", "escaped"}
    BY <1>3, PartDataEffect DEF BaseInv, Failed
  <2> QED
    BY <1>1, <1>3, <2>1, <2>2, InnerCounts
<1>4. CASE PartEnd
  <2>1. /\ pc' \in {"events", "finishing", "aborting"}
        /\ pc' = "events" => terminalRaw' = TRUE
    <3>1. HandleEnd /\ ~Abort("Protocol")
      <4>1. ASSUME Abort("Protocol") PROVE FALSE
        <5>1. exception' = "Protocol" /\ Inv'
          BY <4>1, <1>4, PartEndKeeps DEF Abort, BaseInv
        <5> QED
          BY <5>1 DEF Inv, PartInv
      <4> QED
        BY <1>4, <4>1 DEF PartEnd
    <3> QED
      BY <3>1 DEF HandleEnd, FinishField, FinishFile, Abort, Resume, Goto
  <2> QED
    BY <1>1, <1>4, <2>1, InnerCounts
<1>5. CASE RawPart
  BY <1>1, <1>5, RawPartCounts
<1>6. CASE NewFile \/ ReceiveChunk
  <2>1. /\ UNCHANGED <<exact, before, final, delivered, terminalRaw>>
        /\ pc \in {"starting", "receiving"}
        /\ pc' \in {"events", "starting", "receiving", "aborting", "completing", "escaped"}
    BY <1>6, NewFileEffect, ReceiveChunkEffect
       DEF NewFile, ReceiveChunk, BaseInv, Failed
  <2> QED
    BY <1>1, <2>1 DEF TerminalInv
<1>7. CASE FileComplete \/ NobodyReturnsFile
  <2>1. UNCHANGED <<exact, before, final>>
    BY <1>7 DEF FileComplete, NobodyReturnsFile, requestVars
  <2>2. \/ pc' = "events" /\ terminalRaw' = TRUE
        \/ pc' \in {"finishing", "aborting", "completing", "escaped"}
    BY <1>7 DEF FileComplete, NobodyReturnsFile, FileDone, NextHandler, Stop, Throw, Abort,
                Resume, Goto
  <2> QED
    BY <1>1, <2>1, <2>2
<1>8. CASE FeedEof
  <2>1. pc = "events" /\ UNCHANGED <<pc, delivered, terminalRaw>>
    BY <1>8 DEF FeedEof, EofReturns, partVars
  <2>2. exact' <=> BareToken'
    BY <1>8 DEF FeedEof, EofReturns, IsExact, BareToken
  <2> QED
    BY <2>1, <2>2 DEF TerminalInv
<1>9. CASE Finish
  <2>1. /\ pc = "events" /\ UNCHANGED <<exact, before, final, delivered>>
        /\ terminalRaw' = (terminalRaw /\ ~exact)
        /\ pc' \in {"ended", "aborting"}
    BY <1>9 DEF Finish, FinishField, Resume, Abort, Goto, requestVars
  <2> QED
    BY <2>1 DEF TerminalInv, BareToken
<1>10. CASE BeforeParsing \/ LoopEnds \/ SourceFails
  <2>1. /\ UNCHANGED <<exact, before, final, delivered, terminalRaw>>
        /\ \/ pc \in {"raw", "starting", "receiving"} /\ pc' = "events"
           \/ pc = "raw" /\ pc' \in {"raw", "returned", "escaped"}
           \/ pc' = "aborting"
    BY <1>10 DEF BeforeParsing, LoopEnds, SourceFails, NextHandler, Resume, Abort, Throw, Goto,
                 partVars, requestVars
  <2> QED
    BY <2>1 DEF TerminalInv, BareToken
<1>11. CASE Succeed \/ InterruptUpload \/ AbortUpload \/ UploadComplete
  <2>1. UNCHANGED <<exact, before, final>>
    BY <1>11 DEF Succeed, InterruptUpload, AbortUpload, UploadComplete, requestVars
  <2>2. pc' \notin {"raw", "events", "starting", "receiving", "ended"}
    BY <1>11 DEF Succeed, InterruptUpload, AbortUpload, UploadComplete, NextHandler, Throw,
                 Resume, Goto
  <2> QED
    BY <1>1, <2>1, <2>2
<1>12. CASE Done \/ UNCHANGED vars
  BY <1>12 DEF Done, vars, TerminalInv, BareToken
<1> QED
  BY <1>2, <1>3, <1>4, <1>5, <1>6, <1>7, <1>8, <1>9, <1>10, <1>11, <1>12 DEF Next

(* A message that passes has at most as many fields as allowed, and one    *)
(* more only without a raw segment after its last part.                    *)
FieldsWithin ==
  \A maximum \in MaxFields :
    fieldCount <= maximum + (IF BareToken \/ IsInside(delivered) THEN 1 ELSE 0)

PassedInv ==
  pc \in {"interrupting", "completing", "returned"} /\ exception = "none" => FieldsWithin

CountInv == TallyInv /\ AdmittedInv /\ TerminalInv /\ PassedInv

LEMMA NothingIsWithin ==
  ASSUME TallyInv, delivered = <<>>
  PROVE  FieldsWithin
<1>1. Len(<<>>) = 0 /\ 1..0 = {}
  OBVIOUS
<1>2. Charged(<<>>) = {}
  BY <1>1 DEF Charged
<1>3. fieldCount = 0
  BY <1>2, FS_EmptySet DEF TallyInv
<1> QED
  BY <1>3, UploadAssumption DEF FieldsWithin

LEMMA PassedKeeps ==
  ASSUME BaseInv, CountInv, [Next]_vars
  PROVE  PassedInv'
<1>1. /\ fieldCount \in Nat /\ MaxFields \subseteq Nat
      /\ TallyInv /\ AdmittedInv /\ TerminalInv /\ PassedInv
  BY UploadAssumption DEF BaseInv, ShapeInv, AccountType, CountInv
<1>2. ASSUME UNCHANGED <<fieldCount, delivered, before, final>>, FieldsWithin
      PROVE  PassedInv'
  BY <1>2 DEF PassedInv, FieldsWithin, BareToken
<1>3. Failed => PassedInv'
  BY DEF Failed, PassedInv
<1>4. ASSUME pc' \in {"events", "starting", "receiving", "finishing", "raw", "ended"}
      PROVE  PassedInv'
  BY <1>4 DEF PassedInv
<1>5. CASE NewFile \/ ReceiveChunk \/ FileComplete
  BY <1>3, <1>4, <1>5, NewFileEffect, ReceiveChunkEffect, FileCompleteEffect DEF BaseInv
<1>6. CASE PartBegin \/ PartData \/ PartEnd \/ NobodyReturnsFile
  BY <1>3, <1>4, <1>6, PartBeginEffect, PartDataEffect, PartEndEffect, NobodyEffect DEF BaseInv
<1>7. CASE BeforeParsing /\ pc' = "returned"
  <2>1. pc = "raw" /\ UNCHANGED <<fieldCount, delivered, before, final>>
    BY <1>7 DEF BeforeParsing, accountVars, requestVars
  <2>2. FieldsWithin
    BY <1>1, <2>1, NothingIsWithin DEF TerminalInv
  <2> QED
    BY <1>2, <2>1, <2>2
<1>8. CASE (BeforeParsing /\ pc' # "returned") \/ LoopEnds \/ RawPart \/ FeedEof \/ Finish
             \/ SourceFails
  <2>1. pc' # "returned" \/ pc # "raw"
    BY <1>8 DEF LoopEnds, RawPart, Take, FeedEof, EofReturns, Finish, SourceFails
  <2> QED
    BY <1>3, <1>4, <1>8, <2>1, BetweenEffect
<1>9. CASE Succeed
  <2>1. /\ pc = "ended" /\ UNCHANGED <<fieldCount, delivered, before, final>>
        /\ \/ ~(terminalRaw /\ TooManyFields(fieldCount, 0))
           \/ pc' = "escaped"
    BY <1>9 DEF Succeed, Throw, Goto, accountVars, requestVars
  <2>2. CASE pc' = "escaped"
    BY <2>2 DEF PassedInv
  <2>3. CASE ~TooManyFields(fieldCount, 0)
    <3>1. \A maximum \in MaxFields : fieldCount <= maximum
      BY <1>1, <2>3 DEF TooManyFields
    <3>2. FieldsWithin
      BY <1>1, <3>1 DEF FieldsWithin
    <3> QED
      BY <1>2, <2>1, <3>2
  <2>4. CASE ~terminalRaw
    <3>1. \A maximum \in MaxFields : fieldCount <= maximum + 1
      BY <1>1, <2>1 DEF AdmittedInv, Trying
    <3>2. BareToken \/ delivered = <<>> \/ IsInside(delivered)
      BY <1>1, <2>1, <2>4 DEF TerminalInv
    <3>3. FieldsWithin
      BY <1>1, <3>1, <3>2, NothingIsWithin DEF FieldsWithin
    <3> QED
      BY <1>2, <2>1, <3>3
  <2> QED
    BY <2>1, <2>2, <2>3, <2>4
<1>10. CASE InterruptUpload \/ UploadComplete
  <2>1. /\ pc \in {"interrupting", "completing"}
        /\ UNCHANGED <<fieldCount, delivered, before, final>>
        /\ exception' = "none" => exception = "none"
    BY <1>10 DEF InterruptUpload, UploadComplete, NextHandler, Resume, Throw, Goto,
                 accountVars, requestVars
  <2> QED
    BY <1>1, <1>2, <2>1 DEF PassedInv
<1>11. CASE AbortUpload
  BY <1>11 DEF AbortUpload, NextHandler, Resume, Goto, PassedInv
<1>12. CASE Done \/ UNCHANGED vars
  <2>1. UNCHANGED <<pc, exception, fieldCount, delivered, before, final>>
    BY <1>12 DEF Done, vars
  <2> QED
    BY <1>1, <1>2, <2>1 DEF PassedInv
<1> QED
  BY <1>5, <1>6, <1>7, <1>8, <1>9, <1>10, <1>11, <1>12 DEF Next

LEMMA CountInvariant == Spec => []CountInv
<1>1. Init => CountInv
  <2> SUFFICES ASSUME Init PROVE CountInv
    OBVIOUS
  <2>1. /\ fieldCount = 0 /\ fileCount = 0 /\ delivered = <<>> /\ pc = "raw"
        /\ exception = "none" /\ exact = FALSE /\ before = "Other"
    BY DEF Init
  <2>2. Len(<<>>) = 0 /\ 1..0 = {}
    OBVIOUS
  <2>3. Charged(<<>>) = {} /\ FilesIn(<<>>) = {}
    BY <2>2 DEF Charged, FilesIn
  <2>4. TallyInv
    BY <2>1, <2>3, FS_EmptySet DEF TallyInv
  <2>5. AdmittedInv
    BY <2>1, UploadAssumption DEF AdmittedInv
  <2> QED
    BY <2>1, <2>4, <2>5 DEF CountInv, TerminalInv, PassedInv, BareToken
<1>2. BaseInv /\ CountInv /\ [Next]_vars => CountInv'
  <2> SUFFICES ASSUME BaseInv, CountInv, [Next]_vars PROVE CountInv'
    OBVIOUS
  <2>1. TallyInv' /\ AdmittedInv' /\ TerminalInv'
    BY TallyKeeps, AdmittedKeeps, TerminalKeeps DEF CountInv
  <2> QED
    BY <2>1, PassedKeeps DEF CountInv
<1> QED
  BY <1>1, <1>2, BaseInvariant, PTL DEF Spec

-----------------------------------------------------------------------------
(* Why a request is refused for the number of its fields: more than one    *)
(* over the maximum while the events are handled, or one over it when they *)
(* all are, the last one being the end of a part or a raw segment and the  *)
(* input not ending with that token (parser.py:123-125, 188-196, 309-325). *)
OverInv ==
  /\ terminalRaw => delivered # <<>> /\ ~IsInside(delivered)
  /\ pc = "finishing" => delivered # <<>>
  /\ pc = "ended" => eof /\ left = <<>> /\ ~(terminalRaw /\ exact)
  /\ exception = "TooManyFields" =>
       \/ TooManyFields(fieldCount, 1)
       \/ /\ pc = "escaped" /\ TooManyFields(fieldCount, 0)
          /\ eof /\ left = <<>> /\ ~exact
          /\ delivered # <<>> /\ ~IsInside(delivered)

(* An event of a part, and one between parts.                              *)
LEMMA TakenIsLast ==
  ASSUME StreamInv, NEW e \in Event, Take(e)
  PROVE  /\ delivered' # <<>>
         /\ IsInside(delivered') <=> e.kind \in {"Begin", "Data"}
         /\ e.kind = "Data" => IsInside(delivered)
<1>1. delivered' = Append(delivered, e) /\ delivered \in Seq(Event)
  BY DEF Take, StreamInv
<1>2. delivered' # <<>>
  <2>1. Len(delivered') = Len(delivered) + 1 /\ Len(delivered) \in Nat
    BY <1>1, AppendProperties, LenProperties
  <2>2. Len(<<>>) = 0
    OBVIOUS
  <2> QED
    BY <2>1, <2>2
<1> QED
  BY <1>2, TakeKeeps

LEMMA OverKeeps ==
  ASSUME BaseInv, OverInv, [Next]_vars
  PROVE  OverInv'
<1>0. StreamInv /\ (pc \in Trying => exception = "none")
  BY DEF BaseInv, Inv, ControlInv
<1>1. ASSUME terminalRaw' => delivered' # <<>> /\ ~IsInside(delivered'),
             pc' = "finishing" => delivered' # <<>>,
             pc' # "ended", exception' # "TooManyFields"
      PROVE  OverInv'
  BY <1>1 DEF OverInv
<1>2. ASSUME terminalRaw' => delivered' # <<>> /\ ~IsInside(delivered'),
             pc' = "finishing" => delivered' # <<>>,
             pc' # "ended", exception' = "TooManyFields", TooManyFields(fieldCount', 1)
      PROVE  OverInv'
  BY <1>2 DEF OverInv, TooManyFields
<1>3. CASE PartBegin
  <2>1. PICK p \in Parts : Take([kind |-> "Begin", part |-> p]) /\ HandleBegin(p)
    BY <1>3 DEF PartBegin
  <2>2. terminalRaw' = FALSE
    BY <2>1 DEF HandleBegin
  <2>3. pc' \notin {"ended", "finishing"} /\ pc = "events"
    BY <1>3, PartBeginCounts
  <2>4. exception' # "TooManyFields" \/ TooManyFields(fieldCount', 1)
    BY <1>0, <2>3, <1>3, PartBeginCounts DEF FieldAdmitted, FileAdmitted, Uncounted, Trying
  <2> QED
    BY <1>1, <1>2, <2>2, <2>3, <2>4
<1>4. CASE RawPart
  <2>1. Take([kind |-> "Raw"]) /\ [kind |-> "Raw"] \in Event
    BY <1>4 DEF RawPart, Event
  <2>2. delivered' # <<>> /\ ~IsInside(delivered')
    BY <1>0, <2>1, TakenIsLast
  <2>3. pc' # "ended" /\ pc = "events"
    BY <1>4, RawPartCounts
  <2>4. exception' # "TooManyFields" \/ TooManyFields(fieldCount', 1)
    BY <1>0, <1>4, <2>3, RawPartCounts DEF FieldAdmitted, Trying
  <2> QED
    BY <1>1, <1>2, <2>2, <2>3, <2>4
<1>5. CASE PartData
  <2>1. PICK size \in DataSizes : Take([kind |-> "Data", size |-> size]) /\ HandleData(size)
    BY <1>5 DEF PartData
  <2>2. [kind |-> "Data", size |-> size] \in Event
    BY DEF Event
  <2>3. IsInside(delivered)
    BY <1>0, <2>1, <2>2, TakenIsLast
  <2>4. ~terminalRaw /\ terminalRaw' = terminalRaw
    BY <2>1, <2>3 DEF OverInv, HandleData
  <2>5. pc' \notin {"ended", "finishing"} /\ exception' # "TooManyFields"
    <3>1. pc = "events" /\ exception = "none"
      BY <1>0, <2>1 DEF Take, Trying
    <3> QED
      BY <2>1, <3>1 DEF HandleData, ReceiveFieldData, ReceiveFileData, Resume, Abort, Goto
  <2> QED
    BY <1>1, <2>4, <2>5
<1>6. CASE PartEnd
  <2>1. Take([kind |-> "End"]) /\ HandleEnd /\ [kind |-> "End"] \in Event
    BY <1>6 DEF PartEnd, Event
  <2>2. delivered' # <<>> /\ ~IsInside(delivered')
    BY <1>0, <2>1, TakenIsLast
  <2>3. pc' # "ended" /\ exception' # "TooManyFields"
    <3>1. pc = "events" /\ exception = "none"
      BY <1>0, <2>1 DEF Take, Trying
    <3> QED
      BY <2>1, <3>1 DEF HandleEnd, FinishField, FinishFile, Resume, Abort, Goto
  <2> QED
    BY <1>1, <2>2, <2>3
<1>7. CASE NewFile \/ ReceiveChunk
  <2>1. exception' # "TooManyFields"
    BY <1>0, <1>7, OtherCounts DEF Uncounted, NewFile, ReceiveChunk, Trying
  <2>2. UNCHANGED <<delivered, terminalRaw>>
    BY <1>7 DEF NewFile, ReceiveChunk
  <2>3. pc' \notin {"ended", "finishing"}
    BY <1>7, NewFileEffect, ReceiveChunkEffect DEF Failed, BaseInv
  <2> QED
    BY <1>1, <2>1, <2>2, <2>3 DEF OverInv
<1>8. CASE FileComplete \/ NobodyReturnsFile
  <2>1. /\ pc = "finishing" /\ exception = "none" /\ UNCHANGED delivered
        /\ exception' # "TooManyFields" /\ pc' # "ended"
    <3>1. pc = "finishing" /\ exception = "none"
      BY <1>0, <1>8 DEF FileComplete, NobodyReturnsFile, Trying
    <3>2. UNCHANGED delivered /\ exception' # "TooManyFields"
      BY <1>8, <3>1, OtherCounts DEF Uncounted
    <3> QED
      BY <1>8, <3>1, <3>2 DEF FileComplete, NobodyReturnsFile, FileDone, NextHandler, Stop,
                              Throw, Abort, Resume, Goto
  <2>2. ~IsInside(delivered)
    BY <2>1 DEF BaseInv, Inv, PartInv
  <2>3. delivered # <<>>
    BY <2>1 DEF OverInv
  <2> QED
    BY <1>1, <2>1, <2>2, <2>3
<1>9. CASE FeedEof
  <2>1. /\ pc = "events" /\ exception = "none"
        /\ UNCHANGED <<pc, exception, delivered, terminalRaw>>
    BY <1>0, <1>9 DEF FeedEof, EofReturns, partVars, Trying
  <2> QED
    BY <1>1, <2>1 DEF OverInv
<1>10. CASE Finish
  <2>1. /\ pc = "events" /\ exception = "none" /\ eof /\ left = <<>>
        /\ UNCHANGED <<exact, eof, left, delivered>>
        /\ terminalRaw' = (terminalRaw /\ ~exact)
        /\ exception' # "TooManyFields"
    BY <1>0, <1>10 DEF Finish, FinishField, Resume, Abort, Goto, requestVars, Trying
  <2>2. pc' # "finishing"
    BY <1>10 DEF Finish, FinishField, Resume, Abort, Goto
  <2> QED
    BY <2>1, <2>2 DEF OverInv
<1>11. CASE Succeed
  <2>1. /\ pc = "ended" /\ exception = "none" /\ pc' \notin {"ended", "finishing"}
        /\ UNCHANGED <<exact, eof, left, delivered, terminalRaw, fieldCount>>
        /\ \/ terminalRaw /\ TooManyFields(fieldCount, 0) /\ pc' = "escaped"
           \/ exception' = "none"
    BY <1>0, <1>11 DEF Succeed, Throw, Resume, Goto, requestVars, partVars, accountVars, Trying
  <2> QED
    BY <2>1 DEF OverInv, TooManyFields
<1>12. CASE BeforeParsing \/ LoopEnds \/ SourceFails
  <2>1. /\ pc \in Trying /\ UNCHANGED <<delivered, terminalRaw>>
        /\ pc' \notin {"ended", "finishing"} /\ exception' # "TooManyFields"
    <3>1. pc \in Trying /\ exception = "none"
      BY <1>0, <1>12 DEF BeforeParsing, LoopEnds, SourceFails, Trying
    <3> QED
      BY <1>12, <3>1 DEF BeforeParsing, LoopEnds, SourceFails, NextHandler, Resume, Abort,
                         Throw, Goto, partVars, requestVars
  <2> QED
    BY <1>1, <2>1 DEF OverInv
<1>13. CASE InterruptUpload \/ UploadComplete \/ AbortUpload
  <2>1. /\ pc' \notin {"ended", "finishing"}
        /\ pc' = "escaped" => exception' = "HandlerError"
        /\ UNCHANGED <<delivered, terminalRaw, fieldCount>>
        /\ exception' \in {exception, "HandlerError"}
    BY <1>13 DEF InterruptUpload, UploadComplete, AbortUpload, NextHandler, Resume, Throw, Goto,
                 partVars, accountVars, requestVars
  <2>2. pc # "escaped"
    BY <1>13 DEF InterruptUpload, UploadComplete, AbortUpload
  <2> QED
    BY <2>1, <2>2 DEF OverInv, TooManyFields
<1>14. CASE Done \/ UNCHANGED vars
  BY <1>14 DEF Done, vars, OverInv, TooManyFields
<1> QED
  BY <1>3, <1>4, <1>5, <1>6, <1>7, <1>8, <1>9, <1>10, <1>11, <1>12, <1>13, <1>14 DEF Next

LEMMA OverInvariant == Spec => []OverInv
<1>1. Init => OverInv
  BY DEF Init, OverInv
<1>2. BaseInv /\ OverInv /\ [Next]_vars => OverInv'
  BY OverKeeps
<1> QED
  BY <1>1, <1>2, BaseInvariant, PTL DEF Spec

(* For any limits, the limits on the number of fields and files are those  *)
(* of the parts of the message, however its events are batched: a message  *)
(* that has arrived passes with one field more than the maximum if, and    *)
(* only if, it has no raw segment after its last part, and none passes     *)
(* with two more (parser.py:123-125, 188-205, 224-225).                    *)
THEOREM CountLimitsCorrect == Spec => []CountLimitsAreExact
<1>1. BaseInv /\ CountInv /\ OverInv => CountLimitsAreExact
  <2> SUFFICES ASSUME BaseInv, CountInv, OverInv PROVE CountLimitsAreExact
    OBVIOUS
  <2>1. delivered \in Seq(Event) /\ fieldCount \in Nat /\ MaxFields \subseteq Nat
    BY UploadAssumption DEF BaseInv, Inv, StreamInv, ShapeInv, AccountType
  <2>2. fieldCount = FieldsCharged /\ fileCount = Cardinality(CountedFiles)
    BY <2>1, CountsAgree DEF CountInv, TallyInv
  <2>3. CutShort <=> BareToken \/ IsInside(delivered)
    BY <2>1, StreamAgrees DEF CutShort
  <2>4. Allowance \in Nat /\ (CutShort => Allowance = 1) /\ Allowance <= 1
    BY DEF Allowance
  <2>5. ASSUME pc = "returned", exception = "none", NEW maximum \in MaxFields
        PROVE  FieldsCharged <= maximum + Allowance
    <3>1. fieldCount <= maximum + (IF CutShort THEN 1 ELSE 0)
      BY <2>3, <2>5 DEF CountInv, PassedInv, FieldsWithin
    <3> QED
      BY <2>1, <2>2, <2>4, <2>5, <3>1
  <2>6. ASSUME exception = "TooManyFields"
        PROVE  \E maximum \in MaxFields : FieldsCharged > maximum + Allowance
    <3>1. CASE TooManyFields(fieldCount, 1)
      <4>1. PICK maximum \in MaxFields : fieldCount > maximum + 1
        BY <2>1, <3>1 DEF TooManyFields
      <4> QED
        BY <2>1, <2>2, <2>4, <4>1
    <3>2. CASE TooManyFields(fieldCount, 0) /\ HasArrived /\ ~exact /\ ~IsInside(delivered)
      <4>1. ~CutShort
        BY <2>3, <3>2 DEF CountInv, TerminalInv
      <4>2. Allowance = 0
        BY <3>2, <4>1 DEF Allowance
      <4>3. PICK maximum \in MaxFields : fieldCount > maximum
        BY <2>1, <3>2 DEF TooManyFields
      <4> QED
        BY <2>1, <2>2, <4>2, <4>3
    <3> QED
      BY <2>6, <3>1, <3>2 DEF OverInv, HasArrived
  <2> QED
    BY <2>2, <2>5, <2>6 DEF CountInv, AdmittedInv, CountLimitsAreExact
<1> QED
  BY <1>1, BaseInvariant, CountInvariant, OverInvariant, PTL
=============================================================================
