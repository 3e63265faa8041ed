--------------------------- MODULE CompositionProofs ---------------------------
(***************************************************************************)
(* The adapter on the real parser does what the adapter does on an         *)
(* abstract source of events: Upload implements UploadAdapter.             *)
(*                                                                         *)
(* The adapter handles the events of a batch one by one, after the parser  *)
(* has returned them all.  The invariant ties the two lists: what has been *)
(* handled is, as the adapter sees it, the beginning of what the parser    *)
(* has returned, and after the end of the input what is left is the rest.  *)
(*                                                                         *)
(* With that, and with what ReadingProofs says of the parser's events, the *)
(* theorems about the adapter become theorems about the message: when its  *)
(* headers refuse it, what it leaves in POST, and when it has too many     *)
(* fields.                                                                 *)
(***************************************************************************)
EXTENDS MessageProperties, ReadingProofs

(* The bounds that the runs put on the adapter's source are lifted: any    *)
(* header block and any length of data may come, and any number of events. *)
Unbounded ==
  /\ \A fields \in Headers : PartOf(fields) \in Parts
  /\ Nat \subseteq DataSizes
  /\ MaxEvents = {}

SeenAll(s) == [i \in DOMAIN s |-> Seen(s[i])]

AdapterKinds(s) == [i \in DOMAIN s |-> s[i].kind]

HandledInv ==
  /\ delivered \in Seq(Adapter!Event)
  /\ Len(delivered) <= Len(received)
  /\ \A i \in 1..Len(delivered) : delivered[i] = Seen(received[i])
  /\ phase # "idle" => Len(delivered) = Len(received)

LeftInv ==
  /\ ended \in BOOLEAN
  /\ left \in Seq(Adapter!Event)
  /\ ~ended => left = <<>>
  /\ ended => /\ Len(received) = Len(delivered) + Len(left)
              /\ \A i \in 1..Len(left) : left[i] = Seen(received[Len(delivered) + i])

(* The parser hears of the end once, when everything has been read.        *)
InputInv ==
  /\ unread \in Seq(Byte)
  /\ eof => unread = <<>> /\ phase # "feeding"
  /\ ended => eof
  /\ ended /\ phase = "raised" => pc \in {"aborting", "raised"}

(* A Begin is withheld between calls only if what follows the header block *)
(* is too short to be a token.                                             *)
WaitInv == phase = "idle" /\ pending => Len(buffer) < Len(Token)

LinkInv == HandledInv /\ LeftInv /\ InputInv /\ WaitInv

-----------------------------------------------------------------------------
(* Events as the adapter sees them.                                        *)

(* An event keeps its kind, and is one that an unbounded source may give.  *)
LEMMA SeenType ==
  ASSUME Unbounded, NEW e \in Event
  PROVE  /\ Seen(e) \in Adapter!Event
         /\ Seen(e).kind = e.kind
         /\ e.kind \in {"Begin", "Data", "End", "Raw"}
         /\ e.kind = "Begin" =>
              /\ PartOf(e.headers) \in Parts
              /\ Seen(e) = [kind |-> "Begin", part |-> PartOf(e.headers)]
         /\ e.kind = "Data" =>
              Len(e.data) \in DataSizes /\ Seen(e) = [kind |-> "Data", size |-> Len(e.data)]
         /\ e.kind = "End" => Seen(e) = [kind |-> "End"]
         /\ e.kind = "Raw" => Seen(e) = [kind |-> "Raw"]
<1>1. CASE e \in [kind : {"Begin"}, headers : Headers]
  BY <1>1 DEF Unbounded, Seen, Adapter!Event
<1>2. CASE e \in [kind : {"Data"}, data : Seq(Byte)]
  <2>1. Len(e.data) \in DataSizes
    BY <1>2, LenProperties DEF Unbounded
  <2> QED
    BY <1>2, <2>1 DEF Seen, Adapter!Event
<1>3. CASE e \in [kind : {"End", "Raw"}]
  BY <1>3 DEF Seen, Adapter!Event
<1> QED
  BY <1>1, <1>2, <1>3 DEF Event

(* A batch is seen event by event.                                         *)
LEMMA SeenAllType ==
  ASSUME Unbounded, NEW s \in Seq(Event)
  PROVE  /\ SeenAll(s) \in Seq(Adapter!Event)
         /\ Len(SeenAll(s)) = Len(s)
         /\ \A i \in 1..Len(s) : SeenAll(s)[i] = Seen(s[i])
<1>1. Len(s) \in Nat /\ DOMAIN s = 1..Len(s) /\ \A i \in 1..Len(s) : s[i] \in Event
  BY LenProperties
<1>2. \A i \in 1..Len(s) : Seen(s[i]) \in Adapter!Event
  BY <1>1, SeenType
<1>3. SeenAll(s) = [i \in 1..Len(s) |-> Seen(s[i])]
  BY <1>1 DEF SeenAll
<1>4. SeenAll(s) \in Seq(Adapter!Event) /\ DOMAIN SeenAll(s) = 1..Len(s)
  BY <1>1, <1>2, <1>3
<1>5. Len(SeenAll(s)) = Len(s)
  BY <1>1, <1>4, LenProperties
<1> QED
  BY <1>3, <1>4, <1>5

(* Two batches, one event, none.                                           *)
LEMMA SeenAllParts ==
  ASSUME Unbounded
  PROVE  /\ SeenAll(<<>>) = <<>>
         /\ \A e \in Event : SeenAll(<<e>>) = <<Seen(e)>>
         /\ \A s, t \in Seq(Event) : SeenAll(s \o t) = SeenAll(s) \o SeenAll(t)
<1>1. SeenAll(<<>>) = <<>>
  <2>1. <<>> \in Seq(Event) /\ Len(<<>>) = 0
    OBVIOUS
  <2>2. SeenAll(<<>>) \in Seq(Adapter!Event) /\ Len(SeenAll(<<>>)) = 0
    BY <2>1, SeenAllType
  <2> QED
    BY <2>2, EmptySeq
<1>2. ASSUME NEW e \in Event PROVE SeenAll(<<e>>) = <<Seen(e)>>
  <2>1. <<e>> \in Seq(Event) /\ Len(<<e>>) = 1 /\ <<e>>[1] = e
    OBVIOUS
  <2>2. /\ SeenAll(<<e>>) \in Seq(Adapter!Event) /\ Len(SeenAll(<<e>>)) = 1
        /\ SeenAll(<<e>>)[1] = Seen(e)
    <3>1. 1 \in 1..Len(<<e>>)
      BY <2>1
    <3>2. SeenAll(<<e>>)[1] = Seen(<<e>>[1])
      BY <2>1, <3>1, SeenAllType
    <3> QED
      BY <2>1, <3>2, SeenAllType
  <2>3. /\ <<Seen(e)>> \in Seq(Adapter!Event) /\ Len(<<Seen(e)>>) = 1
        /\ <<Seen(e)>>[1] = Seen(e)
    BY SeenType
  <2> QED
    BY <2>2, <2>3, SeqEqual
<1>3. ASSUME NEW s \in Seq(Event), NEW t \in Seq(Event)
      PROVE  SeenAll(s \o t) = SeenAll(s) \o SeenAll(t)
  <2>1. /\ s \o t \in Seq(Event) /\ Len(s \o t) = Len(s) + Len(t)
        /\ \A i \in 1..(Len(s) + Len(t)) :
             (s \o t)[i] = IF i <= Len(s) THEN s[i] ELSE t[i - Len(s)]
    BY ConcatProperties
  <2>2. /\ SeenAll(s) \in Seq(Adapter!Event) /\ Len(SeenAll(s)) = Len(s)
        /\ \A i \in 1..Len(s) : SeenAll(s)[i] = Seen(s[i])
        /\ SeenAll(t) \in Seq(Adapter!Event) /\ Len(SeenAll(t)) = Len(t)
        /\ \A i \in 1..Len(t) : SeenAll(t)[i] = Seen(t[i])
        /\ SeenAll(s \o t) \in Seq(Adapter!Event) /\ Len(SeenAll(s \o t)) = Len(s) + Len(t)
        /\ \A i \in 1..(Len(s) + Len(t)) : SeenAll(s \o t)[i] = Seen((s \o t)[i])
    BY <2>1, SeenAllType
  <2>3. /\ SeenAll(s) \o SeenAll(t) \in Seq(Adapter!Event)
        /\ Len(SeenAll(s) \o SeenAll(t)) = Len(s) + Len(t)
        /\ \A i \in 1..(Len(s) + Len(t)) :
             (SeenAll(s) \o SeenAll(t))[i]
               = IF i <= Len(s) THEN SeenAll(s)[i] ELSE SeenAll(t)[i - Len(s)]
    <3> DEFINE a == SeenAll(s)
               b == SeenAll(t)
    <3>1. /\ a \in Seq(Adapter!Event) /\ Len(a) = Len(s)
          /\ b \in Seq(Adapter!Event) /\ Len(b) = Len(t)
      BY <2>2
    <3> HIDE DEF a, b
    <3>2. /\ a \o b \in Seq(Adapter!Event) /\ Len(a \o b) = Len(a) + Len(b)
          /\ \A i \in 1..(Len(a) + Len(b)) :
               (a \o b)[i] = IF i <= Len(a) THEN a[i] ELSE b[i - Len(a)]
      BY <3>1, ConcatProperties
    <3>3. /\ a \o b \in Seq(Adapter!Event) /\ Len(a \o b) = Len(s) + Len(t)
          /\ \A i \in 1..(Len(s) + Len(t)) :
               (a \o b)[i] = IF i <= Len(s) THEN a[i] ELSE b[i - Len(s)]
      BY <3>1, <3>2, Zenon
    <3> QED
      BY <3>3 DEF a, b
  <2>4. Len(s) \in Nat /\ Len(t) \in Nat
    BY LenProperties
  <2>5. \A i \in 1..(Len(s) + Len(t)) : ~(i <= Len(s)) => i - Len(s) \in 1..Len(t)
    BY <2>4
  <2>6. ASSUME NEW i \in 1..(Len(s) + Len(t))
        PROVE  SeenAll(s \o t)[i] = (SeenAll(s) \o SeenAll(t))[i]
    <3>1. CASE i <= Len(s)
      BY <2>1, <2>2, <2>3, <2>4, <3>1
    <3>2. CASE ~(i <= Len(s))
      BY <2>1, <2>2, <2>3, <2>5, <3>2
    <3> QED
      BY <3>1, <3>2
  <2> QED
    BY <2>2, <2>3, <2>6, SeqEqual
<1> QED
  BY <1>1, <1>2, <1>3

(* What the adapter has handled is well formed if what the parser has      *)
(* returned is, and both end inside a part or neither does.                *)
LEMMA HandledKinds ==
  ASSUME Unbounded, NEW s \in Seq(Adapter!Event), NEW r \in Seq(Event), Good(r),
         Len(s) <= Len(r), \A i \in 1..Len(s) : s[i] = Seen(r[i])
  PROVE  /\ Adapter!Source!WellFormed(AdapterKinds(s))
         /\ Len(s) = Len(r)
              => (Adapter!Source!InPart(AdapterKinds(s)) <=> EndsInside(r))
<1>1. /\ Len(s) \in Nat /\ DOMAIN s = 1..Len(s) /\ Len(r) \in Nat
      /\ \A i \in 1..Len(r) : r[i] \in Event
  BY LenProperties
<1>2. \A i \in 1..Len(s) : i \in 1..Len(r) /\ (i > 1 => i - 1 \in 1..Len(s))
  BY <1>1
<1>3. \A i \in 1..Len(s) : s[i].kind = r[i].kind /\ s[i].kind \in Adapter!Source!Kinds
  BY <1>1, <1>2, SeenType DEF Adapter!Source!Kinds
<1>4. AdapterKinds(s) = [i \in 1..Len(s) |-> s[i].kind]
  BY <1>1 DEF AdapterKinds
<1>5. AdapterKinds(s) \in Seq(Adapter!Source!Kinds) /\ Len(AdapterKinds(s)) = Len(s)
  BY <1>1, <1>3, <1>4
<1>6. \A i \in 1..Len(s) : AdapterKinds(s)[i] = r[i].kind
  BY <1>3, <1>4
<1>7. Adapter!Source!WellFormed(AdapterKinds(s))
  <2>1. ASSUME NEW i \in 1..Len(s) PROVE Adapter!Source!Allowed(AdapterKinds(s), i)
    <3>1. (r[i].kind \in {"Data", "End"}) <=> (i > 1 /\ Inside(r[i - 1]))
      BY <1>2 DEF Good
    <3> QED
      BY <1>2, <1>6, <3>1 DEF Adapter!Source!Allowed, Adapter!Source!Opens, Inside
  <2> QED
    BY <1>5, <2>1 DEF Adapter!Source!WellFormed
<1>8. ASSUME Len(s) = Len(r)
      PROVE  Adapter!Source!InPart(AdapterKinds(s)) <=> EndsInside(r)
  <2>1. r # <<>> <=> Len(s) > 0
    BY <1>1, <1>8, EmptySeq
  <2>2. AdapterKinds(s) # <<>> <=> Len(s) > 0
    BY <1>1, <1>5, EmptySeq
  <2>3. Len(s) > 0 => Len(s) \in 1..Len(s)
    BY <1>1
  <2> QED
    BY <1>5, <1>6, <1>8, <2>1, <2>2, <2>3
       DEF Adapter!Source!InPart, Adapter!Source!Opens, EndsInside, Inside
<1> QED
  BY <1>7, <1>8

(* What the parser has returned is well formed.                            *)
LEMMA ReturnedIsGood ==
  ASSUME ProtocolInv
  PROVE  /\ received \in Seq(Event) /\ Good(received)
         /\ phase = "idle" => (EndsInside(received) <=> InBody)
<1>1. received \in Seq(Event) /\ events \in Seq(Event)
  BY DEF ProtocolInv, TypeOK
<1>2. Good(received)
  BY <1>1, GoodPrefix DEF ProtocolInv, History
<1>3. ASSUME phase = "idle" PROVE History = received
  BY <1>1, <1>3, ConcatEmptySeq DEF ProtocolInv, BatchIsHandedOver, History
<1> QED
  BY <1>1, <1>2, <1>3 DEF ProtocolInv

-----------------------------------------------------------------------------
(* The next event.                                                         *)

(* Taking one more event leaves what has been handled a beginning of what  *)
(* the parser has returned.                                                *)
LEMMA TakenEvent ==
  ASSUME Unbounded, ProtocolInv, HandledInv, TakeEvent
  PROVE  /\ received[Len(delivered) + 1] \in Event
         /\ delivered' = Append(delivered, Seen(received[Len(delivered) + 1]))
         /\ delivered' \in Seq(Adapter!Event)
         /\ Len(delivered') = Len(delivered) + 1 /\ Len(delivered') <= Len(received)
         /\ \A i \in 1..Len(delivered') : delivered'[i] = Seen(received[i])
<1> DEFINE e == received[Len(delivered) + 1]
<1>1. /\ Len(delivered) \in Nat /\ Len(received) \in Nat /\ Len(delivered) < Len(received)
      /\ \A i \in 1..Len(received) : received[i] \in Event
      /\ delivered \in Seq(Adapter!Event)
  BY ReturnedIsGood, LenProperties DEF HandledInv, TakeEvent
<1>2. e \in Event
  BY <1>1
<1>3. delivered' = Append(delivered, Seen(e))
  BY DEF TakeEvent
<1> HIDE DEF e
<1>4. /\ delivered' \in Seq(Adapter!Event) /\ Len(delivered') = Len(delivered) + 1
      /\ \A i \in 1..Len(delivered) : delivered'[i] = delivered[i]
      /\ delivered'[Len(delivered) + 1] = Seen(e)
  BY <1>1, <1>2, <1>3, SeenType, AppendProperties
<1>5. ASSUME NEW i \in 1..Len(delivered') PROVE delivered'[i] = Seen(received[i])
  <2>1. CASE i \in 1..Len(delivered)
    BY <1>4, <2>1 DEF HandledInv
  <2>2. CASE i = Len(delivered) + 1
    BY <1>4, <2>2 DEF e
  <2> QED
    BY <1>1, <1>4, <2>1, <2>2
<1> QED
  BY <1>1, <1>2, <1>3, <1>4, <1>5 DEF e

(* An event that the parser has returned is one that the abstract source   *)
(* may give next, or the next of those that feed_eof returned.             *)
LEMMA TakenFromSource ==
  ASSUME Unbounded, ProtocolInv, HandledInv, LeftInv, TakeEvent
  PROVE  Adapter!Take(Seen(received[Len(delivered) + 1]))
<1> DEFINE event == Seen(received[Len(delivered) + 1])
<1>1. /\ delivered' = Append(delivered, event) /\ pc = "events"
      /\ left' = IF ended THEN Tail(left) ELSE left
      /\ UNCHANGED <<ended, before, final, exact, drained>>
      /\ Len(delivered) < Len(received) /\ Len(delivered) \in Nat /\ Len(received) \in Nat
  BY ReturnedIsGood, LenProperties DEF TakeEvent, HandledInv
<1>2. Adapter!Source!WellFormed([i \in DOMAIN delivered' |-> delivered'[i].kind])
  <2>1. Adapter!Source!WellFormed(AdapterKinds(delivered'))
    BY TakenEvent, ReturnedIsGood, HandledKinds
  <2> QED
    BY <2>1 DEF AdapterKinds
<1>3. ASSUME ended PROVE left # <<>> /\ event = Head(left)
  <2>1. /\ Len(left) \in Nat /\ Len(received) = Len(delivered) + Len(left)
        /\ \A i \in 1..Len(left) : left[i] = Seen(received[Len(delivered) + i])
        /\ left \in Seq(Adapter!Event)
    BY <1>3, LenProperties DEF LeftInv
  <2>2. 1 \in 1..Len(left) /\ left # <<>>
    BY <1>1, <2>1, EmptySeq
  <2> QED
    BY <2>1, <2>2, HeadTailProperties
<1>4. \A maximum \in MaxEvents : Len(delivered) < maximum
  BY DEF Unbounded
<1>5. ended \in BOOLEAN
  BY DEF LeftInv
<1> HIDE DEF event
<1>6. Adapter!Take(event)
  BY <1>1, <1>2, <1>3, <1>4, <1>5 DEF Adapter!Take
<1> QED
  BY <1>6 DEF event

(* The loops over the events do what the four event actions do.            *)
LEMMA TakeEventStep ==
  ASSUME Unbounded, ProtocolInv, HandledInv, LeftInv, TakeEvent
  PROVE  Adapter!Next
<1> DEFINE e == received[Len(delivered) + 1]
<1>1. e \in Event
  BY TakenEvent
<1>2. Adapter!Take(Seen(e)) /\ Handle(Seen(e))
  BY TakenFromSource DEF TakeEvent
<1> HIDE DEF e
<1>3. CASE e.kind = "Begin"
  <2>1. /\ PartOf(e.headers) \in Parts
        /\ Seen(e) = [kind |-> "Begin", part |-> PartOf(e.headers)]
    BY <1>1, <1>3, SeenType
  <2>2. Adapter!HandleBegin(PartOf(e.headers))
    BY <1>2, <2>1 DEF Handle
  <2>3. Adapter!PartBegin
    BY <1>2, <2>1, <2>2 DEF Adapter!PartBegin
  <2> QED
    BY <2>3 DEF Adapter!Next
<1>4. CASE e.kind = "Data"
  <2>1. /\ Len(e.data) \in DataSizes
        /\ Seen(e) = [kind |-> "Data", size |-> Len(e.data)]
    BY <1>1, <1>4, SeenType
  <2>2. Adapter!HandleData(Len(e.data))
    BY <1>2, <2>1 DEF Handle
  <2>3. Adapter!PartData
    BY <1>2, <2>1, <2>2 DEF Adapter!PartData
  <2> QED
    BY <2>3 DEF Adapter!Next
<1>5. CASE e.kind = "End"
  <2>1. Seen(e) = [kind |-> "End"]
    BY <1>1, <1>5, SeenType
  <2>2. Adapter!PartEnd
    BY <1>2, <2>1 DEF Handle, Adapter!PartEnd
  <2> QED
    BY <2>2 DEF Adapter!Next
<1>6. CASE e.kind = "Raw"
  <2>1. Seen(e) = [kind |-> "Raw"]
    BY <1>1, <1>6, SeenType
  <2>2. Adapter!RawPart
    BY <1>2, <2>1 DEF Handle, Adapter!RawPart
  <2> QED
    BY <2>2 DEF Adapter!Next
<1> QED
  BY <1>1, <1>3, <1>4, <1>5, <1>6, SeenType

-----------------------------------------------------------------------------
(* The end of the input.                                                   *)

(* What feed_eof sends of a body, as the adapter sees it.                  *)
LEMMA SeenBatches ==
  ASSUME Unbounded, TypeOK, NEW bytes \in Seq(Byte)
  PROVE  /\ SeenAll(DataOf(bytes)) \in Adapter!EofData
         /\ SeenAll(DataOf(bytes) \o <<EndEvent>>) \in Adapter!EofEnd
         /\ SeenAll(<<BeginEvent(headers)>> \o DataOf(bytes)) \in Adapter!EofBegin
<1>1. /\ DataOf(bytes) \in Seq(Event) /\ EndEvent \in Event /\ BeginEvent(headers) \in Event
      /\ DataEvent(bytes) \in Event
      /\ <<EndEvent>> \in Seq(Event) /\ <<BeginEvent(headers)>> \in Seq(Event)
  BY EventTypes, DataOfType DEF TypeOK
<1>2. SeenAll(DataOf(bytes)) \in Adapter!EofData
  <2>1. CASE bytes = <<>>
    BY <2>1, SeenAllParts DEF DataOf, Adapter!EofData
  <2>2. CASE bytes # <<>>
    <3>1. SeenAll(<<DataEvent(bytes)>>) = <<Seen(DataEvent(bytes))>>
      BY <1>1, SeenAllParts
    <3>2. /\ DataEvent(bytes).kind = "Data" /\ DataEvent(bytes).data = bytes
      BY DEF DataEvent
    <3>3. /\ Len(bytes) \in DataSizes
          /\ Seen(DataEvent(bytes)) = [kind |-> "Data", size |-> Len(bytes)]
      BY <1>1, <3>2, SeenType
    <3> QED
      BY <2>2, <3>1, <3>3 DEF DataOf, Adapter!EofData
  <2> QED
    BY <2>1, <2>2
<1>3. SeenAll(DataOf(bytes) \o <<EndEvent>>) \in Adapter!EofEnd
  <2>1. SeenAll(DataOf(bytes) \o <<EndEvent>>)
          = SeenAll(DataOf(bytes)) \o <<Seen(EndEvent)>>
    BY <1>1, SeenAllParts
  <2>2. Seen(EndEvent) = [kind |-> "End"]
    BY <1>1, SeenType DEF EndEvent
  <2> QED
    BY <1>2, <2>1, <2>2 DEF Adapter!EofEnd
<1>4. SeenAll(<<BeginEvent(headers)>> \o DataOf(bytes)) \in Adapter!EofBegin
  <2>1. SeenAll(<<BeginEvent(headers)>> \o DataOf(bytes))
          = <<Seen(BeginEvent(headers))>> \o SeenAll(DataOf(bytes))
    BY <1>1, SeenAllParts
  <2>2. BeginEvent(headers).kind = "Begin" /\ BeginEvent(headers).headers = headers
    BY DEF BeginEvent
  <2>3. /\ PartOf(headers) \in Parts
        /\ Seen(BeginEvent(headers)) = [kind |-> "Begin", part |-> PartOf(headers)]
    BY <1>1, <2>2, SeenType
  <2>4. ASSUME NEW d \in Adapter!EofData, NEW q \in Parts
        PROVE  <<[kind |-> "Begin", part |-> q]>> \o d \in Adapter!EofBegin
    BY DEF Adapter!EofBegin
  <2> QED
    BY <1>2, <2>1, <2>3, <2>4
<1> QED
  BY <1>2, <1>3, <1>4

(* feed_eof returns one of the batches that the adapter reckons with, from *)
(* and to the states it reckons with (feed_eof_map_data,                   *)
(* multipart.rs:139-191).                                                  *)
LEMMA EofOutcome ==
  ASSUME Unbounded, ProtocolInv, WaitInv, FeedEof, phase' = "idle", NEW inPart,
         inPart <=> InBody
  PROVE  \E new \in Seq(Event) :
           /\ received' = received \o new
           /\ [events |-> SeenAll(new), before |-> SeenState(state),
               final |-> SeenState(state')] \in Adapter!EofOutcomes(inPart)
<1> DEFINE Result(new) == [events |-> SeenAll(new), before |-> SeenState(state),
                           final |-> SeenState(state')]
<1>1. /\ TypeOK /\ buffer \in Seq(Byte) /\ phase = "idle" /\ events = <<>>
      /\ state \in States /\ headers \in Headers
  BY DEF ProtocolInv, TypeOK, BatchIsHandedOver, FeedEof
<1>2. ASSUME NEW new \in Seq(Event), Return(new) PROVE received' = received \o new
  BY <1>1, <1>2, ConcatEmptySeq DEF Return
<1>3. SeenState("Body") = "Body" /\ SeenState("End") = "End" /\ SeenState("Discard") = "Other"
  BY DEF SeenState
<1>4. CASE /\ state = "Body"
           /\ \E index \in Find(buffer, Token) :
                /\ state' = IF TailAt(index) = <<>> THEN "End" ELSE "Discard"
                /\ Return(Began \o DataOf(Upto(buffer, BodyDataEnd(buffer, index)))
                                \o <<EndEvent>>)
  <2>1. PICK index \in Find(buffer, Token) :
          /\ state' \in {"End", "Discard"}
          /\ Return(Began \o DataOf(Upto(buffer, BodyDataEnd(buffer, index))) \o <<EndEvent>>)
    BY <1>4
  <2> DEFINE bytes == Upto(buffer, BodyDataEnd(buffer, index))
             new == DataOf(bytes) \o <<EndEvent>>
  <2>2. bytes \in Seq(Byte)
    BY <1>1, BodyDataProperties
  <2>3. ~pending
    <3>1. Len(Token) \in Nat /\ index + Len(Token) <= Len(buffer) /\ index \in Nat
          /\ Len(buffer) \in Nat
      BY <1>1, TokenProperties, FindProperties, LenProperties
    <3> QED
      BY <1>1, <3>1 DEF WaitInv
  <2>4. DataOf(bytes) \in Seq(Event) /\ new \in Seq(Event)
    BY <2>2, DataOfType, EventTypes, ConcatProperties
  <2>5. Began \o DataOf(bytes) = DataOf(bytes)
    BY <2>3, <2>4, ConcatEmptySeq DEF Began
  <2>6. received' = received \o new
    BY <1>2, <2>1, <2>4, <2>5
  <2>7. inPart
    BY <1>4, <2>3 DEF InBody
  <2>8. SeenAll(new) \in Adapter!EofEnd
    BY <1>1, <2>2, SeenBatches
  <2> HIDE DEF new
  <2>9. Result(new) \in Adapter!EofOutcomes(inPart)
    BY <1>3, <1>4, <2>1, <2>7, <2>8 DEF Adapter!EofOutcomes
  <2> QED
    BY <2>4, <2>6, <2>9 DEF new
<1>5. CASE state = "Body" /\ state' = state /\ Return(Began \o DataOf(buffer))
  <2>1. Began \o DataOf(buffer) \in Seq(Event) /\ DataOf(buffer) \in Seq(Event)
    BY <1>1, BatchTypes
  <2>2. CASE pending
    <3>1. Began \o DataOf(buffer) = <<BeginEvent(headers)>> \o DataOf(buffer)
      BY <2>2 DEF Began
    <3>2. SeenAll(Began \o DataOf(buffer)) \in Adapter!EofBegin
      BY <1>1, <3>1, SeenBatches
    <3>3. ~inPart
      BY <2>2 DEF InBody
    <3>4. Result(Began \o DataOf(buffer)) \in Adapter!EofOutcomes(inPart)
      BY <1>3, <1>5, <3>2, <3>3 DEF Adapter!EofOutcomes
    <3> QED
      BY <1>2, <1>5, <2>1, <3>4
  <2>3. CASE ~pending
    <3>1. Began \o DataOf(buffer) = DataOf(buffer)
      BY <2>1, <2>3, ConcatEmptySeq DEF Began
    <3>2. SeenAll(Began \o DataOf(buffer)) \in Adapter!EofData
      BY <1>1, <3>1, SeenBatches
    <3>3. inPart
      BY <1>5, <2>3 DEF InBody
    <3>4. Result(Began \o DataOf(buffer)) \in Adapter!EofOutcomes(inPart)
      BY <1>3, <1>5, <3>2, <3>3 DEF Adapter!EofOutcomes
    <3> QED
      BY <1>2, <1>5, <2>1, <3>4
  <2> QED
    BY <2>2, <2>3
<1>6. CASE state # "Body" /\ state' = state /\ Return(Began)
  <2>1. Began = <<>> /\ <<>> \in Seq(Event)
    BY <1>6 DEF ProtocolInv, PendingOnlyInBody, Began
  <2>2. SeenAll(<<>>) = <<>>
    BY SeenAllParts
  <2>3. ~inPart
    BY <1>6 DEF InBody
  <2>4. SeenState(state) \in {"End", "Other"} /\ SeenState(state') = SeenState(state)
    BY <1>6 DEF SeenState
  <2>5. Result(<<>>) \in Adapter!EofOutcomes(inPart)
    BY <2>2, <2>3, <2>4 DEF Adapter!EofOutcomes
  <2> QED
    BY <1>2, <1>6, <2>1, <2>5
<1>7. ~\E reason : Raise(reason)
  BY DEF Raise
<1> QED
  BY <1>4, <1>5, <1>6, <1>7 DEF FeedEof

(* The part of a longer list that was appended to it.                      *)
LEMMA FromAppended ==
  ASSUME NEW s \in Seq(Event), NEW t \in Seq(Event)
  PROVE  From(s \o t, Len(s)) = t
<1>1. /\ s \o t \in Seq(Event) /\ Len(s \o t) = Len(s) + Len(t)
      /\ \A i \in 1..(Len(s) + Len(t)) :
           (s \o t)[i] = IF i <= Len(s) THEN s[i] ELSE t[i - Len(s)]
  BY ConcatProperties
<1>2. Len(s) \in Nat /\ Len(t) \in Nat
  BY LenProperties
<1>3. Len(s) \in 0..Len(s \o t)
  BY <1>1, <1>2
<1>4. /\ From(s \o t, Len(s)) \in Seq(Event)
      /\ Len(From(s \o t, Len(s))) = Len(t)
  <2>1. ASSUME NEW u \in Seq(Event), Len(s) \in 0..Len(u)
        PROVE  From(u, Len(s)) \in Seq(Event) /\ Len(From(u, Len(s))) = Len(u) - Len(s)
    BY <2>1, FromProperties
  <2>2. /\ From(s \o t, Len(s)) \in Seq(Event)
        /\ Len(From(s \o t, Len(s))) = Len(s \o t) - Len(s)
    BY <1>1, <1>3, <2>1, Zenon
  <2> QED
    BY <1>1, <1>2, <2>2
<1>5. ASSUME NEW i \in 1..Len(t) PROVE From(s \o t, Len(s))[i] = t[i]
  <2>1. From(s \o t, Len(s))[i] = (s \o t)[Len(s) + i]
    <3>1. \A k \in (Len(s) + 1)..Len(s \o t) : (s \o t)[k] \in Event
      BY <1>1, <1>2, LenProperties
    <3>2. SubSeq(s \o t, Len(s) + 1, Len(s \o t))[i] = (s \o t)[Len(s) + 1 + i - 1]
      BY <1>1, <1>2, <3>1, SubSeqProperties
    <3> QED
      BY <1>2, <3>2 DEF From
  <2>2. Len(s) + i \in 1..(Len(s) + Len(t)) /\ ~(Len(s) + i <= Len(s))
        /\ (Len(s) + i) - Len(s) = i
    BY <1>2
  <2> QED
    BY <1>1, <2>1, <2>2
<1> QED
  BY <1>4, <1>5, SeqEqual

(* What the adapter keeps of a feed_eof that returns.                      *)
LEMMA FeedEndReturns ==
  ASSUME Unbounded, ProtocolInv, LinkInv, FeedEnd, phase' = "idle"
  PROVE  \E new \in Seq(Event) :
           /\ received' = received \o new
           /\ Adapter!EofReturns(SeenAll(new), SeenState(state), SeenState(state'))
           /\ Adapter!FeedEof
<1> DEFINE inPart == Adapter!Source!InPart([i \in DOMAIN delivered |-> delivered[i].kind])
<1>1. FeedEof /\ Len(delivered) = Len(received) /\ phase = "idle"
  BY DEF FeedEnd, BatchIsHandled
<1>2. received \in Seq(Event) /\ Good(received) /\ (EndsInside(received) <=> InBody)
  BY <1>1, ReturnedIsGood
<1>3. Len(received) \in Nat /\ Len(delivered) <= Len(received)
  BY <1>1, <1>2, LenProperties
<1>4. inPart <=> InBody
  <2>1. Adapter!Source!InPart(AdapterKinds(delivered)) <=> EndsInside(received)
    BY <1>1, <1>2, <1>3, HandledKinds DEF LinkInv, HandledInv
  <2> QED
    BY <1>2, <2>1 DEF AdapterKinds
<1>5. PICK new \in Seq(Event) :
        /\ received' = received \o new
        /\ [events |-> SeenAll(new), before |-> SeenState(state),
            final |-> SeenState(state')] \in Adapter!EofOutcomes(inPart)
  <2> HIDE DEF inPart
  <2> QED
    BY <1>1, <1>4, EofOutcome DEF LinkInv
<1>6. From(received', Len(received)) = new
  BY <1>2, <1>5, FromAppended
<1>7. Adapter!EofReturns(SeenAll(new), SeenState(state), SeenState(state'))
  BY <1>6 DEF FeedEnd, SeenAll
<1>8. Adapter!FeedEof
  <2> DEFINE outcome == [events |-> SeenAll(new), before |-> SeenState(state),
                         final |-> SeenState(state')]
  <2>1. Adapter!EofReturns(outcome.events, outcome.before, outcome.final)
    BY <1>7
  <2>2. outcome \in Adapter!EofOutcomes(inPart)
    BY <1>5
  <2> HIDE DEF outcome
  <2> QED
    BY <2>1, <2>2 DEF Adapter!FeedEof
<1> QED
  BY <1>5, <1>7, <1>8

-----------------------------------------------------------------------------
(* The invariant.                                                          *)

(* Handlers and statements that neither read nor feed see no event, and a  *)
(* request that is being aborted comes to nothing else.                    *)
LEMMA QuietAdapter ==
  ASSUME AdapterSteps
  PROVE  /\ UNCHANGED <<delivered, left, ended>> /\ UNCHANGED <<before, final, exact>>
         /\ UNCHANGED inputVars /\ UNCHANGED parserAll
         /\ pc \in {"aborting", "raised"} => pc' \in {"aborting", "raised"}
<1>1. UNCHANGED inputVars /\ UNCHANGED parserAll
  BY DEF AdapterSteps
<1>2. CASE Adapter!BeforeParsing
  BY <1>1, <1>2 DEF Adapter!BeforeParsing, Adapter!requestVars
<1>3. CASE Adapter!NewFile
  BY <1>1, <1>3 DEF Adapter!NewFile
<1>4. CASE Adapter!LoopEnds
  BY <1>1, <1>4 DEF Adapter!LoopEnds, Adapter!requestVars
<1>5. CASE Adapter!ReceiveChunk
  BY <1>1, <1>5 DEF Adapter!ReceiveChunk
<1>6. CASE Adapter!FileComplete
  BY <1>1, <1>6 DEF Adapter!FileComplete
<1>7. CASE Adapter!NobodyReturnsFile
  BY <1>1, <1>7 DEF Adapter!NobodyReturnsFile, Adapter!requestVars
<1>8. CASE Adapter!Finish
  BY <1>1, <1>8 DEF Adapter!Finish, Adapter!requestVars
<1>9. CASE Adapter!Succeed
  BY <1>1, <1>9 DEF Adapter!Succeed, Adapter!requestVars
<1>10. CASE Adapter!InterruptUpload
  BY <1>1, <1>10 DEF Adapter!InterruptUpload, Adapter!requestVars
<1>11. CASE Adapter!AbortUpload
  <2>1. UNCHANGED <<delivered, left, ended>> /\ UNCHANGED <<before, final, exact>>
    BY <1>11 DEF Adapter!AbortUpload, Adapter!requestVars
  <2>2. pc' \in {"aborting", "raised"}
    BY <1>11 DEF Adapter!AbortUpload, Adapter!NextHandler, Adapter!Resume, Adapter!Goto
  <2> QED
    BY <1>1, <2>1, <2>2
<1>12. CASE Adapter!UploadComplete
  BY <1>1, <1>12 DEF Adapter!UploadComplete, Adapter!requestVars
<1> QED
  BY <1>2, <1>3, <1>4, <1>5, <1>6, <1>7, <1>8, <1>9, <1>10, <1>11, <1>12 DEF AdapterSteps

(* Where the parser returns nothing and the adapter handles nothing, the   *)
(* two lists stay as they are.                                             *)
LEMMA ListsKept ==
  ASSUME HandledInv, LeftInv, UNCHANGED <<delivered, left, ended, received>>,
         phase' = "idle" \/ Len(delivered) = Len(received)
  PROVE  HandledInv' /\ LeftInv'
BY DEF HandledInv, LeftInv

(* A new chunk.                                                            *)
LEMMA ReadChunkKeeps ==
  ASSUME ProtocolInv, LinkInv, ReadChunk
  PROVE  ProtocolInv' /\ LinkInv'
<1>1. /\ unread \in Seq(Byte) /\ unread # <<>> /\ Len(unread) \in Nat
      /\ phase = "idle" /\ Len(delivered) = Len(received)
      /\ UNCHANGED <<delivered, left, ended, pc>>
  BY LenProperties DEF LinkInv, InputInv, ReadChunk, BatchIsHandled, adapterAll
<1>2. PICK n \in 0..Len(unread) : Feed(Upto(unread, n)) /\ unread' = From(unread, n)
  <2>1. \A m \in ChunkSizes : m <= Len(unread) => m \in 0..Len(unread)
    BY <1>1, RequestsAssumption
  <2>2. Len(unread) \in 0..Len(unread)
    BY <1>1
  <2> QED
    BY <2>1, <2>2 DEF ReadChunk, FeedNext
<1>3. Upto(unread, n) \in Seq(Byte) /\ unread' \in Seq(Byte)
  BY <1>1, <1>2, UptoProperties, FromProperties
<1>4. ProtocolInv'
  BY <1>2, <1>3, ProtocolFeed
<1>5. received' = received /\ phase' # "idle" /\ eof' = eof
  BY <1>2 DEF Feed, Raise
<1>6. HandledInv' /\ LeftInv'
  BY <1>1, <1>5, ListsKept DEF LinkInv
<1>7. InputInv' /\ WaitInv'
  BY <1>1, <1>3, <1>5 DEF LinkInv, InputInv, WaitInv
<1> QED
  BY <1>4, <1>6, <1>7 DEF LinkInv

(* A pass of the parser's loop withholds a Begin only in front of what     *)
(* may be the beginning of a token (handle_body, multipart.rs:373-378).    *)
LEMMA LoopWaits ==
  ASSUME ProtocolInv, Loop
  PROVE  WaitInv'
<1> SUFFICES ASSUME phase' = "idle", pending' PROVE Len(buffer') < Len(Token)
  BY DEF WaitInv
<1>1. phase = "feeding" /\ (state # "Body" => ~pending)
  BY DEF Loop, ProtocolInv, PendingOnlyInBody
<1>2. CASE PreambleToken \/ PreambleIncomplete \/ PreambleScan
  BY <1>1, <1>2 DEF PreambleToken, PreambleIncomplete, PreambleScan
<1>3. CASE HeaderBoundary \/ HeaderEnd \/ HeaderLine \/ HeaderPartial
  BY <1>1, <1>3 DEF HeaderBoundary, HeaderEnd, HeaderLine, HeaderPartial, parserVars,
                    Continue, Raise
<1>4. CASE BodyAwaitsToken
  BY <1>4 DEF BodyAwaitsToken, parserVars
<1>5. CASE BodyIsRaw \/ BodyToken \/ BodyIncomplete \/ BodyScan
  BY <1>5 DEF BodyIsRaw, BodyToken, BodyIncomplete, BodyScan, BodyBegun
<1>6. CASE RawHeaders \/ RawToken \/ RawPartial
  BY <1>1, <1>6 DEF RawHeaders, RawToken, RawPartial, parserVars
<1> QED
  BY <1>2, <1>3, <1>4, <1>5, <1>6 DEF Loop

(* The parser's loop adds to the end of what it has returned.              *)
LEMMA ParserLoopsKeeps ==
  ASSUME ProtocolInv, LinkInv, ParserLoops
  PROVE  ProtocolInv' /\ LinkInv'
<1>1. /\ Loop /\ phase = "feeding" /\ eof' = eof /\ ~eof /\ ~ended
      /\ Len(delivered) = Len(received)
      /\ UNCHANGED <<delivered, left, ended, pc, unread>>
  BY DEF ParserLoops, Loop, LinkInv, InputInv, HandledInv, adapterAll, inputVars
<1>2. ProtocolInv'
  BY <1>1, ProtocolStep DEF Next
<1>3. /\ TypeOK /\ received \in Seq(Event) /\ events \in Seq(Event)
      /\ delivered \in Seq(Adapter!Event) /\ Len(delivered) \in Nat
  BY LenProperties DEF ProtocolInv, TypeOK, LinkInv, HandledInv
<1>4. ASSUME received' = received, phase' # "idle" PROVE HandledInv' /\ LeftInv'
  BY <1>1, <1>4, ListsKept DEF LinkInv
<1>5. ASSUME NEW new \in Seq(Event), Return(new) PROVE HandledInv' /\ LeftInv'
  <2>1. received' = received \o (events \o new) /\ phase' = "idle"
    BY <1>5 DEF Return
  <2>2. events \o new \in Seq(Event) /\ Len(events \o new) \in Nat
    BY <1>3, ConcatProperties, LenProperties
  <2>3. /\ Len(received') = Len(received) + Len(events \o new)
        /\ \A i \in 1..Len(received) : received'[i] = received[i]
    BY <1>3, <2>1, <2>2, ConcatProperties, LenProperties
  <2>4. Len(delivered) <= Len(received')
    BY <1>1, <1>3, <2>2, <2>3
  <2> QED
    BY <1>1, <2>1, <2>3, <2>4 DEF LinkInv, HandledInv, LeftInv
<1>6. HandledInv' /\ LeftInv'
  <2>1. ASSUME NEW new \in Seq(Event), Continue(new) PROVE HandledInv' /\ LeftInv'
    BY <1>1, <1>4, <2>1 DEF Continue
  <2>2. ASSUME Raise("HeaderLimit") PROVE HandledInv' /\ LeftInv'
    BY <1>4, <2>2 DEF Raise
  <2> QED
    BY <1>1, <1>3, <1>5, <2>1, <2>2, LoopOutcome DEF Outcomes
<1>7. InputInv'
  BY <1>1 DEF LinkInv, InputInv
<1> QED
  BY <1>1, <1>2, <1>6, <1>7, LoopWaits DEF LinkInv

(* The parser and what it has returned are left alone.                     *)
LEMMA SameParser ==
  ASSUME ProtocolInv, UNCHANGED parserAll
  PROVE  /\ ProtocolInv'
         /\ UNCHANGED <<phase, eof, received, pending, buffer>>
BY ProtocolStep DEF parserAll, vars

(* The loops over the events, and the end of the last of them.             *)
LEMMA TakeEventKeeps ==
  ASSUME Unbounded, ProtocolInv, LinkInv, TakeEvent
  PROVE  ProtocolInv' /\ LinkInv'
<1>1. /\ UNCHANGED parserAll /\ UNCHANGED <<ended, unread>> /\ phase = "idle"
      /\ left' = IF ended THEN Tail(left) ELSE left
  BY DEF TakeEvent, inputVars
<1>2. ProtocolInv' /\ UNCHANGED <<phase, eof, received, pending, buffer>>
  BY <1>1, SameParser
<1>3. /\ delivered' \in Seq(Adapter!Event)
      /\ Len(delivered') = Len(delivered) + 1 /\ Len(delivered') <= Len(received)
      /\ \A i \in 1..Len(delivered') : delivered'[i] = Seen(received[i])
  BY TakenEvent DEF LinkInv
<1>4. HandledInv'
  BY <1>1, <1>2, <1>3 DEF HandledInv
<1>5. LeftInv'
  <2>1. CASE ~ended
    BY <1>1, <2>1 DEF LinkInv, LeftInv
  <2>2. CASE ended
    <3>1. /\ left \in Seq(Adapter!Event) /\ Len(left) \in Nat /\ Len(delivered) \in Nat
          /\ Len(received) = Len(delivered) + Len(left)
          /\ \A i \in 1..Len(left) : left[i] = Seen(received[Len(delivered) + i])
      BY <2>2, LenProperties DEF LinkInv, LeftInv, HandledInv
    <3>2. left # <<>>
      BY <1>3, <3>1, EmptySeq
    <3>3. /\ left' \in Seq(Adapter!Event) /\ Len(left') = Len(left) - 1
          /\ \A i \in 1..(Len(left) - 1) : left'[i] = left[i + 1]
      BY <1>1, <2>2, <3>1, <3>2, HeadTailProperties
    <3>4. ASSUME NEW i \in 1..Len(left')
          PROVE  left'[i] = Seen(received[Len(delivered') + i])
      <4>1. i + 1 \in 1..Len(left) /\ Len(delivered) + (i + 1) = Len(delivered') + i
            /\ i \in 1..(Len(left) - 1)
        BY <1>3, <3>1, <3>3
      <4> QED
        BY <3>1, <3>3, <4>1
    <3>5. Len(received) = Len(delivered') + Len(left')
      BY <1>3, <3>1, <3>3
    <3> QED
      BY <1>1, <1>2, <2>2, <3>3, <3>4, <3>5 DEF LeftInv
  <2> QED
    BY <2>1, <2>2 DEF LinkInv, LeftInv
<1>6. InputInv' /\ WaitInv'
  BY <1>1, <1>2 DEF LinkInv, InputInv, WaitInv
<1> QED
  BY <1>2, <1>4, <1>5, <1>6 DEF LinkInv

(* feed_eof: what is left to handle is what it returned.                   *)
LEMMA FeedEndKeeps ==
  ASSUME Unbounded, ProtocolInv, LinkInv, FeedEnd
  PROVE  ProtocolInv' /\ LinkInv'
<1>1. /\ FeedEof /\ ~eof /\ eof' = TRUE /\ pending' = FALSE /\ ~ended
      /\ unread = <<>> /\ unread' = unread
      /\ Len(delivered) = Len(received) /\ phase = "idle"
  BY DEF FeedEnd, FeedEof, BatchIsHandled, inputVars, LinkInv, InputInv
<1>2. ProtocolInv'
  BY <1>1, ProtocolStep DEF Next
<1>3. CASE phase' = "raised" /\ UNCHANGED adapterAll
  <2>1. received' = received
    BY <1>1, <1>3 DEF FeedEof, Return, Raise
  <2>2. UNCHANGED <<delivered, left, ended, pc>>
    BY <1>3 DEF adapterAll
  <2>3. HandledInv' /\ LeftInv'
    BY <1>1, <2>1, <2>2, ListsKept DEF LinkInv
  <2>4. InputInv' /\ WaitInv'
    BY <1>1, <1>3, <2>2 DEF LinkInv, InputInv, WaitInv
  <2> QED
    BY <1>2, <2>3, <2>4 DEF LinkInv
<1>4. CASE phase' = "idle"
  <2>1. PICK new \in Seq(Event) :
          /\ received' = received \o new
          /\ Adapter!EofReturns(SeenAll(new), SeenState(state), SeenState(state'))
    BY <1>4, FeedEndReturns
  <2>2. left' = SeenAll(new) /\ ended' = TRUE /\ delivered' = delivered
    BY <2>1 DEF Adapter!EofReturns
  <2>3. /\ left' \in Seq(Adapter!Event) /\ Len(left') = Len(new)
        /\ \A i \in 1..Len(new) : left'[i] = Seen(new[i])
    BY <2>2, SeenAllType
  <2>4. /\ received \in Seq(Event) /\ Len(received) \in Nat /\ Len(new) \in Nat
        /\ delivered \in Seq(Adapter!Event)
    BY ReturnedIsGood, LenProperties DEF LinkInv, HandledInv
  <2>5. /\ Len(received') = Len(received) + Len(new)
        /\ \A i \in 1..(Len(received) + Len(new)) :
             received'[i] = IF i <= Len(received) THEN received[i] ELSE new[i - Len(received)]
    BY <2>1, <2>4, ConcatProperties
  <2>6. \A i \in 1..Len(received) : received'[i] = received[i]
    BY <2>4, <2>5
  <2>7. ASSUME NEW i \in 1..Len(new) PROVE received'[Len(received) + i] = new[i]
    <3>1. /\ Len(received) + i \in 1..(Len(received) + Len(new))
          /\ ~(Len(received) + i <= Len(received)) /\ (Len(received) + i) - Len(received) = i
      BY <2>4
    <3> QED
      BY <2>5, <3>1
  <2>8. HandledInv'
    BY <1>1, <1>4, <2>2, <2>4, <2>5, <2>6 DEF LinkInv, HandledInv
  <2>9. LeftInv'
    BY <1>1, <2>2, <2>3, <2>5, <2>7 DEF LeftInv
  <2>10. InputInv' /\ WaitInv'
    BY <1>1, <1>4 DEF LinkInv, InputInv, WaitInv
  <2> QED
    BY <1>2, <2>8, <2>9, <2>10 DEF LinkInv
<1> QED
  BY <1>3, <1>4 DEF FeedEnd

(* An exception from read, feed or feed_eof ends the try statement.        *)
LEMMA FailureKeeps ==
  ASSUME ProtocolInv, LinkInv, ReadFails \/ ParserFails
  PROVE  ProtocolInv' /\ LinkInv'
<1>1. /\ UNCHANGED parserAll /\ UNCHANGED <<unread, delivered, left>>
      /\ ~ended /\ pc' = "aborting"
  BY DEF ReadFails, ParserFails, inputVars, Adapter!SourceFails, Adapter!Abort, Adapter!Goto
<1>2. ProtocolInv' /\ UNCHANGED <<phase, eof, received, pending, buffer>>
  BY <1>1, SameParser
<1>3. CASE ReadFails
  <2>1. ended' = ended /\ phase = "idle"
    BY <1>3 DEF ReadFails, BatchIsHandled
  <2>2. HandledInv' /\ LeftInv'
    BY <1>1, <1>2, <2>1, ListsKept DEF LinkInv
  <2>3. InputInv' /\ WaitInv'
    BY <1>1, <1>2, <2>1 DEF LinkInv, InputInv, WaitInv
  <2> QED
    BY <1>2, <2>2, <2>3 DEF LinkInv
<1>4. CASE ParserFails
  <2>1. ended' = eof /\ phase = "raised" /\ eof \in BOOLEAN
    BY <1>4 DEF ParserFails, ProtocolInv, TypeOK
  <2>2. Len(delivered) = Len(received) /\ left = <<>> /\ Len(left) = 0
    BY <1>1, <2>1 DEF LinkInv, HandledInv, LeftInv
  <2>3. HandledInv'
    BY <1>1, <1>2 DEF LinkInv, HandledInv
  <2>4. LeftInv'
    <3>1. Len(delivered) + 0 = Len(delivered)
      BY LenProperties DEF LinkInv, HandledInv
    <3> QED
      BY <1>1, <1>2, <2>1, <2>2, <3>1 DEF LinkInv, LeftInv
  <2>5. InputInv' /\ WaitInv'
    BY <1>1, <1>2, <2>1 DEF LinkInv, InputInv, WaitInv
  <2> QED
    BY <1>2, <2>3, <2>4, <2>5 DEF LinkInv
<1> QED
  BY <1>3, <1>4

(* The other statements, and the end.                                      *)
LEMMA OthersKeep ==
  ASSUME ProtocolInv, LinkInv, AdapterSteps \/ UNCHANGED uploadVars
  PROVE  ProtocolInv' /\ LinkInv'
<1>1. /\ UNCHANGED <<delivered, left, ended>> /\ UNCHANGED inputVars /\ UNCHANGED parserAll
      /\ pc \in {"aborting", "raised"} => pc' \in {"aborting", "raised"}
  BY QuietAdapter DEF uploadVars, adapterAll
<1>2. ProtocolInv' /\ UNCHANGED <<phase, eof, received, pending, buffer>>
  BY <1>1, SameParser
<1>3. HandledInv' /\ LeftInv'
  <2>1. phase' = "idle" \/ Len(delivered) = Len(received)
    BY <1>2 DEF LinkInv, HandledInv
  <2> QED
    BY <1>1, <1>2, <2>1, ListsKept DEF LinkInv
<1>4. InputInv' /\ WaitInv'
  BY <1>1, <1>2 DEF LinkInv, InputInv, WaitInv, inputVars
<1> QED
  BY <1>2, <1>3, <1>4 DEF LinkInv

(* Every step of a request keeps the two lists in agreement.               *)
LEMMA LinkStep ==
  ASSUME Unbounded, ProtocolInv, LinkInv, [UploadNext]_uploadVars
  PROVE  ProtocolInv' /\ LinkInv'
BY ReadChunkKeeps, ParserLoopsKeeps, FailureKeeps, TakeEventKeeps, FeedEndKeeps, OthersKeep
   DEF UploadNext, Stopped

(* At first nothing has been read, returned or handled.                    *)
LEMMA LinkInit ==
  ASSUME UploadInit
  PROVE  ProtocolInv /\ LinkInv
<1>1. ProtocolInv
  BY ProtocolInit DEF UploadInit
<1>2. /\ delivered = <<>> /\ left = <<>> /\ received = <<>> /\ ~ended /\ ended \in BOOLEAN
      /\ ~eof /\ phase = "idle" /\ ~pending /\ unread \in Seq(Byte)
  BY RequestsAssumption DEF UploadInit, RequestInit, Init, Adapter!Init
<1>3. <<>> \in Seq(Adapter!Event) /\ Len(<<>>) = 0
  OBVIOUS
<1> QED
  BY <1>1, <1>2, <1>3 DEF LinkInv, HandledInv, LeftInv, InputInv, WaitInv

-----------------------------------------------------------------------------
(* The refinement.                                                         *)

(* Every step of a request is a step of the adapter on its abstract        *)
(* source, or the adapter does not see it.                                 *)
LEMMA CompositionStep ==
  ASSUME Unbounded, ProtocolInv, LinkInv, [UploadNext]_uploadVars
  PROVE  [Adapter!Next]_(Adapter!vars)
<1>1. ASSUME UNCHANGED adapterAll PROVE UNCHANGED Adapter!vars
  BY <1>1 DEF adapterAll, Adapter!vars
<1>2. CASE ReadChunk \/ ParserLoops \/ Stopped \/ UNCHANGED uploadVars
  BY <1>1, <1>2 DEF ReadChunk, ParserLoops, Stopped, uploadVars
<1>3. CASE ReadFails \/ ParserFails
  BY <1>3 DEF ReadFails, ParserFails, Adapter!Next
<1>4. CASE TakeEvent
  BY <1>4, TakeEventStep DEF LinkInv
<1>5. CASE FeedEnd
  <2>1. CASE phase' = "raised" /\ UNCHANGED adapterAll
    BY <1>1, <2>1
  <2>2. CASE phase' = "idle"
    BY <1>5, <2>2, FeedEndReturns DEF Adapter!Next
  <2> QED
    BY <1>5, <2>1, <2>2 DEF FeedEnd
<1>6. CASE AdapterSteps
  BY <1>6 DEF AdapterSteps, Adapter!Next
<1> QED
  BY <1>2, <1>3, <1>4, <1>5, <1>6 DEF UploadNext

(* The adapter on the real parser implements the adapter on an abstract    *)
(* source: for every request, every way to read it in chunks and every     *)
(* limit, the parser gives it only well-formed streams, its feed_eof       *)
(* returns only what EofOutcomes lists, and every event is handled once    *)
(* and in order (_parse, parser.py:139-199).  So the theorems about        *)
(* UploadAdapter hold of whole requests.                                   *)
THEOREM AdapterRefinement ==
  ASSUME Unbounded
  PROVE  UploadSpec => ImplementsAdapter
<1>1. UploadInit => Adapter!Init /\ ProtocolInv /\ LinkInv
  BY LinkInit DEF UploadInit
<1>2. ProtocolInv /\ LinkInv /\ [UploadNext]_uploadVars => ProtocolInv' /\ LinkInv'
  BY LinkStep
<1>3. ProtocolInv /\ LinkInv /\ [UploadNext]_uploadVars => [Adapter!Next]_(Adapter!vars)
  BY CompositionStep
<1> QED
  BY <1>1, <1>2, <1>3, PTL DEF UploadSpec, ImplementsAdapter, Adapter!Spec

-----------------------------------------------------------------------------
(* The message behind a request.                                           *)

(* Whatever a step of a request does, the parser takes a step on chunks of *)
(* its body or none.                                                       *)
LEMMA UploadParses ==
  ASSUME request \in Seq(Byte), unread \in Seq(Byte), [UploadNext]_uploadVars
  PROVE  ParseStep
<1>1. Len(unread) \in Nat
  BY LenProperties
<1>2. CASE ReadChunk
  <2>1. PICK n \in {m \in ChunkSizes : m <= Len(unread)} \cup {Len(unread)} : FeedNext(n)
    BY <1>2 DEF ReadChunk
  <2>2. n \in Nat /\ n <= Len(unread)
    BY <1>1, <2>1, RequestsAssumption
  <2>3. n \in 0..Len(unread) /\ unread # <<>>
    BY <1>1, <1>2, <2>2 DEF ReadChunk
  <2> QED
    BY <2>1, <2>3 DEF ParseStep, Receives
<1>3. CASE ParserLoops
  BY <1>3 DEF ParserLoops, ParseStep, Turns
<1>4. CASE FeedEnd
  BY <1>4 DEF FeedEnd, ParseStep, HearsTheEnd
<1>5. CASE ReadFails \/ ParserFails \/ TakeEvent \/ AdapterSteps \/ Stopped \/ UNCHANGED uploadVars
  <2>1. UNCHANGED <<vars, inputVars>>
    BY <1>5 DEF ReadFails, ParserFails, TakeEvent, AdapterSteps, Stopped, uploadVars, parserAll
  <2> QED
    BY <2>1 DEF ParseStep
<1> QED
  BY <1>2, <1>3, <1>4, <1>5 DEF UploadNext

(* The limits that the adapter gives the parser, from Django's one total.  *)
AdapterLimits ==
  /\ MaxSize = {}
  /\ \E most \in Nat : /\ most >= 2 /\ MaxTotalHeaderSize = {most}
                       /\ MaxHeaderSize = most /\ MaxHeaderCount = MAX_HEADER_COUNT(most)

(* With them the parser raises for nothing else: the adapter feeds it no   *)
(* more after the end, and there is no limit on the whole body.            *)
RaisedInv ==
  /\ eof => unread = <<>>
  /\ phase = "raised" => error = "HeaderLimit"

LEMMA RaisedKeeps ==
  ASSUME AdapterLimits, TypeOK, RaisedInv, [UploadNext]_uploadVars
  PROVE  RaisedInv'
<1>1. CASE ReadChunk
  <2>1. ~eof
    BY <1>1 DEF ReadChunk, RaisedInv
  <2>2. PICK bytes : Feed(bytes)
    BY <1>1 DEF ReadChunk, FeedNext
  <2>3. ~TooLarge(bytes)
    BY DEF AdapterLimits, TooLarge
  <2> QED
    BY <2>1, <2>2, <2>3 DEF Feed, RaisedInv
<1>2. CASE ParserLoops
  <2>1. Outcomes /\ eof' = eof /\ unread' = unread /\ phase = "feeding"
    BY <1>2, LoopOutcome DEF ParserLoops, Loop, inputVars
  <2> QED
    BY <2>1 DEF Outcomes, Continue, Return, Raise, RaisedInv
<1>3. CASE FeedEnd
  <2>1. FeedEof /\ unread' = unread /\ unread = <<>>
    BY <1>3 DEF FeedEnd, inputVars
  <2> QED
    BY <2>1 DEF FeedEof, Return, Raise, RaisedInv
<1>4. CASE ReadFails \/ ParserFails \/ TakeEvent \/ AdapterSteps \/ Stopped \/ UNCHANGED uploadVars
  BY <1>4 DEF ReadFails, ParserFails, TakeEvent, AdapterSteps, Stopped, uploadVars, parserAll,
              vars, inputVars, RaisedInv
<1> QED
  BY <1>1, <1>2, <1>3, <1>4 DEF UploadNext

(* `This count can only be reached when Django's aggregate raw-header      *)
(* limit is reached as well' (parser.py:40-43): with the limits that the   *)
(* adapter computes from a total, a request is refused for its headers     *)
(* only if a header block or a raw segment of its message is over the      *)
(* total, a raw segment with the beginning of the token behind it when     *)
(* the read that is refused is not the last one.                           *)
THEOREM HeaderCountCorrect ==
  ASSUME AdapterLimits
  PROVE  UploadSpec => []HeaderCountIsRedundant
<1>1. TotalIsDecisive
  <2>1. PICK most \in Nat : /\ most >= 2 /\ MaxTotalHeaderSize = {most}
                            /\ MaxHeaderSize = most /\ MaxHeaderCount = MAX_HEADER_COUNT(most)
    BY DEF AdapterLimits
  <2> QED
    BY <2>1, AdapterLimitsDecide DEF MAX_HEADER_COUNT
<1>2. UploadInit => RefusalInv /\ RaisedInv
  BY RefusalInit DEF UploadInit, Init, RaisedInv
<1>3. RefusalInv /\ RaisedInv /\ [UploadNext]_uploadVars => RefusalInv' /\ RaisedInv'
  <2> SUFFICES ASSUME RefusalInv, RaisedInv, [UploadNext]_uploadVars
               PROVE  RefusalInv' /\ RaisedInv'
    OBVIOUS
  <2>1. TypeOK /\ request \in Seq(Byte) /\ unread \in Seq(Byte)
    BY DEF RefusalInv, ReckonInv, ReadInv, ProtocolInv
  <2>2. ParseStep
    BY <2>1, UploadParses
  <2> QED
    BY <1>1, <2>1, <2>2, RefusalStep, RaisedKeeps
<1>4. RefusalInv /\ RaisedInv => HeaderCountIsRedundant
  BY DEF RefusalInv, RaisedInv, RefusedOnlyOverTheLimit, HeaderCountIsRedundant
<1> QED
  BY <1>2, <1>3, <1>4, PTL DEF UploadSpec

-----------------------------------------------------------------------------
(* Functions that run through a sequence.                                  *)

(* F folds act over the sequences of E.                                    *)
IsFold(F, E, T, start, act) ==
  /\ F \in [Seq(E) -> T]
  /\ F[<<>>] = start
  /\ \A s \in Seq(E), e \in E : F[Append(s, e)] = act[<<F[s], e>>]

(* Every action has a fold.                                                *)
LEMMA FoldExists ==
  ASSUME NEW E, NEW T, NEW start \in T, NEW act \in [T \X E -> T]
  PROVE  \E F : IsFold(F, E, T, start, act)
<1> DEFINE step(s) == [p \in Nat \X T |->
                         IF p[1] \in 1..Len(s) THEN act[<<p[2], s[p[1]]>>] ELSE p[2]]
           It(s) == CHOOSE g : IsIteration(g, T, start, step(s))
           F == [s \in Seq(E) |-> It(s)[Len(s)]]
<1>1. ASSUME NEW s \in Seq(E)
      PROVE  /\ step(s) \in [Nat \X T -> T]
             /\ \A n \in 1..Len(s), t \in T : step(s)[<<n, t>>] = act[<<t, s[n]>>]
  <2>1. Len(s) \in Nat /\ \A n \in 1..Len(s) : s[n] \in E
    BY LenProperties
  <2>2. \A p \in Nat \X T : p[1] \in Nat /\ p[2] \in T
    OBVIOUS
  <2>3. \A n \in 1..Len(s), t \in T : <<t, s[n]>> \in T \X E
    BY <2>1
  <2>4. \A n \in 1..Len(s), t \in T : act[<<t, s[n]>>] \in T
    BY <2>3
  <2>5. \A n \in 1..Len(s), t \in T : <<n, t>> \in Nat \X T /\ <<n, t>>[1] = n /\ <<n, t>>[2] = t
    BY <2>1
  <2> QED
    BY <2>2, <2>4, <2>5
<1> HIDE DEF step
<1>2. ASSUME NEW s \in Seq(E) PROVE IsIteration(It(s), T, start, step(s))
  <2>1. \E g : IsIteration(g, T, start, step(s))
    BY <1>1, Iteration DEF IsStep
  <2> QED
    BY <2>1
<1> HIDE DEF It
<1>3. ASSUME NEW s \in Seq(E)
      PROVE  /\ It(s)[0] = start /\ It(s)[Len(s)] \in T
             /\ \A n \in Nat : /\ It(s)[n] \in T
                               /\ n + 1 <= Len(s) => It(s)[n + 1] = act[<<It(s)[n], s[n + 1]>>]
  <2>1. /\ It(s) \in [Nat -> T] /\ It(s)[0] = start
        /\ \A n \in Nat : It(s)[n + 1] = step(s)[<<n + 1, It(s)[n]>>]
    BY <1>2 DEF IsIteration
  <2>2. Len(s) \in Nat
    BY LenProperties
  <2>3. ASSUME NEW n \in Nat, n + 1 <= Len(s)
        PROVE  It(s)[n + 1] = act[<<It(s)[n], s[n + 1]>>]
    <3>1. n + 1 \in 1..Len(s) /\ It(s)[n] \in T
      BY <2>1, <2>2, <2>3
    <3>2. step(s)[<<n + 1, It(s)[n]>>] = act[<<It(s)[n], s[n + 1]>>]
      BY <1>1, <3>1
    <3> QED
      BY <2>1, <3>2
  <2> QED
    BY <2>1, <2>2, <2>3
<1>4. F \in [Seq(E) -> T] /\ F[<<>>] = start
  <2>1. <<>> \in Seq(E) /\ Len(<<>>) = 0
    OBVIOUS
  <2> QED
    BY <1>3, <2>1
<1>5. ASSUME NEW s \in Seq(E), NEW e \in E
      PROVE  F[Append(s, e)] = act[<<F[s], e>>]
  <2> DEFINE t == Append(s, e)
  <2>1. /\ t \in Seq(E) /\ Len(s) \in Nat /\ Len(t) = Len(s) + 1
        /\ \A i \in 1..Len(s) : t[i] = s[i]
        /\ t[Len(s) + 1] = e
    BY AppendProperties, LenProperties
  <2> HIDE DEF t
  <2> DEFINE Same == {n \in Nat : n <= Len(s) => It(t)[n] = It(s)[n]}
  <2>2. Same \in SUBSET Nat /\ 0 \in Same
    BY <1>3, <2>1
  <2>3. ASSUME NEW n \in Same PROVE n + 1 \in Same
    <3>1. n \in Nat /\ n + 1 \in Nat /\ (n <= Len(s) => It(t)[n] = It(s)[n])
      OBVIOUS
    <3>2. ASSUME n + 1 <= Len(s) PROVE It(t)[n + 1] = It(s)[n + 1]
      <4>1. n <= Len(s) /\ n + 1 <= Len(t) /\ n + 1 \in 1..Len(s)
        BY <2>1, <3>1, <3>2
      <4>2. /\ It(t)[n + 1] = act[<<It(t)[n], t[n + 1]>>]
            /\ It(s)[n + 1] = act[<<It(s)[n], s[n + 1]>>]
        BY <1>3, <2>1, <3>1, <3>2, <4>1
      <4> QED
        BY <2>1, <3>1, <4>1, <4>2
    <3> QED
      BY <3>1, <3>2
  <2> HIDE DEF Same
  <2>4. Same = Nat
    BY <2>2, <2>3, EveryNatural
  <2>5. It(t)[Len(s)] = It(s)[Len(s)]
    <3>1. Len(s) \in Same
      BY <2>1, <2>4
    <3> QED
      BY <2>1, <3>1 DEF Same
  <2>6. It(t)[Len(s) + 1] = act[<<It(t)[Len(s)], t[Len(s) + 1]>>]
    BY <1>3, <2>1
  <2> QED
    BY <2>1, <2>5, <2>6 DEF t
<1> HIDE DEF F
<1> QED
  BY <1>4, <1>5 DEF IsFold

(* Induction over sequences, said of a set.                                *)
LEMMA EverySequence ==
  ASSUME NEW E, NEW T \in SUBSET Seq(E), <<>> \in T, \A s \in T, e \in E : Append(s, e) \in T
  PROVE  T = Seq(E)
<1> DEFINE All == {n \in Nat : \A s \in Seq(E) : Len(s) = n => s \in T}
<1>1. All \in SUBSET Nat /\ 0 \in All
  <2>1. \A s \in Seq(E) : Len(s) = 0 => s = <<>>
    BY EmptySeq
  <2> QED
    BY <2>1
<1>2. ASSUME NEW n \in All PROVE n + 1 \in All
  <2> SUFFICES ASSUME NEW t \in Seq(E), Len(t) = n + 1 PROVE t \in T
    OBVIOUS
  <2>0. n \in Nat
    OBVIOUS
  <2> DEFINE u == [i \in 1..n |-> t[i]]
             last == t[n + 1]
             x == Append(u, last)
  <2>1. n + 1 \in 1..(n + 1) /\ \A i \in 1..(n + 1) : t[i] \in E
    BY <2>0, LenProperties
  <2>2. \A i \in 1..n : i \in 1..(n + 1) /\ t[i] \in E
    BY <2>0, <2>1
  <2>3. u \in Seq(E) /\ Len(u) = n /\ \A i \in 1..n : u[i] = t[i]
    BY <2>0, <2>2
  <2>4. u \in T
    BY <2>3
  <2>5. last \in E
    BY <2>1
  <2> HIDE DEF u, last
  <2>6. /\ x \in T /\ x \in Seq(E) /\ Len(x) = n + 1 /\ x[n + 1] = last
        /\ \A i \in 1..n : x[i] = u[i]
    <3>1. /\ x \in Seq(E) /\ Len(x) = Len(u) + 1 /\ x[Len(u) + 1] = last
          /\ \A i \in 1..Len(u) : x[i] = u[i]
      <4>1. u \in Seq(E)
        BY <2>3
      <4> QED
        BY <2>5, <4>1, AppendProperties
    <3>2. x \in T
      BY <2>4, <2>5
    <3> QED
      BY <2>3, <3>1, <3>2
  <2> HIDE DEF x
  <2>7. \A i \in 1..Len(x) : x[i] = t[i]
    <3>1. \A i \in 1..(n + 1) : i \in 1..n \/ i = n + 1
      BY <2>0
    <3> QED
      BY <2>3, <2>6, <3>1 DEF last
  <2>8. x = t
    BY <2>6, <2>7, SeqEqual
  <2> QED
    BY <2>6, <2>8
<1> HIDE DEF All
<1>3. All = Nat
  BY <1>1, <1>2, EveryNatural
<1>4. \A s \in Seq(E) : Len(s) \in Nat
  BY LenProperties
<1> QED
  BY <1>3, <1>4 DEF All

-----------------------------------------------------------------------------
(* The header block of a part, as the adapter reads it.                    *)
HeaderField == [name : Seq(Byte), value : Seq(Byte)]
FoundHeaders == UNION {[names -> Seq(Byte)] : names \in SUBSET Seq(Byte)}

LEMMA StoredType ==
  ASSUME NEW found \in FoundHeaders, NEW field \in HeaderField
  PROVE  /\ Stored(found, field) \in FoundHeaders
         /\ ~Decodable(field) => Stored(found, field) = found
         /\ Decodable(field) => \A name \in Seq(Byte) :
              Get(Stored(found, field), name)
                = IF name = TrimEnd(field.name, {SP}) THEN field.value ELSE Get(found, name)
<1> DEFINE key == TrimEnd(field.name, {SP})
           new == [name \in DOMAIN found \cup {key} |->
                     IF name = key THEN field.value ELSE found[name]]
<1>1. key \in Seq(Byte) /\ field.value \in Seq(Byte)
  BY TrimProperties DEF HeaderField
<1>2. PICK names \in SUBSET Seq(Byte) : found \in [names -> Seq(Byte)]
  BY DEF FoundHeaders
<1>3. names \cup {key} \in SUBSET Seq(Byte) /\ new \in [names \cup {key} -> Seq(Byte)]
  BY <1>1, <1>2
<1>4. new \in FoundHeaders
  BY <1>3, Zenon DEF FoundHeaders
<1>5. Decodable(field) => Stored(found, field) = new
  BY DEF Stored
<1>6. ASSUME Decodable(field), NEW name \in Seq(Byte)
      PROVE  Get(Stored(found, field), name)
               = IF name = key THEN field.value ELSE Get(found, name)
  BY <1>5, <1>6 DEF Get
<1>7. ~Decodable(field) => Stored(found, field) = found
  BY DEF Stored
<1> QED
  BY <1>4, <1>5, <1>6, <1>7

(* Trimming leaves nothing to trim.                                        *)
LEMMA TrimEndTwice ==
  ASSUME NEW S, NEW s \in Seq(S), NEW B
  PROVE  TrimEnd(TrimEnd(s, B), B) = TrimEnd(s, B)
<1> DEFINE n == Len(s)
           trailing == {i \in 1..n : \A j \in i..n : s[j] \in B}
           l == n - Cardinality(trailing)
           t == TrimEnd(s, B)
           rest == {i \in 1..Len(t) : \A j \in i..Len(t) : t[j] \in B}
<1>1. n \in Nat
  BY LenProperties
<1>2. l \in 0..n /\ (l = 0 \/ s[l] \notin B)
  <2>1. CASE trailing = {}
    <3>1. Cardinality(trailing) = 0
      BY <2>1, FS_EmptySet
    <3>2. n \in 1..n => s[n] \notin B
      <4> SUFFICES ASSUME n \in 1..n, s[n] \in B PROVE FALSE
        OBVIOUS
      <4>1. \A j \in n..n : s[j] \in B
        BY <1>1
      <4> QED
        BY <2>1, <4>1
    <3> QED
      BY <1>1, <3>1, <3>2
  <2>2. CASE trailing # {}
    <3>1. trailing \in SUBSET Nat
      BY <1>1
    <3>2. PICK a \in trailing : \A k \in trailing : a <= k
      <4> HIDE DEF trailing
      <4> QED
        BY <2>2, <3>1, LeastElement
    <3>3. a \in 1..n /\ \A j \in a..n : s[j] \in B
      BY <3>2
    <3>4. trailing = a..n
      <4>1. ASSUME NEW k \in a..n PROVE k \in trailing
        BY <1>1, <3>3
      <4>2. ASSUME NEW k \in trailing PROVE k \in a..n
        BY <1>1, <3>2
      <4> QED
        BY <4>1, <4>2
    <3>5. Cardinality(trailing) = n - a + 1
      <4>1. Cardinality(a..n) = n - a + 1
        BY <1>1, <3>3, FS_Interval
      <4> HIDE DEF trailing
      <4> QED
        BY <3>4, <4>1
    <3>6. l = a - 1
      <4> HIDE DEF trailing
      <4> QED
        BY <1>1, <3>3, <3>5
    <3>7. ASSUME l # 0 PROVE s[l] \notin B
      <4>1. l \in 1..n /\ l \notin trailing
        BY <1>1, <3>2, <3>3, <3>6, <3>7
      <4>2. PICK j \in l..n : s[j] \notin B
        BY <4>1
      <4>3. j = l
        BY <1>1, <3>3, <3>6, <4>2
      <4> QED
        BY <4>2, <4>3
    <3> QED
      BY <1>1, <3>3, <3>6, <3>7
  <2> QED
    BY <2>1, <2>2
<1>3. t = Upto(s, l)
  BY DEF TrimEnd
<1> HIDE DEF l
<1>4. t \in Seq(S) /\ Len(t) = l /\ \A i \in 1..l : t[i] = s[i]
  <2>1. t \in Seq(S) /\ Len(t) = l
    BY <1>1, <1>2, <1>3, UptoProperties
  <2>2. \A i \in 1..l : SubSeq(s, 1, l)[i] = s[i]
    BY <1>1, <1>2, SubSeqProperties, LenProperties
  <2> QED
    BY <1>3, <2>1, <2>2 DEF Upto
<1> HIDE DEF t
<1>5. rest = {}
  <2> SUFFICES ASSUME NEW i \in rest PROVE FALSE
    OBVIOUS
  <2>1. i \in 1..l /\ l \in i..l /\ l # 0 /\ l \in 1..l
    BY <1>1, <1>2, <1>4
  <2> QED
    BY <1>2, <1>4, <2>1
<1>6. Cardinality(rest) = 0
  BY <1>5, FS_EmptySet
<1>7. TrimEnd(t, B) = Upto(t, Len(t) - 0)
  <2>1. TrimEnd(t, B) = Upto(t, Len(t) - Cardinality(rest))
    BY DEF TrimEnd
  <2> QED
    BY <1>6, <2>1
<1>8. Upto(t, Len(t) - 0) = t
  <2>1. Len(t) \in 0..Len(t) /\ Len(t) - 0 = Len(t)
    BY <1>1, <1>2, <1>4
  <2>2. Upto(t, Len(t)) \in Seq(S) /\ Len(Upto(t, Len(t))) = Len(t)
    BY <1>4, <2>1, UptoProperties
  <2>3. \A i \in 1..Len(t) : Upto(t, Len(t))[i] = t[i]
    BY <1>4, <2>1, SubSeqProperties, LenProperties DEF Upto
  <2> QED
    BY <1>4, <2>1, <2>2, <2>3, SeqEqual
<1> QED
  BY <1>7, <1>8 DEF t

(* _parse_headers, field by field.                                         *)
LEMMA ParseHeadersEquations ==
  /\ ParseHeaders(<<>>) = <<>>
  /\ \A s \in Seq(HeaderField) :
       /\ ParseHeaders(s) \in FoundHeaders
       /\ \A field \in HeaderField :
            ParseHeaders(Append(s, field)) = Stored(ParseHeaders(s), field)
<1> DEFINE act == [p \in FoundHeaders \X HeaderField |-> Stored(p[1], p[2])]
<1>1. <<>> \in FoundHeaders
  <2>1. <<>> \in [{} -> Seq(Byte)] /\ {} \in SUBSET Seq(Byte)
    OBVIOUS
  <2> QED
    BY <2>1, Zenon DEF FoundHeaders
<1>2. /\ act \in [FoundHeaders \X HeaderField -> FoundHeaders]
      /\ \A found \in FoundHeaders, field \in HeaderField :
           act[<<found, field>>] = Stored(found, field)
  <2>1. \A p \in FoundHeaders \X HeaderField : Stored(p[1], p[2]) \in FoundHeaders
    <3>1. \A p \in FoundHeaders \X HeaderField : p[1] \in FoundHeaders /\ p[2] \in HeaderField
      OBVIOUS
    <3> QED
      BY <3>1, StoredType
  <2> QED
    BY <2>1
<1> HIDE DEF act
<1>3. PICK F : IsFold(F, HeaderField, FoundHeaders, <<>>, act)
  BY <1>1, <1>2, FoldExists
<1>4. /\ F[<<>>] = <<>>
      /\ \A s \in Seq(HeaderField) : F[s] \in FoundHeaders
      /\ \A s \in Seq(HeaderField), field \in HeaderField :
           F[Append(s, field)] = act[<<F[s], field>>]
  BY <1>3 DEF IsFold
<1>5. ASSUME NEW s \in Seq(HeaderField) PROVE ParseHeaders(s) = F[s]
  <2> DEFINE n == Len(s)
             Recursion(f) == f = [i \in 0..n |-> IF i = 0 THEN <<>> ELSE Stored(f[i - 1], s[i])]
             found == CHOOSE f : Recursion(f)
             g == [i \in 0..n |-> F[Upto(s, i)]]
  <2>1. n \in Nat /\ \A i \in 1..n : s[i] \in HeaderField
    BY LenProperties
  <2>2. \A i \in 0..n : Upto(s, i) \in Seq(HeaderField)
    BY <2>1, UptoProperties
  <2>3. Upto(s, 0) = <<>> /\ Upto(s, n) = s
    <3>1. Len(Upto(s, 0)) = 0 /\ 0 \in 0..n /\ n \in 0..n
      BY <2>1, UptoProperties
    <3>2. Len(Upto(s, n)) = n /\ \A i \in 1..n : Upto(s, n)[i] = s[i]
      BY <2>1, <3>1, UptoProperties, SubSeqProperties DEF Upto
    <3> QED
      BY <2>2, <3>1, <3>2, EmptySeq, SeqEqual
  <2>4. ASSUME NEW i \in 1..n PROVE g[i] = Stored(g[i - 1], s[i]) /\ g[i - 1] \in FoundHeaders
    <3>1. i - 1 \in 0..n /\ i \in 0..n /\ i - 1 \in 0..Len(s)
      BY <2>1
    <3> DEFINE u == Upto(s, i - 1)
               x == Append(u, s[i])
    <3>2. /\ u \in Seq(HeaderField) /\ Len(u) = i - 1 /\ s[i] \in HeaderField
          /\ \A j \in 1..(i - 1) : u[j] = s[j]
      BY <2>1, <3>1, UptoProperties, SubSeqProperties DEF Upto
    <3> HIDE DEF u
    <3>3. /\ x \in Seq(HeaderField) /\ Len(x) = i /\ x[i] = s[i]
          /\ \A j \in 1..(i - 1) : x[j] = s[j]
      BY <3>1, <3>2, AppendProperties
    <3>4. /\ Upto(s, i) \in Seq(HeaderField) /\ Len(Upto(s, i)) = i
          /\ \A j \in 1..i : Upto(s, i)[j] = s[j]
      BY <2>1, <3>1, UptoProperties, SubSeqProperties DEF Upto
    <3>5. Upto(s, i) = x
      <4> HIDE DEF x
      <4>1. \A j \in 1..i : j \in 1..(i - 1) \/ j = i
        BY <3>1
      <4>2. \A j \in 1..i : Upto(s, i)[j] = x[j]
        BY <3>3, <3>4, <4>1
      <4> QED
        BY <3>3, <3>4, <4>2, SeqEqual
    <3>6. F[x] = act[<<F[u], s[i]>>] /\ F[u] \in FoundHeaders
      BY <1>4, <3>2
    <3> QED
      BY <1>2, <3>1, <3>2, <3>5, <3>6 DEF u
  <2>5. g[0] = <<>>
    BY <1>4, <2>1, <2>3
  <2>6. g = [i \in 0..n |-> g[i]] /\ \A i \in 0..n : i # 0 => i \in 1..n
    BY <2>1
  <2>7. g[n] = F[s]
    BY <2>1, <2>3
  <2> HIDE DEF g
  <2>8. Recursion(g)
    BY <2>4, <2>5, <2>6
  <2>9. Recursion(found)
    BY <2>8
  <2>10. ParseHeaders(s) = found[n]
    BY DEF ParseHeaders
  <2> HIDE DEF found
  <2>11. found[0] = <<>>
    BY <2>1, <2>9
  <2>12. ASSUME NEW i \in Nat, i + 1 <= n PROVE found[i + 1] = Stored(found[i], s[i + 1])
    <3>1. i + 1 \in 0..n /\ i + 1 # 0 /\ (i + 1) - 1 = i
      BY <2>1, <2>12
    <3>2. found[i + 1] = Stored(found[(i + 1) - 1], s[i + 1])
      BY <2>9, <3>1
    <3> QED
      BY <3>1, <3>2
  <2> HIDE DEF Recursion
  <2> DEFINE Same == {i \in Nat : i <= n => found[i] = g[i]}
  <2>13. Same \in SUBSET Nat /\ 0 \in Same
    BY <2>5, <2>11
  <2>14. ASSUME NEW i \in Same PROVE i + 1 \in Same
    <3>1. i \in Nat /\ i + 1 \in Nat /\ (i <= n => found[i] = g[i])
      OBVIOUS
    <3>2. ASSUME i + 1 <= n PROVE found[i + 1] = g[i + 1]
      <4>1. i <= n /\ i + 1 \in 1..n /\ (i + 1) - 1 = i
        BY <2>1, <3>1, <3>2
      <4>2. g[i + 1] = Stored(g[(i + 1) - 1], s[i + 1])
        BY <2>4, <4>1
      <4> QED
        BY <2>12, <3>1, <3>2, <4>1, <4>2
    <3> QED
      BY <3>1, <3>2
  <2> HIDE DEF Same
  <2>15. Same = Nat
    BY <2>13, <2>14, EveryNatural
  <2> USE DEF Same
  <2>16. found[n] = g[n]
    BY <2>1, <2>15
  <2> QED
    BY <2>7, <2>10, <2>16
<1>6. <<>> \in Seq(HeaderField) /\ \A s \in Seq(HeaderField), field \in HeaderField :
        Append(s, field) \in Seq(HeaderField)
  BY AppendProperties
<1>7. ParseHeaders(<<>>) = <<>>
  <2>1. ParseHeaders(<<>>) = F[<<>>]
    BY <1>5, <1>6
  <2> QED
    BY <1>4, <2>1
<1>8. ASSUME NEW s \in Seq(HeaderField) PROVE ParseHeaders(s) \in FoundHeaders
  BY <1>4, <1>5
<1>9. ASSUME NEW s \in Seq(HeaderField), NEW field \in HeaderField
      PROVE  ParseHeaders(Append(s, field)) = Stored(ParseHeaders(s), field)
  <2>1. ParseHeaders(Append(s, field)) = F[Append(s, field)]
    BY <1>5, <1>6
  <2>2. F[Append(s, field)] = act[<<F[s], field>>] /\ F[s] \in FoundHeaders
    BY <1>4
  <2>3. act[<<F[s], field>>] = Stored(F[s], field)
    BY <1>2, <2>2
  <2> QED
    BY <1>5, <2>1, <2>2, <2>3
<1> QED
  BY <1>7, <1>8, <1>9

(* What the adapter finds of a name is the value of the last field of that *)
(* name that can be decoded: the parser has trimmed the names.             *)
LEMMA LastValueIsFound ==
  ASSUME NEW lines \in Seq(HeaderField), NEW name \in Seq(Byte),
         \A i \in 1..Len(lines) : TrimEnd(lines[i].name, {SP}) = lines[i].name
  PROVE  Get(ParseHeaders(lines), name) = LastValue(lines, name)
<1> DEFINE Trimmed(s) == \A i \in 1..Len(s) : TrimEnd(s[i].name, {SP}) = s[i].name
           usable(s) == {i \in DOMAIN s : Decodable(s[i]) /\ s[i].name = name}
           T == {s \in Seq(HeaderField) :
                   Trimmed(s) => Get(ParseHeaders(s), name) = LastValue(s, name)}
<1>1. <<>> \in T
  <2>1. usable(<<>>) = {}
    OBVIOUS
  <2>2. LastValue(<<>>, name) = <<>>
    BY <2>1 DEF LastValue
  <2>3. Get(<<>>, name) = <<>>
    BY DEF Get
  <2> QED
    BY <2>2, <2>3, ParseHeadersEquations
<1>2. ASSUME NEW s \in T, NEW field \in HeaderField PROVE Append(s, field) \in T
  <2> DEFINE t == Append(s, field)
             n == Len(s)
  <2>1. /\ s \in Seq(HeaderField) /\ n \in Nat /\ DOMAIN s = 1..n
        /\ t \in Seq(HeaderField) /\ Len(t) = n + 1 /\ DOMAIN t = 1..(n + 1)
        /\ \A i \in 1..n : t[i] = s[i]
        /\ t[n + 1] = field
    BY AppendProperties, LenProperties
  <2>2. ParseHeaders(t) = Stored(ParseHeaders(s), field) /\ ParseHeaders(s) \in FoundHeaders
    BY <2>1, ParseHeadersEquations
  <2> HIDE DEF t
  <2> SUFFICES ASSUME Trimmed(t) PROVE Get(ParseHeaders(t), name) = LastValue(t, name)
    BY <2>1 DEF t
  <2>3. TrimEnd(field.name, {SP}) = field.name
    <3>1. n + 1 \in 1..Len(t)
      BY <2>1
    <3> QED
      BY <2>1, <3>1
  <2>4. Get(ParseHeaders(s), name) = LastValue(s, name)
    <3>1. Trimmed(s)
      <4>1. \A i \in 1..n : i \in 1..Len(t)
        BY <2>1
      <4> QED
        BY <2>1, <4>1
    <3> QED
      BY <3>1
  <2>5. Get(ParseHeaders(t), name)
          = IF Decodable(field) /\ name = field.name THEN field.value
            ELSE Get(ParseHeaders(s), name)
    <3> DEFINE found == ParseHeaders(s)
    <3>1. found \in FoundHeaders
      BY <2>2
    <3> HIDE DEF found
    <3>2. /\ ~Decodable(field) => Stored(found, field) = found
          /\ Decodable(field) => Get(Stored(found, field), name)
               = IF name = TrimEnd(field.name, {SP}) THEN field.value ELSE Get(found, name)
      BY <3>1, StoredType
    <3> QED
      BY <2>2, <2>3, <3>2 DEF found
  <2>6. usable(t) = IF Decodable(field) /\ name = field.name THEN usable(s) \cup {n + 1}
                    ELSE usable(s)
    <3>1. \A i \in 1..(n + 1) : i \in 1..n \/ i = n + 1
      BY <2>1
    <3>2. \A i \in 1..n : i \in 1..(n + 1)
      BY <2>1
    <3>3. n + 1 \in 1..(n + 1) /\ n + 1 \notin 1..n
      BY <2>1
    <3> QED
      BY <2>1, <3>1, <3>2, <3>3
  <2>7. usable(s) \in SUBSET (1..n)
    BY <2>1
  <2> HIDE DEF usable, Trimmed, T
  <2>8. CASE Decodable(field) /\ name = field.name
    <3>1. Max(usable(t)) = n + 1
      <4>1. n + 1 \in usable(t) /\ \A i \in usable(t) : i \in 1..(n + 1)
        BY <2>1, <2>6, <2>7, <2>8
      <4>2. \A x \in usable(t) : (\A y \in usable(t) : x >= y) <=> x = n + 1
        BY <2>1, <4>1
      <4> QED
        BY <4>1, <4>2 DEF Max
    <3>2. LastValue(t, name) = field.value
      BY <2>1, <2>6, <2>8, <3>1 DEF LastValue, usable
    <3> QED
      BY <2>5, <2>8, <3>2
  <2>9. CASE ~(Decodable(field) /\ name = field.name)
    <3>1. usable(t) = usable(s)
      BY <2>6, <2>9
    <3>2. CASE usable(s) = {}
      <4>1. LastValue(t, name) = <<>> /\ LastValue(s, name) = <<>>
        BY <3>1, <3>2 DEF LastValue, usable
      <4> QED
        BY <2>4, <2>5, <2>9, <4>1
    <3>3. CASE usable(s) # {}
      <4>1. PICK m \in usable(s) : \A k \in usable(s) : k <= m
        <5>1. usable(s) \in SUBSET (0..n)
          BY <2>1, <2>7
        <5> QED
          BY <2>1, <3>3, <5>1, GreatestElement
      <4>2. \A k \in usable(s) : m >= k
        BY <2>1, <2>7, <4>1
      <4>3. Max(usable(s)) \in usable(s)
        BY <4>1, <4>2 DEF Max
      <4>4. t[Max(usable(s))] = s[Max(usable(s))]
        BY <2>1, <2>7, <4>3
      <4>5. LastValue(t, name) = LastValue(s, name)
        BY <3>1, <3>3, <4>4 DEF LastValue, usable
      <4> QED
        BY <2>4, <2>5, <2>9, <4>5
    <3> QED
      BY <3>2, <3>3
  <2> QED
    BY <2>8, <2>9
<1>3. T \in SUBSET Seq(HeaderField)
  OBVIOUS
<1> HIDE DEF T
<1>4. T = Seq(HeaderField)
  BY <1>1, <1>2, <1>3, EverySequence
<1> QED
  BY <1>4 DEF T

(* The names of the fields of a segment are trimmed.                       *)
TrimmedNames(lines) == \A i \in 1..Len(lines) : TrimEnd(lines[i].name, {SP}) = lines[i].name

LEMMA FieldIsTrimmed ==
  ASSUME NEW segment \in Seq(Byte), NEW n \in Nat
  PROVE  TrimmedNames(FieldEndingAt(segment, n))
<1>1. TrimmedNames(<<>>)
  BY DEF TrimmedNames
<1>2. ASSUME EndsLine(segment, n) PROVE TrimmedNames(FieldEndingAt(segment, n))
  <2> DEFINE line == Slice(segment, LineStart(segment, n), n - 2)
             fields == {Field(line, separator) : separator \in Find(line, <<COLON>>)}
  <2>1. n \in 2..Len(segment) /\ n >= 2 /\ n - 2 \in Nat /\ n - 2 <= Len(segment)
    BY <1>2, LenProperties DEF EndsLine
  <2>2. LineStart(segment, n) \in 0..(n - 2)
    BY <2>1, LineStartProperties
  <2>3. line \in Seq(Byte)
    <3> DEFINE start == LineStart(segment, n)
               end == n - 2
    <3>1. start \in Nat /\ end \in Nat /\ start <= end /\ end <= Len(segment)
      BY <2>1, <2>2
    <3> HIDE DEF start, end
    <3>2. Slice(segment, start, end) \in Seq(Byte)
      BY <3>1, SliceProperties
    <3> QED
      BY <3>2 DEF start, end
  <2>4. FieldEndingAt(segment, n) = FieldIn(line)
    BY <1>2 DEF FieldEndingAt
  <2> HIDE DEF line
  <2>5. ASSUME NEW separator \in Find(line, <<COLON>>)
        PROVE  TrimEnd(Field(line, separator).name, {SP}) = Field(line, separator).name
    <3>1. separator \in 0..Len(line)
      <4>1. <<COLON>> \in Seq(Byte) /\ Len(<<COLON>>) = 1
        BY ByteAssumption DEF SpecialBytes
      <4>2. separator \in Nat /\ separator + 1 <= Len(line) /\ Len(line) \in Nat
        BY <2>3, <4>1, FindProperties, LenProperties
      <4> QED
        BY <4>2
    <3>2. Upto(line, separator) \in Seq(Byte)
      BY <2>3, <3>1, UptoProperties
    <3> QED
      BY <3>2, TrimEndTwice DEF Field
  <2>6. fields # {} => (CHOOSE field \in fields : TRUE) \in fields
    OBVIOUS
  <2>7. \A field \in fields : TrimEnd(field.name, {SP}) = field.name
    BY <2>5
  <2>8. FieldIn(line) = IF fields = {} THEN <<>> ELSE <<CHOOSE field \in fields : TRUE>>
    BY DEF FieldIn
  <2> HIDE DEF fields
  <2> DEFINE chosen == CHOOSE field \in fields : TRUE
  <2>9. fields # {} => TrimmedNames(<<chosen>>)
    <3>1. fields # {} => TrimEnd(chosen.name, {SP}) = chosen.name
      BY <2>6, <2>7
    <3> HIDE DEF chosen
    <3>2. Len(<<chosen>>) = 1 /\ <<chosen>>[1] = chosen
      OBVIOUS
    <3>3. \A i \in 1..1 : i = 1
      OBVIOUS
    <3> QED
      BY <3>1, <3>2, <3>3 DEF TrimmedNames
  <2> QED
    BY <1>1, <2>4, <2>8, <2>9
<1> QED
  BY <1>1, <1>2 DEF FieldEndingAt

LEMMA FieldsAreTrimmed ==
  ASSUME NEW segment \in Seq(Byte), NEW n \in Nat
  PROVE  TrimmedNames(FieldsWithin(segment, n))
<1> DEFINE All == {i \in Nat : TrimmedNames(FieldsWithin(segment, i))}
<1>1. 0 \in All
  BY FieldsWithinEquations DEF TrimmedNames
<1>2. ASSUME NEW i \in All PROVE i + 1 \in All
  <2> DEFINE s == FieldsWithin(segment, i)
             t == FieldEndingAt(segment, i + 1)
  <2>1. /\ i \in Nat /\ i + 1 \in Nat /\ TrimmedNames(s)
        /\ s \in Seq(HeaderField) /\ t \in Seq(HeaderField)
    <3>1. i \in Nat /\ i + 1 \in Nat /\ TrimmedNames(s)
      OBVIOUS
    <3>2. s \in Headers /\ t \in Headers
      BY <3>1, FieldsWithinEquations, FieldEndingType
    <3> QED
      BY <3>1, <3>2 DEF Headers, HeaderField
  <2>2. TrimmedNames(t)
    BY <2>1, FieldIsTrimmed
  <2>3. FieldsWithin(segment, i + 1) = s \o t
    BY <2>1, FieldsWithinEquations
  <2> HIDE DEF s, t
  <2>4. /\ Len(s) \in Nat /\ Len(t) \in Nat /\ Len(s \o t) = Len(s) + Len(t)
        /\ \A j \in 1..(Len(s) + Len(t)) :
             (s \o t)[j] = IF j <= Len(s) THEN s[j] ELSE t[j - Len(s)]
    BY <2>1, ConcatProperties, LenProperties
  <2>5. ASSUME NEW j \in 1..(Len(s) + Len(t))
        PROVE  TrimEnd((s \o t)[j].name, {SP}) = (s \o t)[j].name
    <3>1. CASE j <= Len(s)
      <4>1. j \in 1..Len(s) /\ (s \o t)[j] = s[j]
        BY <2>4, <3>1
      <4> QED
        BY <2>1, <4>1 DEF TrimmedNames
    <3>2. CASE ~(j <= Len(s))
      <4>1. j - Len(s) \in 1..Len(t) /\ (s \o t)[j] = t[j - Len(s)]
        BY <2>4, <3>2
      <4> QED
        BY <2>2, <4>1 DEF TrimmedNames
    <3> QED
      BY <3>1, <3>2
  <2>6. TrimmedNames(s \o t)
    BY <2>4, <2>5 DEF TrimmedNames
  <2> QED
    BY <2>1, <2>3, <2>6
<1>3. All \in SUBSET Nat
  OBVIOUS
<1> HIDE DEF All
<1>4. All = Nat
  BY <1>1, <1>2, <1>3, EveryNatural
<1> QED
  BY <1>4 DEF All

(* The header block of a segment, in the terms of its reader.              *)
LEMMA PartOfSegment ==
  ASSUME request \in Seq(Byte), NEW k \in 1..Count(request), HeaderEnds(PieceOf(request, k)) # {}
  PROVE  LET fields == BeginOf(PieceOf(request, k)).headers
         IN  /\ fields \in Headers
             /\ Has(DispositionOf(k), NAME) => NameLength(k) \in Nat
             /\ PartOf(fields).name = IF Has(DispositionOf(k), NAME) THEN {NameLength(k)} ELSE {}
             /\ PartOf(fields).filename = "absent" <=> ~IsFile(k)
             /\ PartOf(fields).base64 = IsBase64(k)
<1> DEFINE piece == PieceOf(request, k)
           n == BlockLength(piece) - 2
           fields == FieldsWithin(piece, n)
<1>1. piece \in Seq(Byte) /\ n \in Nat
  BY PieceProperties, BeginOfType
<1>2. fields \in Seq(HeaderField) /\ fields \in Headers /\ TrimmedNames(fields)
  BY <1>1, FieldsWithinEquations, FieldsAreTrimmed DEF Headers, HeaderField
<1>3. Segments[k] = piece
  BY SplitIsPieces DEF Segments
<1>4. Lines(k) = fields /\ BeginOf(piece).headers = fields
  BY <1>3 DEF Lines, BeginOf, BeginEvent
<1> HIDE DEF fields
<1>5. <<DISPOSITION>> \in Seq(Byte) /\ <<ENCODING>> \in Seq(Byte)
  BY PartHeadersAssumption
<1> DEFINE disposition == Get(ParseHeaders(fields), <<DISPOSITION>>)
           encoding == Get(ParseHeaders(fields), <<ENCODING>>)
<1>6. disposition = DispositionOf(k) /\ (encoding = <<BASE64>> <=> IsBase64(k))
  <2>1. /\ disposition = LastValue(fields, <<DISPOSITION>>)
        /\ encoding = LastValue(fields, <<ENCODING>>)
    BY <1>2, <1>5, LastValueIsFound DEF TrimmedNames
  <2> QED
    BY <1>4, <2>1 DEF DispositionOf, IsBase64
<1>7. disposition \in Seq(Byte)
  <2>1. ParseHeaders(fields) \in FoundHeaders
    BY <1>2, ParseHeadersEquations
  <2>2. PICK names \in SUBSET Seq(Byte) : ParseHeaders(fields) \in [names -> Seq(Byte)]
    BY <2>1 DEF FoundHeaders
  <2>3. <<>> \in Seq(Byte)
    OBVIOUS
  <2> QED
    BY <2>2, <2>3 DEF Get
<1> DEFINE named == {i \in DOMAIN disposition : disposition[i] = NAME}
<1>8. PartOf(fields) = [name |-> IF Cardinality(named) = 0 THEN {} ELSE {Cardinality(named) - 1},
                        filename |-> CASE ~Has(disposition, FILENAME) -> "absent"
                          [] Has(disposition, FILENAME) /\ Has(disposition, UNUSABLE) -> "unusable"
                          [] OTHER -> "usable",
                        base64 |-> encoding = <<BASE64>>]
  BY DEF PartOf
<1> HIDE DEF disposition, encoding
<1>9. /\ Cardinality(named) \in Nat
      /\ Cardinality(named) # 0 <=> Has(disposition, NAME)
  <2>1. DOMAIN disposition = 1..Len(disposition) /\ Len(disposition) \in Nat
    BY <1>7, LenProperties
  <2>2. IsFiniteSet(named)
    <3>1. IsFiniteSet(1..Len(disposition)) /\ named \in SUBSET (1..Len(disposition))
      BY <2>1, FS_Interval
    <3> QED
      BY <3>1, FS_Subset
  <2>3. named # {} <=> Has(disposition, NAME)
    BY DEF Has
  <2> HIDE DEF named
  <2> QED
    BY <2>2, <2>3, FS_CardinalityType, FS_EmptySet
<1>10. NameLength(k) = Cardinality(named) - 1
  BY <1>6 DEF NameLength
<1> HIDE DEF named
<1>11. PartOf(fields).filename = "absent" <=> ~Has(disposition, FILENAME)
  BY <1>8
<1>12. PartOf(fields).name = IF Has(disposition, NAME) THEN {Cardinality(named) - 1} ELSE {}
  BY <1>8, <1>9
<1>13. PartOf(fields).base64 = IsBase64(k)
  <2>1. PartOf(fields).base64 = (encoding = <<BASE64>>)
    BY <1>8
  <2>2. IsBase64(k) \in BOOLEAN
    BY DEF IsBase64
  <2> QED
    BY <1>6, <2>1, <2>2
<1>14. PartOf(fields).filename = "absent" <=> ~IsFile(k)
  BY <1>6, <1>11 DEF IsFile
<1> HIDE DEF piece
<1> QED
  BY <1>2, <1>4, <1>6, <1>9, <1>10, <1>12, <1>13, <1>14 DEF piece

-----------------------------------------------------------------------------
(* The named fields that a stream of events tells, with their lengths: a   *)
(* field is open from its Begin until what follows its data.               *)
IsFieldBlock(fields) == PartOf(fields).filename = "absent" /\ PartOf(fields).name # {}

Entry == [headers : Headers, size : Nat]
Gathering == [closed : Seq(Entry), open : BOOLEAN, headers : Headers, size : Nat]

Shut(g) ==
  IF g.open THEN Append(g.closed, [headers |-> g.headers, size |-> g.size]) ELSE g.closed
Larger(g, n) ==
  [closed |-> g.closed, open |-> g.open, headers |-> g.headers, size |-> g.size + n]

Gather(g, e) ==
  IF e.kind = "Data" THEN Larger(g, Len(e.data))
  ELSE IF e.kind = "Begin"
  THEN [closed |-> Shut(g), open |-> IsFieldBlock(e.headers), headers |-> e.headers, size |-> 0]
  ELSE [closed |-> Shut(g), open |-> FALSE, headers |-> g.headers, size |-> g.size]

Nothing == [closed |-> <<>>, open |-> FALSE, headers |-> <<>>, size |-> 0]
Gathers == [p \in Gathering \X Event |-> Gather(p[1], p[2])]
Gathered == CHOOSE F : IsFold(F, Event, Gathering, Nothing, Gathers)

LEMMA GatherType ==
  ASSUME NEW g \in Gathering, NEW e \in Event
  PROVE  /\ Gather(g, e) \in Gathering
         /\ Shut(g) \in Seq(Entry)
         /\ \A n \in Nat : Larger(g, n) \in Gathering
         /\ Larger(g, 0) = g
<1>1. /\ g.closed \in Seq(Entry) /\ g.open \in BOOLEAN /\ g.headers \in Headers /\ g.size \in Nat
      /\ g = [closed |-> g.closed, open |-> g.open, headers |-> g.headers, size |-> g.size]
  BY DEF Gathering
<1>2. Shut(g) \in Seq(Entry)
  <2>1. [headers |-> g.headers, size |-> g.size] \in Entry
    BY <1>1 DEF Entry
  <2> QED
    BY <1>1, <2>1, AppendProperties DEF Shut
<1>3. \A n \in Nat : Larger(g, n) \in Gathering
  BY <1>1 DEF Larger, Gathering
<1>4. Larger(g, 0) = g
  <2>1. g.size + 0 = g.size
    BY <1>1
  <2> QED
    BY <1>1, <2>1 DEF Larger
<1>5. Gather(g, e) \in Gathering
  <2>1. CASE e.kind = "Data"
    <3>1. Len(e.data) \in Nat
      BY <2>1, LenProperties DEF Event
    <3> QED
      BY <1>3, <2>1, <3>1 DEF Gather
  <2>2. CASE e.kind = "Begin"
    <3>1. e.headers \in Headers /\ IsFieldBlock(e.headers) \in BOOLEAN
      BY <2>2 DEF Event, IsFieldBlock
    <3> QED
      BY <1>2, <2>2, <3>1 DEF Gather, Gathering
  <2>3. CASE e.kind \notin {"Data", "Begin"}
    BY <1>1, <1>2, <2>3 DEF Gather, Gathering
  <2> QED
    BY <2>1, <2>2, <2>3
<1> QED
  BY <1>2, <1>3, <1>4, <1>5

LEMMA GatheredEquations ==
  /\ Gathered[<<>>] = Nothing /\ Nothing \in Gathering
  /\ \A s \in Seq(Event) :
       /\ Gathered[s] \in Gathering
       /\ \A e \in Event : Gathered[Append(s, e)] = Gather(Gathered[s], e)
<1>1. Nothing \in Gathering
  BY DEF Nothing, Gathering, Headers
<1>2. /\ Gathers \in [Gathering \X Event -> Gathering]
      /\ \A g \in Gathering, e \in Event : Gathers[<<g, e>>] = Gather(g, e)
  <2>1. \A p \in Gathering \X Event : Gather(p[1], p[2]) \in Gathering
    <3>1. \A p \in Gathering \X Event : p[1] \in Gathering /\ p[2] \in Event
      OBVIOUS
    <3> QED
      BY <3>1, GatherType
  <2> QED
    BY <2>1 DEF Gathers
<1>3. IsFold(Gathered, Event, Gathering, Nothing, Gathers)
  <2>1. \E F : IsFold(F, Event, Gathering, Nothing, Gathers)
    BY <1>1, <1>2, FoldExists
  <2> QED
    BY <2>1 DEF Gathered
<1>4. /\ Gathered[<<>>] = Nothing
      /\ \A s \in Seq(Event) : Gathered[s] \in Gathering
      /\ \A s \in Seq(Event), e \in Event : Gathered[Append(s, e)] = Gathers[<<Gathered[s], e>>]
  BY <1>3 DEF IsFold
<1> QED
  BY <1>1, <1>2, <1>4

(* Data, after anything.                                                   *)
LEMMA GatheredMore ==
  ASSUME NEW s \in Seq(Event)
  PROVE  /\ \A e \in Event : /\ s \o <<e>> \in Seq(Event)
                             /\ Gathered[s \o <<e>>] = Gather(Gathered[s], e)
         /\ \A x \in Seq(Byte) : /\ s \o DataOf(x) \in Seq(Event)
                                 /\ Gathered[s \o DataOf(x)] = Larger(Gathered[s], Len(x))
<1>1. ASSUME NEW e \in Event
      PROVE  s \o <<e>> \in Seq(Event) /\ Gathered[s \o <<e>>] = Gather(Gathered[s], e)
  <2>1. s \o <<e>> = Append(s, e) /\ Append(s, e) \in Seq(Event)
    BY AppendIsConcat, AppendProperties
  <2> QED
    BY <2>1, GatheredEquations
<1>2. ASSUME NEW x \in Seq(Byte)
      PROVE  /\ s \o DataOf(x) \in Seq(Event)
             /\ Gathered[s \o DataOf(x)] = Larger(Gathered[s], Len(x))
  <2>1. CASE x = <<>>
    <3>1. s \o DataOf(x) = s /\ Len(x) = 0
      BY <2>1, ConcatEmptySeq DEF DataOf
    <3>2. RawEvent \in Event
      BY EventTypes
    <3> QED
      BY <3>1, <3>2, GatherType, GatheredEquations
  <2>2. CASE x # <<>>
    <3>1. /\ DataOf(x) = <<DataEvent(x)>> /\ DataEvent(x) \in Event
          /\ DataEvent(x).kind = "Data" /\ DataEvent(x).data = x
      BY <2>2, EventTypes DEF DataOf, DataEvent
    <3> QED
      BY <1>1, <3>1 DEF Gather
  <2> QED
    BY <2>1, <2>2
<1> QED
  BY <1>1, <1>2

(* Joining adjacent Data changes no field.                                 *)
LEMMA GatheredAppended ==
  ASSUME NEW s \in Seq(Event), NEW e \in Event
  PROVE  Gathered[AppendEvent(s, e)] = Gather(Gathered[s], e)
<1> DEFINE N == Len(s)
           joins == N > 0 /\ e.kind = "Data" /\ s[N].kind = "Data"
<1>1. N \in Nat
  BY LenProperties
<1>2. CASE ~joins
  <2>1. AppendEvent(s, e) = Append(s, e)
    BY <1>2, AppendEventCases
  <2> QED
    BY <2>1, GatheredEquations
<1>3. CASE joins
  <2>1. N - 1 \in Nat /\ N = (N - 1) + 1
    BY <1>1, <1>3
  <2>2. PICK u \in Seq(Event), d \in Event : s = Append(u, d) /\ Len(u) = N - 1
    BY <2>1, LastEvent
  <2>3. s[N] = d /\ d.kind = "Data"
    BY <1>3, <2>1, <2>2, AppendProperties
  <2>4. d.data \in Seq(Byte) /\ e.data \in Seq(Byte)
    <3>1. ASSUME NEW b \in Event, b.kind = "Data" PROVE b.data \in Seq(Byte)
      BY <3>1 DEF Event
    <3> QED
      BY <1>3, <2>3, <3>1
  <2> DEFINE both == d.data \o e.data
             x == DataEvent(both)
             t == Append(u, x)
  <2>5. both \in Seq(Byte) /\ Len(both) = Len(d.data) + Len(e.data)
    BY <2>4, ConcatProperties
  <2>6. Len(d.data) \in Nat /\ Len(e.data) \in Nat
    BY <2>4, LenProperties
  <2>7. AppendEvent(s, e) = [s EXCEPT ![N] = x] /\ AppendEvent(s, e) \in Seq(Event)
    BY <1>3, <2>3, AppendEventCases
  <2> HIDE DEF both
  <2>8. x \in Event /\ x.kind = "Data" /\ x.data = both
    BY <2>5, EventTypes DEF DataEvent
  <2> HIDE DEF x
  <2>9. [s EXCEPT ![N] = x] = t
    <3> DEFINE v == [s EXCEPT ![N] = x]
    <3>1. v \in Seq(Event) /\ Len(v) = N /\ \A i \in 1..N : v[i] = IF i = N THEN x ELSE s[i]
      <4>1. N \in 1..N
        BY <1>1, <1>3
      <4> QED
        BY <2>8, <4>1, ExceptSeq
    <3>2. /\ t \in Seq(Event) /\ Len(t) = N /\ t[N] = x
          /\ \A i \in 1..(N - 1) : t[i] = u[i] /\ s[i] = u[i]
      <4>1. /\ t \in Seq(Event) /\ Len(t) = Len(u) + 1 /\ t[Len(u) + 1] = x
            /\ \A i \in 1..Len(u) : t[i] = u[i]
        BY <2>2, <2>8, AppendProperties
      <4>2. \A i \in 1..Len(u) : s[i] = u[i]
        BY <2>2, AppendProperties
      <4> QED
        BY <2>1, <2>2, <4>1, <4>2
    <3> HIDE DEF v, t
    <3>3. ASSUME NEW i \in 1..N PROVE v[i] = t[i]
      <4>1. i = N \/ i \in 1..(N - 1)
        BY <1>1
      <4> QED
        BY <1>1, <3>1, <3>2, <4>1
    <3>4. v = t
      BY <3>1, <3>2, <3>3, SeqEqual
    <3> QED
      BY <3>4 DEF v
  <2> DEFINE g == Gathered[u]
  <2>10. g \in Gathering /\ Gathered[t] = Gather(g, x) /\ Gathered[s] = Gather(g, d)
    BY <2>2, <2>8, GatheredEquations
  <2> HIDE DEF t, g
  <2>11. Gather(g, x) = Larger(g, Len(both)) /\ Gather(g, d) = Larger(g, Len(d.data))
    BY <2>3, <2>8 DEF Gather
  <2>12. Gather(Larger(g, Len(d.data)), e) = Larger(Larger(g, Len(d.data)), Len(e.data))
    BY <1>3 DEF Gather
  <2>13. ASSUME NEW a \in Nat, NEW b \in Nat PROVE Larger(Larger(g, a), b) = Larger(g, a + b)
    <3>1. g.size \in Nat
      BY <2>10 DEF Gathering
    <3>2. (g.size + a) + b = g.size + (a + b)
      BY <3>1
    <3> QED
      BY <3>2 DEF Larger
  <2> QED
    BY <2>5, <2>6, <2>7, <2>9, <2>10, <2>11, <2>12, <2>13
<1> QED
  BY <1>2, <1>3

LEMMA GatheredJoined ==
  ASSUME NEW s \in Seq(Event)
  PROVE  Gathered[Joined(s)] = Gathered[s]
<1> DEFINE T == {t \in Seq(Event) : Gathered[Joined(t)] = Gathered[t]}
<1>1. T \in SUBSET Seq(Event) /\ <<>> \in T
  BY JoinedEquations
<1>2. ASSUME NEW t \in T, NEW e \in Event PROVE Append(t, e) \in T
  <2>1. t \in Seq(Event) /\ Gathered[Joined(t)] = Gathered[t] /\ Append(t, e) \in Seq(Event)
    BY AppendProperties
  <2>2. Joined(Append(t, e)) = AppendEvent(Joined(t), e) /\ Joined(t) \in Seq(Event)
    BY <2>1, JoinedEquations
  <2>3. Gathered[AppendEvent(Joined(t), e)] = Gather(Gathered[Joined(t)], e)
    BY <2>2, GatheredAppended
  <2> QED
    BY <2>1, <2>2, <2>3, GatheredEquations
<1> HIDE DEF T
<1>3. T = Seq(Event)
  BY <1>1, <1>2, EverySequence
<1> QED
  BY <1>3 DEF T

(* A list has one entry for each member of a set of numbers, in order.     *)
Place(K, i) == Cardinality({j \in K : j <= i})

Listed(q, K, entries) ==
  /\ Len(q) = Cardinality(K)
  /\ \A i \in K : Place(K, i) \in 1..Len(q) /\ q[Place(K, i)] = entries[i]
  /\ \A r \in 1..Len(q) : \E i \in K : Place(K, i) = r

LEMMA NoneListed == \A entries : Listed(<<>>, {}, entries)
<1>1. Cardinality({}) = 0 /\ Len(<<>>) = 0 /\ 1..0 = {}
  BY FS_EmptySet
<1> QED
  BY <1>1 DEF Listed

(* One number more, greater than the others.                               *)
LEMMA ListedOneMore ==
  ASSUME NEW E, NEW q \in Seq(E), NEW x \in E, NEW n \in Nat, NEW K \in SUBSET (1..n),
         NEW b \in 1..n, \A i \in K : i < b,
         NEW entries, Listed(q, K, entries), entries[b] = x
  PROVE  Listed(Append(q, x), K \cup {b}, entries)
<1> DEFINE L == K \cup {b}
           t == Append(q, x)
<1>1. /\ Len(q) \in Nat /\ Len(t) = Len(q) + 1
      /\ \A k \in 1..Len(q) : t[k] = q[k]
      /\ t[Len(q) + 1] = x
  BY AppendProperties, LenProperties
<1>2. IsFiniteSet(K) /\ Cardinality(K) = Len(q) /\ b \notin K
  <2>1. IsFiniteSet(1..n) /\ K \subseteq 1..n
    BY FS_Interval
  <2>2. IsFiniteSet(K)
    BY <2>1, FS_Subset
  <2>3. b \notin K
    OBVIOUS
  <2> QED
    BY <2>2, <2>3 DEF Listed
<1>3. Cardinality(L) = Len(q) + 1
  BY <1>2, FS_AddElement
<1>4. ASSUME NEW i \in K PROVE Place(L, i) = Place(K, i)
  <2>1. {j \in L : j <= i} = {j \in K : j <= i}
    OBVIOUS
  <2> QED
    BY <2>1 DEF Place
<1>5. Place(L, b) = Len(q) + 1
  <2>1. \A j \in L : j \in 1..n /\ j <= b
    OBVIOUS
  <2>2. {j \in L : j <= b} = L
    BY <2>1
  <2> QED
    BY <1>3, <2>2 DEF Place
<1> HIDE DEF t
<1>6. ASSUME NEW i \in L PROVE Place(L, i) \in 1..Len(t) /\ t[Place(L, i)] = entries[i]
  <2>1. CASE i \in K
    <3>1. Place(K, i) \in 1..Len(q) /\ q[Place(K, i)] = entries[i]
      BY <2>1 DEF Listed
    <3>2. Place(L, i) = Place(K, i)
      BY <1>4, <2>1
    <3> QED
      BY <1>1, <3>1, <3>2
  <2>2. CASE i = b
    BY <1>1, <1>5, <2>2
  <2> QED
    BY <2>1, <2>2
<1>7. ASSUME NEW r \in 1..Len(t) PROVE \E i \in L : Place(L, i) = r
  <2>1. CASE r \in 1..Len(q)
    <3>1. PICK i \in K : Place(K, i) = r
      BY <2>1 DEF Listed
    <3>2. Place(L, i) = r /\ i \in L
      BY <1>4, <3>1
    <3> QED
      BY <3>2
  <2>2. CASE r = Len(q) + 1
    <3>1. b \in L /\ Place(L, b) = r
      BY <1>5, <2>2
    <3> QED
      BY <3>1
  <2>3. r \in 1..Len(q) \/ r = Len(q) + 1
    BY <1>1
  <2> HIDE DEF L
  <2> QED
    BY <2>1, <2>2, <2>3
<1> HIDE DEF L
<1> QED
  BY <1>1, <1>3, <1>6, <1>7 DEF Listed, L, t

-----------------------------------------------------------------------------
(* The fields of the message, as its segments mean them.                   *)
FieldsUpto(k) == {j \in Fields : j <= k}
MessageFields ==
  [k \in Fields |-> [headers |-> BeginOf(PieceOf(request, k)).headers, size |-> BodySize(k)]]

LEMMA FieldMeans ==
  ASSUME request \in Seq(Byte)
  PROVE  /\ Count(request) \in Nat /\ Len(Segments) = Count(request)
         /\ Fields \in SUBSET (1..Count(request))
         /\ 1 \notin Fields
         /\ \A k \in 2..Count(request) :
              k \in Fields <=> /\ HasBlock(request, k)
                               /\ IsFieldBlock(BeginOf(PieceOf(request, k)).headers)
<1>1. /\ Len(Segments) = Count(request) /\ Count(request) \in Nat
      /\ \A k \in 1..Count(request) : Segments[k] = PieceOf(request, k)
  BY SplitIsPieces, SegmentBounds DEF Segments
<1>2. PartSegments \in SUBSET (2..Count(request)) /\ Fields \in SUBSET PartSegments
  BY <1>1 DEF PartSegments, Fields
<1>3. Fields \in SUBSET (1..Count(request)) /\ 1 \notin Fields
  BY <1>1, <1>2
<1>4. ASSUME NEW k \in 2..Count(request)
      PROVE  k \in Fields <=> /\ HasBlock(request, k)
                              /\ IsFieldBlock(BeginOf(PieceOf(request, k)).headers)
  <2>0. k \in 1..Count(request)
    BY <1>1
  <2>1. k \in PartSegments <=> HasBlock(request, k)
    BY <1>1, <2>0 DEF PartSegments, HasBlock
  <2>2. ASSUME HasBlock(request, k)
        PROVE  IsFieldBlock(BeginOf(PieceOf(request, k)).headers)
                 <=> ~IsFile(k) /\ Has(DispositionOf(k), NAME)
    <3>1. HeaderEnds(PieceOf(request, k)) # {}
      BY <2>2 DEF HasBlock, IsPart
    <3> QED
      BY <2>0, <3>1, PartOfSegment DEF IsFieldBlock
  <2> QED
    BY <2>1, <2>2 DEF Fields
<1> QED
  BY <1>1, <1>3, <1>4

(* What a segment adds.                                                    *)
LEMMA SegmentGathers ==
  ASSUME request \in Seq(Byte), NEW k \in 2..Count(request), NEW s \in Seq(Event)
  PROVE  LET old == Shut(Gathered[s])
             new == Shut(Gathered[s \o EventsOf(request, k)])
         IN  /\ k \in Fields => /\ new = Append(old, MessageFields[k])
                                /\ MessageFields[k] \in Entry
             /\ k \notin Fields => new = old
<1> DEFINE piece == PieceOf(request, k)
           g == Gathered[s]
           E == EventsOf(request, k)
           block == BeginOf(piece).headers
           t == s \o <<BeginOf(piece)>>
           body == IF k = Count(request) THEN BodyOf(piece) ELSE WithoutLineEnd(BodyOf(piece))
<1>0. /\ Count(request) \in Nat /\ k \in Nat /\ k \in 1..Count(request)
      /\ Len(Segments) = Count(request) /\ Segments[k] = piece
      /\ piece \in Seq(Byte)
  <2>1. Count(request) \in Nat /\ k \in Nat /\ k \in 1..Count(request)
    BY SegmentBounds
  <2> QED
    BY <2>1, SplitIsPieces, PieceProperties DEF Segments
<1>1. g \in Gathering /\ Shut(g) \in Seq(Entry)
  <2>1. g \in Gathering /\ RawEvent \in Event
    BY GatheredEquations, EventTypes
  <2> QED
    BY <2>1, GatherType
<1>2. \A h \in Gathering, e \in Event :
        e.kind \notin {"Begin", "Data"} => Shut(Gather(h, e)) = Shut(h)
  BY DEF Gather, Shut
<1>3. CASE ~HasBlock(request, k)
  <2>1. k \notin Fields
    BY <1>3, FieldMeans
  <2>2. E \in {<<>>, <<RawEvent>>}
    <3>1. ~(k = Count(request) /\ HeaderEnds(piece) # {}) /\ ~IsPart(piece)
      BY <1>3 DEF HasBlock
    <3> HIDE DEF piece
    <3> QED
      BY <1>0, <3>1, SegmentEventsCases DEF piece
  <2>3. s \o <<>> = s
    BY ConcatEmptySeq
  <2>4. Shut(Gathered[s \o <<RawEvent>>]) = Shut(g)
    <3>1. RawEvent \in Event /\ RawEvent.kind \notin {"Begin", "Data"}
      BY EventTypes DEF RawEvent
    <3> QED
      BY <1>1, <1>2, <3>1, GatheredMore
  <2> HIDE DEF g, E
  <2> QED
    BY <2>1, <2>2, <2>3, <2>4 DEF g, E
<1>4. CASE HasBlock(request, k)
  <2>1. HeaderEnds(piece) # {} /\ (k # Count(request) => IsPart(piece))
    BY <1>4 DEF HasBlock, IsPart
  <2>2. /\ BeginOf(piece) \in Event /\ BeginOf(piece).kind = "Begin" /\ body \in Seq(Byte)
        /\ block \in Headers
    <3>1. /\ BeginOf(piece) \in Event /\ BeginOf(piece).kind = "Begin" /\ body \in Seq(Byte)
      BY <1>0, <2>1, BeginOfType
    <3>2. block \in Headers
      BY <3>1 DEF Event
    <3> QED
      BY <3>1, <3>2
  <2>3. k \in Fields <=> IsFieldBlock(block)
    BY <1>4, FieldMeans
  <2>4. k \in Fields => MessageFields[k] = [headers |-> block, size |-> Len(body)]
    BY <1>0 DEF MessageFields, BodySize
  <2>5. \/ k = Count(request) /\ E = <<BeginOf(piece)>> \o DataOf(body)
        \/ k # Count(request) /\ E = <<BeginOf(piece)>> \o DataOf(body) \o <<EndEvent>>
    <3> HIDE DEF piece
    <3> QED
      BY <1>0, <2>1, SegmentEventsCases DEF piece
  <2> HIDE DEF E, block, body, piece
  <2>6. t \in Seq(Event) /\ Gathered[t] = Gather(g, BeginOf(piece))
    BY <2>2, GatheredMore
  <2> DEFINE u == t \o DataOf(body)
  <2>7. u \in Seq(Event) /\ Gathered[u] = Larger(Gathered[t], Len(body))
    BY <2>2, <2>6, GatheredMore
  <2>8. /\ EndEvent \in Event /\ EndEvent.kind \notin {"Begin", "Data"}
        /\ <<EndEvent>> \in Seq(Event) /\ <<BeginOf(piece)>> \in Seq(Event)
        /\ DataOf(body) \in Seq(Event)
    BY <2>2, EventTypes, DataOfType DEF EndEvent
  <2>9. /\ s \o (<<BeginOf(piece)>> \o DataOf(body)) = u
        /\ s \o (<<BeginOf(piece)>> \o DataOf(body) \o <<EndEvent>>) = u \o <<EndEvent>>
    <3>1. s \o (<<BeginOf(piece)>> \o DataOf(body)) = u
      BY <2>8, EventsAssociate
    <3>2. <<BeginOf(piece)>> \o DataOf(body) \in Seq(Event)
      BY <2>8, EventsAssociate
    <3>3. s \o ((<<BeginOf(piece)>> \o DataOf(body)) \o <<EndEvent>>)
            = (s \o (<<BeginOf(piece)>> \o DataOf(body))) \o <<EndEvent>>
      BY <2>8, <3>2, EventsAssociate
    <3> QED
      BY <3>1, <3>3
  <2>10. Gathered[u \o <<EndEvent>>] = Gather(Gathered[u], EndEvent) /\ Gathered[u] \in Gathering
    BY <2>7, <2>8, GatheredMore, GatheredEquations
  <2>11. Shut(Gathered[s \o E]) = Shut(Gathered[u])
    BY <1>2, <2>5, <2>8, <2>9, <2>10
  <2>12. Gathered[u] = [closed |-> Shut(g), open |-> IsFieldBlock(block),
                        headers |-> block, size |-> 0 + Len(body)]
    BY <2>2, <2>6, <2>7 DEF Gather, Larger, block
  <2>13. Len(body) \in Nat /\ 0 + Len(body) = Len(body)
    BY <2>2, LenProperties
  <2>14. Shut(Gathered[u]) = IF IsFieldBlock(block)
                             THEN Append(Shut(g), [headers |-> block, size |-> Len(body)])
                             ELSE Shut(g)
    BY <2>12, <2>13 DEF Shut
  <2>15. [headers |-> block, size |-> Len(body)] \in Entry
    BY <2>2, <2>13 DEF Entry
  <2> HIDE DEF g, u
  <2> QED
    BY <2>3, <2>4, <2>11, <2>14, <2>15 DEF g, E
<1> QED
  BY <1>3, <1>4

LEMMA ToldListed ==
  ASSUME request \in Seq(Byte), NEW k \in Nat, k <= Count(request)
  PROVE  Listed(Shut(Gathered[Told(request, k)]), FieldsUpto(k), MessageFields)
<1> DEFINE List(n) == Shut(Gathered[Told(request, n)])
           All == {n \in Nat : n <= Count(request) => Listed(List(n), FieldsUpto(n), MessageFields)}
<1>0. Count(request) \in Nat /\ Fields \in SUBSET (1..Count(request)) /\ 1 \notin Fields
  BY FieldMeans
<1>1. \A n \in Nat : List(n) \in Seq(Entry) /\ Told(request, n) \in Seq(Event)
  <2>1. \A n \in Nat : Told(request, n) \in Seq(Event)
    BY ToldEquations
  <2>2. RawEvent \in Event
    BY EventTypes
  <2> QED
    BY <2>1, <2>2, GatherType, GatheredEquations
<1>2. List(0) = <<>> /\ FieldsUpto(0) = {}
  <2>1. Told(request, 0) = <<>>
    BY ToldEquations
  <2>2. List(0) = Shut(Nothing)
    BY <2>1, GatheredEquations
  <2>3. Shut(Nothing) = <<>>
    BY DEF Shut, Nothing
  <2>4. FieldsUpto(0) = {}
    <3>1. \A j \in Fields : j \in 1..Count(request)
      BY <1>0
    <3>2. \A j \in 1..Count(request) : ~(j <= 0)
      BY <1>0
    <3> QED
      BY <3>1, <3>2 DEF FieldsUpto
  <2> QED
    BY <2>2, <2>3, <2>4
<1>3. 0 \in All
  BY <1>2, NoneListed
<1>4. ASSUME NEW n \in All PROVE n + 1 \in All
  <2> SUFFICES ASSUME n + 1 <= Count(request)
               PROVE  Listed(List(n + 1), FieldsUpto(n + 1), MessageFields)
    OBVIOUS
  <2>1. n \in Nat /\ n <= Count(request) /\ Listed(List(n), FieldsUpto(n), MessageFields)
    BY <1>0
  <2>2. Told(request, n + 1) = Told(request, n) \o EventsOf(request, n + 1)
    BY <2>1, ToldEquations
  <2>3. FieldsUpto(n + 1) = IF n + 1 \in Fields THEN FieldsUpto(n) \cup {n + 1} ELSE FieldsUpto(n)
    <3>1. \A j \in Fields : j \in 1..Count(request)
      BY <1>0
    <3>2. \A j \in 1..Count(request) : j <= n + 1 <=> j <= n \/ j = n + 1
      BY <1>0, <2>1
    <3> QED
      BY <2>1, <3>1, <3>2 DEF FieldsUpto
  <2>4. CASE n = 0
    <3>1. EventsOf(request, n + 1) = <<>>
      <4>1. n + 1 \in Nat /\ n + 1 \notin 2..Count(request)
        BY <1>0, <2>4
      <4> QED
        BY <4>1, SegmentEventsCases
    <3>2. Told(request, n + 1) = Told(request, n)
      BY <1>1, <2>1, <2>2, <3>1, ConcatEmptySeq
    <3>3. FieldsUpto(n + 1) = FieldsUpto(n)
      BY <1>0, <2>3, <2>4
    <3> QED
      BY <2>1, <3>2, <3>3
  <2>5. CASE n # 0
    <3>1. n + 1 \in 2..Count(request)
      BY <1>0, <2>1, <2>5
    <3>2. /\ n + 1 \in Fields => /\ List(n + 1) = Append(List(n), MessageFields[n + 1])
                                 /\ MessageFields[n + 1] \in Entry
          /\ n + 1 \notin Fields => List(n + 1) = List(n)
      BY <1>1, <2>1, <2>2, <3>1, SegmentGathers
    <3>3. CASE n + 1 \notin Fields
      BY <2>1, <2>3, <3>2, <3>3
    <3>4. CASE n + 1 \in Fields
      <4>1. /\ FieldsUpto(n) \in SUBSET (1..Count(request)) /\ n + 1 \in 1..Count(request)
            /\ \A i \in FieldsUpto(n) : i < n + 1
        <5>1. \A i \in FieldsUpto(n) : i \in 1..Count(request) /\ i <= n
          BY <1>0 DEF FieldsUpto
        <5>2. \A i \in 1..Count(request) : i <= n => i < n + 1
          BY <1>0, <2>1
        <5> QED
          BY <1>0, <3>1, <5>1, <5>2
      <4> DEFINE q == List(n)
                 x == MessageFields[n + 1]
                 b == n + 1
      <4>2. q \in Seq(Entry) /\ x \in Entry /\ b \in 1..Count(request)
        BY <1>1, <2>1, <3>2, <3>4, <4>1
      <4>3. Listed(q, FieldsUpto(n), MessageFields) /\ MessageFields[b] = x
        BY <2>1
      <4>4. \A i \in FieldsUpto(n) : i < b
        BY <4>1
      <4> HIDE DEF q, x, b
      <4>5. Listed(Append(q, x), FieldsUpto(n) \cup {b}, MessageFields)
        BY <1>0, <4>1, <4>2, <4>3, <4>4, ListedOneMore
      <4> QED
        BY <2>3, <3>2, <3>4, <4>5 DEF q, x, b
    <3> QED
      BY <3>3, <3>4
  <2> QED
    BY <2>4, <2>5
<1>5. All \in SUBSET Nat
  OBVIOUS
<1> HIDE DEF All
<1>6. All = Nat
  BY <1>3, <1>4, <1>5, EveryNatural
<1> QED
  BY <1>6 DEF All

(* All the fields of the message.                                          *)
LEMMA MessageListed ==
  ASSUME request \in Seq(Byte)
  PROVE  Listed(Shut(Gathered[Reference(request)]), Fields, MessageFields)
<1>1. Count(request) \in Nat /\ Fields \in SUBSET (1..Count(request))
  BY FieldMeans
<1>2. FieldsUpto(Count(request)) = Fields
  <2>1. \A j \in Fields : j \in 1..Count(request)
    BY <1>1
  <2>2. \A j \in 1..Count(request) : j <= Count(request)
    BY <1>1
  <2> QED
    BY <2>1, <2>2 DEF FieldsUpto
<1>3. Reference(request) = Told(request, Count(request))
  BY ToldEquations
<1> QED
  BY <1>1, <1>2, <1>3, ToldListed

-----------------------------------------------------------------------------
(* The fields of the stream, as the adapter sees them.                     *)
F == INSTANCE FieldProofs WITH eof <- ended

SeenFields(s) ==
  [i \in F!Named(SeenAll(s)) |-> [headers |-> s[i].headers, size |-> F!Size(SeenAll(s), i)]]

(* What has been gathered of a stream: the fields that have ended, and the *)
(* open one.                                                               *)
GathersFields(s) ==
  LET d == SeenAll(s)
      g == Gathered[s]
  IN  /\ Listed(g.closed, F!Ended(d), SeenFields(s))
      /\ g.open <=> \E b \in F!Named(d) : F!IsOpen(d, b)
      /\ \A b \in F!Named(d) :
           F!IsOpen(d, b) => g.headers = s[b].headers /\ g.size = F!Size(d, b)

(* What UploadAdapter assumes of its constants is assumed of them here.    *)
LEMMA AdapterAssumed == F!UploadAssumption
<1>1. \A p \in Parts : F!Cardinality(p.name) <= 1
  BY AdapterAssumption DEF F!Cardinality, Cardinality
<1>2. Parts \subseteq F!PartHeaders
  BY AdapterAssumption DEF F!PartHeaders, Adapter!PartHeaders
<1> QED
  BY <1>1, <1>2, AdapterAssumption DEF F!UploadAssumption

LEMMA SameEvents == F!Event = Adapter!Event
BY DEF F!Event, Adapter!Event

(* One event more, on both sides.                                          *)
LEMMA SeenAppend ==
  ASSUME Unbounded, NEW s \in Seq(Event), NEW e \in Event
  PROVE  /\ SeenAll(s) \in Seq(F!Event) /\ Seen(e) \in F!Event
         /\ Len(SeenAll(s)) = Len(s) /\ Len(s) \in Nat
         /\ SeenAll(Append(s, e)) = Append(SeenAll(s), Seen(e))
         /\ Append(s, e) \in Seq(Event)
         /\ \A i \in 1..Len(s) : Append(s, e)[i] = s[i]
         /\ Append(s, e)[Len(s) + 1] = e
<1>1. /\ SeenAll(s) \in Seq(Adapter!Event) /\ Seen(e) \in Adapter!Event
      /\ Len(SeenAll(s)) = Len(s) /\ Len(s) \in Nat
  BY SeenAllType, SeenType, LenProperties
<1>2. /\ Append(s, e) \in Seq(Event) /\ Append(s, e)[Len(s) + 1] = e
      /\ \A i \in 1..Len(s) : Append(s, e)[i] = s[i]
  BY AppendProperties
<1>3. SeenAll(Append(s, e)) = Append(SeenAll(s), Seen(e))
  <2>1. Append(s, e) = s \o <<e>> /\ <<e>> \in Seq(Event)
    BY AppendIsConcat
  <2>2. SeenAll(s \o <<e>>) = SeenAll(s) \o SeenAll(<<e>>) /\ SeenAll(<<e>>) = <<Seen(e)>>
    BY <2>1, SeenAllParts
  <2> DEFINE d == SeenAll(s)
             x == Seen(e)
  <2>3. d \in Seq(Adapter!Event) /\ x \in Adapter!Event
    BY <1>1
  <2> HIDE DEF d, x
  <2>4. d \o <<x>> = Append(d, x)
    BY <2>3, AppendIsConcat
  <2> QED
    BY <2>1, <2>2, <2>4 DEF d, x
<1> QED
  BY <1>1, <1>2, <1>3, SameEvents

(* The open field is the last one.                                         *)
LEMMA ShutListed ==
  ASSUME Unbounded, NEW s \in Seq(Event), GathersFields(s)
  PROVE  Listed(Shut(Gathered[s]), F!Named(SeenAll(s)), SeenFields(s))
<1> DEFINE d == SeenAll(s)
           g == Gathered[s]
           entries == SeenFields(s)
<1>1. /\ d \in Seq(F!Event) /\ Len(d) = Len(s) /\ Len(d) \in Nat
      /\ g \in Gathering /\ g.closed \in Seq(Entry) /\ g.open \in BOOLEAN
      /\ g.headers \in Headers /\ g.size \in Nat
  <2>1. RawEvent \in Event
    BY EventTypes
  <2>2. d \in Seq(F!Event) /\ Len(d) = Len(s) /\ Len(d) \in Nat
    BY <2>1, SeenAppend
  <2>3. g \in Gathering
    BY GatheredEquations
  <2> QED
    BY <2>2, <2>3 DEF Gathering
<1>2. F!Named(d) \in SUBSET (1..Len(d))
  BY DEF F!Named
<1>3. /\ Listed(g.closed, F!Ended(d), entries)
      /\ g.open <=> \E b \in F!Named(d) : F!IsOpen(d, b)
      /\ \A b \in F!Named(d) :
           F!IsOpen(d, b) => g.headers = s[b].headers /\ g.size = F!Size(d, b)
  BY DEF GathersFields
<1>4. \A i \in F!Named(d) : entries[i] = [headers |-> s[i].headers, size |-> F!Size(d, i)]
  BY DEF SeenFields
<1> HIDE DEF d, g, entries
<1>5. F!Ended(d) = {i \in F!Named(d) : ~F!IsOpen(d, i)}
  BY DEF F!Ended
<1>6. CASE ~g.open
  <2>1. F!Ended(d) = F!Named(d)
    BY <1>3, <1>5, <1>6
  <2> QED
    BY <1>3, <1>6, <2>1 DEF Shut, d, g, entries
<1>7. CASE g.open
  <2>1. PICK b \in F!Named(d) : F!IsOpen(d, b)
    BY <1>3, <1>7
  <2>2. /\ \A i \in 1..Len(d) : d[i].kind = "Begin" => i <= b
        /\ \A i : F!IsOpen(d, i) => i = b
    BY <1>1, <2>1, F!OneOpen, AdapterAssumed
  <2>3. \A i \in F!Named(d) : i \in 1..Len(d) /\ d[i].kind = "Begin"
    BY DEF F!Named, F!IsNamed
  <2>4. F!Named(d) = F!Ended(d) \cup {b} /\ F!Ended(d) \in SUBSET (1..Len(d)) /\ b \in 1..Len(d)
    BY <1>2, <1>5, <2>1, <2>2
  <2>5. \A i \in F!Ended(d) : i < b
    <3>1. ASSUME NEW i \in F!Ended(d) PROVE i < b
      <4>1. i \in F!Named(d) /\ i # b
        BY <1>5, <2>1, <3>1
      <4>2. i <= b /\ i \in 1..Len(d)
        BY <2>2, <2>3, <4>1
      <4> QED
        BY <1>1, <2>4, <4>1, <4>2
    <3> QED
      BY <3>1
  <2> DEFINE x == [headers |-> g.headers, size |-> g.size]
             q == g.closed
             K == F!Ended(d)
  <2>6. x \in Entry /\ q \in Seq(Entry)
    BY <1>1 DEF Entry
  <2>7. entries[b] = x
    BY <1>3, <1>4, <2>1
  <2>8. Listed(q, K, entries) /\ K \in SUBSET (1..Len(d)) /\ \A i \in K : i < b
    BY <1>3, <2>4, <2>5
  <2> HIDE DEF x, q, K
  <2>9. Listed(Append(q, x), K \cup {b}, entries)
    BY <1>1, <2>4, <2>6, <2>7, <2>8, ListedOneMore
  <2>10. Shut(g) = Append(q, x)
    BY <1>7 DEF Shut, q, x
  <2> QED
    BY <2>4, <2>9, <2>10 DEF K, d, g, entries
<1> QED
  BY <1>6, <1>7

(* A list stays a list of its entries while these stay the same.           *)
LEMMA ListedSame ==
  ASSUME NEW q, NEW K, NEW f, NEW g, Listed(q, K, f), \A i \in K : f[i] = g[i]
  PROVE  Listed(q, K, g)
BY DEF Listed

(* The fields that do not grow with an event stay what they are.           *)
LEMMA SeenFieldsKept ==
  ASSUME Unbounded, NEW s \in Seq(Event), NEW e \in Event, NEW i \in F!Named(SeenAll(s)),
         e.kind = "Data" => ~F!IsOpen(SeenAll(s), i)
  PROVE  /\ i \in F!Named(SeenAll(Append(s, e)))
         /\ SeenFields(Append(s, e))[i] = SeenFields(s)[i]
         /\ SeenFields(s)[i] = [headers |-> s[i].headers, size |-> F!Size(SeenAll(s), i)]
<1> DEFINE d == SeenAll(s)
           x == Seen(e)
           t == Append(s, e)
           dt == SeenAll(t)
<1>1. /\ d \in Seq(F!Event) /\ x \in F!Event /\ dt = Append(d, x)
      /\ Len(d) = Len(s) /\ \A j \in 1..Len(s) : t[j] = s[j]
  BY SeenAppend
<1>2. x.kind = e.kind
  BY SeenType
<1>3. i \in 1..Len(s)
  BY <1>1 DEF F!Named
<1>4. SeenFields(s) = [j \in F!Named(d) |-> [headers |-> s[j].headers, size |-> F!Size(d, j)]]
  BY DEF SeenFields
<1>5. SeenFields(t) = [j \in F!Named(dt) |-> [headers |-> t[j].headers, size |-> F!Size(dt, j)]]
  BY DEF SeenFields
<1> HIDE DEF d, x, t, dt
<1>6. i \in F!Named(d) /\ ~(x.kind = "Data" /\ F!IsOpen(d, i))
  BY <1>2 DEF d
<1>7. F!Size(dt, i) = F!Size(d, i)
  BY <1>1, <1>6, F!FieldAppend, AdapterAssumed
<1>8. F!Named(dt) = F!Named(d) \cup (IF F!IsNamed(x) THEN {Len(d) + 1} ELSE {})
  BY <1>1, F!OpenAppend, AdapterAssumed
<1>9. i \in F!Named(dt)
  BY <1>6, <1>8
<1> QED
  BY <1>1, <1>3, <1>4, <1>5, <1>6, <1>7, <1>9 DEF d, t, dt

LEMMA GathersMore ==
  ASSUME Unbounded, NEW s \in Seq(Event), NEW e \in Event, GathersFields(s)
  PROVE  GathersFields(Append(s, e))
<1> DEFINE d == SeenAll(s)
           x == Seen(e)
           t == Append(s, e)
           dt == SeenAll(t)
           n == Len(s) + 1
           g == Gathered[s]
           gt == Gathered[t]
<1>1. /\ d \in Seq(F!Event) /\ x \in F!Event /\ dt = Append(d, x)
      /\ Len(d) = Len(s) /\ Len(s) \in Nat /\ t \in Seq(Event)
      /\ \A i \in 1..Len(s) : t[i] = s[i]
      /\ t[n] = e
  BY SeenAppend
<1>2. gt = Gather(g, e) /\ g \in Gathering
  BY GatheredEquations
<1>3. /\ x.kind = e.kind
      /\ e.kind = "Begin" => x.part = PartOf(e.headers)
      /\ e.kind = "Data" => x.size = Len(e.data)
  BY SeenType
<1>4. F!IsNamed(x) <=> e.kind = "Begin" /\ IsFieldBlock(e.headers)
  BY <1>3 DEF F!IsNamed, IsFieldBlock
<1>5. /\ Listed(g.closed, F!Ended(d), SeenFields(s))
      /\ g.open <=> \E b \in F!Named(d) : F!IsOpen(d, b)
      /\ \A b \in F!Named(d) :
           F!IsOpen(d, b) => g.headers = s[b].headers /\ g.size = F!Size(d, b)
  BY DEF GathersFields
<1>6. /\ \A i \in F!Named(d) :
            e.kind = "Data" => F!IsOpen(d, i) \/ SeenFields(t)[i] = SeenFields(s)[i]
      /\ e.kind # "Data" => \A i \in F!Named(d) : SeenFields(t)[i] = SeenFields(s)[i]
  BY SeenFieldsKept
<1>7. Listed(Shut(g), F!Named(d), SeenFields(s))
  BY ShutListed
<1> HIDE DEF d, x, t, dt, g, gt
<1>8. /\ \A i \in 1..Len(d) : F!IsOpen(dt, i) <=> F!IsOpen(d, i) /\ x.kind = "Data"
      /\ F!IsOpen(dt, Len(d) + 1) <=> x.kind = "Begin"
      /\ F!Named(dt) = F!Named(d) \cup (IF F!IsNamed(x) THEN {Len(d) + 1} ELSE {})
  BY <1>1, F!OpenAppend, AdapterAssumed
<1>9. /\ F!Size(dt, Len(d) + 1) = 0
      /\ \A i \in 1..Len(d) :
           F!Size(dt, i) = F!Size(d, i)
                             + (IF x.kind = "Data" /\ F!Followed(d, i) THEN x.size ELSE 0)
  BY <1>1, F!SizeAppend, AdapterAssumed
<1>10. \A i \in F!Named(d) : i \in 1..Len(d) /\ i # n
  BY <1>1 DEF F!Named
<1>11. /\ F!Ended(d) = {i \in F!Named(d) : ~F!IsOpen(d, i)}
       /\ F!Ended(dt) = {i \in F!Named(dt) : ~F!IsOpen(dt, i)}
  BY DEF F!Ended
<1>14. ASSUME /\ Listed(gt.closed, F!Ended(dt), SeenFields(t))
              /\ gt.open <=> \E b \in F!Named(dt) : F!IsOpen(dt, b)
              /\ \A b \in F!Named(dt) :
                   F!IsOpen(dt, b) => gt.headers = t[b].headers /\ gt.size = F!Size(dt, b)
       PROVE  GathersFields(Append(s, e))
  BY <1>14 DEF GathersFields, gt, dt, t
<1>12. CASE e.kind = "Data"
  <2>1. F!Named(dt) = F!Named(d)
    BY <1>4, <1>8, <1>12
  <2>2. \A i \in F!Named(d) : F!IsOpen(dt, i) <=> F!IsOpen(d, i)
    BY <1>3, <1>8, <1>10, <1>12
  <2>3. F!Ended(dt) = F!Ended(d)
    BY <1>11, <2>1, <2>2
  <2>4. gt.closed = g.closed /\ gt.open = g.open /\ gt.headers = g.headers
        /\ gt.size = g.size + x.size
    BY <1>2, <1>3, <1>12 DEF Gather, Larger
  <2>5. \A i \in F!Ended(d) : SeenFields(s)[i] = SeenFields(t)[i]
    BY <1>6, <1>11, <1>12
  <2>6. Listed(gt.closed, F!Ended(dt), SeenFields(t))
    BY <1>5, <2>3, <2>4, <2>5, ListedSame
  <2>7. gt.open <=> \E b \in F!Named(dt) : F!IsOpen(dt, b)
    BY <1>5, <2>1, <2>2, <2>4
  <2>8. ASSUME NEW b \in F!Named(dt), F!IsOpen(dt, b)
        PROVE  gt.headers = t[b].headers /\ gt.size = F!Size(dt, b)
    <3>1. b \in F!Named(d) /\ F!IsOpen(d, b) /\ b \in 1..Len(d)
      BY <1>10, <2>1, <2>2, <2>8
    <3>2. F!Followed(d, b)
      BY <3>1 DEF F!IsOpen
    <3>3. F!Size(dt, b) = F!Size(d, b) + x.size
      BY <1>3, <1>9, <1>12, <3>1, <3>2
    <3> QED
      BY <1>1, <1>5, <2>4, <3>1, <3>3
  <2> QED
    BY <1>14, <2>6, <2>7, <2>8
<1>13. CASE e.kind # "Data"
  <2>1. \A i \in F!Named(d) : ~F!IsOpen(dt, i)
    BY <1>3, <1>8, <1>10, <1>13
  <2>2. F!IsOpen(dt, n) <=> e.kind = "Begin"
    BY <1>1, <1>3, <1>8
  <2>3. F!Named(dt) = F!Named(d) \cup (IF F!IsNamed(x) THEN {n} ELSE {})
    BY <1>1, <1>8
  <2>4. F!Ended(dt) = F!Named(d)
    BY <1>4, <1>11, <2>1, <2>2, <2>3
  <2>5. gt.closed = Shut(g)
    BY <1>2, <1>13 DEF Gather
  <2>6. Listed(gt.closed, F!Ended(dt), SeenFields(t))
    BY <1>6, <1>7, <1>13, <2>4, <2>5, ListedSame
  <2>7. CASE F!IsNamed(x)
    <3>1. gt.open = IsFieldBlock(e.headers) /\ gt.headers = e.headers /\ gt.size = 0
      BY <1>2, <1>4, <2>7 DEF Gather
    <3>2. gt.open /\ n \in F!Named(dt) /\ F!IsOpen(dt, n)
      BY <1>4, <2>2, <2>3, <2>7, <3>1
    <3>3. \A b \in F!Named(dt) : F!IsOpen(dt, b) => b = n
      BY <2>1, <2>3
    <3>4. gt.headers = t[n].headers /\ gt.size = F!Size(dt, n)
      BY <1>1, <1>9, <3>1
    <3>5. \A b \in F!Named(dt) :
             F!IsOpen(dt, b) => gt.headers = t[b].headers /\ gt.size = F!Size(dt, b)
      BY <3>3, <3>4
    <3> QED
      BY <1>14, <2>6, <3>2, <3>5
  <2>8. CASE ~F!IsNamed(x)
    <3>1. ~gt.open
      BY <1>2, <1>4, <1>13, <2>8 DEF Gather
    <3>2. \A b \in F!Named(dt) : ~F!IsOpen(dt, b)
      BY <2>1, <2>3, <2>8
    <3> QED
      BY <1>14, <2>6, <3>1, <3>2
  <2> QED
    BY <2>7, <2>8
<1> QED
  BY <1>12, <1>13

(* All the fields of a stream.                                             *)
LEMMA StreamListed ==
  ASSUME Unbounded, NEW s \in Seq(Event)
  PROVE  Listed(Shut(Gathered[s]), F!Named(SeenAll(s)), SeenFields(s))
<1> DEFINE T == {u \in Seq(Event) : GathersFields(u)}
<1>1. <<>> \in T
  <2>1. SeenAll(<<>>) = <<>>
    BY SeenAllParts
  <2>2. F!Named(<<>>) = {} /\ F!Ended(<<>>) = {}
    BY DEF F!Named, F!Ended
  <2>3. Gathered[<<>>] = Nothing
    BY GatheredEquations
  <2>4. Nothing.closed = <<>> /\ Nothing.open = FALSE
    BY DEF Nothing
  <2>5. GathersFields(<<>>)
    BY <2>1, <2>2, <2>3, <2>4, NoneListed DEF GathersFields
  <2> QED
    BY <2>5
<1>2. ASSUME NEW u \in T, NEW e \in Event PROVE Append(u, e) \in T
  <2>1. u \in Seq(Event) /\ GathersFields(u) /\ Append(u, e) \in Seq(Event)
    BY AppendProperties
  <2> QED
    BY <2>1, GathersMore
<1>3. T \in SUBSET Seq(Event)
  OBVIOUS
<1> HIDE DEF T
<1>4. T = Seq(Event)
  BY <1>1, <1>2, <1>3, EverySequence
<1>5. GathersFields(s)
  BY <1>4 DEF T
<1> QED
  BY <1>5, ShutListed

-----------------------------------------------------------------------------
(* The adapter that the theorems about its fields speak of is the one that *)
(* a request runs.                                                         *)
LEMMA SameSource ==
  /\ \A s : F!Source!WellFormed(s) <=> Adapter!Source!WellFormed(s)
  /\ \A s : F!Source!InPart(s) <=> Adapter!Source!InPart(s)
BY DEF F!Source!WellFormed, Adapter!Source!WellFormed, F!Source!Allowed, Adapter!Source!Allowed,
       F!Source!InPart, Adapter!Source!InPart, F!Source!Opens, Adapter!Source!Opens

LEMMA SameNext == F!Next <=> Adapter!Next
<1>1. \A e : F!Take(e) <=> Adapter!Take(e)
  BY SameSource DEF F!Take, Adapter!Take
<1> USE DEF F!Handlers, Adapter!Handlers, F!NextHandler, Adapter!NextHandler, F!Goto,
            Adapter!Goto, F!AllCalled, Adapter!AllCalled, F!Resume, Adapter!Resume,
            F!Abort, Adapter!Abort, F!Throw, Adapter!Throw, F!CloseFiles,
            Adapter!CloseFiles, F!CloseFails, Adapter!CloseFails, F!Stop,
            Adapter!Stop, F!Call, Adapter!Call, F!CallMade, Adapter!CallMade,
            F!Told, Adapter!Told, F!partVars, Adapter!partVars, F!accountVars, Adapter!accountVars, F!requestVars,
            Adapter!requestVars, F!handlerVars, Adapter!handlerVars, F!SkipFile,
            Adapter!SkipFile
<1>2. F!BeforeParsing <=> Adapter!BeforeParsing
  BY DEF F!BeforeParsing, Adapter!BeforeParsing
<1>3. F!SourceFails <=> Adapter!SourceFails
  BY DEF F!SourceFails, Adapter!SourceFails
<1>4. F!PartBegin <=> Adapter!PartBegin
  BY <1>1 DEF F!PartBegin, Adapter!PartBegin, F!HandleBegin, Adapter!HandleBegin,
         F!BeginField, Adapter!BeginField, F!TooManyFields, Adapter!TooManyFields,
         F!NewPart, Adapter!NewPart, F!Counters, Adapter!Counters,
         F!BeginUnnamedFile, Adapter!BeginUnnamedFile, F!BeginFile,
         Adapter!BeginFile, F!Unfinished, Adapter!Unfinished
<1>5. F!NewFile <=> Adapter!NewFile
  BY DEF F!NewFile, Adapter!NewFile, F!Opened, Adapter!Opened
<1>6. F!LoopEnds <=> Adapter!LoopEnds
  BY DEF F!LoopEnds, Adapter!LoopEnds
<1>7. F!PartData <=> Adapter!PartData
  BY <1>1 DEF F!PartData, Adapter!PartData, F!HandleData, Adapter!HandleData,
         F!ReceiveFieldData, Adapter!ReceiveFieldData, F!Grown, Adapter!Grown,
         F!TooMuchData, Adapter!TooMuchData, F!FieldCost, Adapter!FieldCost,
         F!ReceiveFileData, Adapter!ReceiveFileData
<1>8. F!ReceiveChunk <=> Adapter!ReceiveChunk
  BY DEF F!ReceiveChunk, Adapter!ReceiveChunk, F!Counted, Adapter!Counted
<1>9. F!PartEnd <=> Adapter!PartEnd
  BY <1>1 DEF F!PartEnd, Adapter!PartEnd, F!HandleEnd, Adapter!HandleEnd, F!FinishFile,
         Adapter!FinishFile, F!FinishField, Adapter!FinishField, F!TooMuchData,
         Adapter!TooMuchData, F!FieldCost, Adapter!FieldCost, F!ValueSizes,
         Adapter!ValueSizes
<1>10. F!FileComplete <=> Adapter!FileComplete
  BY DEF F!FileComplete, Adapter!FileComplete, F!FileDone, Adapter!FileDone
<1>11. F!NobodyReturnsFile <=> Adapter!NobodyReturnsFile
  BY DEF F!NobodyReturnsFile, Adapter!NobodyReturnsFile, F!FileDone,
         Adapter!FileDone
<1>12. F!RawPart <=> Adapter!RawPart
  BY <1>1 DEF F!RawPart, Adapter!RawPart, F!HandleRaw, Adapter!HandleRaw, F!TooManyFields,
         Adapter!TooManyFields
<1>13. F!FeedEof <=> Adapter!FeedEof
  BY SameSource DEF F!FeedEof, Adapter!FeedEof, F!EofOutcomes, Adapter!EofOutcomes, F!EofData,
         Adapter!EofData, F!EofEnd, Adapter!EofEnd, F!EofBegin, Adapter!EofBegin,
         F!EofReturns, Adapter!EofReturns, F!IsExact, Adapter!IsExact
<1>14. F!Finish <=> Adapter!Finish
  BY DEF F!Finish, Adapter!Finish, F!FinishField, Adapter!FinishField, F!TooMuchData,
         Adapter!TooMuchData, F!FieldCost, Adapter!FieldCost, F!ValueSizes,
         Adapter!ValueSizes
<1>15. F!Succeed <=> Adapter!Succeed
  BY DEF F!Succeed, Adapter!Succeed, F!TooManyFields, Adapter!TooManyFields
<1>16. F!InterruptUpload <=> Adapter!InterruptUpload
  BY DEF F!InterruptUpload, Adapter!InterruptUpload
<1>17. F!AbortUpload <=> Adapter!AbortUpload
  BY DEF F!AbortUpload, Adapter!AbortUpload
<1>18. F!UploadComplete <=> Adapter!UploadComplete
  BY DEF F!UploadComplete, Adapter!UploadComplete
<1>19. F!Done <=> Adapter!Done
  BY DEF F!Done, Adapter!Done, F!vars, Adapter!vars
<1> QED
  BY <1>2, <1>3, <1>4, <1>5, <1>6, <1>7, <1>8, <1>9, <1>10, <1>11, <1>12, <1>13, <1>14, <1>15,
     <1>16, <1>17, <1>18, <1>19 DEF F!Next, Adapter!Next

-----------------------------------------------------------------------------
(* Past the events.                                                        *)

(* The try statement ends without an exception only when feed_eof has been *)
(* called and everything it returned is handled.                           *)
LastInv ==
  pc \in {"ended", "interrupting"} \/ (pc = "completing" /\ exception = "none")
    => ended /\ left = <<>>

LEMMA LastKeeps ==
  ASSUME LastInv, [Adapter!Next]_(Adapter!vars)
  PROVE  LastInv'
<1> USE DEF LastInv, Adapter!Goto, Adapter!Resume, Adapter!Abort, Adapter!Throw,
            Adapter!NextHandler, Adapter!requestVars
<1>1. \A open : Adapter!Stop(open) =>
        pc' = "escaped" \/ (pc' = "completing" /\ exception' = "StopUpload")
  BY DEF Adapter!Stop
<1>2. \A open : Adapter!SkipFile(open) => pc' \in {"events", "aborting"}
  BY DEF Adapter!SkipFile
<1>3. CASE Adapter!BeforeParsing
  BY <1>3 DEF Adapter!BeforeParsing
<1>4. CASE Adapter!SourceFails
  BY <1>4 DEF Adapter!SourceFails
<1>5. CASE Adapter!PartBegin
  BY <1>5 DEF Adapter!PartBegin, Adapter!HandleBegin, Adapter!BeginField,
              Adapter!BeginUnnamedFile, Adapter!BeginFile
<1>6. CASE Adapter!NewFile
  BY <1>1, <1>2, <1>6 DEF Adapter!NewFile
<1>7. CASE Adapter!LoopEnds
  BY <1>7 DEF Adapter!LoopEnds
<1>8. CASE Adapter!PartData
  BY <1>8 DEF Adapter!PartData, Adapter!HandleData, Adapter!ReceiveFieldData,
              Adapter!ReceiveFileData
<1>9. CASE Adapter!ReceiveChunk
  BY <1>1, <1>2, <1>9 DEF Adapter!ReceiveChunk
<1>10. CASE Adapter!PartEnd
  BY <1>10 DEF Adapter!PartEnd, Adapter!HandleEnd, Adapter!FinishFile, Adapter!FinishField
<1>11. CASE Adapter!FileComplete
  BY <1>1, <1>11 DEF Adapter!FileComplete, Adapter!FileDone
<1>12. CASE Adapter!NobodyReturnsFile
  BY <1>12 DEF Adapter!NobodyReturnsFile, Adapter!FileDone
<1>13. CASE Adapter!RawPart
  BY <1>13 DEF Adapter!RawPart, Adapter!HandleRaw
<1>14. CASE Adapter!FeedEof
  BY <1>14 DEF Adapter!FeedEof, Adapter!EofReturns
<1>15. CASE Adapter!Finish
  BY <1>15 DEF Adapter!Finish
<1>16. CASE Adapter!Succeed
  BY <1>16 DEF Adapter!Succeed
<1>17. CASE Adapter!InterruptUpload
  BY <1>17 DEF Adapter!InterruptUpload
<1>18. CASE Adapter!AbortUpload
  BY <1>18 DEF Adapter!AbortUpload
<1>19. CASE Adapter!UploadComplete
  BY <1>19 DEF Adapter!UploadComplete
<1>20. CASE Adapter!Done \/ UNCHANGED Adapter!vars
  BY <1>20 DEF Adapter!Done, Adapter!vars
<1> QED
  BY <1>3, <1>4, <1>5, <1>6, <1>7, <1>8, <1>9, <1>10, <1>11, <1>12, <1>13, <1>14, <1>15, <1>16,
     <1>17, <1>18, <1>19, <1>20 DEF Adapter!Next

(* Then the events handled are those that the parser has returned, and     *)
(* these are those of the message.                                         *)
LEMMA AllHandled ==
  ASSUME Unbounded, LinkInv, ReadInv, ended, left = <<>>, pc \notin {"aborting", "raised"}
  PROVE  /\ request \in Seq(Byte) /\ received \in Seq(Event) /\ phase = "idle"
         /\ delivered = SeenAll(received)
         /\ Joined(received) = Reference(request)
<1>1. eof
  BY DEF LinkInv, InputInv
<1>2. received \in Seq(Event) /\ phase \in {"idle", "feeding", "raised"}
  BY DEF ReadInv, ProtocolInv, TypeOK
<1>3. phase = "idle"
  BY <1>1, <1>2 DEF LinkInv, InputInv
<1>4. /\ Len(delivered) = Len(received) /\ delivered \in Seq(Adapter!Event)
      /\ \A i \in 1..Len(delivered) : delivered[i] = Seen(received[i])
  <2>1. Len(<<>>) = 0 /\ Len(delivered) \in Nat
    BY LenProperties DEF LinkInv, HandledInv
  <2> QED
    BY <1>1, <2>1 DEF LinkInv, HandledInv, LeftInv
<1>5. delivered = SeenAll(received)
  <2>1. DOMAIN received = 1..Len(received) /\ DOMAIN delivered = 1..Len(received)
    BY <1>2, <1>4, LenProperties
  <2>2. delivered = [i \in 1..Len(received) |-> delivered[i]]
    BY <1>4, <2>1
  <2> QED
    BY <1>4, <2>1, <2>2 DEF SeenAll
<1> QED
  BY <1>1, <1>2, <1>3, <1>5 DEF ReadInv

(* Two sets of numbers that the same list enumerates.                      *)
LEMMA ListedTwice ==
  ASSUME NEW q, NEW K, NEW L, NEW f, NEW g, Listed(q, K, f), Listed(q, L, g)
  PROVE  /\ Cardinality(K) = Cardinality(L)
         /\ \A k \in K : \E l \in L : Place(L, l) = Place(K, k) /\ g[l] = f[k]
<1>1. ASSUME NEW k \in K
      PROVE  \E l \in L : Place(L, l) = Place(K, k) /\ g[l] = f[k]
  <2>1. Place(K, k) \in 1..Len(q) /\ q[Place(K, k)] = f[k]
    BY DEF Listed
  <2>2. PICK l \in L : Place(L, l) = Place(K, k)
    BY <2>1 DEF Listed
  <2>3. q[Place(L, l)] = g[l]
    BY DEF Listed
  <2> QED
    BY <2>1, <2>2, <2>3
<1> QED
  BY <1>1 DEF Listed

(* A field of the message and the event that begins it agree.              *)
LEMMA FieldArrives ==
  ASSUME request \in Seq(Byte), received \in Seq(Event), delivered = SeenAll(received),
         NEW k \in Fields, NEW i \in F!Named(delivered),
         SeenFields(received)[i] = MessageFields[k]
  PROVE  /\ F!Name(delivered, i) = NameLength(k)
         /\ delivered[i].part.base64 = IsBase64(k)
         /\ F!Size(delivered, i) = BodySize(k)
<1> DEFINE fields == BeginOf(PieceOf(request, k)).headers
<1>1. MessageFields[k] = [headers |-> fields, size |-> BodySize(k)]
  BY DEF MessageFields
<1>2. SeenFields(received)[i] = [headers |-> received[i].headers, size |-> F!Size(delivered, i)]
  BY DEF SeenFields
<1> HIDE DEF fields
<1>3. received[i].headers = fields /\ F!Size(delivered, i) = BodySize(k)
  BY <1>1, <1>2
<1>4. delivered[i].part = PartOf(fields)
  <2>1. i \in 1..Len(delivered) /\ delivered[i].kind = "Begin"
    BY DEF F!Named, F!IsNamed
  <2>2. i \in DOMAIN received /\ delivered[i] = Seen(received[i])
    <3>1. DOMAIN delivered = DOMAIN received /\ DOMAIN received = 1..Len(received)
          /\ Len(received) \in Nat
      BY LenProperties DEF SeenAll
    <3>2. delivered = [j \in 1..Len(received) |-> Seen(received[j])]
      BY <3>1 DEF SeenAll
    <3>3. Len(delivered) = Len(received)
      BY <3>1, <3>2
    <3> QED
      BY <2>1, <3>1, <3>2, <3>3
  <2>3. received[i] \in Event
    BY <2>2
  <2>4. received[i].kind = "Begin"
    BY <2>1, <2>2 DEF Seen
  <2> QED
    BY <1>3, <2>2, <2>4 DEF Seen
<1>5. /\ Has(DispositionOf(k), NAME) => NameLength(k) \in Nat
      /\ PartOf(fields).name = IF Has(DispositionOf(k), NAME) THEN {NameLength(k)} ELSE {}
      /\ PartOf(fields).base64 = IsBase64(k)
  <2>1. k \in 2..Count(request) /\ HasBlock(request, k)
    <3>1. k \in 1..Count(request) /\ k # 1 /\ Count(request) \in Nat
      BY FieldMeans
    <3>2. k \in 2..Count(request)
      BY <3>1
    <3> QED
      BY <3>2, FieldMeans
  <2>2. HeaderEnds(PieceOf(request, k)) # {} /\ k \in 1..Count(request)
    BY <2>1, FieldMeans DEF HasBlock, IsPart
  <2> QED
    BY <2>2, PartOfSegment DEF fields
<1>6. Has(DispositionOf(k), NAME)
  BY DEF Fields
<1>7. F!Name(delivered, i) = NameLength(k)
  BY <1>4, <1>5, <1>6 DEF F!Name
<1> QED
  BY <1>3, <1>4, <1>5, <1>7

(* What the adapter claims of its events is so of the message.             *)
LEMMA PostMeans ==
  ASSUME Unbounded, LastInv, LinkInv, ReadInv, F!BaseInv, F!PostIsWhatArrived
  PROVE  PostOfTheMessage
<1> SUFFICES ASSUME pc = "completing", exception = "none"
             PROVE  /\ Len(post) = Cardinality(Fields)
                    /\ \A k \in Fields :
                         /\ post[Place(Fields, k)].name = NameLength(k)
                         /\ IF IsBase64(k) THEN post[Place(Fields, k)].size <= BodySize(k)
                            ELSE post[Place(Fields, k)].size = BodySize(k)
  BY DEF PostOfTheMessage, Place
<1>1. /\ request \in Seq(Byte) /\ received \in Seq(Event) /\ delivered = SeenAll(received)
      /\ Joined(received) = Reference(request)
  BY AllHandled DEF LastInv
<1> DEFINE q == Shut(Gathered[received])
           K == F!Named(delivered)
<1>2. Listed(q, K, SeenFields(received))
  BY <1>1, StreamListed
<1>3. Listed(q, Fields, MessageFields)
  BY <1>1, GatheredJoined, MessageListed
<1> HIDE DEF q, K
<1>4. /\ Cardinality(Fields) = Cardinality(K)
      /\ \A k \in Fields : \E i \in K :
           /\ Place(K, i) = Place(Fields, k)
           /\ SeenFields(received)[i] = MessageFields[k]
  BY <1>2, <1>3, ListedTwice
<1>5. /\ Len(post) = Cardinality(K)
      /\ \A i \in K :
           /\ post[Place(K, i)].name = F!Name(delivered, i)
           /\ IF delivered[i].part.base64 THEN post[Place(K, i)].size <= F!Size(delivered, i)
              ELSE post[Place(K, i)].size = F!Size(delivered, i)
  <2>1. /\ F!NamedFields = K
        /\ \A i \in K : F!SizeOf(i) = F!Size(delivered, i) /\ F!NameOf(i) = F!Name(delivered, i)
    BY AdapterAssumed, F!DeliveredGood, F!FieldsAgree DEF K
  <2>2. F!PastTry
    BY DEF F!PastTry
  <2> DEFINE kept == {i \in F!NamedFields : F!IsEnded(i) \/ (F!PastTry /\ exception = "none")}
  <2>3. kept = K
    BY <2>1, <2>2
  <2>4. \A S : F!Cardinality(S) = Cardinality(S)
    BY DEF F!Cardinality, Cardinality
  <2> HIDE DEF kept
  <2>5. /\ Len(post) = F!Cardinality(kept)
        /\ \A i \in kept :
             LET entry == post[F!Cardinality({j \in kept : j <= i})]
             IN  /\ entry.name = F!NameOf(i)
                 /\ IF delivered[i].part.base64 THEN entry.size <= F!SizeOf(i)
                    ELSE entry.size = F!SizeOf(i)
    BY DEF F!PostIsWhatArrived, kept
  <2> QED
    BY <2>1, <2>3, <2>4, <2>5 DEF Place
<1>6. ASSUME NEW k \in Fields
      PROVE  /\ post[Place(Fields, k)].name = NameLength(k)
             /\ IF IsBase64(k) THEN post[Place(Fields, k)].size <= BodySize(k)
                ELSE post[Place(Fields, k)].size = BodySize(k)
  <2>1. PICK i \in K : /\ Place(K, i) = Place(Fields, k)
                       /\ SeenFields(received)[i] = MessageFields[k]
    BY <1>4
  <2>2. /\ F!Name(delivered, i) = NameLength(k)
        /\ delivered[i].part.base64 = IsBase64(k)
        /\ F!Size(delivered, i) = BodySize(k)
    BY <1>1, <2>1, FieldArrives DEF K
  <2> QED
    BY <1>5, <2>1, <2>2
<1> QED
  BY <1>4, <1>5, <1>6

(* A request runs the adapter that they speak of.                          *)
LEMMA RequestRunsAdapter ==
  ASSUME Unbounded
  PROVE  UploadSpec => F!Spec
<1>1. Adapter!Init => F!Init
  BY DEF F!Init, Adapter!Init, F!Handlers, Adapter!Handlers, F!NoCall, Adapter!NoCall
<1>2. [Adapter!Next]_(Adapter!vars) => [F!Next]_(F!vars)
  BY SameNext DEF F!vars, Adapter!vars
<1>3. UploadSpec => Adapter!Spec
  BY AdapterRefinement DEF ImplementsAdapter
<1> QED
  BY <1>1, <1>2, <1>3, PTL DEF Adapter!Spec, F!Spec

(* The invariants of a request, step by step.                              *)
LEMMA RequestStep ==
  ASSUME Unbounded, LastInv, LinkInv, ReadInv, [UploadNext]_uploadVars
  PROVE  LastInv' /\ LinkInv' /\ ReadInv'
<1>1. ProtocolInv /\ request \in Seq(Byte) /\ unread \in Seq(Byte)
  BY DEF ReadInv
<1>2. ReadInv'
  BY <1>1, UploadParses, ReadStep
<1>3. LinkInv'
  BY <1>1, LinkStep
<1>4. LastInv'
  BY <1>1, CompositionStep, LastKeeps
<1> QED
  BY <1>2, <1>3, <1>4

(* A request that is parsed without an exception has exactly the fields of *)
(* its message in POST, in order, each under the name that the last        *)
(* disposition that can be decoded gives it and with all its data, decoded *)
(* if that is base64: for every request and every way to read it, every    *)
(* limit, and whatever the upload handlers answer (multipart.rs:365-493,   *)
(* parser.py:139-212, 327-338, 382-398).                                   *)
THEOREM MessagePostCorrect ==
  ASSUME Unbounded
  PROVE  UploadSpec => []PostOfTheMessage
<1>1. UploadSpec => [](F!BaseInv /\ F!PostIsWhatArrived)
  <2>1. F!Spec => []F!BaseInv
    BY AdapterAssumed, F!BaseInvariant
  <2>2. F!Spec => []F!PostIsWhatArrived
    BY AdapterAssumed, F!PostCorrect
  <2> QED
    BY <2>1, <2>2, RequestRunsAdapter, PTL
<1>2. UploadInit => LastInv /\ LinkInv /\ ReadInv
  <2>1. UploadInit => LinkInv /\ ReadInv
    BY LinkInit, ReadInit DEF UploadInit
  <2>2. UploadInit => LastInv
    BY DEF UploadInit, Adapter!Init, LastInv
  <2> QED
    BY <2>1, <2>2
<1>3. LastInv /\ LinkInv /\ ReadInv /\ [UploadNext]_uploadVars => LastInv' /\ LinkInv' /\ ReadInv'
  <2> SUFFICES ASSUME LastInv, LinkInv, ReadInv, [UploadNext]_uploadVars
               PROVE  LastInv' /\ LinkInv' /\ ReadInv'
    OBVIOUS
  <2> QED
    BY RequestStep
<1>4. LastInv /\ LinkInv /\ ReadInv /\ F!BaseInv /\ F!PostIsWhatArrived => PostOfTheMessage
  BY PostMeans
<1> QED
  BY <1>1, <1>2, <1>3, <1>4, PTL DEF UploadSpec

-----------------------------------------------------------------------------
(* What the field limit counts of a stream, and how a stream ends.         *)
ChargedIn(s) == Cardinality(F!Charged(SeenAll(s)))
LastKind(s) == IF s = <<>> THEN "none" ELSE s[Len(s)].kind
IsChargedEvent(e) == e.kind = "Raw" \/ (e.kind = "Begin" /\ PartOf(e.headers).filename = "absent")

LEMMA ChargedMore ==
  ASSUME Unbounded, NEW s \in Seq(Event), NEW e \in Event
  PROVE  /\ ChargedIn(s) \in Nat
         /\ ChargedIn(Append(s, e)) = ChargedIn(s) + (IF IsChargedEvent(e) THEN 1 ELSE 0)
         /\ LastKind(Append(s, e)) = e.kind
         /\ s \o <<e>> = Append(s, e) /\ Append(s, e) \in Seq(Event)
<1> DEFINE d == SeenAll(s)
           x == Seen(e)
           t == Append(s, e)
<1>1. d \in Seq(F!Event) /\ x \in F!Event /\ SeenAll(t) = Append(d, x)
  BY SeenAppend
<1>2. F!IsCharged(x) <=> IsChargedEvent(e)
  BY SeenType DEF F!IsCharged, IsChargedEvent
<1>3. LastKind(t) = e.kind
  <2>1. Len(t) = Len(s) + 1 /\ Len(s) \in Nat /\ t[Len(s) + 1] = e
    BY AppendProperties, LenProperties
  <2>2. Len(<<>>) = 0
    OBVIOUS
  <2> HIDE DEF t
  <2>3. t # <<>>
    BY <2>1, <2>2
  <2> QED
    BY <2>1, <2>3 DEF LastKind
<1>4. t = s \o <<e>> /\ t \in Seq(Event)
  BY AppendIsConcat, AppendProperties
<1> HIDE DEF d, x, t
<1>5. \A S : F!Cardinality(S) = Cardinality(S)
  BY DEF F!Cardinality, Cardinality
<1>6. /\ F!Cardinality(F!Charged(d)) \in Nat
      /\ F!Cardinality(F!Charged(Append(d, x)))
           = F!Cardinality(F!Charged(d)) + (IF F!IsCharged(x) THEN 1 ELSE 0)
  BY <1>1, F!CountsAppend, AdapterAssumed
<1>7. /\ ChargedIn(s) = Cardinality(F!Charged(d))
      /\ ChargedIn(t) = Cardinality(F!Charged(Append(d, x)))
  BY <1>1 DEF ChargedIn, d
<1> QED
  BY <1>2, <1>3, <1>4, <1>5, <1>6, <1>7 DEF t

(* No events, and Data after anything.                                     *)
LEMMA ChargedData ==
  ASSUME Unbounded
  PROVE  /\ ChargedIn(<<>>) = 0 /\ LastKind(<<>>) = "none"
         /\ \A s \in Seq(Event), b \in Seq(Byte) :
              /\ s \o DataOf(b) \in Seq(Event)
              /\ ChargedIn(s \o DataOf(b)) = ChargedIn(s)
              /\ LastKind(s \o DataOf(b)) \in {LastKind(s), "Data"}
<1>1. ChargedIn(<<>>) = 0
  <2>1. SeenAll(<<>>) = <<>>
    BY SeenAllParts
  <2>2. F!Charged(<<>>) = {}
    BY DEF F!Charged
  <2> QED
    BY <2>1, <2>2, FS_EmptySet DEF ChargedIn
<1>2. LastKind(<<>>) = "none"
  BY DEF LastKind
<1>3. ASSUME NEW s \in Seq(Event), NEW b \in Seq(Byte)
      PROVE  /\ s \o DataOf(b) \in Seq(Event)
             /\ ChargedIn(s \o DataOf(b)) = ChargedIn(s)
             /\ LastKind(s \o DataOf(b)) \in {LastKind(s), "Data"}
  <2>1. CASE b = <<>>
    <3>1. s \o DataOf(b) = s
      BY <2>1, ConcatEmptySeq DEF DataOf
    <3> QED
      BY <3>1
  <2>2. CASE b # <<>>
    <3>1. DataOf(b) = <<DataEvent(b)>> /\ DataEvent(b) \in Event /\ DataEvent(b).kind = "Data"
      BY <2>2, EventTypes DEF DataOf, DataEvent
    <3>2. ~IsChargedEvent(DataEvent(b))
      BY <3>1 DEF IsChargedEvent
    <3>3. ChargedIn(s) \in Nat
      BY <3>1, ChargedMore
    <3> DEFINE x == DataEvent(b)
               t == s \o DataOf(b)
    <3>4. x \in Event /\ x.kind = "Data" /\ ~IsChargedEvent(x) /\ t = s \o <<x>>
      BY <3>1, <3>2
    <3> HIDE DEF x, t
    <3>5. /\ t = Append(s, x) /\ t \in Seq(Event) /\ LastKind(t) = "Data"
          /\ ChargedIn(t) = ChargedIn(s) + 0
      BY <3>4, ChargedMore
    <3> QED
      BY <3>3, <3>5 DEF t
  <2> QED
    BY <2>1, <2>2
<1> QED
  BY <1>1, <1>2, <1>3

(* Joining adjacent Data changes neither.                                  *)
LEMMA ChargedAppended ==
  ASSUME Unbounded, NEW s \in Seq(Event), NEW e \in Event
  PROVE  /\ ChargedIn(AppendEvent(s, e)) = ChargedIn(s) + (IF IsChargedEvent(e) THEN 1 ELSE 0)
         /\ LastKind(AppendEvent(s, e)) = e.kind
<1> DEFINE N == Len(s)
           joins == N > 0 /\ e.kind = "Data" /\ s[N].kind = "Data"
           x == DataEvent(s[N].data \o e.data)
           t == [s EXCEPT ![N] = x]
<1>0. N \in Nat /\ DOMAIN s = 1..N /\ ChargedIn(s) \in Nat
  BY LenProperties, ChargedMore
<1>1. CASE ~joins
  <2>1. AppendEvent(s, e) = Append(s, e)
    BY <1>1, AppendEventCases
  <2> QED
    BY <2>1, ChargedMore
<1>2. CASE joins
  <2>1. AppendEvent(s, e) = t /\ t \in Seq(Event)
    BY <1>2, AppendEventCases
  <2>2. x.kind = "Data" /\ N \in 1..N /\ N > 0
    BY <1>0, <1>2 DEF DataEvent
  <2> HIDE DEF x
  <2>3. DOMAIN t = 1..N /\ \A i \in 1..N : t[i] = IF i = N THEN x ELSE s[i]
    BY <1>0
  <2> HIDE DEF t
  <2>4. Len(t) = N
    <3>1. t \in Seq(Event)
      BY <2>1
    <3>2. Len(t) \in Nat /\ DOMAIN t = 1..Len(t)
      BY <3>1, LenProperties
    <3>3. N \in 1..Len(t)
      BY <2>2, <2>3, <3>2
    <3>4. Len(t) \in 1..N
      BY <2>3, <3>2, <3>3
    <3>5. \A a, b \in Nat : a \in 1..b /\ b \in 1..a => a = b
      OBVIOUS
    <3> QED
      BY <1>0, <3>2, <3>3, <3>4, <3>5
  <2>5. ASSUME NEW i \in 1..N PROVE F!IsCharged(SeenAll(t)[i]) <=> F!IsCharged(SeenAll(s)[i])
    <3>1. SeenAll(t)[i] = Seen(t[i]) /\ SeenAll(s)[i] = Seen(s[i])
      BY <2>1, <2>4, SeenAllType
    <3>2. CASE i = N
      <4>1. t[i].kind = "Data" /\ s[i].kind = "Data" /\ t[i] \in Event /\ s[i] \in Event
        <5>1. i \in 1..Len(s) /\ i \in 1..Len(t)
          BY <1>0, <2>4
        <5>2. t[i] = x /\ s[i] = s[N]
          BY <2>3, <3>2
        <5>3. t[i] \in Event /\ s[i] \in Event
          BY <2>1, <5>1
        <5> QED
          BY <1>2, <2>2, <5>2, <5>3
      <4>2. Seen(t[i]).kind = "Data" /\ Seen(s[i]).kind = "Data"
        BY <4>1, SeenType
      <4> QED
        BY <3>1, <4>2 DEF F!IsCharged
    <3>3. CASE i # N
      BY <2>3, <3>1, <3>3
    <3> QED
      BY <3>2, <3>3
  <2>6. Len(SeenAll(t)) = N /\ Len(SeenAll(s)) = N
    BY <2>1, <2>4, SeenAllType
  <2>7. F!Charged(SeenAll(t)) = F!Charged(SeenAll(s))
    BY <2>5, <2>6 DEF F!Charged
  <2>8. ChargedIn(t) = ChargedIn(s) /\ ~IsChargedEvent(e)
    BY <1>2, <2>7 DEF ChargedIn, IsChargedEvent
  <2>9. LastKind(t) = "Data"
    <3>1. Len(<<>>) = 0
      OBVIOUS
    <3>2. t # <<>>
      BY <2>2, <2>4, <3>1
    <3> QED
      BY <2>2, <2>3, <2>4, <3>2 DEF LastKind
  <2> QED
    BY <1>0, <1>2, <2>1, <2>8, <2>9
<1> QED
  BY <1>1, <1>2

LEMMA ChargedJoined ==
  ASSUME Unbounded, NEW s \in Seq(Event)
  PROVE  ChargedIn(Joined(s)) = ChargedIn(s) /\ LastKind(Joined(s)) = LastKind(s)
<1> DEFINE T == {t \in Seq(Event) : /\ ChargedIn(Joined(t)) = ChargedIn(t)
                                    /\ LastKind(Joined(t)) = LastKind(t)}
<1>1. T \in SUBSET Seq(Event) /\ <<>> \in T
  BY JoinedEquations
<1>2. ASSUME NEW t \in T, NEW e \in Event PROVE Append(t, e) \in T
  <2>1. /\ t \in Seq(Event) /\ Append(t, e) \in Seq(Event)
        /\ ChargedIn(Joined(t)) = ChargedIn(t) /\ LastKind(Joined(t)) = LastKind(t)
    BY AppendProperties
  <2>2. Joined(Append(t, e)) = AppendEvent(Joined(t), e) /\ Joined(t) \in Seq(Event)
    BY <2>1, JoinedEquations
  <2>3. /\ ChargedIn(AppendEvent(Joined(t), e))
             = ChargedIn(Joined(t)) + (IF IsChargedEvent(e) THEN 1 ELSE 0)
        /\ LastKind(AppendEvent(Joined(t), e)) = e.kind
    BY <2>2, ChargedAppended
  <2> QED
    BY <2>1, <2>2, <2>3, ChargedMore
<1> HIDE DEF T
<1>3. T = Seq(Event)
  BY <1>1, <1>2, EverySequence
<1> QED
  BY <1>3 DEF T

(* A stream that has been delivered of another one counts no more.         *)
LEMMA ChargedDelivered ==
  ASSUME Unbounded, NEW s \in Seq(Event), NEW t \in Seq(Event), DeliveredOf(s, t)
  PROVE  ChargedIn(s) <= ChargedIn(t)
<1>1. /\ Len(s) \in Nat /\ Len(t) \in Nat /\ Len(s) <= Len(t)
      /\ \A i \in 1..Len(s) : s[i] = t[i] \/ (s[i].kind = "Data" /\ t[i].kind = "Data")
  BY LenProperties DEF DeliveredOf
<1>2. /\ Len(SeenAll(s)) = Len(s) /\ Len(SeenAll(t)) = Len(t)
      /\ \A i \in 1..Len(s) : SeenAll(s)[i] = Seen(s[i])
      /\ \A i \in 1..Len(t) : SeenAll(t)[i] = Seen(t[i])
  BY SeenAllType
<1>3. ASSUME NEW i \in F!Charged(SeenAll(s)) PROVE i \in F!Charged(SeenAll(t))
  <2>1. i \in 1..Len(s) /\ i \in 1..Len(t) /\ F!IsCharged(Seen(s[i]))
    BY <1>1, <1>2 DEF F!Charged
  <2>2. s[i] \in Event
    BY <2>1
  <2>3. s[i].kind # "Data"
    BY <2>1, <2>2, SeenType DEF F!IsCharged
  <2>4. s[i] = t[i]
    BY <1>1, <2>1, <2>3
  <2> QED
    BY <1>2, <2>1, <2>4 DEF F!Charged
<1>4. IsFiniteSet(F!Charged(SeenAll(t)))
  <2>1. F!Charged(SeenAll(t)) \in SUBSET (1..Len(t))
    BY <1>2 DEF F!Charged
  <2>2. IsFiniteSet(1..Len(t))
    BY <1>1, FS_Interval
  <2> QED
    BY <2>1, <2>2, FS_Subset
<1> QED
  BY <1>3, <1>4, FS_Subset DEF ChargedIn

(* A set of positions grows by the next position.                          *)
LEMMA PositionMore ==
  ASSUME NEW n \in Nat, NEW S \in SUBSET (1..n)
  PROVE  /\ IsFiniteSet(S) /\ Cardinality(S) \in Nat
         /\ Cardinality(S \cup {n + 1}) = Cardinality(S) + 1
<1>1. IsFiniteSet(1..n)
  BY FS_Interval
<1>2. IsFiniteSet(S) /\ Cardinality(S) \in Nat
  BY <1>1, FS_Subset, FS_CardinalityType
<1>3. n + 1 \notin S
  OBVIOUS
<1> QED
  BY <1>2, <1>3, FS_AddElement

-----------------------------------------------------------------------------
(* What the segments of the message are charged.                           *)
ChargedSegments ==
  {k \in 2..Count(request) :
     IF HasBlock(request, k) THEN ~IsFile(k)
     ELSE k # Count(request) /\ ~EndsUndecided(request, k)}

StaysOpen(s) == LastKind(s) \in {"Begin", "Data"}

(* What a segment adds.                                                    *)
LEMMA SegmentCharges ==
  ASSUME Unbounded, request \in Seq(Byte), NEW k \in 2..Count(request), NEW s \in Seq(Event)
  PROVE  LET t == s \o EventsOf(request, k)
         IN  /\ ChargedIn(t) = ChargedIn(s) + (IF k \in ChargedSegments THEN 1 ELSE 0)
             /\ k # Count(request) /\ StaysOpen(t) => StaysOpen(s)
             /\ k = Count(request) => (StaysOpen(t) <=> HasBlock(request, k) \/ StaysOpen(s))
             /\ k = Count(request) /\ ~HasBlock(request, k) => t = s
<1> DEFINE piece == PieceOf(request, k)
           E == EventsOf(request, k)
           t == s \o E
           begin == BeginOf(piece)
           body == IF k = Count(request) THEN BodyOf(piece) ELSE WithoutLineEnd(BodyOf(piece))
           u == s \o <<begin>>
           v == u \o DataOf(body)
           w == v \o <<EndEvent>>
<1>0. /\ Count(request) \in Nat /\ k \in Nat /\ k \in 1..Count(request)
      /\ piece \in Seq(Byte) /\ ChargedIn(s) \in Nat /\ s \o <<>> = s
      /\ EndEvent \in Event /\ RawEvent \in Event
  <2>1. Count(request) \in Nat /\ k \in Nat /\ k \in 1..Count(request)
    BY SegmentBounds
  <2>2. EndEvent \in Event /\ RawEvent \in Event
    BY EventTypes
  <2>3. ChargedIn(s) \in Nat
    BY <2>2, ChargedMore
  <2> QED
    BY <2>1, <2>2, <2>3, PieceProperties, ConcatEmptySeq
<1>1. CASE ~HasBlock(request, k)
  <2>1. ~(k = Count(request) /\ HeaderEnds(piece) # {}) /\ ~IsPart(piece)
    BY <1>1 DEF HasBlock
  <2>2. IF k \in ChargedSegments THEN k # Count(request) /\ E = <<RawEvent>> ELSE E = <<>>
    <3> HIDE DEF piece
    <3>1. k \in ChargedSegments <=> k # Count(request) /\ ~EndsUndecided(request, k)
      BY <1>1 DEF ChargedSegments
    <3> QED
      BY <1>0, <2>1, <3>1, SegmentEventsCases DEF piece
  <2>3. CASE k \in ChargedSegments
    <3>1. IsChargedEvent(RawEvent) /\ RawEvent.kind = "Raw"
      BY DEF RawEvent, IsChargedEvent
    <3>2. t = s \o <<RawEvent>> /\ k # Count(request)
      BY <2>2, <2>3
    <3> HIDE DEF t
    <3>3. ChargedIn(t) = ChargedIn(s) + 1 /\ LastKind(t) = "Raw"
      BY <1>0, <3>1, <3>2, ChargedMore
    <3> QED
      BY <2>3, <3>2, <3>3 DEF StaysOpen, t
  <2>4. CASE k \notin ChargedSegments
    <3>1. t = s
      BY <1>0, <2>2, <2>4
    <3> HIDE DEF t
    <3> QED
      BY <1>0, <1>1, <2>4, <3>1 DEF t
  <2> QED
    BY <2>3, <2>4
<1>2. CASE HasBlock(request, k)
  <2>1. HeaderEnds(piece) # {} /\ (k # Count(request) => IsPart(piece))
    BY <1>2 DEF HasBlock, IsPart
  <2>2. begin \in Event /\ begin.kind = "Begin" /\ body \in Seq(Byte)
    BY <1>0, <2>1, BeginOfType
  <2>3. IsChargedEvent(begin) <=> k \in ChargedSegments
    <3>1. PartOf(begin.headers).filename = "absent" <=> ~IsFile(k)
      BY <1>0, <2>1, PartOfSegment
    <3> QED
      BY <1>2, <2>2, <3>1 DEF ChargedSegments, IsChargedEvent
  <2>4. \/ k = Count(request) /\ E = <<begin>> \o DataOf(body)
        \/ k # Count(request) /\ E = <<begin>> \o DataOf(body) \o <<EndEvent>>
    <3> HIDE DEF piece
    <3> QED
      BY <1>0, <2>1, SegmentEventsCases DEF piece
  <2> HIDE DEF E, begin, body, piece
  <2>5. /\ u \in Seq(Event) /\ LastKind(u) = "Begin"
        /\ ChargedIn(u) = ChargedIn(s) + (IF k \in ChargedSegments THEN 1 ELSE 0)
    BY <2>2, <2>3, ChargedMore
  <2> HIDE DEF u
  <2>6. v \in Seq(Event) /\ ChargedIn(v) = ChargedIn(u) /\ StaysOpen(v)
    BY <2>2, <2>5, ChargedData DEF StaysOpen
  <2> HIDE DEF v
  <2>7. ChargedIn(w) = ChargedIn(v) /\ ~StaysOpen(w)
    <3>1. EndEvent.kind = "End" /\ ~IsChargedEvent(EndEvent)
      BY DEF EndEvent, IsChargedEvent
    <3>2. ChargedIn(v) \in Nat
      BY <1>0, <2>6, ChargedMore
    <3>3. LastKind(w) = "End" /\ ChargedIn(w) = ChargedIn(v) + 0
      BY <1>0, <2>6, <3>1, ChargedMore
    <3> QED
      BY <3>2, <3>3 DEF StaysOpen
  <2> HIDE DEF w
  <2>8. <<EndEvent>> \in Seq(Event) /\ <<begin>> \in Seq(Event) /\ DataOf(body) \in Seq(Event)
    BY <1>0, <2>2, DataOfType
  <2>9. /\ s \o (<<begin>> \o DataOf(body)) = v
        /\ s \o (<<begin>> \o DataOf(body) \o <<EndEvent>>) = w
    <3>1. s \o (<<begin>> \o DataOf(body)) = v
      BY <2>8, EventsAssociate DEF u, v
    <3>2. <<begin>> \o DataOf(body) \in Seq(Event)
      BY <2>8, EventsAssociate
    <3>3. s \o ((<<begin>> \o DataOf(body)) \o <<EndEvent>>)
            = (s \o (<<begin>> \o DataOf(body))) \o <<EndEvent>>
      BY <2>8, <3>2, EventsAssociate
    <3> QED
      BY <3>1, <3>3 DEF w
  <2>10. IF k = Count(request) THEN t = v ELSE t = w
    BY <2>4, <2>9
  <2> HIDE DEF t
  <2> QED
    BY <1>2, <2>5, <2>6, <2>7, <2>10 DEF t, E
<1> QED
  BY <1>1, <1>2

(* What the first segments add up to.                                      *)
ChargedUpto(k) == {j \in ChargedSegments : j <= k}

LEMMA ToldCharges ==
  ASSUME Unbounded, request \in Seq(Byte), NEW k \in Nat, k <= Count(request)
  PROVE  /\ ChargedIn(Told(request, k)) = Cardinality(ChargedUpto(k))
         /\ StaysOpen(Told(request, k)) <=> k = Count(request) /\ HasBlock(request, k)
<1> DEFINE N == Count(request)
           C(n) == ChargedIn(Told(request, n))
           Meant(n) == /\ C(n) = Cardinality(ChargedUpto(n))
                       /\ StaysOpen(Told(request, n)) <=> n = N /\ HasBlock(request, n)
           All == {n \in Nat : n <= N => Meant(n)}
<1>0. N \in Nat /\ N >= 1 /\ ChargedSegments \in SUBSET (2..N)
  BY SegmentBounds DEF ChargedSegments
<1>1. \A n \in Nat : Told(request, n) \in Seq(Event)
  BY ToldEquations
<1> HIDE DEF N
<1>2. \A n \in {0, 1} : ChargedUpto(n) = {} /\ ~HasBlock(request, n)
  <2>1. \A j \in 2..N : ~(j <= 1) /\ ~(j <= 0)
    BY <1>0
  <2>2. ChargedUpto(0) = {} /\ ChargedUpto(1) = {}
    BY <1>0, <2>1 DEF ChargedUpto
  <2>3. 0 \notin 2..N /\ 1 \notin 2..N
    BY <1>0
  <2>4. ~HasBlock(request, 0) /\ ~HasBlock(request, 1)
    BY <2>3 DEF HasBlock, N
  <2> QED
    BY <2>2, <2>4
<1>3. \A n \in {0, 1} : Meant(n)
  <2>1. Told(request, 0) = <<>> /\ Told(request, 1) = <<>>
    BY ToldEquations, ToldPreamble
  <2>2. C(0) = 0 /\ C(1) = 0 /\ ~StaysOpen(<<>>)
    BY <2>1, ChargedData DEF StaysOpen
  <2> QED
    BY <1>2, <2>1, <2>2, FS_EmptySet
<1>4. ASSUME NEW n \in All PROVE n + 1 \in All
  <2> SUFFICES ASSUME n + 1 <= N, n # 0 PROVE Meant(n + 1)
    BY <1>3
  <2>1. n \in Nat /\ n <= N /\ n # N /\ n + 1 \in 2..N /\ n + 1 \in Nat /\ Meant(n)
    BY <1>0
  <2>2. Told(request, n + 1) = Told(request, n) \o EventsOf(request, n + 1)
    BY <2>1, ToldEquations
  <2>3. /\ C(n + 1) = C(n) + (IF n + 1 \in ChargedSegments THEN 1 ELSE 0)
        /\ n + 1 # N /\ StaysOpen(Told(request, n + 1)) => StaysOpen(Told(request, n))
        /\ n + 1 = N => (StaysOpen(Told(request, n + 1))
                           <=> HasBlock(request, n + 1) \/ StaysOpen(Told(request, n)))
    <3> DEFINE s == Told(request, n)
               t == s \o EventsOf(request, n + 1)
    <3>1. s \in Seq(Event) /\ n + 1 \in 2..Count(request) /\ t = Told(request, n + 1)
      BY <1>1, <2>1, <2>2 DEF N
    <3>2. /\ ChargedIn(t) = ChargedIn(s) + (IF n + 1 \in ChargedSegments THEN 1 ELSE 0)
          /\ n + 1 # N /\ StaysOpen(t) => StaysOpen(s)
          /\ n + 1 = N => (StaysOpen(t) <=> HasBlock(request, n + 1) \/ StaysOpen(s))
      <4> HIDE DEF s
      <4> QED
        BY <3>1, SegmentCharges DEF N
    <3> HIDE DEF t
    <3> QED
      BY <3>1, <3>2
  <2>4. StaysOpen(Told(request, n + 1)) <=> n + 1 = N /\ HasBlock(request, n + 1)
    BY <2>1, <2>3
  <2>5. ChargedUpto(n + 1)
          = IF n + 1 \in ChargedSegments THEN ChargedUpto(n) \cup {n + 1} ELSE ChargedUpto(n)
    <3>1. \A j \in 2..N : j <= n + 1 <=> j <= n \/ j = n + 1
      BY <1>0, <2>1
    <3> QED
      BY <1>0, <2>1, <3>1 DEF ChargedUpto
  <2>6. C(n + 1) = Cardinality(ChargedUpto(n + 1))
    <3>1. ChargedUpto(n) \in SUBSET (1..n)
      <4>1. \A j \in 2..N : j <= n => j \in 1..n
        BY <1>0, <2>1
      <4> QED
        BY <1>0, <4>1 DEF ChargedUpto
    <3>2. /\ Cardinality(ChargedUpto(n)) \in Nat
          /\ Cardinality(ChargedUpto(n) \cup {n + 1}) = Cardinality(ChargedUpto(n)) + 1
      BY <2>1, <3>1, PositionMore
    <3>3. C(n) = Cardinality(ChargedUpto(n))
      BY <2>1
    <3> HIDE DEF C
    <3> QED
      BY <2>3, <2>5, <3>2, <3>3
  <2> QED
    BY <2>4, <2>6
<1> HIDE DEF All, Meant
<1>5. All = Nat
  <2>1. 0 \in All /\ All \in SUBSET Nat
    BY <1>3 DEF All
  <2> QED
    BY <1>4, <2>1, EveryNatural
<1>6. Meant(k)
  BY <1>5 DEF All, N
<1> QED
  BY <1>6 DEF Meant, N

-----------------------------------------------------------------------------
(* What the limit counts and the stream does not report: the last segment, *)
(* if it has no header block, or the one before an undecided suffix.       *)
Unreported == Counted \ ChargedSegments

(* The message ends with the token that ends a part.                       *)
BareEnd ==
  HasBlock(request, Count(request) - 1) /\ PieceOf(request, Count(request)) = <<>>

(* A segment with a header block is no undecided suffix; nothing is one.   *)
LEMMA BlockIsDecided ==
  /\ IsIncomplete(<<>>)
  /\ \A s \in Seq(Byte) : HeaderEnds(s) # {} => ~IsIncomplete(s)
<1>1. IsIncomplete(<<>>)
  BY DEF IsIncomplete
<1>2. ASSUME NEW s \in Seq(Byte), HeaderEnds(s) # {} PROVE ~IsIncomplete(s)
  <2>1. PICK h \in Occurrences(s, CRLF \o CRLF) : TRUE
    BY <1>2 DEF HeaderEnds, Find
  <2>2. h \in Nat /\ h + 4 <= Len(s) /\ s[h + 2] = LF
    BY EmptyLineMeans
  <2>3. h + 2 \in 1..Len(s)
    BY <2>2, LenProperties
  <2>4. LF \notin {DASH, SP, TAB, CR}
    BY BytesDiffer
  <2> QED
    BY <2>2, <2>3, <2>4, IncompleteMeans
<1> QED
  BY <1>1, <1>2

LEMMA UnreportedMeans ==
  ASSUME request \in Seq(Byte), NEW n, n = Count(request)
  PROVE  /\ n \in Nat /\ n >= 1
         /\ ChargedSegments \in SUBSET Counted /\ Counted \in SUBSET (1..n)
         /\ \A k : k \in Unreported <=>
              /\ k \in 2..n /\ ~HasBlock(request, k)
              /\ \/ k = n /\ PieceOf(request, n) # <<>>
                 \/ k = n - 1 /\ IsIncomplete(PieceOf(request, n))
         /\ UnreportedRaw <=> n - 1 \in Unreported /\ n \in Unreported
<1>1. /\ n \in Nat /\ n >= 1 /\ Len(Segments) = n
      /\ \A k \in 1..n : Segments[k] = PieceOf(request, k)
  BY SplitIsPieces, SegmentBounds DEF Segments
<1>2. \A k \in 2..n : k \in 1..n
  BY <1>1
<1>3. \A k : k \in PartSegments <=> HasBlock(request, k)
  BY <1>1, <1>2 DEF PartSegments, HasBlock
<1>4. n > 1 => n \in 1..n /\ n \in 2..n
  BY <1>1
<1>5. ASSUME n > 1, HasBlock(request, n)
      PROVE  PieceOf(request, n) # <<>> /\ ~IsIncomplete(PieceOf(request, n))
  <2>1. PieceOf(request, n) \in Seq(Byte)
    BY <1>4, <1>5, PieceProperties
  <2>2. HeaderEnds(PieceOf(request, n)) # {}
    BY <1>5 DEF HasBlock, IsPart
  <2> QED
    BY <2>1, <2>2, BlockIsDecided
<1>6. \A k : k \in Counted <=>
        /\ k \in 2..n /\ (k = n => PieceOf(request, n) # <<>>)
        /\ HasBlock(request, k) => ~IsFile(k)
  BY <1>1, <1>3, <1>4 DEF Counted
<1>7. \A k : k \in ChargedSegments <=>
        /\ k \in 2..n
        /\ IF HasBlock(request, k) THEN ~IsFile(k)
           ELSE k # n /\ ~(k = n - 1 /\ IsIncomplete(PieceOf(request, n)))
  <2>1. \A k \in 2..n : EndsUndecided(request, k)
                          <=> k = n - 1 /\ IsIncomplete(PieceOf(request, n))
    <3>1. \A k \in 2..n : k + 1 = n <=> k = n - 1
      BY <1>1
    <3> QED
      BY <3>1 DEF EndsUndecided
  <2> QED
    BY <2>1 DEF ChargedSegments
<1>8. ChargedSegments \in SUBSET Counted
  <2>1. \A k \in ChargedSegments : k = n => n > 1 /\ HasBlock(request, n)
    BY <1>1, <1>7
  <2> QED
    BY <1>5, <1>6, <1>7, <2>1
<1>9. Counted \in SUBSET (1..n)
  BY <1>2, <1>6
<1>10. \A k : k \in Unreported <=>
         /\ k \in 2..n /\ ~HasBlock(request, k)
         /\ \/ k = n /\ PieceOf(request, n) # <<>>
            \/ k = n - 1 /\ IsIncomplete(PieceOf(request, n))
  <2>1. n # n - 1
    BY <1>1
  <2> QED
    BY <1>6, <1>7, <2>1 DEF Unreported
<1>11. UnreportedRaw <=> n - 1 \in Unreported /\ n \in Unreported
  <2>1. n - 1 \in 2..n <=> n > 2
    BY <1>1
  <2>2. n > 2 => n > 1 /\ n \in 2..n
    BY <1>1
  <2>3. n # n - 1
    BY <1>1
  <2>4. UnreportedRaw <=> /\ n > 2 /\ ~HasBlock(request, n - 1)
                          /\ IsIncomplete(PieceOf(request, n)) /\ PieceOf(request, n) # <<>>
    BY <1>1, <1>3, <1>4, <2>2 DEF UnreportedRaw
  <2> QED
    BY <1>5, <1>10, <2>1, <2>2, <2>3, <2>4
<1> QED
  BY <1>1, <1>8, <1>9, <1>10, <1>11

(* What is not reported is one segment more, but for two endings.          *)
LEMMA CountedMeans ==
  ASSUME request \in Seq(Byte), ~UnreportedRaw
  PROVE  /\ Cardinality(ChargedSegments) \in Nat
         /\ Cardinality(Counted)
              = Cardinality(ChargedSegments) + (IF Unreported = {} THEN 0 ELSE 1)
<1> PICK n : n = Count(request)
  OBVIOUS
<1>1. /\ n \in Nat /\ ChargedSegments \in SUBSET Counted /\ Counted \in SUBSET (1..n)
      /\ Unreported \in SUBSET {n - 1, n}
      /\ ~(n - 1 \in Unreported /\ n \in Unreported)
  BY UnreportedMeans
<1>2. IsFiniteSet(ChargedSegments) /\ Cardinality(ChargedSegments) \in Nat
  BY <1>1, PositionMore
<1>3. CASE Unreported = {}
  <2>1. Counted = ChargedSegments
    BY <1>1, <1>3 DEF Unreported
  <2> QED
    BY <1>2, <1>3, <2>1
<1>4. CASE Unreported # {}
  <2>1. PICK k : Unreported = {k}
    <3>1. CASE n \in Unreported
      <4>1. Unreported = {n}
        BY <1>1, <3>1
      <4> QED
        BY <4>1
    <3>2. CASE n \notin Unreported
      <4>1. Unreported = {n - 1}
        BY <1>1, <1>4, <3>2
      <4> QED
        BY <4>1
    <3> QED
      BY <3>1, <3>2
  <2>2. Counted = ChargedSegments \cup {k} /\ k \notin ChargedSegments
    BY <1>1, <2>1 DEF Unreported
  <2> QED
    BY <1>2, <1>4, <2>2, FS_AddElement
<1> QED
  BY <1>3, <1>4

(* Where everything is reported, and what follows if nothing is left out.  *)
LEMMA ReportedEndings ==
  ASSUME request \in Seq(Byte), NEW n, n = Count(request)
  PROVE  /\ HasBlock(request, n) \/ BareEnd => Unreported = {}
         /\ Unreported = {} /\ n > 2 /\ ~HasBlock(request, n) => BareEnd
         /\ Unreported = {} /\ n = 2 /\ ~HasBlock(request, n) => PieceOf(request, n) = <<>>
<1>1. /\ n \in Nat /\ n >= 1
      /\ \A k : k \in Unreported <=>
           /\ k \in 2..n /\ ~HasBlock(request, k)
           /\ \/ k = n /\ PieceOf(request, n) # <<>>
              \/ k = n - 1 /\ IsIncomplete(PieceOf(request, n))
  BY UnreportedMeans
<1>2. HasBlock(request, n) => ~IsIncomplete(PieceOf(request, n))
  <2> SUFFICES ASSUME HasBlock(request, n) PROVE ~IsIncomplete(PieceOf(request, n))
    OBVIOUS
  <2>1. n \in 1..Count(request) /\ HeaderEnds(PieceOf(request, n)) # {}
    BY <1>1 DEF HasBlock, IsPart
  <2>2. PieceOf(request, n) \in Seq(Byte)
    BY <2>1, PieceProperties
  <2> QED
    BY <2>1, <2>2, BlockIsDecided
<1>3. BareEnd <=> HasBlock(request, n - 1) /\ PieceOf(request, n) = <<>>
  BY DEF BareEnd
<1>4. HasBlock(request, n) \/ BareEnd => Unreported = {}
  BY <1>1, <1>2, <1>3
<1>5. n > 2 => n \in 2..n /\ n - 1 \in 2..n
  BY <1>1
<1>6. n = 2 => n \in 2..n
  BY <1>1
<1> QED
  BY <1>1, <1>3, <1>4, <1>5, <1>6, BlockIsDecided

-----------------------------------------------------------------------------
(* The parser at the end of the input.                                     *)

(* feed_eof goes from Body to End exactly when the message ends with the   *)
(* token that ends a part.                                                 *)
LEMMA BareEndIsHeard ==
  ASSUME ReadInv, HearsTheEnd, phase' # "raised"
  PROVE  state = "Body" /\ state' = "End" <=> BareEnd
<1> PICK m : m = request
  OBVIOUS
<1> DEFINE n == Count(m)
<1>1. /\ TypeOK /\ PendingOnlyInBody /\ m \in Seq(Byte) /\ FeedEof
      /\ phase = "idle" /\ ~eof /\ Reading /\ unread = <<>>
  BY DEF ReadInv, ProtocolInv, HearsTheEnd, FeedEof
<1>2. PICK k, p : At(m, k, p, Len(m)) /\ Quiet(m, k, p, Len(m))
  <2>1. PICK k, p, f : At(m, k, p, f) /\ unread = From(m, f) /\ Quiet(m, k, p, f)
    BY <1>1 DEF Reading
  <2>2. m \in Seq(Byte) /\ f \in Nat /\ f <= Len(m) /\ Len(m) \in Nat
    BY <2>1, WindowBounds DEF At
  <2>3. Len(From(m, f)) = Len(m) - f
    BY <2>2, FromProperties
  <2>4. Len(From(m, f)) = 0
    BY <1>1, <2>1
  <2>5. f = Len(m)
    BY <2>2, <2>3, <2>4
  <2> QED
    BY <2>1, <2>5
<1>3. state' = "End" <=> IsComplete(m)
  BY <1>1, <1>2, EofReads DEF Concluded, Finished
<1>4. /\ Window(m, k, p, Len(m)) /\ n \in Nat /\ n >= 1
      /\ k \in 1..n /\ PieceOf(m, k) \in Seq(Byte) /\ n \in 1..n
  BY <1>2, WindowBounds, SegmentBounds, PieceProperties DEF At
<1>5. /\ BareEnd <=> HasBlock(m, n - 1) /\ PieceOf(m, n) = <<>>
      /\ HasBlock(m, n - 1) <=> n > 2 /\ IsPart(PieceOf(m, n - 1))
  <2>1. n - 1 \in 2..n <=> n > 2
    BY <1>4
  <2>2. n - 1 # n
    BY <1>4
  <2> QED
    BY <2>1, <2>2 DEF BareEnd, HasBlock
<1>6. \/ /\ TokenSeen(m, k, Len(m)) /\ k = n - 1 /\ IsIncomplete(PieceOf(m, n))
      \/ ~TokenSeen(m, k, Len(m)) /\ k = n
  <2>1. \/ TokenSeen(m, k, Len(m)) /\ n = k + 1 /\ EndsUndecided(m, k)
        \/ ~TokenSeen(m, k, Len(m)) /\ n = k
    BY <1>2, <1>4, LastSegment
  <2>2. k + 1 = n => k = n - 1
    BY <1>4
  <2> QED
    BY <2>1, <2>2 DEF EndsUndecided
<1>7. IsComplete(m) <=>
        /\ n > 1
        /\ IF IsIncomplete(PieceOf(m, n))
           THEN /\ n > 2
                /\ \/ IsPart(PieceOf(m, n - 1)) /\ PieceOf(m, n) = <<>>
                   \/ /\ HeaderEnds(PieceOf(m, n - 1)) = {}
                      /\ IsClose(PieceOf(m, n - 1) \o Token)
           ELSE IsClose(PieceOf(m, n)) /\ HeaderEnds(PieceOf(m, n)) = {}
  BY <1>1, CompleteMeans
<1>8. ASSUME state = "Body", state' = "End" PROVE BareEnd
  <2>1. HeaderEnds(PieceOf(m, k)) # {}
    BY <1>2, <1>8 DEF At, InBegin, InData, DataCut
  <2>2. IsComplete(m)
    BY <1>3, <1>8
  <2>3. ~IsIncomplete(PieceOf(m, k))
    BY <1>4, <2>1, BlockIsDecided
  <2> HIDE DEF n
  <2> QED
    BY <1>5, <1>6, <1>7, <2>1, <2>2, <2>3
<1>9. ASSUME BareEnd PROVE state = "Body" /\ state' = "End"
  <2>1. /\ n > 2 /\ IsPart(PieceOf(m, n - 1)) /\ PieceOf(m, n) = <<>>
        /\ IsIncomplete(PieceOf(m, n))
    BY <1>5, <1>9, BlockIsDecided
  <2>2. state' = "End"
    BY <1>3, <1>4, <1>7, <2>1
  <2>3. ASSUME state # "Body" PROVE FALSE
    <3>1. state = "End"
      BY <1>1, <2>2, <2>3, EofQuiet
    <3>2. InRaw(m, k, p, Len(m))
      BY <1>2, <3>1 DEF At
    <3>3. CASE TokenSeen(m, k, Len(m))
      <4>1. p = EndOf(m, k) /\ k = n - 1
        BY <1>2, <1>4, <1>6, <3>1, <3>3, LastSegment
      <4>2. \/ ~IsPart(PieceOf(m, k))
            \/ p = StartOf(m, k)
        BY <3>2 DEF InRaw
      <4>3. p = StartOf(m, k) => HeaderEnds(PieceOf(m, k)) = {}
        <5> SUFFICES ASSUME p = StartOf(m, k), HeaderEnds(PieceOf(m, k)) # {} PROVE FALSE
          OBVIOUS
        <5>1. PieceOf(m, k) = <<>>
          <6>1. k \in 1..Count(m)
            BY <1>4
          <6>2. /\ StartOf(m, k) \in Nat /\ StartOf(m, k) = EndOf(m, k)
                /\ StartOf(m, k) <= Len(m)
            BY <1>1, <4>1, <6>1, SegmentBounds
          <6> QED
            BY <1>1, <6>2, SliceEmpty DEF PieceOf
        <5> QED
          BY <1>4, <5>1, BlockIsDecided
      <4> QED
        BY <2>1, <4>1, <4>2, <4>3 DEF IsPart
    <3>4. CASE ~TokenSeen(m, k, Len(m))
      <4>1. k = n /\ EndOf(m, k) = Len(m)
        BY <1>2, <1>4, <1>6, <3>4, LastSegment
      <4>2. IsClose(RestOf(m, k))
        BY <3>1, <3>2, <3>4 DEF InRaw
      <4>3. RestOf(m, k) = PieceOf(m, k)
        BY <1>1, <1>4, <4>1, PieceProperties DEF PieceOf
      <4> QED
        BY <1>4, <2>1, <4>1, <4>2, <4>3, CloseIsDecided
    <3> QED
      BY <3>3, <3>4
  <2> QED
    BY <2>2, <2>3
<1> QED
  BY <1>8, <1>9

-----------------------------------------------------------------------------
(* What the adapter sees of the end of the input.                          *)
EndInv ==
  ended /\ phase # "raised" =>
    /\ exact <=> BareEnd
    /\ before = "Body" /\ final = "End" <=> BareEnd

LEMMA EndKeeps ==
  ASSUME ReadInv, EndInv, [UploadNext]_uploadVars
  PROVE  EndInv'
<1>1. request' = request => (BareEnd' <=> BareEnd)
  BY DEF BareEnd
<1>2. ASSUME UNCHANGED <<ended, before, final, exact>>, request' = request,
             phase' # "raised" => phase # "raised"
      PROVE  EndInv'
  BY <1>1, <1>2 DEF EndInv
<1>3. CASE ReadChunk
  BY <1>2, <1>3 DEF ReadChunk, BatchIsHandled, FeedNext, adapterAll
<1>4. CASE ParserLoops
  BY <1>2, <1>4 DEF ParserLoops, Loop, inputVars, adapterAll
<1>5. CASE ReadFails
  BY <1>2, <1>5 DEF ReadFails, Adapter!SourceFails, inputVars, parserAll, vars
<1>6. CASE ParserFails
  <2>1. phase' = "raised"
    BY <1>6 DEF ParserFails, parserAll, vars
  <2> QED
    BY <2>1 DEF EndInv
<1>7. CASE TakeEvent
  BY <1>2, <1>7 DEF TakeEvent, inputVars, parserAll, vars
<1>8. CASE FeedEnd
  <2>1. CASE phase' = "raised"
    BY <2>1 DEF EndInv
  <2>2. CASE phase' # "raised"
    <3>1. HearsTheEnd /\ request' = request
      BY <1>8 DEF FeedEnd, HearsTheEnd, inputVars
    <3>2. state = "Body" /\ state' = "End" <=> BareEnd
      BY <2>2, <3>1, BareEndIsHeard
    <3>3. \E batch : Adapter!EofReturns(batch, SeenState(state), SeenState(state'))
      <4>1. \/ Adapter!EofReturns([i \in DOMAIN From(received', Len(received)) |->
                                     Seen(From(received', Len(received))[i])],
                                  SeenState(state), SeenState(state'))
            \/ phase' = "raised"
        BY <1>8 DEF FeedEnd
      <4> QED
        BY <2>2, <4>1
    <3>4. /\ before' = SeenState(state) /\ final' = SeenState(state')
          /\ exact' <=> SeenState(state) = "Body" /\ SeenState(state') = "End"
      BY <3>3 DEF Adapter!EofReturns, Adapter!IsExact
    <3>5. /\ SeenState(state) = "Body" <=> state = "Body"
          /\ SeenState(state') = "End" <=> state' = "End"
      BY DEF SeenState
    <3> QED
      BY <1>1, <3>1, <3>2, <3>4, <3>5 DEF EndInv
  <2> QED
    BY <2>1, <2>2
<1>9. CASE AdapterSteps
  <2>1. /\ UNCHANGED <<delivered, left, ended>> /\ UNCHANGED <<before, final, exact>>
        /\ UNCHANGED inputVars /\ UNCHANGED parserAll
    BY <1>9, QuietAdapter
  <2> QED
    BY <1>2, <2>1 DEF inputVars, parserAll, vars
<1>10. CASE Stopped \/ UNCHANGED uploadVars
  BY <1>2, <1>10 DEF Stopped, uploadVars, inputVars, parserAll, vars, adapterAll
<1> QED
  BY <1>3, <1>4, <1>5, <1>6, <1>7, <1>8, <1>9, <1>10 DEF UploadNext

-----------------------------------------------------------------------------
(* The adapter's count is that of the message.                             *)
LEMMA SeenOpen ==
  ASSUME Unbounded, NEW s \in Seq(Event)
  PROVE  /\ F!IsInside(SeenAll(s)) <=> StaysOpen(s)
         /\ SeenAll(s) # <<>> => LastKind(s) # "none"
<1> DEFINE n == Len(s)
           d == SeenAll(s)
<1>1. /\ n \in Nat /\ Len(d) = n /\ (n > 0 => n \in 1..n)
      /\ \A i \in 1..n : d[i] = Seen(s[i]) /\ s[i] \in Event
  BY LenProperties, SeenAllType
<1>2. CASE s = <<>>
  <2>1. n = 0 /\ d = <<>>
    BY <1>2, SeenAllParts
  <2> HIDE DEF n, d
  <2>2. Len(d) = 0
    BY <1>1, <2>1
  <2> QED
    BY <1>2, <2>1, <2>2 DEF F!IsInside, StaysOpen, LastKind, d
<1>3. CASE s # <<>>
  <2>1. n > 0
    BY <1>1, <1>3, EmptySeq
  <2>2. LastKind(s) = s[n].kind /\ s[n] \in Event /\ d[n] = Seen(s[n])
    BY <1>1, <1>3, <2>1 DEF LastKind
  <2>3. d[n].kind = s[n].kind /\ s[n].kind # "none"
    BY <2>2, SeenType DEF Event
  <2> HIDE DEF n, d
  <2> QED
    BY <1>1, <2>1, <2>2, <2>3 DEF F!IsInside, StaysOpen, d
<1> QED
  BY <1>2, <1>3

(* What the message comes to.                                              *)
LEMMA MessageCharges ==
  ASSUME Unbounded, request \in Seq(Byte), NEW n, n = Count(request)
  PROVE  /\ n \in Nat /\ n >= 1 /\ Reference(request) \in Seq(Event)
         /\ ChargedIn(Reference(request)) = Cardinality(ChargedSegments)
         /\ StaysOpen(Reference(request)) <=> HasBlock(request, n)
         /\ n = 1 \/ (n = 2 /\ ~HasBlock(request, n)) => LastKind(Reference(request)) = "none"
<1>1. n \in Nat /\ n >= 1
  BY SegmentBounds
<1>2. Reference(request) = Told(request, n) /\ \A k \in Nat : Told(request, k) \in Seq(Event)
  BY ToldEquations
<1>3. ChargedUpto(n) = ChargedSegments
  <2>1. \A j \in 2..n : j <= n
    BY <1>1
  <2> QED
    BY <2>1 DEF ChargedUpto, ChargedSegments
<1>4. n <= Count(request)
  BY <1>1
<1>5. /\ ChargedIn(Told(request, n)) = Cardinality(ChargedSegments)
      /\ StaysOpen(Told(request, n)) <=> HasBlock(request, n)
  BY <1>1, <1>3, <1>4, ToldCharges
<1>6. LastKind(<<>>) = "none" /\ Told(request, 1) = <<>>
  BY ToldPreamble DEF LastKind
<1>7. ASSUME n = 2, ~HasBlock(request, n) PROVE Told(request, n) = <<>>
  <2>1. n \in 2..Count(request) /\ <<>> \in Seq(Event) /\ n = 1 + 1
    BY <1>1, <1>7
  <2>2. Told(request, n) = Told(request, 1) \o EventsOf(request, n)
    BY <2>1, ToldEquations
  <2>3. <<>> \o EventsOf(request, n) = <<>>
    BY <1>7, <2>1, SegmentCharges
  <2> QED
    BY <1>6, <2>2, <2>3
<1> QED
  BY <1>1, <1>2, <1>5, <1>6, <1>7

(* The adapter never counts more than there is.                            *)
LEMMA CountIsReported ==
  ASSUME Unbounded, LinkInv, ReadInv, F!CountInv
  PROVE  fieldCount \in Nat /\ fieldCount <= Cardinality(ChargedSegments)
<1> DEFINE r == Joined(received)
           all == SeenAll(received)
<1>1. /\ request \in Seq(Byte) /\ received \in Seq(Event)
      /\ DeliveredOf(r, Reference(request))
  BY DEF ReadInv, ProtocolInv, TypeOK
<1>2. r \in Seq(Event) /\ Reference(request) \in Seq(Event)
  BY <1>1, JoinedEquations, MessageCharges
<1>3. ChargedIn(r) <= ChargedIn(Reference(request)) /\ ChargedIn(received) = ChargedIn(r)
  BY <1>1, <1>2, ChargedDelivered, ChargedJoined
<1>4. ChargedIn(Reference(request)) = Cardinality(ChargedSegments)
  BY <1>1, MessageCharges
<1>5. /\ Len(delivered) \in Nat /\ Len(received) \in Nat /\ Len(delivered) <= Len(received)
      /\ \A i \in 1..Len(delivered) : delivered[i] = Seen(received[i])
      /\ Len(all) = Len(received) /\ \A i \in 1..Len(received) : all[i] = Seen(received[i])
  BY <1>1, LenProperties, SeenAllType DEF LinkInv, HandledInv
<1> HIDE DEF r, all
<1>6. F!Charged(delivered) \in SUBSET F!Charged(all)
  <2>1. \A i \in 1..Len(delivered) : i \in 1..Len(all) /\ all[i] = delivered[i]
    BY <1>5
  <2> QED
    BY <2>1 DEF F!Charged
<1>7. IsFiniteSet(F!Charged(all))
  <2>1. F!Charged(all) \in SUBSET (1..Len(received))
    BY <1>5 DEF F!Charged
  <2> QED
    BY <1>5, <2>1, PositionMore
<1>8. /\ Cardinality(F!Charged(delivered)) <= Cardinality(F!Charged(all))
      /\ Cardinality(F!Charged(delivered)) \in Nat /\ Cardinality(F!Charged(all)) \in Nat
  BY <1>6, <1>7, FS_Subset, FS_CardinalityType
<1>9. \A S : F!Cardinality(S) = Cardinality(S)
  BY DEF F!Cardinality, Cardinality
<1>10. fieldCount = F!Cardinality(F!Charged(delivered))
  BY DEF F!CountInv, F!TallyInv
<1>11. ChargedIn(received) = Cardinality(F!Charged(all))
  BY DEF ChargedIn, all
<1>12. ChargedIn(received) <= Cardinality(ChargedSegments) /\ Cardinality(ChargedSegments) \in Nat
  <2>1. RawEvent \in Event
    BY EventTypes
  <2>2. ChargedIn(Reference(request)) \in Nat
    BY <1>2, <2>1, ChargedMore
  <2> QED
    BY <1>3, <1>4, <2>2
<1>13. fieldCount = Cardinality(F!Charged(delivered))
  BY <1>9, <1>10
<1> QED
  BY <1>8, <1>11, <1>12, <1>13

(* When everything is handled, it has counted all.                         *)
LEMMA CountIsComplete ==
  ASSUME Unbounded, LinkInv, ReadInv, F!CountInv,
         ended, left = <<>>, pc \notin {"aborting", "raised"}
  PROVE  /\ fieldCount = Cardinality(ChargedSegments)
         /\ F!IsInside(delivered) <=> HasBlock(request, Count(request))
         /\ delivered # <<>> => LastKind(Reference(request)) # "none"
<1>1. /\ request \in Seq(Byte) /\ received \in Seq(Event) /\ delivered = SeenAll(received)
      /\ Joined(received) = Reference(request)
  BY AllHandled
<1>2. /\ ChargedIn(received) = ChargedIn(Reference(request))
      /\ LastKind(received) = LastKind(Reference(request))
  BY <1>1, ChargedJoined
<1>3. /\ ChargedIn(Reference(request)) = Cardinality(ChargedSegments)
      /\ StaysOpen(Reference(request)) <=> HasBlock(request, Count(request))
  BY <1>1, MessageCharges
<1>4. \A S : F!Cardinality(S) = Cardinality(S)
  BY DEF F!Cardinality, Cardinality
<1>5. fieldCount = ChargedIn(received)
  BY <1>1, <1>4 DEF F!CountInv, F!TallyInv, ChargedIn
<1>6. /\ F!IsInside(delivered) <=> StaysOpen(received)
      /\ delivered # <<>> => LastKind(received) # "none"
  BY <1>1, SeenOpen
<1> QED
  BY <1>2, <1>3, <1>5, <1>6 DEF StaysOpen

LEMMA LimitMeans ==
  ASSUME Unbounded, LastInv, LinkInv, ReadInv, EndInv, F!CountInv, F!OverInv
  PROVE  FieldLimitOfReportedSegments
<1> SUFFICES ASSUME ~UnreportedRaw PROVE FieldLimitOfTheMessage
  BY DEF FieldLimitOfReportedSegments
<1> PICK n : n = Count(request)
  OBVIOUS
<1>1. /\ request \in Seq(Byte) /\ n \in Nat /\ n >= 1 /\ MaxFields \subseteq Nat
      /\ n = 1 \/ (n = 2 /\ ~HasBlock(request, n)) => LastKind(Reference(request)) = "none"
  BY MessageCharges, AdapterAssumption DEF ReadInv
<1>2. /\ Cardinality(ChargedSegments) \in Nat
      /\ Cardinality(Counted)
           = Cardinality(ChargedSegments) + (IF Unreported = {} THEN 0 ELSE 1)
  BY <1>1, CountedMeans
<1>3. /\ HasBlock(request, n) \/ BareEnd => Unreported = {}
      /\ Unreported = {} /\ n > 2 /\ ~HasBlock(request, n) => BareEnd
  BY <1>1, ReportedEndings
<1>4. ASSUME exception = "none", pc \in {"interrupting", "completing"}, NEW maximum \in MaxFields
      PROVE  Cardinality(Counted) <= maximum + 1
  <2>1. ended /\ left = <<>>
    BY <1>4 DEF LastInv
  <2>2. /\ fieldCount = Cardinality(ChargedSegments)
        /\ F!IsInside(delivered) <=> HasBlock(request, n)
        /\ phase = "idle"
    BY <1>4, <2>1, CountIsComplete, AllHandled
  <2>3. F!BareToken <=> BareEnd
    BY <2>1, <2>2 DEF EndInv, F!BareToken
  <2>4. fieldCount <= maximum + (IF F!BareToken \/ F!IsInside(delivered) THEN 1 ELSE 0)
    BY <1>4 DEF F!CountInv, F!PassedInv, F!FieldsWithin
  <2>5. maximum \in Nat
    BY <1>1
  <2> QED
    BY <1>2, <1>3, <2>2, <2>3, <2>4, <2>5
<1>5. ASSUME exception = "TooManyFields"
      PROVE  \E maximum \in MaxFields : Cardinality(Counted) > maximum + 1
  <2>1. CASE F!TooManyFields(fieldCount, 1)
    <3>1. PICK maximum \in MaxFields : fieldCount > maximum + 1
      BY <2>1 DEF F!TooManyFields
    <3>2. fieldCount <= Cardinality(ChargedSegments) /\ fieldCount \in Nat /\ maximum \in Nat
      BY <1>1, CountIsReported
    <3>3. Cardinality(Counted) > maximum + 1
      BY <1>2, <3>1, <3>2
    <3> QED
      BY <3>3
  <2>2. CASE ~F!TooManyFields(fieldCount, 1)
    <3>1. /\ pc = "escaped" /\ F!TooManyFields(fieldCount, 0)
          /\ ended /\ left = <<>> /\ ~exact
          /\ delivered # <<>> /\ ~F!IsInside(delivered)
      BY <1>5, <2>2 DEF F!OverInv
    <3>2. /\ fieldCount = Cardinality(ChargedSegments)
          /\ ~HasBlock(request, n) /\ phase = "idle"
          /\ LastKind(Reference(request)) # "none"
      BY <3>1, CountIsComplete, AllHandled
    <3>3. ~BareEnd
      BY <3>1, <3>2 DEF EndInv
    <3>4. n > 2
      BY <1>1, <3>2
    <3>5. Unreported # {}
      BY <1>3, <3>2, <3>3, <3>4
    <3>6. PICK maximum \in MaxFields : fieldCount > maximum
      BY <1>1, <3>1 DEF F!TooManyFields
    <3>7. Cardinality(Counted) > maximum + 1
      BY <1>1, <1>2, <3>2, <3>5, <3>6
    <3> QED
      BY <3>7
  <2> QED
    BY <2>1, <2>2
<1>6. MaxFields \subseteq Nat /\ Cardinality(Counted) \in Nat
  BY <1>1, <1>2
<1>7. \A maximum \in MaxFields :
        Cardinality(Counted) <= maximum + 1 => ~(Cardinality(Counted) > maximum + 1)
  BY <1>6
<1> QED
  BY <1>4, <1>5, <1>7 DEF FieldLimitOfTheMessage

(* A request is refused for the number of its fields exactly when its      *)
(* message has two more than the maximum, the segment after the last token *)
(* being one of them, but for a raw segment whose token the end of the     *)
(* input cuts short: for every request and every way to read it, and       *)
(* whatever the upload handlers answer (parser.py:123-125, 166-190,        *)
(* 224-225, 309-325; feed_eof, multipart.rs:140-184).                      *)
THEOREM FieldLimitCorrect ==
  ASSUME Unbounded
  PROVE  UploadSpec => []FieldLimitOfReportedSegments
<1>1. UploadSpec => [](F!CountInv /\ F!OverInv)
  <2>1. F!Spec => []F!CountInv
    BY AdapterAssumed, F!CountInvariant
  <2>2. F!Spec => []F!OverInv
    BY AdapterAssumed, F!OverInvariant
  <2> QED
    BY <2>1, <2>2, RequestRunsAdapter, PTL
<1>2. UploadInit => LastInv /\ LinkInv /\ ReadInv /\ EndInv
  <2>1. UploadInit => LastInv /\ LinkInv /\ ReadInv
    BY LinkInit, ReadInit DEF UploadInit, Adapter!Init, LastInv
  <2>2. UploadInit => EndInv
    BY DEF UploadInit, Adapter!Init, EndInv
  <2> QED
    BY <2>1, <2>2
<1>3. LastInv /\ LinkInv /\ ReadInv /\ EndInv /\ [UploadNext]_uploadVars
        => LastInv' /\ LinkInv' /\ ReadInv' /\ EndInv'
  <2> SUFFICES ASSUME LastInv, LinkInv, ReadInv, EndInv, [UploadNext]_uploadVars
               PROVE  LastInv' /\ LinkInv' /\ ReadInv' /\ EndInv'
    OBVIOUS
  <2> QED
    BY RequestStep, EndKeeps
<1>4. /\ LastInv /\ LinkInv /\ ReadInv /\ EndInv /\ F!CountInv /\ F!OverInv
      => FieldLimitOfReportedSegments
  BY LimitMeans
<1> QED
  BY <1>1, <1>2, <1>3, <1>4, PTL DEF UploadSpec
=============================================================================
