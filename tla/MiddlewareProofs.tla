--------------------------- MODULE MiddlewareProofs ---------------------------
(***************************************************************************)
(* Which parser reads a request, proved for every set of requests that the *)
(* one instance of the middleware serves at the same time.                 *)
(***************************************************************************)
EXTENDS Middleware, TLAPS

(* The class that a layer inside has chosen, or else the middleware.       *)
Choice(r, default) == IF chosen[r] = NoClass THEN default ELSE chosen[r]

Typed ==
  /\ parserClass \in [Requests -> Classes]
  /\ place \in [Requests -> {"above", "coroutine", "inside", "left"}]
  /\ parsedBy \in [Requests -> Classes \cup {Unparsed}]
  /\ readInside \in [Requests -> BOOLEAN]
  /\ chosen \in [Requests -> Classes \cup {NoClass}]

(* While a request is unparsed, the class that would parse it is known;    *)
(* nobody has chosen before it is inside.                                  *)
SelectionOf(r) ==
  /\ place[r] \in {"above", "coroutine"} =>
       chosen[r] = NoClass /\ parserClass[r] = Django /\ ~readInside[r]
  /\ contentType[r] = Multipart /\ place[r] = "inside" /\ parsedBy[r] = Unparsed =>
       parserClass[r] = Choice(r, Rust)
  /\ parsedBy[r] = Unparsed => ~readInside[r]
  /\ readInside[r] => parsedBy[r] = Choice(r, Rust)
  /\ contentType[r] # Multipart => parsedBy[r] = Unparsed /\ parserClass[r] = Choice(r, Django)

Selection == Typed /\ \A r \in Requests : SelectionOf(r)

(* Nothing is selected and nothing read when requests arrive.              *)
LEMMA SelectionInit == Init => Selection
  BY MiddlewareAssumption
     DEF Init, Selection, Typed, SelectionOf, Choice, Classes, ContentTypes

(* Every step of one request keeps the invariant, and leaves what the      *)
(* invariant says of the other requests.                                   *)
LEMMA SelectionNext == Selection /\ [Next]_vars => Selection'
<1>1. SUFFICES ASSUME Selection, [Next]_vars PROVE Selection'
  OBVIOUS
<1> USE DEF Selection, Typed
<1>2. ASSUME NEW r \in Requests, Call(r) PROVE Selection'
  BY <1>1, <1>2, MiddlewareAssumption
     DEF SelectionOf, Choice, Call, SelectParser, Enter, Classes, requestVars, readVars
<1>3. ASSUME NEW r \in Requests, Await(r) PROVE Selection'
  BY <1>1, <1>3, MiddlewareAssumption
     DEF SelectionOf, Choice, Await, SelectParser, Enter, Classes, requestVars, readVars
<1>4. ASSUME NEW r \in Requests, Leave(r) PROVE Selection'
  BY <1>1, <1>4 DEF SelectionOf, Choice, Leave, requestVars, readVars
<1>5. ASSUME NEW r \in Requests, Read(r) PROVE Selection'
  BY <1>1, <1>5, MiddlewareAssumption
     DEF SelectionOf, Choice, Read, requestVars, Classes
<1>6. ASSUME NEW r \in Requests, Assign(r) PROVE Selection'
  <2>1. PICK class \in Classes :
          /\ parserClass' = [parserClass EXCEPT ![r] = class]
          /\ chosen' = [chosen EXCEPT ![r] = IF parsedBy[r] = Unparsed THEN class ELSE @]
    BY <1>6 DEF Assign
  <2>2. class # NoClass
    BY <2>1, MiddlewareAssumption
  <2>3. UNCHANGED <<contentType, place, parsedBy, readInside>> /\ place[r] = "inside"
    BY <1>6 DEF Assign, requestVars, readVars
  <2>4. Typed'
    BY <1>1, <2>1, <2>3
  <2>5. ASSUME NEW q \in Requests PROVE SelectionOf(q)'
    <3>1. SelectionOf(q)
      BY <1>1
    <3> QED
      BY <1>1, <2>1, <2>2, <2>3, <3>1 DEF SelectionOf, Choice
  <2> QED
    BY <2>4, <2>5
<1>7. CASE UNCHANGED vars
  BY <1>1, <1>7 DEF SelectionOf, Choice, vars, requestVars, readVars
<1> QED
  BY <1>1, <1>2, <1>3, <1>4, <1>5, <1>6, <1>7 DEF Next

(* Of every request at every moment: what is first read inside is parsed   *)
(* by the Rust parser or by the class that a layer inside assigned last    *)
(* (middleware.py:27-41).                                                  *)
THEOREM RightParser == Spec => []ParsedAsChosen
<1>1. Selection => ParsedAsChosen
  BY DEF Selection, SelectionOf, Choice, ParsedAsChosen
<1> QED
  BY <1>1, SelectionInit, SelectionNext, PTL DEF Spec

(* The class of other requests is never touched, and no class before the   *)
(* middleware runs (middleware.py:38-41).                                  *)
THEOREM OthersUntouched == Spec => []OthersAreLeftAlone
<1>1. Selection => OthersAreLeftAlone
  BY DEF Selection, SelectionOf, Choice, OthersAreLeftAlone
<1> QED
  BY <1>1, SelectionInit, SelectionNext, PTL DEF Spec
=============================================================================
