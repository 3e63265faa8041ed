------------------------------ MODULE Middleware ------------------------------
(***************************************************************************)
(* FastMultipartMiddleware of middleware.py: one instance, shared by all   *)
(* requests in flight, that selects the parser class of a request before   *)
(* it hands it to the layers inside.                                       *)
(*                                                                         *)
(* Around it, and external: the layers above and below may read POST or    *)
(* FILES at any time they have control.  The first read parses the body    *)
(* with the class selected by then, and its result is cached.  The layers  *)
(* inside may assign a class of their own.                                 *)
(***************************************************************************)
CONSTANTS Requests, Django, Rust, Own   \* the requests; the parser classes

Multipart == "multipart/form-data"
ContentTypes == {Multipart, "other"}
Classes == {Django, Rust, Own}
Unparsed == "unparsed"
NoClass == "none"

ASSUME MiddlewareAssumption ==
  /\ Django # Rust /\ Django # Own /\ Rust # Own
  /\ {Unparsed, NoClass} \cap Classes = {}

VARIABLES
  asyncMode,     \* self.async_mode
  contentType,   \* request.content_type
  parserClass,   \* request.multipart_parser_class
  place,         \* who has the request: a layer above, an unawaited coroutine, a layer inside
  parsedBy,      \* the class that has parsed the body
  readInside,    \* history: the first read was inside
  chosen         \* history: the last class assigned inside before the first read

requestVars == <<asyncMode, contentType>>
readVars == <<parsedBy, readInside>>
vars == <<requestVars, readVars, parserClass, place, chosen>>

Init ==
  /\ asyncMode \in BOOLEAN
  /\ contentType \in [Requests -> ContentTypes]
  /\ parserClass = [r \in Requests |-> Django]
  /\ place = [r \in Requests |-> "above"]
  /\ parsedBy = [r \in Requests |-> Unparsed]
  /\ readInside = [r \in Requests |-> FALSE]
  /\ chosen = [r \in Requests |-> NoClass]

-----------------------------------------------------------------------------
(* The class is selected whatever the content type.                        *)
SelectParser_Always(r) == parserClass' = [parserClass EXCEPT ![r] = Rust]

(* _select_parser                                                          *)
SelectParser(r) ==
  parserClass' = [parserClass EXCEPT ![r] = IF contentType[r] = Multipart THEN Rust ELSE @]

Enter(r) == place' = [place EXCEPT ![r] = "inside"]

(* The class is selected in __call__, before the coroutine is made, only.  *)
Await_Unselected(r) ==
  /\ place[r] = "coroutine"
  /\ Enter(r) /\ UNCHANGED <<parserClass, requestVars, readVars, chosen>>

(* __call__: at once, or a coroutine that has done nothing yet.            *)
Call(r) ==
  /\ place[r] = "above"
  /\ IF asyncMode
     THEN place' = [place EXCEPT ![r] = "coroutine"] /\ UNCHANGED parserClass
     ELSE SelectParser(r) /\ Enter(r)
  /\ UNCHANGED <<requestVars, readVars, chosen>>

(* __acall__ up to the await of get_response.                              *)
Await(r) ==
  /\ place[r] = "coroutine"
  /\ SelectParser(r) /\ Enter(r)
  /\ UNCHANGED <<requestVars, readVars, chosen>>

(* get_response has returned or raised; either is passed on.               *)
Leave(r) ==
  /\ place[r] = "inside"
  /\ place' = [place EXCEPT ![r] = "left"]
  /\ UNCHANGED <<requestVars, readVars, parserClass, chosen>>

(* The first access to POST or FILES, by whoever has the request.          *)
Read(r) ==
  /\ contentType[r] = Multipart /\ parsedBy[r] = Unparsed
  /\ parsedBy' = [parsedBy EXCEPT ![r] = parserClass[r]]
  /\ readInside' = [readInside EXCEPT ![r] = (place[r] = "inside")]
  /\ UNCHANGED <<requestVars, parserClass, place, chosen>>

(* A view or another layer inside assigns request.multipart_parser_class;  *)
(* after the body is parsed this has no effect on POST and FILES.          *)
Assign(r) ==
  /\ place[r] = "inside"
  /\ \E class \in Classes :
       /\ parserClass' = [parserClass EXCEPT ![r] = class]
       /\ chosen' = [chosen EXCEPT ![r] = IF parsedBy[r] = Unparsed THEN class ELSE @]
  /\ UNCHANGED <<requestVars, readVars, place>>

Next == \E r \in Requests : Call(r) \/ Await(r) \/ Leave(r) \/ Read(r) \/ Assign(r)

Spec == Init /\ [][Next]_vars

-----------------------------------------------------------------------------
(***************************************************************************)
(* A multipart body that is first read inside the middleware is parsed by  *)
(* the Rust parser, unless a layer inside has assigned another class, and  *)
(* then by the last one assigned: in both modes, whenever the coroutine is *)
(* awaited, and whatever other requests do meanwhile (middleware.py:27-41).*)
(***************************************************************************)
ParsedAsChosen ==
  \A r \in Requests :
    readInside[r] =>
      parsedBy[r] = (IF chosen[r] = NoClass THEN Rust ELSE chosen[r])

(***************************************************************************)
(* Nothing is selected for any other request, nor for a layer above that   *)
(* reads before the middleware runs: until then, and for other content     *)
(* types always, the class is Django's or one that was assigned            *)
(* (middleware.py:40).                                                     *)
(***************************************************************************)
OthersAreLeftAlone ==
  \A r \in Requests :
    contentType[r] # Multipart \/ place[r] \in {"above", "coroutine"} =>
      parserClass[r] = (IF chosen[r] = NoClass THEN Django ELSE chosen[r])
=============================================================================
