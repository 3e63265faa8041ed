----------------------------- MODULE EventStream -----------------------------
(***************************************************************************)
(* What the parser promises its caller, whatever the bytes are: the        *)
(* sequence of event kinds the caller has been given only grows, is well   *)
(* formed at every moment, and stops for good after the end of input or an *)
(* error.  An error hands over no event of its own.                        *)
(***************************************************************************)
EXTENDS Naturals, Sequences

VARIABLES stream,  \* the kinds of the events delivered so far
          closed,  \* the end of the input has been announced
          failed   \* a call has raised

streamVars == <<stream, closed, failed>>

Kinds == {"Begin", "Data", "End", "Raw"}

(* A part is open after its Begin and until its End.                       *)
Opens(kind) == kind \in {"Begin", "Data"}

(* Data and End come inside an open part and only there.                   *)
Allowed(s, i) == (s[i] \in {"Data", "End"}) <=> (i > 1 /\ Opens(s[i - 1]))

WellFormed(s) == \A i \in 1..Len(s) : Allowed(s, i)

InPart(s) == s # <<>> /\ Opens(s[Len(s)])

IsExtension(s, t) == Len(s) <= Len(t) /\ \A i \in 1..Len(s) : s[i] = t[i]

Init ==
  /\ stream = <<>>
  /\ closed = FALSE
  /\ failed = FALSE

Deliver ==
  /\ ~closed /\ ~failed
  /\ IsExtension(stream, stream')
  /\ WellFormed(stream')
  /\ closed' \in BOOLEAN
  /\ UNCHANGED failed

Fail ==
  /\ ~failed
  /\ failed' = TRUE
  /\ closed' \in {closed, TRUE}
  /\ UNCHANGED stream

Next == Deliver \/ Fail

Spec == Init /\ [][Next]_streamVars
=============================================================================
