------------------------------- MODULE Request -------------------------------
(***************************************************************************)
(* The body of a request, fed to the parser of multipart.rs in chunks of   *)
(* any size, as the adapter and the fuzz target both do.                   *)
(***************************************************************************)
EXTENDS MultipartParser

CONSTANTS Requests,    \* the bodies tried
          ChunkSizes   \* the sizes of the chunks they are cut into

ASSUME RequestsAssumption == Requests \subseteq Seq(Byte) /\ ChunkSizes \subseteq Nat \ {0}

VARIABLES
  request,   \* the body
  unread     \* what has still to be fed

inputVars == <<request, unread>>

RequestInit == request \in Requests /\ unread = request

(* The next n bytes, in one call of feed.                                  *)
FeedNext(n) ==
  /\ Feed(Upto(unread, n))
  /\ unread' = From(unread, n)
  /\ UNCHANGED request
=============================================================================
