---------------------------- MODULE MCMiddleware ----------------------------
(***************************************************************************)
(* Two requests that share the middleware.  They are interchangeable.      *)
(***************************************************************************)
EXTENDS Middleware, TLC

Symmetry == Permutations(Requests)
=============================================================================
