------------------------------- MODULE MCHttp -------------------------------
(***************************************************************************)
(* Http with two requests, so that a call can name one that is not there   *)
(* yet, and one call that comes late, beside the one at hand.              *)
(***************************************************************************)
EXTENDS Http
=============================================================================
