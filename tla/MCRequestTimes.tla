--------------------------- MODULE MCRequestTimes ---------------------------
(***************************************************************************)
(* RequestTimes, on its heap, with few requests and a few moments: enough  *)
(* for times that are inserted out of order, twice, too late, and while    *)
(* Notify runs, and for a tick that has become stale.                      *)
(***************************************************************************)
EXTENDS HeapTimes
=============================================================================
