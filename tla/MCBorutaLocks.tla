--------------------------- MODULE MCBorutaLocks ---------------------------
(***************************************************************************)
(* BorutaLocks with two requests for one worker, so that one can wait while*)
(* the job of the other expires.  JobTimeout is 0: a job may be closed by  *)
(* TimeoutMatcher as soon as the clock has moved once.  A request made     *)
(* without a deadline gets one at the end of the clock, an update may bring*)
(* it to 1, the time within the bound by which WaitEnds is then due.       *)
(***************************************************************************)
EXTENDS BorutaLocks
=============================================================================
