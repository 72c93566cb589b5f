------------------------------ MODULE MCBoruta ------------------------------
(***************************************************************************)
(* Boruta on small instances.  Each cfg spends its bounds on one question: *)
(* Boruta_alarms on times (one request and one worker, two calls whose     *)
(* alarms are late, a deadline within and one beyond the clock);           *)
(* Boruta_match on competition (two requests, two workers, two priorities, *)
(* a group; no time but the first).  What must finally happen is checked   *)
(* with the mutexes, in MCBorutaLocks.  Time 0 in ValidAfters or Deadlines *)
(* is the argument left out.  UUIDs are numbers because equal workers are  *)
(* told apart by UUID; hence there is no symmetry.                         *)
(***************************************************************************)
EXTENDS Boruta
=============================================================================
