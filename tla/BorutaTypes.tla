---------------------------- MODULE BorutaTypes ----------------------------
(***************************************************************************)
(* The states of workers and requests that boruta.go declares and every    *)
(* component shares.                                                       *)
(***************************************************************************)
MAINTENANCE == "MAINTENANCE"
IDLE        == "IDLE"
RUN         == "RUN"
FAIL        == "FAIL"
PREPARE     == "PREPARE"
BUSY        == "BUSY"

WorkerState == {MAINTENANCE, IDLE, RUN, FAIL, PREPARE, BUSY}

ABSENT == "ABSENT"          \* not a key of WorkerList.workers

WAIT       == "WAIT"
INPROGRESS == "INPROGRESS"
CANCEL     == "CANCEL"
TIMEOUT    == "TIMEOUT"
DONE       == "DONE"
FAILED     == "FAILED"

\* INVALID is declared too, but no code sets it.
ReqState == {WAIT, INPROGRESS, CANCEL, TIMEOUT, DONE, FAILED}
=============================================================================
