------------------------------- MODULE MCJobs -------------------------------
(***************************************************************************)
(* Jobs with two workers and three tunnels, so that a worker can have its  *)
(* next job while the tunnel of the last one still closes; two connections *)
(* for each, so that one is open while another is being dialled.           *)
(***************************************************************************)
EXTENDS Jobs
=============================================================================
