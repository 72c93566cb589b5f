---------------------------- MODULE MCWorkerList ----------------------------
(***************************************************************************)
(* WorkerList on one UUID.  Two goroutines are enough for a worker that is *)
(* deregistered and registered again while its first goroutine still runs; *)
(* the channel holds two states, so that it can be full, hold a state that *)
(* is thrown away, and block a sender.                                     *)
(***************************************************************************)
EXTENDS WorkerList
=============================================================================
