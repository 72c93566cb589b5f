------------------------------ MODULE MCAccess ------------------------------
(***************************************************************************)
(* Access on one worker.  Four keys are as many as can be in use: the      *)
(* worker's, the one in authorized_keys, that of a call the server has     *)
(* given up, and a new one.  Keys are only compared, hence the symmetry.   *)
(***************************************************************************)
EXTENDS Access, TLC

KeySymmetry == Permutations(Keys)
=============================================================================
