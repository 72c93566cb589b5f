---------------------------- MODULE RequestStates ----------------------------
(***************************************************************************)
(* What the collection of requests promises to its users: the life of a    *)
(* request, from its ID, given once and in order, to one of four ends.     *)
(* Boruta implements this module, with all that makes these steps happen;  *)
(* Http composes it with the calls of a client.                            *)
(***************************************************************************)
EXTENDS BorutaTypes, Naturals

CONSTANT MaxRequests        \* bound: number of requests ever made

VARIABLE rstate             \* ReqInfo.State of each request, or ABSENT

IDs == 1 .. MaxRequests

\* Request id goes from state s to state t.
goes(id, s, t) ==
    /\ rstate[id] = s
    /\ rstate' = [rstate EXCEPT ![id] = t]

Init == rstate = [id \in IDs |-> ABSENT]

New(id) ==
    /\ \A i \in IDs : i < id => rstate[i] # ABSENT
    /\ goes(id, ABSENT, WAIT)

Run(id) == goes(id, WAIT, INPROGRESS)

\* CloseRequest, by the user or for a job whose time is over.
Close(id) == goes(id, WAIT, CANCEL) \/ goes(id, INPROGRESS, DONE)

Timeout(id) == goes(id, WAIT, TIMEOUT)

\* The worker of the request fails.
Fail(id) == goes(id, INPROGRESS, FAILED)

Next == \E id \in IDs : New(id) \/ Run(id) \/ Close(id) \/ Timeout(id) \/ Fail(id)

Spec == Init /\ [][Next]_rstate
=============================================================================
