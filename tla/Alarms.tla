------------------------------- MODULE Alarms -------------------------------
(***************************************************************************)
(* What a collection of request times promises to the rest of the server:  *)
(* it keeps the times that were inserted, takes out some of those that are *)
(* past, all up to one moment together, and gives their requests to its    *)
(* matcher; meanwhile nothing is inserted.                                 *)
(*                                                                         *)
(* The timer, the goroutine and the heap behind it are in RequestTimes and *)
(* HeapTimes, which implement this module; Boruta composes it with the     *)
(* requests.                                                               *)
(***************************************************************************)
EXTENDS Naturals

CONSTANTS
    Requests,       \* request IDs
    Moments         \* points in time

VARIABLES
    times,          \* the <<time, request>> pairs there are
    due,            \* the requests that Notify has still to handle
    clock

Init ==
    /\ times = {}
    /\ due = {}
    /\ clock = 1

insert(t, req) ==
    /\ due = {}
    /\ times' = times \cup {<<t, req>>}
    /\ UNCHANGED due

\* Notify gets what is before t.
process(t) ==
    /\ due = {}
    /\ t <= clock
    /\ times' = {e \in times : ~(e[1] < t)}
    /\ due' = {e[2] : e \in times \ times'}

\* The matcher has handled some of its requests.
Handle ==
    /\ due' \in (SUBSET due) \ {due}
    /\ UNCHANGED times

Next ==
    \/ /\ \/ \E t \in Moments, req \in Requests : insert(t, req)
          \/ \E t \in Moments : process(t)
          \/ Handle
       /\ UNCHANGED clock
    \/ clock < clock' /\ UNCHANGED <<times, due>>

Spec == Init /\ [][Next]_<<times, due, clock>>
=============================================================================
