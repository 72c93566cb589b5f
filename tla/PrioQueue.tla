----------------------------- MODULE PrioQueue -----------------------------
(***************************************************************************)
(* requests/queue.go: one FIFO list of request IDs per priority, as        *)
(* operators on a function from priorities to sequences.                   *)
(***************************************************************************)
EXTENDS Naturals, Sequences, SequencesExt

CONSTANTS HiPrio,   \* the most important priority, the smallest value
          LoPrio    \* the least important one

ASSUME PrioAssumption == HiPrio \in Nat /\ LoPrio \in Nat /\ HiPrio <= LoPrio

Priorities == HiPrio .. LoPrio

newPrioQueue == [p \in Priorities |-> <<>>]

pushRequest(q, id, prio) == [q EXCEPT ![prio] = Append(@, id)]

\* The first place of id in the list.  _remove panics if there is none, and the
\* choice is undefined then; that it never is follows from the invariant
\* QueueIsWaiting of Boruta.
FirstIndex(list, id) ==
    CHOOSE i \in 1 .. Len(list) : list[i] = id /\ \A j \in 1 .. i - 1 : list[j] # id

removeRequest(q, id, prio) == [q EXCEPT ![prio] = RemoveAt(@, FirstIndex(@, id))]

setRequestPriorityTwice(q, id, prio, newPrio) == pushRequest(q, id, newPrio)

setRequestPriority(q, id, prio, newPrio) ==
    pushRequest(removeRequest(q, id, prio), id, newPrio)

\* The iterator that initIterator sets up visits the places of the queue in
\* this order: priority by priority, front to back.
Places(q) == UNION {{<<p, i>> : i \in 1 .. Len(q[p])} : p \in Priorities}

Before(x, y) == x[1] < y[1] \/ (x[1] = y[1] /\ x[2] < y[2])

\* The next place to visit when those of todo are left.
NextPlace(todo) == CHOOSE x \in todo : \A y \in todo : x = y \/ Before(x, y)

At(q, x) == q[x[1]][x[2]]
=============================================================================
