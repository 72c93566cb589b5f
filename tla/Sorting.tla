------------------------------ MODULE Sorting ------------------------------
(***************************************************************************)
(* The orders in which lists can be sorted (requests/sorter.go and         *)
(* workers/sorter.go) and the filters of lists (filter/filter.go).  An     *)
(* element of a list is a pair <<ID, info>>.  Groups are numbers, and a    *)
(* worker has them sorted, as SetGroups leaves them.                       *)
(***************************************************************************)
EXTENDS Naturals, SequencesExt, BorutaTypes, Matching

\* SortOrder and ListDirection are Booleans in the code too.
SortOrderAsc == FALSE
DirectionForward == FALSE

\* States are compared as strings: their alphabetical order.
ReqStateRank == [CANCEL |-> 1, DONE |-> 2, FAILED |-> 3, INPROGRESS |-> 4,
                 TIMEOUT |-> 5, WAIT |-> 6]
WorkerStateRank == [BUSY |-> 1, FAIL |-> 2, IDLE |-> 3, MAINTENANCE |-> 4,
                    PREPARE |-> 5, RUN |-> 6]

-----------------------------------------------------------------------------
RequestItems == {"id", "priority", "deadline", "validafter", "state"}

\* What a request is sorted by before its ID; for "id", nothing.
RequestKey(item, req) ==
    CASE item = "priority"   -> req.prio
      [] item = "deadline"   -> req.deadline
      [] item = "validafter" -> req.validAfter
      [] item = "state"      -> ReqStateRank[req.state]
      [] OTHER               -> 0

RequestLess(item, order, a, b) ==
    LET x == RequestKey(item, a[2])
        y == RequestKey(item, b[2])
    IN IF x = y
       THEN IF order = SortOrderAsc THEN a[1] < b[1] ELSE b[1] < a[1]
       ELSE IF order = SortOrderAsc THEN x < y ELSE y < x

\* An empty field of the filter is ignored.
RequestMatch(filter, e) ==
    /\ filter.ids = {} \/ e[1] \in filter.ids
    /\ filter.states = {} \/ e[2].state \in filter.states
    /\ filter.prios = {} \/ e[2].prio \in filter.prios

-----------------------------------------------------------------------------
WorkerItems == {"uuid", "state", "groups"}

WorkerKey(item, worker) ==
    CASE item = "state"  -> WorkerStateRank[worker.state]
      [] item = "groups" -> worker.groups
      [] OTHER           -> 0

\* The first place where two sorted lists of groups differ decides, then
\* their length.
GroupsLess(ga, gb) ==
    LET common == 1 .. Min({Len(ga), Len(gb)})
        differ == {i \in common : ga[i] # gb[i]}
    IN IF differ # {} THEN ga[Min(differ)] < gb[Min(differ)] ELSE Len(ga) < Len(gb)

\* The descending order is the negation of the ascending one.
WorkerLess(item, order, a, b) ==
    LET x == WorkerKey(item, a[2])
        y == WorkerKey(item, b[2])
        less == IF x = y THEN a[1] < b[1]
                ELSE IF item = "groups" THEN GroupsLess(x, y)
                ELSE x < y
        applySortOrder(retval) == IF order = SortOrderAsc THEN retval ELSE ~retval
    IN applySortOrder(less)

WorkerMatch(filter, e) ==
    Match([caps |-> e[2].caps, groups |-> ToSet(e[2].groups)], filter.groups, filter.caps)
=============================================================================
