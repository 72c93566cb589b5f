------------------------------ MODULE MCListing ------------------------------
(***************************************************************************)
(* Listing with a few requests and workers whose orders by each item       *)
(* differ, and filters that one, two or all fields of an element decide.   *)
(***************************************************************************)
EXTENDS Listing

MCReqInfos ==
    { [prio |-> 1, validAfter |-> 2, deadline |-> 3, state |-> WAIT],
      [prio |-> 2, validAfter |-> 1, deadline |-> 3, state |-> WAIT],
      [prio |-> 1, validAfter |-> 2, deadline |-> 3, state |-> INPROGRESS],
      [prio |-> 1, validAfter |-> 2, deadline |-> 4, state |-> DONE] }

MCReqFilters ==
    { [ids |-> {}, states |-> {}, prios |-> {}],
      [ids |-> {1, 2}, states |-> {WAIT}, prios |-> {}],
      [ids |-> {}, states |-> {WAIT, INPROGRESS}, prios |-> {1}] }

MCWorkerInfos ==
    { [state |-> IDLE, groups |-> <<1>>, caps |-> {}],
      [state |-> MAINTENANCE, groups |-> <<>>, caps |-> {}],
      [state |-> RUN, groups |-> <<1, 2>>, caps |-> {1}] }

MCWorkerFilters ==
    { [groups |-> {}, caps |-> {}], [groups |-> {1}, caps |-> {}], [groups |-> {}, caps |-> {1}] }
=============================================================================
