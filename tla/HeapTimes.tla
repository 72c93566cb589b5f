------------------------------ MODULE HeapTimes ------------------------------
(***************************************************************************)
(* RequestTimes with the heap it uses: insert pushes, process pops until   *)
(* the first element of the heap is not before the tick, and minTime looks *)
(* at the first element only.                                              *)
(***************************************************************************)
EXTENDS RequestTimes, TimesHeap

CONSTANT MaxEntries     \* bound: times in the heap

ASSUME RequestsAssumption == Requests \subseteq Nat

VARIABLE heap

hvars == <<vars, heap>>

HInit == Init /\ heap = <<>>

HNext ==
    \/ \E t \in 1 .. MaxTime, req \in Requests :
          /\ ~stop /\ Len(heap) < MaxEntries
          /\ insert(t, req)
          /\ heap' = Push(heap, <<t, req>>)
    \/ BeginNotify /\ heap' = PopPast(heap, loop.t)
    \/ (GoOff \/ Receive \/ EndNotify \/ finish \/ Stop \/ Tick) /\ UNCHANGED heap

HFairSpec == HInit /\ [][HNext]_hvars /\ Fairness

\* The heap does what RequestTimes needs of it: its first element is the
\* earliest time there is, and process, which looks at the first element
\* only, pops all times before the tick and no other.
HeapIsTimes ==
    /\ ToSet(heap) = times
    /\ heap # <<>> => HeapMin(heap)[1] = minTime(times)
=============================================================================
