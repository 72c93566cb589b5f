------------------------------ MODULE TimesHeap ------------------------------
(***************************************************************************)
(* requests/timesheap.go and requests/timesheapcontainer.go: a minimum     *)
(* heap of <<time, request>> pairs.  A heap is a sequence in which the     *)
(* children of place i are at 2 * i and 2 * i + 1.  The sifting itself is  *)
(* external (container/heap of Go).                                        *)
(***************************************************************************)
EXTENDS Naturals, SequencesExt

\* The ID alone decides.
LessByReq(a, b) == a[2] < b[2]

\* By time and then by ReqID.
Less(a, b) == IF a[1] = b[1] THEN a[2] < b[2] ELSE a[1] < b[1]

\* The places from i up to the root.
PathToRoot[i \in Nat] == IF i = 0 THEN {} ELSE {i} \cup PathToRoot[i \div 2]

\* The last element rises while it is less than its parent.
up(h) ==
    LET n == Len(h)
        path == PathToRoot[n]
        top == Min({p \in path : \A q \in path : p <= q /\ q < n => Less(h[n], h[q])})
    IN [i \in DOMAIN h |-> CASE i = top -> h[n]
                             [] i > top /\ i \in path -> h[i \div 2]
                             [] OTHER -> h[i]]

children(h, i) == {2 * i, 2 * i + 1} \cap DOMAIN h

\* The left one of two equal children.
lesser(h, i) ==
    CHOOSE c \in children(h, i) :
        \A d \in children(h, i) : ~Less(h[d], h[c]) /\ (h[d] = h[c] => c <= d)

\* The first element sinks while its lesser child is less than it is.
down(h) ==
    LET sinksTo(p) == \A q \in PathToRoot[p] \ {1} : q = lesser(h, q \div 2) /\ Less(h[q], h[1])
        bottom == Max({p \in DOMAIN h : sinksTo(p)})
    IN [i \in DOMAIN h |-> CASE i = bottom -> h[1]
                             [] i < bottom /\ i \in PathToRoot[bottom] -> h[lesser(h, i)]
                             [] OTHER -> h[i]]

HeapMin(h) == h[1]

Push(h, e) == up(Append(h, e))

\* The last element takes the place of the first, which leaves.
Pop(h) == IF Len(h) = 1 THEN <<>> ELSE down([Front(h) EXCEPT ![1] = Last(h)])

\* The heaps after zero, one, two ... Pops.
Popped(h) ==
    LET after[k \in 0 .. Len(h)] == IF k = 0 THEN h ELSE Pop(after[k - 1])
    IN  after

\* The heap after process(t) has popped, one by one, what is before t.
PopPast(h, t) ==
    LET after == Popped(h)
    IN  after[Min({k \in 0 .. Len(h) : after[k] = <<>> \/ ~(HeapMin(after[k])[1] < t)})]
=============================================================================
