---------------------------- MODULE ListingProofs ----------------------------
(***************************************************************************)
(* Theorems about the reading of lists page by page, for every collection, *)
(* filter, order and length of a page, and any number of changes: a page   *)
(* is the one that was asked for, the total is right, and a walk over all  *)
(* pages shows every element that does not change exactly once.            *)
(***************************************************************************)
EXTENDS Listing, FiniteSetTheorems, SequenceTheorems, WellFoundedInduction, TLAPS

USE DEF MAINTENANCE, IDLE, RUN, FAIL, PREPARE, BUSY, WorkerState,
        WAIT, INPROGRESS, CANCEL, TIMEOUT, DONE, FAILED, ReqState,
        SortOrderAsc, DirectionForward, NoID

-----------------------------------------------------------------------------
(***************************************************************************)
(* The orders of the sorters.                                              *)
(***************************************************************************)
\* A set of numbers has a least one.
LEMMA LeastOf == ASSUME NEW T, T \subseteq Nat, T # {} PROVE Min(T) \in T /\ \A n \in T : Min(T) <= n
<1>. DEFINE R == {ss \in Nat \X Nat : ss[1] < ss[2]}
<1>1. IsWellFoundedOn(R, Nat)
  BY NatLessThanWellFounded DEF OpToRel
<1>2. PICK m \in T : \A n \in T : ~ (<<n, m>> \in R)
  <2>. HIDE DEF R
  <2>. QED  BY <1>1, WFMin
<1>3. ASSUME NEW n \in T PROVE m <= n
  <2>1. m \in Nat /\ n \in Nat /\ ~ (<<n, m>> \in R)
    BY <1>2
  <2>2. n < m => <<n, m>> \in R
    BY <2>1
  <2>. QED  BY <2>1, <2>2
<1>. QED  BY <1>2, <1>3 DEF Min

\* The lesser of two numbers.
LEMMA LesserOf ==
    ASSUME NEW a \in Nat, NEW b \in Nat
    PROVE  Min({a, b}) = IF a <= b THEN a ELSE b
<1>1. Min({a, b}) \in {a, b} /\ Min({a, b}) <= a /\ Min({a, b}) <= b
  BY LeastOf
<1>. QED  BY <1>1

\* Of two different lists of groups one is less than the other.
LEMMA GroupsOrder ==
    ASSUME NEW x \in Seq(Nat), NEW y \in Seq(Nat), x # y
    PROVE  GroupsLess(x, y) <=> ~GroupsLess(y, x)
<1>1. PICK lx \in Nat, ly \in Nat : lx = Len(x) /\ ly = Len(y)
  OBVIOUS
<1>2. PICK m \in Nat : m = Min({lx, ly}) /\ m <= lx /\ m <= ly /\ (m = lx \/ m = ly)
  BY LesserOf
<1>. DEFINE differ == {i \in 1 .. m : x[i] # y[i]}
<1>3. /\ GroupsLess(x, y) <=> IF differ # {} THEN x[Min(differ)] < y[Min(differ)] ELSE lx < ly
      /\ GroupsLess(y, x) <=> IF differ # {} THEN y[Min(differ)] < x[Min(differ)] ELSE ly < lx
  <2>1. {i \in 1 .. m : y[i] # x[i]} = differ /\ {ly, lx} = {lx, ly}
    OBVIOUS
  <2>. QED  BY <1>1, <1>2, <2>1 DEF GroupsLess
<1>4. CASE differ # {}
  <2>1. differ \subseteq Nat
    OBVIOUS
  <2>2. Min(differ) \in differ
    <3>. HIDE DEF differ
    <3>. QED  BY <1>4, <2>1, LeastOf
  <2>3. PICK d \in 1 .. m : d = Min(differ) /\ x[d] # y[d]
    BY <2>2
  <2>4. d \in 1 .. Len(x) /\ d \in 1 .. Len(y)
    BY <1>1, <1>2
  <2>5. x[d] \in Nat /\ y[d] \in Nat
    BY <2>4, ElementOfSeq
  <2>. QED  BY <1>3, <1>4, <2>3, <2>5
<1>5. CASE differ = {}
  <2>1. lx # ly
    <3>1. SUFFICES ASSUME lx = ly PROVE FALSE
      OBVIOUS
    <3>2. \A i \in 1 .. Len(x) : x[i] = y[i]
      BY <1>1, <1>2, <1>5, <3>1
    <3>. QED  BY <1>1, <3>1, <3>2, SeqEqual
  <2>. QED  BY <1>3, <1>5, <2>1
<1>. QED  BY <1>4, <1>5

\* Two elements of one collection with different IDs are ordered, by each item
\* and in each direction.
LEMMA LessTotal ==
    ASSUME walk \in Walks, NEW order \in BOOLEAN,
           NEW a \in IDs \X Infos(walk.kind), NEW b \in IDs \X Infos(walk.kind), a[1] # b[1]
    PROVE  LessIn(order, a, b) <=> ~LessIn(order, b, a)
<1>1. a[1] \in Nat /\ b[1] \in Nat
  BY IDAssumption DEF IDAssumption
<1>2. CASE RequestWalk
  <2>1. walk.item \in RequestItems /\ a[2] \in ReqInfos /\ b[2] \in ReqInfos
    BY <1>2 DEF RequestWalk, Walks, Infos
  <2>2. ASSUME NEW req \in ReqInfos PROVE RequestKey(walk.item, req) \in Nat
    <3>1. req.prio \in Nat /\ req.validAfter \in Nat /\ req.deadline \in Nat /\ req.state \in ReqState
      BY InfosAssumption DEF InfosAssumption
    <3>2. ReqStateRank[req.state] \in Nat
      BY <3>1 DEF ReqStateRank
    <3>. QED  BY <2>1, <3>1, <3>2 DEF RequestKey, RequestItems
  <2>3. PICK x \in Nat, y \in Nat : x = RequestKey(walk.item, a[2]) /\ y = RequestKey(walk.item, b[2])
    BY <2>1, <2>2
  <2>. QED  BY <1>1, <1>2, <2>3 DEF LessIn, RequestLess
<1>3. CASE ~RequestWalk
  <2>1. walk.item \in WorkerItems /\ a[2] \in WorkerInfos /\ b[2] \in WorkerInfos
    BY <1>3 DEF RequestWalk, Walks, Infos
  <2>2. \A worker \in WorkerInfos : worker.state \in WorkerState /\ worker.groups \in Seq(Nat)
    BY InfosAssumption DEF InfosAssumption
  <2>3. PICK x, y : x = WorkerKey(walk.item, a[2]) /\ y = WorkerKey(walk.item, b[2])
    OBVIOUS
  <2>4. CASE x = y
    BY <1>1, <1>3, <2>3, <2>4 DEF LessIn, WorkerLess
  <2>5. CASE x # y /\ walk.item = "groups"
    <3>1. x \in Seq(Nat) /\ y \in Seq(Nat)
      BY <2>1, <2>2, <2>3, <2>5 DEF WorkerKey
    <3>2. GroupsLess(x, y) <=> ~GroupsLess(y, x)
      BY <2>5, <3>1, GroupsOrder
    <3>. QED  BY <1>3, <2>3, <2>5, <3>2 DEF LessIn, WorkerLess
  <2>6. CASE x # y /\ walk.item # "groups"
    <3>1. \A s \in WorkerState : WorkerStateRank[s] \in Nat
      BY DEF WorkerStateRank
    <3>2. x \in Nat /\ y \in Nat
      BY <2>1, <2>2, <2>3, <2>6, <3>1 DEF WorkerKey, WorkerItems
    <3>. QED  BY <1>3, <2>3, <2>6, <3>2 DEF LessIn, WorkerLess
  <2>. QED  BY <2>4, <2>5, <2>6
<1>. QED  BY <1>2, <1>3

\* Only the sort key and the ID of an element place it.
LEMMA KeyPlaces ==
    ASSUME NEW order, NEW id, NEW a, NEW b, SortKey(a) = SortKey(b), NEW e
    PROVE  /\ LessIn(order, <<id, a>>, e) <=> LessIn(order, <<id, b>>, e)
           /\ LessIn(order, e, <<id, a>>) <=> LessIn(order, e, <<id, b>>)
BY DEF SortKey, LessIn, RequestLess, WorkerLess

-----------------------------------------------------------------------------
(***************************************************************************)
(* What a call copies, and the page that it cuts out.                      *)
(***************************************************************************)
\* The collection, what the walk asks for, and the elements that a call has
\* copied, with the border among them.
CollOK ==
    /\ walk \in Walks
    /\ IsFiniteSet(DOMAIN coll) /\ DOMAIN coll \subseteq IDs
    /\ coll \in [DOMAIN coll -> Infos(walk.kind)]

ResOK ==
    /\ from \in IDs \cup {NoID}
    /\ IsFiniteSet(res) /\ res \subseteq IDs \X Infos(walk.kind)
    /\ \A d, e \in res : d[1] = e[1] => d = e
    /\ from # NoID => \E e \in res : e[1] = from
    /\ \A e \in res : Matches(e) \/ e[1] = from

\* The element that a walk has come to.
Frontier == IF from = NoID THEN <<NoID, {}>> ELSE CHOOSE e \in res : e[1] = from

\* The list of n elements has what the call has copied, in the order asked for.
IsList(list, n) ==
    /\ list \in [1 .. n -> res]
    /\ \A i, j \in 1 .. n : i # j => list[i][1] # list[j][1]
    /\ \A e \in res : \E k \in 1 .. n : list[k] = e
    /\ \A i, j \in 1 .. n : i # j => (LessIn(walk.order, list[i], list[j]) <=> i < j)

\* Order and direction arrive as they were sent.
LEMMA TextKept == walk \in Walks => Order = walk.order /\ Direction = walk.dir
BY DEF Walks, Order, Direction, SortOrderString, SortOrderUnmarshal, DirectionString, DirectionUnmarshal

\* A page has room.
LEMMA LimitPositive == walk \in Walks => Limit \in Nat \ {0}
<1>. SUFFICES ASSUME walk \in Walks PROVE Limit \in Nat \ {0}
  OBVIOUS
<1>1. walk.limit \in Nat /\ MaxPageLimit \in Nat \ {0}
  BY LimitsAssumption DEF LimitsAssumption, Walks
<1>. QED  BY <1>1 DEF Limit

\* The sort ends with such a list, of which there is one only.
LEMMA SortedList ==
    ASSUME walk \in Walks, ResOK, NEW list \in Sorted(res)
    PROVE  \E n \in Nat : n = Cardinality(res) /\ IsList(list, n)
<1>1. PICK n \in Nat : n = Cardinality(res)
  BY FS_CardinalityType DEF ResOK
<1>2. /\ list \in [1 .. n -> res]
      /\ \A i, j \in 1 .. n : i # j => list[i] # list[j]
      /\ \A i, j \in 1 .. n : i < j => ~LessIn(walk.order, list[j], list[i])
  BY <1>1, TextKept DEF Sorted, SetToSeqs
<1>3. \A i, j \in 1 .. n : i # j => list[i][1] # list[j][1]
  BY <1>2 DEF ResOK
<1>4. \A e \in res : \E k \in 1 .. n : list[k] = e
  <2>1. list \in Injection(1 .. n, res)
    BY <1>2 DEF Injection, IsInjective
  <2>2. Cardinality(1 .. n) = n
    BY FS_Interval
  <2>3. list \in Surjection(1 .. n, res)
    BY <1>1, <2>1, <2>2, FS_Injection DEF ResOK
  <2>. QED  BY <2>3 DEF Surjection
<1>5. ASSUME NEW i \in 1 .. n, NEW j \in 1 .. n, i # j
      PROVE  LessIn(walk.order, list[i], list[j]) <=> i < j
  <2>1. list[i] \in IDs \X Infos(walk.kind) /\ list[j] \in IDs \X Infos(walk.kind) /\ list[i][1] # list[j][1]
    BY <1>2, <1>3, <1>5 DEF ResOK
  <2>2. walk.order \in BOOLEAN
    BY DEF Walks
  <2>3. LessIn(walk.order, list[i], list[j]) <=> ~LessIn(walk.order, list[j], list[i])
    BY <2>1, <2>2, LessTotal
  <2>4. i < j \/ j < i
    BY <1>5
  <2>5. i < j => ~(j < i)
    OBVIOUS
  <2>. QED  BY <1>2, <2>3, <2>4, <2>5
<1>. QED  BY <1>1, <1>2, <1>3, <1>4, <1>5 DEF IsList

\* The elements at the given places of a list.
Part(list, places) == {list[k] : k \in places}

\* T has the elements at the places J, of those at the places I.
IsPart(T, list, I, J) ==
    T \subseteq Part(list, I) /\ J \subseteq I /\ \A k \in I : list[k] \in T <=> k \in J

\* What is chosen by its places is the part at these places.
LEMMA Chosen == \A T, list, I, J : IsPart(T, list, I, J) => T = Part(list, J)
BY DEF Part, IsPart

\* The places a to b of a list of n different elements.
Segment(list, n, a, b) ==
    /\ n \in Nat /\ DOMAIN list = 1 .. n /\ \A i, j \in 1 .. n : i # j => list[i] # list[j]
    /\ a \in 1 .. n + 1 /\ b \in 0 .. n /\ a <= b + 1

\* There are as many elements as places.
LEMMA SegmentSize ==
    ASSUME NEW list, NEW n, NEW a, NEW b, Segment(list, n, a, b)
    PROVE  IsFiniteSet(Part(list, a .. b)) /\ Cardinality(Part(list, a .. b)) = b - a + 1
<1>. DEFINE I == a .. b
            T == Part(list, I)
            f == [k \in I |-> list[k]]
<1>1. I \subseteq 1 .. n /\ a \in Int /\ b \in Int /\ a <= b + 1
  BY DEF Segment
<1>2. f \in Bijection(I, T)
  BY <1>1 DEF Segment, Part, Bijection, Injection, Surjection, IsInjective
<1>3. IsFiniteSet(I) /\ Cardinality(I) = b - a + 1
  <2>1. IsFiniteSet(I) /\ Cardinality(I) = IF a > b THEN 0 ELSE b - a + 1
    BY <1>1, FS_Interval
  <2>. QED  BY <1>1, <2>1
<1>4. ExistsBijection(I, T)
  BY <1>2 DEF ExistsBijection
<1>. QED  BY <1>3, <1>4, FS_Bijection

\* The place of the border in the list.
LEMMA BorderPlace ==
    ASSUME walk \in Walks, ResOK, NEW n \in Nat, NEW list, IsList(list, n), from # NoID
    PROVE  \E k \in 1 .. n : list[k][1] = from /\ Frontier = list[k] /\ IndexOf(list, from) = k - 1
<1>1. PICK e \in res : e[1] = from
  BY DEF ResOK
<1>2. PICK k \in 1 .. n : list[k] = e
  BY DEF IsList
<1>3. DOMAIN list = 1 .. n /\ {i \in 1 .. n : list[i][1] = from} = {k}
  BY <1>1, <1>2 DEF IsList
<1>4. Min({k}) = k
  BY LeastOf
<1>5. IndexOf(list, from) = k - 1
  BY <1>3, <1>4 DEF IndexOf
<1>6. Frontier = e
  BY <1>1 DEF Frontier, ResOK
<1>. QED  BY <1>1, <1>2, <1>5, <1>6

\* The page has the places lo + 1 to hi of the list, whose length is n.
ForwardCut(list, n, lim, lo, hi) ==
    /\ lo <= hi
    /\ from = NoID => lo = 0
    /\ from # NoID => lo # 0 /\ list[lo][1] = from /\ Frontier = list[lo]
    /\ hi = IF lo + lim <= n THEN lo + lim ELSE n
    /\ CutPage(list, from) = [page |-> SubSeq(list, lo + 1, hi), remaining |-> n - hi]

BackwardCut(list, n, lim, lo, hi) ==
    /\ lo <= hi
    /\ from = NoID => hi = n
    /\ from # NoID => hi < n /\ list[hi + 1][1] = from /\ Frontier = list[hi + 1]
    /\ lo = IF lim <= hi THEN hi - lim ELSE 0
    /\ CutPage(list, from) = [page |-> SubSeq(list, lo + 1, hi), remaining |-> lo]

\* A page forward begins after the border.
LEMMA CutForward ==
    ASSUME walk \in Walks, ResOK, NEW n \in Nat, NEW list, IsList(list, n), walk.dir = DirectionForward,
           NEW lim \in Nat \ {0}, lim = Limit
    PROVE  \E lo \in 0 .. n, hi \in 0 .. n : ForwardCut(list, n, lim, lo, hi)
<1>1. PICK lo \in 0 .. n :
        /\ from = NoID => lo = 0
        /\ from # NoID => lo # 0 /\ list[lo][1] = from /\ Frontier = list[lo] /\ IndexOf(list, from) = lo - 1
  <2>1. CASE from = NoID
    BY <2>1
  <2>2. CASE from # NoID
    BY <2>2, BorderPlace
  <2>. QED  BY <2>1, <2>2
<1>3. list \in Seq(res) /\ Len(list) = n
  BY DEF IsList
<1>4. PICK elems \in Nat : elems = Min({Limit, n - lo}) /\ elems = IF lim <= n - lo THEN lim ELSE n - lo
  BY LesserOf
<1>5. (IF from = NoID THEN 0 ELSE IndexOf(list, from) + 1) = lo
  BY <1>1
<1>6. CutPage(list, from) = [page |-> SubSeq(list, lo + 1, lo + elems), remaining |-> n - lo - elems]
  BY <1>3, <1>4, <1>5, TextKept DEF CutPage
<1>. DEFINE hi == lo + elems
<1>7. hi \in 0 .. n /\ lo <= hi /\ hi = (IF lo + lim <= n THEN lo + lim ELSE n) /\ n - lo - elems = n - hi
  BY <1>4
<1>. QED  BY <1>1, <1>6, <1>7 DEF ForwardCut

\* A page backward ends before the border.
LEMMA CutBackward ==
    ASSUME walk \in Walks, ResOK, NEW n \in Nat, NEW list, IsList(list, n), walk.dir # DirectionForward,
           NEW lim \in Nat \ {0}, lim = Limit
    PROVE  \E hi \in 0 .. n, lo \in 0 .. n : BackwardCut(list, n, lim, lo, hi)
<1>1. PICK hi \in 0 .. n :
        /\ from = NoID => hi = n
        /\ from # NoID => hi < n /\ list[hi + 1][1] = from /\ Frontier = list[hi + 1] /\ IndexOf(list, from) = hi
  <2>1. CASE from = NoID
    BY <2>1
  <2>2. CASE from # NoID
    <3>1. PICK k \in 1 .. n : list[k][1] = from /\ Frontier = list[k] /\ IndexOf(list, from) = k - 1
      BY <2>2, BorderPlace
    <3>2. PICK h \in 0 .. n : h = k - 1 /\ h + 1 = k /\ h < n
      OBVIOUS
    <3>. QED  BY <2>2, <3>1, <3>2
  <2>. QED  BY <2>1, <2>2
<1>3. list \in Seq(res) /\ Len(list) = n
  BY DEF IsList
<1>4. PICK back \in Nat : back = Min({Limit, hi}) /\ back = IF lim <= hi THEN lim ELSE hi
  BY LesserOf
<1>5. (IF from = NoID THEN n ELSE IndexOf(list, from)) = hi
  BY <1>1
<1>6. CutPage(list, from) = [page |-> SubSeq(list, hi - back + 1, hi), remaining |-> hi - back]
  BY <1>3, <1>4, <1>5, TextKept DEF CutPage
<1>. DEFINE lo == hi - back
<1>7. lo \in 0 .. n /\ lo <= hi /\ lo = (IF lim <= hi THEN hi - lim ELSE 0)
  BY <1>4
<1>. QED  BY <1>1, <1>6, <1>7 DEF BackwardCut

-----------------------------------------------------------------------------
(***************************************************************************)
(* PageRight: the page is the one that was asked for.                      *)
(***************************************************************************)
\* What PageRight says of a page.
NearerTo(e) ==
    {f \in Ahead(Frontier) : f # e /\
        IF walk.dir = DirectionForward THEN LessIn(walk.order, f, e) ELSE LessIn(walk.order, e, f)}

NextPage == {e \in Ahead(Frontier) : Cardinality(NearerTo(e)) < Limit}

PageFits(page, remaining) ==
    /\ ToSet(page) = NextPage
    /\ \A i, j \in DOMAIN page : i < j => LessIn(walk.order, page[i], page[j])
    /\ remaining = Cardinality(Ahead(Frontier) \ NextPage)

\* The elements ahead are those after the border, or those before it.
LEMMA AheadForward ==
    ASSUME walk \in Walks, ResOK, NEW n \in Nat, NEW list, IsList(list, n), walk.dir = DirectionForward,
           NEW lo \in 0 .. n, from = NoID => lo = 0,
           from # NoID => lo # 0 /\ list[lo][1] = from /\ Frontier = list[lo]
    PROVE  Ahead(Frontier) = Part(list, lo + 1 .. n)
<1>1. ASSUME NEW k \in 1 .. n PROVE list[k] \in Ahead(Frontier) <=> lo < k
  <2>1. list[k] \in res /\ list[k][1] \in Nat \ {0}
    <3>1. list[k] \in res /\ list[k] \in IDs \X Infos(walk.kind)
      BY DEF IsList, ResOK
    <3>. QED  BY <3>1, IDAssumption DEF IDAssumption
  <2>2. CASE from = NoID
    <3>1. Matches(list[k]) /\ Frontier[1] = NoID /\ lo = 0
      BY <2>1, <2>2 DEF ResOK, Frontier
    <3>. QED  BY <2>1, <3>1 DEF Ahead
  <2>3. CASE from # NoID
    <3>1. Frontier = list[lo] /\ lo \in 1 .. n /\ list[lo][1] = from
      BY <2>3
    <3>2. k # lo => list[k][1] # from /\ Matches(list[k])
      BY <2>1, <3>1 DEF IsList, ResOK
    <3>3. k # lo => (LessIn(walk.order, list[lo], list[k]) <=> lo < k)
      BY <3>1 DEF IsList
    <3>. QED  BY <2>1, <2>3, <3>1, <3>2, <3>3 DEF Ahead
  <2>. QED  BY <2>2, <2>3
<1>2. Ahead(Frontier) \subseteq res
  BY DEF Ahead
<1>3. \A e \in res : \E k \in 1 .. n : list[k] = e
  BY DEF IsList
<1>4. \A k \in lo + 1 .. n : k \in 1 .. n /\ lo < k
  OBVIOUS
<1>5. \A k \in 1 .. n : lo < k => k \in lo + 1 .. n
  OBVIOUS
<1>. QED  BY <1>1, <1>2, <1>3, <1>4, <1>5 DEF Part

\* If the client goes backward.
LEMMA AheadBackward ==
    ASSUME walk \in Walks, ResOK, NEW n \in Nat, NEW list, IsList(list, n), walk.dir # DirectionForward,
           NEW hi \in 0 .. n, from = NoID => hi = n,
           from # NoID => hi < n /\ list[hi + 1][1] = from /\ Frontier = list[hi + 1]
    PROVE  Ahead(Frontier) = Part(list, 1 .. hi)
<1>0. ~(walk.dir = DirectionForward)
  OBVIOUS
<1>1. ASSUME NEW k \in 1 .. n PROVE list[k] \in Ahead(Frontier) <=> k <= hi
  <2>1. list[k] \in res /\ list[k][1] \in Nat \ {0}
    <3>1. list[k] \in res /\ list[k] \in IDs \X Infos(walk.kind)
      BY DEF IsList, ResOK
    <3>. QED  BY <3>1, IDAssumption DEF IDAssumption
  <2>2. CASE from = NoID
    <3>1. Matches(list[k]) /\ Frontier[1] = NoID /\ hi = n
      BY <2>1, <2>2 DEF ResOK, Frontier
    <3>. QED  BY <2>1, <3>1 DEF Ahead
  <2>3. CASE from # NoID
    <3>1. PICK b \in 1 .. n : b = hi + 1 /\ Frontier = list[b] /\ list[b][1] = from
      BY <2>3
    <3>2. k # b => list[k][1] # from /\ Matches(list[k])
      BY <2>1, <3>1 DEF IsList, ResOK
    <3>3. k # b => (LessIn(walk.order, list[k], list[b]) <=> k < b)
      BY <3>1 DEF IsList
    <3>4. (k <= hi <=> k < b) /\ (k = b => ~(k < b)) /\ Frontier[1] # NoID
      BY <2>3, <3>1
    <3>5. k = b => list[k] \notin Ahead(Frontier)
      BY <1>0, <3>1, <3>4 DEF Ahead
    <3>6. k # b => (list[k] \in Ahead(Frontier) <=> k < b)
      BY <1>0, <2>1, <3>1, <3>2, <3>3, <3>4 DEF Ahead
    <3>. QED  BY <3>4, <3>5, <3>6
  <2>. QED  BY <2>2, <2>3
<1>2. Ahead(Frontier) \subseteq res
  BY DEF Ahead
<1>3. \A e \in res : \E k \in 1 .. n : list[k] = e
  BY DEF IsList
<1>4. \A k \in 1 .. hi : k \in 1 .. n /\ k <= hi
  OBVIOUS
<1>5. \A k \in 1 .. n : k <= hi => k \in 1 .. hi
  OBVIOUS
<1>. QED  BY <1>1, <1>2, <1>3, <1>4, <1>5 DEF Part

\* The page has the places lo + 1 to b of the list.
PageAt(page, list, n, a, b, lo) ==
    /\ lo \in Nat /\ a = lo + 1 /\ lo <= b /\ n \in Nat /\ b \in 0 .. n
    /\ page \in Seq(res) /\ Len(page) = b - lo /\ DOMAIN page = 1 .. b - lo
    /\ \A i \in 1 .. b - lo : lo + i \in 1 .. n /\ page[i] = list[lo + i]

\* The elements of a segment, one by one.
LEMMA SegmentAt ==
    ASSUME NEW list, NEW n, NEW a, NEW b, Segment(list, n, a, b), IsList(list, n),
           NEW page, page = SubSeq(list, a, b)
    PROVE  \E lo : PageAt(page, list, n, a, b, lo)
<1>1. PICK lo \in Nat : a = lo + 1
  <2>1. n \in Nat /\ a \in 1 .. n + 1
    BY DEF Segment
  <2>2. a - 1 \in Nat /\ a = (a - 1) + 1
    BY <2>1
  <2>. QED  BY <2>2
<1>2. list \in Seq(res) /\ Len(list) = n /\ n \in Nat /\ b \in 0 .. n /\ lo <= b
  BY <1>1 DEF Segment, IsList
<1>3. page \in Seq(res) /\ Len(page) = b - lo /\ \A i \in 1 .. b - lo : lo + i \in 1 .. n /\ page[i] = list[lo + i]
  <2>1. a \in Int /\ b \in Int /\ \A k \in a .. b : list[k] \in res
    BY <1>1, <1>2
  <2>2. /\ page \in Seq(res) /\ Len(page) = IF a <= b THEN b - a + 1 ELSE 0
        /\ \A i \in 1 .. b - a + 1 : page[i] = list[a + i - 1]
    BY <2>1, SubSeqProperties
  <2>3. (IF a <= b THEN b - a + 1 ELSE 0) = b - lo /\ b - a + 1 = b - lo
    BY <1>1, <1>2
  <2>4. \A i \in 1 .. b - lo : lo + i \in 1 .. n /\ a + i - 1 = lo + i
    BY <1>1, <1>2
  <2>. QED  BY <2>2, <2>3, <2>4
<1>4. DOMAIN page = 1 .. b - lo
  BY <1>2, <1>3
<1>. QED  BY <1>1, <1>2, <1>3, <1>4 DEF PageAt

\* A segment of the list, as a page.
LEMMA SegmentPage ==
    ASSUME NEW list, NEW n, NEW a, NEW b, Segment(list, n, a, b), IsList(list, n)
    PROVE  /\ ToSet(SubSeq(list, a, b)) = Part(list, a .. b)
           /\ \A i, j \in DOMAIN SubSeq(list, a, b) :
                 i < j => LessIn(walk.order, SubSeq(list, a, b)[i], SubSeq(list, a, b)[j])
<1>0. PICK page : page = SubSeq(list, a, b)
  OBVIOUS
<1>1. PICK lo : PageAt(page, list, n, a, b, lo)
  BY <1>0, SegmentAt
<1>2. lo \in Nat /\ a = lo + 1 /\ n \in Nat /\ b \in 0 .. n /\ lo <= b
  BY <1>1 DEF PageAt
<1>3. \A i \in 1 .. b - lo : lo + i \in 1 .. n /\ page[i] = list[lo + i]
  BY <1>1 DEF PageAt
<1>4. DOMAIN page = 1 .. b - lo
  BY <1>1 DEF PageAt
<1>5. ToSet(page) = Part(list, a .. b)
  <2>1. \A i \in 1 .. b - lo : lo + i \in a .. b
    BY <1>2
  <2>2. \A k \in a .. b : k - lo \in 1 .. b - lo /\ lo + (k - lo) = k
    BY <1>2
  <2>3. \A k \in a .. b : page[k - lo] = list[k]
    BY <1>3, <2>2
  <2>4. \A i \in 1 .. b - lo : page[i] = list[lo + i]
    BY <1>3
  <2>5. ToSet(page) = {page[i] : i \in 1 .. b - lo}
    BY <1>4 DEF ToSet
  <2>6. \A x : (\E i \in 1 .. b - lo : x = page[i]) <=> (\E k \in a .. b : x = list[k])
    BY <2>1, <2>2, <2>3, <2>4
  <2>. QED  BY <2>5, <2>6 DEF Part
<1>6. ASSUME NEW i \in 1 .. b - lo, NEW j \in 1 .. b - lo, i < j PROVE LessIn(walk.order, page[i], page[j])
  <2>1. lo + i \in 1 .. n /\ lo + j \in 1 .. n /\ lo + i # lo + j /\ lo + i < lo + j
    BY <1>2, <1>6
  <2>. QED  BY <1>3, <2>1 DEF IsList
<1>. QED  BY <1>0, <1>4, <1>5, <1>6

\* A page takes the places P of the places A ahead, and leaves c elements at
\* the places R; near[k] are the places between the border and the place k.
RightPlaces(list, n, A, P, R, c, near) ==
    /\ A \subseteq 1 .. n /\ P \subseteq A /\ R = A \ P
    /\ Ahead(Frontier) = Part(list, A) /\ Cardinality(Part(list, R)) = c
    /\ \A k \in A : near[k] \subseteq A
    /\ \A k, j \in A : j \in near[k] <=> IF walk.dir = DirectionForward THEN j < k ELSE k < j
    /\ \A k \in A : Cardinality(Part(list, near[k])) < Limit <=> k \in P

\* Such a page is the next one.
LEMMA RightPage ==
    ASSUME NEW list, NEW n \in Nat, NEW A, NEW P, NEW R, NEW c, NEW near,
           IsList(list, n), RightPlaces(list, n, A, P, R, c, near)
    PROVE  NextPage = Part(list, P) /\ Cardinality(Ahead(Frontier) \ NextPage) = c
<1>1. \A i, j \in 1 .. n : i # j => list[i] # list[j]
  BY DEF IsList
<1>2. A \subseteq 1 .. n /\ Ahead(Frontier) = Part(list, A)
  BY DEF RightPlaces
<1>3. \A k \in A : list[k] \in Ahead(Frontier)
  BY <1>2 DEF Part
<1>4. ASSUME NEW k \in A PROVE NearerTo(list[k]) = Part(list, near[k])
  <2>1. NearerTo(list[k]) \subseteq Part(list, A) /\ near[k] \subseteq A
    BY <1>2 DEF NearerTo, RightPlaces
  <2>2. ASSUME NEW j \in A PROVE list[j] \in NearerTo(list[k]) <=> j \in near[k]
    <3>1. j \in 1 .. n /\ k \in 1 .. n
      BY <1>2
    <3>2. j # k => list[j] # list[k] /\ (LessIn(walk.order, list[j], list[k]) <=> j < k)
                                     /\ (LessIn(walk.order, list[k], list[j]) <=> k < j)
      BY <1>1, <3>1 DEF IsList
    <3>3. j = k => ~(j < k) /\ ~(k < j)
      BY <3>1
    <3>4. list[j] \in NearerTo(list[k]) <=>
              list[j] # list[k] /\ IF walk.dir = DirectionForward THEN LessIn(walk.order, list[j], list[k])
                                                                  ELSE LessIn(walk.order, list[k], list[j])
      BY <1>3 DEF NearerTo
    <3>5. j \in near[k] <=> IF walk.dir = DirectionForward THEN j < k ELSE k < j
      BY DEF RightPlaces
    <3>. QED  BY <3>2, <3>3, <3>4, <3>5
  <2>3. IsPart(NearerTo(list[k]), list, A, near[k])
    BY <2>1, <2>2 DEF IsPart
  <2>. QED  BY <2>3, Chosen
<1>5. NextPage = Part(list, P)
  <2>1. NextPage \subseteq Part(list, A) /\ P \subseteq A
    BY <1>2 DEF NextPage, RightPlaces
  <2>2. ASSUME NEW k \in A PROVE list[k] \in NextPage <=> k \in P
    <3>1. Cardinality(Part(list, near[k])) < Limit <=> k \in P
      BY DEF RightPlaces
    <3>. QED  BY <1>3, <1>4, <3>1 DEF NextPage
  <2>3. IsPart(NextPage, list, A, P)
    BY <2>1, <2>2 DEF IsPart
  <2>. QED  BY <2>3, Chosen
<1>6. Ahead(Frontier) \ NextPage = Part(list, R)
  <2>1. P \subseteq A /\ R = A \ P
    BY DEF RightPlaces
  <2>2. \A i, j \in A : list[i] = list[j] => i = j
    BY <1>1, <1>2
  <2>. HIDE DEF NextPage
  <2>. QED  BY <1>2, <1>5, <2>1, <2>2 DEF Part
<1>7. Cardinality(Part(list, R)) = c
  BY DEF RightPlaces
<1>. QED  BY <1>5, <1>6, <1>7

\* The page that a call cuts out fits.
LEMMA CutFits ==
    ASSUME walk \in Walks, ResOK, NEW list \in Sorted(res)
    PROVE  PageFits(CutPage(list, from).page, CutPage(list, from).remaining)
<1>1. PICK n \in Nat : IsList(list, n)
  BY SortedList
<1>2. PICK lim \in Nat \ {0} : lim = Limit
  BY LimitPositive
<1>3. ASSUME NEW a \in 1 .. n + 1, NEW b \in 0 .. n, a <= b + 1 PROVE Segment(list, n, a, b)
  BY <1>1, <1>3 DEF IsList, Segment
<1>4. CASE walk.dir = DirectionForward
  <2>1. PICK lo \in 0 .. n, hi \in 0 .. n : ForwardCut(list, n, lim, lo, hi)
    BY <1>1, <1>2, <1>4, CutForward
  <2>2. lo <= hi /\ hi = IF lo + lim <= n THEN lo + lim ELSE n
    BY <2>1 DEF ForwardCut
  <2>3. PICK a \in 1 .. n + 1 : a = lo + 1
    OBVIOUS
  <2>4. CutPage(list, from).page = SubSeq(list, a, hi) /\ CutPage(list, from).remaining = n - hi
    BY <2>1, <2>3 DEF ForwardCut
  <2>. DEFINE near == [k \in a .. n |-> a .. k - 1]
  <2>5. RightPlaces(list, n, a .. n, a .. hi, hi + 1 .. n, n - hi, near)
    <3>1. a .. n \subseteq 1 .. n /\ a .. hi \subseteq a .. n /\ hi + 1 .. n = (a .. n) \ (a .. hi)
      BY <2>2, <2>3
    <3>2. Ahead(Frontier) = Part(list, a .. n)
      BY <1>1, <1>4, <2>1, <2>3, AheadForward DEF ForwardCut
    <3>3. Cardinality(Part(list, hi + 1 .. n)) = n - hi
      <4>1. PICK b \in 1 .. n + 1 : b = hi + 1
        OBVIOUS
      <4>2. Segment(list, n, b, n)
        BY <1>3, <4>1
      <4>. QED  BY <4>1, <4>2, SegmentSize
    <3>4. ASSUME NEW k \in a .. n PROVE Cardinality(Part(list, near[k])) < lim <=> k \in a .. hi
      <4>1. PICK m \in 0 .. n : m = k - 1 /\ a <= m + 1
        BY <2>3
      <4>2. Segment(list, n, a, m)
        BY <1>3, <4>1
      <4>3. Cardinality(Part(list, a .. m)) = m - a + 1
        BY <4>2, SegmentSize
      <4>4. near[k] = a .. m
        BY <4>1
      <4>5. m - a + 1 < lim <=> k \in a .. hi
        BY <2>2, <2>3, <4>1
      <4>. QED  BY <4>3, <4>4, <4>5
    <3>5. ASSUME NEW k \in a .. n PROVE near[k] \subseteq a .. n /\ \A j \in a .. n : j \in near[k] <=> j < k
      OBVIOUS
    <3>. HIDE DEF near
    <3>. QED  BY <1>2, <1>4, <3>1, <3>2, <3>3, <3>4, <3>5 DEF RightPlaces
  <2>6. NextPage = Part(list, a .. hi) /\ Cardinality(Ahead(Frontier) \ NextPage) = n - hi
    <3>. HIDE DEF near
    <3>. QED  BY <1>1, <2>5, RightPage
  <2>7. Segment(list, n, a, hi)
    BY <1>3, <2>2, <2>3
  <2>. QED  BY <1>1, <2>4, <2>6, <2>7, SegmentPage DEF PageFits
<1>5. CASE walk.dir # DirectionForward
  <2>1. PICK hi \in 0 .. n, lo \in 0 .. n : BackwardCut(list, n, lim, lo, hi)
    BY <1>1, <1>2, <1>5, CutBackward
  <2>2. lo <= hi /\ lo = IF lim <= hi THEN hi - lim ELSE 0
    BY <2>1 DEF BackwardCut
  <2>3. PICK a \in 1 .. n + 1 : a = lo + 1
    OBVIOUS
  <2>4. CutPage(list, from).page = SubSeq(list, a, hi) /\ CutPage(list, from).remaining = lo
    BY <2>1, <2>3 DEF BackwardCut
  <2>. DEFINE near == [k \in 1 .. hi |-> k + 1 .. hi]
  <2>5. RightPlaces(list, n, 1 .. hi, a .. hi, 1 .. lo, lo, near)
    <3>1. 1 .. hi \subseteq 1 .. n /\ a .. hi \subseteq 1 .. hi /\ 1 .. lo = (1 .. hi) \ (a .. hi)
      BY <2>2, <2>3
    <3>2. Ahead(Frontier) = Part(list, 1 .. hi)
      BY <1>1, <1>5, <2>1, AheadBackward DEF BackwardCut
    <3>3. Cardinality(Part(list, 1 .. lo)) = lo
      <4>1. Segment(list, n, 1, lo)
        BY <1>3
      <4>. QED  BY <4>1, SegmentSize
    <3>4. ASSUME NEW k \in 1 .. hi PROVE Cardinality(Part(list, near[k])) < lim <=> k \in a .. hi
      <4>1. PICK m \in 1 .. n + 1 : m = k + 1 /\ m <= hi + 1
        OBVIOUS
      <4>2. Segment(list, n, m, hi)
        BY <1>3, <4>1
      <4>3. Cardinality(Part(list, m .. hi)) = hi - m + 1
        BY <4>2, SegmentSize
      <4>4. near[k] = m .. hi
        BY <4>1
      <4>5. hi - m + 1 < lim <=> k \in a .. hi
        BY <2>2, <2>3, <4>1
      <4>. QED  BY <4>3, <4>4, <4>5
    <3>5. ASSUME NEW k \in 1 .. hi PROVE near[k] \subseteq 1 .. hi /\ \A j \in 1 .. hi : j \in near[k] <=> k < j
      OBVIOUS
    <3>. HIDE DEF near
    <3>. QED  BY <1>2, <1>5, <3>1, <3>2, <3>3, <3>4, <3>5 DEF RightPlaces
  <2>6. NextPage = Part(list, a .. hi) /\ Cardinality(Ahead(Frontier) \ NextPage) = lo
    <3>. HIDE DEF near
    <3>. QED  BY <1>1, <2>5, RightPage
  <2>7. Segment(list, n, a, hi)
    BY <1>3, <2>2, <2>3
  <2>. QED  BY <1>1, <2>4, <2>6, <2>7, SegmentPage DEF PageFits
<1>. QED  BY <1>4, <1>5

-----------------------------------------------------------------------------
(***************************************************************************)
(* The inductive invariant.  A walk is at its border, and every steady     *)
(* element has been seen once if it is not beyond the border, and never if *)
(* it is.                                                                  *)
(***************************************************************************)
\* The element e is still ahead of a client who is at the element b.
Beyond(b, e) ==
    b[1] = NoID \/ (e[1] # b[1] /\ IF walk.dir = DirectionForward THEN LessIn(walk.order, b, e)
                                                                 ELSE LessIn(walk.order, e, b))

Once(id) == \E i \in DOMAIN seen : seen[i] = id /\ \A j \in DOMAIN seen : seen[j] = id => j = i
Never(id) == \A i \in DOMAIN seen : seen[i] # id

Elem == IDs \X Infos(walk.kind)
Bordered(id) == IF from # NoID /\ ~Matches(<<from, pagElem.info>>) THEN 1 ELSE 0

TypesOK ==
    /\ pc \in {"call", "page", "end", "error"}
    /\ seen \in Seq(IDs)
    /\ answer.page \in Seq(Elem)
    /\ DOMAIN pagElem = {"info", "live"}
    /\ steady \subseteq DOMAIN coll

CallOK == pc = "page" \/ Answered => ResOK

PageInv == Answered => PageFits(answer.page, answer.remaining)

TotalInv == Answered => answer.total = Cardinality(res) - Bordered(from)

WalkInv ==
    ~moved => \A id \in steady :
        /\ Matches(<<id, coll[id]>>)
        /\ Once(id) \/ Never(id)
        /\ pc = "call" => (Never(id) <=> Beyond(Border, <<id, coll[id]>>))
        /\ pc = "page" => <<id, coll[id]>> \in res /\ (Never(id) <=> Beyond(Frontier, <<id, coll[id]>>))
        /\ pc = "end" => Once(id)

LInv == CollOK /\ TypesOK /\ CallOK /\ PageInv /\ TotalInv /\ WalkInv

-----------------------------------------------------------------------------
(***************************************************************************)
(* What a page does to a walk.                                             *)
(***************************************************************************)
\* The element that the client goes on from.
Edge(page) == IF walk.dir = DirectionForward THEN Last(page) ELSE Head(page)

Missing(page, e) == \A j \in DOMAIN page : page[j][1] # e[1]

\* An element is on the page, still ahead after it, or was passed before.
OnPage(page, e) ==
    /\ Beyond(Frontier, e)
    /\ \E i \in DOMAIN page : page[i] = e /\ \A j \in DOMAIN page : page[j][1] = e[1] => j = i
    /\ page # <<>> => ~Beyond(Edge(page), e)

AfterPage(page, remaining, e) ==
    Beyond(Frontier, e) /\ Missing(page, e) /\ remaining # 0 /\ (page # <<>> => Beyond(Edge(page), e))

BeforePage(page, e) ==
    ~Beyond(Frontier, e) /\ Missing(page, e) /\ (page # <<>> => ~Beyond(Edge(page), e))

\* What is beyond an element of the list comes after it, or before it.
LEMMA BeyondPlace ==
    ASSUME ResOK, NEW n \in Nat, NEW list, IsList(list, n), NEW p \in 1 .. n, NEW k \in 1 .. n
    PROVE  Beyond(list[p], list[k]) <=> IF walk.dir = DirectionForward THEN p < k ELSE k < p
<1>1. list[p] \in IDs \X Infos(walk.kind)
  BY DEF ResOK, IsList
<1>2. list[p][1] # NoID
  BY <1>1, IDAssumption DEF IDAssumption
<1>3. p # k => /\ list[k][1] # list[p][1]
               /\ LessIn(walk.order, list[p], list[k]) <=> p < k
               /\ LessIn(walk.order, list[k], list[p]) <=> k < p
  BY DEF IsList
<1>4. p = k => ~(p < k) /\ ~(k < p)
  OBVIOUS
<1>. QED  BY <1>2, <1>3, <1>4 DEF Beyond

\* Where the place k is in the walk, if a page has the places lo + 1 to hi.
\* (The three cases are the same in both directions.)
Passage(list, n, lo, hi, page, remaining) ==
    /\ n \in Nat /\ lo \in 0 .. n /\ hi \in 0 .. n /\ lo <= hi
    /\ DOMAIN page = 1 .. hi - lo
    /\ \A i \in 1 .. hi - lo : lo + i \in 1 .. n /\ page[i] = list[lo + i]
    /\ IF walk.dir = DirectionForward
       THEN /\ remaining = n - hi
            /\ \A k \in 1 .. n : Beyond(Frontier, list[k]) <=> lo < k
            /\ page # <<>> => \A k \in 1 .. n : Beyond(Edge(page), list[k]) <=> hi < k
       ELSE /\ remaining = lo
            /\ \A k \in 1 .. n : Beyond(Frontier, list[k]) <=> k <= hi
            /\ page # <<>> => \A k \in 1 .. n : Beyond(Edge(page), list[k]) <=> k <= lo

\* One of the three cases holds for each place.
LEMMA PassageParts ==
    ASSUME NEW list, NEW n, NEW lo, NEW hi, NEW page, NEW remaining,
           IsList(list, n), Passage(list, n, lo, hi, page, remaining), NEW k \in 1 .. n
    PROVE  OnPage(page, list[k]) \/ AfterPage(page, remaining, list[k]) \/ BeforePage(page, list[k])
<1>1. /\ n \in Nat /\ lo \in 0 .. n /\ hi \in 0 .. n /\ lo <= hi
      /\ DOMAIN page = 1 .. hi - lo
      /\ \A i \in 1 .. hi - lo : lo + i \in 1 .. n /\ page[i] = list[lo + i]
  BY DEF Passage
<1>2. ASSUME NEW i \in DOMAIN page
      PROVE  page[i][1] = list[k][1] <=> lo + i = k
  <2>1. lo + i \in 1 .. n /\ page[i] = list[lo + i]
    BY <1>1
  <2>2. \A p, q \in 1 .. n : p # q => list[p][1] # list[q][1]
    BY DEF IsList
  <2>. QED  BY <2>1, <2>2
<1>3. CASE k \in lo + 1 .. hi
  <2>1. PICK i \in 1 .. hi - lo : lo + i = k
    <3>1. k - lo \in 1 .. hi - lo /\ lo + (k - lo) = k
      BY <1>1, <1>3
    <3>. QED  BY <3>1
  <2>2. page[i] = list[k] /\ i \in DOMAIN page
    BY <1>1, <2>1
  <2>3. \A j \in DOMAIN page : page[j][1] = list[k][1] => j = i
    <3>1. \A j \in 1 .. hi - lo : lo + j = k => j = i
      BY <1>1, <2>1
    <3>. QED  BY <1>1, <1>2, <3>1
  <2>4. Beyond(Frontier, list[k]) /\ (page # <<>> => ~Beyond(Edge(page), list[k]))
    <3>1. lo < k /\ k <= hi /\ ~(hi < k) /\ ~(k <= lo)
      BY <1>1, <1>3
    <3>. QED  BY <3>1 DEF Passage
  <2>. QED  BY <2>2, <2>3, <2>4 DEF OnPage
<1>4. CASE k \notin lo + 1 .. hi
  <2>1. Missing(page, list[k])
    <3>1. \A i \in 1 .. hi - lo : lo + i # k
      BY <1>1, <1>4
    <3>. QED  BY <1>1, <1>2, <3>1 DEF Missing
  <2>2. CASE walk.dir = DirectionForward
    <3>1. k <= lo \/ hi < k
      BY <1>1, <1>4
    <3>2. CASE k <= lo
      <4>1. ~(lo < k) /\ ~(hi < k)
        BY <1>1, <3>2
      <4>. QED  BY <2>1, <2>2, <4>1 DEF Passage, BeforePage
    <3>3. CASE hi < k
      <4>1. lo < k /\ n - hi # 0
        BY <1>1, <3>3
      <4>. QED  BY <2>1, <2>2, <3>3, <4>1 DEF Passage, AfterPage
    <3>. QED  BY <3>1, <3>2, <3>3
  <2>3. CASE walk.dir # DirectionForward
    <3>1. k <= lo \/ hi < k
      BY <1>1, <1>4
    <3>2. CASE hi < k
      <4>1. ~(k <= hi) /\ ~(k <= lo)
        BY <1>1, <3>2
      <4>. QED  BY <2>1, <2>3, <4>1 DEF Passage, BeforePage
    <3>3. CASE k <= lo
      <4>1. k <= hi /\ lo # 0
        BY <1>1, <3>3
      <4>. QED  BY <2>1, <2>3, <3>3, <4>1 DEF Passage, AfterPage
    <3>. QED  BY <3>1, <3>2, <3>3
  <2>. QED  BY <2>2, <2>3
<1>. QED  BY <1>3, <1>4

\* The page that a call cuts out takes the walk on.
LEMMA CutWalk ==
    ASSUME walk \in Walks, ResOK, NEW list \in Sorted(res), NEW page, NEW remaining,
           page = CutPage(list, from).page, remaining = CutPage(list, from).remaining
    PROVE  /\ page \in Seq(res)
           /\ page = <<>> => remaining = 0
           /\ \A e \in res : OnPage(page, e) \/ AfterPage(page, remaining, e) \/ BeforePage(page, e)
<1>1. PICK n \in Nat : IsList(list, n)
  BY SortedList
<1>2. PICK lim \in Nat \ {0} : lim = Limit
  BY LimitPositive
<1>3. ASSUME NEW lo \in 0 .. n, NEW hi \in 0 .. n, lo <= hi, page = SubSeq(list, lo + 1, hi)
      PROVE  /\ page \in Seq(res) /\ Len(page) = hi - lo /\ DOMAIN page = 1 .. hi - lo
             /\ \A i \in 1 .. hi - lo : lo + i \in 1 .. n /\ page[i] = list[lo + i]
  <2>1. PICK a \in 1 .. n + 1 : a = lo + 1
    OBVIOUS
  <2>2. Segment(list, n, a, hi)
    BY <1>1, <1>3, <2>1 DEF IsList, Segment
  <2>3. page = SubSeq(list, a, hi)
    BY <1>3, <2>1
  <2>4. PICK l : PageAt(page, list, n, a, hi, l)
    BY <1>1, <2>2, <2>3, SegmentAt
  <2>5. l = lo
    BY <2>1, <2>4 DEF PageAt
  <2>. QED  BY <2>4, <2>5 DEF PageAt
<1>4. \E lo, hi : Passage(list, n, lo, hi, page, remaining) /\ page \in Seq(res) /\ (page = <<>> => remaining = 0)
  <2>1. CASE walk.dir = DirectionForward
    <3>1. PICK lo \in 0 .. n, hi \in 0 .. n : ForwardCut(list, n, lim, lo, hi)
      BY <1>1, <1>2, <2>1, CutForward
    <3>2. lo <= hi /\ page = SubSeq(list, lo + 1, hi) /\ remaining = n - hi
      BY <3>1 DEF ForwardCut
    <3>3. /\ page \in Seq(res) /\ Len(page) = hi - lo /\ DOMAIN page = 1 .. hi - lo
          /\ \A i \in 1 .. hi - lo : lo + i \in 1 .. n /\ page[i] = list[lo + i]
      BY <1>3, <3>2
    <3>4. page = <<>> => remaining = 0
      <4>1. hi = IF lo + lim <= n THEN lo + lim ELSE n
        BY <3>1 DEF ForwardCut
      <4>2. hi - lo = 0 => n - hi = 0
        BY <3>2, <4>1
      <4>. QED  BY <3>2, <3>3, <4>2
    <3>5. ASSUME NEW k \in 1 .. n PROVE Beyond(Frontier, list[k]) <=> lo < k
      <4>1. CASE from = NoID
        BY <3>1, <4>1 DEF ForwardCut, Frontier, Beyond
      <4>2. CASE from # NoID
        <5>1. lo \in 1 .. n /\ Frontier = list[lo]
          BY <3>1, <4>2 DEF ForwardCut
        <5>. QED  BY <1>1, <2>1, <5>1, BeyondPlace
      <4>. QED  BY <4>1, <4>2
    <3>6. ASSUME page # <<>>, NEW k \in 1 .. n PROVE Beyond(Edge(page), list[k]) <=> hi < k
      <4>0. Len(page) # 0
        BY <3>3, <3>6, EmptySeq
      <4>1. hi - lo # 0 /\ hi - lo \in 1 .. hi - lo /\ lo + (hi - lo) = hi /\ hi \in 1 .. n
        BY <3>2, <3>3, <4>0
      <4>2. Edge(page) = list[hi]
        BY <2>1, <3>3, <4>1 DEF Edge, Last
      <4>. QED  BY <1>1, <2>1, <4>1, <4>2, BeyondPlace
    <3>. QED  BY <2>1, <3>2, <3>3, <3>4, <3>5, <3>6 DEF Passage
  <2>2. CASE walk.dir # DirectionForward
    <3>1. PICK hi \in 0 .. n, lo \in 0 .. n : BackwardCut(list, n, lim, lo, hi)
      BY <1>1, <1>2, <2>2, CutBackward
    <3>2. lo <= hi /\ page = SubSeq(list, lo + 1, hi) /\ remaining = lo
      <4>1. lo <= hi /\ CutPage(list, from) = [page |-> SubSeq(list, lo + 1, hi), remaining |-> lo]
        BY <3>1 DEF BackwardCut
      <4>. QED  BY <4>1
    <3>3. /\ page \in Seq(res) /\ Len(page) = hi - lo /\ DOMAIN page = 1 .. hi - lo
          /\ \A i \in 1 .. hi - lo : lo + i \in 1 .. n /\ page[i] = list[lo + i]
      BY <1>3, <3>2
    <3>4. page = <<>> => remaining = 0
      <4>1. lo = IF lim <= hi THEN hi - lim ELSE 0
        BY <3>1 DEF BackwardCut
      <4>2. hi - lo = 0 => lo = 0
        BY <3>2, <4>1
      <4>. QED  BY <3>2, <3>3, <4>2
    <3>5. ASSUME NEW k \in 1 .. n PROVE Beyond(Frontier, list[k]) <=> k <= hi
      <4>1. CASE from = NoID
        BY <3>1, <4>1 DEF BackwardCut, Frontier, Beyond
      <4>2. CASE from # NoID
        <5>1. PICK b \in 1 .. n : b = hi + 1 /\ Frontier = list[b]
          BY <3>1, <4>2 DEF BackwardCut
        <5>2. k < b <=> k <= hi
          BY <5>1
        <5>. QED  BY <1>1, <2>2, <5>1, <5>2, BeyondPlace
      <4>. QED  BY <4>1, <4>2
    <3>6. ASSUME page # <<>>, NEW k \in 1 .. n PROVE Beyond(Edge(page), list[k]) <=> k <= lo
      <4>0. Len(page) # 0
        BY <3>3, <3>6, EmptySeq
      <4>1. 1 \in 1 .. hi - lo /\ lo + 1 \in 1 .. n
        BY <3>2, <3>3, <4>0
      <4>2. PICK b \in 1 .. n : b = lo + 1 /\ page[1] = list[b]
        BY <3>3, <4>1
      <4>4. Edge(page) = list[b]
        <5>1. Head(page) = page[1]
          BY <3>3, <4>0
        <5>2. Edge(page) = Head(page)
          BY <2>2 DEF Edge
        <5>. QED  BY <4>2, <5>1, <5>2
      <4>3. k < b <=> k <= lo
        BY <4>2
      <4>. QED  BY <1>1, <2>2, <4>3, <4>4, BeyondPlace
    <3>. QED  BY <2>2, <3>2, <3>3, <3>4, <3>5, <3>6 DEF Passage
  <2>. QED  BY <2>1, <2>2
<1>5. ASSUME NEW e \in res PROVE OnPage(page, e) \/ AfterPage(page, remaining, e) \/ BeforePage(page, e)
  <2>1. PICK k \in 1 .. n : list[k] = e
    BY <1>1 DEF IsList
  <2>. QED  BY <1>1, <1>4, <2>1, PassageParts
<1>. QED  BY <1>4, <1>5

-----------------------------------------------------------------------------
(***************************************************************************)
(* The invariant is inductive.                                             *)
(***************************************************************************)
\* It holds when a walk begins.
LEMMA InitListing == Init => LInv
<1>. SUFFICES ASSUME Init PROVE LInv
  OBVIOUS
<1>1. CollOK
  <2>1. PICK ids \in SUBSET IDs : IsCollection(walk.kind, ids) /\ coll \in [ids -> Infos(walk.kind)]
    BY DEF Init
  <2>. QED  BY <2>1 DEF Init, CollOK, IsCollection
<1>2. ~Answered /\ Border[1] = NoID /\ pc = "call" /\ seen = <<>>
  BY DEF Init, Answered, Border, NoAnswer
<1>3. \A id \in steady : id \in DOMAIN coll /\ Matches(<<id, coll[id]>>)
  BY DEF Init, Elements
<1>4. TypesOK
  <2>1. DOMAIN pagElem = {"info", "live"}
    BY DEF Init, NoElem
  <2>2. answer.page = <<>> /\ seen = <<>>
    BY DEF Init, NoAnswer
  <2>3. steady \subseteq DOMAIN coll
    BY <1>3
  <2>. QED  BY <1>2, <2>1, <2>2, <2>3 DEF TypesOK
<1>5. WalkInv
  <2>1. \A id : Never(id)
    BY <1>2 DEF Never
  <2>. QED  BY <1>2, <1>3, <2>1 DEF WalkInv, Beyond
<1>. QED  BY <1>1, <1>2, <1>4, <1>5 DEF LInv, CallOK, PageInv, TotalInv

\* Whether a page fits depends on what the call copied.
LEMMA PageFitsKept ==
    ASSUME walk' = walk, res' = res, from' = from, NEW page, NEW remaining, PageFits(page, remaining)
    PROVE  PageFits(page, remaining)'
BY DEF PageFits, NextPage, NearerTo, Ahead, Frontier, Matches, RequestWalk, LessIn, Limit

\* A step of others, that leaves the elements steady that are.
OthersStep ==
    /\ UNCHANGED <<walk, pc, from, res, answer, seen, moved>>
    /\ CollOK'
    /\ steady' \subseteq steady \cap DOMAIN coll'
    /\ \A id \in steady' : coll'[id] = coll[id]
    /\ DOMAIN pagElem' = DOMAIN pagElem
    /\ pc # "page" => pagElem'.info = pagElem.info

\* Such a step does not matter to the walk.
LEMMA OthersKeep == LInv /\ OthersStep => LInv'
<1>. SUFFICES ASSUME LInv, OthersStep PROVE LInv'
  OBVIOUS
<1>. USE DEF OthersStep
<1>1. CollOK'
  OBVIOUS
<1>2. TypesOK'
  BY DEF LInv, TypesOK, Elem
<1>3. (ResOK => ResOK') /\ (Answered' <=> Answered)
  BY DEF ResOK, Matches, RequestWalk, Answered
<1>4. CallOK'
  BY <1>3 DEF LInv, CallOK
<1>5. PageInv'
  <2>1. SUFFICES ASSUME Answered PROVE PageFits(answer.page, answer.remaining)'
    BY <1>3 DEF PageInv
  <2>2. PICK page, remaining : page = answer.page /\ remaining = answer.remaining
    OBVIOUS
  <2>3. PageFits(page, remaining)
    BY <2>1, <2>2 DEF LInv, PageInv
  <2>4. PageFits(page, remaining)'
    BY <2>3, PageFitsKept
  <2>. QED  BY <2>2, <2>4 DEF PageFits
<1>6. TotalInv'
  <2>1. Answered => pc # "page"
    BY DEF Answered
  <2>. QED  BY <1>3, <2>1 DEF LInv, TotalInv, Bordered, Matches, RequestWalk
<1>7. WalkInv'
  <2>1. SUFFICES ASSUME ~moved, NEW id \in steady'
                 PROVE  /\ Matches(<<id, coll[id]>>)'
                        /\ Once(id)' \/ Never(id)'
                        /\ pc = "call" => (Never(id)' <=> Beyond(Border, <<id, coll[id]>>)')
                        /\ pc = "page" => <<id, coll'[id]>> \in res
                                          /\ (Never(id)' <=> Beyond(Frontier, <<id, coll[id]>>)')
                        /\ pc = "end" => Once(id)'
    BY DEF WalkInv
  <2>2. PICK e : e = <<id, coll[id]>> /\ e = <<id, coll'[id]>>
    OBVIOUS
  <2>3. id \in steady
    OBVIOUS
  <2>4. /\ Matches(e)
        /\ Once(id) \/ Never(id)
        /\ pc = "call" => (Never(id) <=> Beyond(Border, e))
        /\ pc = "page" => e \in res /\ (Never(id) <=> Beyond(Frontier, e))
        /\ pc = "end" => Once(id)
    BY <2>1, <2>2, <2>3 DEF LInv, WalkInv
  <2>5. (Never(id)' <=> Never(id)) /\ (Once(id)' <=> Once(id))
    BY DEF Never, Once
  <2>6. Matches(<<id, coll[id]>>)' <=> Matches(e)
    BY <2>2 DEF Matches, RequestWalk
  <2>7. Beyond(Border, <<id, coll[id]>>)' <=> Beyond(Border, e)
    BY <2>2 DEF Beyond, Border, LessIn, RequestWalk
  <2>8. Beyond(Frontier, <<id, coll[id]>>)' <=> Beyond(Frontier, e)
    BY <2>2 DEF Beyond, Frontier, LessIn, RequestWalk
  <2>. QED  BY <2>2, <2>4, <2>5, <2>6, <2>7, <2>8
<1>. QED  BY <1>1, <1>2, <1>4, <1>5, <1>6, <1>7 DEF LInv

\* An element is added.
LEMMA AddKeeps ==
    ASSUME LInv, NEW id \in IDs, NEW info \in Infos(walk.kind), AddElement(id, info) PROVE LInv'
<1>1. UNCHANGED <<walk, pc, from, res, answer, seen, moved, pagElem, steady>>
  BY DEF AddElement, Disturb
<1>2. DOMAIN coll' = DOMAIN coll \cup {id} /\ \A i \in DOMAIN coll : i # id /\ coll'[i] = coll[i]
  BY DEF AddElement
<1>3. CollOK'
  <2>1. IsFiniteSet(DOMAIN coll')
    BY <1>2 DEF AddElement, IsCollection
  <2>. QED  BY <1>1, <1>2, <2>1 DEF AddElement, LInv, CollOK
<1>4. OthersStep
  BY <1>1, <1>2, <1>3 DEF OthersStep, LInv, TypesOK
<1>. QED  BY <1>4, OthersKeep

\* An element is changed.
LEMMA ChangeKeeps ==
    ASSUME LInv, NEW id \in IDs, NEW info \in Infos(walk.kind), ChangeElement(id, info) PROVE LInv'
<1>1. UNCHANGED <<walk, pc, from, res, answer, seen, moved>> /\ steady' = steady \ {id}
  BY DEF ChangeElement, Disturb
<1>2. DOMAIN coll' = DOMAIN coll /\ \A i \in DOMAIN coll : coll'[i] = IF i = id THEN info ELSE coll[i]
  BY DEF ChangeElement
<1>3. CollOK'
  BY <1>1, <1>2 DEF ChangeElement, LInv, CollOK
<1>4. DOMAIN pagElem' = DOMAIN pagElem /\ (pc # "page" => pagElem' = pagElem)
  BY DEF ChangeElement
<1>5. OthersStep
  BY <1>1, <1>2, <1>3, <1>4 DEF OthersStep, LInv, TypesOK
<1>. QED  BY <1>5, OthersKeep

\* A worker is removed.
LEMMA RemoveKeeps == ASSUME LInv, NEW id \in IDs, RemoveElement(id) PROVE LInv'
<1>1. UNCHANGED <<walk, pc, from, res, answer, seen, moved>> /\ steady' = steady \ {id}
  BY DEF RemoveElement, Disturb
<1>2. DOMAIN coll' = DOMAIN coll \ {id} /\ \A i \in DOMAIN coll' : coll'[i] = coll[i]
  BY DEF RemoveElement
<1>3. CollOK'
  <2>1. IsFiniteSet(DOMAIN coll')
    BY <1>2, FS_RemoveElement DEF LInv, CollOK
  <2>. QED  BY <1>1, <1>2, <2>1 DEF RemoveElement, LInv, CollOK
<1>4. DOMAIN pagElem' = DOMAIN pagElem /\ pagElem'.info = pagElem.info
  BY DEF RemoveElement, LInv, TypesOK
<1>5. OthersStep
  BY <1>1, <1>2, <1>3, <1>4 DEF OthersStep, LInv, TypesOK
<1>. QED  BY <1>5, OthersKeep

\* The elements of a collection, and those among them that a call copies.
LEMMA ListedOK ==
    ASSUME CollOK, NEW id
    PROVE  /\ IsFiniteSet(Listed(id)) /\ Listed(id) \subseteq IDs \X Infos(walk.kind)
           /\ \A d, e \in Listed(id) : d[1] = e[1] => d = e
           /\ \A e \in Listed(id) : Matches(e) \/ e[1] = id
           /\ id \in DOMAIN coll => <<id, coll[id]>> \in Listed(id)
           /\ \A i \in DOMAIN coll : Matches(<<i, coll[i]>>) => <<i, coll[i]>> \in Listed(id)
<1>. DEFINE f == [i \in DOMAIN coll |-> <<i, coll[i]>>]
<1>1. f \in Bijection(DOMAIN coll, Elements)
  BY DEF Elements, Bijection, Injection, Surjection, IsInjective
<1>2. IsFiniteSet(DOMAIN coll) /\ ExistsBijection(DOMAIN coll, Elements)
  BY <1>1 DEF ExistsBijection, CollOK
<1>3. IsFiniteSet(Elements)
  BY <1>2, FS_Bijection
<1>4. Listed(id) \subseteq Elements
  BY DEF Listed
<1>5. IsFiniteSet(Listed(id))
  BY <1>3, <1>4, FS_Subset
<1>6. \A e \in Elements : e \in IDs \X Infos(walk.kind) /\ e[1] \in DOMAIN coll /\ e = <<e[1], coll[e[1]]>>
  BY DEF Elements, CollOK
<1>7. \A i \in DOMAIN coll : <<i, coll[i]>> \in Elements /\ <<i, coll[i]>>[1] = i
  BY DEF Elements
<1>8. \A e \in Listed(id) : Matches(e) \/ e[1] = id
  BY DEF Listed
<1>9. \A e \in Elements : Matches(e) \/ e[1] = id => e \in Listed(id)
  BY DEF Listed
<1>. QED  BY <1>4, <1>5, <1>6, <1>7, <1>8, <1>9

\* A call begins.
LEMMA BeginKeeps == LInv /\ ListBegin => LInv'
<1>. SUFFICES ASSUME LInv, ListBegin PROVE LInv'
  OBVIOUS
<1>. USE DEF ListBegin
<1>1. PICK b : b = Border
  OBVIOUS
<1>2. PICK id : id = b[1]
  OBVIOUS
<1>3. /\ pc = "call" /\ from' = id /\ answer' = NoAnswer
      /\ UNCHANGED <<coll, walk, seen, steady, changes>>
      /\ pc' \in {"page", "error"}
  BY <1>1, <1>2
<1>4. b = <<NoID, {}>> \/ b \in Elem
  <2>1. answer.page \in Seq(Elem)
    BY DEF LInv, TypesOK
  <2>2. answer.page # <<>> => Len(answer.page) \in Nat \ {0}
    BY <2>1, EmptySeq
  <2>3. answer.page # <<>> => answer.page[1] \in Elem /\ answer.page[Len(answer.page)] \in Elem
    BY <2>1, <2>2, ElementOfSeq
  <2>4. answer.page # <<>> => Head(answer.page) = answer.page[1] /\ Last(answer.page) = answer.page[Len(answer.page)]
    BY <2>1, <2>2 DEF Last
  <2>. QED  BY <1>1, <2>3, <2>4 DEF Border
<1>5. id = NoID \/ (id \in IDs /\ b = <<id, b[2]>>)
  BY <1>2, <1>4 DEF Elem
<1>6. pc' = "page" => /\ id = NoID \/ id \in DOMAIN coll
                      /\ res' = Listed(id)
                      /\ pagElem' = IF id = NoID THEN NoElem ELSE [info |-> coll[id], live |-> TRUE]
                      /\ moved' = (moved \/ (id # NoID /\ SortKey(coll[id]) # SortKey(b[2])))
  BY <1>1, <1>2
<1>7. pc' = "error" => moved' = moved /\ pagElem' = pagElem
  BY <1>1, <1>2
<1>8. CollOK'
  BY <1>3 DEF LInv, CollOK
<1>9. TypesOK'
  <2>1. DOMAIN pagElem' = {"info", "live"}
    BY <1>3, <1>6, <1>7 DEF LInv, TypesOK, NoElem
  <2>2. answer'.page = <<>>
    BY <1>3 DEF NoAnswer
  <2>. QED  BY <1>3, <2>1, <2>2 DEF LInv, TypesOK
<1>10. ~Answered'
  BY <1>3 DEF Answered
<1>11. pc' = "page" => ResOK'
  <2>1. SUFFICES ASSUME pc' = "page" PROVE ResOK'
    OBVIOUS
  <2>2. /\ IsFiniteSet(res') /\ res' \subseteq IDs \X Infos(walk.kind)
        /\ \A d, e \in res' : d[1] = e[1] => d = e
        /\ \A e \in res' : Matches(e) \/ e[1] = id
        /\ id \in DOMAIN coll => <<id, coll[id]>> \in res'
    BY <1>6, <2>1, ListedOK DEF LInv
  <2>3. id # NoID => \E e \in res' : e[1] = id
    BY <1>6, <2>1, <2>2
  <2>4. \A e \in res' : Matches(e)' \/ e[1] = id
    BY <1>3, <2>2 DEF Matches, RequestWalk
  <2>. QED  BY <1>3, <1>5, <2>2, <2>3, <2>4 DEF ResOK, Infos
<1>12. WalkInv'
  <2>1. SUFFICES ASSUME ~moved', NEW i \in steady'
                 PROVE  /\ Matches(<<i, coll[i]>>)'
                        /\ Once(i)' \/ Never(i)'
                        /\ pc' = "page" => <<i, coll'[i]>> \in res' /\ (Never(i)' <=> Beyond(Frontier, <<i, coll[i]>>)')
    BY <1>3 DEF WalkInv
  <2>2. PICK e : e = <<i, coll[i]>> /\ e = <<i, coll'[i]>>
    BY <1>3
  <2>3. ~moved /\ i \in steady /\ i \in DOMAIN coll
    <3>1. pc' = "page" \/ pc' = "error"
      BY <1>3
    <3>2. ~moved
      BY <1>6, <1>7, <2>1, <3>1, Zenon
    <3>3. i \in steady /\ steady \subseteq DOMAIN coll
      BY <1>3, <2>1 DEF LInv, TypesOK
    <3>. QED  BY <3>2, <3>3
  <2>4. Matches(e) /\ (Once(i) \/ Never(i)) /\ (Never(i) <=> Beyond(b, e))
    BY <1>1, <1>3, <2>2, <2>3 DEF LInv, WalkInv
  <2>5. (Never(i)' <=> Never(i)) /\ (Once(i)' <=> Once(i))
    BY <1>3 DEF Never, Once
  <2>6. Matches(<<i, coll[i]>>)' <=> Matches(e)
    BY <1>3, <2>2 DEF Matches, RequestWalk
  <2>7. ASSUME pc' = "page" PROVE e \in res' /\ (Beyond(Frontier, <<i, coll[i]>>)' <=> Beyond(b, e))
    <3>1. e \in res'
      <4>1. CollOK /\ res' = Listed(id)
        BY <1>6, <2>7 DEF LInv
      <4>2. \A k \in DOMAIN coll : Matches(<<k, coll[k]>>) => <<k, coll[k]>> \in Listed(id)
        BY <4>1, ListedOK
      <4>. QED  BY <2>2, <2>3, <2>4, <4>1, <4>2
    <3>2. PICK f : f = Frontier'
      OBVIOUS
    <3>3. Beyond(Frontier, <<i, coll[i]>>)' <=> Beyond(f, e)
      BY <1>3, <2>2, <3>2 DEF Beyond, Frontier, LessIn, RequestWalk
    <3>4. CASE id = NoID
      BY <1>2, <1>3, <3>2, <3>3, <3>4, <3>1 DEF Beyond, Frontier
    <3>5. CASE id # NoID
      <4>1. id \in DOMAIN coll /\ SortKey(b[2]) = SortKey(coll[id])
        BY <1>6, <2>1, <2>7, <3>5
      <4>2. <<id, coll[id]>> \in res' /\ \A d, g \in res' : d[1] = g[1] => d = g
        BY <1>6, <2>7, <4>1, ListedOK DEF LInv
      <4>3. f = <<id, coll[id]>>
        BY <1>3, <3>2, <3>5, <4>2 DEF Frontier
      <4>4. /\ LessIn(walk.order, <<id, b[2]>>, e) <=> LessIn(walk.order, <<id, coll[id]>>, e)
            /\ LessIn(walk.order, e, <<id, b[2]>>) <=> LessIn(walk.order, e, <<id, coll[id]>>)
        BY <4>1, KeyPlaces
      <4>5. b = <<id, b[2]>>
        BY <1>5, <3>5
      <4>6. Beyond(<<id, b[2]>>, e) <=> Beyond(<<id, coll[id]>>, e)
        BY <4>4 DEF Beyond
      <4>. QED  BY <3>1, <3>3, <4>3, <4>5, <4>6
    <3>. QED  BY <3>4, <3>5
  <2>. QED  BY <2>2, <2>4, <2>5, <2>6, <2>7
<1>. QED  BY <1>3, <1>8, <1>9, <1>10, <1>11, <1>12 DEF LInv, CallOK, PageInv, TotalInv

\* What the client has read, after another page.
LEMMA SeenMore ==
    ASSUME NEW page \in Seq(Elem), seen \in Seq(IDs),
           seen' = seen \o [i \in DOMAIN page |-> page[i][1]]
    PROVE  /\ seen' \in Seq(IDs)
           /\ \A id : Never(id) /\ (\A j \in DOMAIN page : page[j][1] # id) => Never(id)'
           /\ \A id : Once(id) /\ (\A j \in DOMAIN page : page[j][1] # id) => Once(id)'
           /\ \A id : Never(id) /\ (\E i \in DOMAIN page : page[i][1] = id /\ \A j \in DOMAIN page : page[j][1] = id => j = i)
                => Once(id)'
<1>1. PICK n \in Nat, m \in Nat : n = Len(seen) /\ m = Len(page)
  OBVIOUS
<1>2. DOMAIN seen = 1 .. n /\ DOMAIN page = 1 .. m
  BY <1>1
<1>3. PICK new : new = [i \in DOMAIN page |-> page[i][1]]
  OBVIOUS
<1>4. new \in Seq(IDs) /\ Len(new) = m /\ \A i \in 1 .. m : new[i] = page[i][1]
  <2>1. \A i \in 1 .. m : page[i] \in IDs \X Infos(walk.kind)
    BY <1>1, ElementOfSeq DEF Elem
  <2>2. new \in [1 .. m -> IDs] /\ \A i \in 1 .. m : new[i] = page[i][1]
    BY <1>2, <1>3, <2>1
  <2>3. Len(new) = m
    BY <2>2
  <2>4. new \in Seq(IDs)
    BY <2>2
  <2>. QED  BY <2>2, <2>3, <2>4
<1>5. PICK more : more = seen'
  OBVIOUS
<1>6. /\ more \in Seq(IDs) /\ Len(more) = n + m
      /\ \A i \in 1 .. n + m : more[i] = IF i <= n THEN seen[i] ELSE new[i - n]
  <2>1. more = seen \o new
    BY <1>3, <1>5
  <2>2. /\ more \in Seq(IDs) /\ Len(more) = Len(seen) + Len(new)
        /\ \A i \in 1 .. Len(seen) + Len(new) : more[i] = IF i <= Len(seen) THEN seen[i] ELSE new[i - Len(seen)]
    BY <1>4, <2>1, ConcatProperties
  <2>. QED  BY <1>1, <1>4, <2>2
<1>7. DOMAIN more = 1 .. n + m
  BY <1>6
<1>8. ASSUME NEW i \in 1 .. n PROVE i \in DOMAIN more /\ more[i] = seen[i]
  <2>1. i \in 1 .. n + m /\ i <= n
    OBVIOUS
  <2>. QED  BY <1>6, <1>7, <2>1
<1>9. ASSUME NEW i \in 1 .. m PROVE n + i \in DOMAIN more /\ more[n + i] = page[i][1]
  <2>1. PICK k \in 1 .. n + m : k = n + i /\ ~(k <= n) /\ k - n = i
    OBVIOUS
  <2>. QED  BY <1>4, <1>6, <1>7, <2>1
<1>10. ASSUME NEW k \in DOMAIN more PROVE k \in 1 .. n \/ \E i \in 1 .. m : k = n + i
  <2>1. k \in 1 .. n + m
    BY <1>7
  <2>2. k \in 1 .. n \/ (k - n \in 1 .. m /\ k = n + (k - n))
    BY <2>1
  <2>. QED  BY <2>2
<1>11. ASSUME NEW id, Never(id), \A j \in DOMAIN page : page[j][1] # id PROVE \A k \in DOMAIN more : more[k] # id
  <2>1. SUFFICES ASSUME NEW k \in DOMAIN more PROVE more[k] # id
    OBVIOUS
  <2>2. CASE k \in 1 .. n
    BY <1>2, <1>8, <1>11, <2>2 DEF Never
  <2>3. ASSUME NEW i \in 1 .. m, k = n + i PROVE more[k] # id
    BY <1>2, <1>9, <1>11, <2>3
  <2>. QED  BY <1>10, <2>2, <2>3
<1>12. ASSUME NEW id, Once(id), \A j \in DOMAIN page : page[j][1] # id
       PROVE  \E i \in DOMAIN more : more[i] = id /\ \A j \in DOMAIN more : more[j] = id => j = i
  <2>1. PICK i \in 1 .. n : seen[i] = id /\ \A j \in 1 .. n : seen[j] = id => j = i
    BY <1>2, <1>12 DEF Once
  <2>2. more[i] = id /\ i \in DOMAIN more
    BY <1>8, <2>1
  <2>3. ASSUME NEW j \in DOMAIN more, more[j] = id PROVE j = i
    <3>1. CASE j \in 1 .. n
      BY <1>8, <2>1, <2>3, <3>1
    <3>2. ASSUME NEW l \in 1 .. m, j = n + l PROVE FALSE
      BY <1>2, <1>9, <1>12, <2>3, <3>2
    <3>. QED  BY <1>10, <3>1, <3>2
  <2>. QED  BY <2>2, <2>3
<1>13. ASSUME NEW id, Never(id), NEW i \in DOMAIN page, page[i][1] = id,
              \A j \in DOMAIN page : page[j][1] = id => j = i
       PROVE  \E k \in DOMAIN more : more[k] = id /\ \A j \in DOMAIN more : more[j] = id => j = k
  <2>1. more[n + i] = id /\ n + i \in DOMAIN more
    BY <1>2, <1>9, <1>13
  <2>2. ASSUME NEW j \in DOMAIN more, more[j] = id PROVE j = n + i
    <3>1. j \notin 1 .. n
      BY <1>2, <1>8, <1>13, <2>2 DEF Never
    <3>2. PICK l \in 1 .. m : j = n + l
      BY <1>10, <3>1
    <3>3. page[l][1] = id
      BY <1>9, <2>2, <3>2
    <3>. QED  BY <1>2, <1>13, <3>2, <3>3
  <2>. QED  BY <2>1, <2>2
<1>14. \A id : /\ Never(id)' <=> \A k \in DOMAIN more : more[k] # id
               /\ Once(id)' <=> \E k \in DOMAIN more : more[k] = id /\ \A j \in DOMAIN more : more[j] = id => j = k
  BY <1>5 DEF Never, Once
<1>15. \A id : Never(id) /\ (\A j \in DOMAIN page : page[j][1] # id) => Never(id)'
  BY <1>11, <1>14
<1>16. \A id : Once(id) /\ (\A j \in DOMAIN page : page[j][1] # id) => Once(id)'
  BY <1>12, <1>14
<1>17. ASSUME NEW id, Never(id), NEW i \in DOMAIN page, page[i][1] = id,
              \A j \in DOMAIN page : page[j][1] = id => j = i
       PROVE  Once(id)'
  BY <1>13, <1>14, <1>17
<1>. QED  BY <1>5, <1>6, <1>15, <1>16, <1>17

\* A call ends.
LEMMA EndKeeps == LInv /\ ListEnd => LInv'
<1>. SUFFICES ASSUME LInv, ListEnd PROVE LInv'
  OBVIOUS
<1>1. pc = "page" /\ UNCHANGED <<coll, walk, from, res, pagElem, steady, moved, changes>>
  BY DEF ListEnd
<1>2. walk \in Walks /\ ResOK /\ CollOK /\ TypesOK
  BY <1>1 DEF LInv, CallOK, CollOK
<1>3. PICK list \in Sorted(res) :
        /\ answer' = [page |-> CutPage(list, from).page, remaining |-> CutPage(list, from).remaining,
                      total |-> TotalItems(list, from)]
        /\ seen' = seen \o [i \in DOMAIN CutPage(list, from).page |-> CutPage(list, from).page[i][1]]
        /\ pc' = IF CutPage(list, from).remaining = 0 THEN "end" ELSE "call"
  BY DEF ListEnd
<1>4. PICK page, remaining : page = CutPage(list, from).page /\ remaining = CutPage(list, from).remaining
  OBVIOUS
<1>5. /\ answer'.page = page /\ answer'.remaining = remaining /\ answer'.total = TotalItems(list, from)
      /\ seen' = seen \o [i \in DOMAIN page |-> page[i][1]]
      /\ pc' = IF remaining = 0 THEN "end" ELSE "call"
  BY <1>3, <1>4
<1>6. /\ page \in Seq(res)
      /\ page = <<>> => remaining = 0
      /\ \A e \in res : OnPage(page, e) \/ AfterPage(page, remaining, e) \/ BeforePage(page, e)
  BY <1>2, <1>4, CutWalk
<1>7. page \in Seq(Elem)
  <2>1. Len(page) \in Nat /\ page \in [1 .. Len(page) -> res] /\ res \subseteq Elem
    BY <1>2, <1>6 DEF ResOK, Elem
  <2>. QED  BY <2>1
<1>8. CollOK' /\ ResOK'
  BY <1>1, <1>2 DEF CollOK, ResOK, Matches, RequestWalk
<1>9. TypesOK'
  <2>1. seen' \in Seq(IDs)
    BY <1>2, <1>5, <1>7, SeenMore DEF TypesOK
  <2>2. answer'.page \in Seq(Elem) /\ pc' \in {"call", "end"}
    BY <1>5, <1>7
  <2>. QED  BY <1>1, <1>2, <2>1, <2>2 DEF TypesOK, Elem
<1>10. PageInv'
  <2>1. PageFits(page, remaining)
    BY <1>2, <1>4, CutFits
  <2>2. PageFits(page, remaining)'
    BY <1>1, <2>1, PageFitsKept
  <2>. QED  BY <1>5, <2>2 DEF PageInv, PageFits
<1>11. TotalInv'
  <2>1. Len(list) = Cardinality(res)
    BY <1>2, SortedList DEF IsList
  <2>. QED  BY <1>1, <1>5, <2>1 DEF TotalInv, TotalItems, Bordered, Matches, RequestWalk
<1>12. WalkInv'
  <2>1. SUFFICES ASSUME ~moved, NEW id \in steady
                 PROVE  /\ Matches(<<id, coll[id]>>)'
                        /\ Once(id)' \/ Never(id)'
                        /\ pc' = "call" => (Never(id)' <=> Beyond(Border, <<id, coll[id]>>)')
                        /\ pc' = "end" => Once(id)'
    BY <1>1, <1>5 DEF WalkInv
  <2>2. PICK e : e = <<id, coll[id]>> /\ e = <<id, coll'[id]>> /\ e[1] = id
    <3>1. coll' = coll
      BY <1>1
    <3>2. <<id, coll[id]>> = <<id, coll'[id]>> /\ <<id, coll[id]>>[1] = id
      BY <3>1
    <3>. QED  BY <3>2
  <2>3. /\ Matches(e) /\ (Once(id) \/ Never(id))
        /\ e \in res /\ (Never(id) <=> Beyond(Frontier, e))
    BY <1>1, <2>1, <2>2 DEF LInv, WalkInv
  <2>4. Matches(<<id, coll[id]>>)'
    BY <1>1, <2>2, <2>3 DEF Matches, RequestWalk
  <2>5. Once(id)' => ~Never(id)'
    BY DEF Once, Never
  <2>6. pc' = "call" => remaining # 0 /\ page # <<>>
    BY <1>5, <1>6
  <2>7. ASSUME page # <<>> PROVE Beyond(Border, <<id, coll[id]>>)' <=> Beyond(Edge(page), e)
    <3>1. PICK b : b = Border'
      OBVIOUS
    <3>2. b = Edge(page)
      BY <1>1, <1>5, <2>7, <3>1 DEF Border, Edge
    <3>3. Beyond(Border, <<id, coll[id]>>)' <=> Beyond(b, e)
      BY <1>1, <2>2, <3>1 DEF Beyond, LessIn, RequestWalk
    <3>. QED  BY <3>2, <3>3
  <2>8. /\ Never(id) /\ (\A j \in DOMAIN page : page[j][1] # id) => Never(id)'
        /\ Once(id) /\ (\A j \in DOMAIN page : page[j][1] # id) => Once(id)'
        /\ Never(id) /\ (\E i \in DOMAIN page : page[i][1] = id /\ \A j \in DOMAIN page : page[j][1] = id => j = i)
             => Once(id)'
    BY <1>2, <1>5, <1>7, SeenMore DEF TypesOK
  <2>9. CASE OnPage(page, e)
    <3>1. Once(id)'
      BY <2>2, <2>3, <2>8, <2>9 DEF OnPage
    <3>. QED  BY <2>4, <2>5, <2>6, <2>7, <2>9, <3>1 DEF OnPage
  <2>10. CASE AfterPage(page, remaining, e)
    <3>1. Never(id)' /\ remaining # 0
      BY <2>2, <2>3, <2>8, <2>10 DEF AfterPage, Missing
    <3>2. pc' = "call"
      BY <1>5, <3>1
    <3>. QED  BY <2>4, <2>6, <2>7, <2>10, <3>1, <3>2 DEF AfterPage
  <2>11. CASE BeforePage(page, e)
    <3>1. Once(id)'
      BY <2>2, <2>3, <2>8, <2>11 DEF BeforePage, Missing
    <3>. QED  BY <2>4, <2>5, <2>6, <2>7, <2>11, <3>1 DEF BeforePage
  <2>. QED  BY <1>6, <2>3, <2>9, <2>10, <2>11
<1>. QED  BY <1>8, <1>9, <1>10, <1>11, <1>12 DEF LInv, CallOK

\* LInv is an invariant.
LEMMA ListingInvariance == Spec => []LInv
<1>1. Init => LInv
  BY InitListing
<1>2. LInv /\ [Next]_vars => LInv'
  <2>. SUFFICES ASSUME LInv, [Next]_vars PROVE LInv'
    OBVIOUS
  <2>1. CASE ListBegin
    BY <2>1, BeginKeeps
  <2>2. CASE ListEnd
    BY <2>2, EndKeeps
  <2>3. ASSUME NEW id \in IDs, NEW info \in Infos(walk.kind), AddElement(id, info) PROVE LInv'
    BY <2>3, AddKeeps
  <2>4. ASSUME NEW id \in IDs, NEW info \in Infos(walk.kind), ChangeElement(id, info) PROVE LInv'
    BY <2>4, ChangeKeeps
  <2>5. ASSUME NEW id \in IDs, RemoveElement(id) PROVE LInv'
    BY <2>5, RemoveKeeps
  <2>6. CASE UNCHANGED vars
    <3>1. UNCHANGED <<coll, walk, pc, from, res, pagElem, answer, seen, steady, moved>>
      BY <2>6 DEF vars
    <3>2. CollOK'
      BY <3>1 DEF LInv, CollOK
    <3>3. OthersStep
      BY <3>1, <3>2 DEF OthersStep, LInv, TypesOK
    <3>. QED  BY <3>3, OthersKeep
  <2>. QED  BY <2>1, <2>2, <2>3, <2>4, <2>5, <2>6 DEF Next
<1>. QED  BY <1>1, <1>2, PTL DEF Spec

-----------------------------------------------------------------------------
\* Whatever is added, removed and changed meanwhile, the pages of a walk show
\* every element that matches and does not change exactly once, as long as the
\* border of a page keeps its sort key.
THEOREM EachShownOnce == Spec => []WalkOnce
<1>1. LInv => WalkOnce
  <2>. SUFFICES ASSUME LInv, ~moved, NEW id \in steady
                PROVE  LET places == {i \in DOMAIN seen : seen[i] = id}
                       IN Cardinality(places) <= 1 /\ (pc = "end" => places # {})
    BY DEF WalkOnce
  <2>. DEFINE places == {i \in DOMAIN seen : seen[i] = id}
  <2>1. (Once(id) \/ Never(id)) /\ (pc = "end" => Once(id))
    BY DEF LInv, WalkInv
  <2>2. CASE Once(id)
    <3>1. PICK i \in DOMAIN seen : places = {i}
      BY <2>2 DEF Once
    <3>2. Cardinality({i}) = 1
      BY FS_Singleton
    <3>. QED  BY <3>1, <3>2
  <2>3. CASE Never(id)
    <3>1. places = {}
      BY <2>3 DEF Never
    <3>2. Cardinality({}) = 0
      BY FS_EmptySet
    <3>3. ~Once(id)
      BY <2>3 DEF Once, Never
    <3>. QED  BY <2>1, <3>1, <3>2, <3>3
  <2>. QED  BY <2>1, <2>2, <2>3
<1>. QED  BY <1>1, ListingInvariance, PTL

\* A page has the next matches after the border, or before it, in the order
\* asked for, and RemainingItems is the number of those beyond it.
THEOREM PagesRight == Spec => []PageRight
<1>1. LInv => PageRight
  BY DEF LInv, PageInv, PageFits, PageRight, NextPage, NearerTo, Frontier
<1>. QED  BY <1>1, ListingInvariance, PTL

\* TotalItems is the number of matches, though the border is counted or not
\* by what it is when the page is cut out.
THEOREM TotalsRight == Spec => []TotalRight
<1>1. LInv => TotalRight
  <2>. SUFFICES ASSUME LInv, Answered,
                       \A e \in res : e[1] = from => (Matches(e) <=> Matches(<<from, pagElem.info>>))
                PROVE  answer.total = Cardinality({e \in res : Matches(e)})
    BY DEF TotalRight
  <2>. DEFINE matching == {e \in res : Matches(e)}
  <2>1. ResOK /\ answer.total = Cardinality(res) - Bordered(from)
    BY DEF LInv, CallOK, TotalInv
  <2>2. IsFiniteSet(res) /\ Cardinality(res) \in Nat
    BY <2>1, FS_CardinalityType DEF ResOK
  <2>3. CASE \E f \in res : ~Matches(f)
    <3>1. PICK f \in res : ~Matches(f)
      BY <2>3
    <3>2. f[1] = from /\ from # NoID
      <4>1. f \in IDs \X Infos(walk.kind) /\ f[1] = from
        BY <2>1, <3>1 DEF ResOK
      <4>. QED  BY <4>1, IDAssumption DEF IDAssumption
    <3>3. Bordered(from) = 1
      BY <3>1, <3>2 DEF Bordered
    <3>4. matching = res \ {f}
      BY <2>1, <3>1, <3>2 DEF ResOK
    <3>5. Cardinality(res \ {f}) = Cardinality(res) - 1
      BY <2>2, FS_RemoveElement
    <3>. QED  BY <2>1, <3>3, <3>4, <3>5
  <2>4. CASE \A f \in res : Matches(f)
    <3>1. matching = res
      BY <2>4
    <3>2. Bordered(from) = 0
      BY <2>1, <2>4 DEF ResOK, Bordered
    <3>3. answer.total = Cardinality(res)
      BY <2>1, <2>2, <3>2
    <3>. QED  BY <3>1, <3>3
  <2>. QED  BY <2>3, <2>4
<1>. QED  BY <1>1, ListingInvariance, PTL
=============================================================================
