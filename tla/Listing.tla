------------------------------ MODULE Listing ------------------------------
(***************************************************************************)
(* A client reads a list page by page while the listed elements change:    *)
(* ListRequests of requests/requests.go, ListWorkers of workers/workers.go *)
(* (the same algorithm over another collection), and their callers in      *)
(* http/client and http/server/api/v1.  As the client's documentation      *)
(* tells him to, the client passes the ID of the last element of a page    *)
(* (the first one if he goes backward) with the call for the next page.    *)
(*                                                                         *)
(* A call has two steps, since the server copies the elements with the     *)
(* mutex held and sorts and cuts out the page without it.                  *)
(***************************************************************************)
EXTENDS Sorting

CONSTANTS
    IDs,            \* IDs of requests and UUIDs of workers
    ReqInfos,       \* the requests that may occur
    WorkerInfos,    \* the workers that may occur
    ReqFilters,
    WorkerFilters,
    Limits,         \* page lengths a client may ask for; 0 is the default
    MaxPageLimit,
    MaxChanges      \* bound: elements that change during a walk

ASSUME IDAssumption == IDs \subseteq Nat \ {0}

ASSUME InfosAssumption ==
    /\ \A req \in ReqInfos :
          /\ {req.prio, req.validAfter, req.deadline} \subseteq Nat
          /\ req.state \in ReqState
    /\ \A worker \in WorkerInfos : worker.state \in WorkerState /\ worker.groups \in Seq(Nat)

ASSUME LimitsAssumption == Limits \subseteq Nat /\ MaxPageLimit \in Nat \ {0}

VARIABLES
    coll,       \* the collection: a function from the IDs in it
    walk,       \* what the client asks for
    pc,         \* "call", "page" (in a call, mutex released), "end" or "error"
    from,       \* paginator.ID of the current or last call
    res,        \* the elements copied by it
    pagElem,    \* what paginator.ID points to: [info, live]
    answer,     \* the page returned, with its ListInfo
    seen,       \* the IDs the client has read
    \* For the properties only:
    steady,     \* elements that have matched, unchanged, since the walk began
    moved,      \* the border of a page had got another sort key when it was used
    changes

vars == <<coll, walk, pc, from, res, pagElem, answer, seen, steady, moved, changes>>

NoID == 0
NoAnswer == [page |-> <<>>, total |-> 0, remaining |-> 0]
NoElem == [info |-> {}, live |-> FALSE]

-----------------------------------------------------------------------------
\* How sort order and direction travel as text.
SortOrderString(order) == IF order = SortOrderAsc THEN "ascending" ELSE "descending"
SortOrderUnmarshal(text) == IF text \in {"", "ascending"} THEN SortOrderAsc ELSE ~SortOrderAsc
DirectionString(dir) == IF dir = DirectionForward THEN "forward" ELSE "backward"
DirectionUnmarshal(text) ==
    IF text \in {"", "forward"} THEN DirectionForward ELSE ~DirectionForward

RequestWalk == walk.kind = "requests"

\* The filter and the order of the walk, on the server's side.
Matches(e) == IF RequestWalk THEN RequestMatch(walk.filter, e) ELSE WorkerMatch(walk.filter, e)

LessIn(order, a, b) ==
    IF RequestWalk THEN RequestLess(walk.item, order, a, b) ELSE WorkerLess(walk.item, order, a, b)

SortKey(info) ==
    IF RequestWalk THEN RequestKey(walk.item, info) ELSE WorkerKey(walk.item, info)

Order == SortOrderUnmarshal(SortOrderString(walk.order))
Direction == DirectionUnmarshal(DirectionString(walk.dir))
Limit == IF walk.limit = 0 \/ walk.limit > MaxPageLimit THEN MaxPageLimit ELSE walk.limit

Elements == {<<id, coll[id]>> : id \in DOMAIN coll}

\* What is listed: the matches and, whether it still matches or not, the
\* element the page begins after.
ListedMatchingOnly(id) == {e \in Elements : Matches(e)}

Listed(id) == {e \in Elements : Matches(e) \/ e[1] = id}

\* The collection is a map, which is read in random order, and the sort is not
\* stable: every order that the sorter does not object to.
Sorted(elems) ==
    {s \in SetToSeqs(elems) :
        \A i, j \in DOMAIN s : i < j => ~LessIn(Order, s[j], s[i])}

\* The index of the element with the given ID, from 0; 0 if there is none.
IndexOf(list, id) ==
    LET places == {i \in DOMAIN list : list[i][1] = id}
    IN IF places = {} THEN 0 ELSE Min(places) - 1

\* The page cut out of the sorted list, and how many elements are beyond it.
CutPageAtBorder(list, id) ==
    LET total == Len(list)
        index == IndexOf(list, id)
        elems == Min({Limit, total - index})
        before == IF id = NoID THEN total ELSE index
        back == Min({Limit, before})
    IN IF Direction = DirectionForward
       THEN [page |-> SubSeq(list, index + 1, index + elems), remaining |-> total - index - elems]
       ELSE [page |-> SubSeq(list, before - back + 1, before), remaining |-> before - back]

CutPage(list, id) ==
    LET total == Len(list)
        index == IF id = NoID THEN 0 ELSE IndexOf(list, id) + 1
        elems == Min({Limit, total - index})
        before == IF id = NoID THEN total ELSE IndexOf(list, id)
        back == Min({Limit, before})
    IN IF Direction = DirectionForward
       THEN [page |-> SubSeq(list, index + 1, index + elems), remaining |-> total - index - elems]
       ELSE [page |-> SubSeq(list, before - back + 1, before), remaining |-> before - back]

\* The border is counted only if it matches, as far as it can be seen now.
TotalItemsWithBorder(list, id) == Len(list)

TotalItems(list, id) ==
    Len(list) - (IF id # NoID /\ ~Matches(<<id, pagElem.info>>) THEN 1 ELSE 0)

-----------------------------------------------------------------------------
Infos(kind) == IF kind = "requests" THEN ReqInfos ELSE WorkerInfos

Walks ==
    [kind : {"requests"}, item : RequestItems, filter : ReqFilters,
     order : BOOLEAN, dir : BOOLEAN, limit : Limits]
    \cup
    [kind : {"workers"}, item : WorkerItems, filter : WorkerFilters,
     order : BOOLEAN, dir : BOOLEAN, limit : Limits]

\* Requests are numbered one after the other and are never removed.
IsCollection(kind, ids) ==
    IsFiniteSet(ids) /\ (kind = "requests" => \A id \in ids : 1 .. id \subseteq ids)

Init ==
    /\ walk \in Walks
    /\ \E ids \in SUBSET IDs : IsCollection(walk.kind, ids) /\ coll \in [ids -> Infos(walk.kind)]
    /\ pc = "call"
    /\ from = NoID
    /\ res = {}
    /\ pagElem = NoElem
    /\ answer = NoAnswer
    /\ seen = <<>>
    /\ steady = {e[1] : e \in {x \in Elements : Matches(x)}}
    /\ moved = FALSE
    /\ changes = 0

\* The element that the client passes with his next call.
Border ==
    IF answer.page = <<>> THEN <<NoID, {}>>
    ELSE IF walk.dir = DirectionForward THEN Last(answer.page) ELSE Head(answer.page)

\* A call, until it releases the mutex.
ListBegin ==
    LET id == Border[1] IN
    /\ pc = "call"
    /\ from' = id
    /\ IF id = NoID \/ id \in DOMAIN coll
       THEN /\ res' = Listed(id)
            /\ pagElem' = IF id = NoID THEN NoElem ELSE [info |-> coll[id], live |-> TRUE]
            /\ moved' = (moved \/ (id # NoID /\ SortKey(coll[id]) # SortKey(Border[2])))
            /\ pc' = "page"
       ELSE pc' = "error" /\ UNCHANGED <<res, pagElem, moved>>
    /\ answer' = NoAnswer
    /\ UNCHANGED <<coll, walk, seen, steady, changes>>

\* The rest of the call; the client then goes on while elements remain.
ListEnd ==
    /\ pc = "page"
    /\ \E list \in Sorted(res) :
          LET cut == CutPage(list, from) IN
          /\ answer' = [page |-> cut.page, remaining |-> cut.remaining,
                        total |-> TotalItems(list, from)]
          /\ seen' = seen \o [i \in DOMAIN cut.page |-> cut.page[i][1]]
          /\ pc' = IF cut.remaining = 0 THEN "end" ELSE "call"
    /\ UNCHANGED <<coll, walk, from, res, pagElem, steady, moved, changes>>

-----------------------------------------------------------------------------
\* Other users at work.  Between two steps of a walk an element may take
\* several of its own.  A request changes as long as it waits, and ends once;
\* a worker may come to be in every state.
RequestBecomes(old, new) ==
    \/ old.state = WAIT
    \/ old.state = INPROGRESS /\ new.state \in {DONE, FAILED} /\ new = [old EXCEPT !.state = new.state]

Disturb ==
    /\ pc \in {"call", "page"}
    /\ changes < MaxChanges
    /\ changes' = changes + 1
    /\ UNCHANGED <<walk, pc, from, res, answer, seen, moved>>

\* NewRequest, or Register of a new worker.
AddElement(id, info) ==
    /\ Disturb
    /\ id \notin DOMAIN coll
    /\ IsCollection(walk.kind, DOMAIN coll \cup {id})
    /\ coll' = [i \in DOMAIN coll \cup {id} |-> IF i = id THEN info ELSE coll[i]]
    /\ UNCHANGED <<pagElem, steady>>

\* An element is changed in place: a call that has its address sees it.
ChangeElement(id, info) ==
    /\ Disturb
    /\ id \in DOMAIN coll
    /\ coll[id] # info
    /\ RequestWalk => RequestBecomes(coll[id], info)
    /\ coll' = [coll EXCEPT ![id] = info]
    /\ pagElem' = IF pc = "page" /\ id = from /\ pagElem.live
                  THEN [pagElem EXCEPT !.info = info] ELSE pagElem
    /\ steady' = steady \ {id}

\* Deregister.
RemoveElement(id) ==
    /\ Disturb
    /\ ~RequestWalk
    /\ id \in DOMAIN coll
    /\ coll' = [i \in DOMAIN coll \ {id} |-> coll[i]]
    /\ pagElem' = IF id = from THEN [pagElem EXCEPT !.live = FALSE] ELSE pagElem
    /\ steady' = steady \ {id}

Next ==
    \/ ListBegin \/ ListEnd
    \/ \E id \in IDs :
          \/ \E info \in Infos(walk.kind) : AddElement(id, info) \/ ChangeElement(id, info)
          \/ RemoveElement(id)

Spec == Init /\ [][Next]_vars

-----------------------------------------------------------------------------
\* "To iterate through whole list, ListRequests should be called repetedly":
\* the pages of a walk show every element that matches and does not change
\* exactly once, whatever is added, removed or changed meanwhile, the element
\* at the border of a page included, as long as the border keeps its sort key.
WalkOnce ==
    ~moved => \A id \in steady :
        LET places == {i \in DOMAIN seen : seen[i] = id}
        IN Cardinality(places) <= 1 /\ (pc = "end" => places # {})

Answered == pc = "end" \/ (pc = "call" /\ answer # NoAnswer)

\* The matches that are still ahead of a client who is at the element b.
Ahead(b) ==
    {e \in res : Matches(e) /\
        (b[1] # NoID => IF walk.dir = DirectionForward
                        THEN LessIn(walk.order, b, e) /\ e # b
                        ELSE LessIn(walk.order, e, b) /\ e # b)}

\* A page is the next Limit matches after the border, or before it, in the
\* order asked for, and RemainingItems is the number of those beyond it.
PageRight ==
    Answered =>
        LET b == IF from = NoID THEN <<NoID, {}>> ELSE CHOOSE e \in res : e[1] = from
            Nearer(e) == {f \in Ahead(b) : f # e /\
                            IF walk.dir = DirectionForward THEN LessIn(walk.order, f, e)
                                                           ELSE LessIn(walk.order, e, f)}
            page == {e \in Ahead(b) : Cardinality(Nearer(e)) < Limit}
        IN /\ ToSet(answer.page) = page
           /\ \A i, j \in DOMAIN answer.page :
                 i < j => LessIn(walk.order, answer.page[i], answer.page[j])
           /\ answer.remaining = Cardinality(Ahead(b) \ page)

\* TotalItems is the number of matches when the elements were copied, unless
\* the border began or ceased to match afterwards: it is looked at without
\* the mutex.
TotalRight ==
    Answered /\ (\A e \in res : e[1] = from => (Matches(e) <=> Matches(<<from, pagElem.info>>))) =>
        answer.total = Cardinality({e \in res : Matches(e)})
=============================================================================
