----------------------------- MODULE HttpProofs -----------------------------
(***************************************************************************)
(* Theorems about Http, for any number of requests and of late calls: what *)
(* a user of the client library learns of a call is true, what he learns of*)
(* a request that has ended stays true, and calls take requests through the*)
(* states of RequestStates only.                                           *)
(***************************************************************************)
EXTENDS Http, Sequences, FiniteSetTheorems, TLAPS

USE RequestsAssumption, LateAssumption DEF RequestsAssumption, LateAssumption

\* The requests are numbered without a gap, so that a new ID is free.
Dense(r) == \E n \in 0 .. MaxRequests : \A id \in IDs : r[id] # ABSENT <=> id <= n

\* What fn may return about the request id.
DataOf(fn, id) ==
    CASE fn = "NewRequest"     -> {<<"ReqIDPack", i>> : i \in IDs}
      [] fn = "GetRequestInfo" -> {<<"ReqInfo", s>> : s \in ReqState \cup {ABSENT}}
      [] fn = "ListRequests"   -> {<<"ReqInfos", "some">>}
      [] fn = "AcquireWorker"  -> {<<"AccessInfo2", id>>}
      [] fn = "ListWorkers"    -> {<<"WorkerInfos", "some">>}
      [] fn = "GetWorkerInfo"  -> {<<"WorkerInfo", "some">>}
      [] fn = "Version"        -> {<<"BorutaVersion", "some">>}
      [] OTHER                 -> {<<"null">>}

CallFields ==
    call = [pc |-> call.pc, m |-> call.m, id |-> call.id, did |-> call.did,
            value |-> call.value, answer |-> call.answer, result |-> call.result]

\* A call that has not been served.
NotServed ==
    call.pc \in {"idle", "sent"} => call.did = "nothing" /\ call.value = Nothing

\* The user learns nothing before the call returns.
NothingYet == call.pc # "returned" => call.result = Failure

\* What an answer on its way says of the call that it answers.
AnswerOf ==
    LET route == RouteOf(call.m)
        head  == BorutaClient[call.m].method = "HEAD"
        a     == call.answer
    IN
    call.pc = "answered" =>
        /\ call.did \in Outcome
        /\ call.did = "ok" =>
              /\ call.value \in DataOf(route.fn, call.id)
              /\ a.status = route.status
              /\ a.list = (route.fn \in {"ListRequests", "ListWorkers"})
              /\ a.body \in IF head \/ route.status = 204 THEN {Nothing}
                            ELSE {call.value, PanicText}
        /\ call.did # "ok" => a.status = ErrorStatus(call.did)

\* CloseRequest is answered with "not found", or the request has ended.
CloseTold ==
    call.pc = "answered" /\ call.m = "CloseRequest" /\ call.answer.status # 404 =>
        reqs[call.id] \in Ended

IInv ==
    /\ TypeOK /\ Dense(reqs)
    /\ CallFields /\ NotServed /\ NothingYet /\ AnswerOf
    /\ CloseTold /\ CloseAnswered
    /\ AnswerIsTrue /\ OthersReported

-----------------------------------------------------------------------------
(***************************************************************************)
(* The two sides of a call.                                                *)
(***************************************************************************)
Headers == {"GetRequestState", "GetWorkerState", "GetJobTimeout", "Version"}

Silent == {"CloseRequest", "UpdateRequest", "ProlongAccess", "SetState", "SetGroups", "Deregister"}

Telling ==
    {"NewRequest", "GetRequestInfo", "ListRequests", "AcquireWorker", "ListWorkers", "GetWorkerInfo"}

\* Each method makes one of three kinds of calls.
LEMMA Kinds == Methods = Headers \cup Silent \cup Telling
BY DEF Methods, BorutaClient, Headers, Silent, Telling

\* HEAD calls expect the status 204, which no route that serves them has.
LEMMA HeaderRoutes ==
    ASSUME NEW m \in Headers
    PROVE  /\ BorutaClient[m].val = "header" /\ BorutaClient[m].method = "HEAD"
           /\ RouteOf(m).fn \in {"GetRequestInfo", "GetWorkerInfo", "notFoundHandler"}
           /\ RouteOf(m).status \in {200, 404}
BY DEF Headers, BorutaClient, ClientCall, RouteOf, GetRoute, Route, NoRoute

\* Calls that bring back no value succeed with 204, all but SetState.
LEMMA SilentRoutes ==
    ASSUME NEW m \in Silent
    PROVE  /\ BorutaClient[m].val = "nil" /\ BorutaClient[m].method = "POST"
           /\ RouteOf(m) = Route(m, IF m = "SetState" THEN 202 ELSE 204)
BY DEF Silent, BorutaClient, ClientCall, RouteOf, PostRoute, Route

\* Calls that bring back a value are decoded into the kind that was encoded.
LEMMA TellingRoutes ==
    ASSUME NEW m \in Telling
    PROVE  /\ BorutaClient[m].method # "HEAD"
           /\ RouteOf(m) = Route(m, IF m = "NewRequest" THEN 201 ELSE 200)
BY DEF Telling, BorutaClient, ClientCall, RouteOf, PostRoute, GetRoute, Route

\* The kind of value that a method decodes is the kind that its handler returns.
LEMMA TellingData ==
    ASSUME NEW m \in Telling, NEW id, NEW v \in DataOf(m, id)
    PROVE  /\ v[1] = BorutaClient[m].val
           /\ BorutaClient[m].val \notin {"nil", "header", "null", "text", "nothing"}
           /\ IsList(BorutaClient[m].val) <=> m \in {"ListRequests", "ListWorkers"}
           /\ m = "AcquireWorker" => v = <<"AccessInfo2", id>>
BY DEF Telling, BorutaClient, ClientCall, DataOf, IsList

\* The status 204 is what getHeaders waits for.
LEMMA HeaderResult ==
    ASSUME NEW m \in Headers, NEW resp, resp.status # 204
    PROVE  Result(m, resp) = Failure
<1>1. BorutaClient[m].val = "header" /\ m # "AcquireWorker"
  BY HeaderRoutes DEF Headers
<1>2. getHeaders(resp) = Failure
  BY DEF getHeaders
<1>. QED  BY <1>1, <1>2 DEF Result, Failure, IsList

\* Without a value to bring back, only 204 is a success.
LEMMA SilentResult ==
    ASSUME NEW m \in Silent, NEW resp
    PROVE  /\ resp.status = 204 => Result(m, resp).ok
           /\ resp.status \in {202, 400, 404} => Result(m, resp) = Failure
<1>1. BorutaClient[m].val = "nil" /\ m \notin {"AcquireWorker", "GetJobTimeout"}
  BY SilentRoutes DEF Silent
<1>2. resp.status = 204 => processResponse(resp, "nil") = Success(<<"nil">>)
  BY DEF processResponse, IsNoContent
<1>3. resp.status \in {202, 400, 404} => processResponse(resp, "nil") = Failure
  BY DEF processResponse, IsNoContent, IsError, bodyJSONUnmarshal
<1>4. Result(m, resp) = processResponse(resp, "nil")
  BY <1>1 DEF Result, IsList
<1>. QED  BY <1>2, <1>3, <1>4 DEF Success

\* No refusal and no text of a panic is taken for a value, and a value for no
\* other.
LEMMA TellingResult ==
    ASSUME NEW m \in Telling, NEW resp, NEW id, NEW v \in DataOf(m, id)
    PROVE  /\ resp.status \in {400, 404} => Result(m, resp) = Failure
           /\ resp.status \in {200, 201} /\ resp.body = PanicText => Result(m, resp) = Failure
           /\ /\ resp.status \in {200, 201} /\ resp.body = v
              /\ resp.list = (m \in {"ListRequests", "ListWorkers"})
              => Result(m, resp) = Success(v)
<1>. DEFINE val == BorutaClient[m].val
<1>1. /\ v[1] = val /\ val \notin {"nil", "header", "null", "text", "nothing"}
      /\ IsList(val) <=> m \in {"ListRequests", "ListWorkers"}
      /\ m = "AcquireWorker" => v = <<"AccessInfo2", id>>
  BY TellingData
<1>2. m # "GetJobTimeout"
  BY DEF Telling
<1>. HIDE DEF val
<1>3. resp.status \in {400, 404} => processResponse(resp, val) = Failure
  BY DEF processResponse, IsNoContent, IsError
<1>4. resp.status \in {200, 201} /\ resp.body = PanicText => processResponse(resp, val) = Failure
  BY DEF processResponse, IsNoContent, IsError, bodyJSONUnmarshal
<1>5. resp.status \in {200, 201} /\ resp.body = v => processResponse(resp, val) = Success(v)
  <2>1. v \notin {PanicText, Nothing} /\ v[1] # "null"
    BY <1>1 DEF PanicText, Nothing
  <2>. QED  BY <1>1, <2>1 DEF processResponse, IsNoContent, IsError, bodyJSONUnmarshal
<1>6. m = "AcquireWorker" => v # <<val>>
  <2>1. \A a, b, c : <<a, b>> # <<c>>
    <3>1. \A a, b, c : Len(<<a, b>>) = 2 /\ Len(<<c>>) = 1
      OBVIOUS
    <3>. QED  BY <3>1
  <2>. QED  BY <1>1, <2>1
<1>7. Result(m, resp) =
        IF \/ IsList(val) /\ ~resp.list
           \/ m = "AcquireWorker" /\ processResponse(resp, val).value = <<val>>
        THEN Failure ELSE processResponse(resp, val)
  BY <1>1, <1>2 DEF Result, val
<1>8. Success(v).value = v
  BY DEF Success
<1>. DEFINE r == processResponse(resp, val)
            lost == IsList(val) /\ ~resp.list
            noKey == m = "AcquireWorker" /\ r.value = <<val>>
<1>9. /\ r = Failure => Result(m, resp) = Failure
      /\ ~lost /\ ~noKey => Result(m, resp) = r
  BY <1>7
<1>10. ASSUME resp.status \in {200, 201}, resp.body = v,
              resp.list = (m \in {"ListRequests", "ListWorkers"})
       PROVE  ~lost /\ ~noKey /\ r = Success(v)
  BY <1>1, <1>5, <1>6, <1>8, <1>10
<1>. QED  BY <1>3, <1>4, <1>9, <1>10

-----------------------------------------------------------------------------
(***************************************************************************)
(* The requests.                                                           *)
(***************************************************************************)
\* What may become of the requests: no gap comes up, and what has ended stays
\* ended.
GoOn(r) ==
    /\ r \in [IDs -> ReqState \cup {ABSENT}] /\ Dense(r)
    /\ \A id \in IDs : reqs[id] \in Ended => r[id] \in Ended

\* A new request gets the first ID that nobody has.
LEMMA NewIDNext ==
    ASSUME NEW n \in 0 .. MaxRequests, \A id \in IDs : reqs[id] # ABSENT <=> id <= n
    PROVE  NewID = n + 1
<1>1. {id \in IDs : reqs[id] # ABSENT} = 1 .. n
  BY DEF IDs
<1>2. Cardinality(1 .. n) = n
  BY FS_Interval
<1>. QED  BY <1>1, <1>2 DEF NewID

\* While an ID is free, the next one is.
LEMMA NewIDFree ==
    ASSUME Dense(reqs), NEW i \in IDs, reqs[i] = ABSENT
    PROVE  NewID \in IDs /\ reqs[NewID] = ABSENT
<1>1. PICK n \in 0 .. MaxRequests : \A id \in IDs : reqs[id] # ABSENT <=> id <= n
  BY DEF Dense
<1>2. n < MaxRequests
  BY <1>1 DEF IDs
<1>. QED  BY <1>1, <1>2, NewIDNext DEF IDs

\* NewRequest, and whoever else makes a request.
LEMMA NewRequestGoesOn ==
    ASSUME TypeOK, Dense(reqs), NEW i \in IDs, reqs[i] = ABSENT
    PROVE  GoOn([reqs EXCEPT ![NewID] = WAIT])
<1>. DEFINE r == [reqs EXCEPT ![NewID] = WAIT]
<1>1. PICK n \in 0 .. MaxRequests : \A id \in IDs : reqs[id] # ABSENT <=> id <= n
  BY DEF Dense
<1>2. NewID = n + 1 /\ NewID \in IDs /\ reqs[NewID] = ABSENT
  BY <1>1, NewIDNext, NewIDFree
<1>3. r \in [IDs -> ReqState \cup {ABSENT}] /\ \A id \in IDs : r[id] = IF id = n + 1 THEN WAIT ELSE reqs[id]
  BY <1>2 DEF TypeOK, ReqState
<1>4. Dense(r)
  <2>1. n + 1 \in 0 .. MaxRequests
    BY <1>2 DEF IDs
  <2>2. WAIT # ABSENT
    BY DEF WAIT, ABSENT
  <2>3. \A id \in IDs : r[id] # ABSENT <=> id <= n + 1
    BY <1>1, <1>3, <2>2 DEF IDs
  <2>. HIDE DEF r
  <2>. QED  BY <2>1, <2>3 DEF Dense
<1>5. \A id \in IDs : reqs[id] \in Ended => r[id] \in Ended
  BY <1>2, <1>3 DEF Ended, CANCEL, TIMEOUT, DONE, FAILED, ABSENT
<1>. QED  BY <1>3, <1>4, <1>5 DEF GoOn

\* A request that is there goes from one state to another.
LEMMA MoveGoesOn ==
    ASSUME TypeOK, Dense(reqs), NEW i \in IDs, NEW s \in ReqState,
           reqs[i] \in {WAIT, INPROGRESS}
    PROVE  GoOn([reqs EXCEPT ![i] = s])
<1>. DEFINE r == [reqs EXCEPT ![i] = s]
<1>1. r \in [IDs -> ReqState \cup {ABSENT}] /\ \A id \in IDs : r[id] = IF id = i THEN s ELSE reqs[id]
  BY DEF TypeOK
<1>2. reqs[i] # ABSENT /\ s # ABSENT /\ reqs[i] \notin Ended
  BY DEF Ended, ReqState, WAIT, INPROGRESS, CANCEL, TIMEOUT, DONE, FAILED, ABSENT
<1>3. \A id \in IDs : r[id] # ABSENT <=> reqs[id] # ABSENT
  BY <1>1, <1>2
<1>. HIDE DEF r
<1>4. Dense(r)
  BY <1>3 DEF Dense
<1>. QED  BY <1>1, <1>2, <1>4 DEF GoOn, r

\* What the steps of RequestStates are.
LEMMA StatesGoOn ==
    ASSUME TypeOK, Dense(reqs), RS!Next
    PROVE  GoOn(reqs')
<1>. USE DEF RS!goes, RS!IDs, IDs, RS!WAIT, RS!INPROGRESS, RS!CANCEL, RS!TIMEOUT, RS!DONE, RS!FAILED,
             RS!ABSENT, WAIT, INPROGRESS, CANCEL, TIMEOUT, DONE, FAILED, ABSENT, ReqState
<1>1. PICK i \in IDs : RS!New(i) \/ RS!Run(i) \/ RS!Close(i) \/ RS!Timeout(i) \/ RS!Fail(i)
  BY DEF RS!Next
<1>2. CASE RS!New(i)
  <2>1. /\ reqs[i] = ABSENT /\ reqs' = [reqs EXCEPT ![i] = WAIT]
        /\ \A id \in IDs : id < i => reqs[id] # ABSENT
    BY <1>2 DEF RS!New
  <2>2. PICK n \in 0 .. MaxRequests : \A id \in IDs : reqs[id] # ABSENT <=> id <= n
    BY DEF Dense
  <2>3. NewID = n + 1 /\ NewID \in IDs /\ reqs[NewID] = ABSENT
    BY <2>1, <2>2, NewIDNext, NewIDFree
  <2>4. i = NewID
    <3>1. ~(i <= n) /\ ~(n + 1 < i)
      BY <2>1, <2>2, <2>3
    <3>. QED  BY <2>3, <3>1
  <2>. QED  BY <2>1, <2>4, NewRequestGoesOn
<1>3. CASE RS!Run(i) \/ RS!Close(i) \/ RS!Timeout(i) \/ RS!Fail(i)
  <2>1. PICK s \in ReqState : reqs[i] \in {WAIT, INPROGRESS} /\ reqs' = [reqs EXCEPT ![i] = s]
    BY <1>3 DEF RS!Run, RS!Close, RS!Timeout, RS!Fail
  <2>. QED  BY <2>1, MoveGoesOn
<1>. QED  BY <1>1, <1>2, <1>3

\* What a call that succeeds does is a step of RequestStates, or nothing.
LEMMA EffectIsStep ==
    ASSUME TypeOK, Dense(reqs), NEW fn, NEW id \in IDs, "ok" \in Outcomes(fn, id),
           reqs' = Effect(fn, id)
    PROVE  RS!Next \/ UNCHANGED reqs
<1>. USE DEF RS!goes, RS!IDs, IDs, RS!WAIT, RS!INPROGRESS, RS!CANCEL, RS!DONE,
             RS!ABSENT, WAIT, INPROGRESS, CANCEL, DONE, ABSENT
<1>1. CASE fn = "NewRequest"
  <2>1. PICK i \in IDs : reqs[i] = ABSENT
    BY <1>1 DEF Outcomes
  <2>2. PICK n \in 0 .. MaxRequests : \A j \in IDs : reqs[j] # ABSENT <=> j <= n
    BY DEF Dense
  <2>3. NewID = n + 1 /\ NewID \in IDs /\ reqs[NewID] = ABSENT
    BY <2>1, <2>2, NewIDNext, NewIDFree
  <2>4. \A j \in IDs : j < NewID => reqs[j] # ABSENT
    BY <2>2, <2>3
  <2>5. reqs' = [reqs EXCEPT ![NewID] = WAIT]
    BY <1>1 DEF Effect
  <2>6. RS!New(NewID)
    BY <2>3, <2>4, <2>5 DEF RS!New
  <2>. QED  BY <2>3, <2>6 DEF RS!Next
<1>2. CASE fn = "CloseRequest"
  <2>1. "ok" = Closing(reqs[id])
    BY <1>2 DEF Outcomes
  <2>2. reqs[id] # ABSENT /\ reqs[id] \notin Ended
    BY <2>1 DEF Closing
  <2>3. reqs[id] \in {WAIT, INPROGRESS}
    BY <2>2 DEF TypeOK, ReqState, Ended
  <2>4. reqs' = [reqs EXCEPT ![id] = IF @ = WAIT THEN CANCEL ELSE DONE]
    BY <1>2 DEF Effect
  <2>5. RS!Close(id)
    BY <2>3, <2>4 DEF RS!Close
  <2>. QED  BY <2>5 DEF RS!Next
<1>3. CASE fn \notin {"NewRequest", "CloseRequest"}
  BY <1>3 DEF Effect
<1>. QED  BY <1>1, <1>2, <1>3

\* A call that succeeds lets the requests go on, returns what DataOf says, and
\* CloseRequest ends its request.
LEMMA EffectGoesOn ==
    ASSUME TypeOK, Dense(reqs), NEW fn, NEW id \in IDs, "ok" \in Outcomes(fn, id)
    PROVE  /\ GoOn(Effect(fn, id))
           /\ Data(fn, id) \in DataOf(fn, id)
           /\ fn = "CloseRequest" => Effect(fn, id)[id] \in Ended
<1>1. CASE fn = "NewRequest"
  <2>1. PICK i \in IDs : reqs[i] = ABSENT
    BY <1>1 DEF Outcomes
  <2>2. NewID \in IDs /\ GoOn([reqs EXCEPT ![NewID] = WAIT])
    BY <2>1, NewIDFree, NewRequestGoesOn
  <2>. QED  BY <1>1, <2>2 DEF Effect, Data, DataOf
<1>2. CASE fn = "CloseRequest"
  <2>1. "ok" = Closing(reqs[id])
    BY <1>2 DEF Outcomes
  <2>2. reqs[id] # ABSENT /\ reqs[id] \notin Ended
    BY <2>1 DEF Closing
  <2>3. reqs[id] \in {WAIT, INPROGRESS}
    BY <2>2 DEF TypeOK, ReqState, Ended
  <2>. DEFINE s == IF reqs[id] = WAIT THEN CANCEL ELSE DONE
  <2>4. s \in ReqState /\ s \in Ended
    BY DEF ReqState, Ended
  <2>5. Effect(fn, id) = [reqs EXCEPT ![id] = s] /\ [reqs EXCEPT ![id] = s][id] = s
    BY <1>2 DEF Effect, TypeOK
  <2>6. Data(fn, id) \in DataOf(fn, id)
    BY <1>2 DEF Data, DataOf
  <2>. HIDE DEF s
  <2>. QED  BY <2>3, <2>4, <2>5, <2>6, MoveGoesOn
<1>3. CASE fn \notin {"NewRequest", "CloseRequest"}
  <2>1. Effect(fn, id) = reqs
    BY <1>3 DEF Effect
  <2>2. GoOn(reqs)
    BY DEF GoOn, TypeOK
  <2>3. Data(fn, id) \in DataOf(fn, id)
    BY <1>3 DEF Data, DataOf, TypeOK
  <2>. QED  BY <1>3, <2>1, <2>2, <2>3
<1>. QED  BY <1>1, <1>2, <1>3

-----------------------------------------------------------------------------
(***************************************************************************)
(* The invariant, step by step.                                            *)
(***************************************************************************)
\* What TypeOK says of the call, of the requests, and of the rest.
CallType ==
    /\ call.pc \in {"idle", "sent", "answered", "returned"}
    /\ call.m \in Methods /\ call.id \in IDs
    /\ call.did \in Outcome \cup {"nothing"}
    /\ call.value[1] = "ReqIDPack" => call.value[2] \in IDs

\* What the invariant says of the call alone.
CallInv ==
    /\ CallType /\ CallFields /\ NotServed /\ NothingYet /\ AnswerOf
    /\ AnswerIsTrue /\ OthersReported

\* There are no requests, and no call.
LEMMA InitInv == Init => IInv
<1>. SUFFICES ASSUME Init PROVE IInv
  OBVIOUS
<1>1. 1 \in IDs /\ "Version" \in Methods
  BY DEF IDs, Methods, BorutaClient
<1>2. CallInv
  BY <1>1 DEF Init, CallInv, CallType, CallFields, NotServed, NothingYet, AnswerOf, AnswerIsTrue,
     OthersReported, Reported, NoCall, Outcome, Nothing
<1>3. Dense(reqs)
  BY DEF Init, Dense, IDs
<1>. QED  BY <1>1, <1>2, <1>3 DEF Init, IInv, TypeOK, CallInv, CallType, CloseTold, CloseAnswered, NoCall

\* The requests go on while the call, if there is one, stays where it is.
LEMMA RequestsGoOn ==
    ASSUME IInv, GoOn(reqs'), UNCHANGED <<call, closed>>,
           late' \subseteq [fn : Methods \cup {"notFoundHandler"}, id : IDs]
    PROVE  IInv'
<1>1. TypeOK'
  BY DEF IInv, TypeOK, GoOn
<1>2. Dense(reqs)' /\ CloseTold' /\ CloseAnswered'
  BY DEF IInv, GoOn, Dense, CloseTold, CloseAnswered, TypeOK
<1>3. (CallFields /\ NotServed /\ NothingYet /\ AnswerOf)'
  BY DEF IInv, CallFields, NotServed, NothingYet, AnswerOf
<1>4. (AnswerIsTrue /\ OthersReported)'
  BY DEF IInv, AnswerIsTrue, OthersReported, Reported
<1>. QED  BY <1>1, <1>2, <1>3, <1>4 DEF IInv

\* The call goes on while the requests stay where they are, and only a call
\* that is answered says something of them.
LEMMA CallGoesOn ==
    ASSUME IInv, CallInv', UNCHANGED reqs,
           closed' \subseteq IDs, \A id \in closed' : reqs[id] \in Ended,
           call'.pc # "answered",
           late' \subseteq [fn : Methods \cup {"notFoundHandler"}, id : IDs]
    PROVE  IInv'
<1>1. TypeOK'
  BY DEF IInv, TypeOK, CallInv, CallType
<1>2. Dense(reqs)' /\ CloseTold' /\ CloseAnswered'
  BY DEF IInv, Dense, CloseTold, CloseAnswered, TypeOK
<1>. QED  BY <1>1, <1>2 DEF IInv, CallInv

\* The user makes a call.
LEMMA CallKeeps == ASSUME IInv, NEW m \in Methods, NEW id \in IDs, Call(m, id) PROVE IInv'
<1>1. call' = [pc |-> "sent", m |-> m, id |-> id, did |-> "nothing",
               value |-> Nothing, answer |-> NoAnswer, result |-> Failure]
  BY DEF Call, NoCall
<1>2. CallInv'
  BY <1>1 DEF CallInv, CallType, CallFields, NotServed, NothingYet, AnswerOf, AnswerIsTrue,
     OthersReported, Reported, Nothing
<1>. QED  BY <1>1, <1>2, CallGoesOn DEF Call, IInv, TypeOK, CloseAnswered

\* The user forgets the call.
LEMMA ReturnKeeps == ASSUME IInv, Return PROVE IInv'
<1>1. call' = NoCall /\ 1 \in IDs /\ "Version" \in Methods
  BY DEF Return, IDs, Methods, BorutaClient
<1>2. CallInv'
  BY <1>1 DEF NoCall, CallInv, CallType, CallFields, NotServed, NothingYet, AnswerOf, AnswerIsTrue,
     OthersReported, Reported, Nothing, Failure
<1>. QED  BY <1>1, <1>2, CallGoesOn DEF Return, NoCall, IInv, TypeOK, CloseAnswered

\* The call returns without an answer: nothing is reported.
LEMMA NoAnswerKeeps ==
    ASSUME IInv, call.pc \in {"sent", "answered"},
           NEW answer, call' = [call EXCEPT !.pc = "returned", !.answer = answer],
           answer = NoAnswer \/ call.pc = "sent",
           UNCHANGED <<reqs, closed>>,
           late' \subseteq [fn : Methods \cup {"notFoundHandler"}, id : IDs]
    PROVE  IInv'
<1>1. /\ call' = [pc |-> "returned", m |-> call.m, id |-> call.id, did |-> call.did,
                  value |-> call.value, answer |-> answer, result |-> call.result]
      /\ call.result = Failure
  BY DEF IInv, CallFields, NothingYet
<1>2. CallType' /\ CallFields' /\ NotServed' /\ NothingYet' /\ AnswerOf'
  BY <1>1 DEF IInv, TypeOK, CallType, CallFields, NotServed, NothingYet, AnswerOf
<1>3. AnswerIsTrue'
  BY <1>1 DEF AnswerIsTrue, Failure
<1>4. OthersReported'
  BY <1>1 DEF OthersReported, Reported, IInv, NotServed
<1>. QED  BY <1>1, <1>2, <1>3, <1>4, CallGoesOn DEF CallInv, IInv, TypeOK, CloseAnswered

\* The connection breaks.
LEMMA LostKeeps == ASSUME IInv, Lost PROVE IInv'
BY NoAnswerKeeps DEF Lost, IInv, TypeOK

\* The function that serves a call, or the one for paths that are no route.
LEMMA RouteFunctions == ASSUME NEW m \in Methods PROVE RouteOf(m).fn \in Methods \cup {"notFoundHandler"}
<1>1. m \in Headers \/ m \in Silent \/ m \in Telling
  BY Kinds
<1>2. {"GetRequestInfo", "GetWorkerInfo"} \subseteq Methods
  BY Kinds DEF Telling
<1>. QED  BY <1>1, <1>2, HeaderRoutes, SilentRoutes, TellingRoutes DEF Route

\* The user gives up a call that is still on its way.
LEMMA GiveUpKeeps == ASSUME IInv, GiveUp PROVE IInv'
<1>1. call' = [call EXCEPT !.pc = "returned", !.answer = call.answer]
  BY DEF GiveUp, IInv, CallFields
<1>2. late' \subseteq [fn : Methods \cup {"notFoundHandler"}, id : IDs]
  BY RouteFunctions DEF GiveUp, IInv, TypeOK
<1>. QED  BY <1>1, <1>2, NoAnswerKeeps DEF GiveUp

\* A call that nobody waits for is performed.
LEMMA ServeLateKeeps ==
    ASSUME IInv, NEW l \in late, NEW outcome \in Outcome, ServeLate(l, outcome) PROVE IInv'
<1>1. l.id \in IDs
  BY DEF IInv, TypeOK
<1>2. GoOn(reqs)
  BY DEF GoOn, IInv, TypeOK
<1>3. GoOn(reqs')
  BY <1>1, <1>2, EffectGoesOn DEF ServeLate, IInv
<1>. QED  BY <1>3, RequestsGoOn DEF ServeLate, IInv, TypeOK

\* A request goes on without the call.
LEMMA RequestStepKeeps == ASSUME IInv, RequestStep PROVE IInv'
<1>1. GoOn(reqs')
  BY StatesGoOn DEF RequestStep, IInv
<1>. QED  BY <1>1, RequestsGoOn DEF RequestStep, IInv, TypeOK

\* The server performs the call, and says so.
LEMMA ServeKeeps ==
    ASSUME IInv, NEW outcome \in Outcome, NEW marshals \in BOOLEAN, Serve(outcome, marshals)
    PROVE  IInv'
<1>. DEFINE route == RouteOf(call.m)
            head == BorutaClient[call.m].method = "HEAD"
            value == IF outcome = "ok" THEN Data(route.fn, call.id) ELSE Nothing
            answer == Respond(route, call.id, outcome, head, marshals)
<1>1. /\ call.pc = "sent" /\ outcome \in Outcomes(route.fn, call.id)
      /\ reqs' = IF outcome = "ok" THEN Effect(route.fn, call.id) ELSE reqs
      /\ UNCHANGED <<late, closed>>
  BY DEF Serve
<1>2. call' = [pc |-> "answered", m |-> call.m, id |-> call.id, did |-> outcome,
               value |-> value, answer |-> answer, result |-> Failure]
  <2>1. call' = [call EXCEPT !.pc = "answered", !.did = outcome, !.value = value, !.answer = answer]
    BY DEF Serve
  <2>2. call.result = Failure
    BY <1>1 DEF IInv, NothingYet
  <2>. HIDE DEF value, answer
  <2>. QED  BY <2>1, <2>2 DEF IInv, CallFields
<1>3. call.m \in Methods /\ call.id \in IDs
  BY DEF IInv, TypeOK
<1>4. GoOn(reqs)
  BY DEF GoOn, IInv, TypeOK
<1>5. GoOn(reqs') /\ (outcome = "ok" => value \in DataOf(route.fn, call.id))
  BY <1>1, <1>3, <1>4, EffectGoesOn DEF IInv
<1>6. value[1] = "ReqIDPack" => value[2] \in IDs
  <2>1. CASE outcome # "ok"
    BY <2>1 DEF Nothing
  <2>2. CASE outcome = "ok"
    <3>. HIDE DEF value
    <3>. QED  BY <1>5, <2>2 DEF DataOf
  <2>. QED  BY <2>1, <2>2
<1>7. /\ outcome = "ok" => /\ answer.status = route.status
                           /\ answer.list = (route.fn \in {"ListRequests", "ListWorkers"})
                           /\ answer.body \in IF head \/ route.status = 204 THEN {Nothing}
                                              ELSE {value, PanicText}
      /\ outcome # "ok" => answer.status = ErrorStatus(outcome)
  BY DEF Respond
<1>. HIDE DEF value, answer
<1>8. CallInv'
  <2>1. CallType'
    BY <1>2, <1>3, <1>6 DEF CallType
  <2>2. CallFields' /\ NotServed' /\ NothingYet' /\ AnswerIsTrue' /\ OthersReported'
    BY <1>2 DEF CallFields, NotServed, NothingYet, AnswerIsTrue, OthersReported, Reported
  <2>3. AnswerOf'
    BY <1>2, <1>5, <1>7 DEF AnswerOf
  <2>. QED  BY <2>1, <2>2, <2>3 DEF CallInv
<1>9. CloseTold'
  <2>. SUFFICES ASSUME call.m = "CloseRequest", answer.status # 404
                PROVE  reqs'[call.id] \in Ended
    BY <1>2 DEF CloseTold
  <2>1. route.fn = "CloseRequest"
    BY SilentRoutes DEF Silent, Route
  <2>2. CASE outcome = "ok"
    BY <1>1, <1>3, <2>1, <2>2, EffectGoesOn DEF IInv
  <2>3. CASE outcome # "ok"
    <3>1. outcome = Closing(reqs[call.id])
      BY <1>1, <2>1 DEF Outcomes
    <3>2. outcome # "notfound"
      BY <1>7, <2>3 DEF ErrorStatus
    <3>. QED  BY <1>1, <2>3, <3>1, <3>2 DEF Closing
  <2>. QED  BY <2>2, <2>3
<1>10. TypeOK' /\ Dense(reqs)' /\ CloseAnswered'
  BY <1>1, <1>5, <1>8 DEF IInv, TypeOK, CallInv, CallType, GoOn, CloseAnswered, Dense
<1>. QED  BY <1>8, <1>9, <1>10 DEF IInv, CallInv

\* The client makes of an answer what the server has made of the call.
LEMMA ReceiveKeeps == ASSUME IInv, Receive PROVE IInv'
<1>. DEFINE m == call.m
            route == RouteOf(m)
            a == call.answer
            result == Result(m, a)
<1>1. /\ call.pc = "answered"
      /\ closed' = IF m = "CloseRequest" /\ a.status # 404 THEN closed \cup {call.id} ELSE closed
      /\ UNCHANGED <<reqs, late>>
  BY DEF Receive
<1>2. call' = [pc |-> "returned", m |-> m, id |-> call.id, did |-> call.did,
               value |-> call.value, answer |-> a, result |-> result]
  <2>1. call' = [call EXCEPT !.pc = "returned", !.result = result]
    BY DEF Receive
  <2>. HIDE DEF result
  <2>. QED  BY <2>1 DEF IInv, CallFields
<1>3. m \in Methods /\ call.did \in Outcome
  BY <1>1 DEF IInv, TypeOK, AnswerOf
<1>4. call.did # "ok" => a.status \in {400, 404}
  BY <1>1, <1>3 DEF IInv, AnswerOf, ErrorStatus
<1>5. call.did = "ok" =>
        /\ call.value \in DataOf(route.fn, call.id)
        /\ a.status = route.status
        /\ a.list = (route.fn \in {"ListRequests", "ListWorkers"})
        /\ a.body \in IF BorutaClient[m].method = "HEAD" \/ route.status = 204 THEN {Nothing}
                      ELSE {call.value, PanicText}
  BY <1>1 DEF IInv, AnswerOf
<1>6. /\ result.ok => /\ call.did = "ok"
                      /\ BorutaClient[m].val # "nil" => result.value = call.value
      /\ m \notin Misread /\ call.did = "ok" /\ a.body # PanicText => result.ok
  <2>1. ~Failure.ok
    BY DEF Failure
  <2>2. CASE m \in Headers
    <3>1. m \in Misread
      BY <2>2 DEF Headers, Misread
    <3>2. a.status # 204
      BY <1>3, <1>4, <1>5, <2>2, HeaderRoutes
    <3>3. result = Failure
      BY <2>2, <3>2, HeaderResult
    <3>. QED  BY <2>1, <3>1, <3>3
  <2>3. CASE m \in Silent
    <3>1. route.status = IF m = "SetState" THEN 202 ELSE 204
      BY <2>3, SilentRoutes DEF Route
    <3>2. /\ a.status = 204 => result.ok
          /\ a.status \in {202, 400, 404} => result = Failure
      BY <2>3, SilentResult
    <3>3. BorutaClient[m].val = "nil"
      BY <2>3, SilentRoutes
    <3>. HIDE DEF result
    <3>. QED  BY <1>4, <1>5, <2>1, <3>1, <3>2, <3>3 DEF Misread
  <2>4. CASE m \in Telling
    <3>1. BorutaClient[m].method # "HEAD" /\ route = Route(m, IF m = "NewRequest" THEN 201 ELSE 200)
      BY <2>4, TellingRoutes
    <3>2. CASE call.did # "ok"
      <4>1. PICK v : v \in DataOf(m, call.id)
        <5>1. 1 \in IDs /\ WAIT \in ReqState
          BY DEF IDs, ReqState
        <5>2. m = "NewRequest" => <<"ReqIDPack", 1>> \in DataOf(m, call.id)
          BY <5>1 DEF DataOf
        <5>3. m = "GetRequestInfo" => <<"ReqInfo", WAIT>> \in DataOf(m, call.id)
          BY <5>1 DEF DataOf
        <5>4. m \notin {"NewRequest", "GetRequestInfo"} => DataOf(m, call.id) # {}
          BY <2>4 DEF DataOf, Telling
        <5>. QED  BY <5>2, <5>3, <5>4
      <4>2. result = Failure
        BY <1>4, <2>4, <3>2, <4>1, TellingResult
      <4>. QED  BY <2>1, <3>2, <4>2
    <3>3. CASE call.did = "ok"
      <4>1. /\ call.value \in DataOf(m, call.id) /\ a.status \in {200, 201}
            /\ a.list = (m \in {"ListRequests", "ListWorkers"})
            /\ a.body \in {call.value, PanicText}
        BY <1>5, <3>1, <3>3 DEF Route
      <4>2. CASE a.body = PanicText
        <5>1. result = Failure
          BY <2>4, <4>1, <4>2, TellingResult
        <5>. QED  BY <2>1, <4>2, <5>1
      <4>3. CASE a.body = call.value
        <5>1. result = Success(call.value)
          BY <2>4, <4>1, <4>3, TellingResult
        <5>. QED  BY <3>3, <5>1 DEF Success
      <4>. QED  BY <4>1, <4>2, <4>3
    <3>. QED  BY <3>2, <3>3
  <2>. QED  BY <1>3, <2>2, <2>3, <2>4, Kinds
<1>. HIDE DEF result
<1>7. CallInv'
  <2>1. CallType' /\ CallFields' /\ NotServed' /\ NothingYet' /\ AnswerOf'
    BY <1>2, <1>3 DEF IInv, TypeOK, CallType, CallFields, NotServed, NothingYet, AnswerOf
  <2>2. AnswerIsTrue' /\ OthersReported'
    BY <1>2, <1>6 DEF AnswerIsTrue, OthersReported, Reported
  <2>. QED  BY <2>1, <2>2 DEF CallInv
<1>8. closed' \subseteq IDs /\ \A id \in closed' : reqs[id] \in Ended
  BY <1>1 DEF IInv, TypeOK, CloseTold, CloseAnswered
<1>. QED  BY <1>1, <1>2, <1>7, <1>8, CallGoesOn DEF IInv, TypeOK

\* No step opens a gap between the IDs or brings back what has ended.
LEMMA StepGoesOn == IInv /\ [Next]_vars => GoOn(reqs')
<1>. SUFFICES ASSUME IInv, [Next]_vars PROVE GoOn(reqs')
  OBVIOUS
<1>1. GoOn(reqs)
  BY DEF GoOn, IInv, TypeOK
<1>2. CASE UNCHANGED reqs
  BY <1>1, <1>2
<1>3. ASSUME NEW outcome \in Outcome, NEW marshals \in BOOLEAN, Serve(outcome, marshals)
      PROVE  GoOn(reqs')
  <2>1. call.id \in IDs
    BY DEF IInv, TypeOK
  <2>. QED  BY <1>1, <1>3, <2>1, EffectGoesOn DEF Serve, IInv
<1>4. ASSUME NEW l \in late, NEW outcome \in Outcome, ServeLate(l, outcome) PROVE GoOn(reqs')
  <2>1. l.id \in IDs
    BY DEF IInv, TypeOK
  <2>. QED  BY <1>1, <1>4, <2>1, EffectGoesOn DEF ServeLate, IInv
<1>5. CASE RequestStep
  BY <1>5, StatesGoOn DEF RequestStep, IInv
<1>. QED
  BY <1>2, <1>3, <1>4, <1>5 DEF Next, Call, Receive, Lost, GiveUp, Return, vars

\* Every step keeps the invariant.
LEMMA StepInv == IInv /\ [Next]_vars => IInv'
<1>. SUFFICES ASSUME IInv, [Next]_vars PROVE IInv'
  OBVIOUS
<1>1. CASE UNCHANGED vars
  <2>1. GoOn(reqs)
    BY DEF GoOn, IInv, TypeOK
  <2>. QED  BY <1>1, <2>1, RequestsGoOn DEF vars, IInv, TypeOK
<1>2. CASE \E m \in Methods, id \in IDs : Call(m, id)
  BY <1>2, CallKeeps
<1>3. CASE \E outcome \in Outcome, marshals \in BOOLEAN : Serve(outcome, marshals)
  BY <1>3, ServeKeeps
<1>4. CASE Receive \/ Lost \/ GiveUp \/ Return
  BY <1>4, ReceiveKeeps, LostKeeps, GiveUpKeeps, ReturnKeeps
<1>5. CASE \E l \in late, outcome \in Outcome : ServeLate(l, outcome)
  BY <1>5, ServeLateKeeps
<1>6. CASE RequestStep
  BY <1>6, RequestStepKeeps
<1>. QED  BY <1>1, <1>2, <1>3, <1>4, <1>5, <1>6 DEF Next

\* The invariant holds in every reachable state.
THEOREM Invariance == Spec => []IInv
BY InitInv, StepInv, PTL DEF Spec

\* TypeOK, of http/server/api and http/client.  NewRequest returns an ID that
\* exists, since IDs are given without a gap.
THEOREM TypesKept == Spec => []TypeOK
<1>1. IInv => TypeOK
  BY DEF IInv
<1>. QED  BY <1>1, Invariance, PTL

\* AnswerIsTrue: what BorutaClient returns without an error is what the server
\* has done and returned, whatever is lost, late or damaged on the way.
THEOREM AnswersTrue == Spec => []AnswerIsTrue
<1>1. IInv => AnswerIsTrue
  BY DEF IInv
<1>. QED  BY <1>1, Invariance, PTL

\* CloseAnswered: after any answer of CloseRequest but "not found", the request
\* has ended for ever, although others, and late calls, go on with requests.
THEOREM ClosedEnded == Spec => []CloseAnswered
<1>1. IInv => CloseAnswered
  BY DEF IInv
<1>. QED  BY <1>1, Invariance, PTL

\* OthersReported: but for the five methods whose answers the client misreads,
\* a call that has succeeded is reported as a success.
THEOREM SuccessesTold == Spec => []OthersReported
<1>1. IInv => OthersReported
  BY DEF IInv
<1>. QED  BY <1>1, Invariance, PTL

\* ImplementsRequestStates: the handlers, which see nothing but a method, a path
\* and an ID, make of the requests only what Boruta does, also when calls are
\* performed late or twice.
THEOREM RequestsFollow == Spec => ImplementsRequestStates
<1>1. Init => RS!Init
  BY DEF Init, RS!Init, RS!IDs, IDs, RS!ABSENT, ABSENT
<1>2. IInv /\ [Next]_vars => [RS!Next]_reqs
  <2>. SUFFICES ASSUME IInv, [Next]_vars PROVE RS!Next \/ UNCHANGED reqs
    OBVIOUS
  <2>1. ASSUME NEW outcome \in Outcome, NEW marshals \in BOOLEAN, Serve(outcome, marshals)
        PROVE  RS!Next \/ UNCHANGED reqs
    <3>1. call.id \in IDs
      BY DEF IInv, TypeOK
    <3>. QED  BY <2>1, <3>1, EffectIsStep DEF Serve, IInv
  <2>2. ASSUME NEW l \in late, NEW outcome \in Outcome, ServeLate(l, outcome)
        PROVE  RS!Next \/ UNCHANGED reqs
    <3>1. l.id \in IDs
      BY DEF IInv, TypeOK
    <3>. QED  BY <2>2, <3>1, EffectIsStep DEF ServeLate, IInv
  <2>. QED
    BY <2>1, <2>2 DEF Next, Call, Receive, Lost, GiveUp, Return, RequestStep, vars
<1>. QED  BY <1>1, <1>2, Invariance, PTL DEF Spec, ImplementsRequestStates, RS!Spec

\* Whatever steps follow, a request that has ended stays ended: the action
\* property behind ClosedEnded.
THEOREM EndedForGood == Spec => [][\A id \in IDs : reqs[id] \in Ended => reqs'[id] \in Ended]_reqs
<1>1. IInv /\ [Next]_vars => [\A id \in IDs : reqs[id] \in Ended => reqs'[id] \in Ended]_reqs
  BY StepGoesOn DEF GoOn
<1>. QED  BY <1>1, Invariance, PTL DEF Spec
=============================================================================
