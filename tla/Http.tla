-------------------------------- MODULE Http --------------------------------
(***************************************************************************)
(* The HTTP API of the server (http/server/api) and the client library     *)
(* (http/client): a user makes one call after another, while the requests  *)
(* change under them.  A call can be lost on its way, its answer can be    *)
(* lost after it has been performed, and a call the user has given up can  *)
(* still be performed later.                                               *)
(*                                                                         *)
(* The two sides agree on nothing but paths, statuses, headers and JSON    *)
(* values, so each is translated from its own source.  The collection of   *)
(* requests is seen as in Boruta, with one state for each request; about   *)
(* workers only the outcome of a call is told.                             *)
(***************************************************************************)
EXTENDS BorutaTypes, Naturals, FiniteSets

CONSTANTS
    MaxRequests,    \* bound: requests that exist or are asked for
    MaxLate         \* bound: calls performed after their user has given up

ASSUME RequestsAssumption == MaxRequests \in Nat \ {0}
ASSUME LateAssumption     == MaxLate \in Nat

VARIABLES
    reqs,           \* ReqsCollection.requests: the state of each request
    call,           \* the user's call and what has become of it
    late,           \* calls on their way that nobody waits for
    closed          \* history: requests whose CloseRequest was answered, with
                    \*   success or with anything but "not found"

vars == <<reqs, call, late, closed>>

-----------------------------------------------------------------------------
IDs == 1 .. MaxRequests

\* A value that travels, by its kind and by what tells it from others of this
\* kind; one without the latter is a zero value.
Nothing == <<"nothing">>

Ended == {CANCEL, TIMEOUT, DONE, FAILED}

(***************************************************************************)
(* What each method of BorutaClient sends, and the kind of value that it   *)
(* decodes the body of the answer into.                                    *)
(***************************************************************************)
ClientCall(method, path, val) == [method |-> method, path |-> path, val |-> val]

BorutaClient ==
    [ NewRequest      |-> ClientCall("POST", "reqs/",                   "ReqIDPack"),
      CloseRequest    |-> ClientCall("POST", "reqs/:id/close",          "nil"),
      UpdateRequest   |-> ClientCall("POST", "reqs/:id",                "nil"),
      GetRequestInfo  |-> ClientCall("GET",  "reqs/:id",                "ReqInfo"),
      ListRequests    |-> ClientCall("POST", "reqs/list",               "ReqInfos"),
      AcquireWorker   |-> ClientCall("POST", "reqs/:id/acquire_worker", "AccessInfo2"),
      ProlongAccess   |-> ClientCall("POST", "reqs/:id/prolong",        "nil"),
      ListWorkers     |-> ClientCall("POST", "workers/list",            "WorkerInfos"),
      GetWorkerInfo   |-> ClientCall("GET",  "workers/:id",             "WorkerInfo"),
      SetState        |-> ClientCall("POST", "workers/:id/setstate",    "nil"),
      SetGroups       |-> ClientCall("POST", "workers/:id/setgroups",   "nil"),
      Deregister      |-> ClientCall("POST", "workers/:id/deregister",  "nil"),
      GetRequestState |-> ClientCall("HEAD", "reqs/:id",                "header"),
      GetWorkerState  |-> ClientCall("HEAD", "workers/:id",             "header"),
      GetJobTimeout   |-> ClientCall("HEAD", "reqs/:id",                "header"),
      Version         |-> ClientCall("HEAD", "/version",                "header") ]

Methods == DOMAIN BorutaClient

(***************************************************************************)
(* The routes that NewAPI registers: the function that serves a method and *)
(* a path, and the status that stands for its success.                     *)
(***************************************************************************)
Route(fn, status) == [fn |-> fn, status |-> status]

\* setDefaultAPIRedirect registers notFoundHandler for all other paths.
NoRoute == Route("notFoundHandler", 404)

PostRoute(path) ==
    CASE path = "reqs/list"               -> Route("ListRequests",   200)
      [] path = "reqs/"                   -> Route("NewRequest",     201)
      [] path = "reqs/:id"                -> Route("UpdateRequest",  204)
      [] path = "reqs/:id/close"          -> Route("CloseRequest",   204)
      [] path = "reqs/:id/acquire_worker" -> Route("AcquireWorker",  200)
      [] path = "reqs/:id/prolong"        -> Route("ProlongAccess",  204)
      [] path = "workers/list"            -> Route("ListWorkers",    200)
      [] path = "workers/:id/setstate"    -> Route("SetState",       202)
      [] path = "workers/:id/setgroups"   -> Route("SetGroups",      204)
      [] path = "workers/:id/deregister"  -> Route("Deregister",     204)
      [] OTHER                            -> NoRoute

\* The same for GET and HEAD.
GetRoute(path) ==
    CASE path = "reqs/:id"                -> Route("GetRequestInfo", 200)
      [] path = "workers/"                -> Route("ListWorkers",    200)
      [] path = "workers/:id"             -> Route("GetWorkerInfo",  200)
      [] path = "version"                 -> Route("Version",        200)
      [] OTHER                            -> NoRoute

RouteOf(m) ==
    LET c == BorutaClient[m]
    IN  IF c.method = "POST" THEN PostRoute(c.path) ELSE GetRoute(c.path)

-----------------------------------------------------------------------------
(***************************************************************************)
(* The handlers.                                                           *)
(***************************************************************************)
Outcome == {"ok", "notfound", "refused"}

\* The ID of a new request: one more than there are.
NewID0 == Cardinality({id \in IDs : reqs[id] # ABSENT})

NewID == Cardinality({id \in IDs : reqs[id] # ABSENT}) + 1

\* CloseRequest of a request in state s.
ClosingWaiting(s) == IF s = ABSENT THEN "notfound" ELSE IF s = WAIT THEN "ok" ELSE "refused"

ClosingAnyState(s) == IF s = ABSENT THEN "notfound" ELSE "ok"

Closing(s) == IF s = ABSENT THEN "notfound" ELSE IF s \in Ended THEN "refused" ELSE "ok"

\* AcquireWorker and ProlongAccess.
UsingJob(s) == IF s = ABSENT THEN "notfound" ELSE IF s = INPROGRESS THEN "ok" ELSE "refused"

\* How fn may end.  Arguments that cannot be parsed or are not allowed are
\* refused; an update that changes nothing is not looked at.
Outcomes(fn, id) ==
    CASE fn = "NewRequest"     -> IF \E i \in IDs : reqs[i] = ABSENT
                                  THEN {"ok", "refused"} ELSE {"refused"}
      [] fn = "CloseRequest"   -> {Closing(reqs[id])}
      [] fn = "UpdateRequest"  -> {"ok", IF reqs[id] = ABSENT THEN "notfound" ELSE "refused"}
      [] fn = "GetRequestInfo" -> {IF reqs[id] = ABSENT THEN "notfound" ELSE "ok"}
      [] fn \in {"AcquireWorker", "ProlongAccess"} -> {UsingJob(reqs[id])}
      [] fn = "Version"         -> {"ok"}
      [] fn = "notFoundHandler" -> {"notfound"}
      [] OTHER                  -> Outcome      \* lists and workers

\* What a call that succeeds does to the requests.
Effect(fn, id) ==
    CASE fn = "NewRequest"   -> [reqs EXCEPT ![NewID] = WAIT]
      [] fn = "CloseRequest" -> [reqs EXCEPT ![id] = IF @ = WAIT THEN CANCEL ELSE DONE]
      [] OTHER               -> reqs

\* What the handler returns then.
Data(fn, id) ==
    CASE fn = "NewRequest"     -> <<"ReqIDPack", NewID>>
      [] fn = "GetRequestInfo" -> <<"ReqInfo", reqs[id]>>
      [] fn = "ListRequests"   -> <<"ReqInfos", "some">>
      [] fn = "AcquireWorker"  -> <<"AccessInfo2", id>>
      [] fn = "ListWorkers"    -> <<"WorkerInfos", "some">>
      [] fn = "GetWorkerInfo"  -> <<"WorkerInfo", "some">>
      [] fn = "Version"        -> <<"BorutaVersion", "some">>
      [] OTHER                 -> <<"null">>

\* NewServerError.
ErrorStatus(outcome) == IF outcome = "notfound" THEN 404 ELSE 400

\* What panicHandler writes instead of a body; it comes too late for its status.
PanicText == <<"text">>

\* routerSetHandler: headers and status, then the body.  A body that cannot be
\* marshalled, for a time beyond the year 9999, makes the handler panic after
\* the status has been sent.
Respond(route, id, outcome, head, marshals) ==
    LET ok     == outcome = "ok"
        status == IF ok THEN route.status ELSE ErrorStatus(outcome)
        data   == IF ok THEN Data(route.fn, id) ELSE <<"ServerError">>
    IN
    [ status |-> status,
      info   |-> IF ok /\ route.fn \in {"GetRequestInfo", "GetWorkerInfo", "Version"}
                 THEN data ELSE Nothing,
      list   |-> ok /\ route.fn \in {"ListRequests", "ListWorkers"},
      body   |-> IF head \/ status = 204 THEN Nothing ELSE IF marshals THEN data ELSE PanicText ]

\* Only these values hold times that users choose.
MayNotMarshal(fn, outcome) == outcome = "ok" /\ fn \in {"GetRequestInfo", "ListRequests"}

-----------------------------------------------------------------------------
(***************************************************************************)
(* The client's view of an answer.                                         *)
(***************************************************************************)
Failure == [ok |-> FALSE, value |-> Nothing]

Success(value) == [ok |-> TRUE, value |-> value]

IsNoContentNever(status) == FALSE

IsNoContent(status) == status = 204

IsErrorAbove(status) == status > 400

IsError(status) == status >= 400

IsList(kind) == kind \in {"ReqInfos", "WorkerInfos"}

\* json.Unmarshal: null leaves any value zero, an object fills the fields of
\* any structure that it knows, a list goes into a list, and nothing goes into
\* nil.
bodyJSONUnmarshal(body, val) ==
    IF \/ val = "nil"
       \/ body \in {PanicText, Nothing}
       \/ body[1] # "null" /\ IsList(body[1]) # IsList(val)
    THEN Failure
    ELSE Success(IF body[1] = val THEN body ELSE <<val>>)

processResponse(resp, val) ==
    IF IsNoContent(resp.status) THEN Success(<<val>>)
    ELSE IF IsError(resp.status) THEN Failure
    ELSE bodyJSONUnmarshal(resp.body, val)

\* getHeaders expects the status of an answer without a body.
getHeaders(resp) == IF resp.status = 204 THEN Success(resp.info) ELSE Failure

\* What method m returns: a list needs its headers, an AccessInfo a key that
\* can be parsed, and a timeout a job.
Result(m, resp) ==
    LET val    == BorutaClient[m].val
        result == IF val = "header" THEN getHeaders(resp) ELSE processResponse(resp, val)
    IN
    IF \/ IsList(val) /\ ~resp.list
       \/ m = "AcquireWorker" /\ result.value = <<val>>
       \/ m = "GetJobTimeout" /\ result.ok /\ result.value # <<"ReqInfo", INPROGRESS>>
    THEN Failure
    ELSE result

-----------------------------------------------------------------------------
(***************************************************************************)
(* A call.                                                                 *)
(***************************************************************************)
NoAnswer == [status |-> 0, info |-> Nothing, list |-> FALSE, body |-> Nothing]

\* pc says where the call is; did and value are what the server has done for
\* it, answer what the client has received, result what the user has got.
NoCall == [pc |-> "idle", m |-> "Version", id |-> 1, did |-> "nothing",
           value |-> Nothing, answer |-> NoAnswer, result |-> Failure]

Call(m, id) ==
    /\ call.pc = "idle"
    /\ call' = [NoCall EXCEPT !.pc = "sent", !.m = m, !.id = id]
    /\ UNCHANGED <<reqs, late, closed>>

Serve(outcome, marshals) ==
    LET route == RouteOf(call.m) IN
    /\ call.pc = "sent"
    /\ outcome \in Outcomes(route.fn, call.id)
    /\ marshals \/ MayNotMarshal(route.fn, outcome)
    /\ reqs' = IF outcome = "ok" THEN Effect(route.fn, call.id) ELSE reqs
    /\ call' = [call EXCEPT !.pc = "answered", !.did = outcome,
                   !.value = IF outcome = "ok" THEN Data(route.fn, call.id) ELSE Nothing,
                   !.answer = Respond(route, call.id, outcome,
                                      BorutaClient[call.m].method = "HEAD", marshals)]
    /\ UNCHANGED <<late, closed>>

Receive ==
    /\ call.pc = "answered"
    /\ call' = [call EXCEPT !.pc = "returned", !.result = Result(call.m, call.answer)]
    /\ closed' = IF call.m = "CloseRequest" /\ call.answer.status # 404
                 THEN closed \cup {call.id} ELSE closed
    /\ UNCHANGED <<reqs, late>>

\* The connection breaks, before or after the call has been performed.
Lost ==
    /\ call.pc \in {"sent", "answered"}
    /\ call' = [call EXCEPT !.pc = "returned", !.answer = NoAnswer]
    /\ UNCHANGED <<reqs, late, closed>>

\* It breaks for the client, while the server will still perform the call.
GiveUp ==
    /\ call.pc = "sent"
    /\ Cardinality(late) < MaxLate
    /\ late' = late \cup {[fn |-> RouteOf(call.m).fn, id |-> call.id]}
    /\ call' = [call EXCEPT !.pc = "returned"]
    /\ UNCHANGED <<reqs, closed>>

ServeLate(l, outcome) ==
    /\ outcome \in Outcomes(l.fn, l.id)
    /\ reqs' = IF outcome = "ok" THEN Effect(l.fn, l.id) ELSE reqs
    /\ late' = late \ {l}
    /\ UNCHANGED <<call, closed>>

Return ==
    /\ call.pc = "returned"
    /\ call' = NoCall
    /\ UNCHANGED <<reqs, late, closed>>

\* The collection of requests, as Boruta implements it.
RS == INSTANCE RequestStates WITH rstate <- reqs

\* Requests go on by themselves, and by calls of others.
RequestStep == RS!Next /\ UNCHANGED <<call, late, closed>>

-----------------------------------------------------------------------------
Init ==
    /\ reqs = [id \in IDs |-> ABSENT]
    /\ call = NoCall
    /\ late = {}
    /\ closed = {}

Next ==
    \/ \E m \in Methods, id \in IDs : Call(m, id)
    \/ \E outcome \in Outcome, marshals \in BOOLEAN : Serve(outcome, marshals)
    \/ Receive \/ Lost \/ GiveUp \/ Return
    \/ \E l \in late, outcome \in Outcome : ServeLate(l, outcome)
    \/ RequestStep

Spec == Init /\ [][Next]_vars

-----------------------------------------------------------------------------
TypeOK ==
    /\ reqs \in [IDs -> ReqState \cup {ABSENT}]
    /\ call.pc \in {"idle", "sent", "answered", "returned"}
    /\ call.m \in Methods /\ call.id \in IDs
    /\ call.did \in Outcome \cup {"nothing"}
    /\ call.value[1] = "ReqIDPack" => call.value[2] \in IDs
    /\ late \subseteq [fn : Methods \cup {"notFoundHandler"}, id : IDs]
    /\ closed \subseteq IDs

\* A call that reports success has been performed with success, and has brought
\* back what the server returned: no refusal, no text of a panic, no answer of
\* another shape is taken for a value.
AnswerIsTrue ==
    call.pc = "returned" /\ call.result.ok =>
        /\ call.did = "ok"
        /\ BorutaClient[call.m].val # "nil" => call.result.value = call.value

\* Who has got any answer to CloseRequest but "not found" can rely on it that
\* the request has ended, for ever: repeating the call after a lost answer is
\* safe, although the repetition is refused.
CloseAnswered == \A id \in closed : reqs[id] \in Ended

\* The calls that reach the server, answered or not, in time or late, make of
\* the requests nothing but what Boruta does: no call that succeeds brings a
\* request back or ends it twice, and every new request has its own ID.
ImplementsRequestStates == RS!Spec

\* The user learns that a call of one of the methods ms has succeeded, if the
\* answer comes through undamaged.  GetJobTimeout needs a job.
Reported(ms) ==
    /\ call.m \in ms
    /\ call.pc = "returned" /\ call.did = "ok" /\ call.answer # NoAnswer
    /\ call.answer.body # PanicText
    /\ call.m = "GetJobTimeout" => call.value = <<"ReqInfo", INPROGRESS>>
    => call.result.ok

\* Methods whose answer the client does not expect in the form that the server
\* gives it; Version moreover asks for "//version", which is no route.
Misread == {"GetRequestState", "GetWorkerState", "GetJobTimeout", "Version", "SetState"}

\* For all other methods a success is reported as one: the two sides agree on
\* statuses, headers and bodies.
OthersReported == Reported(Methods \ Misread)

\* For all methods: "GetRequestState is convenient way to check state of a
\* request", "SetState requests Boruta server to change state of worker".
SuccessReported == Reported(Methods)
=============================================================================
