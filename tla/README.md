# Boruta in TLA+

Boruta is a server that shares a farm of test devices.  Each device is driven by
a *Dryad* (a *worker* of the server); users file *requests* with a priority,
required capabilities and a time range; the server matches waiting requests with
idle workers, opens a tunnel, and hands out a key for the time of the *job*.
This directory models the server's own logic in TLA+, checks it with TLC on small
instances, and proves its safety properties with TLAPS for all instances.

## 1. Inventory

| Component | State | Operations | Shared with |
|---|---|---|---|
| worker list (`workers/workers.go`) | map UUID -> state, caps, groups, addresses, key, channel; one goroutine per worker | `Register`, `SetFail` (Dryads); `SetState`, `SetGroups`, `Deregister` (admins); `TakeBestMatchingWorker`, `PrepareWorker` (server); `prepareKey...`, `putInMaintenance...` (background) | calls `OnWorkerIdle`, `OnWorkerFail` of the requests with its mutex held; RPC to the Dryad |
| collection of requests (`requests/requests.go`) | map ID -> request; iterating flag | `NewRequest`, `CloseRequest`, `UpdateRequest`, `ProlongAccess`, `AcquireWorker`, lists (users); `InitIteration`, `Next`, `Run`, `Timeout`, `Close` (matchers) | queue, three alarms, jobs, workers |
| priority queue (`requests/queue.go`) | one list of IDs per priority, an iterator | push, remove, set priority, iterate | requests only |
| request times (`requests/times.go`, `timesheap*.go`) | heap of (time, request), a timer, a goroutine | `insert`, `process`, `finish` | calls `Notify` of a matcher with its mutex held |
| matchers (`matcher/*matcher.go`) | none of their own | `Notify` | requests, workers, jobs |
| jobs (`matcher/jobs.go`) | map worker -> job with tunnel | `Create`, `Get`, `Finish` | workers, tunnels |
| filters (`filter/filter.go`) | none | `Match` | workers, lists |
| tunnels (`tunnels/tunnels.go`) | listener, channel `done`, connections; one goroutine that accepts, two per connection | `Create`, `Close`, `listenAndForward`, `forward` | jobs; users and Dryads over TCP |
| lists and sorters (`lists.go`, `*/sorter.go`, `ListRequests`, `ListWorkers`) | the client's place in the list | filtering, sorting, paging | requests, workers |
| HTTP API and client (`http/`) | none | each handler decodes, makes one call and encodes; each method of the client does the converse | requests and workers through the interfaces of `boruta.go` |
| RPC (`rpc/`) | connections | `Register`, `SetFail`; `Prepare`, `PutInMaintenance` | worker list, Dryad agent |
| Dryad agent (`dryad/`, `cmd/dryad`) | a Unix account and its `authorized_keys`, a pointer to the user, the blinking goroutine | `Prepare`, `PutInMaintenance` | the background goroutine of its worker; runs on another machine |
| server's command (`cmd/boruta`) | none | puts the parts together | |

What is hard here:

* **Concurrency.**  API calls, Dryads, three alarm goroutines and one goroutine per
  worker meet in four mutexes that are nested in different orders.
* **State that is used after an unlock.**  `NewRequest` and `UpdateRequest` set
  alarms after their critical section; a background goroutine acts on an order
  that may have been overtaken; alarms go off for times that have since moved.
* **Failure.**  An RPC may fail after it has had its effect, or go on after the server
  has given it up; a tunnel may not open; a worker may fail, restart or change at any
  moment of a job; each command of a preparation may fail halfway; the same UUID may be
  deregistered and registered again while its old goroutine still runs; the answer to a
  user's call may be lost.
* **Agreement.**  Request, job, worker and queue each hold a part of the truth that
  one job is running, under different mutexes.

The full list, with the line where each hazard bites and the properties aimed at
it, is `hazards` in `PROJECT.json`.

## 2. Modules

| Module | Models | Kind |
|---|---|---|
| `BorutaTypes` | the states of workers and requests in `boruta.go` | constants |
| `WorkerStates` | what the list of workers promises: the transitions a worker may make | abstract specification |
| `RequestStates` | what the collection of requests promises: the life of a request | abstract specification |
| `Alarms` | what a requestTimes promises: times go in, and those that are past go to a matcher | abstract specification |
| `WorkerList` | `workers.go` with goroutines, channels, keys and a blocking send | implements `WorkerStates` |
| `PrioQueue` | `queue.go` | operators |
| `Matching` | the workers' filter and the choice of the best worker | operators |
| `RequestTimes` | `times.go` with the timer of Go 1.16 and its stale ticks | implements `Alarms` |
| `TimesHeap` | `timesheap.go`, `timesheapcontainer.go` | operators |
| `HeapTimes` | `RequestTimes` with its heap beside it | composition |
| `Sorting` | the sorters and filters of lists | operators |
| `Listing` | a client that reads `ListRequests` or `ListWorkers` page by page | specification |
| `Boruta` | requests, jobs, matchers, alarms, composed with `WorkerStates`, `Alarms`, `PrioQueue` and `Matching` | the core; implements `RequestStates` |
| `BorutaLocks` | `Boruta` with the calls that hold one mutex and wait for another | composition |
| `Tunnel` | `tunnels.go`: the accepting goroutine, `Close`, the connections | actions |
| `Jobs` | `jobs.go`, composed with `Tunnel` | specification |
| `Rusalka` | the agent on a Dryad, command by command | actions |
| `Access` | the agent with the server's orders to it, the worker's entry (`WorkerStates`) and the key of its job | composition |
| `Http` | the client library, the routes and handlers of the API, a network that loses calls and answers, composed with `RequestStates` | specification |
| `BorutaProofs` | the queue's operators; types, agreement of queue, requests, jobs and workers | proofs about `Boruta` |
| `ServerProofs` | alarms, deadlines, missed matches, the order and the time of matching, the refinement of `RequestStates`; the mutexes | proofs about `Boruta` and `BorutaLocks` |
| `WorkerListProofs` | orders, keys, and the refinement of `WorkerStates` | proofs about `WorkerList` |
| `RequestTimesProofs` | the timer, the refinement of `Alarms`, the heap | proofs about `RequestTimes` and `HeapTimes` |
| `JobsProofs` | jobs and their tunnels | proofs about `Jobs` |
| `AccessProofs` | the key of a job, the blinking | proofs about `Access` |
| `HttpProofs` | what the client learns, what happens to its requests | proofs about `Http` |
| `ListingProofs` | pages, totals, walks | proofs about `Listing` |
| `MCWorkerList`, `MCRequestTimes`, `MCListing`, `MCBoruta`, `MCBorutaLocks`, `MCJobs`, `MCAccess`, `MCHttp` | the modules that TLC runs | instances |

Operators whose name is that of another with a suffix (`HasRoomPlusOne`,
`DeadlineAlarmEarlierOnly`, ...) are not used by any specification: each is a
plausible mistake in the code, and the property that catches it is named with it
under `mutants` in `PROJECT.json`.

### How they correspond to the code

**WorkerList.**  A handler holds `WorkerList.mutex` from beginning to end and is one
action.  The exception is a send to a full channel: then the handler stays in
`sending`, with the mutex held, until the goroutine receives.  The goroutine takes
one action per call that can block or fail (receive, address, dial, key generation,
`Prepare`, store, `PutInMaintenance`, and the critical section at the end), and
`checkPendingOperation` runs after each of them as in the code.  `installed`, the
key that the Dryad accepts, is outside the server.  A `Prepare` may have its effect on it
whether or not the answer is an error (`CallPrepare`); and one whose connection broke is over
for the server, but goes on at the Dryad and may remove the user or write its key at any
later time (`GivenUpGoesOn`).  Any number of such calls may go on, and `LateKey` stands for
all their keys, since none of them is ever in the server again.  `overlapped` is a history
variable: it says that the last `Prepare` met one that had been given up.  Addresses, ports
and caps are only "changed or not" here.

**Boruta.**  A step is one critical section of `ReqsCollection.mutex` or of
`WorkerList.mutex`, with all calls made in it.  ValidMatcher holds the former for a
whole walk but takes the latter anew for each request, so a walk is several steps
(`InitIteration`, `SkipRequest`, `TakeWorker`, `RunRequest`, `EndNotify`) and workers
change in between.  The deadlines and the timeouts are two instances of `Alarms`, whose
`process(t)` may happen at any `t` up to now, which includes stale ticks and late schedulers;
that the timer and its goroutine do no more than that is the refinement which
`RequestTimes` checks.  Of the third requestTimes, whose matcher ignores the requests, only
the times are kept.  `pending` holds the calls that have left their
critical section and have alarms still to set.  `now`, the time that `NewRequest`
read before it got the mutex, may be any earlier time.  A call that the code refuses
changes nothing and is no step, and neither are read-only calls (`AcquireWorker`,
`GetRequestInfo`, lists).  `Run` and `ProlongAccess` need the mutex of `timeoutTimes`
and `OnWorkerIdle` that of `validAfterTimes`; they are guarded by `insert` of `Alarms`, which
waits until Notify has returned, and by the matcher being asleep.  In particular a worker cannot
become IDLE while ValidMatcher is at work, because `setState` sets the alarm before
it assigns the state; this is what makes `MatchedInOrder` true.

**BorutaLocks.**  For calls that hold W (`WorkerList.mutex`) and wait for R
(`ReqsCollection.mutex`) or TV (`validAfterTimes`), and for calls that hold R and wait
for W or TT (`timeoutTimes`), the two acquisitions are separate steps.  The step of
`Boruta` happens when both are held.  The waits with a mutex held are those of `OnWorkerFail`
(W, waits for R), `OnWorkerIdle` (W, waits for TV), `CloseRequest` and TimeoutMatcher's `Close`
(R, wait for W), `ProlongAccess` (R, waits for TT), and those of the matchers themselves, `Run`
(R, waits for TT) among them.  In `Boruta` such a call is only a step that
cannot happen yet, and holds nothing while it waits.  This makes no difference to safety,
as `LocksAddNothing` shows, but it does to progress: what requests and jobs may hope for
is therefore stated here, on `LockSpec`, with `Deadlocked` (a cycle of waits) as the one exception.

**RequestTimes and its heap.**  `RequestTimes` keeps the set of times, which is what the
arguments about alarms need.  `HeapTimes` adds the heap as a sequence, pushed to and
popped from by the same steps with the order of `timesHeapContainer.Less`, and
`HeapIsTimes` says that set and heap agree and that the first element is the minimum.
The sifting of `container/heap` is external; its `up` and `down` are written by their
result: the new element takes its place on the path to the root, or the last one on the path
down the lesser children, and the others on that path move by one.  `Popped` and the paths are
recursive functions, not operators, so that proofs can use them.  The `EndNotify` that empties
`past` is Notify handling all its requests at once; `Alarms`, and `Boruta` with it, let the
matcher handle them one after the other.

**Listing.**  `ListRequests` and `ListWorkers` are one algorithm written twice; a walk is over
one of them.  A call copies the elements under the mutex (`ListBegin`) and sorts, cuts
and counts without it (`ListEnd`); the element at the border is read through a pointer
in the second step too, so a change in between is seen (`pagElem`), though not one of a
worker that was deregistered meanwhile.  The client goes on as the documentation of
`client.ListRequests` says.  Order and direction travel as text.  `Sorted` allows every
result that the sorter's `Less` permits, as Go's map iteration is random and its sort not
stable.

**Tunnel and Jobs.**  `pc` of a tunnel is the place of `listenAndForward`: its select, in
`Accept`, in `DialTCP`, or returned.  A connection is the pair of sockets, opened when
dialling succeeds and closed by the deferred calls when the loop returns, not before; the
`forward` goroutines notice after that.  `Close` is two steps, the channel and the
listener, and waits for nothing, so `Finish` is two steps as well, and the tunnel of a
finished job goes on closing beside the next job of the same worker.  A tunnel whose loop
has returned and whose connections are gone is `Free`, and its place is used again.  Which
calls the server makes, and in which order, is left to `Boruta`; here any worker's job
may be created or finished at any time.

**Rusalka and Access.**  Every call of the RPC server is a goroutine with a `pc`; each
lookup, command and access to a file is one step, with the ways in which it can fail, and
two calls interleave in any way.  `account` is what `useradd` and `userdel` work on, and
`user` says whether `borutaUser.user` is set.  A file that was opened in a home which is
removed meanwhile is written without effect (`unlinked`).  The goroutine in the server
that makes the calls is seen coarsely: one order at a time (`bg`), which a newer order may
overtake; this is what `WorkerList` shows of it.  When the connection breaks, the
call stays where it is, as `givenup`, beside the next one.  `Die` is the end of the
process, for whatever reason, and `Serve` and `Register` its start in the order of `main`.
`overlapped` is a history variable: it says that the last call began while one that had
been given up was still running.

**Http.**  The two sides are translated each from its own source: `BorutaClient` is what
the client sends and what it decodes the answer into, `PostRoute` and `GetRoute` are what
the server has registered (`NoRoute` for any other path), and only `Serve` and `Result`
bring them together.  A value is its kind with what tells it from others of the kind, and
`bodyJSONUnmarshal` says what becomes of a value of another kind.  The collection of requests is one state per request
here, changed by the user's calls and, in `RequestStep`, by everything that may happen in
`RequestStates`, which `Boruta` implements; what the calls do are steps of the same module.
A call that was given up may be performed later (`late`).

## 3. Runs

All cfgs but those of `Jobs`, `Access` and `Http` turn off TLC's deadlock check, because
the bounded server really may stop: the clock ends, no more requests may be made, and mutexes can be held in a
cycle.  That it does not stop too early is stated by liveness properties instead.

| Run | Instance | Properties | Result |
|---|---|---|---|
| `worker_list` | 1 UUID, 2 registrations, channel of 2 | `TypeOK`, `OrderNotLost`, `RunnableHasKey`, `KeyMatchesFirst`, `ImplementsWorkerStates`, `PrepareEnds` | hold |
| `request_times` | 2 requests, 3 moments, heap of 4 | `TypeOK`, `TimerCoversMin`, `HeapIsTimes`, `ImplementsAlarms`, `InsertedIsNotified`, `FinishReturns` | hold |
| `listing` | 3 elements, 2 changes, pages of 1, 2 or all | `WalkOnce`, `PageRight`, `TotalRight` | hold |
| `boruta_alarms` | 1 request, 1 worker, times 0..3, 2 late callers | `TypeOK`, `AlarmsSet`, `NoMissedMatch`, `EndedIsFinal`, `NotEndedEarly`, `StartsInTime` | hold |
| `boruta_match` | 2 requests, 2 workers, 2 priorities, 1 group | `JobConsistency`, `QueueIsWaiting`, `MatchedInOrder`, `ImplementsRequestStates` | hold |
| `boruta_create` | 1 request | `TakenIsUsed` | violated |
| `locks` | 2 requests, 1 worker, times 0..2 | `CallsReturn`, `WaitEnds`, `JobEnds` | hold |
| `locks_listener` | 1 request, 1 worker | `ListenerNotified` | violated |
| `jobs` | 2 workers, 3 tunnels, 2 connections each | `JobsTypeOK`, `OpenTunnelHasJob`, `ClosedTunnelDrains` | hold |
| `access` | 1 Dryad, 2 calls at a time, 4 keys | `TypeOK`, `GrantedKeyOpens`, `NoPanic`, `PreparedStopsBlinking` | hold |
| `http` | all methods, 2 requests, 1 late call | `TypeOK`, `AnswerIsTrue`, `CloseAnswered`, `OthersReported`, `ImplementsRequestStates` | hold |
| `http_success` | all methods, 2 requests | `SuccessReported` | violated |

**Bounds.**  A channel of two can be full, can hold a state that is dropped, and can
block a sender; the code's 32 adds only longer versions of the same.  Two
registrations of a UUID are what it takes for an old goroutine to meet a new worker.  The calls
that were given up are not bounded.
One request with two calls under way shows every order in which two updates set
their alarms; the times are one before, one at and one after a deadline, and a moved
deadline.  Two
requests, two workers and two priorities are the least for competition in the queue
and for a best worker.  `boruta_match` lets no time pass, so that no alarm is ever
used up, so the `ImplementsRequestStates` of its run sees no request time out (the theorem
does), and `boruta_alarms` has one worker, one request and no groups: each leaves out what the
other checks.  In particular a change of groups is seen by the properties of `boruta_match`
alone; `NoMissedMatch` is not among them, since in that run the alarm that wakes ValidMatcher
never passes.  In `locks` a request has its deadline at the end of the clock, 2, until an
update moves it to 1; a deadline or a timeout at the end of the clock is excluded
(`deadline >= MaxTime`), since an alarm needs one moment after its time.
A heap of four has two levels below its root.  Three
elements make three pages, so that a border can change with pages on both sides of it;
two changes are the border's and another one.  `MaxPageLimit` is 3 instead of 65535.
Three tunnels are two in use and one that still closes; with two connections
one is open while the other is being dialled.  A Dryad has one worker, since workers do not
share anything there; of the calls that were given up one at a time is kept, which is
enough for an overlap.  Four keys are the worker's, the one in `authorized_keys`, that of a
call under way and a fresh one; they are only compared, and `Access.cfg` uses the symmetry
between them.  Otherwise no symmetry is used: UUIDs break ties, IDs are ordered.  Two requests
in `Http` are one that the user has and one that is not there yet.  `JobTimeout = 0` in
`Locks.cfg` makes a job expire as soon as the clock moves.

**Fairness.**  Weak fairness for the goroutines of the alarms and the background
goroutines (Go schedules every runnable goroutine), for time, for timers, and for the
answers of RPCs.  `Boruta` itself assumes it of ValidMatcher alone, for `TakenIsUsed`.  In
`BorutaLocks` it is strong fairness where a call competes for a mutex with others that take
and release it: ValidMatcher (`LockedNotify`), `EndIdle`, and the steps that end requests and
jobs, with the late insertion of alarms (`Ending`, one condition for all of them, which assumes
less than one for each): Go's mutexes hand over to a waiter that has waited too long, so none
starves.  A call in a cycle of mutexes is never enabled, so no fairness makes it go on.  In `Jobs`: weak fairness for
the second half of `Finish`, for the loop of each tunnel (dialling ends, as TCP gives up at
last; a blocking `Accept` returns only when the listener is closed), and for `forward` on a
closed socket.  Strong fairness for
the stop case of a `select` with two ready cases, among which Go chooses at random.
Nothing is assumed of users, admins and Dryads.

**Exceptions in the properties.**  `NoMissedMatch` leaves out one case that the code
really misses: a request whose deadline has passed, but which DeadlineMatcher has not
ended yet, is given a later deadline; nobody wakes ValidMatcher for it until the next
event.  `CallsReturn`, `WaitEnds` and `JobEnds` leave out the states in which the mutexes R, W,
TV and TT are held in a cycle (`Deadlocked`), which the code does reach: the findings below, and
`ProlongAccess` or `Run` against TimeoutMatcher.  They say that nothing else in these calls, alarms and
matchers keeps a request or a job for ever.  They do not say that a cycle is the only way to
hang: the list of workers is `WorkerStates` there, whose `setState` never blocks, while the
send of the code does when the channel is full.  That one is in `WorkerList`, and `PrepareEnds`
leaves it out.  `WalkOnce` leaves out walks in which the border of a
page has another sort key by the time it is used, and `TotalRight` calls during which
the border begins or ceases to match (both at the end of section 4).  `GrantedKeyOpens`, `NoPanic` and `PreparedStopsBlinking` are
about calls that did not overlap (see there too): Rusalka says that it "is not safe for concurrent
use", and the properties show that everything else it meets, restarts and half-done
commands included, is safe.  `KeyMatchesFirst` is about the first registration of a UUID and
a last `Prepare` that met none of those given up before it (both in section 4 as well),
and `OthersReported` leaves out the five methods of `http_success`.

## 4. Where the code and its words differ

Each of these is a run that TLC shows violated, with the lines under `findings`.

1. `boruta_create`: when no job can be created, ValidMatcher calls back into the mutex
   that is held around it and hangs for ever, with all of R and W held.
2. `locks_listener`: a call that tells the requests of an idle or failed worker never
   returns.  `OnWorkerIdle` (W, then TV) and ValidMatcher (TV, then W), and likewise
   `OnWorkerFail` (W, then R) and, for example, `CloseRequest` (R, then W), wait for
   each other.
3. `http_success`: `GetRequestState`, `GetWorkerState`, `GetJobTimeout` and `Version` take
   the status 200 of the server for an error, as they expect 204; `SetState` fails on the body
   of an answer that says the state was set.  The tests of each side use a mock of the other.

Seen, but not stated as runs of their own:

* `Run` (R, then TT) and TimeoutMatcher (TT, then R) wait for each other when a job expires
  while another is created (`requests.go:529`); no deadline is honoured after that.  The same
  happens when a job is prolonged at the moment it expires: `ProlongAccess` takes R
  (`requests.go:388`) and waits for TT (`requests.go:404`).  These are among
  the cycles that `CallsReturn`, `WaitEnds` and `JobEnds` have to leave out.
* The send in `setState` blocks, with the mutex held, when the channel is full
  (`workers.go:509`), against "The buffer on channel allows non-blocking delegation"
  (`workers.go:49-50`).  If the goroutine then needs the mutex, neither ever goes on.
* After `Deregister` and `Register` the old goroutine may still install its key on the Dryad
  (`workers.go:578`), or store it (`workers.go:416`), last; the worker is IDLE with a key
  that does not open it.
* A call that the server has given up, because its connection broke, goes on at the Dryad.
  When the next `Prepare` overlaps it, the wrong key may end up in `authorized_keys`, or
  `installKey` may find `user` nil and panic.  `overlapped` of `Access` and of `WorkerList`
  stands for these cases; without it TLC finds `KeyMatchesFirst` violated.
* A second `PutInMaintenance` overwrites `cancelMaintenance`; the first goroutine then blinks
  until the process ends, although a "Call to Prepare stops LED blinking" (`rusalka.go:63`).
* `Tunnel.Close` "terminates exisiting ones" (`tunnels.go:53`) only after it has returned; a
  client that is being dialled then is still connected for a moment.
* A connection of which one end has gone away stays open until the tunnel is closed.
* `Version` asks for `//version`, which is no route (`client.go:483`).
* A time of the year 9999 in a zone west of Greenwich becomes one of the year 10000 by `.UTC()`
  (`handlers.go:47`), which cannot be marshalled: `GetRequestInfo` of this request, and every
  list that has it, end in a panic of the handler when the status 200 is already sent.  The
  client reports an error, as `AnswerIsTrue` says.
* A Dryad that registers again with another IP while it runs a job keeps the job, with a
  tunnel to the old address (`workers.go:174`).
* `routerSetHandler` reads `Job.Timeout` through a pointer after the mutex was released, while
  `ProlongAccess` may be writing it (`api.go:82`): a data race.
* A deadline moved alone, or left to its default, may precede `ValidAfter`
  (`requests.go:237`, `requests.go:103`), although the error for the other cases says that
  "ValidAfter must be before Deadline"; such a request never runs, as `StartsInTime` says.
* `TotalItems` is off by one when the border begins or ceases to match after the mutex was
  released (`requests.go:356`, `workers.go:343`), which is a data race as well.
* A list that is sorted by something that changes is not read completely: if the last
  request of a page changes its state or priority before the next call, requests that
  did not change at all are skipped or shown again.
* `AcquireWorker` neither prolongs access nor blocks (`boruta.go:179-181` says both);
  `ProlongAccess` is not limited (`boruta.go:185`); `Deregister` also succeeds in FAIL
  (`boruta.go:220`); no code sets the request state INVALID.

## 5. Proofs

Each theorem holds for every value of the constants that satisfies the named assumptions of
its module.  Where a run checks the property, the run shows it on a small instance first,
and the inductive invariants were model-checked before they were proved.

**BorutaProofs** begins with the lemmas about push, remove and set priority: `QueueOK`, which
says that the queue holds only waiting requests, at their priority, all of them, and none
twice, survives each of them, for any range of priorities.  Of `Spec` of `Boruta` it proves

* `TypesKept`: `TypeOK`,
* `JobsAgree`: `JobConsistency`,
* `QueueRight`: `QueueIsWaiting`, so `_remove` never panics,
* `EndedStays`: `EndedIsFinal`.

Assumed: workers are positive numbers, periods, bounds and times natural numbers, priorities a
range.  The inductive invariant is `IInv == TypeOK /\ JobConsistency /\ QueueOK`.  None of its
parts is inductive alone: that a removal from the queue is defined needs `QueueOK`;
that `RunRequest` makes a job for a request that still waits, on a worker without
another job, needs the conjuncts of `JobConsistency` about the taken worker; and these
need the types.  There is
one lemma per action or family of actions; `ListenerInv` carries the argument for all
changes of a worker's state, `EndWaiting` and `EndRunning` those for the two ways a
request ends.

**ServerProofs** goes on from there, with the same assumptions:

* `NoneEndedEarly`: `NotEndedEarly`, from `IInv` alone, though alarms may be stale;
* `AlarmsAreSet`: `AlarmsSet`.  `AlarmInv` adds what the property does not say, that no
  waiting request has the deadline `Zero`: a pending call takes `Zero` for "no alarm to set";
* `NoMatchMissed`: `NoMissedMatch`, and `ServedInOrder`: `MatchedInOrder`.  Both rest on
  `SeenInv`, about a walk of ValidMatcher that is under way: a request that became ready
  after the walk had begun has an alarm, and one that the walk has visited cannot run on any
  worker that is there now.  It holds because no worker becomes IDLE during a walk;
* `StartedInTime`: `StartsInTime`.  `VerifyIfReady` looks at the time at which the walk began;
  `Run` comes after the worker was taken and the job created, and looks at no time.
  `StartInv` says that the request stays ready in between, because the mutex of the requests
  is held from `InitIteration` on;
* `RequestsImplement`: `ImplementsRequestStates`.  Each step changes the state of one request
  at most (`OneMoves`), and in a way that `RequestStates` knows.  That the listener of the
  workers fails a request which was in progress, and no other, is `JobConsistency`; that `Run`
  finds one that waits is the part of it about the taken worker;
* `LocksAddNothing`: `LockSpec => Spec`.  Each step of `BorutaLocks`, where calls wait with one
  mutex for another, is a step of `Boruta` or none, so that all theorems about `Boruta`
  that are about safety hold with the mutexes (liveness is not carried over, and is checked on
  `LockSpec` itself).  It needs the invariants of `Boruta` and `WHeldInv`: while a call
  waits with W held, ValidMatcher does not hang in `OnWorkerIdle`, which it calls with W held;
* `LockTypesKept`: `LockTypeOK`, the types of `Boruta` and of the calls which wait with a mutex,
  proved and in no run: `TypeOK` is checked by `boruta_alarms`.

**WorkerListProofs** is about workers, goroutines and keys in any number and any positive
`BufferSize`:

* `TypesKept`: `TypeOK`,
* `NoOrderLost`: `OrderNotLost`,
* `RunnableKeys`: `RunnableHasKey`,
* `KeysMatch`: `KeyMatchesFirst`,
* `Refinement`: `ImplementsWorkerStates`.

`KeysAssumption` says that `rsa.GenerateKey` always has a fresh key left.  The inductive
invariant says who owns which goroutine (`Owners`), what a place in its code says of its
variables (`Places`), that a blocked handler is the only one with an over-full
channel (`Sends`), that the newest order is the last in the channel or the one worked
on (`Newest`), and that the goroutine of an IDLE or running worker is not touching the
Dryad (`Settled`).  The last is what the keys need: between the installation of a key and the
end of the preparation nobody else installs one (`SameKeys`, `FirstKeys`), unless the
UUID was registered twice, which `Alone` and `First` leave out as the property does, or a call
that had been given up goes on.  What survives is `Accepts`: the Dryad has the key and no such
call is left, or one overlapped the last `Prepare`.  The refinement
needs the same invariant, since the goroutine's commit is a step of `WorkerStates` only
if the worker is still in the state it was ordered to.

**RequestTimesProofs** assumes that there is a moment after 0 and, for the heap, that IDs of
requests are natural numbers, as `requestTime` orders them:

* `TypesKept`: `TypeOK`, and `NoneForgotten`: `TimerCoversMin`.  The invariant is that the timer
  covers *every* time while the goroutine waits, or a tick is in its channel; the property is
  about the least one;
* `AlarmsImplemented`: `ImplementsAlarms`.  `AlarmInv` says that a tick, wherever it is, is not
  later than the clock, and that `past` is empty unless Notify runs.  So what is
  proved of `Boruta`, composed with `Alarms`, holds with stale ticks and a late goroutine;
* `HeapFollows`: `HFairSpec => Spec`, so that all of these hold of the alarms with their heap;
* `HeapRight`: `HeapIsTimes`, for any number of entries.  The invariant, `HInv`, says that the
  heap has the elements of the set and that no element is less than its parent.
  `RootIsLeast` draws from it that the first is the least; `RisenKeeps` and `UpMakesHeap` show
  that pushing keeps it, `SunkKeeps` and `DownMakesHeap` that popping does.  `PopPastKeeps`
  then says that process, which stops at the first element that is not past, has popped all
  that are.  The induction that these need is over a set of numbers (`Induction`, by a least
  counterexample), and a recursive function is shown to be there (`PathsExist`, `PopsExist`)
  before its equation is used.

**JobsProofs** has `JobsTypesKept` (`JobsTypeOK`) and `TunnelsHaveJobs` (`OpenTunnelHasJob`: no
tunnel is leaked and `Finish`
never closes a channel twice), where 0 is neither a worker nor a tunnel.
Its invariant adds to the types that an open tunnel listens and has a job (`OpenTunnels`),
that of the tunnels of jobs exactly the one in `closing` has been told to end (`OpenJobs`),
and that no two jobs share a tunnel (`NotShared`).  `Create` takes only a tunnel that has
ended, hence by `OpenJobs` none that a job has; what the goroutines do is one lemma,
`ForwardKeeps`: they neither open nor close a tunnel.

**AccessProofs** has `TypesKept` (`TypeOK`), `KeyOpens` (`GrantedKeyOpens`), `PanicFree` (`NoPanic`)
and `BlinkingStopped` (`PreparedStopsBlinking`) for any set of keys.  The invariant relates the
order in the server to the call on the Dryad (`Orders`), says that nothing else runs
unless calls have overlapped (`OneRuns`), and what each place in `Prepare` has already achieved
(`Places`, `Prepared`); restarts and failing commands break none of it.

**HttpProofs** has `TypesKept` (`TypeOK`), `AnswersTrue` (`AnswerIsTrue`), `ClosedEnded`
(`CloseAnswered`) and `SuccessesTold` (`OthersReported`), for any number of requests and of late
calls.  The middle of the invariant is `AnswerOf`, what an answer on its way says of the
call that was performed: status, kind of body and header.  `ClosedEnded` also needs that
requests that have ended stay so while the answer travels (`EndedForGood`).
`RequestsFollow` (`ImplementsRequestStates`) shows that a call, even one that is performed late or
twice, takes its request one step on in `RequestStates` or leaves it; the lemma is
`EffectIsStep`.

**ListingProofs** has `PagesRight` (`PageRight`), `TotalsRight` (`TotalRight`) and `EachShownOnce`
(`WalkOnce`), for any IDs, any length of a page, and any changes.  Assumed: IDs are positive and
a collection is finite, the fields that are sorted by are numbers, states or groups as in
the code, and the maximal page length is positive.  First the sorters: every `Less`
becomes a total order when the ID breaks ties (`LessTotal`), and only sort key and ID place an
element (`KeyPlaces`); then what sorting and cutting return (`SortedList`, `CutForward`,
`CutBackward`, `RightPage`).  The invariant for `WalkOnce` (`WalkInv`) is that an
element which does not change has been seen once if it lies before the border of the next
page, and never if it lies beyond it.  `CutWalk` shows that one more page keeps this:
an element is on the page, behind it, or was seen before.

**Only model-checked.**  Liveness, which needs fairness and `ENABLED` and is out of the
prover's reach: `PrepareEnds`, `InsertedIsNotified`, `FinishReturns`, `WaitEnds`, `JobEnds`,
`CallsReturn`, `ClosedTunnelDrains`.  Every other property of a passing run is the subject of a
theorem.

## 6. Not modelled

* The generated RPC stubs, and the reception, which completes the addresses of a Dryad with
  the IP of its connection: addresses are abstracted to "the ports changed".
* The server's `main`, which puts the parts together, and the reading of flags and files.
* CORS headers, and the redirect of paths without a version, which the client never asks for.
* What `useradd`, `userdel`, the SSH daemon and the STM do beyond their effect on the account,
  the key and the blinking; the contents of the display.
* The bytes that a tunnel copies.
* Mocks, which are generated.

Within the modelled parts: the contents of errors and the owner of a request apart from
his groups.

## 7. Plan

Done, in the order of importance: worker list and its abstraction; queue; requests,
jobs and matchers; alarms and their heap; mutexes; lists; the first invariants proved;
tunnels and jobs; the Dryad agent with the server's calls to it; the HTTP API with its
client; proofs of all safety properties that the passing runs check, the heap included, and of the
refinements: `WorkerList` of `WorkerStates`, `RequestTimes` of `Alarms`, `Boruta` and `Http` of
`RequestStates`, `HeapTimes` of `RequestTimes`, `BorutaLocks` of `Boruta`.

Next:

1. The key of a job from end to end: `WorkerList` and `Access` composed, since `Access` sees the
   goroutine in the server only coarsely, and a proof that the one implements what
   the other assumes.
2. `Boruta` composed with `WorkerList` in place of `WorkerStates`, by the refinement that is
   proved.
3. Addresses: a Dryad that registers with another IP under a job, and the tunnel that
   goes on to its old one.
