------------------------------- MODULE Boruta -------------------------------
(***************************************************************************)
(* The server: the collection of requests (requests/requests.go) with its  *)
(* priority queue, the jobs (matcher/jobs.go), the three matchers          *)
(* (matcher/ *matcher.go) with the alarms that wake them (requests/        *)
(* times.go), and the workers as WorkerStates describes them.              *)
(*                                                                         *)
(* A step is one critical section of ReqsCollection.mutex or of            *)
(* WorkerList.mutex, with the calls into the other components made in it.  *)
(* ValidMatcher holds ReqsCollection.mutex for a whole walk over the queue,*)
(* but takes WorkerList.mutex anew for every request: workers change while *)
(* it walks, requests do not.  A call that needs a mutex which a matcher   *)
(* holds is a step when it gets it, and holds nothing here while it waits. *)
(* That is enough for what may never happen.  What must happen in the end  *)
(* is stated in BorutaLocks: there the mutexes are taken one after the     *)
(* other, in different orders, and some calls never get their second one.  *)
(* NewRequest and UpdateRequest set their alarms after they have released  *)
(* ReqsCollection.mutex, each in a step of its own.                        *)
(*                                                                         *)
(* Time is a bounded counter.  Alarms are what the module Alarms says of   *)
(* them: they go off some time after they are due.                         *)
(***************************************************************************)
EXTENDS BorutaTypes, PrioQueue, Matching

CONSTANTS
    Workers,          \* UUIDs
    Caps,             \* the capabilities (key/value pairs)
    Groups,           \* the groups
    JobTimeout,       \* timeoutPeriod, one hour in the code
    DefaultDeadline,  \* one month in the code
    MaxRequests,      \* bound: number of requests ever made
    MaxPending,       \* bound: number of calls that have alarms still to set
    MaxTime,          \* bound: the clock stops there
    ValidAfters,      \* bound: the ValidAfter times that callers may give
    Deadlines         \* bound: the Deadline times that callers may give

ASSUME WorkersAssumption == Workers \subseteq Nat \ {0}
ASSUME PeriodsAssumption == JobTimeout \in Nat /\ DefaultDeadline \in Nat
ASSUME BoundsAssumption  == MaxRequests \in Nat /\ MaxPending \in Nat /\ MaxTime \in Nat
ASSUME InputsAssumption  == ValidAfters \subseteq Nat /\ Deadlines \subseteq Nat

VARIABLES
    wstate,         \* state of each worker, see WorkerStates
    winfo,          \* caps and groups of each worker
    requests,       \* ReqsCollection.requests; the ID is the index
    queue,          \* ReqsCollection.queue
    jobs,           \* JobsManagerImpl.jobs: worker -> request, or NoJob
    clock,          \* time.Now()
    validTimes,     \* times in validAfterTimes (its matcher ignores the IDs)
    deadlineTimes,  \* <<time, request>> pairs in deadlineTimes
    timeoutTimes,   \* <<time, request>> pairs in timeoutTimes
    pending,        \* calls of NewRequest and UpdateRequest past their critical
                    \*   section, with the alarms they have still to set
    matcher,        \* where ValidMatcher.Notify is, the places of the queue
                    \*   its walk has still to visit, the time at which the
                    \*   walk began, and the worker it has just taken
    deadlineDue,    \* requests that DeadlineMatcher.Notify has still to handle
    timeoutDue      \* requests that TimeoutMatcher.Notify has still to handle

wvars == <<wstate, winfo>>
rvars == <<requests, queue, jobs>>
avars == <<validTimes, deadlineTimes, timeoutTimes, pending>>
mvars == <<matcher, deadlineDue, timeoutDue>>
vars  == <<wvars, rvars, clock, avars, mvars>>

-----------------------------------------------------------------------------
NoJob    == 0
NoWorker == 0
Zero     == 0       \* the time for which IsZero holds

ReqIDs == DOMAIN requests

NoInfo == [caps |-> {}, groups |-> {}]

AsleepMatcher == [pc |-> "asleep", todo |-> {}, now |-> Zero, worker |-> NoWorker]

\* ReqsCollection.mutex can be taken: no walk over the queue is going on.
RFree == matcher.pc \in {"asleep", "awake"}

\* The mutex of timeoutTimes can be taken: TimeoutMatcher is not at work.
TimeoutTimesFree == timeoutDue = {}

\* WorkerList.mutex can be taken: ValidMatcher is not waiting in OnWorkerIdle.
WFree == matcher.pc # "halted"

\* The list of workers, seen as the states it may take.
WL == INSTANCE WorkerStates

\* deadlineTimes and timeoutTimes.
DeadlineAlarms == INSTANCE Alarms WITH
    Requests <- 1 .. MaxRequests, Moments <- Nat, times <- deadlineTimes, due <- deadlineDue

TimeoutAlarms == INSTANCE Alarms WITH
    Requests <- 1 .. MaxRequests, Moments <- Nat, times <- timeoutTimes, due <- timeoutDue

-----------------------------------------------------------------------------
(***************************************************************************)
(* Requests interface: the calls of the users.  A call that the code       *)
(* refuses changes nothing and is no step.                                 *)
(***************************************************************************)
\* A call that has still to set the alarms valid and deadline, where they are
\* not Zero, for request r.  Calls with the same alarms left are one element of
\* pending, since a second insertion of the same alarm adds nothing.
Caller(valid, deadline, r) == [valid |-> valid, deadline |-> deadline, req |-> r]

AlarmsLeft(c) == IF c.valid = Zero /\ c.deadline = Zero THEN {} ELSE {c}

NextID0 == Len(requests)

NextID == Len(requests) + 1

\* now is the time at which the call read the clock, before it got the mutex.
NewRequest(prio, groups, caps, validAfter, deadline, now) ==
    LET id  == NextID
        req == [prio |-> prio, groups |-> groups, caps |-> caps,
                validAfter |-> IF validAfter = Zero THEN now ELSE validAfter,
                deadline |-> IF deadline = Zero THEN now + DefaultDeadline ELSE deadline,
                state |-> WAIT, worker |-> NoWorker, timeout |-> Zero]
    IN
    /\ RFree
    /\ Len(requests) < MaxRequests
    /\ Cardinality(pending) < MaxPending
    /\ deadline = Zero \/ (now <= deadline /\ validAfter <= deadline)
    /\ requests' = Append(requests, req)
    /\ queue' = pushRequest(queue, id, prio)
    /\ pending' = pending \cup {Caller(req.validAfter, req.deadline, id)}
    /\ UNCHANGED <<wvars, jobs, clock, validTimes, deadlineTimes, timeoutTimes, mvars>>

\* The request is done, its job is removed, and the worker is prepared for
\* the next one unless it has left RUN by itself.
closeRequestJobKept(r) ==
    LET w == requests[r].worker IN
    /\ requests' = [requests EXCEPT ![r].state = DONE]
    /\ UNCHANGED jobs
    /\ IF wstate[w] = RUN THEN WL!PrepareWorker(w, TRUE) ELSE UNCHANGED wstate

closeRequestCanceled(r) ==
    LET w == requests[r].worker IN
    /\ requests' = [requests EXCEPT ![r].state = CANCEL]
    /\ jobs' = [jobs EXCEPT ![w] = NoJob]
    /\ IF wstate[w] = RUN THEN WL!PrepareWorker(w, TRUE) ELSE UNCHANGED wstate

closeRequest(r) ==
    LET w == requests[r].worker IN
    /\ requests' = [requests EXCEPT ![r].state = DONE]
    /\ jobs' = [jobs EXCEPT ![w] = NoJob]
    /\ IF wstate[w] = RUN THEN WL!PrepareWorker(w, TRUE) ELSE UNCHANGED wstate

CloseWaiting(r) ==
    /\ RFree
    /\ requests[r].state = WAIT
    /\ requests' = [requests EXCEPT ![r].state = CANCEL]
    /\ queue' = removeRequest(queue, r, requests[r].prio)
    /\ UNCHANGED <<wvars, jobs, clock, avars, mvars>>

CloseRunning(r) ==
    /\ RFree
    /\ requests[r].state = INPROGRESS
    /\ closeRequest(r)
    /\ UNCHANGED <<winfo, queue, clock, avars, mvars>>

CloseRequest(r) == CloseWaiting(r) \/ CloseRunning(r)

\* The alarm for a deadline that UpdateRequest changes from old to new.
DeadlineAlarmEarlierOnly(old, new) == IF new >= old THEN Zero ELSE new

DeadlineAlarmLaterOnly(old, new) == IF new <= old THEN Zero ELSE new

DeadlineAlarm(old, new) == IF new = old THEN Zero ELSE new

\* prio, validAfter and deadline are zero where the caller leaves them alone.
UpdateRequest(r, prio, validAfter, deadline) ==
    LET req == requests[r]
        dl  == IF deadline = Zero THEN req.deadline ELSE deadline
    IN
    /\ RFree
    /\ Cardinality(pending) < MaxPending
    /\ <<prio, validAfter, deadline>> # <<0, Zero, Zero>>
    /\ <<prio, validAfter, deadline>> # <<req.prio, req.validAfter, req.deadline>>
    /\ req.state = WAIT
    /\ deadline = Zero \/ clock <= deadline
    /\ validAfter <= dl
    /\ queue' = IF prio = 0 THEN queue ELSE setRequestPriority(queue, r, req.prio, prio)
    /\ requests' = [requests EXCEPT
          ![r].prio       = IF prio = 0 THEN @ ELSE prio,
          ![r].validAfter = IF validAfter = Zero THEN @ ELSE validAfter,
          ![r].deadline   = dl]
    /\ pending' = pending \cup AlarmsLeft(Caller(validAfter, DeadlineAlarm(req.deadline, dl), r))
    /\ UNCHANGED <<wvars, jobs, clock, validTimes, deadlineTimes, timeoutTimes, mvars>>

\* A call inserts into validAfterTimes, whose mutex process holds while
\* ValidMatcher is at work, ...
InsertValid(c) ==
    /\ c.valid # Zero
    /\ matcher.pc = "asleep"
    /\ validTimes' = validTimes \cup {c.valid}
    /\ pending' = (pending \ {c}) \cup AlarmsLeft(Caller(Zero, c.deadline, c.req))
    /\ UNCHANGED <<wvars, rvars, clock, deadlineTimes, timeoutTimes, mvars>>

\* ... and then into deadlineTimes.
InsertDeadline(c) ==
    /\ c.valid = Zero
    /\ DeadlineAlarms!insert(c.deadline, c.req)
    /\ pending' = pending \ {c}
    /\ UNCHANGED <<wvars, rvars, clock, validTimes, timeoutTimes, mvars>>

ProlongAccess(r) ==
    /\ RFree
    /\ requests[r].state = INPROGRESS
    /\ requests' = [requests EXCEPT ![r].timeout = clock + JobTimeout]
    /\ TimeoutAlarms!insert(clock + JobTimeout, r)
    /\ UNCHANGED <<wvars, queue, jobs, clock, validTimes, deadlineTimes, pending, mvars>>

-----------------------------------------------------------------------------
(***************************************************************************)
(* Calls that change a worker, with what ReqsCollection does as their      *)
(* change listener.                                                        *)
(***************************************************************************)

\* If the worker's new state s is IDLE, an alarm for now wakes ValidMatcher.
\* The alarm is set before the state is assigned, and process holds the mutex
\* of validAfterTimes while ValidMatcher is at work.
OnWorkerIdleIgnored(s) == UNCHANGED validTimes

OnWorkerIdleUnlocked(s) ==
    validTimes' = IF s = IDLE THEN validTimes \cup {clock} ELSE validTimes

OnWorkerIdle(s) ==
    IF s = IDLE THEN matcher.pc = "asleep" /\ validTimes' = validTimes \cup {clock}
                ELSE UNCHANGED validTimes

\* setState's condition for telling the listener that a job was broken.
BreaksJobFailOnly(old, new) == old = RUN /\ new = FAIL

BreaksJob(old, new) == old = RUN /\ new \notin {RUN, IDLE, PREPARE}

\* If the worker had a job, the job is removed and its request has failed.
OnWorkerFail(w, s) ==
    IF BreaksJob(wstate[w], s)
    THEN /\ RFree
         /\ jobs' = [jobs EXCEPT ![w] = NoJob]
         /\ requests' = IF jobs[w] = NoJob THEN requests
                        ELSE [requests EXCEPT ![jobs[w]].state = FAILED]
    ELSE UNCHANGED <<jobs, requests>>

\* The listener is called for every change of state that WL makes.
Listener(w) ==
    /\ OnWorkerIdle(IF wstate'[w] = wstate[w] THEN ABSENT ELSE wstate'[w])
    /\ OnWorkerFail(w, wstate'[w])
    /\ UNCHANGED <<queue, clock, deadlineTimes, timeoutTimes, pending, mvars>>

\* otherPorts: the worker registers with other ports than before.
Register(w, caps, otherPorts) ==
    /\ WL!Register(w, otherPorts \/ caps # winfo[w].caps)
    /\ winfo' = [winfo EXCEPT ![w].caps = caps]
    /\ Listener(w)

SetFail(w) == WL!SetFail(w) /\ Listener(w) /\ UNCHANGED winfo

SetState(w, state) == WL!SetState(w, state) /\ Listener(w) /\ UNCHANGED winfo

SetGroups(w, groups) ==
    /\ WL!Registered(w)
    /\ winfo' = [winfo EXCEPT ![w].groups = groups]
    /\ OnWorkerIdle(wstate[w])
    /\ UNCHANGED <<wstate, rvars, clock, deadlineTimes, timeoutTimes, pending, mvars>>

Deregister(w) ==
    /\ WL!Deregister(w)
    /\ winfo' = [winfo EXCEPT ![w] = NoInfo]
    /\ UNCHANGED <<rvars, clock, avars, mvars>>

PrepareDone(w, ok) == WL!PrepareDone(w, ok) /\ Listener(w) /\ UNCHANGED winfo

MaintenanceDone(w, ok) == WL!MaintenanceDone(w, ok) /\ Listener(w) /\ UNCHANGED winfo

-----------------------------------------------------------------------------
(***************************************************************************)
(* Alarms and matchers.  requestTimes.process gets the time t at which its *)
(* timer went off, takes out the entries before t, and calls Notify of its *)
(* matcher; it does nothing else before Notify returns.  There may be no   *)
(* such entry: the timer goes off for an entry at exactly t, too, and a    *)
(* tick may be stale (RequestTimes).                                       *)
(***************************************************************************)
\* validAfterTimes: Notify of ValidMatcher begins.
ProcessValid(t) ==
    /\ matcher.pc = "asleep"
    /\ t <= clock
    /\ validTimes' = {e \in validTimes : ~(e < t)}
    /\ matcher' = [matcher EXCEPT !.pc = "awake"]
    /\ UNCHANGED <<wvars, rvars, clock, deadlineTimes, timeoutTimes, pending, deadlineDue, timeoutDue>>

InitIteration ==
    /\ matcher.pc = "awake"
    /\ matcher' = [pc |-> "walk", todo |-> Places(queue), now |-> clock,
                   worker |-> NoWorker]
    /\ UNCHANGED <<wvars, rvars, clock, avars, deadlineDue, timeoutDue>>

\* The request that the walk visits.
Visited == At(queue, NextPlace(matcher.todo))

\* VerifyIfReady.
ReadyTooEarly(r, t) ==
    /\ r \in ReqIDs
    /\ requests[r].state = WAIT
    /\ requests[r].deadline > t

Ready(r, t) ==
    /\ r \in ReqIDs
    /\ requests[r].state = WAIT
    /\ requests[r].deadline > t
    /\ requests[r].validAfter <= t

\* The workers that TakeBestMatchingWorker considers for request r.
Candidates(r) ==
    {w \in Workers : wstate[w] = IDLE /\ Match(winfo[w], requests[r].groups, requests[r].caps)}

\* matchWorkers finds nothing for the request, or it is not ready.
SkipRequest ==
    /\ matcher.pc = "walk"
    /\ matcher.todo # {}
    /\ ~Ready(Visited, matcher.now) \/ Candidates(Visited) = {}
    /\ matcher' = [matcher EXCEPT !.todo = @ \ {NextPlace(@)}]
    /\ UNCHANGED <<wvars, rvars, clock, avars, deadlineDue, timeoutDue>>

\* matchWorkers: TakeBestMatchingWorker finds worker w.
TakeWorker(w) ==
    /\ matcher.pc = "walk"
    /\ matcher.todo # {}
    /\ Ready(Visited, matcher.now)
    /\ IsBest(w, Candidates(Visited), winfo)
    /\ WL!Take(w)
    /\ matcher' = [matcher EXCEPT !.pc = "create", !.worker = w]
    /\ UNCHANGED <<winfo, rvars, clock, avars, deadlineDue, timeoutDue>>

\* The job is created and the request is run; the walk ends and Notify begins
\* another one.
RunRequest ==
    LET r == Visited
        w == matcher.worker
    IN
    /\ matcher.pc = "create"
    /\ jobs' = [jobs EXCEPT ![w] = r]
    /\ requests' = [requests EXCEPT ![r].state = INPROGRESS, ![r].worker = w,
                                    ![r].timeout = clock + JobTimeout]
    /\ queue' = removeRequest(queue, r, requests[r].prio)
    /\ TimeoutAlarms!insert(clock + JobTimeout, r)
    /\ matcher' = [AsleepMatcher EXCEPT !.pc = "awake"]
    /\ UNCHANGED <<wvars, clock, validTimes, deadlineTimes, pending, deadlineDue, timeoutDue>>

\* The job cannot be created: no tunnel can be opened.  matchWorkers then
\* gives the worker back, PrepareWorker calls OnWorkerIdle, and that waits for
\* the mutex of validAfterTimes, which process holds until Notify returns.
CreateFails ==
    /\ matcher.pc = "create"
    /\ matcher' = [matcher EXCEPT !.pc = "halted"]
    /\ UNCHANGED <<wvars, rvars, clock, avars, deadlineDue, timeoutDue>>

\* All requests have been visited; Notify and process return.
EndNotify ==
    /\ matcher.pc = "walk"
    /\ matcher.todo = {}
    /\ matcher' = AsleepMatcher
    /\ UNCHANGED <<wvars, rvars, clock, avars, deadlineDue, timeoutDue>>

ProcessDeadline(t) ==
    /\ DeadlineAlarms!process(t)
    /\ UNCHANGED <<wvars, rvars, clock, validTimes, timeoutTimes, pending, matcher, timeoutDue>>

\* The conditions that Timeout and Close check again when they run.
DeadlinePassedUnchecked(r) == requests[r].state = WAIT

DeadlinePassed(r) == requests[r].state = WAIT /\ requests[r].deadline <= clock

JobTimedOutAnyState(r) == requests[r].worker # NoWorker /\ requests[r].timeout <= clock

JobTimedOut(r) == requests[r].state = INPROGRESS /\ requests[r].timeout <= clock

\* DeadlineMatcher calls Timeout for a request of its list.
Timeout(r) ==
    /\ RFree
    /\ r \in deadlineDue
    /\ deadlineDue' = deadlineDue \ {r}
    /\ IF DeadlinePassed(r)
       THEN /\ requests' = [requests EXCEPT ![r].state = TIMEOUT]
            /\ queue' = removeRequest(queue, r, requests[r].prio)
       ELSE UNCHANGED <<requests, queue>>
    /\ UNCHANGED <<wvars, jobs, clock, avars, matcher, timeoutDue>>

ProcessTimeout(t) ==
    /\ TimeoutAlarms!process(t)
    /\ UNCHANGED <<wvars, rvars, clock, validTimes, deadlineTimes, pending, matcher, deadlineDue>>

\* TimeoutMatcher calls Close for a request of its list.
Close(r) ==
    /\ RFree
    /\ r \in timeoutDue
    /\ timeoutDue' = timeoutDue \ {r}
    /\ IF JobTimedOut(r)
       THEN closeRequest(r)
       ELSE UNCHANGED <<requests, jobs, wstate>>
    /\ UNCHANGED <<winfo, queue, clock, avars, matcher, deadlineDue>>

Tick ==
    /\ clock < MaxTime
    /\ clock' = clock + 1
    /\ UNCHANGED <<wvars, rvars, avars, mvars>>

-----------------------------------------------------------------------------
Init ==
    /\ WL!Init
    /\ winfo = [w \in Workers |-> NoInfo]
    /\ requests = <<>>
    /\ queue = newPrioQueue
    /\ jobs = [w \in Workers |-> NoJob]
    /\ clock = 1
    /\ validTimes = {} /\ deadlineTimes = {} /\ timeoutTimes = {} /\ pending = {}
    /\ matcher = AsleepMatcher
    /\ deadlineDue = {} /\ timeoutDue = {}

UserStep ==
    \/ \E prio \in Priorities, groups \in SUBSET Groups, caps \in SUBSET Caps,
          validAfter \in ValidAfters, deadline \in Deadlines, now \in 1 .. clock :
              NewRequest(prio, groups, caps, validAfter, deadline, now)
    \/ \E r \in ReqIDs :
          \/ CloseRequest(r)
          \/ \E prio \in Priorities \cup {0}, validAfter \in ValidAfters, deadline \in Deadlines :
                UpdateRequest(r, prio, validAfter, deadline)
          \/ ProlongAccess(r)

InsertAlarm == \E c \in pending : InsertValid(c) \/ InsertDeadline(c)

WorkerStep ==
    WFree /\ \E w \in Workers :
        \/ \E caps \in SUBSET Caps, otherPorts \in BOOLEAN : Register(w, caps, otherPorts)
        \/ SetFail(w)
        \/ \E state \in {IDLE, MAINTENANCE} : SetState(w, state)
        \/ \E groups \in SUBSET Groups : SetGroups(w, groups)
        \/ Deregister(w)
        \/ \E ok \in BOOLEAN : PrepareDone(w, ok) \/ MaintenanceDone(w, ok)

Notify == InitIteration \/ SkipRequest \/ (\E w \in Workers : TakeWorker(w))
              \/ RunRequest \/ EndNotify

Process(t) == ProcessValid(t) \/ ProcessDeadline(t) \/ ProcessTimeout(t)

Next ==
    \/ UserStep \/ InsertAlarm \/ WorkerStep \/ Notify \/ CreateFails
    \/ \E t \in 1 .. MaxTime : Process(t)
    \/ \E r \in ReqIDs : Timeout(r) \/ Close(r)
    \/ Tick

Spec == Init /\ [][Next]_vars

\* The walk over the queue goes on.  For TakenIsUsed only: what must finally
\* happen in the server is stated in BorutaLocks, where a call that waits for a
\* mutex holds the one that it has.
FairSpec == Spec /\ WF_vars(Notify)

-----------------------------------------------------------------------------
ReqInfo == [prio : Priorities, groups : SUBSET Groups, caps : SUBSET Caps,
            validAfter : Nat, deadline : Nat, state : ReqState,
            worker : Workers \cup {NoWorker}, timeout : Nat]

TypeOK ==
    /\ wstate \in [Workers -> WorkerState \cup {ABSENT}]
    /\ winfo \in [Workers -> [caps : SUBSET Caps, groups : SUBSET Groups]]
    /\ requests \in Seq(ReqInfo)
    /\ queue \in [Priorities -> Seq(Nat)]
    /\ jobs \in [Workers -> ReqIDs \cup {NoJob}]
    /\ clock \in Nat
    /\ validTimes \subseteq Nat
    /\ deadlineTimes \subseteq Nat \X ReqIDs
    /\ timeoutTimes \subseteq Nat \X ReqIDs
    /\ pending \subseteq [valid : Nat, deadline : Nat, req : ReqIDs]
    /\ matcher \in [pc : {"asleep", "awake", "walk", "create", "halted"},
                    todo : SUBSET (Nat \X Nat), now : Nat, worker : Workers \cup {NoWorker}]
    /\ deadlineDue \subseteq ReqIDs
    /\ timeoutDue \subseteq ReqIDs

\* Requests, jobs and workers, which three components keep under three
\* mutexes, agree: a job belongs to a request in progress that has this
\* worker, and the worker runs; a request in progress has its job; and a
\* worker that runs has a job or has been taken for a request that still
\* waits.  closeRequest, OnWorkerFail, AcquireWorker and
\* the next Create on the worker rely on it.
JobConsistency ==
    /\ \A w \in Workers : jobs[w] # NoJob =>
          /\ requests[jobs[w]].state = INPROGRESS
          /\ requests[jobs[w]].worker = w
          /\ wstate[w] = RUN
    /\ \A r \in ReqIDs : requests[r].state = INPROGRESS =>
          requests[r].worker \in Workers /\ jobs[requests[r].worker] = r
    /\ \A w \in Workers : wstate[w] = RUN => jobs[w] # NoJob \/ matcher.worker = w
    /\ matcher.worker # NoWorker <=> matcher.pc \in {"create", "halted"}
    /\ matcher.worker # NoWorker =>
          /\ wstate[matcher.worker] = RUN
          /\ jobs[matcher.worker] = NoJob
          /\ Visited \in ReqIDs
          /\ requests[Visited].state = WAIT

\* The queue holds exactly the requests that wait, each of them once, at its
\* priority, so that _remove never panics and the iterator returns no request
\* twice.
QueueIsWaiting ==
    /\ \A x \in Places(queue) :
          LET r == At(queue, x) IN r \in ReqIDs /\ requests[r].state = WAIT
    /\ \A r \in ReqIDs : requests[r].state = WAIT =>
          \E x \in Places(queue) :
              /\ x[1] = requests[r].prio
              /\ {y \in Places(queue) : At(queue, y) = r} = {x}

\* Alarms outlive every change of the times they were set for: a waiting
\* request has one for its current deadline and, until then, one for its
\* ValidAfter; a request in progress has one for its current timeout; or a
\* call is about to set the alarm, or it has gone off and the matcher is about
\* to handle the request.
AlarmsSet ==
    \A r \in ReqIDs : LET req == requests[r] IN
        /\ req.state = WAIT =>
              \/ <<req.deadline, r>> \in deadlineTimes
              \/ \E c \in pending : c.deadline = req.deadline /\ c.req = r
              \/ r \in deadlineDue /\ req.deadline <= clock
        /\ req.state = WAIT /\ clock <= req.validAfter =>
              \/ req.validAfter \in validTimes
              \/ \E c \in pending : c.valid = req.validAfter
        /\ req.state = INPROGRESS =>
              \/ <<req.timeout, r>> \in timeoutTimes
              \/ r \in timeoutDue /\ req.timeout <= clock

\* Some worker could run the request now.
Runnable(r) == Ready(r, clock) /\ Candidates(r) # {}

\* ValidMatcher is at work or about to be woken.
MatcherActive ==
    \/ matcher.pc # "asleep"
    \/ \E e \in validTimes : e <= clock
    \/ \E c \in pending : c.valid # Zero /\ c.valid <= clock

\* No match is missed: a step that leaves ValidMatcher without any reason to
\* look at the queue leaves no request that an idle worker could run, whatever
\* changed while it was walking.  The one exception is a request whose
\* deadline had passed and that UpdateRequest has revived by a later one.
NoMissedMatch ==
    [][\A r \in 1 .. MaxRequests :
          ~MatcherActive' /\ Runnable(r)' =>
              /\ ~MatcherActive
              /\ r \in ReqIDs
              /\ Runnable(r) \/ requests[r].deadline <= clock]_vars

\* A request that has ended stays as it is: a late alarm, a failure of the
\* worker it had, or a second close does not change it any more.
EndedIsFinal ==
    [][\A r \in ReqIDs :
          requests[r].state \notin {WAIT, INPROGRESS} => requests'[r] = requests[r]]_vars

\* A stale alarm ends nothing: a request times out, and a job is closed by
\* TimeoutMatcher, only after the deadline or the timeout that holds at that
\* moment, even if it was moved after the alarm went off.
NotEndedEarly ==
    [][\A r \in ReqIDs :
          /\ requests'[r].state = TIMEOUT /\ requests[r].state = WAIT
                => requests[r].deadline <= clock
          /\ requests'[r].state = DONE /\ requests[r].state = INPROGRESS /\ timeoutDue' # timeoutDue
                => requests[r].timeout <= clock]_vars

\* A request runs in its time only: it is started by a walk that began at or
\* after its ValidAfter and before its deadline, although Run, which comes
\* later, looks at neither.  One whose ValidAfter is not before its deadline,
\* as UpdateRequest may leave it, therefore never runs.
StartsInTime ==
    [][\A r \in ReqIDs : requests[r].state = WAIT /\ requests'[r].state = INPROGRESS =>
          /\ requests[r].validAfter <= matcher.now
          /\ matcher.now < requests[r].deadline
          /\ matcher.now <= clock]_vars

\* The collection of requests keeps what RequestStates promises: whoever looks
\* at requests only sees each of them begin to wait, under the next ID, and go
\* to its end step by step, whatever alarms, matchers and workers do.
RS == INSTANCE RequestStates WITH
    rstate <- [id \in 1 .. MaxRequests |-> IF id \in ReqIDs THEN requests[id].state ELSE ABSENT]

ImplementsRequestStates == RS!Spec

\* Requests are matched in the order in which they are placed in the queue: a
\* worker is given to no request while one ahead of it could have run on it.
\* Workers change during the walk, but none becomes available behind it.
MatchedInOrder ==
    [][\A w \in Workers : wstate[w] = IDLE /\ wstate'[w] = RUN =>
          \A x \in Places(queue) : Before(x, NextPlace(matcher.todo)) =>
              ~(Ready(At(queue, x), matcher.now) /\ w \in Candidates(At(queue, x)))]_vars

\* "Creating job failed. Bringing worker back to IDLE state": a worker that was
\* taken for a request either runs its job or becomes IDLE again.
TakenIsUsed ==
    \A w \in Workers : matcher.worker = w ~> (jobs[w] # NoJob \/ wstate[w] = IDLE)
=============================================================================
