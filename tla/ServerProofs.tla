---------------------------- MODULE ServerProofs ----------------------------
(***************************************************************************)
(* Theorems about the server that need more than the agreement of          *)
(* requests, queue, jobs and workers (BorutaProofs): that no alarm is lost,*)
(* that no alarm ends a request too early, that ValidMatcher misses no     *)
(* match, matches in the order of the queue and starts a request in its    *)
(* time only; that the server keeps what RequestStates promises; and that  *)
(* all of this holds with the mutexes of BorutaLocks, too.                 *)
(***************************************************************************)
EXTENDS BorutaLocks, BorutaProofs, WellFoundedInduction

USE DEF MAINTENANCE, IDLE, RUN, FAIL, PREPARE, BUSY, ABSENT, WorkerState,
        WL!MAINTENANCE, WL!IDLE, WL!RUN, WL!FAIL, WL!PREPARE, WL!BUSY,
        WL!ABSENT, WL!WorkerState,
        WAIT, INPROGRESS, CANCEL, TIMEOUT, DONE, FAILED, ReqState,
        NoJob, NoWorker, Zero,
        DeadlineAlarms!insert, DeadlineAlarms!process, TimeoutAlarms!insert, TimeoutAlarms!process

\* What AlarmsSet says of one request.
AlarmsFor(r) ==
    LET req == requests[r] IN
    /\ req.state = WAIT =>
          \/ <<req.deadline, r>> \in deadlineTimes
          \/ \E c \in pending : c.deadline = req.deadline /\ c.req = r
          \/ r \in deadlineDue /\ req.deadline <= clock
    /\ req.state = WAIT /\ clock <= req.validAfter =>
          \/ req.validAfter \in validTimes
          \/ \E c \in pending : c.valid = req.validAfter
    /\ req.state = INPROGRESS =>
          \/ <<req.timeout, r>> \in timeoutTimes
          \/ r \in timeoutDue /\ req.timeout <= clock

\* A call takes a time that is Zero for one it has not to set an alarm for; so
\* no waiting request may have such a deadline, and no moment may be Zero.
AlarmOK(r) == (requests[r].state = WAIT => requests[r].deadline # Zero) /\ AlarmsFor(r)

AlarmInv ==
    /\ clock # Zero
    /\ \A r \in ReqIDs : AlarmOK(r)

\* While ValidMatcher walks over the queue, what becomes ready after the walk
\* has begun has an alarm, and what the walk has visited could not run on any
\* worker that is there now.
SeenInv ==
    matcher.pc = "walk" =>
        /\ matcher.now <= clock
        /\ \A r \in ReqIDs :
              requests[r].state = WAIT /\ requests[r].validAfter > matcher.now =>
                  \/ requests[r].validAfter \in validTimes
                  \/ \E c \in pending : c.valid = requests[r].validAfter
        /\ \A x \in Places(queue) \ matcher.todo :
              ~Ready(At(queue, x), matcher.now) \/ Candidates(At(queue, x)) = {}

SInv == IInv /\ AlarmInv /\ SeenInv

-----------------------------------------------------------------------------
(***************************************************************************)
(* What the steps do to workers, requests and alarms.                      *)
(***************************************************************************)
\* The types of what the invariants compare.
LEMMA Types ==
    ASSUME IInv, NEW r \in ReqIDs
    PROVE  /\ clock \in Nat /\ matcher.now \in Nat
           /\ requests[r] \in ReqInfo /\ requests[r].validAfter \in Nat
           /\ requests[r].deadline \in Nat /\ requests[r].timeout \in Nat
           /\ requests[r].state \in ReqState
BY RequestType DEF IInv, TypeOK, ReqInfo

\* A request that is as it was, or has ended.
Kept(r) == r \in ReqIDs /\ (requests'[r] = requests[r] \/ requests'[r].state \notin {WAIT, INPROGRESS})

\* The alarms for request r are there, and their matchers remember r.
KeptAlarms(r) ==
    /\ validTimes \subseteq validTimes' /\ deadlineTimes \subseteq deadlineTimes'
    /\ timeoutTimes \subseteq timeoutTimes' /\ pending \subseteq pending'
    /\ r \in deadlineDue => r \in deadlineDue'
    /\ r \in timeoutDue => r \in timeoutDue'
    /\ clock <= clock'

\* No worker becomes available for a request.
NoNewCandidates ==
    \A w \in Workers : wstate'[w] = IDLE => wstate[w] = IDLE /\ winfo'[w] = winfo[w]

\* At most the request whose job a worker breaks off has failed.
OneFails ==
    \/ UNCHANGED requests
    \/ \E r \in ReqIDs : requests[r].state = INPROGRESS
                         /\ requests' = [requests EXCEPT ![r].state = FAILED]

\* OnWorkerIdle and OnWorkerFail.
LEMMA ListenerDoes ==
    ASSUME IInv, NEW w \in Workers, NEW s \in WorkerState,
           wstate' = [wstate EXCEPT ![w] = s], Listener(w)
    PROVE  /\ UNCHANGED <<queue, clock, deadlineTimes, timeoutTimes, pending, mvars>>
           /\ validTimes \subseteq validTimes'
           /\ ReqIDs' = ReqIDs
           /\ \A r \in ReqIDs : requests'[r] = requests[r] \/ (RFree /\ requests'[r].state = FAILED)
           /\ OneFails
           /\ ~RFree => UNCHANGED requests
           /\ \A v \in Workers : v # w => wstate'[v] = wstate[v]
           /\ wstate'[w] = s
           /\ s = IDLE /\ wstate[w] # IDLE => matcher.pc = "asleep" /\ clock \in validTimes'
<1>1. wstate'[w] = s /\ \A v \in Workers : v # w => wstate'[v] = wstate[v]
  BY DEF IInv, TypeOK
<1>2. validTimes \subseteq validTimes' /\ (s = IDLE /\ wstate[w] # IDLE => matcher.pc = "asleep" /\ clock \in validTimes')
  BY <1>1 DEF Listener, OnWorkerIdle
<1>3. /\ ReqIDs' = ReqIDs
      /\ \A r \in ReqIDs : requests'[r] = requests[r] \/ (RFree /\ requests'[r].state = FAILED)
      /\ ~RFree => UNCHANGED requests
  <2>1. CASE UNCHANGED requests
    BY <2>1 DEF ReqIDs
  <2>2. CASE ~UNCHANGED requests
    <3>1. RFree /\ jobs[w] \in ReqIDs /\ requests' = [requests EXCEPT ![jobs[w]].state = FAILED]
      BY <2>2 DEF Listener, OnWorkerFail, IInv, TypeOK
    <3>2. requests[jobs[w]] \in ReqInfo /\ [requests[jobs[w]] EXCEPT !.state = FAILED] \in ReqInfo
      BY <3>1, RequestType DEF IInv, ReqInfo
    <3>3. requests' = [requests EXCEPT ![jobs[w]] = [requests[jobs[w]] EXCEPT !.state = FAILED]]
      BY <3>1
    <3>4. /\ ReqIDs' = ReqIDs
          /\ \A x \in ReqIDs : requests'[x] = IF x = jobs[w] THEN [requests[jobs[w]] EXCEPT !.state = FAILED]
                                              ELSE requests[x]
      BY <3>1, <3>2, <3>3, ReplaceRequest DEF IInv
    <3>5. [requests[jobs[w]] EXCEPT !.state = FAILED].state = FAILED
      BY <3>2 DEF ReqInfo
    <3>. QED  BY <3>1, <3>4, <3>5
  <2>. QED  BY <2>1, <2>2
<1>4. OneFails
  <2>1. CASE ~UNCHANGED requests
    <3>1. jobs[w] # NoJob /\ jobs[w] \in ReqIDs /\ requests' = [requests EXCEPT ![jobs[w]].state = FAILED]
      BY <2>1 DEF Listener, OnWorkerFail, IInv, TypeOK
    <3>2. requests[jobs[w]].state = INPROGRESS
      BY <3>1 DEF IInv, JobConsistency
    <3>. QED  BY <3>1, <3>2 DEF OneFails
  <2>. QED  BY <2>1 DEF OneFails
<1>. QED  BY <1>1, <1>2, <1>3, <1>4 DEF Listener

\* Calls of the list of workers end requests at most, and never take a worker;
\* where one becomes available, an alarm is due and ValidMatcher asleep.
WorkersMove ==
    /\ UNCHANGED <<queue, clock, deadlineTimes, timeoutTimes, pending, mvars>>
    /\ validTimes \subseteq validTimes'
    /\ ReqIDs' = ReqIDs /\ \A r \in ReqIDs : Kept(r) /\ requests'[r].state \in {requests[r].state, FAILED}
    /\ ~RFree => UNCHANGED requests
    /\ OneFails
    /\ NoNewCandidates \/ (matcher.pc = "asleep" /\ clock \in validTimes')
    /\ \A w \in Workers : wstate'[w] = RUN => wstate[w] = RUN

\* All calls of the list of workers do so.
LEMMA WorkerStepDoes == ASSUME IInv, WorkerStep PROVE WorkersMove
<1>1. PICK w \in Workers :
        \/ \E caps \in SUBSET Caps, otherPorts \in BOOLEAN : Register(w, caps, otherPorts)
        \/ SetFail(w)
        \/ \E state \in {IDLE, MAINTENANCE} : SetState(w, state)
        \/ \E groups \in SUBSET Groups : SetGroups(w, groups)
        \/ Deregister(w)
        \/ \E ok \in BOOLEAN : PrepareDone(w, ok) \/ MaintenanceDone(w, ok)
  BY DEF WorkerStep
<1>2. wstate[w] \in WorkerState \cup {ABSENT} /\ winfo \in [Workers -> [caps : SUBSET Caps, groups : SUBSET Groups]]
  BY DEF IInv, TypeOK
<1>3. ASSUME NEW s \in WorkerState, wstate' = [wstate EXCEPT ![w] = s], Listener(w),
             s = RUN => wstate[w] = RUN,
             \A v \in Workers : v # w => winfo'[v] = winfo[v],
             s = IDLE /\ wstate[w] = IDLE => winfo'[w] = winfo[w]
      PROVE  WorkersMove
  <2>1. /\ UNCHANGED <<queue, clock, deadlineTimes, timeoutTimes, pending, mvars>>
        /\ validTimes \subseteq validTimes'
        /\ ReqIDs' = ReqIDs
        /\ \A r \in ReqIDs : requests'[r] = requests[r] \/ (RFree /\ requests'[r].state = FAILED)
        /\ OneFails
        /\ ~RFree => UNCHANGED requests
        /\ \A v \in Workers : v # w => wstate'[v] = wstate[v]
        /\ wstate'[w] = s
        /\ s = IDLE /\ wstate[w] # IDLE => matcher.pc = "asleep" /\ clock \in validTimes'
    BY <1>3, ListenerDoes
  <2>2. \A r \in ReqIDs : Kept(r) /\ requests'[r].state \in {requests[r].state, FAILED}
    BY <2>1 DEF Kept
  <2>3. NoNewCandidates \/ (matcher.pc = "asleep" /\ clock \in validTimes')
    BY <1>3, <2>1 DEF NoNewCandidates
  <2>. QED  BY <1>3, <2>1, <2>2, <2>3 DEF WorkersMove
<1>4. ASSUME NEW caps \in SUBSET Caps, NEW otherPorts \in BOOLEAN, Register(w, caps, otherPorts)
      PROVE  WorkersMove
  <2>. DEFINE changed == otherPorts \/ caps # winfo[w].caps
              s == WL!RegisterTarget(wstate[w], changed)
  <2>1. wstate' = [wstate EXCEPT ![w] = s] /\ Listener(w) /\ winfo' = [winfo EXCEPT ![w].caps = caps]
    BY <1>4 DEF Register, WL!Register, WL!setState
  <2>2. s \in WorkerState /\ (s = RUN => wstate[w] = RUN) /\ (s = IDLE /\ wstate[w] = IDLE => ~changed)
    BY <1>2 DEF WL!RegisterTarget
  <2>3. ~changed => winfo'[w] = winfo[w]
    <3>1. winfo[w] \in [caps : SUBSET Caps, groups : SUBSET Groups]
      BY <1>2
    <3>2. [winfo[w] EXCEPT !.caps = winfo[w].caps] = winfo[w]
      BY <3>1
    <3>. QED  BY <1>2, <2>1, <3>2
  <2>4. \A v \in Workers : v # w => winfo'[v] = winfo[v]
    BY <1>2, <2>1
  <2>. HIDE DEF s, changed
  <2>. QED  BY <1>3, <2>1, <2>2, <2>3, <2>4
<1>5. CASE SetFail(w)
  <2>1. wstate' = [wstate EXCEPT ![w] = FAIL] /\ Listener(w) /\ UNCHANGED winfo
    BY <1>5 DEF SetFail, WL!SetFail, WL!setState
  <2>2. PICK s \in {FAIL} : wstate' = [wstate EXCEPT ![w] = s]
    BY <2>1
  <2>. QED  BY <1>3, <2>1, <2>2
<1>6. ASSUME NEW state \in {IDLE, MAINTENANCE}, SetState(w, state) PROVE WorkersMove
  <2>1. wstate' = [wstate EXCEPT ![w] = WL!SetStateTarget(state)] /\ Listener(w) /\ UNCHANGED winfo
    BY <1>6 DEF SetState, WL!SetState, WL!setState
  <2>2. WL!SetStateTarget(state) \in {PREPARE, BUSY}
    BY DEF WL!SetStateTarget
  <2>. QED  BY <1>3, <2>1, <2>2
<1>7. ASSUME NEW groups \in SUBSET Groups, SetGroups(w, groups) PROVE WorkersMove
  <2>1. UNCHANGED <<wstate, requests, clock, deadlineTimes, timeoutTimes, pending, mvars, queue>> /\ ReqIDs' = ReqIDs
    BY <1>7 DEF SetGroups, rvars, ReqIDs
  <2>0. OneFails
    BY <2>1 DEF OneFails
  <2>2. \A r \in ReqIDs : Kept(r) /\ requests'[r].state \in {requests[r].state, FAILED}
    BY <2>1 DEF Kept
  <2>3. validTimes \subseteq validTimes' /\ (wstate[w] = IDLE => matcher.pc = "asleep" /\ clock \in validTimes')
    BY <1>7 DEF SetGroups, OnWorkerIdle
  <2>4. wstate[w] # IDLE => NoNewCandidates
    BY <1>2, <1>7, <2>1 DEF SetGroups, NoNewCandidates
  <2>. QED  BY <2>0, <2>1, <2>2, <2>3, <2>4 DEF WorkersMove
<1>8. CASE Deregister(w)
  <2>1. wstate' = [wstate EXCEPT ![w] = ABSENT] /\ winfo' = [winfo EXCEPT ![w] = NoInfo]
    BY <1>8 DEF Deregister, WL!Deregister, WL!setState
  <2>2. UNCHANGED <<requests, clock, deadlineTimes, timeoutTimes, validTimes, pending, mvars, queue>> /\ ReqIDs' = ReqIDs
    BY <1>8 DEF Deregister, rvars, avars, ReqIDs
  <2>3. \A r \in ReqIDs : Kept(r) /\ requests'[r].state \in {requests[r].state, FAILED}
    BY <2>2 DEF Kept
  <2>4. NoNewCandidates /\ \A v \in Workers : wstate'[v] = RUN => wstate[v] = RUN
    BY <1>2, <2>1 DEF NoNewCandidates, IInv, TypeOK
  <2>5. OneFails
    BY <2>2 DEF OneFails
  <2>. QED  BY <2>2, <2>3, <2>4, <2>5 DEF WorkersMove
<1>9. ASSUME NEW ok \in BOOLEAN, PrepareDone(w, ok) PROVE WorkersMove
  <2>1. PICK s \in {IDLE, FAIL} :
          wstate' = [wstate EXCEPT ![w] = s] /\ wstate[w] = PREPARE /\ Listener(w) /\ UNCHANGED winfo
    BY <1>9 DEF PrepareDone, WL!PrepareDone, WL!setState
  <2>. QED  BY <1>3, <2>1
<1>10. ASSUME NEW ok \in BOOLEAN, MaintenanceDone(w, ok) PROVE WorkersMove
  <2>1. PICK s \in {MAINTENANCE, FAIL} :
          wstate' = [wstate EXCEPT ![w] = s] /\ Listener(w) /\ UNCHANGED winfo
    BY <1>10 DEF MaintenanceDone, WL!MaintenanceDone, WL!setState
  <2>. QED  BY <1>3, <2>1
<1>. QED
  BY <1>1, <1>4, <1>5, <1>6, <1>7, <1>8, <1>9, <1>10

\* A request gets the state s.
LEMMA StateSet ==
    ASSUME IInv, NEW x \in ReqIDs, NEW s \in ReqState,
           requests' = [requests EXCEPT ![x].state = s]
    PROVE  /\ ReqIDs' = ReqIDs
           /\ requests'[x].state = s
           /\ \A r \in ReqIDs : r # x => requests'[r] = requests[r]
<1>. DEFINE req == [requests[x] EXCEPT !.state = s]
<1>1. requests[x] \in ReqInfo
  BY RequestType DEF IInv
<1>2. req \in ReqInfo /\ req.state = s
  BY <1>1 DEF ReqInfo
<1>3. requests' = [requests EXCEPT ![x] = req]
  OBVIOUS
<1>. HIDE DEF req
<1>4. ReqIDs' = ReqIDs /\ \A r \in ReqIDs : requests'[r] = IF r = x THEN req ELSE requests[r]
  BY <1>2, <1>3, ReplaceRequest DEF IInv
<1>. QED  BY <1>2, <1>4

\* NewRequest appends a request that waits.
LEMMA NewRequestDoes ==
    ASSUME IInv, IInv',
           NEW prio \in Priorities, NEW groups \in SUBSET Groups, NEW caps \in SUBSET Caps,
           NEW validAfter \in ValidAfters, NEW deadline \in Deadlines, NEW now \in 1 .. clock,
           NewRequest(prio, groups, caps, validAfter, deadline, now)
    PROVE  LET id == Len(requests) + 1 IN
           /\ ReqIDs' = ReqIDs \cup {id} /\ id \notin ReqIDs
           /\ \A r \in ReqIDs : requests'[r] = requests[r]
           /\ requests'[id].state = WAIT
           /\ requests'[id].deadline # Zero
           /\ pending' = pending \cup {Caller(requests'[id].validAfter, requests'[id].deadline, id)}
           /\ requests'[id].validAfter # Zero
<1>. DEFINE id == Len(requests) + 1
            req == [prio |-> prio, groups |-> groups, caps |-> caps,
                    validAfter |-> IF validAfter = Zero THEN now ELSE validAfter,
                    deadline |-> IF deadline = Zero THEN now + DefaultDeadline ELSE deadline,
                    state |-> WAIT, worker |-> NoWorker, timeout |-> Zero]
<1>1. requests' = Append(requests, req) /\ pending' = pending \cup {Caller(req.validAfter, req.deadline, id)}
  BY DEF NewRequest, NextID
<1>2. requests \in Seq(ReqInfo) /\ Len(requests) \in Nat /\ ReqIDs = 1 .. Len(requests)
  BY DEF IInv, TypeOK, ReqIDs
<1>3. now \in Nat \ {0} /\ now + DefaultDeadline \in Nat \ {0}
  BY PeriodsAssumption DEF IInv, TypeOK, PeriodsAssumption
<1>4. req.state = WAIT /\ req.deadline # Zero /\ req.validAfter # Zero
  BY <1>3
<1>. HIDE DEF req
<1>5. requests' \in Seq(ReqInfo) /\ ReqIDs' = 1 .. Len(requests')
  BY DEF IInv, TypeOK, ReqIDs
<1>6. Len(requests') = id /\ requests'[id] = req /\ \A r \in 1 .. Len(requests) : requests'[r] = requests[r]
  BY <1>1, <1>2
<1>7. ReqIDs' = ReqIDs \cup {id} /\ id \notin ReqIDs
  BY <1>2, <1>5, <1>6
<1>. QED  BY <1>1, <1>2, <1>4, <1>6, <1>7

\* UpdateRequest changes one request, which waits.
LEMMA UpdateRequestDoes ==
    ASSUME IInv, NEW r \in ReqIDs,
           NEW prio \in Priorities \cup {0}, NEW validAfter \in ValidAfters,
           NEW deadline \in Deadlines, UpdateRequest(r, prio, validAfter, deadline)
    PROVE  LET old == requests[r]
               dl  == IF deadline = Zero THEN old.deadline ELSE deadline
           IN
           /\ ReqIDs' = ReqIDs
           /\ \A x \in ReqIDs : x # r => requests'[x] = requests[x]
           /\ old.state = WAIT /\ requests'[r].state = WAIT
           /\ requests'[r].deadline = dl
           /\ requests'[r].validAfter = IF validAfter = Zero THEN old.validAfter ELSE validAfter
           /\ requests'[r].groups = old.groups /\ requests'[r].caps = old.caps
           /\ validAfter \in Nat /\ deadline \in Nat
<1>. DEFINE old == requests[r]
            dl  == IF deadline = Zero THEN old.deadline ELSE deadline
            va  == IF validAfter = Zero THEN old.validAfter ELSE validAfter
            pr  == IF prio = 0 THEN old.prio ELSE prio
            req == [old EXCEPT !.prio = pr, !.validAfter = va, !.deadline = dl]
<1>1. old \in ReqInfo /\ old.state = WAIT
  BY RequestType DEF UpdateRequest, IInv
<1>2. dl \in Nat /\ va \in Nat /\ pr \in Priorities /\ validAfter \in Nat /\ deadline \in Nat
  BY <1>1, InputsAssumption DEF InputsAssumption, ReqInfo
<1>3. requests' = [requests EXCEPT ![r] = req]
  BY DEF UpdateRequest
<1>. HIDE DEF dl, va, pr, old
<1>4. /\ req \in ReqInfo /\ req.state = WAIT /\ req.deadline = dl /\ req.validAfter = va
      /\ req.groups = old.groups /\ req.caps = old.caps
  BY <1>1, <1>2 DEF ReqInfo
<1>. HIDE DEF req
<1>5. ReqIDs' = ReqIDs /\ \A x \in ReqIDs : requests'[x] = IF x = r THEN req ELSE requests[x]
  BY <1>3, <1>4, ReplaceRequest DEF IInv
<1>6. /\ old.state = WAIT /\ requests'[r].state = WAIT
      /\ requests'[r].deadline = dl /\ requests'[r].validAfter = va
      /\ requests'[r].groups = old.groups /\ requests'[r].caps = old.caps
  BY <1>1, <1>4, <1>5
<1>. QED  BY <1>2, <1>5, <1>6 DEF dl, va, old

\* A job has its timeout set, by ProlongAccess or when it is created.
LEMMA TimeoutSet ==
    ASSUME IInv, NEW r \in ReqIDs, NEW req \in ReqInfo, requests' = [requests EXCEPT ![r] = req]
    PROVE  /\ ReqIDs' = ReqIDs /\ requests'[r] = req
           /\ \A x \in ReqIDs : x # r => requests'[x] = requests[x]
<1>1. ReqIDs' = ReqIDs /\ \A x \in ReqIDs : requests'[x] = IF x = r THEN req ELSE requests[x]
  BY ReplaceRequest DEF IInv
<1>. QED  BY <1>1

\* ProlongAccess.
LEMMA ProlongAccessDoes ==
    ASSUME IInv, NEW r \in ReqIDs, ProlongAccess(r)
    PROVE  /\ ReqIDs' = ReqIDs
           /\ \A x \in ReqIDs : x # r => requests'[x] = requests[x]
           /\ requests'[r].state = INPROGRESS /\ requests'[r].timeout = clock + JobTimeout
<1>. DEFINE req == [requests[r] EXCEPT !.timeout = clock + JobTimeout]
<1>1. clock + JobTimeout \in Nat /\ requests[r] \in ReqInfo /\ requests[r].state = INPROGRESS
  <2>1. clock + JobTimeout \in Nat
    BY PeriodsAssumption DEF PeriodsAssumption, IInv, TypeOK
  <2>2. requests[r] \in ReqInfo
    BY RequestType DEF IInv
  <2>3. requests[r].state = INPROGRESS
    BY DEF ProlongAccess
  <2>. QED  BY <2>1, <2>2, <2>3
<1>2. req \in ReqInfo /\ req.state = INPROGRESS /\ req.timeout = clock + JobTimeout
  BY <1>1 DEF ReqInfo
<1>3. requests' = [requests EXCEPT ![r] = req]
  BY DEF ProlongAccess
<1>. HIDE DEF req
<1>. QED  BY <1>2, <1>3, TimeoutSet

\* RunRequest.
LEMMA RunRequestDoes ==
    ASSUME IInv, RunRequest
    PROVE  /\ Visited \in ReqIDs /\ ReqIDs' = ReqIDs
           /\ \A x \in ReqIDs : x # Visited => requests'[x] = requests[x]
           /\ requests'[Visited].state = INPROGRESS
           /\ requests'[Visited].timeout = clock + JobTimeout
<1>. DEFINE r == Visited
            w == matcher.worker
            req == [requests[r] EXCEPT !.state = INPROGRESS, !.worker = w, !.timeout = clock + JobTimeout]
<1>1. r \in ReqIDs /\ w \in Workers
  BY DEF RunRequest, IInv, JobConsistency, TypeOK
<1>2. requests' = [requests EXCEPT ![r] = req]
  BY DEF RunRequest
<1>. HIDE DEF r, w
<1>3. clock + JobTimeout \in Nat /\ requests[r] \in ReqInfo
  BY <1>1, RequestType, PeriodsAssumption DEF PeriodsAssumption, IInv, TypeOK
<1>4. req \in ReqInfo /\ req.state = INPROGRESS /\ req.timeout = clock + JobTimeout
  BY <1>1, <1>3 DEF ReqInfo
<1>. HIDE DEF req
<1>5. /\ ReqIDs' = ReqIDs /\ \A x \in ReqIDs : x # r => requests'[x] = requests[x]
      /\ requests'[r] = req
  BY <1>1, <1>2, <1>4, TimeoutSet
<1>. QED  BY <1>1, <1>4, <1>5 DEF r

\* Steps that leave the requests alone.
QuietSteps ==
    \/ InsertAlarm \/ InitIteration \/ SkipRequest \/ EndNotify \/ CreateFails
    \/ \E w \in Workers : TakeWorker(w)
    \/ \E t \in 1 .. MaxTime : Process(t)
    \/ Tick

\* None of them touches a request.
LEMMA QuietRequests == QuietSteps => UNCHANGED requests
BY DEF QuietSteps, InsertAlarm, InsertValid, InsertDeadline, InitIteration, SkipRequest, EndNotify,
   CreateFails, TakeWorker, Process, ProcessValid, ProcessDeadline, ProcessTimeout, Tick, rvars

\* The other steps, one by one.
LEMMA StepsSplit ==
    ASSUME [Next]_vars
    PROVE  \/ UNCHANGED vars
           \/ QuietSteps
           \/ WorkerStep
           \/ \E prio \in Priorities, groups \in SUBSET Groups, caps \in SUBSET Caps,
                 validAfter \in ValidAfters, deadline \in Deadlines, now \in 1 .. clock :
                     NewRequest(prio, groups, caps, validAfter, deadline, now)
           \/ \E r \in ReqIDs :
                 \/ CloseRequest(r) \/ ProlongAccess(r) \/ Timeout(r) \/ Close(r)
                 \/ \E prio \in Priorities \cup {0}, validAfter \in ValidAfters, deadline \in Deadlines :
                       UpdateRequest(r, prio, validAfter, deadline)
           \/ RunRequest
BY DEF Next, UserStep, Notify, QuietSteps

-----------------------------------------------------------------------------
(***************************************************************************)
(* NotEndedEarly.                                                          *)
(***************************************************************************)
\* What NotEndedEarly says of one request.
NotEarly(r) ==
    /\ requests'[r].state = TIMEOUT /\ requests[r].state = WAIT => requests[r].deadline <= clock
    /\ requests'[r].state = DONE /\ requests[r].state = INPROGRESS /\ timeoutDue' # timeoutDue
          => requests[r].timeout <= clock

\* Timeout and Close look at the deadline and at the timeout again; no other
\* step ends a request in their way.
LEMMA StepNotEarly == ASSUME IInv, IInv', [Next]_vars, NEW r \in ReqIDs PROVE NotEarly(r)
<1>1. CASE UNCHANGED requests
  BY <1>1 DEF NotEarly
<1>2. CASE WorkerStep
  BY <1>2, WorkerStepDoes DEF WorkersMove, NotEarly
<1>3. ASSUME NEW prio \in Priorities, NEW groups \in SUBSET Groups, NEW caps \in SUBSET Caps,
             NEW validAfter \in ValidAfters, NEW deadline \in Deadlines, NEW now \in 1 .. clock,
             NewRequest(prio, groups, caps, validAfter, deadline, now)
      PROVE  NotEarly(r)
  BY <1>3, NewRequestDoes DEF NotEarly
<1>4. ASSUME NEW x \in ReqIDs, CloseRequest(x) PROVE NotEarly(r)
  <2>1. timeoutDue' = timeoutDue
    BY <1>4 DEF CloseRequest, CloseWaiting, CloseRunning, mvars
  <2>2. PICK s \in {CANCEL, DONE} : requests' = [requests EXCEPT ![x].state = s]
    BY <1>4 DEF CloseRequest, CloseWaiting, CloseRunning, closeRequest
  <2>3. requests'[x].state = s /\ (r # x => requests'[r] = requests[r])
    BY <2>2, StateSet
  <2>. QED  BY <2>1, <2>3 DEF NotEarly
<1>5. ASSUME NEW x \in ReqIDs, ProlongAccess(x) PROVE NotEarly(r)
  BY <1>5, ProlongAccessDoes DEF NotEarly
<1>6. ASSUME NEW x \in ReqIDs, Timeout(x) PROVE NotEarly(r)
  <2>1. timeoutDue' = timeoutDue
    BY <1>6 DEF Timeout
  <2>2. CASE DeadlinePassed(x)
    <3>1. requests'[x].state = TIMEOUT /\ (r # x => requests'[r] = requests[r])
      BY <1>6, <2>2, StateSet DEF Timeout
    <3>. QED  BY <2>1, <2>2, <3>1 DEF NotEarly, DeadlinePassed
  <2>. QED  BY <1>1, <1>6, <2>2 DEF Timeout
<1>7. ASSUME NEW x \in ReqIDs, Close(x) PROVE NotEarly(r)
  <2>1. CASE JobTimedOut(x)
    <3>1. requests'[x].state = DONE /\ (r # x => requests'[r] = requests[r])
      BY <1>7, <2>1, StateSet DEF Close, closeRequest
    <3>. QED  BY <2>1, <3>1 DEF NotEarly, JobTimedOut
  <2>. QED  BY <1>1, <1>7, <2>1 DEF Close
<1>8. ASSUME NEW x \in ReqIDs, NEW prio \in Priorities \cup {0}, NEW validAfter \in ValidAfters,
             NEW deadline \in Deadlines, UpdateRequest(x, prio, validAfter, deadline)
      PROVE  NotEarly(r)
  BY <1>8, UpdateRequestDoes DEF NotEarly
<1>9. CASE RunRequest
  BY <1>9, RunRequestDoes DEF NotEarly
<1>. QED
  BY <1>1, <1>2, <1>3, <1>4, <1>5, <1>6, <1>7, <1>8, <1>9, StepsSplit, QuietRequests DEF vars, rvars

\* NotEndedEarly: a stale alarm ends nothing.  DeadlineMatcher and
\* TimeoutMatcher call Timeout and Close for requests whose time was moved
\* after the alarm went off, and both check again.
THEOREM NoneEndedEarly == Spec => NotEndedEarly
<1>1. IInv /\ IInv' /\ [Next]_vars =>
        [\A r \in ReqIDs :
            /\ requests'[r].state = TIMEOUT /\ requests[r].state = WAIT
                  => requests[r].deadline <= clock
            /\ requests'[r].state = DONE /\ requests[r].state = INPROGRESS /\ timeoutDue' # timeoutDue
                  => requests[r].timeout <= clock]_vars
  BY StepNotEarly DEF NotEarly
<1>. QED  BY <1>1, Invariance, PTL DEF Spec, NotEndedEarly

-----------------------------------------------------------------------------
(***************************************************************************)
(* AlarmsSet.                                                              *)
(***************************************************************************)
\* A request that is as it was keeps its alarms; one that has ended needs none.
LEMMA AlarmKept ==
    ASSUME IInv, IInv', AlarmInv, NEW r \in ReqIDs, Kept(r), KeptAlarms(r)
    PROVE  AlarmOK(r)'
<1>1. AlarmOK(r)
  BY DEF AlarmInv
<1>2. clock \in Nat /\ clock' \in Nat /\ clock <= clock'
  BY DEF IInv, TypeOK, KeptAlarms
<1>3. CASE requests'[r].state \notin {WAIT, INPROGRESS}
  BY <1>3 DEF AlarmOK, AlarmsFor
<1>4. CASE requests'[r] = requests[r]
  <2>1. requests[r].deadline \in Nat /\ requests[r].timeout \in Nat /\ requests[r].validAfter \in Nat
    BY Types
  <2>2. requests[r].deadline <= clock => requests[r].deadline <= clock'
    BY <1>2, <2>1
  <2>3. requests[r].timeout <= clock => requests[r].timeout <= clock'
    BY <1>2, <2>1
  <2>4. clock' <= requests[r].validAfter => clock <= requests[r].validAfter
    BY <1>2, <2>1
  <2>. QED  BY <1>1, <1>4, <2>2, <2>3, <2>4 DEF AlarmOK, AlarmsFor, KeptAlarms
<1>. QED  BY <1>3, <1>4 DEF Kept

\* A step that forgets no alarm and leaves every request as it was, or ended.
LEMMA AlarmsKept ==
    ASSUME IInv, IInv', AlarmInv, ReqIDs' = ReqIDs, clock <= clock',
           \A r \in ReqIDs : Kept(r) /\ KeptAlarms(r)
    PROVE  AlarmInv'
<1>1. \A r \in ReqIDs : AlarmOK(r)'
  BY AlarmKept
<1>2. clock' # Zero
  BY DEF AlarmInv, IInv, TypeOK
<1>. QED  BY <1>1, <1>2 DEF AlarmInv

\* Steps of the matchers, of the workers and of time that set no alarm.
LEMMA QuietAlarms ==
    ASSUME IInv, IInv', AlarmInv,
           \/ UNCHANGED vars \/ InitIteration \/ SkipRequest \/ EndNotify \/ CreateFails \/ Tick
           \/ WorkerStep
           \/ \E w \in Workers : TakeWorker(w)
    PROVE  AlarmInv'
<1>0. clock \in Nat
  BY DEF IInv, TypeOK
<1>1. CASE WorkerStep
  <2>1. \A r \in ReqIDs : Kept(r) /\ KeptAlarms(r)
    BY <1>0, <1>1, WorkerStepDoes DEF WorkersMove, KeptAlarms, mvars
  <2>. QED  BY <1>0, <1>1, <2>1, WorkerStepDoes, AlarmsKept DEF WorkersMove
<1>2. CASE \/ UNCHANGED vars \/ InitIteration \/ SkipRequest \/ EndNotify \/ CreateFails \/ Tick
           \/ \E w \in Workers : TakeWorker(w)
  <2>1. UNCHANGED <<requests, avars, deadlineDue, timeoutDue>> /\ clock' \in {clock, clock + 1}
    BY <1>2 DEF vars, mvars, InitIteration, SkipRequest, EndNotify, CreateFails, Tick, TakeWorker, rvars
  <2>2. clock <= clock' /\ ReqIDs' = ReqIDs
    BY <1>0, <2>1 DEF ReqIDs
  <2>3. \A r \in ReqIDs : Kept(r) /\ KeptAlarms(r)
    BY <2>1, <2>2 DEF Kept, KeptAlarms, avars
  <2>. QED  BY <2>2, <2>3, AlarmsKept
<1>. QED  BY <1>1, <1>2

\* NewRequest leaves both alarms to be set.
LEMMA NewRequestAlarms ==
    ASSUME IInv, IInv', AlarmInv,
           NEW prio \in Priorities, NEW groups \in SUBSET Groups, NEW caps \in SUBSET Caps,
           NEW validAfter \in ValidAfters, NEW deadline \in Deadlines, NEW now \in 1 .. clock,
           NewRequest(prio, groups, caps, validAfter, deadline, now)
    PROVE  AlarmInv'
<1>0. PICK id \in Nat : id = Len(requests) + 1
  <2>1. requests \in Seq(ReqInfo)
    BY DEF IInv, TypeOK
  <2>. QED  BY <2>1
<1>1. PICK c : /\ ReqIDs' = ReqIDs \cup {id} /\ \A r \in ReqIDs : requests'[r] = requests[r]
               /\ requests'[id].state = WAIT /\ requests'[id].deadline # Zero
               /\ pending' = pending \cup {c}
               /\ c = Caller(requests'[id].validAfter, requests'[id].deadline, id)
  BY <1>0, NewRequestDoes
<1>2. UNCHANGED <<clock, validTimes, deadlineTimes, timeoutTimes, deadlineDue, timeoutDue>>
  BY DEF NewRequest, mvars
<1>3. c \in pending' /\ c.valid = requests'[id].validAfter /\ c.deadline = requests'[id].deadline /\ c.req = id
  BY <1>1 DEF Caller
<1>4. AlarmOK(id)'
  BY <1>1, <1>3 DEF AlarmOK, AlarmsFor
<1>5. ASSUME NEW r \in ReqIDs PROVE AlarmOK(r)'
  <2>1. Kept(r) /\ KeptAlarms(r)
    BY <1>1, <1>2 DEF Kept, KeptAlarms, IInv, TypeOK
  <2>. QED  BY <2>1, AlarmKept
<1>. QED  BY <1>1, <1>2, <1>4, <1>5 DEF AlarmInv

\* UpdateRequest leaves the alarms to be set that it has changed.
LEMMA UpdateRequestAlarms ==
    ASSUME IInv, IInv', AlarmInv, NEW r \in ReqIDs,
           NEW prio \in Priorities \cup {0}, NEW validAfter \in ValidAfters,
           NEW deadline \in Deadlines, UpdateRequest(r, prio, validAfter, deadline)
    PROVE  AlarmInv'
<1>. DEFINE old == requests[r]
            dl == IF deadline = Zero THEN old.deadline ELSE deadline
            c == Caller(validAfter, DeadlineAlarm(old.deadline, dl), r)
<1>1. /\ ReqIDs' = ReqIDs /\ \A x \in ReqIDs : x # r => requests'[x] = requests[x]
      /\ old.state = WAIT /\ requests'[r].state = WAIT
      /\ requests'[r].deadline = dl
      /\ requests'[r].validAfter = IF validAfter = Zero THEN old.validAfter ELSE validAfter
  BY UpdateRequestDoes
<1>2. /\ UNCHANGED <<clock, validTimes, deadlineTimes, timeoutTimes, deadlineDue, timeoutDue>>
      /\ pending' = pending \cup AlarmsLeft(c)
  BY DEF UpdateRequest, mvars
<1>3. AlarmOK(r) /\ clock \in Nat
  BY DEF AlarmInv, IInv, TypeOK
<1>4. c.valid = validAfter /\ c.req = r /\ c.deadline = IF dl = old.deadline THEN Zero ELSE dl
  BY DEF Caller, DeadlineAlarm
<1>5. dl # Zero
  BY <1>1, <1>3 DEF AlarmOK
<1>. HIDE DEF c, dl
<1>6. /\ validAfter # Zero => c \in pending'
      /\ dl # old.deadline => c \in pending'
  BY <1>2, <1>4, <1>5 DEF AlarmsLeft
<1>7. AlarmOK(r)'
  <2>1. \/ <<dl, r>> \in deadlineTimes
        \/ \E d \in pending' : d.deadline = dl /\ d.req = r
        \/ r \in deadlineDue /\ dl <= clock
    <3>1. CASE dl = old.deadline
      BY <1>1, <1>2, <1>3, <3>1 DEF AlarmOK, AlarmsFor
    <3>2. CASE dl # old.deadline
      BY <1>4, <1>6, <3>2
    <3>. QED  BY <3>1, <3>2
  <2>2. clock <= requests'[r].validAfter =>
            \/ requests'[r].validAfter \in validTimes
            \/ \E d \in pending' : d.valid = requests'[r].validAfter
    <3>1. CASE validAfter = Zero
      BY <1>1, <1>2, <1>3, <3>1 DEF AlarmOK, AlarmsFor
    <3>2. CASE validAfter # Zero
      BY <1>1, <1>4, <1>6, <3>2
    <3>. QED  BY <3>1, <3>2
  <2>. QED  BY <1>1, <1>2, <1>5, <2>1, <2>2 DEF AlarmOK, AlarmsFor
<1>8. ASSUME NEW x \in ReqIDs, x # r PROVE AlarmOK(x)'
  <2>1. Kept(x) /\ KeptAlarms(x)
    BY <1>1, <1>2, <1>3, <1>8 DEF Kept, KeptAlarms
  <2>. QED  BY <2>1, AlarmKept
<1>. QED  BY <1>1, <1>2, <1>7, <1>8 DEF AlarmInv

\* CloseRequest.
LEMMA CloseRequestAlarms == ASSUME IInv, IInv', AlarmInv, NEW x \in ReqIDs, CloseRequest(x) PROVE AlarmInv'
<1>1. UNCHANGED <<clock, avars, mvars>>
  BY DEF CloseRequest, CloseWaiting, CloseRunning
<1>2. PICK s \in {CANCEL, DONE} : requests' = [requests EXCEPT ![x].state = s]
  BY DEF CloseRequest, CloseWaiting, CloseRunning, closeRequest
<1>3. ReqIDs' = ReqIDs /\ requests'[x].state = s /\ \A r \in ReqIDs : r # x => requests'[r] = requests[r]
  BY <1>2, StateSet
<1>4. clock <= clock' /\ \A r \in ReqIDs : Kept(r) /\ KeptAlarms(r)
  BY <1>1, <1>3 DEF Kept, KeptAlarms, IInv, TypeOK, avars, mvars
<1>. QED  BY <1>3, <1>4, AlarmsKept

\* ProlongAccess and RunRequest set the alarm for the timeout themselves.
LEMMA JobAlarms ==
    ASSUME IInv, IInv', AlarmInv, NEW r \in ReqIDs, ReqIDs' = ReqIDs,
           \A x \in ReqIDs : x # r => requests'[x] = requests[x],
           requests'[r].state = INPROGRESS, requests'[r].timeout = clock + JobTimeout,
           timeoutTimes' = timeoutTimes \cup {<<clock + JobTimeout, r>>},
           UNCHANGED <<clock, validTimes, deadlineTimes, pending, deadlineDue, timeoutDue>>
    PROVE  AlarmInv'
<1>1. AlarmOK(r)'
  BY DEF AlarmOK, AlarmsFor
<1>2. ASSUME NEW x \in ReqIDs, x # r PROVE AlarmOK(x)'
  <2>1. Kept(x) /\ KeptAlarms(x)
    BY <1>2 DEF Kept, KeptAlarms, IInv, TypeOK
  <2>. QED  BY <2>1, AlarmKept
<1>. QED  BY <1>1, <1>2 DEF AlarmInv

\* A call sets one of the alarms that it has still to set.
LEMMA InsertAlarms == ASSUME IInv, IInv', AlarmInv, InsertAlarm PROVE AlarmInv'
<1>1. PICK c \in pending : InsertValid(c) \/ InsertDeadline(c)
  BY DEF InsertAlarm
<1>2. UNCHANGED <<requests, clock, timeoutTimes, deadlineDue, timeoutDue>> /\ ReqIDs' = ReqIDs
  BY <1>1 DEF InsertValid, InsertDeadline, rvars, mvars, ReqIDs
<1>3. ASSUME NEW r \in ReqIDs PROVE AlarmOK(r)'
  <2>1. AlarmOK(r) /\ clock # Zero /\ clock \in Nat /\ requests[r].validAfter \in Nat
    BY Types DEF AlarmInv
  <2>2. CASE InsertValid(c)
    <3>. DEFINE d == Caller(Zero, c.deadline, c.req)
    <3>1. /\ validTimes' = validTimes \cup {c.valid} /\ pending' = (pending \ {c}) \cup AlarmsLeft(d)
          /\ UNCHANGED deadlineTimes
      BY <2>2 DEF InsertValid
    <3>2. d.deadline = c.deadline /\ d.req = c.req /\ (c.deadline # Zero => d \in pending')
      BY <3>1 DEF Caller, AlarmsLeft
    <3>. HIDE DEF d
    <3>3. ASSUME requests[r].deadline # Zero, NEW e \in pending, e.deadline = requests[r].deadline, e.req = r
          PROVE  \E f \in pending' : f.deadline = requests[r].deadline /\ f.req = r
      BY <3>1, <3>2, <3>3
    <3>4. ASSUME NEW e \in pending, e.valid = requests[r].validAfter
          PROVE  requests[r].validAfter \in validTimes' \/ \E f \in pending' : f.valid = requests[r].validAfter
      BY <3>1, <3>4
    <3>. QED  BY <1>2, <2>1, <3>1, <3>3, <3>4 DEF AlarmOK, AlarmsFor
  <2>3. CASE InsertDeadline(c)
    <3>1. /\ c.valid = Zero /\ deadlineTimes' = deadlineTimes \cup {<<c.deadline, c.req>>}
          /\ pending' = pending \ {c} /\ UNCHANGED validTimes
      BY <2>3 DEF InsertDeadline
    <3>2. ASSUME NEW e \in pending, e.deadline = requests[r].deadline, e.req = r
          PROVE  \/ <<requests[r].deadline, r>> \in deadlineTimes'
                 \/ \E f \in pending' : f.deadline = requests[r].deadline /\ f.req = r
      BY <3>1, <3>2
    <3>3. ASSUME clock <= requests[r].validAfter, NEW e \in pending, e.valid = requests[r].validAfter
          PROVE  \E f \in pending' : f.valid = requests[r].validAfter
      BY <2>1, <3>1, <3>3
    <3>. QED  BY <1>2, <2>1, <3>1, <3>2, <3>3 DEF AlarmOK, AlarmsFor
  <2>. QED  BY <1>1, <2>2, <2>3
<1>. QED  BY <1>2, <1>3 DEF AlarmInv

\* DeadlineMatcher and TimeoutMatcher handle a request of their lists: if it
\* is not over, its alarm has been set anew.
LEMMA DueAlarms ==
    ASSUME IInv, IInv', AlarmInv, NEW x \in ReqIDs, Timeout(x) \/ Close(x)
    PROVE  AlarmInv'
<1>1. UNCHANGED <<clock, avars>> /\ clock \in Nat /\ clock # Zero
  BY DEF Timeout, Close, IInv, TypeOK, AlarmInv
<1>2. CASE Timeout(x)
  <2>1. timeoutDue' = timeoutDue /\ deadlineDue' = deadlineDue \ {x}
    BY <1>2 DEF Timeout
  <2>2. CASE DeadlinePassed(x)
    <3>1. ReqIDs' = ReqIDs /\ requests'[x].state = TIMEOUT /\ \A r \in ReqIDs : r # x => requests'[r] = requests[r]
      BY <1>2, <2>2, StateSet DEF Timeout
    <3>2. ASSUME NEW r \in ReqIDs PROVE AlarmOK(r)'
      <4>1. CASE r = x
        BY <3>1, <4>1 DEF AlarmOK, AlarmsFor
      <4>2. CASE r # x
        <5>1. Kept(r) /\ KeptAlarms(r)
          BY <1>1, <2>1, <3>1, <4>2 DEF Kept, KeptAlarms, avars
        <5>. QED  BY <5>1, AlarmKept
      <4>. QED  BY <4>1, <4>2
    <3>. QED  BY <1>1, <3>1, <3>2 DEF AlarmInv
  <2>3. CASE ~DeadlinePassed(x)
    <3>1. UNCHANGED requests /\ ReqIDs' = ReqIDs
      BY <1>2, <2>3 DEF Timeout, ReqIDs
    <3>2. ASSUME NEW r \in ReqIDs PROVE AlarmOK(r)'
      <4>1. AlarmOK(r)
        BY DEF AlarmInv
      <4>2. requests[r].state = WAIT /\ r \in deadlineDue /\ requests[r].deadline <= clock => r \in deadlineDue'
        BY <2>1, <2>3 DEF DeadlinePassed
      <4>. QED  BY <1>1, <2>1, <3>1, <4>1, <4>2 DEF AlarmOK, AlarmsFor, avars
    <3>. QED  BY <1>1, <3>1, <3>2 DEF AlarmInv
  <2>. QED  BY <2>2, <2>3
<1>3. CASE Close(x)
  <2>1. deadlineDue' = deadlineDue /\ timeoutDue' = timeoutDue \ {x}
    BY <1>3 DEF Close
  <2>2. CASE JobTimedOut(x)
    <3>1. ReqIDs' = ReqIDs /\ requests'[x].state = DONE /\ \A r \in ReqIDs : r # x => requests'[r] = requests[r]
      BY <1>3, <2>2, StateSet DEF Close, closeRequest
    <3>2. ASSUME NEW r \in ReqIDs PROVE AlarmOK(r)'
      <4>1. CASE r = x
        BY <3>1, <4>1 DEF AlarmOK, AlarmsFor
      <4>2. CASE r # x
        <5>1. Kept(r) /\ KeptAlarms(r)
          BY <1>1, <2>1, <3>1, <4>2 DEF Kept, KeptAlarms, avars
        <5>. QED  BY <5>1, AlarmKept
      <4>. QED  BY <4>1, <4>2
    <3>. QED  BY <1>1, <3>1, <3>2 DEF AlarmInv
  <2>3. CASE ~JobTimedOut(x)
    <3>1. UNCHANGED requests /\ ReqIDs' = ReqIDs
      BY <1>3, <2>3 DEF Close, ReqIDs
    <3>2. ASSUME NEW r \in ReqIDs PROVE AlarmOK(r)'
      <4>1. AlarmOK(r)
        BY DEF AlarmInv
      <4>2. requests[r].state = INPROGRESS /\ r \in timeoutDue /\ requests[r].timeout <= clock => r \in timeoutDue'
        BY <2>1, <2>3 DEF JobTimedOut
      <4>. QED  BY <1>1, <2>1, <3>1, <4>1, <4>2 DEF AlarmOK, AlarmsFor, avars
    <3>. QED  BY <1>1, <3>1, <3>2 DEF AlarmInv
  <2>. QED  BY <2>2, <2>3
<1>. QED  BY <1>2, <1>3

\* An alarm that goes off is due; the request is on the list of its matcher.
LEMMA ProcessAlarms ==
    ASSUME IInv, IInv', AlarmInv, NEW t \in Nat, Process(t)
    PROVE  AlarmInv'
<1>1. UNCHANGED <<requests, clock, pending>> /\ ReqIDs' = ReqIDs /\ t <= clock /\ clock \in Nat
  BY DEF Process, ProcessValid, ProcessDeadline, ProcessTimeout, rvars, ReqIDs, IInv, TypeOK
<1>2. ASSUME NEW r \in ReqIDs PROVE AlarmOK(r)'
  <2>1. AlarmOK(r)
    BY DEF AlarmInv
  <2>2. requests[r].deadline \in Nat /\ requests[r].timeout \in Nat /\ requests[r].validAfter \in Nat
    BY Types
  <2>3. CASE ProcessValid(t)
    <3>1. clock <= requests[r].validAfter => ~(requests[r].validAfter < t)
      BY <1>1, <2>2
    <3>2. validTimes' = {e \in validTimes : ~(e < t)}
          /\ UNCHANGED <<deadlineTimes, timeoutTimes, deadlineDue, timeoutDue>>
      BY <2>3 DEF ProcessValid
    <3>. QED  BY <1>1, <2>1, <3>1, <3>2 DEF AlarmOK, AlarmsFor
  <2>4. CASE ProcessDeadline(t)
    <3>1. /\ deadlineTimes' = {e \in deadlineTimes : ~(e[1] < t)}
          /\ deadlineDue' = {e[2] : e \in deadlineTimes \ deadlineTimes'} /\ deadlineDue = {}
          /\ UNCHANGED <<validTimes, timeoutTimes, timeoutDue>>
      BY <2>4 DEF ProcessDeadline
    <3>2. ASSUME <<requests[r].deadline, r>> \in deadlineTimes
          PROVE  \/ <<requests[r].deadline, r>> \in deadlineTimes'
                 \/ r \in deadlineDue' /\ requests[r].deadline <= clock
      <4>1. CASE requests[r].deadline < t
        <5>1. <<requests[r].deadline, r>> \notin deadlineTimes'
          BY <3>1, <4>1
        <5>. QED  BY <1>1, <2>2, <3>1, <3>2, <4>1, <5>1
      <4>2. CASE ~(requests[r].deadline < t)
        BY <3>1, <3>2, <4>2
      <4>. QED  BY <4>1, <4>2
    <3>. QED  BY <1>1, <2>1, <3>1, <3>2 DEF AlarmOK, AlarmsFor
  <2>5. CASE ProcessTimeout(t)
    <3>1. /\ timeoutTimes' = {e \in timeoutTimes : ~(e[1] < t)}
          /\ timeoutDue' = {e[2] : e \in timeoutTimes \ timeoutTimes'} /\ timeoutDue = {}
          /\ UNCHANGED <<validTimes, deadlineTimes, deadlineDue>>
      BY <2>5 DEF ProcessTimeout
    <3>2. ASSUME <<requests[r].timeout, r>> \in timeoutTimes
          PROVE  \/ <<requests[r].timeout, r>> \in timeoutTimes'
                 \/ r \in timeoutDue' /\ requests[r].timeout <= clock
      <4>1. CASE requests[r].timeout < t
        <5>1. <<requests[r].timeout, r>> \notin timeoutTimes'
          BY <3>1, <4>1
        <5>. QED  BY <1>1, <2>2, <3>1, <3>2, <4>1, <5>1
      <4>2. CASE ~(requests[r].timeout < t)
        BY <3>1, <3>2, <4>2
      <4>. QED  BY <4>1, <4>2
    <3>. QED  BY <1>1, <2>1, <3>1, <3>2 DEF AlarmOK, AlarmsFor
  <2>. QED  BY <2>3, <2>4, <2>5 DEF Process
<1>. QED  BY <1>1, <1>2 DEF AlarmInv

\* Every step preserves AlarmInv.
LEMMA StepAlarms == ASSUME IInv, IInv', AlarmInv, [Next]_vars PROVE AlarmInv'
<1>1. ASSUME NEW x \in ReqIDs, ProlongAccess(x) PROVE AlarmInv'
  BY <1>1, ProlongAccessDoes, JobAlarms DEF ProlongAccess, mvars
<1>2. CASE RunRequest
  <2>1. PICK r \in ReqIDs : r = Visited
    BY <1>2, RunRequestDoes
  <2>2. /\ ReqIDs' = ReqIDs
        /\ \A x \in ReqIDs : x # r => requests'[x] = requests[x]
        /\ requests'[r].state = INPROGRESS
        /\ requests'[r].timeout = clock + JobTimeout
    BY <1>2, <2>1, RunRequestDoes
  <2>3. /\ timeoutTimes' = timeoutTimes \cup {<<clock + JobTimeout, r>>}
        /\ UNCHANGED <<clock, validTimes, deadlineTimes, pending, deadlineDue, timeoutDue>>
    BY <1>2, <2>1 DEF RunRequest
  <2>. QED  BY <2>2, <2>3, JobAlarms
<1>3. CASE QuietSteps
  <2>1. ASSUME NEW t \in 1 .. MaxTime, Process(t) PROVE AlarmInv'
    BY <2>1, ProcessAlarms, BoundsAssumption DEF BoundsAssumption
  <2>. QED  BY <1>3, <2>1, InsertAlarms, QuietAlarms DEF QuietSteps
<1>. QED
  BY <1>1, <1>2, <1>3, StepsSplit, QuietAlarms, NewRequestAlarms, CloseRequestAlarms, DueAlarms,
     UpdateRequestAlarms

\* AlarmsSet: an alarm outlives every change of the time it was set for.
\* NewRequest, UpdateRequest, ProlongAccess, Run and the three process loops
\* race for the alarms, and none loses one that a request still needs.
THEOREM AlarmsAreSet == Spec => []AlarmsSet
<1>1. Init => AlarmInv
  BY DEF Init, AlarmInv, ReqIDs
<1>2. IInv /\ IInv' /\ AlarmInv /\ [Next]_vars => AlarmInv'
  BY StepAlarms
<1>3. AlarmInv => AlarmsSet
  BY DEF AlarmInv, AlarmOK, AlarmsFor, AlarmsSet
<1>. QED  BY <1>1, <1>2, <1>3, Invariance, PTL DEF Spec

-----------------------------------------------------------------------------
(***************************************************************************)
(* The walk over the queue: SeenInv, NoMissedMatch and MatchedInOrder.     *)
(***************************************************************************)
\* The calls that end requests take no worker and make none available.
LEMMA EndingDoes ==
    ASSUME IInv, NEW x \in ReqIDs, CloseRequest(x) \/ Timeout(x) \/ Close(x)
    PROVE  /\ UNCHANGED <<clock, avars, matcher, winfo>> /\ RFree
           /\ ReqIDs' = ReqIDs
           /\ \A r \in ReqIDs : requests'[r] = requests[r] \/ requests'[r].state # WAIT
           /\ NoNewCandidates
           /\ \A w \in Workers : wstate'[w] = RUN => wstate[w] = RUN
<1>1. UNCHANGED <<clock, avars, matcher, winfo>> /\ RFree
  BY DEF CloseRequest, CloseWaiting, CloseRunning, Timeout, Close, mvars, wvars
<1>2. \/ UNCHANGED requests
      \/ \E s \in {CANCEL, DONE, TIMEOUT} : requests' = [requests EXCEPT ![x].state = s]
  BY DEF CloseRequest, CloseWaiting, CloseRunning, Timeout, Close, closeRequest
<1>3. ReqIDs' = ReqIDs /\ \A r \in ReqIDs : requests'[r] = requests[r] \/ requests'[r].state # WAIT
  <2>1. CASE UNCHANGED requests
    BY <2>1 DEF ReqIDs
  <2>2. ASSUME NEW s \in {CANCEL, DONE, TIMEOUT}, requests' = [requests EXCEPT ![x].state = s]
        PROVE  ReqIDs' = ReqIDs /\ \A r \in ReqIDs : requests'[r] = requests[r] \/ requests'[r].state # WAIT
    BY <2>2, StateSet
  <2>. QED  BY <1>2, <2>1, <2>2
<1>4. UNCHANGED wstate \/ wstate' = [wstate EXCEPT ![requests[x].worker] = PREPARE]
  BY DEF CloseRequest, CloseWaiting, CloseRunning, Timeout, Close, closeRequest, WL!PrepareWorker,
         WL!setState, wvars
<1>5. NoNewCandidates /\ \A w \in Workers : wstate'[w] = RUN => wstate[w] = RUN
  <2>1. CASE UNCHANGED wstate
    BY <1>1, <2>1 DEF NoNewCandidates
  <2>2. CASE wstate' = [wstate EXCEPT ![requests[x].worker] = PREPARE]
    <3>1. \A w \in Workers : wstate'[w] \in {wstate[w], PREPARE}
      BY <2>2 DEF IInv, TypeOK
    <3>. QED  BY <1>1, <3>1 DEF NoNewCandidates
  <2>. QED  BY <1>4, <2>1, <2>2
<1>. QED  BY <1>1, <1>3, <1>5

\* Where no worker becomes available, a request that is as it was has no
\* candidate that it did not have.
LEMMA CandidatesKept ==
    ASSUME NoNewCandidates, NEW r, requests'[r] = requests[r]
    PROVE  Candidates(r)' \subseteq Candidates(r)
BY DEF NoNewCandidates, Candidates

\* What the walk has seen stays true while nothing but time, the workers and
\* the alarms move.
LEMMA SeenKept ==
    ASSUME IInv, SeenInv, matcher.pc = "walk", UNCHANGED <<requests, queue, matcher>>,
           clock <= clock', clock' \in Nat, NoNewCandidates, validTimes \subseteq validTimes',
           \A c \in pending : c.valid # Zero => c \in pending'
    PROVE  SeenInv'
<1>1. matcher.now <= clock'
  BY DEF SeenInv, IInv, TypeOK
<1>2. ASSUME NEW r \in ReqIDs, requests[r].state = WAIT, requests[r].validAfter > matcher.now
      PROVE  requests[r].validAfter \in validTimes' \/ \E c \in pending' : c.valid = requests[r].validAfter
  <2>1. requests[r].validAfter # Zero
    BY <1>2, Types
  <2>. QED  BY <1>2, <2>1 DEF SeenInv
<1>3. ASSUME NEW x \in Places(queue) \ matcher.todo
      PROVE  ~Ready(At(queue, x), matcher.now) \/ Candidates(At(queue, x))' = {}
  <2>1. PICK r : r = At(queue, x)
    OBVIOUS
  <2>2. Candidates(r)' \subseteq Candidates(r)
    BY CandidatesKept
  <2>3. ~Ready(r, matcher.now) \/ Candidates(r) = {}
    BY <2>1 DEF SeenInv
  <2>. QED  BY <2>1, <2>2, <2>3 DEF Candidates
<1>4. UNCHANGED <<ReqIDs, queue>>
  BY DEF ReqIDs
<1>. QED  BY <1>1, <1>2, <1>3, <1>4 DEF SeenInv, Ready, At, Candidates

\* The calls of the users, and those of DeadlineMatcher and TimeoutMatcher, wait
\* until no walk over the queue is going on.
LEMMA CallsWait ==
    ASSUME IInv,
           \/ \E prio \in Priorities, groups \in SUBSET Groups, caps \in SUBSET Caps,
                 validAfter \in ValidAfters, deadline \in Deadlines, now \in 1 .. clock :
                     NewRequest(prio, groups, caps, validAfter, deadline, now)
           \/ \E r \in ReqIDs :
                 \/ CloseRequest(r) \/ ProlongAccess(r) \/ Timeout(r) \/ Close(r)
                 \/ \E prio \in Priorities \cup {0}, validAfter \in ValidAfters, deadline \in Deadlines :
                       UpdateRequest(r, prio, validAfter, deadline)
    PROVE  RFree /\ UNCHANGED matcher
<1>1. ASSUME NEW r \in ReqIDs, CloseRequest(r) \/ Timeout(r) \/ Close(r)
      PROVE  RFree /\ UNCHANGED matcher
  BY <1>1, EndingDoes
<1>2. ASSUME NEW r \in ReqIDs, ProlongAccess(r) PROVE RFree /\ UNCHANGED matcher
  BY <1>2 DEF ProlongAccess, mvars
<1>3. ASSUME NEW r \in ReqIDs, NEW prio \in Priorities \cup {0}, NEW validAfter \in ValidAfters,
             NEW deadline \in Deadlines, UpdateRequest(r, prio, validAfter, deadline)
      PROVE  RFree /\ UNCHANGED matcher
  BY <1>3 DEF UpdateRequest, mvars
<1>4. ASSUME NEW prio \in Priorities, NEW groups \in SUBSET Groups, NEW caps \in SUBSET Caps,
             NEW validAfter \in ValidAfters, NEW deadline \in Deadlines, NEW now \in 1 .. clock,
             NewRequest(prio, groups, caps, validAfter, deadline, now)
      PROVE  RFree /\ UNCHANGED matcher
  BY <1>4 DEF NewRequest, mvars
<1>. QED  BY <1>1, <1>2, <1>3, <1>4

\* Every step preserves SeenInv.
LEMMA StepSeen == ASSUME IInv, IInv', AlarmInv, SeenInv, [Next]_vars PROVE SeenInv'
<1>0. clock \in Nat /\ clock' \in Nat
  BY DEF IInv, TypeOK
<1>1. CASE matcher'.pc # "walk"
  BY <1>1 DEF SeenInv
<1>2. CASE RFree /\ UNCHANGED matcher
  BY <1>2 DEF SeenInv, RFree
<1>3. CASE matcher'.pc = "walk" /\ ~(RFree /\ UNCHANGED matcher)
  <2>1. CASE UNCHANGED vars
    <3>1. matcher.pc = "walk"
      BY <1>3, <2>1 DEF vars, mvars
    <3>2. UNCHANGED <<requests, queue, matcher>> /\ clock <= clock' /\ NoNewCandidates
          /\ validTimes \subseteq validTimes' /\ pending \subseteq pending'
      BY <1>0, <2>1 DEF vars, mvars, rvars, wvars, avars, NoNewCandidates
    <3>. QED  BY <1>0, <3>1, <3>2, SeenKept
  <2>2. CASE WorkerStep
    <3>1. UNCHANGED <<queue, clock, pending, matcher>> /\ validTimes \subseteq validTimes'
          /\ (~RFree => UNCHANGED requests)
          /\ (NoNewCandidates \/ matcher.pc = "asleep")
      BY <2>2, WorkerStepDoes DEF WorkersMove, mvars
    <3>2. matcher.pc = "walk"
      BY <1>3, <3>1
    <3>3. clock <= clock' /\ UNCHANGED requests /\ NoNewCandidates
      BY <1>0, <3>1, <3>2 DEF RFree
    <3>. QED  BY <1>0, <3>1, <3>2, <3>3, SeenKept
  <2>3. CASE InitIteration
    <3>1. UNCHANGED <<requests, queue, clock, validTimes, pending>> /\ matcher'.now = clock
          /\ matcher'.todo = Places(queue)
      BY <2>3 DEF InitIteration, rvars, avars
    <3>2. ASSUME NEW r \in ReqIDs, requests[r].state = WAIT, requests[r].validAfter > clock
          PROVE  requests[r].validAfter \in validTimes \/ \E c \in pending : c.valid = requests[r].validAfter
      <4>1. clock <= requests[r].validAfter
        BY <1>0, <3>2, Types
      <4>. QED  BY <3>2, <4>1 DEF AlarmInv, AlarmOK, AlarmsFor
    <3>3. Places(queue)' \ matcher'.todo = {} /\ ReqIDs' = ReqIDs
      BY <3>1 DEF Places, ReqIDs
    <3>. QED  BY <1>0, <3>1, <3>2, <3>3 DEF SeenInv
  <2>4. CASE SkipRequest
    <3>1. /\ matcher.pc = "walk" /\ UNCHANGED <<requests, queue, clock, validTimes, pending, wstate, winfo>>
          /\ matcher'.now = matcher.now /\ matcher'.todo = matcher.todo \ {NextPlace(matcher.todo)}
          /\ ~Ready(Visited, matcher.now) \/ Candidates(Visited) = {}
      BY <2>4 DEF SkipRequest, rvars, avars, wvars, IInv, TypeOK
    <3>2. ASSUME NEW x \in Places(queue) \ matcher'.todo
          PROVE  ~Ready(At(queue, x), matcher.now) \/ Candidates(At(queue, x)) = {}
      <4>1. CASE x = NextPlace(matcher.todo)
        BY <3>1, <4>1 DEF Visited
      <4>2. CASE x # NextPlace(matcher.todo)
        BY <3>1, <4>2 DEF SeenInv
      <4>. QED  BY <4>1, <4>2
    <3>3. UNCHANGED <<queue, ReqIDs, Places(queue)>>
      BY <3>1 DEF ReqIDs, Places
    <3>4. ASSUME NEW x \in Places(queue) \ matcher'.todo
          PROVE  ~Ready(At(queue, x), matcher.now)' \/ Candidates(At(queue, x))' = {}
      BY <3>1, <3>2, <3>3 DEF Ready, Candidates, At
    <3>5. matcher.now <= clock /\ \A r \in ReqIDs :
              requests[r].state = WAIT /\ requests[r].validAfter > matcher.now =>
                  \/ requests[r].validAfter \in validTimes
                  \/ \E c \in pending : c.valid = requests[r].validAfter
      BY <3>1 DEF SeenInv
    <3>. QED  BY <3>1, <3>3, <3>4, <3>5 DEF SeenInv
  <2>5. CASE InsertAlarm
    <3>1. PICK c \in pending : InsertValid(c) \/ InsertDeadline(c)
      BY <2>5 DEF InsertAlarm
    <3>2. UNCHANGED matcher
      BY <3>1 DEF InsertValid, InsertDeadline, mvars
    <3>3. InsertDeadline(c)
      BY <1>3, <3>1, <3>2 DEF InsertValid
    <3>4. /\ UNCHANGED <<requests, queue, clock, validTimes>> /\ NoNewCandidates
          /\ c.valid = Zero /\ pending' = pending \ {c}
      BY <3>3 DEF InsertDeadline, rvars, wvars, NoNewCandidates
    <3>. QED  BY <1>0, <1>3, <3>2, <3>4, SeenKept
  <2>6. CASE Tick
    <3>1. UNCHANGED <<requests, queue, matcher, validTimes, pending>> /\ clock' = clock + 1 /\ NoNewCandidates
      BY <2>6 DEF Tick, rvars, wvars, avars, mvars, NoNewCandidates
    <3>. QED  BY <1>0, <1>3, <3>1, SeenKept
  <2>7. ASSUME NEW t \in 1 .. MaxTime, Process(t) PROVE SeenInv'
    <3>1. UNCHANGED <<requests, queue, matcher, clock, validTimes, pending>> /\ NoNewCandidates
      BY <1>3, <2>7 DEF Process, ProcessValid, ProcessDeadline, ProcessTimeout, rvars, wvars, NoNewCandidates,
         IInv, TypeOK
    <3>. QED  BY <1>0, <1>3, <3>1, SeenKept
  <2>8. CASE \/ EndNotify \/ CreateFails \/ RunRequest \/ \E w \in Workers : TakeWorker(w)
    <3>1. matcher'.pc # "walk"
      <4>1. CASE EndNotify \/ RunRequest
        BY <4>1 DEF EndNotify, RunRequest, AsleepMatcher
      <4>2. CASE CreateFails
        BY <4>2 DEF CreateFails, IInv, TypeOK
      <4>3. ASSUME NEW w \in Workers, TakeWorker(w) PROVE matcher'.pc # "walk"
        <5>1. matcher' = [matcher EXCEPT !.pc = "create", !.worker = w]
          BY <4>3 DEF TakeWorker
        <5>. QED  BY <5>1 DEF IInv, TypeOK
      <4>. QED  BY <2>8, <4>1, <4>2, <4>3
    <3>. QED  BY <1>3, <3>1
  <2>9. CASE \/ \E prio \in Priorities, groups \in SUBSET Groups, caps \in SUBSET Caps,
                   validAfter \in ValidAfters, deadline \in Deadlines, now \in 1 .. clock :
                       NewRequest(prio, groups, caps, validAfter, deadline, now)
             \/ \E r \in ReqIDs :
                   \/ CloseRequest(r) \/ ProlongAccess(r) \/ Timeout(r) \/ Close(r)
                   \/ \E prio \in Priorities \cup {0}, validAfter \in ValidAfters, deadline \in Deadlines :
                         UpdateRequest(r, prio, validAfter, deadline)
    BY <1>3, <2>9, CallsWait
  <2>. QED
    BY <2>1, <2>2, <2>3, <2>4, <2>5, <2>6, <2>7, <2>8, <2>9, StepsSplit DEF QuietSteps
<1>. QED  BY <1>1, <1>2, <1>3

\* The three invariants hold together.
LEMMA ServerInvariance == Spec => []SInv
<1>1. Init => AlarmInv /\ SeenInv
  BY DEF Init, AlarmInv, SeenInv, AsleepMatcher, ReqIDs
<1>2. IInv /\ IInv' /\ AlarmInv /\ SeenInv /\ [Next]_vars => AlarmInv' /\ SeenInv'
  BY StepAlarms, StepSeen
<1>3. SInv <=> IInv /\ AlarmInv /\ SeenInv
  BY DEF SInv
<1>. QED  BY <1>1, <1>2, <1>3, Invariance, PTL DEF Spec

\* What NoMissedMatch says of one request.
NotMissed(r) ==
    ~MatcherActive' /\ Runnable(r)' =>
        /\ ~MatcherActive
        /\ r \in ReqIDs
        /\ Runnable(r) \/ requests[r].deadline <= clock

\* ValidMatcher stays active while alarms are only added.
LEMMA ActiveKept ==
    ASSUME IInv, UNCHANGED matcher, validTimes \subseteq validTimes', pending \subseteq pending',
           clock <= clock', clock' \in Nat, MatcherActive
    PROVE  MatcherActive'
<1>1. CASE matcher.pc # "asleep"
  BY <1>1 DEF MatcherActive
<1>2. ASSUME NEW e \in validTimes, e <= clock PROVE MatcherActive'
  <2>1. e \in Nat /\ clock \in Nat
    BY DEF IInv, TypeOK
  <2>. QED  BY <1>2, <2>1 DEF MatcherActive
<1>3. ASSUME NEW c \in pending, c.valid # Zero, c.valid <= clock PROVE MatcherActive'
  <2>1. c.valid \in Nat /\ clock \in Nat
    BY DEF IInv, TypeOK
  <2>. QED  BY <1>3, <2>1 DEF MatcherActive
<1>. QED  BY <1>1, <1>2, <1>3 DEF MatcherActive

\* A request that some worker can run, and that was as it is, could be run
\* before if no worker has become available.
LEMMA RunnableBefore ==
    ASSUME NoNewCandidates, UNCHANGED clock, NEW r \in ReqIDs, requests'[r] = requests[r], Runnable(r)'
    PROVE  Runnable(r)
<1>1. Candidates(r)' \subseteq Candidates(r)
  BY CandidatesKept
<1>. QED  BY <1>1 DEF Runnable, Ready

\* A waiting request is somewhere in the queue.
LEMMA InQueue ==
    ASSUME IInv, NEW r \in ReqIDs, requests[r].state = WAIT
    PROVE  \E x \in Places(queue) : At(queue, x) = r
<1>1. requests[r].prio \in Priorities
  BY RequestType DEF IInv, ReqInfo
<1>2. PICK i \in 1 .. Len(queue[requests[r].prio]) : queue[requests[r].prio][i] = r
  BY DEF IInv, QueueOK, AllWaiting, ReqIDs
<1>. DEFINE x == <<requests[r].prio, i>>
<1>3. x \in Places(queue) /\ At(queue, x) = r
  BY <1>1, <1>2 DEF Places, At
<1>. QED  BY <1>3

\* The walk is over, and nothing is left that it should have matched.
LEMMA EndNotifyMisses == ASSUME IInv, SeenInv, EndNotify, NEW r PROVE NotMissed(r)
<1>. SUFFICES ASSUME ~MatcherActive', Runnable(r)' PROVE FALSE
  BY DEF NotMissed
<1>1. /\ matcher.pc = "walk" /\ matcher.todo = {}
      /\ UNCHANGED <<requests, queue, clock, validTimes, pending, wstate, winfo>>
  BY DEF EndNotify, rvars, avars, wvars
<1>2. Ready(r, clock) /\ Candidates(r) # {}
  BY <1>1 DEF Runnable, Ready, Candidates, ReqIDs
<1>3. /\ r \in ReqIDs /\ requests[r].state = WAIT
      /\ requests[r].deadline > clock /\ requests[r].validAfter <= clock
  BY <1>2 DEF Ready
<1>4. PICK x \in Places(queue) : At(queue, x) = r
  BY <1>3, InQueue
<1>5. ~Ready(r, matcher.now) /\ matcher.now <= clock
  BY <1>1, <1>2, <1>4 DEF SeenInv
<1>6. requests[r].validAfter > matcher.now /\ requests[r].validAfter # Zero
  BY <1>3, <1>5, Types DEF Ready
<1>7. requests[r].validAfter \in validTimes \/ \E c \in pending : c.valid = requests[r].validAfter
  BY <1>1, <1>3, <1>6 DEF SeenInv
<1>. QED  BY <1>1, <1>3, <1>6, <1>7 DEF MatcherActive

\* Time makes a request ready, and its alarm is due at that moment.
LEMMA TickMisses == ASSUME IInv, AlarmInv, Tick, NEW r PROVE NotMissed(r)
<1>. SUFFICES ASSUME ~MatcherActive', Runnable(r)' PROVE ~MatcherActive /\ r \in ReqIDs /\ Runnable(r)
  BY DEF NotMissed
<1>1. /\ UNCHANGED <<requests, validTimes, pending, wstate, winfo, matcher>>
      /\ clock \in Nat /\ clock' = clock + 1
  BY DEF Tick, rvars, avars, wvars, mvars, IInv, TypeOK
<1>2. /\ r \in ReqIDs /\ requests[r].state = WAIT /\ Candidates(r) # {}
      /\ requests[r].deadline > clock + 1 /\ requests[r].validAfter <= clock + 1
  BY <1>1 DEF Runnable, Ready, Candidates, ReqIDs
<1>3. ~MatcherActive
  BY <1>1, ActiveKept
<1>4. requests[r].validAfter \in Nat /\ requests[r].deadline \in Nat
  BY <1>2, Types
<1>5. CASE requests[r].validAfter <= clock
  BY <1>1, <1>2, <1>3, <1>4, <1>5 DEF Runnable, Ready
<1>6. CASE ~(requests[r].validAfter <= clock)
  <2>1. requests[r].validAfter = clock + 1 /\ clock <= requests[r].validAfter /\ requests[r].validAfter # Zero
    BY <1>1, <1>2, <1>4, <1>6
  <2>2. requests[r].validAfter \in validTimes \/ \E c \in pending : c.valid = requests[r].validAfter
    BY <1>2, <2>1 DEF AlarmInv, AlarmOK, AlarmsFor
  <2>. QED  BY <1>1, <2>1, <2>2 DEF MatcherActive
<1>. QED  BY <1>5, <1>6

\* UpdateRequest leaves an alarm to be set for a ValidAfter that has come.
LEMMA UpdateMisses ==
    ASSUME IInv, NEW x \in ReqIDs,
           NEW prio \in Priorities \cup {0}, NEW validAfter \in ValidAfters,
           NEW deadline \in Deadlines, UpdateRequest(x, prio, validAfter, deadline), NEW r
    PROVE  NotMissed(r)
<1>. SUFFICES ASSUME ~MatcherActive', Runnable(r)'
              PROVE  ~MatcherActive /\ r \in ReqIDs /\ (Runnable(r) \/ requests[r].deadline <= clock)
  BY DEF NotMissed
<1>. DEFINE old == requests[x]
            dl == IF deadline = Zero THEN old.deadline ELSE deadline
            c == Caller(validAfter, DeadlineAlarm(old.deadline, dl), x)
<1>1. /\ ReqIDs' = ReqIDs /\ \A y \in ReqIDs : y # x => requests'[y] = requests[y]
      /\ old.state = WAIT /\ requests'[x].state = WAIT
      /\ requests'[x].validAfter = IF validAfter = Zero THEN old.validAfter ELSE validAfter
      /\ requests'[x].groups = old.groups /\ requests'[x].caps = old.caps
  BY UpdateRequestDoes
<1>2. /\ UNCHANGED <<clock, matcher, validTimes, wstate, winfo>> /\ clock \in Nat
      /\ pending' = pending \cup AlarmsLeft(c)
  BY DEF UpdateRequest, mvars, wvars, IInv, TypeOK
<1>3. c.valid = validAfter
  BY DEF Caller
<1>. HIDE DEF c
<1>4. validAfter # Zero => c \in pending'
  BY <1>2, <1>3 DEF AlarmsLeft
<1>5. ~MatcherActive
  <2>1. pending \subseteq pending' /\ clock <= clock' /\ clock' \in Nat
    BY <1>2
  <2>. QED  BY <1>2, <2>1, ActiveKept
<1>6. /\ r \in ReqIDs /\ requests'[r].state = WAIT /\ Candidates(r)' # {}
      /\ requests'[r].deadline > clock /\ requests'[r].validAfter <= clock
  BY <1>1, <1>2 DEF Runnable, Ready
<1>7. CASE r # x
  <2>1. requests'[r] = requests[r] /\ NoNewCandidates
    BY <1>1, <1>2, <1>6, <1>7 DEF NoNewCandidates
  <2>. QED  BY <1>2, <1>5, <1>6, <2>1, RunnableBefore
<1>8. CASE r = x
  <2>1. validAfter = Zero
    BY <1>1, <1>2, <1>3, <1>4, <1>6, <1>8 DEF MatcherActive
  <2>2. requests[r].validAfter <= clock
    BY <1>1, <1>6, <1>8, <2>1
  <2>3. Candidates(r) # {}
    BY <1>1, <1>2, <1>6, <1>8 DEF Candidates
  <2>4. requests[r].deadline \in Nat
    BY <1>6, Types
  <2>. QED  BY <1>1, <1>2, <1>5, <1>6, <1>8, <2>2, <2>3, <2>4 DEF Runnable, Ready
<1>. QED  BY <1>7, <1>8

\* So does NewRequest.
LEMMA NewMisses ==
    ASSUME IInv, IInv',
           NEW prio \in Priorities, NEW groups \in SUBSET Groups, NEW caps \in SUBSET Caps,
           NEW validAfter \in ValidAfters, NEW deadline \in Deadlines, NEW now \in 1 .. clock,
           NewRequest(prio, groups, caps, validAfter, deadline, now), NEW r
    PROVE  NotMissed(r)
<1>. SUFFICES ASSUME ~MatcherActive', Runnable(r)' PROVE ~MatcherActive /\ r \in ReqIDs /\ Runnable(r)
  BY DEF NotMissed
<1>0. PICK id : id = Len(requests) + 1
  OBVIOUS
<1>1. PICK c : /\ ReqIDs' = ReqIDs \cup {id} /\ \A x \in ReqIDs : requests'[x] = requests[x]
               /\ pending' = pending \cup {c}
               /\ c = Caller(requests'[id].validAfter, requests'[id].deadline, id)
               /\ requests'[id].validAfter # Zero
  BY <1>0, NewRequestDoes
<1>2. UNCHANGED <<clock, matcher, validTimes, wstate, winfo>> /\ clock \in Nat
  BY DEF NewRequest, mvars, wvars, IInv, TypeOK
<1>3. ~MatcherActive
  <2>1. pending \subseteq pending' /\ clock <= clock' /\ clock' \in Nat
    BY <1>1, <1>2
  <2>. QED  BY <1>2, <2>1, ActiveKept
<1>4. r \in ReqIDs' /\ requests'[r].validAfter <= clock
  BY <1>2 DEF Runnable, Ready
<1>5. r # id
  <2>1. c.valid = requests'[id].validAfter
    BY <1>1 DEF Caller
  <2>. QED  BY <1>1, <1>2, <1>4, <2>1 DEF MatcherActive
<1>6. r \in ReqIDs /\ requests'[r] = requests[r] /\ NoNewCandidates
  BY <1>1, <1>2, <1>4, <1>5 DEF NoNewCandidates
<1>. QED  BY <1>2, <1>3, <1>6, RunnableBefore

\* No step leaves a match behind.
LEMMA StepMisses == ASSUME SInv, SInv', [Next]_vars, NEW r PROVE NotMissed(r)
<1>0. IInv /\ IInv' /\ AlarmInv /\ SeenInv /\ clock \in Nat
  BY DEF SInv, IInv, TypeOK
<1>1. ASSUME UNCHANGED <<clock, matcher>>, validTimes \subseteq validTimes', pending \subseteq pending',
             NoNewCandidates, \A x \in ReqIDs : requests'[x] = requests[x] \/ requests'[x].state # WAIT,
             ReqIDs' = ReqIDs
      PROVE  NotMissed(r)
  <2>. SUFFICES ASSUME ~MatcherActive', Runnable(r)' PROVE ~MatcherActive /\ r \in ReqIDs /\ Runnable(r)
    BY DEF NotMissed
  <2>1. ~MatcherActive
    <3>1. clock <= clock' /\ clock' \in Nat
      BY <1>0, <1>1
    <3>. QED  BY <1>0, <1>1, <3>1, ActiveKept
  <2>2. r \in ReqIDs /\ requests'[r].state = WAIT
    BY <1>1 DEF Runnable, Ready
  <2>. QED  BY <1>1, <2>1, <2>2, RunnableBefore
<1>2. ASSUME UNCHANGED <<clock, matcher, validTimes, pending, requests, wstate, winfo>> PROVE NotMissed(r)
  BY <1>1, <1>2 DEF NoNewCandidates, ReqIDs
<1>3. CASE matcher'.pc # "asleep"
  BY <1>3 DEF NotMissed, MatcherActive
<1>4. CASE UNCHANGED vars
  BY <1>2, <1>4 DEF vars, wvars, avars, mvars, rvars
<1>5. CASE WorkerStep
  <2>1. CASE NoNewCandidates
    BY <1>0, <1>1, <1>5, <2>1, WorkerStepDoes DEF WorkersMove, mvars, Kept
  <2>2. CASE clock \in validTimes' /\ clock' = clock
    BY <1>0, <2>2 DEF NotMissed, MatcherActive
  <2>. QED  BY <1>0, <1>5, <2>1, <2>2, WorkerStepDoes DEF WorkersMove
<1>6. ASSUME NEW x \in ReqIDs, CloseRequest(x) \/ Timeout(x) \/ Close(x) PROVE NotMissed(r)
  BY <1>0, <1>1, <1>6, EndingDoes DEF avars
<1>7. ASSUME NEW x \in ReqIDs, ProlongAccess(x) PROVE NotMissed(r)
  <2>1. UNCHANGED <<clock, matcher, validTimes, pending>> /\ NoNewCandidates
    BY <1>7 DEF ProlongAccess, mvars, wvars, NoNewCandidates
  <2>2. ReqIDs' = ReqIDs /\ \A y \in ReqIDs : requests'[y] = requests[y] \/ requests'[y].state # WAIT
    BY <1>0, <1>7, ProlongAccessDoes
  <2>. QED  BY <1>1, <2>1, <2>2
<1>8. CASE InsertAlarm
  <2>. SUFFICES ASSUME ~MatcherActive', Runnable(r)' PROVE ~MatcherActive /\ r \in ReqIDs /\ Runnable(r)
    BY DEF NotMissed
  <2>1. UNCHANGED <<clock, matcher, requests, wstate, winfo>>
    BY <1>8 DEF InsertAlarm, InsertValid, InsertDeadline, rvars, wvars, mvars
  <2>2. PICK c \in pending : InsertValid(c) \/ InsertDeadline(c)
    BY <1>8 DEF InsertAlarm
  <2>3. /\ validTimes \subseteq validTimes' /\ pending \ {c} \subseteq pending'
        /\ c.valid # Zero => c.valid \in validTimes'
    BY <2>2 DEF InsertValid, InsertDeadline
  <2>4. ~MatcherActive
    BY <1>0, <2>1, <2>3 DEF MatcherActive
  <2>5. NoNewCandidates /\ r \in ReqIDs
    BY <2>1 DEF NoNewCandidates, Runnable, Ready, ReqIDs
  <2>. QED  BY <2>1, <2>4, <2>5, RunnableBefore
<1>9. CASE InitIteration \/ SkipRequest \/ CreateFails \/ RunRequest
  <2>1. matcher'.pc # "asleep"
    <3>1. CASE InitIteration \/ RunRequest
      BY <3>1 DEF InitIteration, RunRequest, AsleepMatcher
    <3>2. CASE SkipRequest \/ CreateFails
      BY <1>0, <3>2 DEF SkipRequest, CreateFails, IInv, TypeOK
    <3>. QED  BY <1>9, <3>1, <3>2
  <2>. QED  BY <1>3, <2>1
<1>10. ASSUME NEW w \in Workers, TakeWorker(w) PROVE NotMissed(r)
  <2>1. matcher' = [matcher EXCEPT !.pc = "create", !.worker = w]
    BY <1>10 DEF TakeWorker
  <2>2. matcher'.pc # "asleep"
    BY <1>0, <2>1 DEF IInv, TypeOK
  <2>. QED  BY <1>3, <2>2
<1>11. ASSUME NEW t \in 1 .. MaxTime, Process(t) PROVE NotMissed(r)
  <2>1. CASE ProcessValid(t)
    <3>1. matcher'.pc # "asleep"
      BY <1>0, <2>1 DEF ProcessValid, IInv, TypeOK
    <3>. QED  BY <1>3, <3>1
  <2>2. CASE ProcessDeadline(t) \/ ProcessTimeout(t)
    BY <1>2, <2>2 DEF ProcessDeadline, ProcessTimeout, wvars, rvars
  <2>. QED  BY <1>11, <2>1, <2>2 DEF Process
<1>12. CASE QuietSteps
  BY <1>0, <1>8, <1>9, <1>10, <1>11, <1>12, EndNotifyMisses, TickMisses DEF QuietSteps
<1>. QED
  BY <1>0, <1>4, <1>5, <1>6, <1>7, <1>9, <1>12, StepsSplit, NewMisses, UpdateMisses

\* NoMissedMatch: ValidMatcher goes back to sleep only when there is nothing
\* left that it could match, and whatever makes a request runnable after that,
\* a worker, a call or the clock, sets an alarm that wakes it.
THEOREM NoMatchMissed == Spec => NoMissedMatch
<1>1. SInv /\ SInv' /\ [Next]_vars =>
        [\A r \in 1 .. MaxRequests :
            ~MatcherActive' /\ Runnable(r)' =>
                /\ ~MatcherActive
                /\ r \in ReqIDs
                /\ Runnable(r) \/ requests[r].deadline <= clock]_vars
  BY StepMisses DEF NotMissed
<1>. QED  BY <1>1, ServerInvariance, PTL DEF Spec, NoMissedMatch

\* NextPlace finds the least place, if there is any.
LEMMA NextIsLeast ==
    ASSUME NEW todo, todo \subseteq Nat \X Nat, todo # {}
    PROVE  NextPlace(todo) \in todo /\ \A y \in todo : NextPlace(todo) = y \/ Before(NextPlace(todo), y)
<1>. DEFINE R == {ss \in Nat \X Nat : ss[1] < ss[2]}
<1>1. IsWellFoundedOn(R, Nat)
  BY NatLessThanWellFounded DEF OpToRel
<1>2. ASSUME NEW T, T \subseteq Nat, T # {} PROVE \E m \in T : \A n \in T : m <= n
  <2>1. PICK m \in T : \A n \in T : ~ (<<n, m>> \in R)
    <3>. HIDE DEF R
    <3>. QED  BY <1>1, <1>2, WFMin
  <2>2. ASSUME NEW n \in T PROVE m <= n
    <3>1. m \in Nat /\ n \in Nat /\ ~ (<<n, m>> \in R)
      BY <1>2, <2>1
    <3>2. n < m => <<n, m>> \in R
      BY <3>1
    <3>. QED  BY <3>1, <3>2
  <2>. QED  BY <2>2
<1>. HIDE DEF R
<1>. DEFINE P == {y[1] : y \in todo}
<1>3. P \subseteq Nat /\ P # {}
  OBVIOUS
<1>4. PICK p \in P : \A q \in P : p <= q
  <2>. HIDE DEF P
  <2>. QED  BY <1>2, <1>3
<1>. DEFINE Q == {y[2] : y \in {z \in todo : z[1] = p}}
<1>5. Q \subseteq Nat /\ Q # {}
  BY <1>4
<1>6. PICK i \in Q : \A j \in Q : i <= j
  <2>. HIDE DEF Q
  <2>. QED  BY <1>2, <1>5
<1>7. <<p, i>> \in todo
  <2>1. PICK z \in todo : z[1] = p /\ z[2] = i
    BY <1>6
  <2>2. z = <<p, i>>
    BY <2>1
  <2>. QED  BY <2>1, <2>2
<1>8. ASSUME NEW y \in todo PROVE <<p, i>> = y \/ Before(<<p, i>>, y)
  <2>1. /\ y[1] \in Nat /\ y[2] \in Nat /\ y = <<y[1], y[2]>> /\ p <= y[1]
        /\ y[1] = p => i <= y[2]
        /\ p \in Nat /\ i \in Nat
    BY <1>3, <1>4, <1>5, <1>6
  <2>. HIDE DEF P, Q
  <2>2. CASE p = y[1] /\ i = y[2]
    BY <2>1, <2>2
  <2>3. CASE ~(p = y[1] /\ i = y[2])
    <3>1. p < y[1] \/ (p = y[1] /\ i < y[2])
      BY <2>1, <2>3
    <3>. QED  BY <3>1 DEF Before
  <2>. QED  BY <2>2, <2>3
<1>. HIDE DEF P, Q
<1>9. \E x \in todo : \A y \in todo : x = y \/ Before(x, y)
  BY <1>7, <1>8
<1>. QED  BY <1>9 DEF NextPlace

\* What MatchedInOrder says of one worker.
InOrder(w) ==
    wstate[w] = IDLE /\ wstate'[w] = RUN =>
        \A x \in Places(queue) : Before(x, NextPlace(matcher.todo)) =>
            ~(Ready(At(queue, x), matcher.now) /\ w \in Candidates(At(queue, x)))

\* Only TakeWorker takes a worker, for the least place that is left to visit;
\* so the places before it have been visited.
LEMMA StepInOrder == ASSUME IInv, IInv', SeenInv, [Next]_vars, NEW w \in Workers PROVE InOrder(w)
<1>1. CASE UNCHANGED wstate
  BY <1>1 DEF InOrder
<1>2. CASE wstate'[w] = RUN => wstate[w] = RUN
  BY <1>2 DEF InOrder
<1>3. ASSUME NEW v \in Workers, TakeWorker(v) PROVE InOrder(w)
  <2>1. matcher.pc = "walk" /\ matcher.todo # {} /\ matcher.todo \subseteq Nat \X Nat
    BY <1>3 DEF TakeWorker, IInv, TypeOK
  <2>2. ASSUME NEW x \in Places(queue), Before(x, NextPlace(matcher.todo)), x \in matcher.todo PROVE FALSE
    <3>1. NextPlace(matcher.todo) \in matcher.todo
          /\ (NextPlace(matcher.todo) = x \/ Before(NextPlace(matcher.todo), x))
      BY <2>1, <2>2, NextIsLeast
    <3>2. PICK y \in Nat \X Nat : y = NextPlace(matcher.todo)
      BY <2>1, <3>1
    <3>3. x[1] \in Nat /\ x[2] \in Nat /\ y[1] \in Nat /\ y[2] \in Nat
      BY <2>1, <2>2
    <3>. QED  BY <2>2, <3>1, <3>2, <3>3 DEF Before
  <2>3. ASSUME NEW x \in Places(queue), Before(x, NextPlace(matcher.todo))
        PROVE  ~Ready(At(queue, x), matcher.now) \/ Candidates(At(queue, x)) = {}
    BY <2>1, <2>2, <2>3 DEF SeenInv
  <2>. QED  BY <2>3 DEF InOrder
<1>4. CASE WorkerStep
  BY <1>2, <1>4, WorkerStepDoes DEF WorkersMove
<1>5. ASSUME NEW x \in ReqIDs, CloseRequest(x) \/ Timeout(x) \/ Close(x) PROVE InOrder(w)
  BY <1>2, <1>5, EndingDoes
<1>6. CASE \/ UNCHANGED vars \/ InsertAlarm \/ InitIteration \/ SkipRequest \/ EndNotify \/ CreateFails
           \/ RunRequest \/ Tick
  BY <1>1, <1>6 DEF vars, InsertAlarm, InsertValid, InsertDeadline, InitIteration, SkipRequest, EndNotify,
     CreateFails, RunRequest, Tick, wvars
<1>7. ASSUME NEW t \in 1 .. MaxTime, Process(t) PROVE InOrder(w)
  BY <1>1, <1>7 DEF Process, ProcessValid, ProcessDeadline, ProcessTimeout, wvars
<1>8. ASSUME NEW x \in ReqIDs, ProlongAccess(x) PROVE InOrder(w)
  BY <1>1, <1>8 DEF ProlongAccess, wvars
<1>9. ASSUME NEW x \in ReqIDs, NEW prio \in Priorities \cup {0}, NEW validAfter \in ValidAfters,
             NEW deadline \in Deadlines, UpdateRequest(x, prio, validAfter, deadline)
      PROVE  InOrder(w)
  BY <1>1, <1>9 DEF UpdateRequest, wvars
<1>10. ASSUME NEW prio \in Priorities, NEW groups \in SUBSET Groups, NEW caps \in SUBSET Caps,
              NEW validAfter \in ValidAfters, NEW deadline \in Deadlines, NEW now \in 1 .. clock,
              NewRequest(prio, groups, caps, validAfter, deadline, now)
       PROVE  InOrder(w)
  BY <1>1, <1>10 DEF NewRequest, wvars
<1>. QED
  BY <1>3, <1>4, <1>5, <1>6, <1>7, <1>8, <1>9, <1>10, StepsSplit DEF QuietSteps

\* MatchedInOrder: a request of lower priority, or further back, does not get
\* a worker that one ahead of it could have had when the walk came by; workers
\* change their states and groups during the walk, and none becomes available.
THEOREM ServedInOrder == Spec => MatchedInOrder
<1>1. SInv /\ SInv' /\ [Next]_vars =>
        [\A w \in Workers : wstate[w] = IDLE /\ wstate'[w] = RUN =>
            \A x \in Places(queue) : Before(x, NextPlace(matcher.todo)) =>
                ~(Ready(At(queue, x), matcher.now) /\ w \in Candidates(At(queue, x)))]_vars
  BY StepInOrder DEF InOrder, SInv
<1>. QED  BY <1>1, ServerInvariance, PTL DEF Spec, MatchedInOrder

-----------------------------------------------------------------------------
(***************************************************************************)
(* StartsInTime.                                                           *)
(***************************************************************************)
\* The request that a worker has been taken for was ready when the walk began,
\* and stays so while the job is created.
StartInv == matcher.pc = "create" => matcher.now <= clock /\ Ready(Visited, matcher.now)

\* Only TakeWorker leads there; with the mutex of the requests held until the
\* job is created or not, no other call changes the request.
LEMMA StepStart == ASSUME IInv, IInv', SeenInv, StartInv, [Next]_vars PROVE StartInv'
<1>0. clock \in Nat /\ clock' \in Nat
  BY DEF IInv, TypeOK
<1>1. CASE matcher'.pc # "create"
  BY <1>1 DEF StartInv
<1>2. CASE RFree /\ UNCHANGED matcher
  BY <1>2 DEF StartInv, RFree
<1>3. CASE UNCHANGED <<matcher, requests, queue>> /\ clock <= clock'
  <2>1. UNCHANGED <<Visited, ReqIDs>> /\ matcher.now \in Nat
    BY <1>3 DEF Visited, At, ReqIDs, IInv, TypeOK
  <2>. QED  BY <1>0, <1>3, <2>1 DEF StartInv, Ready
<1>4. ASSUME NEW w \in Workers, TakeWorker(w) PROVE StartInv'
  <2>1. /\ matcher.pc = "walk" /\ Ready(Visited, matcher.now)
        /\ matcher' = [matcher EXCEPT !.pc = "create", !.worker = w]
        /\ UNCHANGED <<requests, queue, clock>>
    BY <1>4 DEF TakeWorker, rvars
  <2>2. matcher'.now = matcher.now /\ matcher'.todo = matcher.todo /\ matcher.now <= clock
    BY <2>1 DEF SeenInv, IInv, TypeOK
  <2>3. UNCHANGED <<Visited, ReqIDs>>
    BY <2>1, <2>2 DEF Visited, At, ReqIDs
  <2>. QED  BY <2>1, <2>2, <2>3 DEF StartInv, Ready
<1>5. CASE UNCHANGED vars
  BY <1>0, <1>3, <1>5 DEF vars, mvars, rvars
<1>6. CASE WorkerStep
  <2>1. UNCHANGED <<queue, clock, matcher>> /\ (~RFree => UNCHANGED requests)
    BY <1>6, WorkerStepDoes DEF WorkersMove, mvars
  <2>. QED  BY <1>0, <1>2, <1>3, <2>1
<1>7. CASE InitIteration \/ EndNotify \/ RunRequest
  BY <1>1, <1>7 DEF InitIteration, EndNotify, RunRequest, AsleepMatcher
<1>8. CASE SkipRequest \/ CreateFails
  <2>1. matcher'.pc # "create"
    BY <1>8 DEF SkipRequest, CreateFails, IInv, TypeOK
  <2>. QED  BY <1>1, <2>1
<1>9. CASE Tick \/ InsertAlarm
  <2>1. \/ UNCHANGED <<matcher, requests, queue>> /\ clock <= clock'
    BY <1>0, <1>9 DEF Tick, InsertAlarm, InsertValid, InsertDeadline, mvars, rvars
  <2>. QED  BY <1>3, <2>1
<1>10. ASSUME NEW t \in 1 .. MaxTime, Process(t) PROVE StartInv'
  <2>1. CASE ProcessValid(t)
    <3>1. matcher'.pc # "create"
      BY <2>1 DEF ProcessValid, IInv, TypeOK
    <3>. QED  BY <1>1, <3>1
  <2>2. CASE ProcessDeadline(t) \/ ProcessTimeout(t)
    <3>1. UNCHANGED <<matcher, requests, queue, clock>>
      BY <2>2 DEF ProcessDeadline, ProcessTimeout, rvars
    <3>. QED  BY <1>0, <1>3, <3>1
  <2>. QED  BY <1>10, <2>1, <2>2 DEF Process
<1>. QED
  BY <1>2, <1>4, <1>5, <1>6, <1>7, <1>8, <1>9, <1>10, StepsSplit, CallsWait DEF QuietSteps

\* What StartsInTime says of one request.
InTime(r) ==
    requests[r].state = WAIT /\ requests'[r].state = INPROGRESS =>
        /\ requests[r].validAfter <= matcher.now
        /\ matcher.now < requests[r].deadline
        /\ matcher.now <= clock

\* Only Run starts a request, the one that the walk has found ready.
LEMMA StepInTime == ASSUME IInv, IInv', StartInv, [Next]_vars, NEW r \in ReqIDs PROVE InTime(r)
<1>1. CASE requests'[r] = requests[r] \/ requests'[r].state # INPROGRESS
  BY <1>1 DEF InTime
<1>2. CASE requests[r].state # WAIT
  BY <1>2 DEF InTime
<1>3. CASE UNCHANGED vars \/ QuietSteps
  <2>1. UNCHANGED requests
    BY <1>3, QuietRequests DEF vars, rvars
  <2>. QED  BY <1>1, <2>1
<1>4. CASE WorkerStep
  BY <1>2, <1>1, <1>4, WorkerStepDoes DEF WorkersMove, Kept
<1>5. ASSUME NEW prio \in Priorities, NEW groups \in SUBSET Groups, NEW caps \in SUBSET Caps,
             NEW validAfter \in ValidAfters, NEW deadline \in Deadlines, NEW now \in 1 .. clock,
             NewRequest(prio, groups, caps, validAfter, deadline, now)
      PROVE  InTime(r)
  BY <1>1, <1>5, NewRequestDoes
<1>6. ASSUME NEW x \in ReqIDs, CloseRequest(x) \/ Timeout(x) \/ Close(x) PROVE InTime(r)
  <2>1. \/ UNCHANGED requests
        \/ \E s \in {CANCEL, DONE, TIMEOUT} : requests' = [requests EXCEPT ![x].state = s]
    BY <1>6 DEF CloseRequest, CloseWaiting, CloseRunning, Timeout, Close, closeRequest
  <2>2. ASSUME NEW s \in {CANCEL, DONE, TIMEOUT}, requests' = [requests EXCEPT ![x].state = s]
        PROVE  InTime(r)
    BY <1>1, <2>2, StateSet
  <2>. QED  BY <1>1, <2>1, <2>2
<1>7. ASSUME NEW x \in ReqIDs, ProlongAccess(x) PROVE InTime(r)
  BY <1>1, <1>2, <1>7, ProlongAccessDoes DEF ProlongAccess
<1>8. ASSUME NEW x \in ReqIDs, NEW prio \in Priorities \cup {0}, NEW validAfter \in ValidAfters,
             NEW deadline \in Deadlines, UpdateRequest(x, prio, validAfter, deadline)
      PROVE  InTime(r)
  BY <1>1, <1>8, UpdateRequestDoes
<1>9. CASE RunRequest
  <2>1. Visited \in ReqIDs /\ (r # Visited => requests'[r] = requests[r])
    BY <1>9, RunRequestDoes
  <2>2. matcher.now <= clock /\ Ready(Visited, matcher.now)
    BY <1>9 DEF RunRequest, StartInv
  <2>3. /\ requests[r].validAfter \in Nat /\ requests[r].deadline \in Nat /\ matcher.now \in Nat
    BY Types
  <2>. QED  BY <1>1, <2>1, <2>2, <2>3 DEF InTime, Ready
<1>. QED
  BY <1>3, <1>4, <1>5, <1>6, <1>7, <1>8, <1>9, StepsSplit

\* StartsInTime: a request runs in its time only.  VerifyIfReady looks at the
\* time at which the walk began, and Run, after the job has been created, does
\* not look again; that it need not is the mutex of the requests, held from
\* InitIteration on.
THEOREM StartedInTime == Spec => StartsInTime
<1>1. Init => StartInv
  BY DEF Init, StartInv, AsleepMatcher
<1>2. SInv /\ SInv' /\ StartInv /\ [Next]_vars => StartInv'
  BY StepStart DEF SInv
<1>3. SInv /\ SInv' /\ StartInv /\ [Next]_vars =>
        [\A r \in ReqIDs : requests[r].state = WAIT /\ requests'[r].state = INPROGRESS =>
            /\ requests[r].validAfter <= matcher.now
            /\ matcher.now < requests[r].deadline
            /\ matcher.now <= clock]_vars
  BY StepInTime DEF InTime, SInv
<1>. QED  BY <1>1, <1>2, <1>3, ServerInvariance, PTL DEF Spec, StartsInTime

-----------------------------------------------------------------------------
(***************************************************************************)
(* ImplementsRequestStates.                                                *)
(***************************************************************************)
\* What RequestStates sees of the requests.
StatesOf == [id \in 1 .. MaxRequests |-> IF id \in ReqIDs THEN requests[id].state ELSE ABSENT]

\* A step of the life of a request.
OnItsWay(s, t) ==
    \/ s = WAIT /\ t \in {INPROGRESS, CANCEL, TIMEOUT}
    \/ s = INPROGRESS /\ t \in {DONE, FAILED}

\* RequestStates takes every such step.
LEMMA GoesOn ==
    ASSUME NEW r \in 1 .. MaxRequests, OnItsWay(StatesOf[r], StatesOf'[r]),
           StatesOf' = [StatesOf EXCEPT ![r] = StatesOf'[r]]
    PROVE  RS!Next
<1>1. \/ StatesOf[r] = WAIT /\ StatesOf' = [StatesOf EXCEPT ![r] = INPROGRESS]
      \/ StatesOf[r] = WAIT /\ StatesOf' = [StatesOf EXCEPT ![r] = CANCEL]
      \/ StatesOf[r] = INPROGRESS /\ StatesOf' = [StatesOf EXCEPT ![r] = DONE]
      \/ StatesOf[r] = WAIT /\ StatesOf' = [StatesOf EXCEPT ![r] = TIMEOUT]
      \/ StatesOf[r] = INPROGRESS /\ StatesOf' = [StatesOf EXCEPT ![r] = FAILED]
  BY DEF OnItsWay
<1>. QED
  BY <1>1 DEF StatesOf, RS!Next, RS!IDs, RS!goes, RS!Run, RS!Close, RS!Timeout, RS!Fail,
     RS!WAIT, RS!INPROGRESS, RS!CANCEL, RS!TIMEOUT, RS!DONE, RS!FAILED

\* Where the state of one request at most is another one, RequestStates makes
\* the step that this one makes, or none.
LEMMA OneMoves ==
    ASSUME ReqIDs' = ReqIDs, NEW r \in ReqIDs,
           \A x \in ReqIDs : x # r => requests'[x].state = requests[x].state,
           requests'[r].state = requests[r].state \/ OnItsWay(requests[r].state, requests'[r].state)
    PROVE  RS!Next \/ UNCHANGED StatesOf
<1>1. CASE requests'[r].state = requests[r].state \/ r \notin 1 .. MaxRequests
  <2>1. ASSUME NEW id \in 1 .. MaxRequests
        PROVE  (IF id \in ReqIDs' THEN requests'[id].state ELSE ABSENT)
                 = (IF id \in ReqIDs THEN requests[id].state ELSE ABSENT)
    BY <1>1
  <2>. QED  BY <2>1 DEF StatesOf
<1>2. CASE r \in 1 .. MaxRequests /\ OnItsWay(requests[r].state, requests'[r].state)
  <2>. DEFINE t == requests'[r].state
  <2>1. ASSUME NEW id \in 1 .. MaxRequests
        PROVE  StatesOf'[id] = IF id = r THEN t ELSE StatesOf[id]
    BY <2>1 DEF StatesOf
  <2>2. StatesOf' = [StatesOf EXCEPT ![r] = t] /\ StatesOf[r] = requests[r].state
    BY <1>2, <2>1 DEF StatesOf
  <2>3. StatesOf'[r] = t
    BY <1>2, <2>1
  <2>. HIDE DEF t
  <2>. QED  BY <1>2, <2>2, <2>3, GoesOn DEF t
<1>. QED  BY <1>1, <1>2

\* The same for a request that gets the state t.
LEMMA StateMoves ==
    ASSUME IInv, NEW r \in ReqIDs, NEW t \in ReqState, OnItsWay(requests[r].state, t),
           requests' = [requests EXCEPT ![r].state = t]
    PROVE  RS!Next \/ UNCHANGED StatesOf
<1>1. /\ ReqIDs' = ReqIDs /\ requests'[r].state = t
      /\ \A x \in ReqIDs : x # r => requests'[x] = requests[x]
  BY StateSet
<1>. QED  BY <1>1, OneMoves

\* A new request waits under the next ID.
LEMMA NewMoves ==
    ASSUME IInv, IInv',
           NEW prio \in Priorities, NEW groups \in SUBSET Groups, NEW caps \in SUBSET Caps,
           NEW validAfter \in ValidAfters, NEW deadline \in Deadlines, NEW now \in 1 .. clock,
           NewRequest(prio, groups, caps, validAfter, deadline, now)
    PROVE  RS!Next
<1>. DEFINE id == Len(requests) + 1
<1>1. /\ ReqIDs' = ReqIDs \cup {id} /\ id \notin ReqIDs
      /\ \A r \in ReqIDs : requests'[r] = requests[r]
      /\ requests'[id].state = WAIT
  BY NewRequestDoes
<1>2. Len(requests) \in Nat /\ ReqIDs = 1 .. Len(requests) /\ Len(requests) < MaxRequests
  BY DEF NewRequest, IInv, TypeOK, ReqIDs
<1>3. id \in 1 .. MaxRequests
  BY <1>2, BoundsAssumption DEF BoundsAssumption
<1>. HIDE DEF id
<1>4. ASSUME NEW i \in 1 .. MaxRequests
      PROVE  StatesOf'[i] = IF i = id THEN WAIT ELSE StatesOf[i]
  BY <1>1, <1>4 DEF StatesOf
<1>5. StatesOf' = [StatesOf EXCEPT ![id] = WAIT] /\ StatesOf[id] = ABSENT
  BY <1>1, <1>3, <1>4 DEF StatesOf
<1>6. ASSUME NEW i \in 1 .. MaxRequests, i < id PROVE StatesOf[i] # ABSENT
  <2>1. i \in ReqIDs
    BY <1>2, <1>6 DEF id
  <2>2. requests[i].state \in ReqState
    BY <2>1, RequestType DEF IInv, ReqInfo
  <2>. QED  BY <2>1, <2>2 DEF StatesOf
<1>. QED
  BY <1>3, <1>5, <1>6 DEF StatesOf, RS!Next, RS!New, RS!goes, RS!IDs, RS!ABSENT, RS!WAIT

\* Every step of the server is one of RequestStates or none.
LEMMA StepMoves == ASSUME IInv, IInv', [Next]_vars PROVE RS!Next \/ UNCHANGED StatesOf
<1>1. CASE UNCHANGED requests
  BY <1>1 DEF StatesOf, ReqIDs
<1>2. CASE WorkerStep
  <2>1. OneFails
    BY <1>2, WorkerStepDoes DEF WorkersMove
  <2>2. ASSUME NEW r \in ReqIDs, requests[r].state = INPROGRESS,
               requests' = [requests EXCEPT ![r].state = FAILED]
        PROVE  RS!Next \/ UNCHANGED StatesOf
    BY <2>2, StateMoves DEF OnItsWay
  <2>. QED  BY <1>1, <2>1, <2>2 DEF OneFails
<1>3. ASSUME NEW x \in ReqIDs, CloseRequest(x) \/ Timeout(x) \/ Close(x)
      PROVE  RS!Next \/ UNCHANGED StatesOf
  <2>1. \/ UNCHANGED requests
        \/ \E s \in {CANCEL, DONE, TIMEOUT} :
              OnItsWay(requests[x].state, s) /\ requests' = [requests EXCEPT ![x].state = s]
    BY <1>3 DEF CloseRequest, CloseWaiting, CloseRunning, Timeout, DeadlinePassed, Close, JobTimedOut,
       closeRequest, OnItsWay
  <2>2. ASSUME NEW s \in {CANCEL, DONE, TIMEOUT}, OnItsWay(requests[x].state, s),
               requests' = [requests EXCEPT ![x].state = s]
        PROVE  RS!Next \/ UNCHANGED StatesOf
    BY <2>2, StateMoves
  <2>. QED  BY <1>1, <2>1, <2>2
<1>4. ASSUME NEW x \in ReqIDs, ProlongAccess(x) PROVE RS!Next \/ UNCHANGED StatesOf
  <2>1. /\ ReqIDs' = ReqIDs /\ \A r \in ReqIDs : r # x => requests'[r] = requests[r]
        /\ requests'[x].state = requests[x].state
    BY <1>4, ProlongAccessDoes DEF ProlongAccess
  <2>. QED  BY <2>1, OneMoves
<1>5. ASSUME NEW x \in ReqIDs, NEW prio \in Priorities \cup {0}, NEW validAfter \in ValidAfters,
             NEW deadline \in Deadlines, UpdateRequest(x, prio, validAfter, deadline)
      PROVE  RS!Next \/ UNCHANGED StatesOf
  <2>1. /\ ReqIDs' = ReqIDs /\ \A r \in ReqIDs : r # x => requests'[r] = requests[r]
        /\ requests'[x].state = requests[x].state
    BY <1>5, UpdateRequestDoes
  <2>. QED  BY <2>1, OneMoves
<1>6. CASE RunRequest
  <2>1. PICK r \in ReqIDs : r = Visited
    BY <1>6, RunRequestDoes
  <2>2. /\ ReqIDs' = ReqIDs /\ \A x \in ReqIDs : x # r => requests'[x] = requests[x]
        /\ requests'[r].state = INPROGRESS
    BY <1>6, <2>1, RunRequestDoes
  <2>3. requests[r].state = WAIT
    BY <1>6, <2>1 DEF RunRequest, IInv, JobConsistency
  <2>4. OnItsWay(requests[r].state, requests'[r].state)
    BY <2>2, <2>3 DEF OnItsWay
  <2>. QED  BY <2>2, <2>4, OneMoves
<1>. QED
  BY <1>1, <1>2, <1>3, <1>4, <1>5, <1>6, StepsSplit, QuietRequests, NewMoves DEF vars, rvars

\* ImplementsRequestStates: the collection of requests keeps the life of a
\* request.  Users, matchers, alarms and failing workers all write its state;
\* each of them looks at the state that holds when it has the mutex, or, as
\* Run does, relies on a look under the same mutex.
THEOREM RequestsImplement == Spec => ImplementsRequestStates
<1>1. Init => RS!Init
  <2>1. Init => ReqIDs = {}
    BY DEF Init, ReqIDs
  <2>. QED  BY <2>1 DEF RS!Init, RS!IDs, RS!ABSENT
<1>2. IInv /\ IInv' /\ [Next]_vars => RS!Next \/ UNCHANGED StatesOf
  BY StepMoves
<1>. QED  BY <1>1, <1>2, Invariance, PTL DEF Spec, ImplementsRequestStates, RS!Spec, StatesOf

-----------------------------------------------------------------------------
(***************************************************************************)
(* The server with its mutexes (BorutaLocks).                              *)
(***************************************************************************)
\* Requests are never forgotten.
LEMMA RequestsStay == ASSUME IInv, IInv', [Next]_vars PROVE ReqIDs \subseteq ReqIDs'
<1>1. CASE UNCHANGED requests
  BY <1>1 DEF ReqIDs
<1>2. CASE WorkerStep
  BY <1>2, WorkerStepDoes DEF WorkersMove
<1>3. ASSUME NEW prio \in Priorities, NEW groups \in SUBSET Groups, NEW caps \in SUBSET Caps,
             NEW validAfter \in ValidAfters, NEW deadline \in Deadlines, NEW now \in 1 .. clock,
             NewRequest(prio, groups, caps, validAfter, deadline, now)
      PROVE  ReqIDs \subseteq ReqIDs'
  BY <1>3, NewRequestDoes
<1>4. ASSUME NEW x \in ReqIDs, CloseRequest(x) \/ Timeout(x) \/ Close(x) PROVE ReqIDs \subseteq ReqIDs'
  BY <1>4, EndingDoes
<1>5. ASSUME NEW x \in ReqIDs, ProlongAccess(x) PROVE ReqIDs \subseteq ReqIDs'
  BY <1>5, ProlongAccessDoes
<1>6. ASSUME NEW x \in ReqIDs, NEW prio \in Priorities \cup {0}, NEW validAfter \in ValidAfters,
             NEW deadline \in Deadlines, UpdateRequest(x, prio, validAfter, deadline)
      PROVE  ReqIDs \subseteq ReqIDs'
  BY <1>6, UpdateRequestDoes
<1>7. CASE RunRequest
  BY <1>7, RunRequestDoes
<1>. QED
  BY <1>1, <1>2, <1>3, <1>4, <1>5, <1>6, <1>7, StepsSplit, QuietRequests DEF vars, rvars

\* While a call holds WorkerList.mutex, ValidMatcher does not wait in
\* OnWorkerIdle, which it calls with that mutex held.
WHeldInv == wcall # NoCall => WFree

\* CreateFails, the only way into that wait, needs the mutex.
LEMMA WHeldKept == ASSUME IInv, WHeldInv, [LockNext]_lockVars PROVE WHeldInv'
<1>1. CASE WFree' \/ wcall' = NoCall
  BY <1>1 DEF WHeldInv
<1>2. CASE UNCHANGED <<matcher, wcall>>
  BY <1>2 DEF WHeldInv, WFree
<1>3. ASSUME NEW w \in Workers, BeginFail(w) \/ BeginIdle(w) PROVE WHeldInv'
  <2>1. WFree /\ UNCHANGED matcher
    BY <1>3 DEF BeginFail, BeginIdle, vars, mvars
  <2>. QED  BY <1>1, <2>1 DEF WFree
<1>4. ASSUME NEW r \in ReqIDs, BeginClose(r) \/ BeginProlong(r) PROVE WHeldInv'
  BY <1>2, <1>4 DEF BeginClose, BeginProlong, vars, mvars
<1>5. CASE EndWCall
  BY <1>1, <1>5 DEF EndWCall, EndFail, EndIdle
<1>6. CASE EndRCall
  BY <1>2, <1>6 DEF EndRCall, EndClose, EndExpire, EndProlong, CloseRunning, Close, ProlongAccess, mvars
<1>7. CASE LockedWorkerStep
  <2>1. UNCHANGED <<matcher, wcall>>
    BY <1>7, WorkerStepDoes DEF LockedWorkerStep, WorkersMove, mvars
  <2>. QED  BY <1>2, <2>1
<1>8. CASE LockedUserStep
  <2>1. UNCHANGED matcher
    <3>1. ASSUME NEW prio \in Priorities, NEW groups \in SUBSET Groups, NEW caps \in SUBSET Caps,
                 NEW validAfter \in ValidAfters, NEW deadline \in Deadlines, NEW now \in 1 .. clock,
                 NewRequest(prio, groups, caps, validAfter, deadline, now)
          PROVE  UNCHANGED matcher
      BY <3>1 DEF NewRequest, mvars
    <3>2. ASSUME NEW r \in ReqIDs, CloseWaiting(r) PROVE UNCHANGED matcher
      BY <3>2 DEF CloseWaiting, mvars
    <3>3. ASSUME NEW r \in ReqIDs, NEW prio \in Priorities \cup {0}, NEW validAfter \in ValidAfters,
                 NEW deadline \in Deadlines, UpdateRequest(r, prio, validAfter, deadline)
          PROVE  UNCHANGED matcher
      BY <3>3 DEF UpdateRequest, mvars
    <3>. QED  BY <1>8, <3>1, <3>2, <3>3 DEF LockedUserStep
  <2>2. UNCHANGED wcall
    BY <1>8 DEF LockedUserStep
  <2>. QED  BY <1>2, <2>1, <2>2
<1>9. CASE LockedNotify
  <2>1. UNCHANGED wcall /\ (Notify \/ CreateFails) /\ (NeedsW => wcall = NoCall)
    BY <1>9 DEF LockedNotify
  <2>2. CASE CreateFails
    BY <1>1, <2>1, <2>2 DEF CreateFails, NeedsW
  <2>3. CASE InitIteration \/ RunRequest \/ EndNotify
    <3>1. WFree'
      BY <2>3 DEF InitIteration, RunRequest, EndNotify, AsleepMatcher, WFree
    <3>. QED  BY <1>1, <3>1
  <2>4. CASE SkipRequest
    <3>1. WFree'
      BY <2>4 DEF SkipRequest, WFree, IInv, TypeOK
    <3>. QED  BY <1>1, <3>1
  <2>5. ASSUME NEW w \in Workers, TakeWorker(w) PROVE WHeldInv'
    <3>1. matcher' = [matcher EXCEPT !.pc = "create", !.worker = w]
      BY <2>5 DEF TakeWorker
    <3>2. WFree'
      BY <3>1 DEF WFree, IInv, TypeOK
    <3>. QED  BY <1>1, <3>2
  <2>. QED  BY <2>1, <2>2, <2>3, <2>4, <2>5 DEF Notify
<1>10. CASE NotifyTimeout
  BY <1>2, <1>10 DEF NotifyTimeout, BeginExpire, LockedClose, Close, vars, mvars
<1>11. ASSUME NEW t \in 1 .. MaxTime, LockedProcess(t) PROVE WHeldInv'
  <2>. Process(t) /\ UNCHANGED <<wcall, rcall>>
    BY <1>11 DEF LockedProcess
  <2>1. CASE ProcessValid(t)
    <3>1. WFree'
      BY <2>1 DEF ProcessValid, WFree, IInv, TypeOK
    <3>. QED  BY <1>1, <3>1
  <2>2. CASE ProcessDeadline(t) \/ ProcessTimeout(t)
    BY <1>2, <2>2 DEF ProcessDeadline, ProcessTimeout
  <2>. QED  BY <2>1, <2>2 DEF Process
<1>12. CASE NotifyDeadline \/ LockedInsert \/ LockedTick
  BY <1>2, <1>12 DEF NotifyDeadline, Timeout, LockedInsert, LockedTick, InsertAlarm, InsertValid, InsertDeadline, Tick, mvars
<1>13. CASE UNCHANGED lockVars
  BY <1>2, <1>13 DEF lockVars, vars, mvars
<1>. QED
  BY <1>3, <1>4, <1>5, <1>6, <1>7, <1>8, <1>9, <1>10, <1>11, <1>12, <1>13 DEF LockNext

\* A call that has got its second mutex makes a step of Boruta; one that has
\* taken its first mutex changes nothing yet.
LEMMA LockStepIsStep == ASSUME WHeldInv, [LockNext]_lockVars PROVE [Next]_vars
<1>1. CASE UNCHANGED vars
  BY <1>1
<1>2. ASSUME NEW w \in Workers, EndFail(w) \/ EndIdle(w) PROVE Next
  <2>1. WFree
    <3>1. wcall.kind \in {"fail", "idle"}
      <4>1. PICK kind \in {"fail", "idle"} : wcall = [kind |-> kind, id |-> w]
        BY <1>2 DEF EndFail, EndIdle
      <4>. QED  BY <4>1
    <3>2. NoCall.kind = "none"
      BY DEF NoCall
    <3>3. wcall # NoCall
      BY <3>1, <3>2
    <3>. QED  BY <3>3 DEF WHeldInv
  <2>2. \/ \E caps \in SUBSET Caps, otherPorts \in BOOLEAN : Register(w, caps, otherPorts)
        \/ SetFail(w)
        \/ \E state \in {IDLE, MAINTENANCE} : SetState(w, state)
        \/ \E groups \in SUBSET Groups : SetGroups(w, groups)
        \/ \E ok \in BOOLEAN : PrepareDone(w, ok)
    <3>1. CASE EndFail(w)
      BY <3>1 DEF EndFail
    <3>2. CASE EndIdle(w)
      BY <3>2 DEF EndIdle
    <3>. QED  BY <1>2, <3>1, <3>2
  <2>3. WorkerStep
    BY <2>1, <2>2 DEF WorkerStep
  <2>. QED  BY <2>3 DEF Next
<1>3. CASE EndRCall
  <2>1. PICK r \in ReqIDs : CloseRequest(r) \/ Close(r) \/ ProlongAccess(r)
    BY <1>3 DEF EndRCall, EndClose, EndExpire, EndProlong, CloseRequest
  <2>. QED  BY <2>1 DEF Next, UserStep
<1>4. CASE LockedWorkerStep
  BY <1>4 DEF LockedWorkerStep, Next
<1>5. CASE LockedUserStep
  BY <1>5 DEF LockedUserStep, Next, UserStep, CloseRequest
<1>6. CASE LockedNotify
  BY <1>6 DEF LockedNotify, Next
<1>7. CASE NotifyTimeout
  BY <1>7 DEF NotifyTimeout, BeginExpire, LockedClose, Next
<1>8. CASE \/ \E w \in Workers : BeginFail(w) \/ BeginIdle(w)
           \/ \E r \in ReqIDs : BeginClose(r) \/ BeginProlong(r)
  BY <1>8 DEF BeginFail, BeginIdle, BeginClose, BeginProlong
<1>9. CASE \/ NotifyDeadline \/ LockedInsert \/ LockedTick
           \/ \E t \in 1 .. MaxTime : LockedProcess(t)
  BY <1>9 DEF NotifyDeadline, LockedInsert, LockedTick, LockedProcess, Next
<1>. QED
  BY <1>1, <1>2, <1>3, <1>4, <1>5, <1>6, <1>7, <1>8, <1>9 DEF LockNext, lockVars, EndWCall

\* The server with its mutexes is the server of Boruta, whose steps are whole
\* critical sections: taking the mutexes one by one adds no behaviour.  So all
\* that is proved of Spec holds with the mutexes, too, even where they
\* deadlock.
THEOREM LocksAddNothing == LockSpec => Spec
<1>1. LockInit => Init /\ IInv /\ WHeldInv
  BY InitInv DEF LockInit, WHeldInv
<1>2. IInv /\ WHeldInv /\ [LockNext]_lockVars => [Next]_vars /\ IInv' /\ WHeldInv'
  BY LockStepIsStep, WHeldKept, NextInv
<1>. QED  BY <1>1, <1>2, PTL DEF LockSpec, Spec

\* The call that holds WorkerList.mutex is one of a worker, the one that holds
\* ReqsCollection.mutex one for a request.
CallsTypeOK ==
    /\ wcall \in [kind : {"none", "fail", "idle"}, id : Workers \cup {0}]
    /\ rcall \in [kind : {"none", "close", "expire", "prolong"}, id : ReqIDs \cup {0}]

\* Every step keeps that, because requests are never forgotten.
LEMMA CallsTypeKept ==
    ASSUME ReqIDs \subseteq ReqIDs', CallsTypeOK, [LockNext]_lockVars
    PROVE  CallsTypeOK'
<1>1. \/ wcall' = wcall \/ wcall' = NoCall
      \/ \E w \in Workers : wcall' \in {[kind |-> "fail", id |-> w], [kind |-> "idle", id |-> w]}
  BY DEF LockNext, lockVars, BeginFail, BeginIdle, BeginClose, BeginProlong, EndWCall, EndFail, EndIdle,
     EndRCall, EndClose, EndExpire, EndProlong, LockedWorkerStep, LockedUserStep, LockedNotify,
     NotifyTimeout, NotifyDeadline, BeginExpire, LockedClose, LockedProcess, LockedInsert, LockedTick
<1>2. \/ rcall' = rcall \/ rcall' = NoCall
      \/ \E r \in ReqIDs : rcall' \in {[kind |-> "close", id |-> r], [kind |-> "expire", id |-> r],
                                       [kind |-> "prolong", id |-> r]}
  BY DEF LockNext, lockVars, BeginFail, BeginIdle, BeginClose, BeginProlong, EndWCall, EndFail, EndIdle,
     EndRCall, EndClose, EndExpire, EndProlong, LockedWorkerStep, LockedUserStep, LockedNotify,
     NotifyTimeout, NotifyDeadline, BeginExpire, LockedClose, LockedProcess, LockedInsert, LockedTick
<1>3. wcall' \in [kind : {"none", "fail", "idle"}, id : Workers \cup {0}]
  BY <1>1 DEF CallsTypeOK, NoCall
<1>4. rcall' \in [kind : {"none", "close", "expire", "prolong"}, id : ReqIDs' \cup {0}]
  BY <1>2 DEF CallsTypeOK, NoCall
<1>. QED  BY <1>3, <1>4 DEF CallsTypeOK

\* A call that waits with one mutex for the other (requests.go, workers.go)
\* waits with a worker or a request that there can be, and Boruta's types hold
\* meanwhile.
THEOREM LockTypesKept == LockSpec => []LockTypeOK
<1>1. LockInit => Init /\ IInv /\ WHeldInv /\ CallsTypeOK
  BY InitInv DEF LockInit, WHeldInv, CallsTypeOK, NoCall
<1>2. IInv /\ WHeldInv /\ CallsTypeOK /\ [LockNext]_lockVars => IInv' /\ WHeldInv' /\ CallsTypeOK'
  <2>. SUFFICES ASSUME IInv, WHeldInv, CallsTypeOK, [LockNext]_lockVars PROVE IInv' /\ WHeldInv' /\ CallsTypeOK'
    OBVIOUS
  <2>1. [Next]_vars
    BY LockStepIsStep
  <2>2. IInv'
    BY <2>1, NextInv
  <2>3. ReqIDs \subseteq ReqIDs'
    BY <2>1, <2>2, RequestsStay
  <2>. QED  BY <2>2, <2>3, WHeldKept, CallsTypeKept
<1>3. IInv /\ CallsTypeOK => LockTypeOK
  BY DEF LockTypeOK, CallsTypeOK, IInv
<1>. QED  BY <1>1, <1>2, <1>3, PTL DEF LockSpec
=============================================================================
