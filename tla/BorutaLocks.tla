---------------------------- MODULE BorutaLocks ----------------------------
(***************************************************************************)
(* Boruta with the calls that hold one mutex and need a second one.  Four  *)
(* mutexes are taken while another is held:                                *)
(*                                                                         *)
(*   W   WorkerList.mutex                                                  *)
(*   R   ReqsCollection.mutex                                              *)
(*   TV  the mutex of validAfterTimes, held during ValidMatcher.Notify     *)
(*   TT  the mutex of timeoutTimes, held during TimeoutMatcher.Notify      *)
(*                                                                         *)
(* Who holds TV and TT, and R during a walk over the queue, follows from   *)
(* the state of the matchers in Boruta.  Here wcall is the call that holds *)
(* W and needs R or TV, and rcall the call that holds R and needs W or TT. *)
(* When such a call has got its second mutex, it makes its step of Boruta  *)
(* and releases both.  Mutexes nested in R only (prioQueue.mtx and         *)
(* JobsManagerImpl.mutex) and that of deadlineTimes, under which only R is *)
(* taken, cannot be part of a cycle.                                       *)
(***************************************************************************)
EXTENDS Boruta

VARIABLES wcall, rcall

lockVars == <<vars, wcall, rcall>>

NoCall == [kind |-> "none", id |-> 0]

-----------------------------------------------------------------------------
(***************************************************************************)
(* Calls that take W and go on to a second mutex.                          *)
(***************************************************************************)

\* setState of a running worker, which will call OnWorkerFail.
BeginFail(w) ==
    /\ wcall = NoCall /\ WFree
    /\ wstate[w] = RUN
    /\ wcall' = [kind |-> "fail", id |-> w]
    /\ UNCHANGED <<vars, rcall>>

\* setState to IDLE, or SetGroups of an idle worker, which will call
\* OnWorkerIdle.
BeginIdle(w) ==
    /\ wcall = NoCall /\ WFree
    /\ wstate[w] \in {PREPARE, IDLE}
    /\ wcall' = [kind |-> "idle", id |-> w]
    /\ UNCHANGED <<vars, rcall>>

EndFail(w) ==
    /\ wcall = [kind |-> "fail", id |-> w]
    /\ rcall = NoCall /\ RFree
    /\ \/ SetFail(w)
       \/ SetState(w, MAINTENANCE)
       \/ \E caps \in SUBSET Caps : Register(w, caps, TRUE)
    /\ wcall' = NoCall /\ UNCHANGED rcall

EndIdle(w) ==
    /\ wcall = [kind |-> "idle", id |-> w]
    /\ PrepareDone(w, TRUE) \/ \E groups \in SUBSET Groups : wstate[w] = IDLE /\ SetGroups(w, groups)
    /\ wcall' = NoCall /\ UNCHANGED rcall

-----------------------------------------------------------------------------
(***************************************************************************)
(* Calls that take R and go on to a second mutex.                          *)
(***************************************************************************)

\* CloseRequest of a request in progress: Finish will call PrepareWorker.
BeginClose(r) ==
    /\ rcall = NoCall /\ RFree
    /\ requests[r].state = INPROGRESS
    /\ rcall' = [kind |-> "close", id |-> r]
    /\ UNCHANGED <<vars, wcall>>

\* Close called by TimeoutMatcher, which holds TT: likewise.
BeginExpire(r) ==
    /\ rcall = NoCall /\ RFree
    /\ r \in timeoutDue /\ JobTimedOut(r)
    /\ rcall' = [kind |-> "expire", id |-> r]
    /\ UNCHANGED <<vars, wcall>>

\* ProlongAccess will insert into timeoutTimes.
BeginProlong(r) ==
    /\ rcall = NoCall /\ RFree
    /\ requests[r].state = INPROGRESS
    /\ rcall' = [kind |-> "prolong", id |-> r]
    /\ UNCHANGED <<vars, wcall>>

EndCloseLocked(r) ==
    /\ rcall = [kind |-> "close", id |-> r] /\ wcall = NoCall
    /\ CloseRunning(r)
    /\ UNCHANGED <<wcall, rcall>>

EndClose(r) ==
    /\ rcall = [kind |-> "close", id |-> r] /\ wcall = NoCall
    /\ CloseRunning(r)
    /\ rcall' = NoCall /\ UNCHANGED wcall

EndExpire(r) ==
    /\ rcall = [kind |-> "expire", id |-> r] /\ wcall = NoCall
    /\ Close(r)
    /\ rcall' = NoCall /\ UNCHANGED wcall

EndProlong(r) ==
    /\ rcall = [kind |-> "prolong", id |-> r]
    /\ ProlongAccess(r)
    /\ rcall' = NoCall /\ UNCHANGED wcall

-----------------------------------------------------------------------------
(***************************************************************************)
(* Steps that need W alone, R alone, or one of them with what the matcher  *)
(* holds already.                                                          *)
(***************************************************************************)
LockedWorkerStep ==
    /\ wcall = NoCall
    /\ WorkerStep
    /\ UNCHANGED <<requests, validTimes, wcall, rcall>>

LockedUserStep ==
    /\ rcall = NoCall
    /\ \/ \E prio \in Priorities, groups \in SUBSET Groups, caps \in SUBSET Caps,
             validAfter \in ValidAfters, deadline \in Deadlines, now \in 1 .. clock :
                 NewRequest(prio, groups, caps, validAfter, deadline, now)
       \/ \E r \in ReqIDs :
             \/ CloseWaiting(r)
             \/ \E prio \in Priorities \cup {0}, validAfter \in ValidAfters, deadline \in Deadlines :
                   UpdateRequest(r, prio, validAfter, deadline)
    /\ UNCHANGED <<wcall, rcall>>

\* Close called by TimeoutMatcher for a request that it must not close.
LockedClose(r) ==
    /\ rcall = NoCall
    /\ ~JobTimedOut(r)
    /\ Close(r)
    /\ UNCHANGED <<wcall, rcall>>

\* The walk needs W where it looks for a worker and where it creates the job.
NeedsW ==
    \/ matcher.pc = "create"
    \/ matcher.pc = "walk" /\ matcher.todo # {} /\ Ready(Visited, matcher.now)

LockedNotify ==
    /\ matcher.pc = "awake" => rcall = NoCall
    /\ NeedsW => wcall = NoCall
    /\ Notify \/ CreateFails
    /\ UNCHANGED <<wcall, rcall>>

LockInit == Init /\ wcall = NoCall /\ rcall = NoCall

EndWCall == \E w \in Workers : EndFail(w) \/ EndIdle(w)

EndRCall == \E r \in ReqIDs : EndClose(r) \/ EndExpire(r) \/ EndProlong(r)

NotifyTimeout == \E r \in ReqIDs : BeginExpire(r) \/ LockedClose(r)

NotifyDeadline ==
    /\ rcall = NoCall
    /\ \E r \in ReqIDs : Timeout(r)
    /\ UNCHANGED <<wcall, rcall>>

\* Steps that hold one mutex of one of the alarms, and no other.
LockedProcess(t) == Process(t) /\ UNCHANGED <<wcall, rcall>>

LockedInsert == InsertAlarm /\ UNCHANGED <<wcall, rcall>>

LockedTick == Tick /\ UNCHANGED <<wcall, rcall>>

LockNext ==
    \/ \E w \in Workers : BeginFail(w) \/ BeginIdle(w)
    \/ \E r \in ReqIDs : BeginClose(r) \/ BeginProlong(r)
    \/ EndWCall \/ EndRCall
    \/ LockedWorkerStep \/ LockedUserStep
    \/ LockedNotify \/ NotifyTimeout \/ NotifyDeadline
    \/ \E t \in 1 .. MaxTime : LockedProcess(t)
    \/ LockedInsert \/ LockedTick

\* The steps that requests and jobs end by, and those that wait for them.
Ending ==
    \/ \E w \in Workers : EndFail(w)
    \/ \E r \in ReqIDs : EndClose(r) \/ EndExpire(r)
    \/ NotifyTimeout \/ NotifyDeadline \/ LockedInsert

\* Time passes, timers go off, and a goroutine that can go on does so in the
\* end.  A timer set for a time in the past goes off with the time of that
\* moment, so the alarms that count are those with t = clock.  What waits for
\* a mutex that others take and release gets it in the end, since Go's mutexes
\* starve nobody, hence SF; what waits in a cycle is never enabled, and no
\* fairness makes it go on.  Fairness of the disjunction Ending assumes less
\* than fairness of each part.  Nothing is assumed of users, admins and Dryads.
\* setState is that of WorkerStates, which has no channel: that its send may
\* block with W held is in WorkerList only.
LockSpec ==
    /\ LockInit /\ [][LockNext]_lockVars
    /\ SF_lockVars(LockedNotify)
    /\ SF_lockVars(\E w \in Workers : EndIdle(w))
    /\ SF_lockVars(Ending)
    /\ WF_lockVars(\E r \in ReqIDs : EndProlong(r))
    /\ WF_lockVars(ProcessDeadline(clock) /\ UNCHANGED <<wcall, rcall>>)
    /\ WF_lockVars(ProcessTimeout(clock) /\ UNCHANGED <<wcall, rcall>>)
    /\ WF_lockVars(LockedTick)

-----------------------------------------------------------------------------
\* Types with the mutexes: a call that waits for its second mutex waits with a
\* worker or a request that there can be.
LockTypeOK ==
    /\ TypeOK
    /\ wcall \in [kind : {"none", "fail", "idle"}, id : Workers \cup {0}]
    /\ rcall \in [kind : {"none", "close", "expire", "prolong"}, id : ReqIDs \cup {0}]

(***************************************************************************)
(* Who waits for whom.                                                     *)
(***************************************************************************)
Holders == {"wcall", "rcall", "matcher", "timeout"}

HoldsR(b) == (b = "rcall" /\ rcall # NoCall) \/ (b = "matcher" /\ ~RFree)

HoldsW(b) == b = "wcall" /\ wcall # NoCall

HoldsTV(b) == b = "matcher" /\ matcher.pc # "asleep"

HoldsTT(b) == b = "timeout" /\ ~TimeoutTimesFree

WaitsFor(a, b) ==
    \/ a = "wcall" /\ wcall.kind = "fail" /\ HoldsR(b)
    \/ a = "wcall" /\ wcall.kind = "idle" /\ HoldsTV(b)
    \/ a = "rcall" /\ rcall.kind \in {"close", "expire"} /\ HoldsW(b)
    \/ a = "rcall" /\ rcall.kind = "prolong" /\ HoldsTT(b)
    \/ a = "matcher" /\ matcher.pc = "awake" /\ HoldsR(b)
    \/ a = "matcher" /\ NeedsW /\ HoldsW(b)
    \/ a = "matcher" /\ matcher.pc = "create" /\ HoldsTT(b)
    \/ a = "matcher" /\ matcher.pc = "halted" /\ HoldsTV(b)
    \/ a = "timeout" /\ ~TimeoutTimesFree /\ rcall.kind # "expire" /\ HoldsR(b)

Deadlocked ==
    \E S \in SUBSET Holders \ {{}} : \A a \in S : \E b \in S : WaitsFor(a, b)

\* Every call that holds a mutex returns, unless mutexes are held in a cycle.
CallsReturn ==
    /\ []<>(wcall = NoCall \/ Deadlocked)
    /\ []<>(rcall = NoCall \/ Deadlocked)

\* A request does not wait for ever, unless mutexes are held in a cycle: it gets
\* a worker or ends by its deadline, however the alarms, the matchers and the
\* calls with two mutexes get in each other's way.
WaitEnds ==
    \A r \in 1 .. MaxRequests :
        []<>(r \in ReqIDs /\ requests[r].state = WAIT =>
                 requests[r].deadline >= MaxTime \/ Deadlocked)

\* A job that is not prolonged any more ends, and gives its worker back, unless
\* mutexes are held in a cycle.
JobEnds ==
    \A w \in Workers :
        []<>(jobs[w] # NoJob => requests[jobs[w]].timeout >= MaxTime \/ Deadlocked)

\* "Listener should be notified in case of changes of workers' states, when
\* worker becomes IDLE or must break its job because of fail or maintenance": a
\* call that is going to notify the listener does so and returns.
ListenerNotified == wcall # NoCall ~> wcall = NoCall
=============================================================================
