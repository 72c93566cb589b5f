------------------------------- MODULE Access -------------------------------
(***************************************************************************)
(* The server and a Dryad: the agent Rusalka, the worker's entry in the    *)
(* list of workers, as WorkerStates describes it, the background goroutine *)
(* that makes the RPC calls (workers/workers.go, rpc/dryad), and the key   *)
(* that a job hands out (matcher/jobs.go; for its tunnel see Jobs).        *)
(*                                                                         *)
(* A connection to the Dryad may break at any time: the goroutine goes on  *)
(* with an error, the call goes on where it is.  The Dryad may restart at  *)
(* any time, and registers when it has.  The goroutine is seen more        *)
(* coarsely than in WorkerList: it remembers whether a newer order has     *)
(* overtaken the one it works on, and follows the worker's state then.  A   *)
(* goroutine that outlives its registration is in WorkerList.              *)
(***************************************************************************)
EXTENDS BorutaTypes, Rusalka

CONSTANT Worker       \* its UUID

VARIABLES
    wstate,           \* the worker's state, see WorkerStates
    wkey,             \* mapWorker.key
    bg,               \* the order the background goroutine works on, the key it
                      \*   has generated, and whether it has been overtaken
    jobKey,           \* Access.Key of the worker's job, or NoKey without a job
    overlapped        \* history: when the last call began, another was running

serverVars == <<wstate, wkey, bg, jobKey>>
vars == <<rusalkaVars, serverVars, overlapped>>

-----------------------------------------------------------------------------
\* The call that the goroutine waits for, and one that it has given up.
Current == "current"
GivenUp == "givenup"

ASSUME CallsAssumption == Calls = {Current, GivenUp}

NoOrder == [task |-> ABSENT, key |-> NoKey, overtaken |-> FALSE]

State == wstate[Worker]

WL == INSTANCE WorkerStates WITH Workers <- {Worker}

\* rsa.GenerateKey: a key that nobody has.
FreshKeys == Keys \ ({wkey, account.key} \cup {calls[c].key : c \in Calls})

-----------------------------------------------------------------------------
(***************************************************************************)
(* The background goroutine.                                               *)
(***************************************************************************)

\* client.Create, and the call that the order asks for.
CallDryadAnyState(key) ==
    /\ bg = NoOrder
    /\ key \in FreshKeys
    /\ process # "down"
    /\ bg' = [task |-> State, key |-> key, overtaken |-> FALSE]
    /\ calls' = [calls EXCEPT ![Current] = [pc |-> "cancel", key |-> key]]
    /\ overlapped' = Running(GivenUp)
    /\ UNCHANGED <<process, account, user, blinkers, wstate, wkey, jobKey>>

CallDryad(key) ==
    /\ bg = NoOrder
    /\ key \in (IF State = PREPARE THEN FreshKeys ELSE {NoKey})
    /\ State \in {PREPARE, BUSY}
    /\ process # "down"
    /\ bg' = [task |-> State, key |-> key, overtaken |-> FALSE]
    /\ calls' = [calls EXCEPT ![Current] =
                    [pc |-> IF State = PREPARE THEN "cancel" ELSE "maintain", key |-> key]]
    /\ overlapped' = Running(GivenUp)
    /\ UNCHANGED <<process, account, user, blinkers, wstate, wkey, jobKey>>

\* The end of the order: store the key and set the state, unless overtaken.
EndOrderUnchecked(ok) ==
    /\ IF bg.overtaken THEN UNCHANGED <<wstate, wkey>>
       ELSE IF bg.task = PREPARE
       THEN WL!PrepareDone(Worker, TRUE) /\ wkey' = bg.key
       ELSE WL!MaintenanceDone(Worker, ok) /\ UNCHANGED wkey
    /\ bg' = NoOrder

EndOrder(ok) ==
    /\ IF bg.overtaken THEN UNCHANGED <<wstate, wkey>>
       ELSE IF bg.task = PREPARE
       THEN /\ WL!PrepareDone(Worker, ok)
            /\ wkey' = IF ok THEN bg.key ELSE wkey
       ELSE WL!MaintenanceDone(Worker, ok) /\ UNCHANGED wkey
    /\ bg' = NoOrder

\* The Dryad cannot be reached.
CreateFails ==
    /\ bg = NoOrder
    /\ WL!PrepareDone(Worker, FALSE) \/ WL!MaintenanceDone(Worker, FALSE)
    /\ UNCHANGED <<rusalkaVars, wkey, bg, jobKey, overlapped>>

Answered(ok) ==
    /\ calls[Current].pc = (IF ok THEN "ok" ELSE "err")
    /\ EndOrder(ok)
    /\ calls' = [calls EXCEPT ![Current] = NoCall]
    /\ UNCHANGED <<process, account, user, blinkers, jobKey, overlapped>>

\* Nobody waits for the current call any more.
GiveUpCall ==
    /\ Running(Current) => calls[GivenUp] = NoCall
    /\ calls' = [calls EXCEPT ![Current] = NoCall,
                              ![GivenUp] = IF Running(Current) THEN calls[Current] ELSE @]

\* The connection breaks before the answer has come.
ConnectionLost ==
    /\ calls[Current] # NoCall
    /\ GiveUpCall
    /\ EndOrder(FALSE)
    /\ UNCHANGED <<process, account, user, blinkers, jobKey, overlapped>>

\* The RPC server of the Dryad cannot send the answer.
AnswerLost ==
    /\ calls[GivenUp] # NoCall
    /\ ~Running(GivenUp)
    /\ calls' = [calls EXCEPT ![GivenUp] = NoCall]
    /\ UNCHANGED <<process, account, user, blinkers, serverVars, overlapped>>

-----------------------------------------------------------------------------
(***************************************************************************)
(* Orders of the administrator and of the Dryad.                           *)
(***************************************************************************)
Overtake ==
    bg' = [bg EXCEPT !.overtaken = @ \/ (bg.task # ABSENT /\ wstate' # wstate)]

\* A worker that leaves RUN in this way loses its job.
OnWorkerFail == jobKey' = IF wstate' # wstate THEN NoKey ELSE jobKey

AdminStep ==
    /\ WL!SetFail(Worker) \/ \E state \in {IDLE, MAINTENANCE} : WL!SetState(Worker, state)
    /\ Overtake
    /\ OnWorkerFail
    /\ UNCHANGED <<rusalkaVars, wkey, overlapped>>

\* The goroutine that may wait for a call drops its answer; the next Register
\* starts another one.
Deregister ==
    /\ WL!Deregister(Worker)
    /\ GiveUpCall
    /\ bg' = NoOrder
    /\ wkey' = NoKey
    /\ UNCHANGED <<process, account, user, blinkers, jobKey, overlapped>>

\* main of cmd/dryad registers once, after it has begun to serve; changed says
\* whether its configuration was.  The server prepares a worker that had
\* failed.
Register(changed) ==
    /\ process = "serving"
    /\ WL!Register(Worker, changed)
    /\ Overtake
    /\ OnWorkerFail
    /\ process' = "registered"
    /\ UNCHANGED <<account, user, blinkers, calls, wkey, overlapped>>

-----------------------------------------------------------------------------
(***************************************************************************)
(* Jobs.                                                                   *)
(***************************************************************************)

\* TakeBestMatchingWorker and JobsManagerImpl.Create, under the mutex of the
\* requests.  A Create that fails halts the server, see Boruta.
CreateJob ==
    /\ WL!Take(Worker)
    /\ jobKey' = wkey
    /\ UNCHANGED <<rusalkaVars, wkey, bg, overlapped>>

\* The request is closed: Finish removes the job and prepares the worker.
CloseRequest ==
    /\ WL!PrepareWorker(Worker, TRUE)
    /\ jobKey' = NoKey
    /\ UNCHANGED <<rusalkaVars, wkey, bg, overlapped>>

-----------------------------------------------------------------------------
Init ==
    /\ RusalkaInit
    /\ WL!Init
    /\ wkey = NoKey
    /\ bg = NoOrder
    /\ jobKey = NoKey
    /\ overlapped = FALSE

DryadStep ==
    /\ \/ \E c \in Calls : RusalkaStep(c)
       \/ BlinkerEnds
       \/ process # "down" /\ Die
       \/ Serve
    /\ UNCHANGED <<serverVars, overlapped>>

ServerStep ==
    \/ \E key \in Keys \cup {NoKey} : CallDryad(key)
    \/ CreateFails \/ (\E ok \in BOOLEAN : Answered(ok)) \/ ConnectionLost \/ AnswerLost
    \/ AdminStep \/ Deregister \/ (\E changed \in BOOLEAN : Register(changed))
    \/ CreateJob \/ CloseRequest

Next == DryadStep \/ ServerStep

Spec == Init /\ [][Next]_vars

-----------------------------------------------------------------------------
TypeOK ==
    /\ process \in {"down", "serving", "registered"}
    /\ account \in [exists : BOOLEAN, key : Keys \cup {NoKey}]
    /\ user \in BOOLEAN
    /\ blinkers \subseteq BlinkerState
    /\ calls \in [Calls -> [pc : CallPCs, key : Keys \cup {NoKey}]]
    /\ State \in WorkerState \cup {ABSENT}
    /\ wkey \in Keys \cup {NoKey}
    /\ bg \in [task : {ABSENT, PREPARE, BUSY}, key : Keys \cup {NoKey}, overtaken : BOOLEAN]
    /\ jobKey \in Keys \cup {NoKey}
    /\ overlapped \in BOOLEAN

\* The key that was handed out opens the Dryad, and no other does: from the
\* moment the worker can be taken until its job ends, sshd accepts the key of
\* AccessInfo and nothing else, whatever failed, was lost or was overtaken
\* before, and even if the Dryad has restarted since.  It takes that no call
\* that the server had given up ran beside the one that prepared the Dryad.
GrantedKeyOpens ==
    ~overlapped =>
        /\ State = IDLE => Accepted = wkey
        /\ State = RUN  => Accepted = jobKey

\* Calls that do not overlap never make Rusalka panic: installKey finds the
\* user that update has looked up, whichever command failed before.
NoPanic == \A c \in Calls : Panics(c) => overlapped

\* "Call to Prepare stops LED blinking": on a Dryad that has been prepared
\* nobody blinks, except the ones whose cancel function a second
\* PutInMaintenance has overwritten.
PreparedStopsBlinking == State \in {IDLE, RUN} /\ ~overlapped => "on" \notin blinkers
=============================================================================
