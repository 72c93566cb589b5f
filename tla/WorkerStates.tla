---------------------------- MODULE WorkerStates ----------------------------
(***************************************************************************)
(* What the list of workers promises to the rest of the server: for every  *)
(* worker its state, and the only transitions that a call of the Superviser*)
(* interface (Register, SetFail), of the Workers interface (SetState,      *)
(* Deregister), of the matcher (TakeBestMatchingWorker, PrepareWorker) or  *)
(* the end of a background operation may make.  One call is one step.      *)
(*                                                                         *)
(* The goroutines, channels and keys behind these transitions are in       *)
(* WorkerList, which implements this module; Boruta composes this module   *)
(* with the requests and the jobs.                                         *)
(***************************************************************************)
EXTENDS BorutaTypes

CONSTANT Workers            \* the UUIDs of the Dryads

VARIABLE wstate             \* WorkerInfo.State of each worker, or ABSENT

-----------------------------------------------------------------------------
Registered(w) == wstate[w] # ABSENT

\* The state a Register call leaves a worker in.  A worker unknown so far
\* starts in MAINTENANCE; a known one whose caps or ports changed is sent to
\* BUSY; a failed one that registers unchanged is prepared again.
RegisterTarget(s, changed) ==
    CASE s = ABSENT -> MAINTENANCE
      [] s # ABSENT /\ changed -> BUSY
      [] s = FAIL /\ ~changed -> PREPARE
      [] OTHER -> s

\* The state to which an accepted SetState call switches the worker at once;
\* the state that was asked for is entered by the background operation.
SetStateTargetUnprepared(state) == IF state = IDLE THEN IDLE ELSE BUSY

SetStateTarget(state) == IF state = IDLE THEN PREPARE ELSE BUSY

\* SetState acts only if the transition is allowed and not already ongoing.
SetStateActs(s, state) ==
    \/ state = IDLE /\ s = MAINTENANCE
    \/ state = MAINTENANCE /\ s # BUSY

setState(w, s) == wstate' = [wstate EXCEPT ![w] = s]

-----------------------------------------------------------------------------
Init == wstate = [w \in Workers |-> ABSENT]

Register(w, changed) == setState(w, RegisterTarget(wstate[w], changed))

SetFail(w) ==
    /\ wstate[w] \notin {ABSENT, MAINTENANCE, BUSY}
    /\ setState(w, FAIL)

SetState(w, state) ==
    /\ Registered(w)
    /\ SetStateActs(wstate[w], state)
    /\ setState(w, SetStateTarget(state))

Deregister(w) ==
    /\ wstate[w] \in {MAINTENANCE, FAIL}
    /\ setState(w, ABSENT)

\* The state change of TakeBestMatchingWorker for the worker it has chosen.
Take(w) ==
    /\ wstate[w] = IDLE
    /\ setState(w, RUN)

PrepareWorker(w, withKeyGeneration) ==
    /\ wstate[w] = RUN
    /\ setState(w, IF withKeyGeneration THEN PREPARE ELSE IDLE)

\* The end of prepareKeyAndSetState, if no newer order has overtaken it.
PrepareDone(w, ok) ==
    /\ wstate[w] = PREPARE
    /\ setState(w, IF ok THEN IDLE ELSE FAIL)

\* The end of putInMaintenanceWorker, if no newer order has overtaken it.
MaintenanceDone(w, ok) ==
    /\ wstate[w] = BUSY
    /\ setState(w, IF ok THEN MAINTENANCE ELSE FAIL)

Next ==
    \E w \in Workers :
        \/ \E changed \in BOOLEAN : Register(w, changed)
        \/ SetFail(w)
        \/ \E state \in {IDLE, MAINTENANCE} : SetState(w, state)
        \/ Deregister(w)
        \/ Take(w)
        \/ \E withKeyGeneration \in BOOLEAN : PrepareWorker(w, withKeyGeneration)
        \/ \E ok \in BOOLEAN : PrepareDone(w, ok) \/ MaintenanceDone(w, ok)

Spec == Init /\ [][Next]_wstate
=============================================================================
