----------------------------- MODULE WorkerList -----------------------------
(***************************************************************************)
(* workers/workers.go: the list of workers, and the background goroutine   *)
(* that Register starts for every worker it adds.  The goroutine prepares  *)
(* the Dryad (generates a key, installs its public part over RPC, stores   *)
(* its private part) or puts it into maintenance, while the handlers go on *)
(* changing the worker's state and tell the goroutine through a buffered   *)
(* channel.                                                                *)
(*                                                                         *)
(* A handler holds WorkerList.mutex from its first to its last step, so it *)
(* is one action -- unless the channel is full: then it stays blocked in   *)
(* the send, with the mutex held, and everything that needs the mutex      *)
(* waits.  Between two steps of a background goroutine anything may run.   *)
(*                                                                         *)
(* The change listener is left to Boruta; addresses, caps and ports are    *)
(* abstracted to "this Register call changes them" or not.                 *)
(***************************************************************************)
EXTENDS BorutaTypes, Naturals, Sequences, SequencesExt

CONSTANTS
    Workers,     \* UUIDs
    BufferSize,  \* backgroundOperationsBufferSize, 32 in the code
    MaxLoops,    \* bound: background goroutines ever started
    Keys         \* RSA keys; more than can be in use at once

Loops == 1 .. MaxLoops
NoKey == "nokey"

\* The key of a Prepare that the server has given up.  No worker is ever given
\* it, so that one value stands for all such keys.
LateKey == "latekey"

\* What the sshd of a Dryad may accept.
DryadKeys == Keys \cup {NoKey, LateKey}

\* rsa.GenerateKey does not run out of keys: however the workers, the Dryads and
\* the goroutines hold keys, there is one that none of them holds.
KeysLeft ==
    \A stored \in [Workers -> Keys \cup {NoKey}], accepted \in [Workers -> DryadKeys],
       made \in [Loops -> Keys \cup {NoKey}] :
        \E k \in Keys :
            /\ \A w \in Workers : k \notin {stored[w], accepted[w]}
            /\ \A l \in Loops : k # made[l]

ASSUME WorkersAssumption == Workers \subseteq Nat \ {0}
ASSUME BufferAssumption  == BufferSize \in Nat \ {0}
ASSUME LoopsAssumption   == MaxLoops \in Nat
ASSUME KeysAssumption    == NoKey \notin Keys /\ LateKey \notin Keys /\ KeysLeft

VARIABLES
    workers,     \* WorkerList.workers: UUID -> mapWorker, or NoWorker
    chan,        \* per goroutine, the states in its channel; the last one is
                 \*   still the sender's if there are BufferSize + 1
    closed,      \* per goroutine, whether Deregister closed its channel
    loop,        \* per goroutine, its place in the code and its variables
    sending,     \* the handler blocked in a send with the mutex held
    installed,   \* per Dryad, the key its sshd accepts (external)
    givenup,     \* per Dryad, whether a Prepare whose connection broke still
                 \*   goes on there (external)
    overlapped   \* per Dryad, whether the last Prepare met such a call

dryads == <<installed, givenup, overlapped>>

vars == <<workers, chan, closed, loop, sending, dryads>>

-----------------------------------------------------------------------------
\* workers seen through the abstract specification.
Abstract == INSTANCE WorkerStates
    WITH wstate <- [w \in Workers |-> workers[w].state]

NoWorker == [state |-> ABSENT, key |-> NoKey, bg |-> 0]
NotSending == [uuid |-> 0, state |-> ABSENT]

\* Where a goroutine can be: not started; at the receive of backgroundLoop;
\* before a step of prepareKey ("start" .. "store"), of putInMaintenance
\* ("start", "addr", "create", "maintain") or of the critical section that
\* ends both ("commit"); returned.
PCs == {"new", "recv", "start", "addr", "create", "genkey", "install",
        "store", "maintain", "commit", "exit"}

NewLoop == [uuid |-> 0, pc |-> "new", task |-> ABSENT, err |-> FALSE, key |-> NoKey]

MapWorker == [state : WorkerState, key : Keys \cup {NoKey}, bg : Loops]

Registered(w) == workers[w] # NoWorker

MutexFree == sending = NotSending

-----------------------------------------------------------------------------
\* A send to channel c does not block.
HasRoomPlusOne(c) == Len(c) <= BufferSize

HasRoom(c) == Len(c) < BufferSize

(***************************************************************************)
(* setState: send the new state to the background goroutine, then assign   *)
(* it.  Needs the mutex.  If the channel is full, the send blocks and      *)
(* finishSetState goes on when the goroutine has received something.       *)
(***************************************************************************)
setState(w, s) ==
    LET l == workers[w].bg IN
    /\ chan' = [chan EXCEPT ![l] = Append(@, s)]
    /\ IF HasRoom(chan[l])
       THEN workers' = [workers EXCEPT ![w].state = s] /\ UNCHANGED sending
       ELSE sending' = [uuid |-> w, state |-> s] /\ UNCHANGED workers
    /\ UNCHANGED <<closed, loop, dryads>>

finishSetState ==
    LET w == sending.uuid IN
    /\ ~MutexFree
    /\ Len(chan[workers[w].bg]) <= BufferSize
    /\ workers' = [workers EXCEPT ![w].state = sending.state]
    /\ sending' = NotSending
    /\ UNCHANGED <<chan, closed, loop, dryads>>

\* Register of a UUID not in the list: add it and start its goroutine.
RegisterNew(w, l) ==
    /\ MutexFree
    /\ ~Registered(w)
    /\ loop[l].pc = "new"
    /\ \A k \in Loops : k < l => loop[k].pc # "new"
    /\ workers' = [workers EXCEPT ![w] = [state |-> MAINTENANCE, key |-> NoKey, bg |-> l]]
    /\ loop' = [loop EXCEPT ![l] = [NewLoop EXCEPT !.uuid = w, !.pc = "recv"]]
    /\ UNCHANGED <<chan, closed, sending, dryads>>

\* Register of a UUID in the list; changed says whether its caps or ports
\* differ from the stored ones.  Nothing is sent if the state stays.
RegisterAgain(w, changed) ==
    LET newState == Abstract!RegisterTarget(workers[w].state, changed) IN
    /\ MutexFree
    /\ Registered(w)
    /\ newState # workers[w].state
    /\ setState(w, newState)

SetFail(w) ==
    /\ MutexFree
    /\ Registered(w)
    /\ workers[w].state \notin {MAINTENANCE, BUSY}
    /\ setState(w, FAIL)

SetState(w, state) ==
    /\ MutexFree
    /\ Registered(w)
    /\ Abstract!SetStateActs(workers[w].state, state)
    /\ setState(w, Abstract!SetStateTarget(state))

Deregister(w) ==
    /\ MutexFree
    /\ workers[w].state \in {MAINTENANCE, FAIL}
    /\ closed' = [closed EXCEPT ![workers[w].bg] = TRUE]
    /\ workers' = [workers EXCEPT ![w] = NoWorker]
    /\ UNCHANGED <<chan, loop, sending, dryads>>

\* TakeBestMatchingWorker, for the worker it chooses.
TakeBestMatchingWorker(w) ==
    /\ MutexFree
    /\ workers[w].state = IDLE
    /\ setState(w, RUN)

PrepareWorker(w, withKeyGeneration) ==
    /\ MutexFree
    /\ workers[w].state = RUN
    /\ setState(w, IF withKeyGeneration THEN PREPARE ELSE IDLE)

-----------------------------------------------------------------------------
(***************************************************************************)
(* The background goroutine.                                               *)
(***************************************************************************)

\* What backgroundLoop does with the state it has got.
Dispatch(l, s) ==
    [loop[l] EXCEPT !.pc   = IF s \in {PREPARE, BUSY} THEN "start" ELSE "recv",
                    !.task = s, !.err = FALSE, !.key = NoKey]

\* The state that checkPendingOperation reports when it has emptied c.
PendingStateFirst(c) == Head(c)

PendingState(c) == Last(c)

\* checkPendingOperation, and the return to backgroundLoop if it has got
\* anything: empty the channel, exit if it is closed, process the last state
\* if there is one, and go on as next otherwise.
checkPendingOperation(l, next) ==
    /\ chan' = [chan EXCEPT ![l] = <<>>]
    /\ loop' = [loop EXCEPT ![l] =
                  IF closed[l] THEN [NewLoop EXCEPT !.uuid = loop[l].uuid, !.pc = "exit"]
                  ELSE IF chan[l] # <<>> THEN Dispatch(l, PendingState(chan[l]))
                  ELSE next]

\* Go on at pc; an error skips the rest of the operation.
ProceedErrorDropped(l, pc, err) ==
    [loop[l] EXCEPT !.pc = IF err THEN "recv" ELSE pc, !.err = err]

Proceed(l, pc, err) ==
    [loop[l] EXCEPT !.pc = IF err THEN "commit" ELSE pc, !.err = err]

\* <-bc.c: take the first state in the channel, or notice that it is closed.
Receive(l) ==
    /\ loop[l].pc = "recv"
    /\ \/ /\ chan[l] # <<>>
          /\ chan' = [chan EXCEPT ![l] = Tail(@)]
          /\ loop' = [loop EXCEPT ![l] = Dispatch(l, Head(chan[l]))]
       \/ /\ chan[l] = <<>> /\ closed[l]
          /\ loop' = [loop EXCEPT ![l] = [NewLoop EXCEPT !.uuid = loop[l].uuid, !.pc = "exit"]]
          /\ UNCHANGED chan
    /\ UNCHANGED <<workers, closed, sending, dryads>>

Start(l) ==
    /\ loop[l].pc = "start"
    /\ checkPendingOperation(l, Proceed(l, "addr", FALSE))
    /\ UNCHANGED <<workers, closed, sending, dryads>>

\* getWorkerAddr takes the mutex for reading.
GetWorkerAddr(l) ==
    /\ loop[l].pc = "addr"
    /\ MutexFree
    /\ checkPendingOperation(l, Proceed(l, "create", ~Registered(loop[l].uuid)))
    /\ UNCHANGED <<workers, closed, sending, dryads>>

\* client.Create dials the Dryad.
CreateClient(l, ok) ==
    /\ loop[l].pc = "create"
    /\ checkPendingOperation(l,
          Proceed(l, IF loop[l].task = PREPARE THEN "genkey" ELSE "maintain", ~ok))
    /\ UNCHANGED <<workers, closed, sending, dryads>>

InUse == {workers[w].key : w \in Workers} \cup {installed[w] : w \in Workers}
             \cup {loop[l].key : l \in Loops}

\* rsa.GenerateKey and ssh.NewPublicKey: a key that nobody has.
GenerateKey(l, ok) ==
    /\ loop[l].pc = "genkey"
    /\ LET key == IF ok THEN CHOOSE k \in Keys : k \notin InUse ELSE NoKey IN
       checkPendingOperation(l, [Proceed(l, "install", ~ok) EXCEPT !.key = key])
    /\ UNCHANGED <<workers, closed, sending, dryads>>

\* client.Prepare on the Dryad, which it leaves with the key left: if the
\* answer is an error, with the new one, the old one or none, since the user is
\* removed and added again.  A call whose connection breaks ends for the server
\* with an error, too, and may go on at the Dryad all the same.
CallPrepare(w, key, left, ok) ==
    /\ left \in (IF ok THEN {key} ELSE {key, installed[w], NoKey})
    /\ installed' = [installed EXCEPT ![w] = left]
    /\ overlapped' = [overlapped EXCEPT ![w] = givenup[w]]
    /\ \/ UNCHANGED givenup
       \/ ~ok /\ givenup' = [givenup EXCEPT ![w] = TRUE]

InstallKeyUnchecked(l, left, ok) ==
    /\ loop[l].pc = "install"
    /\ CallPrepare(loop[l].uuid, loop[l].key, left, ok)
    /\ checkPendingOperation(l, Proceed(l, "store", FALSE))
    /\ UNCHANGED <<workers, closed, sending>>

InstallKey(l, left, ok) ==
    /\ loop[l].pc = "install"
    /\ CallPrepare(loop[l].uuid, loop[l].key, left, ok)
    /\ checkPendingOperation(l, Proceed(l, "store", ~ok))
    /\ UNCHANGED <<workers, closed, sending>>

\* Prepares that the server has given up remove the user, write their key,
\* leave things as they are, or end.  Nothing says when.  A Prepare that they
\* met at the Dryad may find its key replaced already when it returns: their
\* end counts only when it has returned.
GivenUpGoesOn(w, left) ==
    /\ givenup[w]
    /\ left \in {LateKey, installed[w], NoKey}
    /\ installed' = [installed EXCEPT ![w] = left]
    /\ \/ UNCHANGED givenup
       \/ /\ \A l \in Loops : ~(loop[l].uuid = w /\ loop[l].pc = "install")
          /\ givenup' = [givenup EXCEPT ![w] = FALSE]
    /\ UNCHANGED <<workers, chan, closed, loop, sending, overlapped>>

\* setWorkerKey stores the key in whatever worker now has this UUID.
SetWorkerKey(l) ==
    LET w == loop[l].uuid IN
    /\ loop[l].pc = "store"
    /\ MutexFree
    /\ workers' = IF Registered(w) THEN [workers EXCEPT ![w].key = loop[l].key] ELSE workers
    /\ checkPendingOperation(l, Proceed(l, "commit", ~Registered(w)))
    /\ UNCHANGED <<closed, sending, dryads>>

\* client.PutInMaintenance.
PutInMaintenance(l, ok) ==
    /\ loop[l].pc = "maintain"
    /\ checkPendingOperation(l, Proceed(l, "commit", ~ok))
    /\ UNCHANGED <<workers, closed, sending, dryads>>

\* The worker was given a newer state, or was deregistered.
OvertakenClosedOnly(l) == closed[l]

Overtaken(l) == closed[l] \/ chan[l] # <<>>

\* The state that the operation has led to.
EndState(l) ==
    IF loop[l].err THEN FAIL
    ELSE IF loop[l].task = PREPARE THEN IDLE ELSE MAINTENANCE

\* The critical section that ends prepareKeyAndSetState and
\* putInMaintenanceWorker: look once more for a newer order, else set the
\* state that the operation has led to.  The channel is empty then, so that
\* this send never blocks.
Commit(l) ==
    LET w == loop[l].uuid
        s == EndState(l)
    IN
    /\ loop[l].pc = "commit"
    /\ MutexFree
    /\ IF Overtaken(l)
       THEN checkPendingOperation(l, loop[l]) /\ UNCHANGED workers
       ELSE /\ workers' = [workers EXCEPT ![w].state = s]
            /\ chan' = [chan EXCEPT ![workers[w].bg] = Append(@, s)]
            /\ loop' = [loop EXCEPT ![l].pc = "recv", ![l].err = FALSE, ![l].key = NoKey]
    /\ UNCHANGED <<closed, sending, dryads>>

-----------------------------------------------------------------------------
Init ==
    /\ workers = [w \in Workers |-> NoWorker]
    /\ chan = [l \in Loops |-> <<>>]
    /\ closed = [l \in Loops |-> FALSE]
    /\ loop = [l \in Loops |-> NewLoop]
    /\ sending = NotSending
    /\ installed = [w \in Workers |-> NoKey]
    /\ givenup = [w \in Workers |-> FALSE]
    /\ overlapped = [w \in Workers |-> FALSE]

Handler ==
    \E w \in Workers :
        \/ \E l \in Loops : RegisterNew(w, l)
        \/ \E changed \in BOOLEAN : RegisterAgain(w, changed)
        \/ SetFail(w)
        \/ \E state \in {IDLE, MAINTENANCE} : SetState(w, state)
        \/ Deregister(w)
        \/ TakeBestMatchingWorker(w)
        \/ \E withKeyGeneration \in BOOLEAN : PrepareWorker(w, withKeyGeneration)

Background(l) ==
    \/ Receive(l) \/ Start(l) \/ GetWorkerAddr(l)
    \/ \E ok \in BOOLEAN : CreateClient(l, ok)
    \/ \E ok \in BOOLEAN : GenerateKey(l, ok)
    \/ \E left \in DryadKeys, ok \in BOOLEAN : InstallKey(l, left, ok)
    \/ SetWorkerKey(l)
    \/ \E ok \in BOOLEAN : PutInMaintenance(l, ok)
    \/ Commit(l)

Next ==
    \/ Handler \/ finishSetState
    \/ \E l \in Loops : Background(l)
    \/ \E w \in Workers, left \in DryadKeys : GivenUpGoesOn(w, left)

Spec == Init /\ [][Next]_vars

\* Goroutines are scheduled fairly, and every RPC returns in the end.
FairSpec ==
    /\ Spec
    /\ WF_vars(finishSetState)
    /\ \A l \in Loops : WF_vars(Background(l))

-----------------------------------------------------------------------------
TypeOK ==
    /\ workers \in [Workers -> MapWorker \cup {NoWorker}]
    /\ chan \in [Loops -> Seq(WorkerState)]
    /\ \A l \in Loops : Len(chan[l]) <= BufferSize + 1
    /\ closed \in [Loops -> BOOLEAN]
    /\ loop \in [Loops -> [uuid : Workers \cup {0}, pc : PCs,
                           task : WorkerState \cup {ABSENT}, err : BOOLEAN,
                           key : Keys \cup {NoKey}]]
    /\ sending \in [uuid : Workers \cup {0}, state : WorkerState \cup {ABSENT}]
    /\ installed \in [Workers -> DryadKeys]
    /\ givenup \in [Workers -> BOOLEAN]
    /\ overlapped \in [Workers -> BOOLEAN]

\* No order is lost: a worker that is being prepared or brought into
\* maintenance has a goroutine that works on exactly that, or that will find
\* the order as the last one in its channel.  checkPendingOperation throws
\* away all but the last state, and backgroundLoop takes them one by one.
OrderNotLost ==
    \A w \in Workers :
        (workers[w].state \in {PREPARE, BUSY} /\ sending.uuid # w) =>
            LET l == workers[w].bg IN
            IF chan[l] # <<>> THEN Last(chan[l]) = workers[w].state
            ELSE loop[l].task = workers[w].state /\ loop[l].pc \notin {"recv", "exit"}

\* A worker that can be matched has a key, so that GetWorkerKey, which
\* dereferences it for AccessInfo, never meets a nil pointer.
RunnableHasKey ==
    \A w \in Workers : workers[w].state \in {IDLE, RUN} => workers[w].key # NoKey

\* The key that AcquireWorker hands out is the one that the Dryad accepts,
\* whatever call fails and whatever order overtakes another: prepareKey installs
\* the public part of a key on the worker and stores the private part of the
\* same key in WorkerList before the worker is IDLE.  There are two exceptions.
\* The worker has been registered more than once, so that its goroutine is not
\* the only one that prepares this Dryad; or a Prepare that the server gave up
\* was still at work there during the last one, and may have replaced its key.
\* A Prepare that is given up and ends before the next one begins does no harm.
KeyMatchesFirst ==
    \A w \in Workers :
        /\ workers[w].state \in {IDLE, RUN}
        /\ \A l \in Loops : l # workers[w].bg => loop[l].uuid # w
        /\ ~overlapped[w]
        => workers[w].key = installed[w]

\* Every step of the list is one that the abstract specification allows; in
\* particular a goroutine whose operation was overtaken by a newer order, or
\* whose worker was deregistered, does not touch the state any more.
ImplementsWorkerStates == Abstract!Spec

\* A preparation ends, with success, failure or a newer order, unless some
\* handler has got stuck in the send to a full channel.
PrepareEnds ==
    \A w \in Workers :
        workers[w].state = PREPARE ~> (workers[w].state # PREPARE \/ ~MutexFree)
=============================================================================
