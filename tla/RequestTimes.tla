---------------------------- MODULE RequestTimes ----------------------------
(***************************************************************************)
(* requests/times.go: a collection of points in time, one timer set for    *)
(* the earliest of them, and the goroutine that takes the ticks of the     *)
(* timer, hands the requests whose time has passed to the matcher and sets *)
(* the timer again.  Boruta uses three of them as its alarms.              *)
(*                                                                         *)
(* The timer (external, package time of Go 1.16) sends the time at which   *)
(* it goes off to a channel of capacity one and drops it if the channel is *)
(* full; neither Stop nor Reset takes a tick out of the channel.  The      *)
(* mutex is held while the matcher's Notify runs.                          *)
(***************************************************************************)
EXTENDS Naturals, FiniteSets

CONSTANTS
    Requests,   \* request IDs
    MaxTime     \* bound: the clock stops there

ASSUME TimeAssumption == MaxTime \in Nat \ {0}

VARIABLES
    times,      \* the <<time, request>> pairs in the heap
    timer,      \* when the timer goes off, or NotSet
    tick,       \* the time in the timer's channel, or NotSet
    loop,       \* where the goroutine is, and the time it has received
    past,       \* the requests passed to Notify
    stop,       \* finish has closed the channel stop
    clock

vars == <<times, timer, tick, loop, past, stop, clock>>

NotSet == MaxTime + 1

Waiting == [pc |-> "select", t |-> 0]

minTime(entries) ==
    CHOOSE t \in {e[1] : e \in entries} : \A e \in entries : t <= e[1]

Init ==
    /\ times = {}
    /\ timer = NotSet       \* set for a hundred years ahead
    /\ tick = NotSet
    /\ loop = Waiting
    /\ past = {}
    /\ stop = FALSE
    /\ clock = 1

MutexFreeInNotify == TRUE

MutexFree == loop.pc # "notify"

\* Whether insert must set the timer to the time it has just inserted.
IsMinOnlyFirst(t) == times = {}

IsMin(t) == \A e \in times : t <= e[1]

insertUntimed(t, req) ==
    /\ MutexFree
    /\ times' = times \cup {<<0, req>>}
    /\ timer' = clock
    /\ UNCHANGED <<tick, loop, past, stop, clock>>

insert(t, req) ==
    /\ MutexFree
    /\ times' = times \cup {<<t, req>>}
    /\ timer' = IF IsMin(t) THEN t ELSE timer
    /\ UNCHANGED <<tick, loop, past, stop, clock>>

\* The timer goes off, at its time or later.
GoOff ==
    /\ timer <= clock
    /\ timer' = NotSet
    /\ tick' = IF tick = NotSet THEN clock ELSE tick
    /\ UNCHANGED <<times, loop, past, stop, clock>>

\* The loop receives a tick; process has still to take the mutex.
Receive ==
    /\ loop.pc = "select"
    /\ tick # NotSet
    /\ tick' = NotSet
    /\ loop' = [pc |-> "process", t |-> tick]
    /\ UNCHANGED <<times, timer, past, stop, clock>>

\* process takes out what is before the tick and calls Notify.
BeginNotify ==
    /\ loop.pc = "process"
    /\ times' = {e \in times : ~(e[1] < loop.t)}
    /\ past' = {e[2] : e \in times \ times'}
    /\ loop' = [loop EXCEPT !.pc = "notify"]
    /\ UNCHANGED <<timer, tick, stop, clock>>

\* Notify has returned; the timer is set for the earliest time left.
EndNotifyNoReset ==
    /\ loop.pc = "notify"
    /\ loop' = Waiting
    /\ past' = {}
    /\ UNCHANGED <<times, timer, tick, stop, clock>>

EndNotify ==
    /\ loop.pc = "notify"
    /\ timer' = IF times # {} THEN minTime(times) ELSE timer
    /\ loop' = Waiting
    /\ past' = {}
    /\ UNCHANGED <<times, tick, stop, clock>>

\* finish stops the timer and the goroutine, and waits for the goroutine.
finish ==
    /\ ~stop
    /\ timer' = NotSet
    /\ stop' = TRUE
    /\ UNCHANGED <<times, tick, loop, past, clock>>

StopWhenEmpty ==
    /\ loop.pc = "select"
    /\ stop /\ times = {}
    /\ loop' = [loop EXCEPT !.pc = "returned"]
    /\ UNCHANGED <<times, timer, tick, past, stop, clock>>

Stop ==
    /\ loop.pc = "select"
    /\ stop
    /\ loop' = [loop EXCEPT !.pc = "returned"]
    /\ UNCHANGED <<times, timer, tick, past, stop, clock>>

Tick ==
    /\ clock < MaxTime
    /\ clock' = clock + 1
    /\ UNCHANGED <<times, timer, tick, loop, past, stop>>

Loop == Receive \/ BeginNotify \/ EndNotify

Next ==
    \/ \E t \in 1 .. MaxTime, req \in Requests : ~stop /\ insert(t, req)
    \/ GoOff \/ Loop \/ finish \/ Stop \/ Tick

Spec == Init /\ [][Next]_vars

\* Time passes, timers go off, Notify returns, and the goroutine is scheduled;
\* a select with two ready cases takes each of them again and again.
Fairness == WF_vars(Tick) /\ WF_vars(GoOff) /\ WF_vars(Loop) /\ SF_vars(Stop)

FairSpec == Spec /\ Fairness

-----------------------------------------------------------------------------
TypeOK ==
    /\ times \subseteq (1 .. MaxTime) \X Requests
    /\ timer \in 1 .. NotSet
    /\ tick \in 1 .. NotSet
    /\ loop \in [pc : {"select", "process", "notify", "returned"}, t : 0 .. MaxTime]
    /\ past \subseteq Requests
    /\ stop \in BOOLEAN
    /\ clock \in 1 .. MaxTime

\* No alarm is forgotten: while the goroutine waits and something is in the
\* heap, the timer is set no later than the earliest time, or a tick is
\* already in the channel, stale or not.
TimerCoversMin ==
    times # {} /\ loop.pc = "select" /\ ~stop =>
        tick # NotSet \/ timer <= minTime(times)

\* The collection keeps what Alarms promises: what process takes out is before
\* a moment that has come, also when the tick is stale; a request leaves the
\* collection only for Notify; and nothing is inserted before Notify returns.
AL == INSTANCE Alarms WITH Moments <- 1 .. MaxTime, due <- past

ImplementsAlarms == AL!Spec

\* An inserted time that passes is reported to the matcher, unless finish is
\* called, in whatever order times are inserted and ticks go stale.
InsertedIsNotified ==
    \A t \in 1 .. MaxTime - 1, req \in Requests :
        <<t, req>> \in times ~> (req \in past \/ stop)

\* finish returns: it stops the goroutine even if ticks keep coming.
FinishReturns == stop ~> loop.pc = "returned"
=============================================================================
