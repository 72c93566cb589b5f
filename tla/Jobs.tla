-------------------------------- MODULE Jobs --------------------------------
(***************************************************************************)
(* matcher/jobs.go: JobsManagerImpl keeps at most one job for a worker,    *)
(* with the Tunnel through which the user reaches it.  Its mutex is held   *)
(* from the first to the last step of a call; only the two halves of       *)
(* Tunnel.Close, inside Finish, let the goroutines of the tunnel in.  Finish*)
(* returns, and the worker can be given to another user, before the tunnel *)
(* has got rid of its clients.                                             *)
(*                                                                         *)
(* Any order of calls is possible here; which one the server makes is in   *)
(* Boruta.  The key of a job is in Access.                                 *)
(***************************************************************************)
EXTENDS Tunnel

CONSTANT Workers      \* UUIDs

VARIABLES
    jobs,             \* JobsManagerImpl.jobs: the tunnel of each worker's job
    closing           \* the worker whose job Finish is closing, or NoWorker

vars == <<tunnel, jobs, closing>>

-----------------------------------------------------------------------------
NoWorker == 0
NoTunnel == 0

ASSUME WorkersAssumption == NoWorker \notin Workers
ASSUME TunnelsAssumption == Tunnels \subseteq Nat \ {NoTunnel}

MutexFree == closing = NoWorker

JobsInit ==
    /\ TunnelInit
    /\ jobs = [w \in Workers |-> NoTunnel]
    /\ closing = NoWorker

\* Create: refused if the worker has a job; changes nothing if the worker is
\* not known or no port can be opened.
CreateJobAgain(w, t) ==
    /\ MutexFree
    /\ \A s \in Tunnels : s < t => tunnel[s] # Free
    /\ Create(t)
    /\ jobs' = [jobs EXCEPT ![w] = t]
    /\ UNCHANGED closing

CreateJob(w, t) ==
    /\ MutexFree
    /\ jobs[w] = NoTunnel
    /\ \A s \in Tunnels : s < t => tunnel[s] # Free
    /\ Create(t)
    /\ jobs' = [jobs EXCEPT ![w] = t]
    /\ UNCHANGED closing

\* Finish, up to the middle of Tunnel.Close; an error without a job.
FinishUnchecked(w) ==
    /\ MutexFree
    /\ CloseDone(jobs[w])
    /\ closing' = w
    /\ UNCHANGED jobs

Finish(w) ==
    /\ MutexFree
    /\ jobs[w] # NoTunnel
    /\ CloseDone(jobs[w])
    /\ closing' = w
    /\ UNCHANGED jobs

\* The rest of Close, and the job is removed.
EndFinish ==
    /\ ~MutexFree
    /\ CloseListener(jobs[closing])
    /\ jobs' = [jobs EXCEPT ![closing] = NoTunnel]
    /\ closing' = NoWorker

ForwardStep == TunnelStep /\ UNCHANGED <<jobs, closing>>

JobsNext ==
    \/ \E w \in Workers : Finish(w) \/ \E t \in Tunnels : CreateJob(w, t)
    \/ EndFinish
    \/ ForwardStep

\* Goroutines are scheduled fairly, and dialling ends: TCP gives up at last.
JobsSpec ==
    /\ JobsInit /\ [][JobsNext]_vars
    /\ WF_vars(EndFinish)
    /\ \A t \in Tunnels :
          /\ WF_vars(LoopStep(t) /\ UNCHANGED <<jobs, closing>>)
          /\ \A c \in Conns : WF_vars(ForwardEnds(t, c) /\ UNCHANGED <<jobs, closing>>)

-----------------------------------------------------------------------------
JobsTypeOK ==
    /\ tunnel \in [Tunnels -> TunnelState]
    /\ jobs \in [Workers -> Tunnels \cup {NoTunnel}]
    /\ closing \in {w \in Workers : jobs[w] # NoTunnel} \cup {NoWorker}

\* Tunnels and jobs belong together, one to one: no tunnel stays open that no
\* job could close any more, no two jobs share one, and the tunnel of a job has
\* not been closed, so that Finish never closes the channel done twice, which
\* would panic.
OpenTunnelHasJob ==
    /\ \A t \in Tunnels : ~tunnel[t].done =>
          /\ tunnel[t].listening /\ tunnel[t].pc # "returned"
          /\ \E w \in Workers : {v \in Workers : jobs[v] = t} = {w}
    /\ \A w \in Workers : jobs[w] # NoTunnel /\ w # closing => ~tunnel[jobs[w]].done

\* A tunnel that has been closed gets rid of everything: its loop returns even
\* if it was dialling or accepting, no client it let in meanwhile stays
\* connected to the Dryad, and the goroutines that copied data end.
ClosedTunnelDrains == \A t \in Tunnels : tunnel[t].done ~> tunnel[t] = Free
=============================================================================
