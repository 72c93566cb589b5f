----------------------------- MODULE JobsProofs -----------------------------
(***************************************************************************)
(* Tunnels and jobs belong together, for any numbers of workers, tunnels   *)
(* and connections.                                                        *)
(***************************************************************************)
EXTENDS Jobs, TLAPS

\* What makes OpenTunnelHasJob inductive: the tunnel of the job that is being
\* closed is the only one that has a job and has been told to end.
OpenTunnels ==
    \A t \in Tunnels : ~tunnel[t].done =>
        /\ tunnel[t].listening
        /\ tunnel[t].pc # "returned"
        /\ \E w \in Workers : jobs[w] = t

OpenJobs ==
    \A w \in Workers : jobs[w] # NoTunnel => (tunnel[jobs[w]].done <=> w = closing)

NotShared ==
    \A v, w \in Workers : jobs[v] = jobs[w] /\ jobs[v] # NoTunnel => v = w

IInv == JobsTypeOK /\ OpenTunnels /\ OpenJobs /\ NotShared

-----------------------------------------------------------------------------
\* The state in which listenAndForward leaves its connections is one of a tunnel.
LEMMA ClosedConns ==
    ASSUME NEW conns \in [Conns -> ConnState]
    PROVE  CloseConns(conns) \in [Conns -> ConnState]
BY DEF CloseConns, ConnState

\* A place where no tunnel is has the type of one.
LEMMA FreeType == Free \in TunnelState
BY DEF Free, TunnelState, NoConns, ConnState

\* What a step of the goroutines leaves alone: whether a tunnel has been told to
\* end and whether it listens.  A loop that returns has been told to.
Kept ==
    /\ tunnel' \in [Tunnels -> TunnelState]
    /\ \A s \in Tunnels :
          /\ tunnel'[s].done = tunnel[s].done
          /\ tunnel'[s].listening = tunnel[s].listening
          /\ tunnel'[s].pc = "returned" => tunnel[s].pc = "returned" \/ tunnel[s].done

\* A step of listenAndForward or of a connection opens and closes no tunnel.
LEMMA ForwardKeeps ==
    ASSUME tunnel \in [Tunnels -> TunnelState], TunnelStep
    PROVE  Kept
<1>1. PICK t \in Tunnels :
          \/ Select(t) \/ Accept(t) \/ AcceptFails(t) \/ DialFails(t)
          \/ \E c \in Conns : DialSucceeds(t, c) \/ PeerCloses(t, c) \/ ForwardEnds(t, c)
  BY DEF TunnelStep
<1>2. tunnel[t] \in TunnelState /\ tunnel[t].conns \in [Conns -> ConnState]
  BY DEF TunnelState
\* Every action changes at most the place of one loop, and its connections.
<1>3. ASSUME NEW pc \in {"select", "accept", "dial", "returned"}, NEW conns \in [Conns -> ConnState],
             tunnel' = [tunnel EXCEPT ![t] = [@ EXCEPT !.pc = pc, !.conns = conns]],
             pc = "returned" => tunnel[t].pc = "returned" \/ tunnel[t].done
      PROVE  Kept
  <2>. DEFINE new == [tunnel[t] EXCEPT !.pc = pc, !.conns = conns]
  <2>1. /\ new \in TunnelState
        /\ new.done = tunnel[t].done /\ new.listening = tunnel[t].listening /\ new.pc = pc
    BY <1>2 DEF TunnelState
  <2>2. tunnel' = [tunnel EXCEPT ![t] = new]
    BY <1>3
  <2>. HIDE DEF new
  <2>3. tunnel' \in [Tunnels -> TunnelState]
    BY <2>1, <2>2
  <2>. QED  BY <1>3, <2>1, <2>2, <2>3 DEF Kept
<1>4. ASSUME NEW pc \in {"select", "accept", "dial"}, tunnel' = [tunnel EXCEPT ![t].pc = pc]
      PROVE  Kept
  <2>1. tunnel' = [tunnel EXCEPT ![t] = [@ EXCEPT !.pc = pc, !.conns = tunnel[t].conns]]
    BY <1>2, <1>4 DEF TunnelState
  <2>. QED  BY <1>2, <1>3, <2>1
<1>5. ASSUME NEW c \in Conns, NEW s \in ConnState, tunnel' = [tunnel EXCEPT ![t].conns[c] = s]
      PROVE  Kept
  <2>1. /\ [tunnel[t].conns EXCEPT ![c] = s] \in [Conns -> ConnState]
        /\ tunnel' = [tunnel EXCEPT ![t] = [@ EXCEPT !.pc = tunnel[t].pc,
                                           !.conns = [tunnel[t].conns EXCEPT ![c] = s]]]
    BY <1>2, <1>5 DEF TunnelState
  <2>2. tunnel[t].pc \in {"select", "accept", "dial", "returned"}
    BY <1>2 DEF TunnelState
  <2>. QED  BY <1>3, <2>1, <2>2
<1>6. CASE Select(t)
  <2>1. CASE tunnel[t].done
    <3>1. CloseConns(tunnel[t].conns) \in [Conns -> ConnState]
      BY <1>2, ClosedConns
    <3>2. tunnel' = [tunnel EXCEPT ![t] = [@ EXCEPT !.pc = "returned",
                                                    !.conns = CloseConns(tunnel[t].conns)]]
      BY <1>6, <2>1 DEF Select
    <3>. QED  BY <1>3, <2>1, <3>1, <3>2
  <2>2. CASE ~tunnel[t].done
    BY <1>4, <1>6, <2>2 DEF Select
  <2>. QED  BY <2>1, <2>2
<1>7. CASE Accept(t) \/ AcceptFails(t) \/ DialFails(t)
  BY <1>4, <1>7 DEF Accept, AcceptFails, DialFails
<1>8. ASSUME NEW c \in Conns, DialSucceeds(t, c)
      PROVE  Kept
  <2>1. [tunnel[t].conns EXCEPT ![c] = "open"] \in [Conns -> ConnState]
    BY <1>2 DEF ConnState
  <2>2. tunnel' = [tunnel EXCEPT ![t] = [@ EXCEPT !.pc = "select",
                                         !.conns = [tunnel[t].conns EXCEPT ![c] = "open"]]]
    BY <1>8 DEF DialSucceeds
  <2>. QED  BY <1>3, <2>1, <2>2
<1>9. ASSUME NEW c \in Conns, PeerCloses(t, c) \/ ForwardEnds(t, c)
      PROVE  Kept
  BY <1>5, <1>9 DEF PeerCloses, ForwardEnds, ConnState
<1>. QED  BY <1>1, <1>6, <1>7, <1>8, <1>9

-----------------------------------------------------------------------------
\* NewJobsManager: no jobs, no tunnels.
LEMMA InitInv == JobsInit => IInv
<1>. SUFFICES ASSUME JobsInit PROVE IInv
  OBVIOUS
<1>1. tunnel = [t \in Tunnels |-> Free] /\ closing = NoWorker
  BY DEF JobsInit, TunnelInit
<1>2. \A w \in Workers : jobs[w] = NoTunnel
  BY DEF JobsInit
<1>3. JobsTypeOK
  BY <1>1, FreeType DEF JobsInit, JobsTypeOK
<1>4. OpenTunnels
  BY <1>1 DEF OpenTunnels, Free
<1>. QED  BY <1>2, <1>3, <1>4 DEF IInv, OpenJobs, NotShared

\* Create takes a tunnel that no job has, since the tunnel of a job is open.
LEMMA CreateInv ==
    ASSUME IInv, NEW w \in Workers, NEW t \in Tunnels, CreateJob(w, t)
    PROVE  IInv'
<1>1. /\ closing = NoWorker /\ closing' = closing
      /\ jobs' = [jobs EXCEPT ![w] = t] /\ jobs[w] = NoTunnel
      /\ tunnel[t] = Free
      /\ t # NoTunnel
  BY TunnelsAssumption DEF CreateJob, Create, MutexFree
<1>2. tunnel' = [tunnel EXCEPT ![t] = [pc |-> "select", done |-> FALSE, listening |-> TRUE,
                                       conns |-> NoConns]]
  BY DEF CreateJob, Create
<1>3. tunnel \in [Tunnels -> TunnelState] /\ jobs \in [Workers -> Tunnels \cup {NoTunnel}]
  BY DEF IInv, JobsTypeOK
<1>4. \A v \in Workers : jobs[v] # t
  BY <1>1, WorkersAssumption DEF IInv, OpenJobs, Free
<1>5. JobsTypeOK'
  <2>1. [pc |-> "select", done |-> FALSE, listening |-> TRUE, conns |-> NoConns] \in TunnelState
    BY DEF TunnelState, NoConns, ConnState
  <2>. QED  BY <1>1, <1>2, <1>3, <2>1 DEF JobsTypeOK
<1>6. OpenTunnels'
  <2>. SUFFICES ASSUME NEW s \in Tunnels, ~tunnel'[s].done
                PROVE  /\ tunnel'[s].listening /\ tunnel'[s].pc # "returned"
                       /\ \E v \in Workers : jobs'[v] = s
    BY DEF OpenTunnels
  <2>1. CASE s = t
    BY <1>1, <1>2, <1>3, <2>1
  <2>2. CASE s # t
    <3>1. tunnel'[s] = tunnel[s]
      BY <1>2, <1>3, <2>2
    <3>2. PICK v \in Workers : jobs[v] = s
      BY <3>1 DEF IInv, OpenTunnels
    <3>3. s # NoTunnel
      BY TunnelsAssumption
    <3>4. jobs'[v] = s
      BY <1>1, <1>3, <3>2, <3>3
    <3>. QED  BY <3>1, <3>4 DEF IInv, OpenTunnels
  <2>. QED  BY <2>1, <2>2
<1>7. OpenJobs'
  BY <1>1, <1>2, <1>3, <1>4, WorkersAssumption DEF IInv, OpenJobs
<1>8. NotShared'
  BY <1>1, <1>3, <1>4 DEF IInv, NotShared
<1>. QED  BY <1>5, <1>6, <1>7, <1>8 DEF IInv

\* Finish closes the channel of its own tunnel and of no other.
LEMMA FinishInv ==
    ASSUME IInv, NEW w \in Workers, Finish(w)
    PROVE  IInv'
<1>1. /\ closing = NoWorker /\ closing' = w /\ jobs' = jobs
      /\ jobs[w] # NoTunnel
      /\ tunnel' = [tunnel EXCEPT ![jobs[w]].done = TRUE]
  BY DEF Finish, CloseDone, MutexFree
<1>2. /\ tunnel \in [Tunnels -> TunnelState] /\ jobs \in [Workers -> Tunnels \cup {NoTunnel}]
      /\ jobs[w] \in Tunnels
  BY <1>1 DEF IInv, JobsTypeOK
<1>3. JobsTypeOK'
  BY <1>1, <1>2 DEF JobsTypeOK, TunnelState
<1>4. OpenTunnels'
  BY <1>1, <1>2 DEF IInv, OpenTunnels, TunnelState
<1>5. OpenJobs'
  <2>. SUFFICES ASSUME NEW v \in Workers, jobs[v] # NoTunnel
                PROVE  tunnel'[jobs[v]].done <=> v = w
    BY <1>1 DEF OpenJobs
  <2>1. jobs[v] \in Tunnels
    BY <1>2
  <2>2. CASE v = w
    BY <1>1, <1>2, <2>2 DEF TunnelState
  <2>3. CASE v # w
    <3>1. jobs[v] # jobs[w]
      BY <1>1, <2>3 DEF IInv, NotShared
    <3>2. ~tunnel[jobs[v]].done
      BY <1>1, WorkersAssumption DEF IInv, OpenJobs
    <3>. QED  BY <1>1, <1>2, <2>1, <2>3, <3>1, <3>2
  <2>. QED  BY <2>2, <2>3
<1>6. NotShared'
  BY <1>1 DEF IInv, NotShared
<1>. QED  BY <1>3, <1>4, <1>5, <1>6 DEF IInv

\* The job goes when its tunnel has been told to end, so none is left open.
LEMMA EndFinishInv ==
    ASSUME IInv, EndFinish
    PROVE  IInv'
<1>1. /\ closing # NoWorker /\ closing' = NoWorker
      /\ jobs' = [jobs EXCEPT ![closing] = NoTunnel]
      /\ tunnel' = [tunnel EXCEPT ![jobs[closing]].listening = FALSE]
  BY DEF EndFinish, CloseListener, MutexFree
<1>2. /\ tunnel \in [Tunnels -> TunnelState] /\ jobs \in [Workers -> Tunnels \cup {NoTunnel}]
      /\ closing \in Workers /\ jobs[closing] \in Tunnels
      /\ jobs[closing] # NoTunnel
  BY <1>1 DEF IInv, JobsTypeOK
<1>3. tunnel[jobs[closing]].done
  BY <1>2 DEF IInv, OpenJobs
<1>4. \A t \in Tunnels : tunnel'[t].done = tunnel[t].done /\ tunnel'[t].pc = tunnel[t].pc
  BY <1>1, <1>2 DEF TunnelState
<1>5. JobsTypeOK'
  BY <1>1, <1>2 DEF JobsTypeOK, TunnelState
<1>6. OpenTunnels'
  <2>. SUFFICES ASSUME NEW t \in Tunnels, ~tunnel[t].done
                PROVE  /\ tunnel'[t].listening /\ tunnel'[t].pc # "returned"
                       /\ \E w \in Workers : jobs'[w] = t
    BY <1>4 DEF OpenTunnels
  <2>1. t # jobs[closing]
    BY <1>3
  <2>2. PICK w \in Workers : jobs[w] = t
    BY DEF IInv, OpenTunnels
  <2>3. jobs'[w] = t
    BY <1>1, <1>2, <2>1, <2>2
  <2>. QED  BY <1>1, <1>2, <1>4, <2>1, <2>3 DEF IInv, OpenTunnels
<1>7. OpenJobs'
  BY <1>1, <1>2, <1>4, WorkersAssumption DEF IInv, OpenJobs
<1>8. NotShared'
  BY <1>1, <1>2 DEF IInv, NotShared
<1>. QED  BY <1>5, <1>6, <1>7, <1>8 DEF IInv

\* The goroutines of the tunnels leave jobs alone.
LEMMA ForwardInv ==
    ASSUME IInv, ForwardStep
    PROVE  IInv'
<1>1. jobs' = jobs /\ closing' = closing /\ jobs \in [Workers -> Tunnels \cup {NoTunnel}]
  BY DEF IInv, JobsTypeOK, ForwardStep
<1>2. Kept
  BY ForwardKeeps DEF IInv, JobsTypeOK, ForwardStep
<1>3. JobsTypeOK'
  BY <1>1, <1>2 DEF IInv, JobsTypeOK, Kept
<1>4. OpenTunnels'
  BY <1>1, <1>2 DEF IInv, OpenTunnels, Kept
<1>5. OpenJobs' /\ NotShared'
  BY <1>1, <1>2 DEF IInv, OpenJobs, NotShared, Kept
<1>. QED  BY <1>3, <1>4, <1>5 DEF IInv

-----------------------------------------------------------------------------
\* Every step keeps the invariant.
LEMMA StepInv == IInv /\ [JobsNext]_vars => IInv'
<1>. SUFFICES ASSUME IInv, [JobsNext]_vars PROVE IInv'
  OBVIOUS
<1>1. CASE UNCHANGED vars
  BY <1>1 DEF vars, IInv, JobsTypeOK, OpenTunnels, OpenJobs, NotShared
<1>2. ASSUME NEW w \in Workers, Finish(w) PROVE IInv'
  BY <1>2, FinishInv
<1>3. ASSUME NEW w \in Workers, NEW t \in Tunnels, CreateJob(w, t) PROVE IInv'
  BY <1>3, CreateInv
<1>4. CASE EndFinish
  BY <1>4, EndFinishInv
<1>5. CASE ForwardStep
  BY <1>5, ForwardInv
<1>. QED  BY <1>1, <1>2, <1>3, <1>4, <1>5 DEF JobsNext

\* The invariant says more than OpenTunnelHasJob.
LEMMA InvImplies == IInv => OpenTunnelHasJob
<1>. SUFFICES ASSUME IInv PROVE OpenTunnelHasJob
  OBVIOUS
<1>1. ASSUME NEW t \in Tunnels, ~tunnel[t].done
      PROVE  \E w \in Workers : {v \in Workers : jobs[v] = t} = {w}
  <2>1. PICK w \in Workers : jobs[w] = t
    BY <1>1 DEF IInv, OpenTunnels
  <2>2. t # NoTunnel
    BY TunnelsAssumption
  <2>3. \A v \in Workers : jobs[v] = t => v = w
    BY <2>1, <2>2 DEF IInv, NotShared
  <2>. QED  BY <2>1, <2>3
<1>2. \A w \in Workers : jobs[w] # NoTunnel /\ w # closing => ~tunnel[jobs[w]].done
  BY DEF IInv, OpenJobs
<1>. QED  BY <1>1, <1>2 DEF IInv, OpenTunnels, OpenTunnelHasJob

\* JobsManagerImpl and its tunnels keep their types: a job always has a tunnel
\* that exists, and Finish always closes that of a job.
THEOREM JobsTypesKept == JobsSpec => []JobsTypeOK
<1>1. IInv => JobsTypeOK
  BY DEF IInv
<1>. QED  BY <1>1, InitInv, StepInv, PTL DEF JobsSpec

\* JobsManagerImpl.Create and Finish keep tunnels and jobs one to one: whatever
\* the goroutines of the tunnels do meanwhile, no open tunnel is left without a
\* job, none has two, and Finish never closes a channel twice.
THEOREM TunnelsHaveJobs == JobsSpec => []OpenTunnelHasJob
BY InitInv, StepInv, InvImplies, PTL DEF JobsSpec
=============================================================================
