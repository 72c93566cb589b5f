------------------------- MODULE RequestTimesProofs -------------------------
(***************************************************************************)
(* Theorems about the alarms of RequestTimes, for any requests and any     *)
(* number of moments: their type, that no time in the heap is forgotten,   *)
(* that they implement Alarms, and that the heap of HeapTimes, however     *)
(* long it grows, has what is in the set and its least element in front.   *)
(***************************************************************************)
EXTENDS HeapTimes, WellFoundedInduction, TLAPS

USE TimeAssumption DEF TimeAssumption

\* While the goroutine waits, the timer covers every time there is, and a tick
\* in the channel stands for those the timer has been late for.
Covered ==
    loop.pc = "select" /\ ~stop => tick # NotSet \/ \A e \in times : timer <= e[1]

\* TimerCoversMin looks at the waiting goroutine too; what makes it hold after
\* process is that nobody inserts while Notify runs, and that EndNotify sets
\* the timer anew.
IInv == TypeOK /\ Covered

-----------------------------------------------------------------------------
\* There is a least time, and minTime finds it.
LEMMA MinTime ==
    ASSUME NEW entries, entries # {}, entries \subseteq (1 .. MaxTime) \X Requests
    PROVE  /\ \E e \in entries : minTime(entries) = e[1]
           /\ \A e \in entries : minTime(entries) <= e[1]
<1>. DEFINE T == {e[1] : e \in entries}
<1>1. T # {} /\ T \subseteq Nat
  OBVIOUS
<1>. DEFINE R == {ss \in Nat \X Nat : ss[1] < ss[2]}
<1>2. IsWellFoundedOn(R, Nat)
  BY NatLessThanWellFounded DEF OpToRel
<1>3. PICK t \in T : \A u \in T : ~ (<<u, t>> \in R)
  <2>. HIDE DEF R, T
  <2>. QED  BY <1>1, <1>2, WFMin
<1>4. ASSUME NEW e \in entries PROVE t <= e[1]
  <2>1. t \in Nat /\ e[1] \in Nat /\ ~ (<<e[1], t>> \in R)
    BY <1>1, <1>3
  <2>2. e[1] < t => <<e[1], t>> \in R
    BY <2>1
  <2>. QED  BY <2>1, <2>2
<1>5. minTime(entries) \in T /\ \A e \in entries : minTime(entries) <= e[1]
  BY <1>3, <1>4 DEF minTime
<1>. QED  BY <1>5

\* The goroutine starts with no time to wait for.
LEMMA InitInv == Init => IInv
<1>. SUFFICES ASSUME Init PROVE IInv
  OBVIOUS
<1>1. TypeOK
  <2>1. 1 \in 1 .. MaxTime /\ NotSet \in 1 .. NotSet /\ 0 \in 0 .. MaxTime
    BY DEF NotSet
  <2>2. Waiting \in [pc : {"select", "process", "notify", "returned"}, t : 0 .. MaxTime]
    BY <2>1 DEF Waiting
  <2>. QED  BY <2>1, <2>2 DEF Init, TypeOK
<1>2. Covered
  BY DEF Init, Covered
<1>. QED  BY <1>1, <1>2 DEF IInv

\* insert: what is earlier than all the others sets the timer; what is not has
\* the timer, or a tick, before it.
LEMMA InsertKeeps ==
    ASSUME IInv, NEW t \in 1 .. MaxTime, NEW req \in Requests, insert(t, req)
    PROVE  IInv'
<1>1. TypeOK'
  BY DEF insert, IInv, TypeOK, NotSet
<1>2. Covered'
  <2>. SUFFICES ASSUME loop.pc = "select", ~stop, tick = NotSet,
                       NEW e \in times \cup {<<t, req>>}
                PROVE  timer' <= e[1]
    BY DEF insert, Covered
  <2>1. \A d \in times : timer <= d[1]
    BY DEF IInv, Covered
  <2>2. CASE IsMin(t)
    BY <2>2 DEF insert, IsMin, IInv, TypeOK
  <2>3. CASE ~IsMin(t)
    <3>1. PICK d \in times : ~(t <= d[1])
      BY <2>3 DEF IsMin
    <3>2. timer <= d[1] /\ d[1] < t
      BY <2>1, <3>1 DEF IInv, TypeOK
    <3>3. timer' = timer
      BY <2>3 DEF insert
    <3>. QED  BY <2>1, <3>2, <3>3 DEF IInv, TypeOK, NotSet
  <2>. QED  BY <2>2, <2>3
<1>. QED  BY <1>1, <1>2 DEF IInv

\* A timer that has gone off has left a tick behind.
LEMMA GoOffKeeps == ASSUME IInv, GoOff PROVE IInv'
BY DEF GoOff, IInv, TypeOK, Covered, NotSet

\* Whoever takes the tick does not wait any more.
LEMMA ReceiveKeeps == ASSUME IInv, Receive PROVE IInv'
BY DEF Receive, IInv, TypeOK, Covered, NotSet

\* What is past leaves the heap and goes to Notify.
LEMMA BeginNotifyKeeps == ASSUME IInv, BeginNotify PROVE IInv'
<1>1. TypeOK'
  BY DEF BeginNotify, IInv, TypeOK
<1>. QED  BY <1>1 DEF BeginNotify, IInv, TypeOK, Covered

\* The goroutine waits again, with the timer set for the earliest time left.
LEMMA EndNotifyKeeps == ASSUME IInv, EndNotify PROVE IInv'
<1>1. CASE times = {}
  BY <1>1 DEF EndNotify, IInv, TypeOK, Covered, Waiting
<1>2. CASE times # {}
  <2>1. timer' \in 1 .. MaxTime /\ \A e \in times : timer' <= e[1]
    BY <1>2, MinTime DEF EndNotify, IInv, TypeOK
  <2>. QED  BY <2>1 DEF EndNotify, IInv, TypeOK, Covered, Waiting, NotSet
<1>. QED  BY <1>1, <1>2

\* Every step of RequestTimes keeps the invariant.
LEMMA StepInv == IInv /\ [Next]_vars => IInv'
<1>. SUFFICES ASSUME IInv, [Next]_vars PROVE IInv'
  OBVIOUS
<1>1. CASE UNCHANGED vars
  BY <1>1 DEF vars, IInv, TypeOK, Covered
<1>2. CASE \E t \in 1 .. MaxTime, req \in Requests : ~stop /\ insert(t, req)
  BY <1>2, InsertKeeps
<1>3. CASE GoOff
  BY <1>3, GoOffKeeps
<1>4. CASE Loop
  BY <1>4, ReceiveKeeps, BeginNotifyKeeps, EndNotifyKeeps DEF Loop
<1>5. CASE finish
  BY <1>5 DEF finish, IInv, TypeOK, Covered, NotSet
<1>6. CASE Stop
  BY <1>6 DEF Stop, IInv, TypeOK, Covered
<1>7. CASE Tick
  BY <1>7 DEF Tick, IInv, TypeOK, Covered
<1>. QED  BY <1>1, <1>2, <1>3, <1>4, <1>5, <1>6, <1>7 DEF Next

\* The invariant holds in every reachable state.
THEOREM Invariance == Spec => []IInv
BY InitInv, StepInv, PTL DEF Spec

\* TypeOK, of the alarms of requests/times.go.
THEOREM TypesKept == Spec => []TypeOK
<1>1. IInv => TypeOK
  BY DEF IInv
<1>. QED  BY <1>1, Invariance, PTL

\* TimerCoversMin: no alarm is forgotten.  While the goroutine waits and the
\* heap is not empty, the timer goes off no later than the earliest time, or a
\* tick is in the channel already.
THEOREM NoneForgotten == Spec => []TimerCoversMin
<1>1. IInv => TimerCoversMin
  <2>. SUFFICES ASSUME IInv, times # {}, loop.pc = "select", ~stop, tick = NotSet
                PROVE  timer <= minTime(times)
    BY DEF TimerCoversMin
  <2>1. PICK e \in times : minTime(times) = e[1]
    BY MinTime DEF IInv, TypeOK
  <2>. QED  BY <2>1 DEF IInv, Covered
<1>. QED  BY <1>1, Invariance, PTL

-----------------------------------------------------------------------------
(***************************************************************************)
(* ImplementsAlarms.                                                       *)
(***************************************************************************)
\* What is past is there while Notify runs only, and a tick, in the channel or
\* received, is the time of some moment that has come, however late it is.
AlarmInv ==
    /\ loop.pc # "notify" => past = {}
    /\ tick # NotSet => tick <= clock
    /\ loop.pc = "process" => loop.t \in 1 .. MaxTime /\ loop.t <= clock

\* Every step keeps that.
LEMMA AlarmInvKept == IInv /\ AlarmInv /\ [Next]_vars => AlarmInv'
<1>. SUFFICES ASSUME IInv, AlarmInv, [Next]_vars PROVE AlarmInv'
  OBVIOUS
<1>1. /\ tick \in 1 .. NotSet /\ clock \in 1 .. MaxTime
      /\ loop \in [pc : {"select", "process", "notify", "returned"}, t : 0 .. MaxTime]
  BY DEF IInv, TypeOK
<1>2. CASE UNCHANGED <<tick, loop, past, clock>>
  BY <1>2 DEF AlarmInv
<1>3. CASE GoOff
  BY <1>1, <1>3 DEF GoOff, AlarmInv
<1>4. CASE Receive
  <2>1. tick \in 1 .. MaxTime /\ tick <= clock
    BY <1>1, <1>4 DEF Receive, AlarmInv, NotSet
  <2>. QED  BY <1>1, <1>4, <2>1 DEF Receive, AlarmInv
<1>5. CASE BeginNotify
  <2>1. loop'.pc = "notify"
    BY <1>1, <1>5 DEF BeginNotify
  <2>. QED  BY <1>5, <2>1 DEF BeginNotify, AlarmInv
<1>6. CASE EndNotify
  BY <1>6 DEF EndNotify, AlarmInv, Waiting
<1>7. CASE Stop
  <2>1. loop.pc = "select" /\ loop'.pc = "returned"
    BY <1>1, <1>7 DEF Stop
  <2>. QED  BY <1>7, <2>1 DEF Stop, AlarmInv
<1>8. CASE Tick
  BY <1>1, <1>8 DEF Tick, AlarmInv
<1>9. ASSUME NEW t \in 1 .. MaxTime, NEW req \in Requests, insert(t, req)
      PROVE  AlarmInv'
  BY <1>2, <1>9 DEF insert
<1>. QED
  BY <1>2, <1>3, <1>4, <1>5, <1>6, <1>7, <1>8, <1>9 DEF Next, Loop, finish, vars

\* insert, process and the return of Notify are the steps of Alarms; what the
\* timer and the goroutine do besides is not seen there.
LEMMA StepImplements ==
    ASSUME IInv, AlarmInv, [Next]_vars
    PROVE  AL!Next \/ UNCHANGED <<times, past, clock>>
<1>1. ASSUME NEW t \in 1 .. MaxTime, NEW req \in Requests, insert(t, req) PROVE AL!Next
  <2>1. past = {} /\ times' = times \cup {<<t, req>>} /\ UNCHANGED <<past, clock>>
    BY <1>1 DEF insert, MutexFree, AlarmInv
  <2>. QED  BY <2>1 DEF AL!Next, AL!insert
<1>2. CASE BeginNotify
  <2>1. /\ past = {} /\ loop.t \in 1 .. MaxTime /\ loop.t <= clock
        /\ times' = {e \in times : ~(e[1] < loop.t)}
        /\ past' = {e[2] : e \in times \ times'} /\ UNCHANGED clock
    BY <1>2 DEF BeginNotify, AlarmInv
  <2>2. PICK t \in 1 .. MaxTime : t = loop.t
    BY <2>1
  <2>. QED  BY <2>1, <2>2 DEF AL!Next, AL!process
<1>3. CASE EndNotify
  <2>1. past' = {} /\ UNCHANGED <<times, clock>>
    BY <1>3 DEF EndNotify
  <2>2. CASE past = {}
    BY <2>1, <2>2
  <2>3. CASE past # {}
    <3>1. past' \in (SUBSET past) \ {past}
      BY <2>1, <2>3
    <3>. QED  BY <2>1, <3>1 DEF AL!Next, AL!Handle
  <2>. QED  BY <2>2, <2>3
<1>4. CASE Tick
  <2>1. clock < clock' /\ UNCHANGED <<times, past>>
    BY <1>4 DEF Tick, IInv, TypeOK
  <2>. QED  BY <2>1 DEF AL!Next
<1>5. CASE GoOff \/ Receive \/ finish \/ Stop \/ UNCHANGED vars
  BY <1>5 DEF GoOff, Receive, finish, Stop, vars
<1>. QED  BY <1>1, <1>2, <1>3, <1>4, <1>5 DEF Next, Loop

\* ImplementsAlarms: what the timer, its stale ticks and the goroutine make of
\* the times is what the rest of the server expects of alarms: each goes off
\* when it is past and not before, and insert waits while Notify runs.
THEOREM AlarmsImplemented == Spec => ImplementsAlarms
<1>1. Init => AL!Init /\ AlarmInv
  BY DEF Init, AL!Init, AlarmInv, Waiting
<1>2. IInv /\ AlarmInv /\ [Next]_vars => AL!Next \/ UNCHANGED <<times, past, clock>>
  BY StepImplements
<1>. QED
  BY <1>1, <1>2, AlarmInvKept, Invariance, PTL DEF Spec, ImplementsAlarms, AL!Spec

-----------------------------------------------------------------------------
\* The alarms with their heap, as HeapTimes steps them, are alarms: the heap
\* goes along and disturbs nothing.  So the theorems above hold of HFairSpec.
THEOREM HeapFollows == HFairSpec => Spec
<1>1. HInit => Init
  BY DEF HInit
<1>2. [HNext]_hvars => [Next]_vars
  BY DEF HNext, hvars, Next, Loop
<1>. QED  BY <1>1, <1>2, PTL DEF HFairSpec, Spec

-----------------------------------------------------------------------------
(***************************************************************************)
(* Induction.  It is by a least counterexample, over a set of numbers.     *)
(***************************************************************************)
\* A set of numbers has a least one.
LEMMA LeastNumber ==
    ASSUME NEW S, S \subseteq Nat, S # {}
    PROVE  \E m \in S : \A n \in S : m <= n
<1>. DEFINE R == {ss \in Nat \X Nat : ss[1] < ss[2]}
<1>1. IsWellFoundedOn(R, Nat)
  BY NatLessThanWellFounded DEF OpToRel
<1>2. PICK m \in S : \A n \in S : ~ (<<n, m>> \in R)
  <2>. HIDE DEF R
  <2>. QED  BY <1>1, WFMin
<1>3. ASSUME NEW n \in S PROVE m <= n
  <2>1. m \in Nat /\ n \in Nat /\ ~ (<<n, m>> \in R)
    BY <1>2
  <2>2. n < m => <<n, m>> \in R
    BY <2>1
  <2>. QED  BY <2>1, <2>2
<1>. QED  BY <1>3

\* A set with every number all of whose predecessors it has is that of all.
LEMMA Induction ==
    ASSUME NEW S, \A n \in Nat : (\A m \in Nat : m < n => m \in S) => n \in S
    PROVE  Nat \subseteq S
<1>. SUFFICES ASSUME Nat \ S # {} PROVE FALSE
  OBVIOUS
<1>1. PICK n \in Nat \ S : \A m \in Nat \ S : n <= m
  BY LeastNumber
<1>2. \A m \in Nat : m < n => m \in S
  BY <1>1
<1>. QED  BY <1>1, <1>2

\* Min and Max of FiniteSetsExt find what they should.
LEMMA MinIsLeast ==
    ASSUME NEW S, S \subseteq Nat, S # {}
    PROVE  Min(S) \in S /\ \A n \in S : Min(S) <= n
BY LeastNumber DEF Min

LEMMA MaxIsGreatest ==
    ASSUME NEW S, NEW b \in Nat, S \subseteq 0 .. b, S # {}
    PROVE  Max(S) \in S /\ \A n \in S : n <= Max(S)
<1>. DEFINE U == {n \in Nat : \A m \in S : m <= n}
<1>1. b \in U
  OBVIOUS
<1>2. PICK u \in U : \A n \in U : u <= n
  BY <1>1, LeastNumber
<1>3. u \in S
  <2>1. CASE u = 0
    <3>1. PICK m \in S : TRUE
      OBVIOUS
    <3>2. m \in Nat /\ m <= u
      BY <1>2
    <3>. QED  BY <2>1, <3>1, <3>2
  <2>2. CASE u > 0
    <3>1. u - 1 \in Nat /\ u - 1 \notin U
      BY <1>2, <2>2
    <3>2. PICK m \in S : ~(m <= u - 1)
      BY <3>1
    <3>3. m \in Nat /\ u \in Nat /\ m <= u
      BY <1>2
    <3>4. m = u
      BY <3>2, <3>3
    <3>. QED  BY <3>4
  <2>. QED  BY <1>2, <2>1, <2>2
<1>. HIDE DEF U
<1>4. \A n \in S : u >= n
  BY <1>2 DEF U
<1>5. \E x \in S : \A y \in S : x >= y
  BY <1>3, <1>4
<1>6. Max(S) \in S /\ \A y \in S : Max(S) >= y
  BY <1>5 DEF Max
<1>. QED  BY <1>6

(***************************************************************************)
(* PathToRoot is what its recursion says.                                  *)
(***************************************************************************)
\* p is the path from every place up to k.
PathsTo(k, p) == p = [i \in 0 .. k |-> IF i = 0 THEN {} ELSE {i} \cup p[i \div 2]]

\* Two such functions agree, ...
LEMMA PathsAgree ==
    ASSUME NEW k \in Nat, NEW l \in Nat, NEW p, NEW q, PathsTo(k, p), PathsTo(l, q),
           NEW n \in Nat, n <= k, n <= l
    PROVE  p[n] = q[n]
<1>. DEFINE S == {i \in Nat : i <= k /\ i <= l => p[i] = q[i]}
<1>1. ASSUME NEW i \in Nat, \A m \in Nat : m < i => m \in S PROVE i \in S
  <2>. SUFFICES ASSUME i <= k, i <= l PROVE p[i] = q[i]
    OBVIOUS
  <2>1. /\ p[i] = IF i = 0 THEN {} ELSE {i} \cup p[i \div 2]
        /\ q[i] = IF i = 0 THEN {} ELSE {i} \cup q[i \div 2]
    <3>1. i \in 0 .. k /\ i \in 0 .. l
      OBVIOUS
    <3>2. p[i] = [j \in 0 .. k |-> IF j = 0 THEN {} ELSE {j} \cup p[j \div 2]][i]
      BY DEF PathsTo
    <3>3. q[i] = [j \in 0 .. l |-> IF j = 0 THEN {} ELSE {j} \cup q[j \div 2]][i]
      BY DEF PathsTo
    <3>. QED  BY <3>1, <3>2, <3>3
  <2>2. i # 0 => i \div 2 \in Nat /\ i \div 2 < i
    OBVIOUS
  <2>3. i # 0 => p[i \div 2] = q[i \div 2]
    BY <1>1, <2>2
  <2>. QED  BY <2>1, <2>3
<1>. HIDE DEF S
<1>2. n \in S
  BY <1>1, Induction
<1>. QED  BY <1>2 DEF S

\* ... and there is one for every k.
LEMMA PathsExist == ASSUME NEW k \in Nat PROVE \E p : PathsTo(k, p)
<1>. DEFINE S == {i \in Nat : \E p : PathsTo(i, p)}
<1>1. ASSUME NEW i \in Nat, \A m \in Nat : m < i => m \in S PROVE i \in S
  <2>1. CASE i = 0
    <3>1. PathsTo(0, [j \in 0 .. 0 |-> {}])
      BY DEF PathsTo
    <3>. QED  BY <2>1, <3>1
  <2>2. CASE i > 0
    <3>1. i - 1 \in S
      BY <1>1, <2>2
    <3>2. PICK p : PathsTo(i - 1, p)
      BY <3>1
    <3>. DEFINE q == [j \in 0 .. i |-> IF j = i THEN {i} \cup p[i \div 2] ELSE p[j]]
    <3>3. ASSUME NEW j \in 0 .. i PROVE q[j] = IF j = 0 THEN {} ELSE {j} \cup q[j \div 2]
      <4>1. j \div 2 \in 0 .. i /\ (j > 0 => j \div 2 < j)
        BY <2>2
      <4>2. CASE j = i
        <5>1. q[j] = {i} \cup p[i \div 2]
          BY <4>2
        <5>2. q[i \div 2] = p[i \div 2]
          BY <2>2, <4>1, <4>2
        <5>. QED  BY <2>2, <4>2, <5>1, <5>2
      <4>3. CASE j # i
        <5>1. j \in 0 .. i - 1
          BY <4>3
        <5>2. p[j] = IF j = 0 THEN {} ELSE {j} \cup p[j \div 2]
          <6>1. p[j] = [m \in 0 .. i - 1 |-> IF m = 0 THEN {} ELSE {m} \cup p[m \div 2]][j]
            BY <3>2 DEF PathsTo
          <6>. QED  BY <5>1, <6>1
        <5>3. j > 0 => j \div 2 # i
          BY <4>1
        <5>4. q[j] = p[j] /\ (j > 0 => q[j \div 2] = p[j \div 2])
          BY <4>1, <4>3, <5>3
        <5>. HIDE DEF q
        <5>. QED  BY <5>2, <5>4
      <4>. QED  BY <4>2, <4>3
    <3>4. PathsTo(i, q)
      <4>1. q = [j \in 0 .. i |-> q[j]]
        OBVIOUS
      <4>. HIDE DEF q
      <4>. QED  BY <3>3, <4>1 DEF PathsTo
    <3>. QED  BY <3>4
  <2>. QED  BY <2>1, <2>2
<1>. HIDE DEF S
<1>2. k \in S
  BY <1>1, Induction
<1>. QED  BY <1>2 DEF S

\* The recursive definition defines a function.
LEMMA PathDefined ==
    /\ PathToRoot[0] = {}
    /\ \A i \in Nat \ {0} : PathToRoot[i] = {i} \cup PathToRoot[i \div 2]
<1>. DEFINE path(k) == CHOOSE p : PathsTo(k, p)
            f == [i \in Nat |-> path(i)[i]]
<1>1. \A k \in Nat : PathsTo(k, path(k))
  BY PathsExist
<1>. HIDE DEF path
<1>2. ASSUME NEW i \in Nat PROVE f[i] = IF i = 0 THEN {} ELSE {i} \cup f[i \div 2]
  <2>1. path(i)[i] = [j \in 0 .. i |-> IF j = 0 THEN {} ELSE {j} \cup path(i)[j \div 2]][i]
    BY <1>1 DEF PathsTo
  <2>2. i # 0 => i \div 2 \in Nat /\ i \div 2 <= i
    OBVIOUS
  <2>3. i # 0 => path(i)[i \div 2] = path(i \div 2)[i \div 2]
    BY <1>1, <2>2, PathsAgree
  <2>4. f[i] = path(i)[i] /\ (i # 0 => f[i \div 2] = path(i \div 2)[i \div 2])
    BY <2>2
  <2>. HIDE DEF f
  <2>5. path(i)[i] = IF i = 0 THEN {} ELSE {i} \cup path(i)[i \div 2]
    <3>1. i \in 0 .. i
      OBVIOUS
    <3>. QED  BY <2>1, <3>1
  <2>. QED  BY <2>3, <2>4, <2>5
<1>3. f = [i \in Nat |-> IF i = 0 THEN {} ELSE {i} \cup f[i \div 2]]
  <2>1. f = [i \in Nat |-> f[i]]
    OBVIOUS
  <2>. HIDE DEF f
  <2>. QED  BY <1>2, <2>1
<1>. HIDE DEF f
<1>4. PathToRoot = [i \in Nat |-> IF i = 0 THEN {} ELSE {i} \cup PathToRoot[i \div 2]]
  BY <1>3 DEF PathToRoot
<1>. DEFINE g == PathToRoot
<1>5. \A i \in Nat : g[i] = IF i = 0 THEN {} ELSE {i} \cup g[i \div 2]
  <2>1. g = [i \in Nat |-> IF i = 0 THEN {} ELSE {i} \cup g[i \div 2]]
    BY <1>4
  <2>. HIDE DEF g
  <2>. QED  BY <2>1
<1>. QED  BY <1>5

(***************************************************************************)
(* Places in the heap.                                                     *)
(***************************************************************************)
\* P is a path from n to the root: no place between a place of P and the one
\* above it is in P.
IsPath(n, P) ==
    /\ P \subseteq 1 .. n /\ n \in P /\ 1 \in P
    /\ \A i \in P : i > 1 => i \div 2 \in P
    /\ \A i, j \in P : j < i => j <= i \div 2

LEMMA PathIsPath == ASSUME NEW n \in Nat \ {0} PROVE IsPath(n, PathToRoot[n])
<1>. DEFINE S == {i \in Nat : i > 0 => IsPath(i, PathToRoot[i])}
<1>1. ASSUME NEW i \in Nat, \A m \in Nat : m < i => m \in S PROVE i \in S
  <2>. SUFFICES ASSUME i > 0 PROVE IsPath(i, PathToRoot[i])
    OBVIOUS
  <2>1. PathToRoot[i] = {i} \cup PathToRoot[i \div 2]
    BY PathDefined
  <2>2. CASE i = 1
    <3>1. i \div 2 = 0
      BY <2>2
    <3>2. PathToRoot[i] = {1}
      BY <2>1, <2>2, <3>1, PathDefined
    <3>. QED  BY <2>2, <3>2 DEF IsPath
  <2>3. CASE i > 1
    <3>. DEFINE m == i \div 2
                P == PathToRoot[m]
    <3>1. m \in Nat /\ 0 < m /\ m < i
      BY <2>3
    <3>2. IsPath(m, P)
      BY <1>1, <3>1
    <3>. HIDE DEF P
    <3>3. P \subseteq 1 .. m /\ m \in P /\ 1 \in P
      BY <3>2 DEF IsPath
    <3>4. \A j \in {i} \cup P : j > 1 => j \div 2 \in {i} \cup P
      BY <3>2, <3>3 DEF IsPath
    <3>5. \A k, j \in {i} \cup P : j < k => j <= k \div 2
      <4>1. \A j \in P : j <= m /\ ~(i < j)
        BY <3>1, <3>3
      <4>. QED  BY <3>2, <4>1 DEF IsPath
    <3>6. PathToRoot[i] = {i} \cup P
      BY <2>1 DEF P
    <3>7. {i} \cup P \subseteq 1 .. i /\ i \in {i} \cup P /\ 1 \in {i} \cup P
      BY <3>1, <3>3
    <3>8. IsPath(i, {i} \cup P)
      BY <3>4, <3>5, <3>7 DEF IsPath
    <3>. QED  BY <3>6, <3>8
  <2>. QED  BY <2>2, <2>3
<1>. HIDE DEF S
<1>2. n \in S
  BY <1>1, Induction
<1>. QED  BY <1>2 DEF S

\* Every place of the path but its end is above another one.
LEMMA PathGoesOn ==
    ASSUME NEW n \in Nat \ {0}, NEW P, IsPath(n, P), NEW j \in P, j < n
    PROVE  \E c \in P : c > 1 /\ j < c /\ c \div 2 = j
<1>. DEFINE C == {c \in P : j < c}
<1>1. C \subseteq Nat /\ n \in C /\ P \subseteq 1 .. n
  <2>1. P \subseteq 1 .. n /\ n \in P
    BY DEF IsPath
  <2>2. P \subseteq Nat
    BY <2>1
  <2>3. C \subseteq P /\ n \in C
    BY <2>1
  <2>. HIDE DEF C
  <2>. QED  BY <2>1, <2>2, <2>3
<1>2. PICK c \in C : \A d \in C : c <= d
  <2>. HIDE DEF C
  <2>. QED  BY <1>1, LeastNumber
<1>3. c \in P /\ c \in Nat /\ j \in Nat /\ 1 <= j /\ j < c
  BY <1>1, <1>2
<1>4. c \div 2 \in P /\ j <= c \div 2 /\ c \div 2 < c
  BY <1>3 DEF IsPath
<1>5. ~(j < c \div 2)
  <2>1. c \div 2 \in Nat
    BY <1>3
  <2>. QED  BY <1>2, <1>3, <1>4, <2>1
<1>. QED  BY <1>3, <1>4, <1>5

(***************************************************************************)
(* The order of the heap.                                                  *)
(***************************************************************************)
Entry == Nat \X Nat

\* Less is a total order.
LEMMA LessIsOrder ==
    ASSUME NEW a \in Entry, NEW b \in Entry, NEW c \in Entry
    PROVE  /\ ~Less(a, a)
           /\ Less(a, b) => ~Less(b, a)
           /\ ~Less(a, b) /\ ~Less(b, a) => a = b
           /\ ~Less(b, a) /\ ~Less(c, b) => ~Less(c, a)
BY DEF Less, Entry

\* No element is less than the one above it.
IsHeap(h) == \A i \in 2 .. Len(h) : ~Less(h[i], h[i \div 2])

\* The first element is the least.
LEMMA RootIsLeast ==
    ASSUME NEW h \in Seq(Entry), IsHeap(h), NEW n \in 1 .. Len(h)
    PROVE  ~Less(h[n], h[1])
<1>. DEFINE S == {i \in Nat : i \in 1 .. Len(h) => ~Less(h[i], h[1])}
<1>1. ASSUME NEW i \in Nat, \A m \in Nat : m < i => m \in S PROVE i \in S
  <2>. SUFFICES ASSUME i \in 1 .. Len(h) PROVE ~Less(h[i], h[1])
    OBVIOUS
  <2>1. CASE i = 1
    BY <2>1, LessIsOrder
  <2>2. CASE i > 1
    <3>1. i \div 2 \in 1 .. Len(h) /\ i \div 2 < i /\ i \in 2 .. Len(h)
      BY <2>2
    <3>2. ~Less(h[i \div 2], h[1])
      BY <1>1, <3>1
    <3>3. ~Less(h[i], h[i \div 2])
      BY <3>1 DEF IsHeap
    <3>4. h[i] \in Entry /\ h[1] \in Entry /\ h[i \div 2] \in Entry
      BY <3>1
    <3>. QED  BY <3>2, <3>3, <3>4, LessIsOrder
  <2>. QED  BY <2>1, <2>2
<1>. HIDE DEF S
<1>2. n \in S
  BY <1>1, Induction
<1>. QED  BY <1>2 DEF S

(***************************************************************************)
(* What up and down return.                                                *)
(***************************************************************************)
\* Two sequences each of whose elements the other has too.
LEMMA SameElements ==
    ASSUME NEW g, NEW h, NEW I, DOMAIN g = I, DOMAIN h = I,
           \A i \in I : \E j \in I : g[i] = h[j],
           \A j \in I : \E i \in I : g[i] = h[j]
    PROVE  ToSet(g) = ToSet(h)
<1>1. ASSUME NEW e \in ToSet(g) PROVE e \in ToSet(h)
  BY DEF ToSet
<1>2. ASSUME NEW e \in ToSet(h) PROVE e \in ToSet(g)
  BY DEF ToSet
<1>. QED  BY <1>1, <1>2

\* The element of n moves along the path P to the place t: those of the path
\* from t on take the place below.
Risen(h, P, n, t) ==
    [i \in DOMAIN h |-> CASE i = t -> h[n] [] i > t /\ i \in P -> h[i \div 2] [] OTHER -> h[i]]

\* The place to which the last element rises.
LEMMA RisesTo ==
    ASSUME NEW h \in Seq(Entry), NEW n \in Nat \ {0}, n = Len(h)
    PROVE  LET P == PathToRoot[n] IN
           \E t \in P :
              /\ up(h) = Risen(h, P, n, t)
              /\ \A q \in P : t <= q /\ q < n => Less(h[n], h[q])
              /\ t > 1 => ~Less(h[n], h[t \div 2])
<1>. DEFINE P == PathToRoot[n]
            T == {p \in P : \A q \in P : p <= q /\ q < n => Less(h[n], h[q])}
            t == Min(T)
<1>1. IsPath(n, P)
  BY PathIsPath
<1>2. up(h) = Risen(h, P, n, t)
  BY DEF up, Risen
<1>. HIDE DEF P
<1>3. P \subseteq 1 .. n /\ n \in P
  BY <1>1 DEF IsPath
<1>4. T \subseteq Nat /\ n \in T
  <2>1. \A q \in P : ~(n <= q /\ q < n)
    BY <1>3
  <2>2. T \subseteq P /\ n \in T
    BY <1>3, <2>1
  <2>. HIDE DEF T
  <2>. QED  BY <1>3, <2>2
<1>5. t \in T /\ \A p \in T : t <= p
  <2>. HIDE DEF T
  <2>. QED  BY <1>4, MinIsLeast
<1>6. t \in P /\ \A q \in P : t <= q /\ q < n => Less(h[n], h[q])
  <2>. HIDE DEF t
  <2>. QED  BY <1>5
<1>. HIDE DEF t
<1>7. ASSUME t > 1 PROVE ~Less(h[n], h[t \div 2])
  <2>. DEFINE u == t \div 2
  <2>1. t \in 1 .. n /\ u \in P /\ u < t /\ u \in Nat
    BY <1>1, <1>3, <1>6, <1>7 DEF IsPath
  <2>2. u \notin T
    <3>. HIDE DEF T, u
    <3>1. t \in Nat
      BY <2>1
    <3>. QED  BY <1>5, <2>1, <3>1
  <2>3. PICK q \in P : u <= q /\ q < n /\ ~Less(h[n], h[q])
    BY <2>1, <2>2
  <2>4. q \in Nat /\ ~(t <= q)
    BY <1>3, <1>6, <2>3
  <2>5. q <= u
    BY <1>1, <1>6, <2>1, <2>4 DEF IsPath
  <2>. HIDE DEF u
  <2>6. q = u
    BY <2>1, <2>3, <2>4, <2>5
  <2>. QED  BY <2>3, <2>6 DEF u
<1>. QED  BY <1>2, <1>6, <1>7 DEF P

\* Moving along a path loses no element and makes none.
LEMMA RisenKeeps ==
    ASSUME NEW h \in Seq(Entry), NEW n \in 1 .. Len(h), NEW P, IsPath(n, P), NEW t \in P
    PROVE  /\ Risen(h, P, n, t) \in Seq(Entry)
           /\ Len(Risen(h, P, n, t)) = Len(h)
           /\ ToSet(Risen(h, P, n, t)) = ToSet(h)
<1>. DEFINE g == Risen(h, P, n, t)
<1>1. P \subseteq 1 .. n /\ n \in P /\ P \subseteq 1 .. Len(h)
  BY DEF IsPath
<1>2. DOMAIN h = 1 .. Len(h) /\ DOMAIN g = 1 .. Len(h)
  BY DEF Risen
<1>3. ASSUME NEW i \in 1 .. Len(h) PROVE \E j \in 1 .. Len(h) : g[i] = h[j]
  <2>1. i > t /\ i \in P => i \div 2 \in 1 .. Len(h)
    <3>. SUFFICES ASSUME i > t, i \in P PROVE i \div 2 \in 1 .. Len(h)
      OBVIOUS
    <3>1. i > 1
      BY <1>1
    <3>. QED  BY <1>1, <3>1 DEF IsPath
  <2>. QED  BY <1>2, <2>1 DEF Risen
<1>4. ASSUME NEW j \in 1 .. Len(h) PROVE \E i \in 1 .. Len(h) : g[i] = h[j]
  <2>1. CASE j = n
    <3>1. g[t] = h[j]
      BY <1>1, <1>2, <2>1 DEF Risen
    <3>. QED  BY <1>1, <3>1
  <2>2. CASE j # n /\ j \in P /\ t <= j
    <3>1. j < n
      BY <1>1, <2>2
    <3>2. PICK c \in P : c > 1 /\ j < c /\ c \div 2 = j
      <4>1. n \in Nat \ {0} /\ j \in P
        BY <2>2
      <4>. QED  BY <3>1, <4>1, PathGoesOn
    <3>3. c # t /\ c > t /\ c \in 1 .. Len(h)
      BY <1>1, <2>2, <3>2
    <3>4. g[c] = h[j]
      BY <1>2, <3>2, <3>3 DEF Risen
    <3>. QED  BY <3>3, <3>4
  <2>3. CASE j # n /\ ~(j \in P /\ t <= j)
    <3>1. j # t /\ ~(j > t /\ j \in P)
      BY <1>1, <2>3
    <3>2. g[j] = h[j]
      BY <1>2, <3>1 DEF Risen
    <3>. QED  BY <3>2
  <2>. QED  BY <2>1, <2>2, <2>3
<1>. HIDE DEF g
<1>5. \A i \in 1 .. Len(h) : h[i] \in Entry
  OBVIOUS
<1>6. g = [i \in 1 .. Len(h) |-> g[i]]
  BY DEF g, Risen
<1>7. g \in [1 .. Len(h) -> Entry]
  BY <1>3, <1>5, <1>6
<1>8. g \in Seq(Entry) /\ Len(g) = Len(h)
  BY <1>7
<1>9. ToSet(g) = ToSet(h)
  <2>1. DOMAIN g = 1 .. Len(h)
    BY <1>2 DEF g
  <2>. QED  BY <1>2, <1>3, <1>4, <2>1, SameElements
<1>. QED  BY <1>8, <1>9 DEF g

\* up: if all but the last element are a heap, the whole is one afterwards.
LEMMA UpMakesHeap ==
    ASSUME NEW h \in Seq(Entry), h # <<>>,
           \A i \in 2 .. Len(h) - 1 : ~Less(h[i], h[i \div 2])
    PROVE  /\ up(h) \in Seq(Entry) /\ ToSet(up(h)) = ToSet(h)
           /\ Len(up(h)) = Len(h) /\ IsHeap(up(h))
<1>. DEFINE n == Len(h)
            P == PathToRoot[n]
<1>1. n \in Nat \ {0} /\ n \in 1 .. Len(h)
  OBVIOUS
<1>2. IsPath(n, P)
  BY <1>1, PathIsPath
<1>3. PICK t \in P :
         /\ up(h) = Risen(h, P, n, t)
         /\ \A q \in P : t <= q /\ q < n => Less(h[n], h[q])
         /\ t > 1 => ~Less(h[n], h[t \div 2])
  BY <1>1, RisesTo
<1>. HIDE DEF P
<1>4. P \subseteq 1 .. n
  BY <1>2 DEF IsPath
<1>. DEFINE g == up(h)
<1>5. g \in Seq(Entry) /\ Len(g) = n /\ ToSet(g) = ToSet(h)
  BY <1>1, <1>2, <1>3, RisenKeeps
<1>6. \A i \in 1 .. n : h[i] \in Entry
  OBVIOUS
<1>7. \A i \in 1 .. n : g[i] = IF i = t THEN h[n] ELSE IF i > t /\ i \in P THEN h[i \div 2] ELSE h[i]
  BY <1>3 DEF Risen
<1>. HIDE DEF g
<1>8. ASSUME NEW i \in 2 .. n PROVE ~Less(g[i], g[i \div 2])
  <2>. DEFINE p == i \div 2
              a == p \div 2
  <2>1. /\ i \in 1 .. n /\ p \in 1 .. n /\ p < i /\ p \in Nat /\ t \in 1 .. n
        /\ p > 1 => a \in 1 .. n /\ a < p
    BY <1>4
  <2>2. i \in P => p \in P
    BY <1>2 DEF IsPath
  <2>3. i < n => ~Less(h[i], h[p])
    BY <2>1
  <2>. HIDE DEF p
  <2>4. CASE i \in P /\ i > t
    <3>1. t <= p /\ p < n
      BY <1>2, <2>1, <2>4 DEF IsPath, p
    <3>2. g[i] = h[p]
      BY <1>7, <2>1, <2>4 DEF p
    <3>3. CASE p = t
      <4>1. g[p] = h[n] /\ Less(h[n], h[p])
        BY <1>3, <1>7, <2>1, <3>1, <3>3
      <4>. QED  BY <1>1, <1>6, <2>1, <3>2, <4>1, LessIsOrder DEF p
    <3>4. CASE p # t
      <4>1. p > t /\ p > 1
        BY <2>1, <3>1, <3>4
      <4>2. g[p] = h[a]
        BY <1>7, <2>1, <2>2, <2>4, <4>1
      <4>3. ~Less(h[p], h[a])
        BY <2>1, <3>1, <4>1
      <4>. QED  BY <3>2, <4>2, <4>3 DEF p
    <3>. QED  BY <3>3, <3>4
  <2>5. CASE i = t
    <3>1. g[i] = h[n] /\ g[p] = h[p]
      BY <1>7, <2>1, <2>5
    <3>2. ~Less(h[n], h[p])
      BY <1>3, <2>1, <2>5 DEF p
    <3>. QED  BY <3>1, <3>2 DEF p
  <2>6. CASE i # t /\ ~(i \in P /\ i > t)
    <3>1. g[i] = h[i]
      BY <1>7, <2>1, <2>6
    <3>2. i < n
      <4>1. n \in P
        BY <1>2 DEF IsPath
      <4>. QED  BY <2>1, <2>6, <4>1
    <3>3. ~Less(h[i], h[p])
      BY <2>3, <3>2
    <3>4. CASE p = t
      <4>1. p < n /\ Less(h[n], h[p]) /\ g[p] = h[n]
        BY <1>3, <1>7, <2>1, <3>2, <3>4
      <4>2. ~Less(h[p], h[n])
        BY <1>1, <1>6, <2>1, <4>1, LessIsOrder
      <4>. QED  BY <1>1, <1>6, <2>1, <3>1, <3>3, <4>1, <4>2, LessIsOrder DEF p
    <3>5. CASE p \in P /\ p > t
      <4>1. g[p] = h[a] /\ p > 1
        BY <1>7, <2>1, <3>5
      <4>2. ~Less(h[p], h[a])
        BY <2>1, <3>2, <4>1
      <4>. QED  BY <1>6, <2>1, <3>1, <3>3, <4>1, <4>2, LessIsOrder DEF p
    <3>6. CASE p # t /\ ~(p \in P /\ p > t)
      <4>1. g[p] = h[p]
        BY <1>7, <2>1, <3>6
      <4>. QED  BY <3>1, <3>3, <4>1 DEF p
    <3>. QED  BY <3>4, <3>5, <3>6
  <2>. QED  BY <2>1, <2>4, <2>5, <2>6
<1>. QED  BY <1>5, <1>8 DEF IsHeap, g

\* lesser is one of the children, and none is less.
LEMMA LesserIsLess ==
    ASSUME NEW h \in Seq(Entry), NEW i \in Nat \ {0}, children(h, i) # {}
    PROVE  /\ lesser(h, i) \in children(h, i)
           /\ \A d \in children(h, i) : ~Less(h[d], h[lesser(h, i)])
<1>. DEFINE l == 2 * i
            r == 2 * i + 1
            C == children(h, i)
            Good(c) == \A d \in C : ~Less(h[d], h[c]) /\ (h[d] = h[c] => c <= d)
<1>1. C \subseteq {l, r} /\ l \in Nat /\ r \in Nat /\ l < r /\ \A c \in C : h[c] \in Entry
  BY DEF children
<1>2. \E c \in C : Good(c)
  <2>1. CASE C = {l} \/ C = {r}
    BY <1>1, <2>1, LessIsOrder
  <2>2. CASE C = {l, r} /\ Less(h[r], h[l])
    <3>1. ~Less(h[l], h[r]) /\ h[l] # h[r] /\ ~Less(h[r], h[r])
      BY <1>1, <2>2, LessIsOrder
    <3>. QED  BY <1>1, <2>2, <3>1
  <2>3. CASE C = {l, r} /\ ~Less(h[r], h[l])
    <3>1. ~Less(h[l], h[l])
      BY <1>1, <2>3, LessIsOrder
    <3>. QED  BY <1>1, <2>3, <3>1
  <2>. HIDE DEF Good, l, r, C
  <2>4. C # {}
    BY DEF C
  <2>. QED  BY <1>1, <2>1, <2>2, <2>3, <2>4
<1>3. lesser(h, i) = CHOOSE c \in C : Good(c)
  BY DEF lesser
<1>. HIDE DEF Good
<1>4. lesser(h, i) \in C /\ Good(lesser(h, i))
  BY <1>2, <1>3
<1>. QED  BY <1>4 DEF Good

\* The first element moves along the path P to the place b, and each of the
\* path comes a place higher.
Sunk(h, P, b) ==
    [i \in DOMAIN h |-> CASE i = b -> h[1] [] i < b /\ i \in P -> h[lesser(h, i)] [] OTHER -> h[i]]

\* The place to which the first element sinks.
LEMMA SinksTo ==
    ASSUME NEW h \in Seq(Entry), h # <<>>
    PROVE  \E b \in 1 .. Len(h) : LET P == PathToRoot[b] IN
              /\ down(h) = Sunk(h, P, b)
              /\ \A q \in P \ {1} : q = lesser(h, q \div 2) /\ Less(h[q], h[1])
              /\ children(h, b) # {} => ~Less(h[lesser(h, b)], h[1])
<1>. DEFINE sinksTo(p) == \A q \in PathToRoot[p] \ {1} : q = lesser(h, q \div 2) /\ Less(h[q], h[1])
            D == {p \in DOMAIN h : sinksTo(p)}
            b == Max(D)
<1>1. DOMAIN h = 1 .. Len(h) /\ Len(h) \in Nat /\ 1 \in 1 .. Len(h)
  OBVIOUS
<1>2. down(h) = Sunk(h, PathToRoot[b], b)
  BY DEF down, Sunk
<1>3. D \subseteq 0 .. Len(h) /\ 1 \in D
  <2>1. PathToRoot[1] \subseteq {1}
    BY PathIsPath DEF IsPath
  <2>. QED  BY <1>1, <2>1
<1>4. b \in D /\ \A p \in D : p <= b
  <2>. HIDE DEF D
  <2>. QED  BY <1>1, <1>3, MaxIsGreatest
<1>5. b \in 1 .. Len(h) /\ sinksTo(b)
  <2>. HIDE DEF b, sinksTo
  <2>. QED  BY <1>1, <1>4
<1>. HIDE DEF b
<1>6. ASSUME children(h, b) # {}, Less(h[lesser(h, b)], h[1]) PROVE FALSE
  <2>. DEFINE c == lesser(h, b)
  <2>1. c \in children(h, b)
    BY <1>5, <1>6, LesserIsLess
  <2>2. c \in DOMAIN h /\ c \in Nat /\ c > b /\ c \div 2 = b
    BY <1>5, <2>1 DEF children
  <2>3. PathToRoot[c] = {c} \cup PathToRoot[b]
    <3>. HIDE DEF c
    <3>. QED  BY <1>5, <2>2, PathDefined
  <2>4. sinksTo(c)
    BY <1>5, <1>6, <2>2, <2>3
  <2>. HIDE DEF c, sinksTo
  <2>. QED  BY <1>4, <1>5, <2>2, <2>4
<1>. QED  BY <1>2, <1>5, <1>6

\* The place of the path below i is that of the lesser child of i.
LEMMA LesserOnPath ==
    ASSUME NEW h \in Seq(Entry), NEW b \in 1 .. Len(h), NEW P, IsPath(b, P),
           \A q \in P \ {1} : q = lesser(h, q \div 2),
           NEW i \in P, i < b
    PROVE  /\ lesser(h, i) \in P /\ lesser(h, i) \in 2 .. b
           /\ i < lesser(h, i) /\ lesser(h, i) \div 2 = i
<1>1. PICK c \in P : c > 1 /\ i < c /\ c \div 2 = i
  <2>1. b \in Nat \ {0}
    OBVIOUS
  <2>. QED  BY <2>1, PathGoesOn
<1>2. c = lesser(h, i)
  BY <1>1
<1>3. c \in 2 .. b
  BY <1>1 DEF IsPath
<1>. QED  BY <1>1, <1>2, <1>3

\* Moving the other way along a path loses no element and makes none either.
LEMMA SunkKeeps ==
    ASSUME NEW h \in Seq(Entry), NEW b \in 1 .. Len(h), NEW P, IsPath(b, P),
           \A q \in P \ {1} : q = lesser(h, q \div 2)
    PROVE  /\ Sunk(h, P, b) \in Seq(Entry)
           /\ Len(Sunk(h, P, b)) = Len(h)
           /\ ToSet(Sunk(h, P, b)) = ToSet(h)
<1>. DEFINE g == Sunk(h, P, b)
<1>1. P \subseteq 1 .. b /\ b \in P /\ P \subseteq 1 .. Len(h)
  BY DEF IsPath
<1>2. DOMAIN h = 1 .. Len(h) /\ DOMAIN g = 1 .. Len(h)
  BY DEF Sunk
<1>3. ASSUME NEW i \in 1 .. Len(h) PROVE \E j \in 1 .. Len(h) : g[i] = h[j]
  <2>1. i < b /\ i \in P => lesser(h, i) \in 1 .. Len(h)
    <3>. SUFFICES ASSUME i < b, i \in P PROVE lesser(h, i) \in 1 .. Len(h)
      OBVIOUS
    <3>1. lesser(h, i) \in P
      BY LesserOnPath
    <3>. QED  BY <1>1, <3>1
  <2>. QED  BY <1>2, <2>1 DEF Sunk
<1>4. ASSUME NEW j \in 1 .. Len(h) PROVE \E i \in 1 .. Len(h) : g[i] = h[j]
  <2>1. CASE j = 1
    <3>1. g[b] = h[j]
      BY <1>2, <2>1 DEF Sunk
    <3>. QED  BY <3>1
  <2>2. CASE j # 1 /\ j \in P
    <3>. DEFINE a == j \div 2
    <3>1. j > 1 /\ j <= b
      BY <1>1, <2>2
    <3>2. a \in P /\ a < j /\ lesser(h, a) = j
      BY <2>2, <3>1 DEF IsPath
    <3>. HIDE DEF a
    <3>3. a \in 1 .. Len(h) /\ a < b
      BY <1>1, <3>1, <3>2
    <3>4. g[a] = h[j]
      BY <1>2, <3>2, <3>3 DEF Sunk
    <3>. QED  BY <3>3, <3>4
  <2>3. CASE j \notin P
    <3>1. g[j] = h[j]
      BY <1>1, <1>2, <2>3 DEF Sunk
    <3>. QED  BY <3>1
  <2>. QED  BY <2>1, <2>2, <2>3
<1>. HIDE DEF g
<1>5. \A i \in 1 .. Len(h) : h[i] \in Entry
  OBVIOUS
<1>6. g = [i \in 1 .. Len(h) |-> g[i]]
  BY DEF g, Sunk
<1>7. g \in [1 .. Len(h) -> Entry]
  BY <1>3, <1>5, <1>6
<1>8. g \in Seq(Entry) /\ Len(g) = Len(h)
  BY <1>7
<1>9. ToSet(g) = ToSet(h)
  <2>1. DOMAIN g = 1 .. Len(h)
    BY <1>2 DEF g
  <2>. QED  BY <1>2, <1>3, <1>4, <2>1, SameElements
<1>. QED  BY <1>8, <1>9 DEF g

\* down: if the whole but for the first element is a heap, it is one with it
\* afterwards.
LEMMA DownMakesHeap ==
    ASSUME NEW h \in Seq(Entry), h # <<>>,
           \A i \in 4 .. Len(h) : ~Less(h[i], h[i \div 2])
    PROVE  /\ down(h) \in Seq(Entry) /\ ToSet(down(h)) = ToSet(h)
           /\ Len(down(h)) = Len(h) /\ IsHeap(down(h))
<1>. DEFINE n == Len(h)
            g == down(h)
<1>1. PICK b \in 1 .. n : LET P == PathToRoot[b] IN
         /\ down(h) = Sunk(h, P, b)
         /\ \A q \in P \ {1} : q = lesser(h, q \div 2) /\ Less(h[q], h[1])
         /\ children(h, b) # {} => ~Less(h[lesser(h, b)], h[1])
  BY SinksTo
<1>. DEFINE P == PathToRoot[b]
<1>2. IsPath(b, P)
  BY PathIsPath
<1>3. /\ g = Sunk(h, P, b)
      /\ \A q \in P \ {1} : q = lesser(h, q \div 2) /\ Less(h[q], h[1])
      /\ children(h, b) # {} => ~Less(h[lesser(h, b)], h[1])
  BY <1>1
<1>. HIDE DEF P
<1>4. g \in Seq(Entry) /\ Len(g) = n /\ ToSet(g) = ToSet(h)
  BY <1>2, <1>3, SunkKeeps
<1>5. n \in Nat /\ P \subseteq 1 .. b /\ b \in P /\ 1 \in P /\ \A i \in 1 .. n : h[i] \in Entry
  BY <1>2 DEF IsPath
<1>6. \A i \in 1 .. n :
         g[i] = IF i = b THEN h[1] ELSE IF i < b /\ i \in P THEN h[lesser(h, i)] ELSE h[i]
  BY <1>3 DEF Sunk
<1>7. \A i \in P : i < b => /\ lesser(h, i) \in P /\ lesser(h, i) \in 2 .. b
                            /\ i < lesser(h, i) /\ lesser(h, i) \div 2 = i
  BY <1>2, <1>3, LesserOnPath
<1>8. \A i \in 1 .. n : i \in children(h, i \div 2)
  BY DEF children
<1>. HIDE DEF g
<1>9. ASSUME NEW i \in 2 .. n PROVE ~Less(g[i], g[i \div 2])
  <2>. DEFINE p == i \div 2
  <2>1. i \in 1 .. n /\ p \in 1 .. n /\ p < i /\ p \in Nat \ {0} /\ i \in children(h, p)
    BY <1>8
  <2>2. p > 1 => ~Less(h[i], h[p])
    <3>1. p > 1 => i \in 4 .. n
      OBVIOUS
    <3>. QED  BY <3>1
  <2>3. /\ lesser(h, p) \in children(h, p) /\ ~Less(h[i], h[lesser(h, p)])
        /\ lesser(h, p) \in 1 .. n
    <3>1. lesser(h, p) \in children(h, p) /\ ~Less(h[i], h[lesser(h, p)])
      BY <2>1, LesserIsLess
    <3>. QED  BY <3>1 DEF children
  <2>. HIDE DEF p
  \* On the path, what is above i is what was its lesser child.
  <2>4. CASE p \in P /\ p < b
    <3>. DEFINE c == lesser(h, p)
    <3>1. g[p] = h[c] /\ c \in P /\ c \in 2 .. b
      BY <1>6, <1>7, <2>1, <2>4
    <3>2. CASE i = c /\ c = b
      <4>1. g[i] = h[1] /\ Less(h[c], h[1])
        BY <1>3, <1>6, <2>1, <3>1, <3>2
      <4>. QED  BY <1>5, <2>1, <2>3, <3>1, <4>1, LessIsOrder DEF p
    <3>3. CASE i = c /\ c # b
      <4>1. i \in P /\ i < b /\ lesser(h, i) \in 2 .. b /\ lesser(h, i) \div 2 = i
        BY <1>7, <3>1, <3>3
      <4>2. g[i] = h[lesser(h, i)]
        BY <1>6, <2>1, <4>1
      <4>3. lesser(h, i) \in 4 .. n
        BY <2>1, <4>1
      <4>4. ~Less(h[lesser(h, i)], h[i])
        BY <4>1, <4>3
      <4>. QED  BY <3>1, <3>3, <4>2, <4>4 DEF p
    <3>4. CASE i # c
      <4>1. i \notin P
        BY <1>3, <2>1, <3>4 DEF p
      <4>2. g[i] = h[i]
        BY <1>5, <1>6, <2>1, <4>1
      <4>. QED  BY <2>3, <3>1, <4>2 DEF p
    <3>. QED  BY <3>2, <3>3, <3>4
  \* Where the first element has come to rest, no child is less.
  <2>5. CASE p = b
    <3>1. g[p] = h[1] /\ g[i] = h[i]
      BY <1>5, <1>6, <2>1, <2>5
    <3>2. ~Less(h[lesser(h, p)], h[1])
      BY <1>3, <2>1, <2>5
    <3>3. 1 \in 1 .. n
      BY <2>1
    <3>. QED  BY <1>5, <2>1, <2>3, <3>1, <3>2, <3>3, LessIsOrder DEF p
  \* Elsewhere nothing has changed.
  <2>6. CASE p \notin P
    <3>1. i \notin P /\ p # 1
      BY <1>2, <1>5, <2>1, <2>6 DEF IsPath, p
    <3>2. g[p] = h[p] /\ g[i] = h[i]
      BY <1>5, <1>6, <2>1, <2>6, <3>1
    <3>. QED  BY <2>1, <2>2, <3>1, <3>2 DEF p
  <2>7. p \in P => p <= b
    BY <1>5
  <2>. QED  BY <2>1, <2>4, <2>5, <2>6, <2>7
<1>. QED  BY <1>4, <1>9 DEF IsHeap, g

(***************************************************************************)
(* Push, Pop and PopPast keep the heap a heap.                             *)
(***************************************************************************)
\* Push: the element joins those there are.
LEMMA PushKeeps ==
    ASSUME NEW h \in Seq(Entry), IsHeap(h), NEW e \in Entry
    PROVE  /\ Push(h, e) \in Seq(Entry) /\ IsHeap(Push(h, e))
           /\ ToSet(Push(h, e)) = ToSet(h) \cup {e}
<1>. DEFINE k == Append(h, e)
<1>1. /\ k \in Seq(Entry) /\ k # <<>> /\ Len(k) = Len(h) + 1
      /\ k[Len(k)] = e /\ \A i \in 1 .. Len(h) : k[i] = h[i]
  OBVIOUS
<1>. HIDE DEF k
<1>2. \A i \in 2 .. Len(k) - 1 : ~Less(k[i], k[i \div 2])
  <2>. SUFFICES ASSUME NEW i \in 2 .. Len(k) - 1 PROVE ~Less(k[i], k[i \div 2])
    OBVIOUS
  <2>1. i \in 2 .. Len(h) /\ i \in 1 .. Len(h) /\ i \div 2 \in 1 .. Len(h)
    BY <1>1
  <2>. QED  BY <1>1, <2>1 DEF IsHeap
<1>3. ToSet(k) = ToSet(h) \cup {e}
  <2>1. DOMAIN k = 1 .. Len(k) /\ DOMAIN h = 1 .. Len(h) /\ Len(h) \in Nat
    BY <1>1
  <2>2. ASSUME NEW x \in ToSet(k) PROVE x \in ToSet(h) \cup {e}
    <3>1. PICK i \in 1 .. Len(k) : x = k[i]
      BY <2>1 DEF ToSet
    <3>2. i \in 1 .. Len(h) \/ i = Len(k)
      BY <1>1, <2>1
    <3>. QED  BY <1>1, <2>1, <3>1, <3>2 DEF ToSet
  <2>3. ASSUME NEW x \in ToSet(h) PROVE x \in ToSet(k)
    <3>1. PICK i \in 1 .. Len(h) : x = h[i]
      BY <2>1 DEF ToSet
    <3>2. i \in 1 .. Len(k) /\ x = k[i]
      BY <1>1, <2>1, <3>1
    <3>. QED  BY <2>1, <3>2 DEF ToSet
  <2>4. e \in ToSet(k)
    <3>1. Len(k) \in DOMAIN k
      BY <1>1, <2>1
    <3>. QED  BY <1>1, <3>1 DEF ToSet
  <2>. QED  BY <2>2, <2>3, <2>4
<1>4. /\ up(k) \in Seq(Entry) /\ IsHeap(up(k)) /\ ToSet(up(k)) = ToSet(k)
  BY <1>1, <1>2, UpMakesHeap
<1>. QED  BY <1>3, <1>4 DEF Push, k

\* Pop: the first element leaves, and no other.
LEMMA PopKeeps ==
    ASSUME NEW h \in Seq(Entry), h # <<>>, IsHeap(h)
    PROVE  /\ Pop(h) \in Seq(Entry) /\ Len(Pop(h)) = Len(h) - 1 /\ IsHeap(Pop(h))
           /\ ToSet(Pop(h)) \subseteq ToSet(h)
           /\ ToSet(h) \ {h[1]} \subseteq ToSet(Pop(h))
<1>1. DOMAIN h = 1 .. Len(h) /\ Len(h) \in Nat \ {0}
  OBVIOUS
<1>2. CASE Len(h) = 1
  <2>1. Pop(h) = <<>>
    BY <1>2 DEF Pop
  <2>2. <<>> \in Seq(Entry) /\ Len(<<>>) = 0 /\ DOMAIN <<>> = 1 .. 0
    OBVIOUS
  <2>3. ToSet(<<>>) = {} /\ IsHeap(<<>>)
    BY <2>2 DEF ToSet, IsHeap
  <2>4. ToSet(h) \subseteq {h[1]}
    BY <1>1, <1>2 DEF ToSet
  <2>. QED  BY <1>2, <2>1, <2>2, <2>3, <2>4
<1>3. CASE Len(h) > 1
  <2>. DEFINE n == Len(h) - 1
              k == [Front(h) EXCEPT ![1] = Last(h)]
  <2>1. /\ n \in Nat \ {0} /\ n = Len(h) - 1
        /\ Front(h) \in Seq(Entry) /\ Len(Front(h)) = n
        /\ DOMAIN Front(h) = 1 .. n /\ \A i \in 1 .. n : Front(h)[i] = h[i]
    <3>1. n \in Nat \ {0} /\ n \in 0 .. Len(h) /\ 1 \in 1 .. Len(h) + 1
      BY <1>1, <1>3
    <3>. HIDE DEF n
    <3>2. /\ SubSeq(h, 1, n) \in Seq(Entry) /\ Len(SubSeq(h, 1, n)) = n
          /\ \A i \in 1 .. n : SubSeq(h, 1, n)[i] = h[i]
      BY <3>1, SMTT(30)
    <3>3. Front(h) = SubSeq(h, 1, n)
      BY DEF Front, n
    <3>4. DOMAIN Front(h) = 1 .. n
      BY <3>2, <3>3
    <3>. QED  BY <3>1, <3>2, <3>3, <3>4 DEF n
  <2>2. Last(h) = h[Len(h)] /\ Last(h) \in Entry
    BY <1>1 DEF Last
  <2>3. /\ k \in Seq(Entry) /\ Len(k) = n /\ DOMAIN k = 1 .. n
        /\ k[1] = h[Len(h)] /\ \A i \in 2 .. n : k[i] = h[i]
    <3>1. 1 \in 1 .. n /\ 2 .. n \subseteq 1 .. n
      BY <2>1
    <3>2. k \in Seq(Entry) /\ Len(k) = n /\ DOMAIN k = 1 .. n
      BY <2>1, <2>2, <3>1
    <3>. QED  BY <2>1, <2>2, <3>1, <3>2
  <2>4. Pop(h) = down(k)
    <3>1. Len(h) # 1
      BY <1>1, <1>3
    <3>. QED  BY <3>1 DEF Pop
  <2>. HIDE DEF k, n
  <2>5. \A i \in 4 .. Len(k) : ~Less(k[i], k[i \div 2])
    <3>. SUFFICES ASSUME NEW i \in 4 .. n PROVE ~Less(k[i], k[i \div 2])
      BY <2>3
    <3>1. i \in 2 .. n /\ i \in 2 .. Len(h) /\ i \div 2 \in 2 .. n
      BY <2>1
    <3>. QED  BY <2>3, <3>1 DEF IsHeap
  <2>6. k # <<>>
    BY <2>1, <2>3
  <2>7. /\ down(k) \in Seq(Entry) /\ Len(down(k)) = Len(k) /\ IsHeap(down(k))
        /\ ToSet(down(k)) = ToSet(k)
    BY <2>3, <2>5, <2>6, DownMakesHeap
  <2>8. ASSUME NEW x \in ToSet(k) PROVE x \in ToSet(h)
    <3>1. PICK i \in 1 .. n : x = k[i]
      BY <2>3 DEF ToSet
    <3>2. i = 1 \/ i \in 2 .. n
      BY <2>1
    <3>3. Len(h) \in DOMAIN h /\ i \in DOMAIN h
      BY <1>1, <2>1
    <3>. QED  BY <2>3, <3>1, <3>2, <3>3 DEF ToSet
  <2>9. ASSUME NEW x \in ToSet(h), x # h[1] PROVE x \in ToSet(k)
    <3>1. PICK i \in 1 .. Len(h) : x = h[i]
      BY <1>1 DEF ToSet
    <3>2. i \in 2 .. n \/ i = Len(h)
      <4>1. i # 1
        BY <2>9, <3>1
      <4>2. /\ n \in Nat \ {0} /\ n = Len(h) - 1 /\ Len(h) \in Nat
            /\ i \in Nat /\ 1 <= i /\ i <= Len(h)
        BY <1>1, <2>1
      <4>. QED  BY <4>1, <4>2
    <3>3. 1 \in DOMAIN k /\ (i \in 2 .. n => i \in DOMAIN k)
      BY <2>1, <2>3
    <3>. QED  BY <2>3, <3>1, <3>2, <3>3 DEF ToSet
  <2>. QED  BY <2>1, <2>3, <2>4, <2>7, <2>8, <2>9
<1>4. Len(h) = 1 \/ Len(h) > 1
  BY <1>1
<1>. QED  BY <1>2, <1>3, <1>4

\* f is the heap h after up to n Pops.
PopsTo(h, n, f) == f = [k \in 0 .. n |-> IF k = 0 THEN h ELSE Pop(f[k - 1])]

LEMMA PopsExist == ASSUME NEW h, NEW n \in Nat PROVE \E f : PopsTo(h, n, f)
<1>. DEFINE S == {m \in Nat : \E f : PopsTo(h, m, f)}
<1>1. ASSUME NEW m \in Nat, \A l \in Nat : l < m => l \in S PROVE m \in S
  <2>1. CASE m = 0
    <3>1. PopsTo(h, 0, [k \in 0 .. 0 |-> h])
      BY DEF PopsTo
    <3>. QED  BY <2>1, <3>1
  <2>2. CASE m > 0
    <3>1. m - 1 \in S
      BY <1>1, <2>2
    <3>2. PICK f : PopsTo(h, m - 1, f)
      BY <3>1
    <3>. DEFINE g == [k \in 0 .. m |-> IF k = m THEN Pop(f[m - 1]) ELSE f[k]]
    <3>3. ASSUME NEW k \in 0 .. m PROVE g[k] = IF k = 0 THEN h ELSE Pop(g[k - 1])
      <4>1. CASE k = m
        <5>1. m - 1 \in 0 .. m /\ m - 1 # m
          BY <2>2
        <5>2. g[k] = Pop(f[m - 1]) /\ g[m - 1] = f[m - 1]
          BY <4>1, <5>1
        <5>. QED  BY <2>2, <4>1, <5>2
      <4>2. CASE k # m
        <5>1. k \in 0 .. m - 1 /\ (k # 0 => k - 1 \in 0 .. m /\ k - 1 # m)
          BY <4>2
        <5>2. f[k] = [j \in 0 .. m - 1 |-> IF j = 0 THEN h ELSE Pop(f[j - 1])][k]
          BY <3>2 DEF PopsTo
        <5>3. f[k] = IF k = 0 THEN h ELSE Pop(f[k - 1])
          BY <5>1, <5>2
        <5>4. g[k] = f[k] /\ (k # 0 => g[k - 1] = f[k - 1])
          BY <4>2, <5>1
        <5>. HIDE DEF g
        <5>. QED  BY <5>3, <5>4
      <4>. QED  BY <4>1, <4>2
    <3>4. PopsTo(h, m, g)
      <4>1. g = [k \in 0 .. m |-> g[k]]
        OBVIOUS
      <4>. HIDE DEF g
      <4>. QED  BY <3>3, <4>1 DEF PopsTo
    <3>. QED  BY <3>4
  <2>. QED  BY <2>1, <2>2
<1>. HIDE DEF S
<1>2. n \in S
  BY <1>1, Induction
<1>. QED  BY <1>2 DEF S

\* The recursive definition of Popped defines a function too.
LEMMA PoppedDefined ==
    ASSUME NEW h, Len(h) \in Nat
    PROVE  /\ Popped(h)[0] = h
           /\ \A k \in 1 .. Len(h) : Popped(h)[k] = Pop(Popped(h)[k - 1])
<1>. DEFINE n == Len(h)
            f == Popped(h)
<1>1. PopsTo(h, n, CHOOSE g : PopsTo(h, n, g))
  BY PopsExist
<1>2. f = CHOOSE g : g = [k \in 0 .. n |-> IF k = 0 THEN h ELSE Pop(g[k - 1])]
  BY DEF Popped
<1>3. f = [k \in 0 .. n |-> IF k = 0 THEN h ELSE Pop(f[k - 1])]
  <2>. HIDE DEF f
  <2>. QED  BY <1>1, <1>2 DEF PopsTo
<1>. HIDE DEF f
<1>4. \A k \in 0 .. n : f[k] = IF k = 0 THEN h ELSE Pop(f[k - 1])
  <2>. DEFINE F == [k \in 0 .. n |-> IF k = 0 THEN h ELSE Pop(f[k - 1])]
  <2>1. \A k \in 0 .. n : F[k] = IF k = 0 THEN h ELSE Pop(f[k - 1])
    OBVIOUS
  <2>2. f = F
    BY <1>3
  <2>. HIDE DEF F
  <2>. QED  BY <2>1, <2>2
<1>5. f[0] = h
  <2>1. 0 \in 0 .. n
    OBVIOUS
  <2>. QED  BY <1>4, <2>1
<1>6. \A k \in 1 .. n : f[k] = Pop(f[k - 1])
  <2>1. \A k \in 1 .. n : k \in 0 .. n /\ k # 0
    OBVIOUS
  <2>. QED  BY <1>4, <2>1
<1>. QED  BY <1>5, <1>6 DEF f

\* The heap after k Pops.  What is not before t stays while the first element
\* is before t.
LEMMA PoppedKeeps ==
    ASSUME NEW h \in Seq(Entry), IsHeap(h), NEW t \in Nat, NEW k \in 0 .. Len(h)
    PROVE  LET after == Popped(h) IN
           /\ after[k] \in Seq(Entry) /\ IsHeap(after[k]) /\ Len(after[k]) = Len(h) - k
           /\ ToSet(after[k]) \subseteq ToSet(h)
           /\ (\A j \in 0 .. k - 1 : after[j][1][1] < t)
                 => \A e \in ToSet(h) : ~(e[1] < t) => e \in ToSet(after[k])
<1>. DEFINE after == Popped(h)
            Kept(j) == /\ after[j] \in Seq(Entry) /\ IsHeap(after[j])
                       /\ Len(after[j]) = Len(h) - j
                       /\ ToSet(after[j]) \subseteq ToSet(h)
            Past(j) == \A i \in 0 .. j - 1 : after[i][1][1] < t
            Has(j) == \A e \in ToSet(h) : ~(e[1] < t) => e \in ToSet(after[j])
            S == {j \in Nat : j <= Len(h) => Kept(j) /\ (Past(j) => Has(j))}
<1>1. Len(h) \in Nat /\ after[0] = h /\ \A j \in 1 .. Len(h) : after[j] = Pop(after[j - 1])
  BY PoppedDefined
<1>. HIDE DEF after
<1>2. ASSUME NEW n \in Nat, \A m \in Nat : m < n => m \in S PROVE n \in S
  <2>. SUFFICES ASSUME n <= Len(h) PROVE Kept(n) /\ (Past(n) => Has(n))
    OBVIOUS
  <2>1. CASE n = 0
    BY <1>1, <2>1
  <2>2. CASE n > 0
    <3>. DEFINE m == n - 1
                g == after[m]
    <3>1. m \in Nat /\ m < n /\ m <= Len(h) /\ n \in 1 .. Len(h) /\ n = m + 1
      BY <2>2
    <3>2. Kept(m) /\ (Past(m) => Has(m))
      BY <1>2, <3>1
    <3>3. after[n] = Pop(g)
      BY <1>1, <3>1
    <3>4. g \in Seq(Entry) /\ IsHeap(g) /\ Len(g) = Len(h) - m /\ ToSet(g) \subseteq ToSet(h)
      BY <3>2
    <3>. HIDE DEF g
    <3>5. g # <<>>
      BY <1>1, <3>1, <3>4
    <3>6. /\ Pop(g) \in Seq(Entry) /\ Len(Pop(g)) = Len(g) - 1 /\ IsHeap(Pop(g))
          /\ ToSet(Pop(g)) \subseteq ToSet(g)
          /\ ToSet(g) \ {g[1]} \subseteq ToSet(Pop(g))
      BY <3>4, <3>5, PopKeeps
    <3>7. Kept(n)
      <4>1. Len(Pop(g)) = Len(h) - n
        BY <1>1, <3>1, <3>4, <3>6
      <4>2. ToSet(Pop(g)) \subseteq ToSet(h)
        BY <3>4, <3>6
      <4>. QED  BY <3>3, <3>6, <4>1, <4>2
    <3>8. ASSUME Past(n) PROVE Has(n)
      <4>1. Past(m) /\ g[1][1] < t
        <5>1. m \in 0 .. n - 1 /\ \A i \in 0 .. m - 1 : i \in 0 .. n - 1
          BY <3>1
        <5>2. after[m][1][1] < t
          BY <3>8, <5>1
        <5>3. Past(m)
          BY <3>8, <5>1
        <5>. QED  BY <5>2, <5>3 DEF g
      <4>2. Has(m)
        BY <3>2, <4>1
      <4>3. ASSUME NEW e \in ToSet(h), ~(e[1] < t) PROVE e \in ToSet(after[n])
        <5>1. e \in ToSet(g)
          BY <4>2, <4>3 DEF g
        <5>2. e # g[1]
          BY <4>1, <4>3
        <5>. QED  BY <3>3, <3>6, <5>1, <5>2
      <4>. QED  BY <4>3
    <3>. QED  BY <3>7, <3>8
  <2>. QED  BY <2>1, <2>2
<1>. HIDE DEF S
<1>3. k \in Nat /\ k <= Len(h)
  BY <1>1
<1>4. k \in S
  BY <1>2, <1>3, Induction
<1>. QED  BY <1>3, <1>4 DEF S, after

\* PopPast: what is before t leaves, and nothing else.
LEMMA PopPastKeeps ==
    ASSUME NEW h \in Seq(Entry), IsHeap(h), NEW t \in Nat
    PROVE  /\ PopPast(h, t) \in Seq(Entry) /\ IsHeap(PopPast(h, t))
           /\ ToSet(PopPast(h, t)) = {e \in ToSet(h) : ~(e[1] < t)}
<1>. DEFINE n == Len(h)
            after == Popped(h)
            Done(k) == after[k] = <<>> \/ ~(HeapMin(after[k])[1] < t)
            K == {k \in 0 .. n : Done(k)}
            m == Min(K)
            g == after[m]
<1>1. n \in Nat /\ n \in 0 .. n
  OBVIOUS
<1>2. \A k \in 0 .. n : /\ after[k] \in Seq(Entry) /\ IsHeap(after[k])
                        /\ Len(after[k]) = n - k /\ ToSet(after[k]) \subseteq ToSet(h)
  BY PoppedKeeps
<1>3. PopPast(h, t) = g
  BY DEF PopPast
<1>4. \A k \in 0 .. n : (\A j \in 0 .. k - 1 : after[j][1][1] < t)
                            => \A e \in ToSet(h) : ~(e[1] < t) => e \in ToSet(after[k])
  BY PoppedKeeps
<1>. HIDE DEF after
<1>5. n \in K
  <2>1. after[n] \in Seq(Entry) /\ Len(after[n]) = 0
    BY <1>1, <1>2
  <2>2. after[n] = <<>>
    BY <2>1
  <2>. QED  BY <1>1, <2>2
<1>6. m \in K /\ \A k \in K : m <= k
  <2>1. K \subseteq Nat
    BY <1>1
  <2>. HIDE DEF K
  <2>. QED  BY <1>5, <2>1, MinIsLeast
<1>7. m \in 0 .. n /\ Done(m)
  <2>. HIDE DEF m, Done
  <2>. QED  BY <1>6
<1>8. \A j \in 0 .. m - 1 : after[j][1][1] < t
  <2>. SUFFICES ASSUME NEW j \in 0 .. m - 1 PROVE after[j][1][1] < t
    OBVIOUS
  <2>. HIDE DEF m, K
  <2>1. j \in 0 .. n /\ ~(m <= j)
    BY <1>1, <1>7
  <2>2. j \notin K
    BY <1>6, <2>1
  <2>. QED  BY <2>1, <2>2 DEF K, HeapMin
<1>. HIDE DEF m
<1>9. g \in Seq(Entry) /\ IsHeap(g) /\ ToSet(g) \subseteq ToSet(h)
  BY <1>2, <1>7
<1>10. \A e \in ToSet(h) : ~(e[1] < t) => e \in ToSet(g)
  BY <1>4, <1>7, <1>8
<1>11. g = <<>> \/ ~(g[1][1] < t)
  BY <1>7 DEF HeapMin
<1>. HIDE DEF g
<1>12. ASSUME NEW e \in ToSet(g) PROVE ~(e[1] < t)
  <2>1. PICK i \in 1 .. Len(g) : e = g[i]
    BY <1>9 DEF ToSet
  <2>2. ~Less(e, g[1]) /\ e \in Entry /\ g[1] \in Entry /\ g # <<>>
    BY <1>9, <2>1, RootIsLeast
  <2>3. ~(g[1][1] < t)
    BY <1>11, <2>2
  <2>. QED  BY <2>2, <2>3 DEF Less, Entry
<1>. QED  BY <1>3, <1>9, <1>10, <1>12

-----------------------------------------------------------------------------
(***************************************************************************)
(* The heap of the alarms.                                                 *)
(***************************************************************************)
\* HeapIsTimes looks at the first element only; what keeps it true is that the
\* whole is a heap.
HInv == heap \in Seq(Entry) /\ IsHeap(heap) /\ ToSet(heap) = times

\* HeapIsTimes: the heap has the times there are, neither more nor fewer, and
\* its first element is the earliest, so process, which looks no further than
\* the first element, takes out all that is past and nothing else.
THEOREM HeapRight == HFairSpec => []HeapIsTimes
<1>. USE RequestsAssumption DEF RequestsAssumption
<1>1. HInit => HInv
  <2>. SUFFICES ASSUME HInit PROVE HInv
    OBVIOUS
  <2>1. heap = <<>> /\ times = {}
    BY DEF HInit, Init
  <2>2. <<>> \in Seq(Entry) /\ Len(<<>>) = 0 /\ DOMAIN <<>> = 1 .. 0
    OBVIOUS
  <2>3. ToSet(<<>>) = {} /\ IsHeap(<<>>)
    BY <2>2 DEF ToSet, IsHeap
  <2>. QED  BY <2>1, <2>2, <2>3 DEF HInv
<1>2. TypeOK /\ HInv /\ [HNext]_hvars => HInv'
  <2>. SUFFICES ASSUME TypeOK, HInv, [HNext]_hvars PROVE HInv'
    OBVIOUS
  <2>1. CASE UNCHANGED hvars
    BY <2>1 DEF hvars, vars, HInv
  <2>2. ASSUME NEW t \in 1 .. MaxTime, NEW req \in Requests,
               insert(t, req), heap' = Push(heap, <<t, req>>)
        PROVE  HInv'
    <3>1. <<t, req>> \in Entry
      BY DEF Entry
    <3>2. times' = times \cup {<<t, req>>}
      BY <2>2 DEF insert
    <3>. QED  BY <2>2, <3>1, <3>2, PushKeeps DEF HInv
  <2>3. CASE BeginNotify /\ heap' = PopPast(heap, loop.t)
    <3>1. loop.t \in Nat
      BY DEF TypeOK
    <3>2. times' = {e \in times : ~(e[1] < loop.t)}
      BY <2>3 DEF BeginNotify
    <3>. QED  BY <2>3, <3>1, <3>2, PopPastKeeps DEF HInv
  <2>4. CASE (GoOff \/ Receive \/ EndNotify \/ finish \/ Stop \/ Tick) /\ UNCHANGED heap
    <3>1. times' = times /\ heap' = heap
      BY <2>4 DEF GoOff, Receive, EndNotify, finish, Stop, Tick
    <3>. QED  BY <3>1 DEF HInv
  <2>. QED  BY <2>1, <2>2, <2>3, <2>4 DEF HNext
<1>3. TypeOK /\ HInv => HeapIsTimes
  <2>. SUFFICES ASSUME TypeOK, HInv, heap # <<>>
                PROVE  HeapMin(heap)[1] = minTime(times)
    BY DEF HInv, HeapIsTimes
  <2>1. /\ heap \in Seq(Entry) /\ IsHeap(heap) /\ ToSet(heap) = times
        /\ DOMAIN heap = 1 .. Len(heap) /\ 1 \in 1 .. Len(heap)
    BY DEF HInv
  <2>2. heap[1] \in times
    BY <2>1 DEF ToSet
  <2>3. PICK e \in times : minTime(times) = e[1] /\ minTime(times) <= heap[1][1]
    BY <2>2, MinTime DEF TypeOK
  <2>4. PICK n \in 1 .. Len(heap) : e = heap[n]
    BY <2>1, <2>3 DEF ToSet
  <2>5. ~Less(e, heap[1]) /\ e \in Entry /\ heap[1] \in Entry
    BY <2>1, <2>4, RootIsLeast
  <2>. QED  BY <2>3, <2>5 DEF Less, Entry, HeapMin
<1>4. HFairSpec => []TypeOK
  BY HeapFollows, TypesKept, PTL
<1>. QED  BY <1>1, <1>2, <1>3, <1>4, PTL DEF HFairSpec
=============================================================================
