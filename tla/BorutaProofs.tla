---------------------------- MODULE BorutaProofs ----------------------------
(***************************************************************************)
(* Safety of Boruta for every set of workers, every number of requests and *)
(* every value of the periods and times.                                   *)
(*                                                                         *)
(* Types, jobs and queue are proved together: a request can be taken off   *)
(* the queue only because it is there once, at its priority, and the job   *)
(* that RunRequest creates is the one that the requests agree with only    *)
(* because the request it visits still waits.                              *)
(***************************************************************************)
EXTENDS Boruta, SequenceTheorems, TLAPS

USE DEF WAIT, DeadlineAlarms!insert, DeadlineAlarms!process, TimeoutAlarms!insert, TimeoutAlarms!process

-----------------------------------------------------------------------------
(***************************************************************************)
(* What the operations of the priority queue preserve, for every range of  *)
(* priorities and every number of requests: QueueOK, which says that the   *)
(* queue holds exactly the waiting requests of a collection, each of them  *)
(* once and at its priority.                                               *)
(***************************************************************************)
\* Every ID in the queue is that of a request that waits, with the priority
\* of the list it is in.
OnlyWaiting(q, reqs) ==
    \A p \in Priorities : \A i \in 1 .. Len(q[p]) :
        /\ q[p][i] \in DOMAIN reqs
        /\ reqs[q[p][i]].state = WAIT
        /\ reqs[q[p][i]].prio = p

\* Every request that waits is in the queue.
AllWaiting(q, reqs) ==
    \A r \in DOMAIN reqs : reqs[r].state = WAIT =>
        \E i \in 1 .. Len(q[reqs[r].prio]) : q[reqs[r].prio][i] = r

\* No list holds an ID twice.
NoneTwice(q) ==
    \A p \in Priorities : \A i, j \in 1 .. Len(q[p]) : q[p][i] = q[p][j] => i = j

QueueOK(q, reqs) == OnlyWaiting(q, reqs) /\ AllWaiting(q, reqs) /\ NoneTwice(q)

\* What is left of a list from which the entry at i has been removed.
LEMMA RemoveAtProperties ==
    ASSUME NEW S, NEW s \in Seq(S), NEW i \in 1 .. Len(s)
    PROVE  /\ RemoveAt(s, i) \in Seq(S)
           /\ Len(RemoveAt(s, i)) = Len(s) - 1
           /\ \A j \in 1 .. Len(s) - 1 :
                 RemoveAt(s, i)[j] = IF j < i THEN s[j] ELSE s[j + 1]
  <1> DEFINE a == SubSeq(s, 1, i - 1)
             b == SubSeq(s, i + 1, Len(s))
  <1>0. Len(s) \in Nat /\ i \in Nat /\ i <= Len(s) /\ i >= 1
    BY LenProperties
  <1>1. a \in Seq(S) /\ Len(a) = i - 1 /\ \A j \in 1 .. i - 1 : a[j] = s[j]
    BY <1>0, SubSeqProperties
  <1>2. b \in Seq(S) /\ Len(b) = Len(s) - i
            /\ \A j \in 1 .. Len(s) - i : b[j] = s[i + j]
    BY <1>0, SubSeqProperties
  <1>3. RemoveAt(s, i) = a \o b
    BY DEF RemoveAt
  <1> HIDE DEF a, b
  <1>4. a \o b \in Seq(S) /\ Len(a \o b) = Len(a) + Len(b)
            /\ \A j \in 1 .. Len(a) + Len(b) :
                  (a \o b)[j] = IF j <= Len(a) THEN a[j] ELSE b[j - Len(a)]
    BY <1>1, <1>2, ConcatProperties
  <1> QED
    BY <1>0, <1>1, <1>2, <1>3, <1>4

\* A request that is in the queue once is found where it is.
LEMMA FirstIndexFound ==
    ASSUME NEW s \in Seq(Nat), NEW r, NEW k \in 1 .. Len(s), s[k] = r,
           \A i, j \in 1 .. Len(s) : s[i] = s[j] => i = j
    PROVE  FirstIndex(s, r) = k
  <1>0. Len(s) \in Nat
    BY LenProperties
  <1>1. s[k] = r /\ \A j \in 1 .. k - 1 : s[j] # r
    BY <1>0
  <1>2. \A i \in 1 .. Len(s) : s[i] = r => i = k
    OBVIOUS
  <1> QED
    BY <1>1, <1>2 DEF FirstIndex

\* Removing an entry from a list without duplicates leaves the others.
LEMMA RemoveOnce ==
    ASSUME NEW s \in Seq(Nat), NEW k \in 1 .. Len(s),
           \A i, j \in 1 .. Len(s) : s[i] = s[j] => i = j
    PROVE  LET t == RemoveAt(s, k) IN
           /\ t \in Seq(Nat)
           /\ \A i, j \in 1 .. Len(t) : t[i] = t[j] => i = j
           /\ \A i \in 1 .. Len(t) : t[i] # s[k] /\ \E j \in 1 .. Len(s) : t[i] = s[j]
           /\ \A j \in 1 .. Len(s) : s[j] # s[k] => \E i \in 1 .. Len(t) : t[i] = s[j]
  <1> DEFINE t == RemoveAt(s, k)
  <1>1. /\ t \in Seq(Nat)
        /\ Len(t) = Len(s) - 1
        /\ \A j \in 1 .. Len(s) - 1 : t[j] = IF j < k THEN s[j] ELSE s[j + 1]
    BY RemoveAtProperties
  <1>2. Len(s) \in Nat
    BY LenProperties
  <1> HIDE DEF t
  <1> DEFINE old(i) == IF i < k THEN i ELSE i + 1
  <1>3. \A i \in 1 .. Len(t) : old(i) \in 1 .. Len(s) /\ old(i) # k /\ t[i] = s[old(i)]
    BY <1>1, <1>2
  <1>4. \A i, j \in 1 .. Len(t) : old(i) = old(j) => i = j
    BY <1>1, <1>2
  <1>5. \A j \in 1 .. Len(s) : j # k => \E i \in 1 .. Len(t) : old(i) = j
    <2> SUFFICES ASSUME NEW j \in 1 .. Len(s), j # k
                 PROVE  \E i \in 1 .. Len(t) : old(i) = j
      OBVIOUS
    <2>1. CASE j < k
      <3>1. j \in 1 .. Len(t) /\ old(j) = j
        BY <2>1, <1>1, <1>2
      <3> QED
        BY <3>1
    <2>2. CASE j > k
      <3>1. j - 1 \in 1 .. Len(t) /\ old(j - 1) = j
        BY <2>2, <1>1, <1>2
      <3> QED
        BY <3>1
    <2> QED
      BY <2>1, <2>2, <1>2
  <1> HIDE DEF old
  <1>6. \A i, j \in 1 .. Len(t) : t[i] = t[j] => i = j
    BY <1>3, <1>4
  <1>7. \A i \in 1 .. Len(t) : t[i] # s[k] /\ \E j \in 1 .. Len(s) : t[i] = s[j]
    BY <1>3
  <1>8. \A j \in 1 .. Len(s) : s[j] # s[k] => \E i \in 1 .. Len(t) : t[i] = s[j]
    BY <1>3, <1>5
  <1> QED
    BY <1>1, <1>6, <1>7, <1>8 DEF t

\* removeRequest takes a waiting request off the queue, and nothing else.
LEMMA RemoveRequest ==
    ASSUME NEW q \in [Priorities -> Seq(Nat)], NEW reqs, QueueOK(q, reqs),
           NEW r \in DOMAIN reqs, reqs[r].state = WAIT, reqs[r].prio \in Priorities
    PROVE  LET n == removeRequest(q, r, reqs[r].prio) IN
           /\ n \in [Priorities -> Seq(Nat)]
           /\ NoneTwice(n)
           /\ \A p \in Priorities : \A i \in 1 .. Len(n[p]) :
                 n[p][i] # r /\ \E j \in 1 .. Len(q[p]) : n[p][i] = q[p][j]
           /\ \A p \in Priorities : \A j \in 1 .. Len(q[p]) :
                 q[p][j] # r => \E i \in 1 .. Len(n[p]) : n[p][i] = q[p][j]
  <1> DEFINE o == reqs[r].prio
             s == q[o]
  <1>1. PICK k \in 1 .. Len(s) : s[k] = r
    BY DEF QueueOK, AllWaiting
  <1>2. s \in Seq(Nat) /\ \A i, j \in 1 .. Len(s) : s[i] = s[j] => i = j
    BY DEF QueueOK, NoneTwice
  <1>3. FirstIndex(s, r) = k
    BY <1>1, <1>2, FirstIndexFound
  <1> DEFINE t == RemoveAt(s, k)
             n == removeRequest(q, r, o)
  <1>4. n = [q EXCEPT ![o] = t]
    BY <1>3 DEF removeRequest
  <1>5. s = q[o] /\ o \in Priorities
    OBVIOUS
  <1>6. n \in [Priorities -> Seq(Nat)] /\ \A p \in Priorities : n[p] = IF p = o THEN t ELSE q[p]
    <2>1. t \in Seq(Nat)
      BY <1>2, RemoveOnce
    <2> HIDE DEF t
    <2> QED
      BY <2>1, <1>4
  <1>7. \A p \in Priorities : p # o => \A i \in 1 .. Len(q[p]) : q[p][i] # r
    BY DEF QueueOK, OnlyWaiting
  <1> HIDE DEF n, o, s
  <1>8. /\ \A i, j \in 1 .. Len(t) : t[i] = t[j] => i = j
        /\ \A i \in 1 .. Len(t) : t[i] # s[k] /\ \E j \in 1 .. Len(s) : t[i] = s[j]
        /\ \A j \in 1 .. Len(s) : s[j] # s[k] => \E i \in 1 .. Len(t) : t[i] = s[j]
    BY <1>2, RemoveOnce
  <1> HIDE DEF t
  <1>9. NoneTwice(n)
    <2> SUFFICES ASSUME NEW p \in Priorities
                 PROVE  \A i, j \in 1 .. Len(n[p]) : n[p][i] = n[p][j] => i = j
      BY DEF NoneTwice
    <2>1. CASE p = o
      <3>1. n[p] = t
        BY <2>1, <1>6
      <3> QED
        BY <3>1, <1>8
    <2>2. CASE p # o
      <3>1. n[p] = q[p]
        BY <2>2, <1>6
      <3> QED
        BY <3>1 DEF QueueOK, NoneTwice
    <2> QED
      BY <2>1, <2>2
  <1>10. ASSUME NEW p \in Priorities
         PROVE  /\ \A i \in 1 .. Len(n[p]) :
                      n[p][i] # r /\ \E j \in 1 .. Len(q[p]) : n[p][i] = q[p][j]
                /\ \A j \in 1 .. Len(q[p]) :
                      q[p][j] # r => \E i \in 1 .. Len(n[p]) : n[p][i] = q[p][j]
    <2>1. CASE p = o
      <3>1. n[p] = t /\ q[p] = s
        BY <2>1, <1>5, <1>6
      <3> QED
        BY <3>1, <1>1, <1>8
    <2>2. CASE p # o
      <3>1. n[p] = q[p]
        BY <2>2, <1>6
      <3> QED
        BY <3>1, <2>2, <1>7
    <2> QED
      BY <2>1, <2>2
  <1> QED
    BY <1>6, <1>9, <1>10 DEF n, o

\* pushRequest adds a request at the end of its list, and nothing else.
LEMMA PushRequest ==
    ASSUME NEW q \in [Priorities -> Seq(Nat)], NEW p \in Priorities, NEW r \in Nat
    PROVE  LET n == pushRequest(q, r, p) IN
           /\ n \in [Priorities -> Seq(Nat)]
           /\ \A o \in Priorities : o # p => n[o] = q[o]
           /\ Len(n[p]) = Len(q[p]) + 1
           /\ \A i \in 1 .. Len(q[p]) : n[p][i] = q[p][i]
           /\ n[p][Len(q[p]) + 1] = r
  <1>1. q[p] \in Seq(Nat)
    OBVIOUS
  <1>2. /\ Append(q[p], r) \in Seq(Nat)
        /\ Len(Append(q[p], r)) = Len(q[p]) + 1
        /\ \A i \in 1 .. Len(q[p]) : Append(q[p], r)[i] = q[p][i]
        /\ Append(q[p], r)[Len(q[p]) + 1] = r
    BY <1>1, AppendProperties
  <1> QED
    BY <1>2 DEF pushRequest

\* The queue is right after a request in it has ended or has been run.
LEMMA QueueAfterRemove ==
    ASSUME NEW q \in [Priorities -> Seq(Nat)], NEW old, QueueOK(q, old),
           \A x \in DOMAIN old : old[x].prio \in Priorities,
           NEW r \in DOMAIN old, old[r].state = WAIT,
           NEW new, DOMAIN new = DOMAIN old, new[r].state # WAIT,
           \A x \in DOMAIN old : x # r => new[x].state = old[x].state /\ new[x].prio = old[x].prio
    PROVE  /\ removeRequest(q, r, old[r].prio) \in [Priorities -> Seq(Nat)]
           /\ QueueOK(removeRequest(q, r, old[r].prio), new)
  <1> DEFINE n == removeRequest(q, r, old[r].prio)
  <1>1. /\ n \in [Priorities -> Seq(Nat)]
        /\ NoneTwice(n)
        /\ \A p \in Priorities : \A i \in 1 .. Len(n[p]) :
              n[p][i] # r /\ \E j \in 1 .. Len(q[p]) : n[p][i] = q[p][j]
        /\ \A p \in Priorities : \A j \in 1 .. Len(q[p]) :
              q[p][j] # r => \E i \in 1 .. Len(n[p]) : n[p][i] = q[p][j]
    BY RemoveRequest
  <1> HIDE DEF n
  <1>2. OnlyWaiting(n, new)
    <2> SUFFICES ASSUME NEW p \in Priorities, NEW i \in 1 .. Len(n[p])
                 PROVE  /\ n[p][i] \in DOMAIN new
                        /\ new[n[p][i]].state = WAIT
                        /\ new[n[p][i]].prio = p
      BY DEF OnlyWaiting
    <2>0. n[p][i] # r /\ \E j \in 1 .. Len(q[p]) : n[p][i] = q[p][j]
      BY <1>1, Zenon
    <2>1. PICK j \in 1 .. Len(q[p]) : n[p][i] = q[p][j]
      BY <2>0
    <2>2. q[p][j] \in DOMAIN old /\ old[q[p][j]].state = WAIT /\ old[q[p][j]].prio = p
      BY DEF QueueOK, OnlyWaiting
    <2> QED
      BY <2>0, <2>1, <2>2
  <1>3. AllWaiting(n, new)
    <2> SUFFICES ASSUME NEW x \in DOMAIN new, new[x].state = WAIT
                 PROVE  \E i \in 1 .. Len(n[new[x].prio]) : n[new[x].prio][i] = x
      BY DEF AllWaiting
    <2>1. x # r /\ x \in DOMAIN old /\ old[x].state = WAIT /\ old[x].prio = new[x].prio
      OBVIOUS
    <2>2. PICK j \in 1 .. Len(q[old[x].prio]) : q[old[x].prio][j] = x
      BY <2>1 DEF QueueOK, AllWaiting
    <2>3. \E i \in 1 .. Len(n[old[x].prio]) : n[old[x].prio][i] = q[old[x].prio][j]
      BY <1>1, <2>1, <2>2, Zenon
    <2> QED
      BY <2>1, <2>2, <2>3
  <1> QED
    BY <1>1, <1>2, <1>3 DEF QueueOK, n

\* Request r has come to wait at priority p; the others are as they were.
Added(old, new, r, p) ==
    /\ r \in DOMAIN old => old[r].state # WAIT
    /\ DOMAIN new = DOMAIN old \cup {r}
    /\ new[r].state = WAIT /\ new[r].prio = p
    /\ \A x \in DOMAIN old : x # r =>
           /\ new[x].state = old[x].state /\ new[x].prio = old[x].prio
           /\ old[x].prio \in Priorities

\* The queue is right after a request has been added or put back.
LEMMA QueueAfterPush ==
    ASSUME NEW q \in [Priorities -> Seq(Nat)], NEW old, QueueOK(q, old),
           NEW p \in Priorities, NEW r \in Nat, NEW new, Added(old, new, r, p)
    PROVE  /\ pushRequest(q, r, p) \in [Priorities -> Seq(Nat)]
           /\ QueueOK(pushRequest(q, r, p), new)
  <1> USE DEF Added
  <1> DEFINE n == pushRequest(q, r, p)
             m == Len(q[p])
  <1>1. /\ n \in [Priorities -> Seq(Nat)]
        /\ \A o \in Priorities : o # p => n[o] = q[o]
        /\ Len(n[p]) = m + 1
        /\ \A i \in 1 .. m : n[p][i] = q[p][i]
        /\ n[p][m + 1] = r
    <2> HIDE DEF Added
    <2> QED
      BY PushRequest
  <1>2. m \in Nat
    BY LenProperties
  <1> HIDE DEF n
  <1>3. \A o \in Priorities : \A i \in 1 .. Len(q[o]) : q[o][i] # r
    BY DEF QueueOK, OnlyWaiting
  <1>4. \A o \in Priorities : \A i \in 1 .. Len(n[o]) :
            \/ i \in 1 .. Len(q[o]) /\ n[o][i] = q[o][i]
            \/ o = p /\ i = m + 1 /\ n[o][i] = r
    <2> SUFFICES ASSUME NEW o \in Priorities, NEW i \in 1 .. Len(n[o])
                 PROVE  \/ i \in 1 .. Len(q[o]) /\ n[o][i] = q[o][i]
                        \/ o = p /\ i = m + 1 /\ n[o][i] = r
      OBVIOUS
    <2>1. CASE o = p
      <3>1. i \in 1 .. m \/ i = m + 1
        BY <2>1, <1>1, <1>2
      <3> QED
        BY <2>1, <3>1, <1>1, Zenon
    <2>2. CASE o # p
      <3>1. n[o] = q[o]
        BY <2>2, <1>1
      <3> QED
        BY <3>1
    <2> QED
      BY <2>1, <2>2
  <1>5. \A o \in Priorities : \A i \in 1 .. Len(q[o]) :
            i \in 1 .. Len(n[o]) /\ n[o][i] = q[o][i]
    <2> SUFFICES ASSUME NEW o \in Priorities, NEW i \in 1 .. Len(q[o])
                 PROVE  i \in 1 .. Len(n[o]) /\ n[o][i] = q[o][i]
      OBVIOUS
    <2>1. CASE o = p
      <3>1. i \in 1 .. m
        BY <2>1
      <3>2. n[p][i] = q[p][i] /\ i \in 1 .. m + 1
        BY <3>1, <1>1, <1>2
      <3> QED
        BY <2>1, <3>2, <1>1
    <2>2. CASE o # p
      <3>1. n[o] = q[o]
        BY <2>2, <1>1
      <3> QED
        BY <3>1
    <2> QED
      BY <2>1, <2>2
  <1>6. OnlyWaiting(n, new)
    <2> SUFFICES ASSUME NEW o \in Priorities, NEW i \in 1 .. Len(n[o])
                 PROVE  /\ n[o][i] \in DOMAIN new
                        /\ new[n[o][i]].state = WAIT
                        /\ new[n[o][i]].prio = o
      BY DEF OnlyWaiting
    <2>1. CASE i \in 1 .. Len(q[o]) /\ n[o][i] = q[o][i]
      <3>1. q[o][i] \in DOMAIN old /\ old[q[o][i]].state = WAIT /\ old[q[o][i]].prio = o
        BY <2>1 DEF QueueOK, OnlyWaiting
      <3> QED
        BY <2>1, <3>1, <1>3
    <2>2. CASE o = p /\ i = m + 1 /\ n[o][i] = r
      BY <2>2
    <2> QED
      BY <2>1, <2>2, <1>4
  <1>7. AllWaiting(n, new)
    <2> SUFFICES ASSUME NEW x \in DOMAIN new, new[x].state = WAIT
                 PROVE  \E i \in 1 .. Len(n[new[x].prio]) : n[new[x].prio][i] = x
      BY DEF AllWaiting
    <2>1. CASE x = r
      <3>1. m + 1 \in 1 .. Len(n[p]) /\ n[p][m + 1] = x
        BY <1>1, <1>2, <2>1
      <3> QED
        BY <3>1, <2>1
    <2>2. CASE x # r
      <3>1. x \in DOMAIN old /\ old[x].state = WAIT
                /\ old[x].prio = new[x].prio /\ old[x].prio \in Priorities
        BY <2>2
      <3>2. PICK j \in 1 .. Len(q[old[x].prio]) : q[old[x].prio][j] = x
        BY <3>1 DEF QueueOK, AllWaiting
      <3> QED
        BY <3>1, <3>2, <1>5
    <2> QED
      BY <2>1, <2>2
  <1>8. NoneTwice(n)
    <2> SUFFICES ASSUME NEW o \in Priorities, NEW i \in 1 .. Len(n[o]),
                        NEW j \in 1 .. Len(n[o]), n[o][i] = n[o][j]
                 PROVE  i = j
      BY DEF NoneTwice
    <2>1. \A k, l \in 1 .. Len(q[o]) : q[o][k] = q[o][l] => k = l
      BY DEF QueueOK, NoneTwice
    <2>2. /\ \/ i \in 1 .. Len(q[o]) /\ n[o][i] = q[o][i]
             \/ o = p /\ i = m + 1 /\ n[o][i] = r
          /\ \/ j \in 1 .. Len(q[o]) /\ n[o][j] = q[o][j]
             \/ o = p /\ j = m + 1 /\ n[o][j] = r
      BY <1>4
    <2>3. \A k \in 1 .. Len(q[o]) : q[o][k] # r
      BY <1>3
    <2> QED
      BY <2>1, <2>2, <2>3
  <1> QED
    BY <1>1, <1>6, <1>7, <1>8 DEF QueueOK, n

\* The queue stays right when requests that do not wait change.
LEMMA QueueUnchanged ==
    ASSUME NEW q, NEW old, QueueOK(q, old),
           NEW new, DOMAIN new = DOMAIN old,
           \A x \in DOMAIN old : (new[x].state = WAIT \/ old[x].state = WAIT) =>
               new[x].state = old[x].state /\ new[x].prio = old[x].prio
    PROVE  QueueOK(q, new)
  <1>1. OnlyWaiting(q, new)
    BY DEF QueueOK, OnlyWaiting
  <1>2. AllWaiting(q, new)
    BY DEF QueueOK, AllWaiting
  <1> QED
    BY <1>1, <1>2 DEF QueueOK

USE DEF MAINTENANCE, IDLE, RUN, FAIL, PREPARE, BUSY, ABSENT, WorkerState,
        WL!MAINTENANCE, WL!IDLE, WL!RUN, WL!FAIL, WL!PREPARE, WL!BUSY,
        WL!ABSENT, WL!WorkerState,
        INPROGRESS, CANCEL, TIMEOUT, DONE, FAILED, ReqState,
        NoJob, NoWorker, Zero

-----------------------------------------------------------------------------
(***************************************************************************)
(* The inductive invariant.                                                *)
(***************************************************************************)
IInv == TypeOK /\ JobConsistency /\ QueueOK(queue, requests)

\* What the type of a request says.
LEMMA RequestType ==
    ASSUME TypeOK, NEW r \in ReqIDs
    PROVE  /\ requests[r] \in ReqInfo
           /\ ReqIDs = 1 .. Len(requests)
           /\ r \in Nat /\ r # 0
  <1>1. requests \in Seq(ReqInfo)
    BY DEF TypeOK
  <1>2. ReqIDs = 1 .. Len(requests) /\ Len(requests) \in Nat
    BY <1>1, LenProperties DEF ReqIDs
  <1>3. requests[r] \in ReqInfo
    BY <1>1, <1>2, ElementOfSeq
  <1> QED
    BY <1>2, <1>3

\* A step that replaces one request keeps the type and the number of requests.
LEMMA ReplaceRequest ==
    ASSUME TypeOK, NEW r \in ReqIDs, NEW req \in ReqInfo,
           requests' = [requests EXCEPT ![r] = req]
    PROVE  /\ requests' \in Seq(ReqInfo)
           /\ ReqIDs' = ReqIDs
           /\ \A x \in ReqIDs : requests'[x] = IF x = r THEN req ELSE requests[x]
  <1>1. requests \in Seq(ReqInfo)
    BY DEF TypeOK
  <1>2. r \in 1 .. Len(requests)
    BY RequestType
  <1>3. requests' \in Seq(ReqInfo)
    BY <1>1, <1>2, ExceptSeq
  <1> QED
    BY <1>1, <1>3 DEF ReqIDs

\* An empty server satisfies the invariant.
LEMMA InitInv == Init => IInv
  <1> SUFFICES ASSUME Init PROVE IInv
    OBVIOUS
  <1> USE DEF Init, WL!Init
  <1>1. requests \in Seq(ReqInfo) /\ ReqIDs = {}
    BY DEF ReqIDs
  <1>2. queue \in [Priorities -> Seq(Nat)]
    BY DEF newPrioQueue
  <1>3. matcher \in [pc : {"asleep", "awake", "walk", "create", "halted"},
                     todo : SUBSET (Nat \X Nat), now : Nat, worker : Workers \cup {NoWorker}]
    BY DEF AsleepMatcher
  <1>4. TypeOK
    BY <1>1, <1>2, <1>3 DEF TypeOK, NoInfo
  <1>5. JobConsistency
    BY <1>1 DEF JobConsistency, AsleepMatcher
  <1>6. QueueOK(queue, requests)
    BY <1>1 DEF QueueOK, OnlyWaiting, AllWaiting, NoneTwice, newPrioQueue, ReqIDs
  <1> QED
    BY <1>4, <1>5, <1>6 DEF IInv

-----------------------------------------------------------------------------
(***************************************************************************)
(* Steps that change neither requests, jobs, queue nor workers.            *)
(***************************************************************************)

\* A step of the alarms or of the matcher, while no worker has been taken.
LEMMA QuietStep ==
    ASSUME IInv, TypeOK', UNCHANGED <<wstate, requests, jobs, queue>>,
           \/ UNCHANGED matcher
           \/ /\ matcher.pc \notin {"create", "halted"}
              /\ matcher'.pc \notin {"create", "halted"}
              /\ matcher'.worker = NoWorker
    PROVE  IInv'
  <1>1. QueueOK(queue, requests)'
    BY DEF IInv
  <1>2. CASE UNCHANGED matcher
    BY <1>1, <1>2 DEF IInv, JobConsistency, ReqIDs, Visited
  <1>3. CASE /\ matcher.pc \notin {"create", "halted"}
             /\ matcher'.pc \notin {"create", "halted"}
             /\ matcher'.worker = NoWorker
    <2>1. matcher.worker = NoWorker
      BY <1>3 DEF IInv, JobConsistency
    <2>2. JobConsistency'
      BY <1>3, <2>1 DEF IInv, JobConsistency, ReqIDs
    <2> QED
      BY <1>1, <2>2 DEF IInv
  <1> QED
    BY <1>2, <1>3

\* The passing of time preserves the invariant.
LEMMA TickInv == IInv /\ Tick => IInv'
  <1> SUFFICES ASSUME IInv, Tick PROVE IInv'
    OBVIOUS
  <1>1. TypeOK'
    BY DEF IInv, TypeOK, Tick, wvars, rvars, avars, mvars, ReqIDs
  <1> QED
    BY <1>1, QuietStep DEF Tick, wvars, rvars, mvars

\* So does an alarm that a call sets after its critical section.
LEMMA InsertInv ==
    ASSUME IInv, NEW c \in pending, InsertValid(c) \/ InsertDeadline(c)
    PROVE  IInv'
  <1> USE DEF wvars, rvars, mvars
  <1>0. c.valid \in Nat /\ c.deadline \in Nat /\ c.req \in ReqIDs
    BY DEF IInv, TypeOK
  <1>1. CASE InsertValid(c)
    <2>1. ReqIDs' = ReqIDs
      BY <1>1 DEF InsertValid, ReqIDs
    <2>2. validTimes' \subseteq Nat
      BY <1>0, <1>1 DEF InsertValid, IInv, TypeOK
    <2>3. pending' \subseteq [valid : Nat, deadline : Nat, req : ReqIDs]
      <3>1. AlarmsLeft(Caller(Zero, c.deadline, c.req))
                \subseteq [valid : Nat, deadline : Nat, req : ReqIDs]
        BY <1>0 DEF AlarmsLeft, Caller
      <3> QED
        BY <3>1, <1>1 DEF InsertValid, IInv, TypeOK
    <2>4. TypeOK'
      BY <1>1, <2>1, <2>2, <2>3 DEF InsertValid, IInv, TypeOK
    <2> QED
      BY <1>1, <2>4, QuietStep DEF InsertValid
  <1>2. CASE InsertDeadline(c)
    <2>1. ReqIDs' = ReqIDs
      BY <1>2 DEF InsertDeadline, ReqIDs
    <2>2. TypeOK'
      BY <1>0, <1>2, <2>1 DEF InsertDeadline, IInv, TypeOK
    <2> QED
      BY <1>2, <2>2, QuietStep DEF InsertDeadline
  <1> QED
    BY <1>1, <1>2

\* So does a timer that goes off: what it moves from the alarms to a
\* matcher's list are requests that exist.
LEMMA ProcessInv ==
    ASSUME IInv, NEW t \in Nat, Process(t)
    PROVE  IInv'
  <1> USE DEF wvars, rvars
  <1>1. CASE ProcessValid(t)
    <2>1. TypeOK'
      BY <1>1 DEF ProcessValid, IInv, TypeOK, ReqIDs
    <2>2. matcher.worker = NoWorker /\ matcher'.worker = NoWorker /\ matcher'.pc = "awake"
      BY <1>1 DEF ProcessValid, IInv, TypeOK, JobConsistency
    <2> QED
      BY <1>1, <2>1, <2>2, QuietStep DEF ProcessValid
  <1>2. CASE ProcessDeadline(t)
    <2>1. ReqIDs' = ReqIDs
      BY <1>2 DEF ProcessDeadline, ReqIDs
    <2>2. deadlineTimes' \subseteq Nat \X ReqIDs /\ deadlineDue' \subseteq ReqIDs
      BY <1>2 DEF ProcessDeadline, IInv, TypeOK
    <2>3. TypeOK'
      BY <1>2, <2>1, <2>2 DEF ProcessDeadline, IInv, TypeOK
    <2> QED
      BY <1>2, <2>3, QuietStep DEF ProcessDeadline
  <1>3. CASE ProcessTimeout(t)
    <2>1. ReqIDs' = ReqIDs
      BY <1>3 DEF ProcessTimeout, ReqIDs
    <2>2. timeoutTimes' \subseteq Nat \X ReqIDs /\ timeoutDue' \subseteq ReqIDs
      BY <1>3 DEF ProcessTimeout, IInv, TypeOK
    <2>3. TypeOK'
      BY <1>3, <2>1, <2>2 DEF ProcessTimeout, IInv, TypeOK
    <2> QED
      BY <1>3, <2>3, QuietStep DEF ProcessTimeout
  <1> QED
    BY <1>1, <1>2, <1>3 DEF Process

\* So do the steps of ValidMatcher's walk that find no worker.
LEMMA WalkInv ==
    ASSUME IInv, InitIteration \/ SkipRequest \/ EndNotify
    PROVE  IInv'
  <1> USE DEF wvars, rvars, avars
  <1>1. matcher' \in [pc : {"asleep", "awake", "walk"}, todo : SUBSET (Nat \X Nat),
                      now : Nat, worker : {NoWorker}]
    <2>1. CASE InitIteration
      <3>1. Places(queue) \subseteq Nat \X Nat
        BY PrioAssumption DEF Places, Priorities, IInv, TypeOK
      <3> QED
        BY <2>1, <3>1 DEF InitIteration, IInv, TypeOK
    <2>2. CASE SkipRequest
      BY <2>2 DEF SkipRequest, IInv, TypeOK, JobConsistency
    <2>3. CASE EndNotify
      BY <2>3 DEF EndNotify, AsleepMatcher
    <2> QED
      BY <2>1, <2>2, <2>3
  <1>2. matcher.pc \in {"awake", "walk"}
            /\ UNCHANGED <<wvars, rvars, clock, avars, deadlineDue, timeoutDue>>
    BY DEF InitIteration, SkipRequest, EndNotify
  <1>3. TypeOK'
    BY <1>1, <1>2 DEF IInv, TypeOK, ReqIDs
  <1> QED
    BY <1>1, <1>2, <1>3, QuietStep

\* A failed Create leaves the worker taken and without a job.
LEMMA CreateFailsInv == IInv /\ CreateFails => IInv'
  <1> SUFFICES ASSUME IInv, CreateFails PROVE IInv'
    OBVIOUS
  <1> USE DEF CreateFails, wvars, rvars, avars
  <1>1. TypeOK'
    BY DEF IInv, TypeOK, ReqIDs
  <1>2. matcher'.pc = "halted" /\ matcher'.worker = matcher.worker /\ matcher'.todo = matcher.todo
    BY DEF IInv, TypeOK
  <1>3. JobConsistency'
    BY <1>2 DEF IInv, JobConsistency, ReqIDs, Visited
  <1> QED
    BY <1>1, <1>3 DEF IInv

-----------------------------------------------------------------------------
(***************************************************************************)
(* Calls and background operations that change a worker.                   *)
(***************************************************************************)

\* Changes of a worker of which the listener is told.  The one that breaks a
\* job takes the request with it; no other ends RUN.
LEMMA ListenerInv ==
    ASSUME IInv, NEW w \in Workers, NEW s \in WorkerState,
           wstate' = [wstate EXCEPT ![w] = s],
           s = RUN => wstate[w] = RUN,
           wstate[w] = RUN => s \notin {IDLE, PREPARE},
           winfo' \in [Workers -> [caps : SUBSET Caps, groups : SUBSET Groups]],
           Listener(w)
    PROVE  IInv'
  <1> USE DEF Listener, mvars
  <1>0. TypeOK /\ JobConsistency /\ QueueOK(queue, requests)
    BY DEF IInv
  <1>1. wstate' \in [Workers -> WorkerState \cup {ABSENT}] /\ wstate'[w] = s
            /\ \A v \in Workers : v # w => wstate'[v] = wstate[v]
    BY <1>0 DEF TypeOK
  <1>2. validTimes' \subseteq Nat
    BY <1>0 DEF OnWorkerIdle, TypeOK
  <1>3. matcher.worker = w => ~BreaksJob(wstate[w], s)
    BY <1>0, <1>1, WorkersAssumption DEF JobConsistency, OnWorkerFail, RFree
  <1>4. CASE ~BreaksJob(wstate[w], s)
    <2>1. UNCHANGED <<jobs, requests>> /\ ReqIDs' = ReqIDs
      BY <1>1, <1>4 DEF OnWorkerFail, ReqIDs
    <2>2. TypeOK'
      BY <1>0, <1>1, <1>2, <2>1 DEF TypeOK
    <2>3. (wstate[w] = RUN) <=> (s = RUN)
      BY <1>4 DEF BreaksJob
    <2>4. \A v \in Workers : (wstate'[v] = RUN) <=> (wstate[v] = RUN)
      BY <1>1, <2>3
    <2>5. matcher.worker # NoWorker => matcher.worker \in Workers
      BY <1>0 DEF TypeOK
    <2>6. JobConsistency'
      BY <1>0, <2>1, <2>4, <2>5 DEF JobConsistency, Visited
    <2> QED
      BY <1>0, <2>1, <2>2, <2>6 DEF IInv
  <1>5. CASE BreaksJob(wstate[w], s) /\ jobs[w] = NoJob
    <2>1. requests' = requests /\ ReqIDs' = ReqIDs /\ jobs' = [jobs EXCEPT ![w] = NoJob]
      BY <1>1, <1>5 DEF OnWorkerFail, ReqIDs
    <2>2. jobs' = jobs
      BY <1>0, <1>5, <2>1 DEF TypeOK
    <2>3. TypeOK'
      BY <1>0, <1>1, <1>2, <2>1, <2>2 DEF TypeOK
    <2>4. wstate[w] = RUN /\ matcher.worker # w
      BY <1>3, <1>5 DEF BreaksJob
    <2>5. FALSE
      BY <1>0, <1>5, <2>4 DEF JobConsistency
    <2> QED
      BY <2>5
  <1>6. CASE BreaksJob(wstate[w], s) /\ jobs[w] # NoJob
    <2> DEFINE r == jobs[w]
    <2>1. r \in ReqIDs /\ requests[r].state = INPROGRESS /\ requests[r].worker = w
      BY <1>0, <1>6 DEF TypeOK, JobConsistency
    <2>2. /\ RFree
          /\ jobs' = [jobs EXCEPT ![w] = NoJob]
          /\ requests' = [requests EXCEPT ![r].state = FAILED]
      BY <1>1, <1>6 DEF OnWorkerFail
    <2> DEFINE req == [requests[r] EXCEPT !.state = FAILED]
    <2>3. req \in ReqInfo /\ requests' = [requests EXCEPT ![r] = req]
      BY <1>0, <2>1, <2>2, RequestType DEF ReqInfo
    <2>4. /\ requests' \in Seq(ReqInfo) /\ ReqIDs' = ReqIDs
          /\ \A x \in ReqIDs : requests'[x] = IF x = r THEN req ELSE requests[x]
      BY <1>0, <2>1, <2>3, ReplaceRequest
    <2>5. req.state = FAILED /\ req.worker = w
      BY <1>0, <2>1, RequestType DEF ReqInfo
    <2> HIDE DEF req
    <2>6. /\ jobs' \in [Workers -> ReqIDs \cup {NoJob}] /\ jobs'[w] = NoJob
          /\ \A v \in Workers : v # w => jobs'[v] = jobs[v]
      BY <1>0, <2>2 DEF TypeOK
    <2>7. TypeOK'
      BY <1>0, <1>1, <1>2, <2>4, <2>6 DEF TypeOK
    <2>8. matcher.worker = NoWorker
      BY <1>0, <2>2 DEF RFree, JobConsistency
    <2>9. \A v \in Workers : v # w /\ jobs[v] # NoJob => jobs[v] \in ReqIDs /\ jobs[v] # r
      BY <1>0, <2>1 DEF TypeOK, JobConsistency
    <2>10. s # RUN
      BY <1>6 DEF BreaksJob
    <2>11. JobConsistency'
      <3>1. ASSUME NEW v \in Workers, jobs'[v] # NoJob
            PROVE  requests'[jobs'[v]].state = INPROGRESS /\ requests'[jobs'[v]].worker = v
                       /\ wstate'[v] = RUN
        BY <1>0, <1>1, <2>4, <2>6, <2>9, <3>1 DEF JobConsistency
      <3>2. ASSUME NEW x \in ReqIDs', requests'[x].state = INPROGRESS
            PROVE  requests'[x].worker \in Workers /\ jobs'[requests'[x].worker] = x
        <4>1. x \in ReqIDs /\ x # r /\ requests'[x] = requests[x]
          BY <2>4, <2>5, <3>2
        <4>2. requests[x].worker \in Workers /\ jobs[requests[x].worker] = x
          BY <1>0, <3>2, <4>1 DEF JobConsistency
        <4> QED
          BY <2>6, <4>1, <4>2
      <3>3. ASSUME NEW v \in Workers, wstate'[v] = RUN
            PROVE  jobs'[v] # NoJob \/ matcher'.worker = v
        BY <1>0, <1>1, <2>6, <2>10, <3>3 DEF JobConsistency
      <3> QED
        BY <1>0, <2>8, <3>1, <3>2, <3>3 DEF JobConsistency
    <2>12. QueueOK(queue, requests')
      BY <1>0, <2>1, <2>4, <2>5, QueueUnchanged DEF ReqIDs
    <2> QED
      BY <2>7, <2>11, <2>12 DEF IInv
  <1> QED
    BY <1>4, <1>5, <1>6

\* Every call of the list of workers preserves the invariant.
LEMMA WorkerStepInv ==
    ASSUME IInv, WorkerStep
    PROVE  IInv'
  <1>0. TypeOK /\ JobConsistency /\ QueueOK(queue, requests)
    BY DEF IInv
  <1>1. PICK w \in Workers :
        \/ \E caps \in SUBSET Caps, otherPorts \in BOOLEAN : Register(w, caps, otherPorts)
        \/ SetFail(w)
        \/ \E state \in {IDLE, MAINTENANCE} : SetState(w, state)
        \/ \E groups \in SUBSET Groups : SetGroups(w, groups)
        \/ Deregister(w)
        \/ \E ok \in BOOLEAN : PrepareDone(w, ok) \/ MaintenanceDone(w, ok)
    BY DEF WorkerStep
  <1>2. wstate[w] \in WorkerState \cup {ABSENT}
    BY <1>0 DEF TypeOK
  <1>3. ASSUME NEW caps \in SUBSET Caps, NEW otherPorts \in BOOLEAN, Register(w, caps, otherPorts)
        PROVE  IInv'
    <2> DEFINE changed == otherPorts \/ caps # winfo[w].caps
               s == WL!RegisterTarget(wstate[w], changed)
    <2>1. wstate' = [wstate EXCEPT ![w] = s] /\ Listener(w)
      BY <1>3 DEF Register, WL!Register, WL!setState
    <2>2. s \in WorkerState /\ (s = RUN => wstate[w] = RUN)
              /\ (wstate[w] = RUN => s \notin {IDLE, PREPARE})
      BY <1>2 DEF WL!RegisterTarget
    <2>3. winfo' \in [Workers -> [caps : SUBSET Caps, groups : SUBSET Groups]]
      <3>1. winfo \in [Workers -> [caps : SUBSET Caps, groups : SUBSET Groups]]
                /\ winfo' = [winfo EXCEPT ![w] = [winfo[w] EXCEPT !.caps = caps]]
        BY <1>0, <1>3 DEF Register, TypeOK
      <3>2. [winfo[w] EXCEPT !.caps = caps] \in [caps : SUBSET Caps, groups : SUBSET Groups]
        BY <3>1
      <3> QED
        BY <3>1, <3>2
    <2> HIDE DEF s
    <2> QED
      BY <2>1, <2>2, <2>3, ListenerInv
  <1>4. CASE SetFail(w)
    <2>1. wstate' = [wstate EXCEPT ![w] = FAIL] /\ Listener(w) /\ UNCHANGED winfo
      BY <1>4 DEF SetFail, WL!SetFail, WL!setState
    <2> QED
      BY <2>1, <1>0, ListenerInv DEF TypeOK
  <1>5. ASSUME NEW state \in {IDLE, MAINTENANCE}, SetState(w, state)
        PROVE  IInv'
    <2> DEFINE s == WL!SetStateTarget(state)
    <2>1. wstate' = [wstate EXCEPT ![w] = s] /\ Listener(w) /\ UNCHANGED winfo
      BY <1>5 DEF SetState, WL!SetState, WL!setState
    <2>2. s \in {PREPARE, BUSY} /\ (wstate[w] = RUN => s \notin {IDLE, PREPARE})
      BY <1>5 DEF SetState, WL!SetState, WL!SetStateActs, WL!SetStateTarget
    <2> HIDE DEF s
    <2> QED
      BY <2>1, <2>2, <1>0, ListenerInv DEF TypeOK
  <1>6. ASSUME NEW groups \in SUBSET Groups, SetGroups(w, groups)
        PROVE  IInv'
    <2>1. TypeOK'
      BY <1>0, <1>6 DEF SetGroups, OnWorkerIdle, TypeOK, rvars, mvars, ReqIDs
    <2> QED
      BY <1>6, <2>1, QuietStep DEF SetGroups, rvars, mvars
  <1>7. CASE Deregister(w)
    <2> USE DEF Deregister, WL!Deregister, WL!setState, rvars, avars, mvars
    <2>1. wstate' = [wstate EXCEPT ![w] = ABSENT] /\ wstate[w] # RUN
      BY <1>7
    <2>2. TypeOK'
      BY <1>0, <1>7 DEF TypeOK, ReqIDs, NoInfo
    <2>3. \A v \in Workers : (wstate'[v] = RUN) <=> (wstate[v] = RUN)
      BY <1>0, <2>1 DEF TypeOK
    <2>4. matcher.worker # NoWorker => matcher.worker \in Workers
      BY <1>0 DEF TypeOK
    <2>5. JobConsistency'
      BY <1>0, <1>7, <2>3, <2>4 DEF JobConsistency, ReqIDs, Visited
    <2> QED
      BY <1>0, <1>7, <2>2, <2>5 DEF IInv
  <1>8. ASSUME NEW ok \in BOOLEAN, PrepareDone(w, ok) PROVE IInv'
    <2> DEFINE s == IF ok THEN IDLE ELSE FAIL
    <2>1. wstate' = [wstate EXCEPT ![w] = s] /\ wstate[w] = PREPARE /\ Listener(w) /\ UNCHANGED winfo
      BY <1>8 DEF PrepareDone, WL!PrepareDone, WL!setState
    <2>2. s \in {IDLE, FAIL}
      OBVIOUS
    <2> HIDE DEF s
    <2> QED
      BY <2>1, <2>2, <1>0, ListenerInv DEF TypeOK
  <1>9. ASSUME NEW ok \in BOOLEAN, MaintenanceDone(w, ok) PROVE IInv'
    <2> DEFINE s == IF ok THEN MAINTENANCE ELSE FAIL
    <2>1. wstate' = [wstate EXCEPT ![w] = s] /\ wstate[w] = BUSY /\ Listener(w) /\ UNCHANGED winfo
      BY <1>9 DEF MaintenanceDone, WL!MaintenanceDone, WL!setState
    <2>2. s \in {MAINTENANCE, FAIL}
      OBVIOUS
    <2> HIDE DEF s
    <2> QED
      BY <2>1, <2>2, <1>0, ListenerInv DEF TypeOK
  <1> QED
    BY <1>1, <1>3, <1>4, <1>5, <1>6, <1>7, <1>8, <1>9

-----------------------------------------------------------------------------
(***************************************************************************)
(* Steps that change requests.                                             *)
(***************************************************************************)

\* Where ReqsCollection.mutex is free, ValidMatcher has taken no worker.
LEMMA NothingTaken ==
    ASSUME IInv, RFree
    PROVE  matcher.worker = NoWorker /\ matcher.pc \notin {"create", "halted"}
  BY DEF IInv, JobConsistency, RFree

\* Requests that wait may change as long as they do not come to be in progress.
LEMMA JobsUnchanged ==
    ASSUME IInv, RFree, UNCHANGED <<wstate, jobs, matcher>>,
           ReqIDs \subseteq ReqIDs',
           \A x \in ReqIDs : requests[x].state = INPROGRESS =>
               /\ requests'[x].state = INPROGRESS
               /\ requests'[x].worker = requests[x].worker,
           \A x \in ReqIDs' : requests'[x].state = INPROGRESS =>
               x \in ReqIDs /\ requests[x].state = INPROGRESS
    PROVE  JobConsistency'
  <1>1. matcher.worker = NoWorker /\ matcher.pc \notin {"create", "halted"}
    BY NothingTaken
  <1>2. jobs \in [Workers -> ReqIDs \cup {NoJob}]
    BY DEF IInv, TypeOK
  <1>3. ASSUME NEW w \in Workers, jobs[w] # NoJob
        PROVE  /\ requests'[jobs[w]].state = INPROGRESS
               /\ requests'[jobs[w]].worker = w
               /\ wstate[w] = RUN
    BY <1>2, <1>3 DEF IInv, JobConsistency
  <1>4. ASSUME NEW r \in ReqIDs', requests'[r].state = INPROGRESS
        PROVE  requests'[r].worker \in Workers /\ jobs[requests'[r].worker] = r
    BY <1>4 DEF IInv, JobConsistency
  <1>5. \A w \in Workers : wstate[w] = RUN => jobs[w] # NoJob \/ matcher.worker = w
    BY DEF IInv, JobConsistency
  <1> QED
    BY <1>1, <1>3, <1>4, <1>5 DEF JobConsistency

\* A new request has a fresh ID, waits, and is put into the queue.
LEMMA NewRequestInv ==
    ASSUME IInv,
           NEW prio \in Priorities, NEW groups \in SUBSET Groups, NEW caps \in SUBSET Caps,
           NEW validAfter \in ValidAfters, NEW deadline \in Deadlines, NEW now \in 1 .. clock,
           NewRequest(prio, groups, caps, validAfter, deadline, now)
    PROVE  IInv'
  <1> DEFINE id  == Len(requests) + 1
             req == [prio |-> prio, groups |-> groups, caps |-> caps,
                     validAfter |-> IF validAfter = Zero THEN now ELSE validAfter,
                     deadline |-> IF deadline = Zero THEN now + DefaultDeadline ELSE deadline,
                     state |-> WAIT, worker |-> NoWorker, timeout |-> Zero]
  <1>0. TypeOK /\ JobConsistency /\ QueueOK(queue, requests)
    BY DEF IInv
  <1>1. /\ RFree
        /\ requests' = Append(requests, req)
        /\ queue' = pushRequest(queue, id, prio)
        /\ pending' = pending \cup {Caller(req.validAfter, req.deadline, id)}
        /\ UNCHANGED <<wvars, jobs, clock, validTimes, deadlineTimes, timeoutTimes, mvars>>
    BY DEF NewRequest, NextID
  <1>2. req \in ReqInfo
    <2>1. now \in Nat
      BY <1>0 DEF TypeOK
    <2> QED
      BY <2>1, PeriodsAssumption, InputsAssumption DEF ReqInfo
  <1>3. req.validAfter \in Nat /\ req.deadline \in Nat
    BY <1>2 DEF ReqInfo
  <1>4. req.state = WAIT /\ req.prio = prio
    OBVIOUS
  <1> HIDE DEF req
  <1>5. requests \in Seq(ReqInfo) /\ Len(requests) \in Nat /\ ReqIDs = 1 .. Len(requests)
    BY <1>0, LenProperties DEF TypeOK, ReqIDs
  <1>6. /\ requests' \in Seq(ReqInfo)
        /\ ReqIDs' = ReqIDs \cup {id}
        /\ \A x \in ReqIDs : requests'[x] = requests[x]
        /\ requests'[id] = req
        /\ id \in Nat /\ id \notin ReqIDs
    <2>1. /\ requests' \in Seq(ReqInfo)
          /\ Len(requests') = Len(requests) + 1
          /\ \A x \in 1 .. Len(requests) : requests'[x] = requests[x]
          /\ requests'[Len(requests) + 1] = req
      BY <1>1, <1>2, <1>5, AppendProperties
    <2>2. ReqIDs' = 1 .. Len(requests) + 1
      BY <2>1, LenProperties DEF ReqIDs
    <2> QED
      BY <2>1, <2>2, <1>5
  <1> HIDE DEF id
  <1>7. queue' \in [Priorities -> Seq(Nat)] /\ QueueOK(queue', requests')
    <2>1. \A x \in ReqIDs : requests[x].prio \in Priorities
      BY <1>0, RequestType DEF ReqInfo
    <2>2. queue \in [Priorities -> Seq(Nat)]
      BY <1>0 DEF TypeOK
    <2>3. Added(requests, requests', id, prio)
      BY <1>4, <1>6, <2>1 DEF ReqIDs, Added
    <2> QED
      BY <1>0, <1>1, <1>6, <2>2, <2>3, QueueAfterPush
  <1>8. pending' \subseteq [valid : Nat, deadline : Nat, req : ReqIDs']
    <2>1. Caller(req.validAfter, req.deadline, id) \in [valid : Nat, deadline : Nat, req : ReqIDs']
      BY <1>3, <1>6 DEF Caller
    <2>2. pending \subseteq [valid : Nat, deadline : Nat, req : ReqIDs']
      BY <1>0, <1>6 DEF TypeOK
    <2> QED
      BY <1>1, <2>1, <2>2
  <1>9. TypeOK'
    BY <1>0, <1>1, <1>6, <1>7, <1>8 DEF TypeOK, wvars, mvars
  <1>10. JobConsistency'
    BY <1>1, <1>4, <1>6, JobsUnchanged DEF wvars, mvars
  <1> QED
    BY <1>7, <1>9, <1>10 DEF IInv

\* A waiting request ends: CloseRequest cancels it or Timeout ends it.
LEMMA EndWaiting ==
    ASSUME IInv, RFree, NEW r \in ReqIDs, requests[r].state = WAIT,
           NEW s \in {CANCEL, TIMEOUT},
           requests' = [requests EXCEPT ![r].state = s],
           queue' = removeRequest(queue, r, requests[r].prio),
           UNCHANGED <<wvars, jobs, clock, avars, matcher, timeoutDue>>,
           deadlineDue' \subseteq deadlineDue
    PROVE  IInv'
  <1> DEFINE req == [requests[r] EXCEPT !.state = s]
  <1>0. TypeOK /\ JobConsistency /\ QueueOK(queue, requests)
    BY DEF IInv
  <1>1. req \in ReqInfo /\ requests' = [requests EXCEPT ![r] = req] /\ req.state = s
    BY <1>0, RequestType DEF ReqInfo
  <1> HIDE DEF req
  <1>2. /\ requests' \in Seq(ReqInfo) /\ ReqIDs' = ReqIDs
        /\ \A x \in ReqIDs : requests'[x] = IF x = r THEN req ELSE requests[x]
    BY <1>0, <1>1, ReplaceRequest
  <1>3. queue' \in [Priorities -> Seq(Nat)] /\ QueueOK(queue', requests')
    <2>1. \A x \in ReqIDs : requests[x].prio \in Priorities
      BY <1>0, RequestType DEF ReqInfo
    <2>2. queue \in [Priorities -> Seq(Nat)]
      BY <1>0 DEF TypeOK
    <2>3. DOMAIN requests' = DOMAIN requests /\ requests'[r].state # WAIT
      BY <1>1, <1>2 DEF ReqIDs
    <2>4. \A x \in ReqIDs : x # r => requests'[x].state = requests[x].state
                                         /\ requests'[x].prio = requests[x].prio
      BY <1>2
    <2> QED
      BY <1>0, <2>1, <2>2, <2>3, <2>4, QueueAfterRemove DEF ReqIDs
  <1>4. TypeOK'
    BY <1>0, <1>2, <1>3 DEF TypeOK, wvars, avars
  <1>5. JobConsistency'
    BY <1>1, <1>2, JobsUnchanged DEF wvars
  <1> QED
    BY <1>3, <1>4, <1>5 DEF IInv

\* A request in progress is done: CloseRequest or Close ends it.
LEMMA EndRunning ==
    ASSUME IInv, RFree, NEW r \in ReqIDs, requests[r].state = INPROGRESS, closeRequest(r),
           UNCHANGED <<winfo, queue, clock, avars, matcher, deadlineDue>>,
           timeoutDue' \subseteq timeoutDue
    PROVE  IInv'
  <1> DEFINE req == [requests[r] EXCEPT !.state = DONE]
             w == requests[r].worker
  <1>0. TypeOK /\ JobConsistency /\ QueueOK(queue, requests)
    BY DEF IInv
  <1>1. req \in ReqInfo /\ requests' = [requests EXCEPT ![r] = req] /\ req.state = DONE
    BY <1>0, RequestType DEF ReqInfo, closeRequest
  <1> HIDE DEF req
  <1>2. /\ requests' \in Seq(ReqInfo) /\ ReqIDs' = ReqIDs
        /\ \A x \in ReqIDs : requests'[x] = IF x = r THEN req ELSE requests[x]
    BY <1>0, <1>1, ReplaceRequest
  <1>3. w \in Workers /\ jobs[w] = r /\ r # NoJob /\ wstate[w] = RUN
    BY <1>0, RequestType DEF JobConsistency
  <1>4. jobs' = [jobs EXCEPT ![w] = NoJob] /\ wstate' = [wstate EXCEPT ![w] = PREPARE]
    BY <1>3 DEF closeRequest, WL!PrepareWorker, WL!setState
  <1>5. /\ jobs' \in [Workers -> ReqIDs \cup {NoJob}] /\ jobs'[w] = NoJob
        /\ \A v \in Workers : v # w => jobs'[v] = jobs[v]
    BY <1>0, <1>3, <1>4 DEF TypeOK
  <1>6. /\ wstate' \in [Workers -> WorkerState \cup {ABSENT}] /\ wstate'[w] = PREPARE
        /\ \A v \in Workers : v # w => wstate'[v] = wstate[v]
    BY <1>0, <1>3, <1>4 DEF TypeOK
  <1>7. TypeOK'
    BY <1>0, <1>2, <1>5, <1>6 DEF TypeOK, avars
  <1>8. QueueOK(queue', requests')
    BY <1>0, <1>1, <1>2, QueueUnchanged DEF ReqIDs
  <1>9. matcher.worker = NoWorker /\ matcher.pc \notin {"create", "halted"}
    BY NothingTaken
  <1> HIDE DEF w
  <1>10. JobConsistency'
    <2>1. ASSUME NEW v \in Workers, jobs'[v] # NoJob
          PROVE  requests'[jobs'[v]].state = INPROGRESS /\ requests'[jobs'[v]].worker = v
                     /\ wstate'[v] = RUN
      <3>1. v # w /\ jobs'[v] = jobs[v] /\ jobs[v] \in ReqIDs
        BY <1>0, <1>5, <2>1 DEF TypeOK
      <3>2. requests[jobs[v]].worker = v /\ requests[jobs[v]].state = INPROGRESS /\ wstate[v] = RUN
        BY <1>0, <2>1, <3>1 DEF JobConsistency
      <3>3. jobs[v] # r
        BY <3>1, <3>2 DEF w
      <3> QED
        BY <1>2, <1>6, <3>1, <3>2, <3>3
    <2>2. ASSUME NEW x \in ReqIDs', requests'[x].state = INPROGRESS
          PROVE  requests'[x].worker \in Workers /\ jobs'[requests'[x].worker] = x
      <3>1. x \in ReqIDs /\ x # r /\ requests'[x] = requests[x]
        BY <1>1, <1>2, <2>2
      <3>2. requests[x].worker \in Workers /\ jobs[requests[x].worker] = x
        BY <1>0, <2>2, <3>1 DEF JobConsistency
      <3>3. requests[x].worker # w
        BY <1>3, <3>1, <3>2
      <3> QED
        BY <1>5, <3>1, <3>2, <3>3
    <2>3. ASSUME NEW v \in Workers, wstate'[v] = RUN
          PROVE  jobs'[v] # NoJob \/ matcher'.worker = v
      BY <1>0, <1>5, <1>6, <2>3 DEF JobConsistency
    <2> QED
      BY <1>9, <2>1, <2>2, <2>3 DEF JobConsistency
  <1> QED
    BY <1>7, <1>8, <1>10 DEF IInv

\* ProlongAccess changes only the timeout of a request in progress.
LEMMA ProlongAccessInv ==
    ASSUME IInv, NEW r \in ReqIDs, ProlongAccess(r)
    PROVE  IInv'
  <1> DEFINE req == [requests[r] EXCEPT !.timeout = clock + JobTimeout]
  <1> USE DEF ProlongAccess
  <1>0. TypeOK /\ JobConsistency /\ QueueOK(queue, requests)
    BY DEF IInv
  <1>1. clock + JobTimeout \in Nat
    BY <1>0, PeriodsAssumption DEF TypeOK
  <1>2. req \in ReqInfo /\ requests' = [requests EXCEPT ![r] = req]
            /\ req.state = requests[r].state /\ req.worker = requests[r].worker
            /\ req.prio = requests[r].prio
    BY <1>0, <1>1, RequestType DEF ReqInfo
  <1> HIDE DEF req
  <1>3. /\ requests' \in Seq(ReqInfo) /\ ReqIDs' = ReqIDs
        /\ \A x \in ReqIDs : requests'[x] = IF x = r THEN req ELSE requests[x]
    BY <1>0, <1>2, ReplaceRequest
  <1>4. TypeOK'
    BY <1>0, <1>1, <1>3 DEF TypeOK, wvars, mvars
  <1>5. QueueOK(queue', requests')
    BY <1>0, <1>2, <1>3, QueueUnchanged DEF ReqIDs
  <1>6. JobConsistency'
    BY <1>2, <1>3, JobsUnchanged DEF wvars, mvars
  <1> QED
    BY <1>4, <1>5, <1>6 DEF IInv

\* UpdateRequest moves a waiting request between the lists of the queue.
LEMMA UpdateRequestInv ==
    ASSUME IInv, NEW r \in ReqIDs,
           NEW prio \in Priorities \cup {0}, NEW validAfter \in ValidAfters,
           NEW deadline \in Deadlines, UpdateRequest(r, prio, validAfter, deadline)
    PROVE  IInv'
  <1> DEFINE old == requests[r]
             dl  == IF deadline = Zero THEN old.deadline ELSE deadline
             req == [old EXCEPT !.prio       = IF prio = 0 THEN @ ELSE prio,
                                !.validAfter = IF validAfter = Zero THEN @ ELSE validAfter,
                                !.deadline   = dl]
             alarm == DeadlineAlarm(old.deadline, dl)
  <1>0. TypeOK /\ JobConsistency /\ QueueOK(queue, requests)
    BY DEF IInv
  <1>1. old \in ReqInfo /\ r \in Nat
    BY <1>0, RequestType
  <1>2. dl \in Nat /\ validAfter \in Nat
    BY <1>1, InputsAssumption DEF ReqInfo
  <1>3. /\ RFree
        /\ old.state = WAIT
        /\ queue' = IF prio = 0 THEN queue ELSE setRequestPriority(queue, r, old.prio, prio)
        /\ requests' = [requests EXCEPT ![r] = req]
        /\ pending' = pending \cup AlarmsLeft(Caller(validAfter, alarm, r))
        /\ UNCHANGED <<wvars, jobs, clock, validTimes, deadlineTimes, timeoutTimes, mvars>>
    <2>1. requests' = [requests EXCEPT
              ![r].prio       = IF prio = 0 THEN @ ELSE prio,
              ![r].validAfter = IF validAfter = Zero THEN @ ELSE validAfter,
              ![r].deadline   = dl]
      BY DEF UpdateRequest
    <2>2. requests' = [requests EXCEPT ![r] = req]
      BY <1>0, <1>1, <2>1 DEF ReqInfo, ReqIDs, TypeOK
    <2> QED
      BY <2>2 DEF UpdateRequest
  <1>4. req \in ReqInfo /\ req.state = WAIT /\ req.prio = IF prio = 0 THEN old.prio ELSE prio
    BY <1>1, <1>2, <1>3 DEF ReqInfo
  <1>5. alarm \in Nat
    BY <1>2 DEF DeadlineAlarm
  <1> HIDE DEF req, dl, alarm
  <1>6. /\ requests' \in Seq(ReqInfo) /\ ReqIDs' = ReqIDs
        /\ \A x \in ReqIDs : requests'[x] = IF x = r THEN req ELSE requests[x]
    BY <1>0, <1>3, <1>4, ReplaceRequest
  <1>7. queue' \in [Priorities -> Seq(Nat)] /\ QueueOK(queue', requests')
    <2>0. queue \in [Priorities -> Seq(Nat)] /\ \A x \in ReqIDs : requests[x].prio \in Priorities
      BY <1>0, RequestType DEF TypeOK, ReqInfo
    <2>1. CASE prio = 0
      <3>1. \A x \in DOMAIN requests : requests'[x].state = requests[x].state
                                           /\ requests'[x].prio = requests[x].prio
        BY <1>3, <1>4, <1>6, <2>1 DEF ReqIDs
      <3> QED
        BY <1>0, <1>3, <1>6, <2>0, <2>1, <3>1, QueueUnchanged DEF ReqIDs
    <2>2. CASE prio # 0
      <3> DEFINE mid == [requests EXCEPT ![r] = [state |-> DONE, prio |-> prio]]
                 q == removeRequest(queue, r, old.prio)
      <3>1. DOMAIN mid = DOMAIN requests /\ mid[r].state # WAIT
                /\ \A x \in ReqIDs : x # r => mid[x] = requests[x]
        BY <1>0 DEF ReqIDs, TypeOK
      <3> HIDE DEF mid
      <3>2. q \in [Priorities -> Seq(Nat)] /\ QueueOK(q, mid)
        BY <1>0, <1>3, <2>0, <3>1, QueueAfterRemove DEF ReqIDs
      <3>3. queue' = pushRequest(q, r, prio)
        BY <1>3, <2>2 DEF setRequestPriority
      <3> HIDE DEF q
      <3>4. Added(mid, requests', r, prio)
        BY <1>4, <1>6, <2>0, <2>2, <3>1 DEF ReqIDs, Added
      <3>5. prio \in Priorities
        BY <2>2
      <3> QED
        BY <1>1, <3>2, <3>3, <3>4, <3>5, QueueAfterPush
    <2> QED
      BY <2>1, <2>2
  <1>8. pending' \subseteq [valid : Nat, deadline : Nat, req : ReqIDs']
    <2>1. AlarmsLeft(Caller(validAfter, alarm, r)) \subseteq [valid : Nat, deadline : Nat, req : ReqIDs']
      BY <1>2, <1>5, <1>6 DEF AlarmsLeft, Caller
    <2> QED
      BY <1>0, <1>3, <1>6, <2>1 DEF TypeOK
  <1>9. TypeOK'
    BY <1>0, <1>3, <1>6, <1>7, <1>8 DEF TypeOK, wvars, mvars
  <1>10. JobConsistency'
    BY <1>3, <1>4, <1>6, JobsUnchanged DEF wvars, mvars
  <1> QED
    BY <1>7, <1>9, <1>10 DEF IInv

-----------------------------------------------------------------------------
(***************************************************************************)
(* The steps by which ValidMatcher gives a worker to a request.            *)
(***************************************************************************)
LEMMA TakeWorkerInv ==
    ASSUME IInv, NEW w \in Workers, TakeWorker(w)
    PROVE  IInv'
  <1> USE DEF rvars, avars
  <1>0. TypeOK /\ JobConsistency /\ QueueOK(queue, requests)
    BY DEF IInv
  <1>1. /\ matcher.pc = "walk"
        /\ Ready(Visited, matcher.now)
        /\ wstate[w] = IDLE
        /\ wstate' = [wstate EXCEPT ![w] = RUN]
        /\ matcher' = [matcher EXCEPT !.pc = "create", !.worker = w]
        /\ UNCHANGED <<winfo, rvars, clock, avars, deadlineDue, timeoutDue>>
    BY DEF TakeWorker, WL!Take, WL!setState
  <1>2. /\ wstate' \in [Workers -> WorkerState \cup {ABSENT}] /\ wstate'[w] = RUN
        /\ \A v \in Workers : v # w => wstate'[v] = wstate[v]
    BY <1>0, <1>1 DEF TypeOK
  <1>3. matcher'.pc = "create" /\ matcher'.worker = w /\ matcher'.todo = matcher.todo
    BY <1>0, <1>1 DEF TypeOK
  <1>4. TypeOK'
    BY <1>0, <1>1, <1>2 DEF TypeOK, ReqIDs
  <1>5. Visited' = Visited /\ Visited \in ReqIDs /\ requests[Visited].state = WAIT
    BY <1>1, <1>3 DEF Visited, Ready
  <1>6. jobs[w] = NoJob
    BY <1>0, <1>1 DEF JobConsistency
  <1>7. matcher.worker = NoWorker
    BY <1>0, <1>1 DEF JobConsistency
  <1>8. w # NoWorker
    BY WorkersAssumption
  <1>9. JobConsistency'
    <2>1. ASSUME NEW v \in Workers, jobs[v] # NoJob
          PROVE  requests[jobs[v]].state = INPROGRESS /\ requests[jobs[v]].worker = v
                     /\ wstate'[v] = RUN
      BY <1>0, <1>2, <1>6, <2>1 DEF JobConsistency
    <2>2. ASSUME NEW v \in Workers, wstate'[v] = RUN
          PROVE  jobs[v] # NoJob \/ v = w
      BY <1>0, <1>2, <1>7, <2>2, WorkersAssumption DEF JobConsistency
    <2> QED
      BY <1>0, <1>1, <1>2, <1>3, <1>5, <1>6, <1>8, <2>1, <2>2 DEF JobConsistency, ReqIDs
  <1> QED
    BY <1>0, <1>1, <1>4, <1>9 DEF IInv

\* The request that is visited leaves the queue, and gets its job and its
\* worker in one critical section.
LEMMA RunRequestInv ==
    ASSUME IInv, RunRequest
    PROVE  IInv'
  <1> DEFINE r == Visited
             w == matcher.worker
             req == [requests[r] EXCEPT !.state = INPROGRESS, !.worker = w,
                                        !.timeout = clock + JobTimeout]
  <1>0. TypeOK /\ JobConsistency /\ QueueOK(queue, requests)
    BY DEF IInv
  <1>1. /\ matcher.pc = "create"
        /\ jobs' = [jobs EXCEPT ![w] = r]
        /\ requests' = [requests EXCEPT ![r].state = INPROGRESS, ![r].worker = w,
                                        ![r].timeout = clock + JobTimeout]
        /\ queue' = removeRequest(queue, r, requests[r].prio)
        /\ timeoutTimes' = timeoutTimes \cup {<<clock + JobTimeout, r>>}
        /\ matcher' = [AsleepMatcher EXCEPT !.pc = "awake"]
        /\ UNCHANGED <<wvars, clock, validTimes, deadlineTimes, pending, deadlineDue, timeoutDue>>
    BY DEF RunRequest
  <1>2. w \in Workers /\ wstate[w] = RUN /\ jobs[w] = NoJob
            /\ r \in ReqIDs /\ requests[r].state = WAIT
    BY <1>0, <1>1 DEF TypeOK, JobConsistency
  <1> HIDE DEF r, w
  <1>3. clock + JobTimeout \in Nat
    BY <1>0, PeriodsAssumption DEF TypeOK
  <1>4. requests[r] \in ReqInfo /\ r \in Nat /\ r # NoJob
    BY <1>0, <1>2, RequestType
  <1>5. req \in ReqInfo /\ req.state = INPROGRESS /\ req.worker = w
    BY <1>2, <1>3, <1>4 DEF ReqInfo
  <1>6. requests' = [requests EXCEPT ![r] = req]
    BY <1>0, <1>1, <1>2, <1>4 DEF ReqInfo, ReqIDs, TypeOK
  <1> HIDE DEF req
  <1>7. /\ requests' \in Seq(ReqInfo) /\ ReqIDs' = ReqIDs
        /\ \A x \in ReqIDs : requests'[x] = IF x = r THEN req ELSE requests[x]
    BY <1>0, <1>2, <1>5, <1>6, ReplaceRequest
  <1>8. queue' \in [Priorities -> Seq(Nat)] /\ QueueOK(queue', requests')
    <2>1. queue \in [Priorities -> Seq(Nat)] /\ \A x \in ReqIDs : requests[x].prio \in Priorities
      BY <1>0, RequestType DEF TypeOK, ReqInfo
    <2>2. DOMAIN requests' = DOMAIN requests /\ requests'[r].state # WAIT
      BY <1>2, <1>5, <1>7 DEF ReqIDs
    <2>3. \A x \in ReqIDs : x # r => requests'[x].state = requests[x].state
                                         /\ requests'[x].prio = requests[x].prio
      BY <1>7
    <2> QED
      BY <1>0, <1>1, <1>2, <2>1, <2>2, <2>3, QueueAfterRemove DEF ReqIDs
  <1>9. /\ jobs' \in [Workers -> ReqIDs \cup {NoJob}] /\ jobs'[w] = r
        /\ \A v \in Workers : v # w => jobs'[v] = jobs[v]
    BY <1>0, <1>1, <1>2 DEF TypeOK
  <1>10. /\ matcher' \in [pc : {"asleep", "awake", "walk", "create", "halted"},
                    todo : SUBSET (Nat \X Nat), now : Nat, worker : Workers \cup {NoWorker}]
         /\ matcher'.pc = "awake" /\ matcher'.worker = NoWorker
    BY <1>1 DEF AsleepMatcher
  <1>11. timeoutTimes' \subseteq Nat \X ReqIDs
    BY <1>0, <1>1, <1>2, <1>3 DEF TypeOK
  <1>12. TypeOK'
    BY <1>0, <1>1, <1>7, <1>8, <1>9, <1>10, <1>11 DEF TypeOK, wvars
  <1>13. JobConsistency'
    <2>1. ASSUME NEW v \in Workers, jobs'[v] # NoJob
          PROVE  requests'[jobs'[v]].state = INPROGRESS /\ requests'[jobs'[v]].worker = v
                     /\ wstate'[v] = RUN
      <3>1. CASE v = w
        BY <1>1, <1>2, <1>5, <1>7, <1>9, <3>1 DEF wvars
      <3>2. CASE v # w
        <4>1. jobs'[v] = jobs[v] /\ jobs[v] \in ReqIDs
          BY <1>0, <1>9, <2>1, <3>2 DEF TypeOK
        <4>2. requests[jobs[v]].state = INPROGRESS /\ requests[jobs[v]].worker = v /\ wstate[v] = RUN
          BY <1>0, <2>1, <4>1 DEF JobConsistency
        <4> QED
          BY <1>1, <1>2, <1>7, <4>1, <4>2 DEF wvars
      <3> QED
        BY <3>1, <3>2
    <2>2. ASSUME NEW x \in ReqIDs', requests'[x].state = INPROGRESS
          PROVE  requests'[x].worker \in Workers /\ jobs'[requests'[x].worker] = x
      <3>1. CASE x = r
        BY <1>2, <1>5, <1>7, <1>9, <3>1
      <3>2. CASE x # r
        <4>1. x \in ReqIDs /\ requests'[x] = requests[x]
          BY <1>7, <3>2
        <4>2. requests[x].worker \in Workers /\ jobs[requests[x].worker] = x
          BY <1>0, <2>2, <4>1 DEF JobConsistency
        <4>3. x # NoJob
          BY <1>0, <4>1, RequestType
        <4>4. requests[x].worker # w
          BY <1>2, <4>2, <4>3
        <4> QED
          BY <1>9, <4>1, <4>2, <4>4
      <3> QED
        BY <3>1, <3>2
    <2>3. ASSUME NEW v \in Workers, wstate'[v] = RUN
          PROVE  jobs'[v] # NoJob
      <3>1. wstate[v] = RUN
        BY <1>1, <2>3 DEF wvars
      <3>2. CASE v = w
        BY <1>4, <1>9, <3>2
      <3>3. CASE v # w
        BY <1>0, <1>9, <3>1, <3>3 DEF JobConsistency, w
      <3> QED
        BY <3>2, <3>3
    <2> QED
      BY <1>10, <2>1, <2>2, <2>3 DEF JobConsistency
  <1> QED
    BY <1>8, <1>12, <1>13 DEF IInv

-----------------------------------------------------------------------------
(***************************************************************************)
(* The invariant is inductive.                                             *)
(***************************************************************************)
LEMMA CloseRequestInv ==
    ASSUME IInv, NEW r \in ReqIDs, CloseRequest(r)
    PROVE  IInv'
  <1>1. CASE CloseWaiting(r)
    BY <1>1, EndWaiting DEF CloseWaiting, mvars
  <1>2. CASE CloseRunning(r)
    BY <1>2, EndRunning DEF CloseRunning, mvars
  <1> QED
    BY <1>1, <1>2 DEF CloseRequest

\* A late or stale alarm of deadlineTimes does no harm.
LEMMA TimeoutInv ==
    ASSUME IInv, NEW r \in ReqIDs, Timeout(r)
    PROVE  IInv'
  <1>1. CASE DeadlinePassed(r)
    <2>1. requests[r].state = WAIT
      BY <1>1 DEF DeadlinePassed
    <2> QED
      BY <1>1, <2>1, EndWaiting DEF Timeout
  <1>2. CASE ~DeadlinePassed(r)
    <2>1. UNCHANGED <<wvars, requests, queue, jobs, clock, avars, matcher, timeoutDue>>
              /\ deadlineDue' \subseteq deadlineDue
      BY <1>2 DEF Timeout
    <2>2. TypeOK'
      BY <2>1 DEF IInv, TypeOK, ReqIDs, wvars, avars
    <2> QED
      BY <2>1, <2>2, QuietStep DEF wvars
  <1> QED
    BY <1>1, <1>2

\* Nor does one of timeoutTimes.
LEMMA CloseInv ==
    ASSUME IInv, NEW r \in ReqIDs, Close(r)
    PROVE  IInv'
  <1>1. CASE JobTimedOut(r)
    <2>1. requests[r].state = INPROGRESS
      BY <1>1 DEF JobTimedOut
    <2> QED
      BY <1>1, <2>1, EndRunning DEF Close
  <1>2. CASE ~JobTimedOut(r)
    <2>1. UNCHANGED <<wvars, requests, queue, jobs, clock, avars, matcher, deadlineDue>>
              /\ timeoutDue' \subseteq timeoutDue
      BY <1>2 DEF Close, wvars
    <2>2. TypeOK'
      BY <2>1 DEF IInv, TypeOK, ReqIDs, wvars, avars
    <2> QED
      BY <2>1, <2>2, QuietStep DEF wvars
  <1> QED
    BY <1>1, <1>2

\* The invariant is inductive.
LEMMA NextInv == IInv /\ [Next]_vars => IInv'
  <1> SUFFICES ASSUME IInv, [Next]_vars PROVE IInv'
    OBVIOUS
  <1>1. CASE UserStep
    BY <1>1, NewRequestInv, CloseRequestInv, UpdateRequestInv, ProlongAccessInv DEF UserStep
  <1>2. CASE InsertAlarm
    BY <1>2, InsertInv DEF InsertAlarm
  <1>3. CASE WorkerStep
    BY <1>3, WorkerStepInv
  <1>4. CASE Notify
    BY <1>4, WalkInv, TakeWorkerInv, RunRequestInv DEF Notify
  <1>5. CASE CreateFails
    BY <1>5, CreateFailsInv
  <1>6. ASSUME NEW t \in 1 .. MaxTime, Process(t) PROVE IInv'
    BY <1>6, ProcessInv
  <1>7. ASSUME NEW r \in ReqIDs, Timeout(r) \/ Close(r) PROVE IInv'
    BY <1>7, TimeoutInv, CloseInv
  <1>8. CASE Tick
    BY <1>8, TickInv
  <1>9. CASE UNCHANGED vars
    <2>1. TypeOK'
      BY <1>9 DEF IInv, TypeOK, ReqIDs, vars, wvars, rvars, avars, mvars
    <2> QED
      BY <1>9, <2>1, QuietStep DEF vars, wvars, rvars, avars, mvars
  <1> QED
    BY <1>1, <1>2, <1>3, <1>4, <1>5, <1>6, <1>7, <1>8, <1>9 DEF Next

\* Hence it holds in every reachable state of the server.
LEMMA Invariance == Spec => []IInv
  BY InitInv, NextInv, PTL DEF Spec

\* The form in which the runs check the queue follows from QueueOK.
LEMMA QueueForm == IInv => QueueIsWaiting
  <1> SUFFICES ASSUME IInv PROVE QueueIsWaiting
    OBVIOUS
  <1>0. /\ OnlyWaiting(queue, requests) /\ AllWaiting(queue, requests) /\ NoneTwice(queue)
        /\ TypeOK
    BY DEF IInv, QueueOK
  <1>1. \A x : x \in Places(queue) <=>
            \E p \in Priorities : \E i \in 1 .. Len(queue[p]) : x = <<p, i>>
    BY DEF Places
  <1>2. ASSUME NEW x \in Places(queue)
        PROVE  /\ At(queue, x) \in ReqIDs
               /\ requests[At(queue, x)].state = WAIT
               /\ requests[At(queue, x)].prio = x[1]
    <2>1. PICK p \in Priorities : \E i \in 1 .. Len(queue[p]) : x = <<p, i>>
      BY <1>1
    <2>2. PICK i \in 1 .. Len(queue[p]) : x = <<p, i>>
      BY <2>1
    <2>3. At(queue, x) = queue[p][i] /\ x[1] = p
      BY <2>2 DEF At
    <2> QED
      BY <1>0, <2>3 DEF OnlyWaiting, ReqIDs
  <1>3. ASSUME NEW r \in ReqIDs, requests[r].state = WAIT
        PROVE  \E x \in Places(queue) :
                   /\ x[1] = requests[r].prio
                   /\ {y \in Places(queue) : At(queue, y) = r} = {x}
    <2> DEFINE o == requests[r].prio
    <2>1. o \in Priorities
      BY <1>0, RequestType DEF ReqInfo
    <2>2. PICK i \in 1 .. Len(queue[o]) : queue[o][i] = r
      BY <1>0, <1>3 DEF AllWaiting, ReqIDs
    <2> DEFINE x == <<o, i>>
    <2>3. x \in Places(queue) /\ x[1] = o /\ At(queue, x) = r
      BY <1>1, <2>1, <2>2 DEF At
    <2>4. ASSUME NEW y \in Places(queue), At(queue, y) = r
          PROVE  y = x
      <3>1. PICK p \in Priorities : \E j \in 1 .. Len(queue[p]) : y = <<p, j>>
        BY <1>1
      <3>2. PICK j \in 1 .. Len(queue[p]) : y = <<p, j>>
        BY <3>1
      <3>3. queue[p][j] = r /\ p = o
        BY <1>2, <2>4, <3>2 DEF At
      <3>4. queue[o][j] = queue[o][i] /\ j \in 1 .. Len(queue[o])
        BY <2>2, <3>3
      <3>5. j = i
        BY <1>0, <2>1, <2>2, <3>4 DEF NoneTwice
      <3> QED
        BY <3>2, <3>3, <3>5
    <2>5. {y \in Places(queue) : At(queue, y) = r} = {x}
      BY <2>3, <2>4
    <2> HIDE DEF x
    <2> QED
      BY <2>3, <2>5
  <1> QED
    BY <1>2, <1>3 DEF QueueIsWaiting

\* Every variable of the server keeps its type: in particular, jobs, alarms and
\* the lists of the matchers name only requests that exist.
THEOREM TypesKept == Spec => []TypeOK
  BY Invariance, PTL DEF IInv

\* ReqsCollection, JobsManagerImpl and WorkerList agree on which request runs
\* on which worker, in every state between two critical sections.
THEOREM JobsAgree == Spec => []JobConsistency
  BY Invariance, PTL DEF IInv

\* The priority queue holds exactly the waiting requests, so that neither
\* removeRequest nor setRequestPriority ever panics.
THEOREM QueueRight == Spec => []QueueIsWaiting
  BY Invariance, QueueForm, PTL

-----------------------------------------------------------------------------
(***************************************************************************)
(* Requests that have ended.                                               *)
(***************************************************************************)
Ended(r) == requests[r].state \notin {WAIT, INPROGRESS}

\* A step that changes one request at most, and that one while it waits or is
\* in progress, changes no request that has ended.
LEMMA OneChanged ==
    ASSUME IInv, NEW x \in ReqIDs, ~Ended(x), NEW req,
           requests' = [requests EXCEPT ![x] = req],
           NEW r \in ReqIDs, Ended(r)
    PROVE  requests'[r] = requests[r]
  <1>1. r # x
    OBVIOUS
  <1>2. requests \in Seq(ReqInfo)
    BY DEF IInv, TypeOK
  <1> QED
    BY <1>1, <1>2 DEF ReqIDs

\* OnWorkerFail fails only a request that has a job, thus one in progress.
LEMMA ListenerFinal ==
    ASSUME IInv, NEW w \in Workers, Listener(w), NEW r \in ReqIDs, Ended(r)
    PROVE  requests'[r] = requests[r]
  <1>1. CASE requests' = requests
    BY <1>1
  <1>2. CASE jobs[w] # NoJob /\ requests' = [requests EXCEPT ![jobs[w]].state = FAILED]
    <2>1. jobs[w] \in ReqIDs /\ requests[jobs[w]].state = INPROGRESS
      BY <1>2 DEF IInv, TypeOK, JobConsistency
    <2>2. ~Ended(jobs[w])
      BY <2>1 DEF Ended
    <2>3. requests' = [requests EXCEPT ![jobs[w]] = [requests[jobs[w]] EXCEPT !.state = FAILED]]
      BY <1>2
    <2> QED
      BY <2>1, <2>2, <2>3, OneChanged
  <1> QED
    BY <1>1, <1>2 DEF Listener, OnWorkerFail

\* The users' calls refuse to change a request that has ended.
LEMMA UserFinal ==
    ASSUME IInv, UserStep, NEW r \in ReqIDs, Ended(r)
    PROVE  requests'[r] = requests[r]
  <1>0. requests \in Seq(ReqInfo) /\ r \in 1 .. Len(requests)
    BY RequestType DEF IInv, TypeOK
  <1>1. ASSUME NEW prio, NEW groups, NEW caps, NEW validAfter, NEW deadline, NEW now,
               NewRequest(prio, groups, caps, validAfter, deadline, now)
        PROVE  requests'[r] = requests[r]
    <2>1. PICK req : requests' = Append(requests, req)
      BY <1>1 DEF NewRequest
    <2> QED
      BY <1>0, <2>1
  <1>2. ASSUME NEW x \in ReqIDs,
               \/ CloseRequest(x)
               \/ \E prio \in Priorities \cup {0}, validAfter \in ValidAfters, deadline \in Deadlines :
                     UpdateRequest(x, prio, validAfter, deadline)
               \/ ProlongAccess(x)
        PROVE  requests'[r] = requests[r]
    <2>1. ~Ended(x)
      BY <1>2 DEF Ended, CloseRequest, CloseWaiting, CloseRunning, UpdateRequest, ProlongAccess
    <2>2. r # x
      BY <2>1
    <2> QED
      BY <1>0, <1>2, <2>2 DEF ReqIDs, CloseRequest, CloseWaiting, CloseRunning, closeRequest,
                               UpdateRequest, ProlongAccess
  <1> QED
    BY <1>1, <1>2 DEF UserStep

\* No step changes a request that has ended.
LEMMA NextFinal ==
    ASSUME IInv, [Next]_vars, NEW r \in ReqIDs, Ended(r)
    PROVE  requests'[r] = requests[r]
  <1>1. CASE UserStep
    BY <1>1, UserFinal
  <1>2. CASE WorkerStep
    <2>1. PICK w \in Workers : Listener(w) \/ UNCHANGED requests
      BY <1>2 DEF WorkerStep, Register, SetFail, SetState, SetGroups, Deregister, PrepareDone,
                  MaintenanceDone, rvars
    <2> QED
      BY <2>1, ListenerFinal
  <1>3. CASE RunRequest
    <2>1. Visited \in ReqIDs /\ ~Ended(Visited)
      BY <1>3 DEF RunRequest, IInv, TypeOK, JobConsistency, Ended
    <2>2. r # Visited /\ requests \in Seq(ReqInfo)
      BY <2>1 DEF IInv, TypeOK
    <2> QED
      BY <1>3, <2>2 DEF RunRequest, ReqIDs
  <1>4. ASSUME NEW x \in ReqIDs, Timeout(x) \/ Close(x)
        PROVE  requests'[r] = requests[r]
    <2>1. CASE UNCHANGED requests
      BY <2>1
    <2>2. CASE ~Ended(x)
      <3>1. r # x /\ requests \in Seq(ReqInfo)
        BY <2>2 DEF IInv, TypeOK
      <3> QED
        BY <1>4, <3>1 DEF Timeout, Close, closeRequest, ReqIDs
    <2> QED
      BY <1>4, <2>1, <2>2 DEF Timeout, Close, DeadlinePassed, JobTimedOut, Ended
  <1>5. CASE \/ InsertAlarm \/ CreateFails \/ Tick \/ UNCHANGED vars
             \/ InitIteration \/ SkipRequest \/ EndNotify
             \/ \E w \in Workers : TakeWorker(w)
             \/ \E t \in 1 .. MaxTime : Process(t)
    <2>1. UNCHANGED requests
      BY <1>5 DEF InsertAlarm, InsertValid, InsertDeadline, CreateFails, Tick, InitIteration,
                  SkipRequest, EndNotify, TakeWorker, Process, ProcessValid, ProcessDeadline,
                  ProcessTimeout, vars, rvars
    <2> QED
      BY <2>1
  <1> QED
    BY <1>1, <1>2, <1>3, <1>4, <1>5 DEF Next, Notify

\* A request that is CANCEL, TIMEOUT, DONE or FAILED never changes again,
\* whatever alarm, failure or call comes late.
THEOREM EndedStays == Spec => EndedIsFinal
  <1>1. IInv /\ [Next]_vars =>
            [\A r \in ReqIDs : requests[r].state \notin {WAIT, INPROGRESS} =>
                                   requests'[r] = requests[r]]_vars
    BY NextFinal DEF Ended
  <1> QED
    BY <1>1, Invariance, PTL DEF Spec, EndedIsFinal
=============================================================================
