-------------------------- MODULE WorkerListProofs --------------------------
(***************************************************************************)
(* The list of workers and its goroutines, for any numbers of workers and  *)
(* goroutines and any size of the channels.                                *)
(***************************************************************************)
EXTENDS WorkerList, SequenceTheorems, TLAPS

USE DEF MAINTENANCE, IDLE, RUN, FAIL, PREPARE, BUSY, ABSENT, dryads

\* The newest state that a worker was given: the one that is being sent, if a
\* handler is blocked in the send to its goroutine.
Order(w) == IF sending.uuid = w THEN sending.state ELSE workers[w].state

\* The transitions that a handler orders.
Ordered(s, t) ==
    /\ s # ABSENT
    /\ \/ \E changed \in BOOLEAN : t = Abstract!RegisterTarget(s, changed)
       \/ s \notin {MAINTENANCE, BUSY} /\ t = FAIL
       \/ \E state \in {IDLE, MAINTENANCE} :
              Abstract!SetStateActs(s, state) /\ t = Abstract!SetStateTarget(state)
       \/ s = IDLE /\ t = RUN
       \/ s = RUN /\ t \in {PREPARE, IDLE}

\* A registered worker and its goroutine know each other, and no other goroutine
\* with an open channel has this UUID.
Owners ==
    /\ \A w \in Workers : Registered(w) =>
          /\ loop[workers[w].bg].uuid = w
          /\ loop[workers[w].bg].pc \notin {"new", "exit"}
          /\ ~closed[workers[w].bg]
    /\ \A l \in Loops :
          IF loop[l].pc = "new" THEN chan[l] = <<>> /\ ~closed[l] /\ loop[l].uuid = 0
          ELSE /\ loop[l].uuid \in Workers
               /\ ~closed[l] => Registered(loop[l].uuid) /\ workers[loop[l].uuid].bg = l

\* What the place r.pc of a goroutine in the code says of its variables.
PlaceOK(r) ==
    /\ r.pc \notin {"new", "recv", "exit"} => r.task \in {PREPARE, BUSY}
    /\ r.pc \in {"genkey", "install", "store"} => r.task = PREPARE
    /\ r.pc = "maintain" => r.task = BUSY
    /\ r.err => r.pc = "commit"
    /\ r.pc \in {"install", "store"} => r.key # NoKey

Places == \A l \in Loops : PlaceOK(loop[l])

\* A blocked handler sends to a registered worker what it may order, and it is
\* the only one whose channel is over full.
Sends ==
    /\ ~MutexFree => /\ sending.uuid \in Workers
                     /\ Ordered(workers[sending.uuid].state, sending.state)
    /\ \A l \in Loops : Len(chan[l]) > BufferSize =>
          /\ ~MutexFree
          /\ workers[sending.uuid].bg = l

\* The newest order o is the last one in the channel c or, if that is empty, the
\* one that the goroutine r works on.
WorksOn(c, r, o) ==
    IF c # <<>> THEN Last(c) = o
    ELSE IF o \in {PREPARE, BUSY} THEN r.task = o /\ r.pc # "recv"
    ELSE r.pc = "recv"

Newest ==
    \A w \in Workers : Registered(w) =>
        WorksOn(chan[workers[w].bg], loop[workers[w].bg], Order(w))

\* The goroutine of a worker that can be matched, or runs a job, does not touch
\* the Dryad: it has nothing else to do than what a blocked handler sends.
Calm(c, r) ==
    /\ \A i \in 1 .. Len(c) : i < Len(c) => c[i] \in {IDLE, RUN}
    /\ r.pc \in {"recv", "start", "addr"}
    /\ c # <<>> => r.pc = "recv"

Settled ==
    \A w \in Workers : workers[w].state \in {IDLE, RUN} =>
        Calm(chan[workers[w].bg], loop[workers[w].bg])

\* The goroutine is about to make its worker IDLE.
Prepared(l) == loop[l].pc = "commit" /\ loop[l].task = PREPARE /\ ~loop[l].err /\ ~closed[l]

\* A worker has got a key when its preparation ends.
HasKeys ==
    /\ RunnableHasKey
    /\ \A l \in Loops : Prepared(l) => workers[loop[l].uuid].key # NoKey

\* The Dryad accepts this key, and no Prepare that was given up is there to
\* change that, unless the last Prepare met one.
Accepts(w, key) == overlapped[w] \/ (installed[w] = key /\ ~givenup[w])

\* The same after a step.
AcceptsThen(w, key) == overlapped'[w] \/ (installed'[w] = key /\ ~givenup'[w])

\* No goroutine but l was ever started for worker w.
First(w, l) == \A k \in Loops : k # l => loop[k].uuid # w

Alone(l) == First(loop[l].uuid, l)

\* KeyMatchesFirst says of a key that it is installed; what keeps it so is that
\* no call that was given up is left.
FirstKeys ==
    \A w \in Workers :
        workers[w].state \in {IDLE, RUN} /\ First(w, workers[w].bg) => Accepts(w, workers[w].key)

\* From the installation to the end of the preparation the goroutine has the key
\* that the Dryad accepts, unless another one prepares the same Dryad.
SameKeys ==
    /\ FirstKeys
    /\ \A l \in Loops : Alone(l) =>
          /\ loop[l].pc = "store" => Accepts(loop[l].uuid, loop[l].key)
          /\ Prepared(l) => Accepts(loop[l].uuid, workers[loop[l].uuid].key)

IInv == TypeOK /\ Owners /\ Places /\ Sends /\ Newest /\ Settled /\ HasKeys /\ SameKeys

-----------------------------------------------------------------------------
DryadsOK ==
    /\ installed \in [Workers -> DryadKeys]
    /\ givenup \in [Workers -> BOOLEAN]
    /\ overlapped \in [Workers -> BOOLEAN]

LoopRecord == [uuid : Workers \cup {0}, pc : PCs, task : WorkerState \cup {ABSENT},
               err : BOOLEAN, key : Keys \cup {NoKey}]

\* No worker at all differs from every worker of the list.
LEMMA NoWorkerApart ==
    /\ NoWorker \notin MapWorker
    /\ NoWorker.state = ABSENT /\ NoWorker.key = NoKey
    /\ \A m \in MapWorker : m.state \in WorkerState /\ m.key \in Keys \cup {NoKey} /\ m.bg \in Loops
BY LoopsAssumption DEF NoWorker, MapWorker, WorkerState, Loops

\* A registered worker has a state, and its goroutine exists.
LEMMA RegisteredType ==
    ASSUME TypeOK, NEW w \in Workers
    PROVE  /\ Registered(w) => workers[w] \in MapWorker
           /\ Registered(w) <=> workers[w].state # ABSENT
           /\ Registered(w) => workers[w].bg \in Loops /\ workers[w].state \in WorkerState
           /\ workers[w].key \in Keys \cup {NoKey}
BY NoWorkerApart DEF TypeOK, Registered, WorkerState

\* The mutex is free, or the UUID of the blocked handler is not 0.
LEMMA NobodySends ==
    ASSUME TypeOK, Sends, NEW w \in Workers, sending.uuid = w
    PROVE  ~MutexFree
BY WorkersAssumption DEF MutexFree, NotSending

\* The last element of a sequence that was extended, or that lost its head.
LEMMA LastOfAppend ==
    ASSUME NEW S, NEW c \in Seq(S), NEW s \in S
    PROVE  /\ Append(c, s) \in Seq(S)
           /\ Append(c, s) # <<>>
           /\ Len(Append(c, s)) = Len(c) + 1
           /\ Last(Append(c, s)) = s
           /\ \A i \in 1 .. Len(c) : Append(c, s)[i] = c[i]
BY AppendProperties, LenProperties DEF Last

\* What is left of a channel from which one state is taken.
LEMMA LastOfTail ==
    ASSUME NEW S, NEW c \in Seq(S), c # <<>>
    PROVE  /\ Tail(c) \in Seq(S)
           /\ Len(Tail(c)) = Len(c) - 1
           /\ Head(c) = c[1]
           /\ Head(c) \in S /\ Last(c) \in S
           /\ Tail(c) # <<>> => Last(Tail(c)) = Last(c) /\ Len(c) > 1
           /\ Tail(c) = <<>> => Head(c) = Last(c) /\ Len(c) = 1
           /\ \A i \in 1 .. Len(Tail(c)) : Tail(c)[i] = c[i + 1]
<1>1. /\ Tail(c) \in Seq(S) /\ Len(Tail(c)) = Len(c) - 1 /\ Head(c) \in S
      /\ \A i \in 1 .. Len(Tail(c)) : Tail(c)[i] = c[i + 1]
  BY HeadTailProperties
<1>2. Len(c) \in Nat \ {0} /\ (Tail(c) # <<>> => Len(Tail(c)) \in Nat \ {0}) /\ Len(<<>>) = 0
  BY <1>1, EmptySeq
<1>3. Head(c) = c[1]
  OBVIOUS
<1>4. Last(c) = c[Len(c)] /\ Last(Tail(c)) = Tail(c)[Len(Tail(c))]
  BY DEF Last
<1>5. \A i \in 1 .. Len(c) : c[i] \in S
  BY ElementOfSeq
<1>6. Last(c) \in S
  BY <1>2, <1>4, <1>5
<1>7. ASSUME Tail(c) # <<>>
      PROVE  Last(Tail(c)) = Last(c) /\ Len(c) > 1
  BY <1>1, <1>2, <1>4, <1>7
<1>8. ASSUME Tail(c) = <<>>
      PROVE  Head(c) = Last(c) /\ Len(c) = 1
  <2>. DEFINE n == Len(c)
              m == Len(Tail(c))
  <2>1. m = 0 /\ m = n - 1 /\ n \in Nat
    BY <1>1, <1>2, <1>8, Zenon
  <2>. HIDE DEF n, m
  <2>2. n = 1
    BY <2>1
  <2>3. Len(c) = 1
    BY <2>2 DEF n
  <2>. QED  BY <1>3, <1>4, <2>3
<1>. QED  BY <1>1, <1>3, <1>6, <1>7, <1>8

-----------------------------------------------------------------------------
\* A goroutine goes on as new, with c left in its channel.
Moves(l, c, new) ==
    /\ loop[l].pc \notin {"new", "exit"}
    /\ c \in Seq(WorkerState) /\ Len(c) <= BufferSize
    /\ new \in LoopRecord /\ PlaceOK(new)
    /\ new.uuid = loop[l].uuid /\ new.pc # "new" /\ (new.pc = "exit" => closed[l])
    /\ chan' = [chan EXCEPT ![l] = c]
    /\ loop' = [loop EXCEPT ![l] = new]
    /\ UNCHANGED <<closed, sending>>

\* The list keeps its workers with their states and goroutines.
SameWorkers ==
    /\ workers' \in [Workers -> MapWorker \cup {NoWorker}]
    /\ \A w \in Workers : /\ Registered(w)' <=> Registered(w)
                          /\ workers'[w].state = workers[w].state
                          /\ workers'[w].bg = workers[w].bg

\* A goroutine that goes on with the newest order keeps all but what the
\* invariant says of keys.
LEMMA MoveKeeps ==
    ASSUME IInv, NEW l \in Loops, NEW c, NEW new, Moves(l, c, new), SameWorkers,
           DryadsOK',
           ~closed[l] => /\ WorksOn(c, new, Order(loop[l].uuid))
                         /\ workers[loop[l].uuid].state \in {IDLE, RUN} => Calm(c, new)
    PROVE  TypeOK' /\ Owners' /\ Places' /\ Sends' /\ Newest' /\ Settled'
<1>. USE DEF Moves
<1>1. /\ loop'[l] = new /\ chan'[l] = c
      /\ \A k \in Loops \ {l} : loop'[k] = loop[k] /\ chan'[k] = chan[k]
      /\ \A k \in Loops : loop'[k].uuid = loop[k].uuid
  BY DEF IInv, TypeOK
<1>2. TypeOK'
  <2>1. Len(c) <= BufferSize + 1
    BY LenProperties, BufferAssumption
  <2>2. chan' \in [Loops -> Seq(WorkerState)] /\ \A k \in Loops : Len(chan'[k]) <= BufferSize + 1
    BY <1>1, <2>1 DEF IInv, TypeOK
  <2>3. loop' \in [Loops -> LoopRecord]
    BY DEF IInv, TypeOK, LoopRecord
  <2>. QED  BY <2>2, <2>3 DEF IInv, TypeOK, SameWorkers, LoopRecord, DryadsOK
<1>3. Owners'
  <2>1. \A w \in Workers : Registered(w) => workers[w].bg \in Loops
    BY RegisteredType DEF IInv
  <2>. QED  BY <1>1, <2>1 DEF IInv, Owners, SameWorkers
<1>4. Places'
  BY <1>1 DEF IInv, Places
<1>5. Sends'
  <2>1. Len(c) \in Nat /\ BufferSize \in Nat
    BY LenProperties, BufferAssumption
  <2>2. MutexFree' <=> MutexFree
    BY DEF MutexFree
  <2>3. sending.uuid \in Workers => workers'[sending.uuid].state = workers[sending.uuid].state
                                    /\ workers'[sending.uuid].bg = workers[sending.uuid].bg
    BY DEF SameWorkers
  <2>. QED  BY <1>1, <2>1, <2>2, <2>3 DEF IInv, Sends, Ordered
<1>6. \A w \in Workers : Order(w)' = Order(w)
  BY DEF Order, SameWorkers
<1>7. ASSUME NEW w \in Workers, Registered(w)
      PROVE  /\ workers[w].bg \in Loops
             /\ workers[w].bg = l => loop[l].uuid = w /\ ~closed[l]
  BY <1>7, RegisteredType DEF IInv, Owners
<1>8. Newest'
  <2>. SUFFICES ASSUME NEW w \in Workers, Registered(w)
                PROVE  WorksOn(chan'[workers[w].bg], loop'[workers[w].bg], Order(w))
    BY <1>6 DEF Newest, SameWorkers
  <2>. QED  BY <1>1, <1>7 DEF IInv, Newest
<1>9. Settled'
  <2>. SUFFICES ASSUME NEW w \in Workers, workers[w].state \in {IDLE, RUN}
                PROVE  Calm(chan'[workers[w].bg], loop'[workers[w].bg])
    BY DEF Settled, SameWorkers
  <2>1. Registered(w)
    BY RegisteredType DEF IInv
  <2>. QED  BY <1>1, <1>7, <2>1 DEF IInv, Settled
<1>. QED  BY <1>2, <1>3, <1>4, <1>5, <1>8, <1>9

-----------------------------------------------------------------------------
\* The places between the steps of prepareKey and of putInMaintenance.
Working == {"start", "addr", "create", "genkey", "install", "store", "maintain", "commit"}

\* checkPendingOperation makes the goroutine go on with the newest order: with
\* next if that is what it works on already.
LEMMA CheckMoves ==
    ASSUME IInv, NEW l \in Loops, loop[l].pc \in Working,
           NEW next \in LoopRecord, PlaceOK(next),
           next.uuid = loop[l].uuid, next.task = loop[l].task, next.pc \in Working,
           \/ MutexFree
           \/ loop[l].pc = "start" /\ next.pc = "addr"
           \/ loop[l].pc \notin {"start", "addr"},
           checkPendingOperation(l, next), UNCHANGED <<closed, sending>>
    PROVE  \E new :
              /\ Moves(l, <<>>, new)
              /\ ~closed[l] => /\ WorksOn(<<>>, new, Order(loop[l].uuid))
                               /\ workers[loop[l].uuid].state \in {IDLE, RUN} => Calm(<<>>, new)
              /\ \/ new = next /\ ~closed[l] /\ chan[l] = <<>>
                 \/ new.pc \in {"recv", "start", "exit"}
<1>. DEFINE new == IF closed[l] THEN [NewLoop EXCEPT !.uuid = loop[l].uuid, !.pc = "exit"]
                   ELSE IF chan[l] # <<>> THEN Dispatch(l, PendingState(chan[l]))
                   ELSE next
            w == loop[l].uuid
<1>1. /\ loop[l] \in LoopRecord /\ chan[l] \in Seq(WorkerState)
      /\ closed[l] \in BOOLEAN /\ w \in Workers
      /\ ~closed[l] => Registered(w) /\ workers[w].bg = l
  BY DEF IInv, TypeOK, Owners, LoopRecord, Working
<1>2. chan[l] # <<>> => Last(chan[l]) \in WorkerState
  BY <1>1, LastOfTail
<1>3. chan' = [chan EXCEPT ![l] = <<>>] /\ loop' = [loop EXCEPT ![l] = new]
  BY DEF checkPendingOperation
<1>4. ASSUME closed[l]
      PROVE  /\ new \in LoopRecord /\ PlaceOK(new) /\ new.uuid = w /\ new.pc = "exit"
  BY <1>1, <1>4 DEF LoopRecord, NewLoop, PlaceOK, PCs
<1>5. ASSUME ~closed[l], chan[l] # <<>>
      PROVE  /\ new \in LoopRecord /\ PlaceOK(new) /\ new.uuid = w
             /\ new.task = Last(chan[l])
             /\ new.pc = IF Last(chan[l]) \in {PREPARE, BUSY} THEN "start" ELSE "recv"
  BY <1>1, <1>2, <1>5 DEF LoopRecord, Dispatch, PendingState, PlaceOK, PCs
<1>6. ASSUME ~closed[l], chan[l] = <<>>
      PROVE  new = next
  BY <1>6
<1>. HIDE DEF new
<1>7. ASSUME ~closed[l]
      PROVE  WorksOn(chan[l], loop[l], Order(w))
  BY <1>1, <1>7 DEF IInv, Newest
<1>8. ASSUME ~closed[l], workers[w].state \in {IDLE, RUN}
      PROVE  Calm(chan[l], loop[l])
  BY <1>1, <1>8 DEF IInv, Settled
<1>9. MutexFree => Order(w) = workers[w].state
  BY <1>1, WorkersAssumption DEF MutexFree, NotSending, Order
<1>10. Moves(l, <<>>, new)
  <2>1. <<>> \in Seq(WorkerState) /\ Len(<<>>) <= BufferSize
    BY EmptySeq, BufferAssumption
  <2>. QED  BY <1>3, <1>4, <1>5, <1>6, <2>1 DEF Moves, Working
<1>11. ASSUME ~closed[l], chan[l] # <<>>
       PROVE  WorksOn(<<>>, new, Order(w)) /\ Calm(<<>>, new)
  <2>1. Last(chan[l]) = Order(w)
    BY <1>7, <1>11 DEF WorksOn
  <2>2. Len(<<>>) = 0
    BY EmptySeq
  <2>. QED  BY <1>5, <1>11, <2>1, <2>2 DEF WorksOn, Calm
<1>12. ASSUME ~closed[l], chan[l] = <<>>
       PROVE  /\ WorksOn(<<>>, new, Order(w))
              /\ workers[w].state \in {IDLE, RUN} => Calm(<<>>, new)
  <2>1. Order(w) \in {PREPARE, BUSY} /\ next.task = Order(w)
    BY <1>7, <1>12 DEF WorksOn, Working
  <2>2. workers[w].state \in {IDLE, RUN} => next.pc = "addr"
    BY <1>8, <1>9, <1>12, <2>1 DEF Calm, Working
  <2>3. Len(<<>>) = 0
    BY EmptySeq
  <2>. QED  BY <1>6, <1>12, <2>1, <2>2, <2>3 DEF WorksOn, Calm, Working
<1>13. \/ new = next /\ ~closed[l] /\ chan[l] = <<>>
       \/ new.pc \in {"recv", "start", "exit"}
  BY <1>4, <1>5, <1>6
<1>. QED  BY <1>10, <1>11, <1>12, <1>13

\* A goroutine that does not come to "store", nor to the end of a preparation,
\* changes nothing that the invariant says of keys.
LEMMA KeysKept ==
    ASSUME IInv, NEW l \in Loops, NEW c, NEW new, Moves(l, c, new),
           UNCHANGED <<workers, dryads>>, new.pc # "store",
           new.pc = "commit" => new.task = BUSY \/ new.err
    PROVE  HasKeys' /\ SameKeys'
<1>1. /\ loop'[l] = new
      /\ \A k \in Loops \ {l} : loop'[k] = loop[k]
      /\ \A k \in Loops : loop'[k].uuid = loop[k].uuid
      /\ closed' = closed
  BY DEF IInv, TypeOK, Moves
<1>2. \A k \in Loops : Alone(k)' <=> Alone(k)
  BY <1>1 DEF Alone, First
<1>3. \A k \in Loops : Prepared(k)' => Prepared(k) /\ k # l
  BY <1>1 DEF Prepared
<1>4. HasKeys'
  BY <1>1, <1>3 DEF IInv, HasKeys, RunnableHasKey
<1>5. FirstKeys'
  BY <1>1 DEF IInv, SameKeys, FirstKeys, First, Accepts
<1>. QED  BY <1>1, <1>2, <1>3, <1>4, <1>5 DEF IInv, SameKeys, Accepts

\* The invariant after a step of a goroutine that leaves the workers and the
\* Dryads alone.
LEMMA QuietMove ==
    ASSUME IInv, NEW l \in Loops, NEW c, NEW new, Moves(l, c, new),
           UNCHANGED <<workers, dryads>>, new.pc # "store",
           new.pc = "commit" => new.task = BUSY \/ new.err,
           ~closed[l] => /\ WorksOn(c, new, Order(loop[l].uuid))
                         /\ workers[loop[l].uuid].state \in {IDLE, RUN} => Calm(c, new)
    PROVE  IInv'
<1>1. SameWorkers /\ DryadsOK'
  BY DEF IInv, TypeOK, SameWorkers, Registered, DryadsOK
<1>2. TypeOK' /\ Owners' /\ Places' /\ Sends' /\ Newest' /\ Settled'
  BY <1>1, MoveKeeps
<1>3. HasKeys' /\ SameKeys'
  BY KeysKept
<1>. QED  BY <1>2, <1>3 DEF IInv

\* The same for a step that ends in checkPendingOperation.
LEMMA QuietCheck ==
    ASSUME IInv, NEW l \in Loops, loop[l].pc \in Working,
           NEW next \in LoopRecord, PlaceOK(next),
           next.uuid = loop[l].uuid, next.task = loop[l].task, next.pc \in Working,
           \/ MutexFree
           \/ loop[l].pc = "start" /\ next.pc = "addr"
           \/ loop[l].pc \notin {"start", "addr"},
           checkPendingOperation(l, next), UNCHANGED <<workers, closed, sending, dryads>>,
           next.pc # "store",
           next.pc = "commit" => next.task = BUSY \/ next.err
    PROVE  IInv'
<1>1. PICK new :
          /\ Moves(l, <<>>, new)
          /\ ~closed[l] => /\ WorksOn(<<>>, new, Order(loop[l].uuid))
                           /\ workers[loop[l].uuid].state \in {IDLE, RUN} => Calm(<<>>, new)
          /\ \/ new = next /\ ~closed[l] /\ chan[l] = <<>>
             \/ new.pc \in {"recv", "start", "exit"}
  BY CheckMoves
<1>2. new.pc # "store" /\ (new.pc = "commit" => new.task = BUSY \/ new.err)
  BY <1>1
<1>. QED  BY <1>1, <1>2, QuietMove

\* Where a goroutine goes on after a step of its operation.
LEMMA ProceedType ==
    ASSUME TypeOK, NEW l \in Loops, NEW pc \in PCs, NEW err \in BOOLEAN
    PROVE  LET next == Proceed(l, pc, err) IN
           /\ next \in LoopRecord
           /\ next.uuid = loop[l].uuid /\ next.task = loop[l].task /\ next.key = loop[l].key
           /\ next.pc = (IF err THEN "commit" ELSE pc) /\ next.err = err
BY DEF TypeOK, Proceed, PCs, LoopRecord

\* The places where a goroutine works on an order.
LEMMA WorkingPlace ==
    ASSUME IInv, NEW l \in Loops, loop[l].pc \in Working
    PROVE  /\ PlaceOK(loop[l]) /\ loop[l] \in LoopRecord /\ loop[l].task \in {PREPARE, BUSY}
           /\ chan[l] \in Seq(WorkerState) /\ closed[l] \in BOOLEAN
           /\ loop[l].uuid \in Workers
           /\ ~closed[l] => Registered(loop[l].uuid) /\ workers[loop[l].uuid].bg = l
BY DEF IInv, TypeOK, Places, PlaceOK, Owners, Working, LoopRecord

\* The invariant after a step that goes on at pc, or with an error.
LEMMA QuietProceed ==
    ASSUME IInv, NEW l \in Loops, loop[l].pc \in Working,
           NEW pc \in {"addr", "create", "genkey", "maintain", "commit"}, NEW err \in BOOLEAN,
           pc = "genkey" => loop[l].task = PREPARE,
           pc \in {"maintain", "commit"} => loop[l].task = BUSY,
           \/ MutexFree
           \/ loop[l].pc = "start" /\ pc = "addr" /\ ~err
           \/ loop[l].pc \notin {"start", "addr"},
           checkPendingOperation(l, Proceed(l, pc, err)),
           UNCHANGED <<workers, closed, sending, dryads>>
    PROVE  IInv'
<1>. DEFINE next == Proceed(l, pc, err)
<1>1. /\ next \in LoopRecord /\ next.uuid = loop[l].uuid /\ next.task = loop[l].task
      /\ next.pc = (IF err THEN "commit" ELSE pc) /\ next.err = err
  BY ProceedType DEF IInv, PCs
<1>2. checkPendingOperation(l, next)
  OBVIOUS
<1>. HIDE DEF next
<1>3. PlaceOK(next) /\ next.pc \in Working
  BY <1>1, WorkingPlace DEF PlaceOK, Working
<1>4. /\ next.pc # "store"
      /\ next.pc = "commit" => next.task = BUSY \/ next.err
      /\ \/ MutexFree
         \/ loop[l].pc = "start" /\ next.pc = "addr"
         \/ loop[l].pc \notin {"start", "addr"}
  BY <1>1
<1>. QED  BY <1>1, <1>2, <1>3, <1>4, QuietCheck

\* A goroutine begins with the state that it has received.
LEMMA StartKeeps == ASSUME IInv, NEW l \in Loops, Start(l) PROVE IInv'
BY QuietProceed DEF Start, Working

\* It looks up the address.
LEMMA GetWorkerAddrKeeps == ASSUME IInv, NEW l \in Loops, GetWorkerAddr(l) PROVE IInv'
<1>1. loop[l].pc \in Working /\ MutexFree /\ UNCHANGED <<workers, closed, sending, dryads>>
  BY DEF GetWorkerAddr, Working
<1>2. CASE Registered(loop[l].uuid)
  <2>1. checkPendingOperation(l, Proceed(l, "create", FALSE))
    BY <1>2 DEF GetWorkerAddr
  <2>. QED  BY <1>1, <2>1, QuietProceed
<1>3. CASE ~Registered(loop[l].uuid)
  <2>1. checkPendingOperation(l, Proceed(l, "create", TRUE))
    BY <1>3 DEF GetWorkerAddr
  <2>. QED  BY <1>1, <2>1, QuietProceed
<1>. QED  BY <1>2, <1>3

\* It dials the Dryad.
LEMMA CreateClientKeeps ==
    ASSUME IInv, NEW l \in Loops, NEW ok \in BOOLEAN, CreateClient(l, ok) PROVE IInv'
<1>1. /\ loop[l].pc = "create" /\ loop[l].pc \in Working
      /\ UNCHANGED <<workers, closed, sending, dryads>>
  BY DEF CreateClient, Working
<1>2. CASE loop[l].task = PREPARE
  <2>1. checkPendingOperation(l, Proceed(l, "genkey", ~ok))
    BY <1>2 DEF CreateClient
  <2>. QED  BY <1>1, <1>2, <2>1, QuietProceed
<1>3. CASE loop[l].task # PREPARE
  <2>1. checkPendingOperation(l, Proceed(l, "maintain", ~ok)) /\ loop[l].task = BUSY
    BY <1>1, <1>3, WorkingPlace DEF CreateClient
  <2>. QED  BY <1>1, <2>1, QuietProceed
<1>. QED  BY <1>2, <1>3

\* It puts the Dryad in maintenance.
LEMMA PutInMaintenanceKeeps ==
    ASSUME IInv, NEW l \in Loops, NEW ok \in BOOLEAN, PutInMaintenance(l, ok) PROVE IInv'
<1>1. /\ loop[l].pc = "maintain" /\ loop[l].pc \in Working
      /\ checkPendingOperation(l, Proceed(l, "commit", ~ok))
      /\ UNCHANGED <<workers, closed, sending, dryads>>
  BY DEF PutInMaintenance, Working
<1>2. loop[l].task = BUSY
  BY <1>1, WorkingPlace DEF PlaceOK
<1>. QED  BY <1>1, <1>2, QuietProceed

-----------------------------------------------------------------------------
\* There is a key that nobody has.
LEMMA NewKey ==
    ASSUME TypeOK
    PROVE  (CHOOSE k \in Keys : k \notin InUse) \in Keys
<1>. DEFINE stored == [w \in Workers |-> workers[w].key]
            made == [l \in Loops |-> loop[l].key]
<1>1. stored \in [Workers -> Keys \cup {NoKey}]
  BY RegisteredType
<1>2. made \in [Loops -> Keys \cup {NoKey}] /\ installed \in [Workers -> DryadKeys]
  BY DEF TypeOK
<1>. HIDE DEF stored, made
<1>3. PICK k \in Keys : /\ \A w \in Workers : k \notin {stored[w], installed[w]}
                        /\ \A l \in Loops : k # made[l]
  BY <1>1, <1>2, KeysAssumption DEF KeysLeft
<1>4. k \notin InUse
  BY <1>3 DEF InUse, stored, made
<1>. QED  BY <1>4

\* A generated key is one.
LEMMA GenerateKeyKeeps ==
    ASSUME IInv, NEW l \in Loops, NEW ok \in BOOLEAN, GenerateKey(l, ok) PROVE IInv'
<1>. DEFINE key == IF ok THEN CHOOSE k \in Keys : k \notin InUse ELSE NoKey
            next == [Proceed(l, "install", ~ok) EXCEPT !.key = key]
<1>1. /\ loop[l].pc = "genkey" /\ loop[l].pc \in Working
      /\ checkPendingOperation(l, next)
      /\ UNCHANGED <<workers, closed, sending, dryads>>
  BY DEF GenerateKey, Working
<1>2. key \in Keys \cup {NoKey} /\ (ok => key # NoKey)
  BY NewKey, KeysAssumption DEF IInv
<1>. HIDE DEF key
<1>3. LET p == Proceed(l, "install", ~ok) IN
      /\ p \in LoopRecord /\ p.uuid = loop[l].uuid /\ p.task = loop[l].task
      /\ p.pc = (IF ok THEN "install" ELSE "commit") /\ p.err = ~ok
  <2>1. CASE ok
    BY <2>1, ProceedType DEF IInv, PCs
  <2>2. CASE ~ok
    BY <2>2, ProceedType DEF IInv, PCs
  <2>. QED  BY <2>1, <2>2
<1>4. /\ next \in LoopRecord /\ next.uuid = loop[l].uuid /\ next.task = loop[l].task
      /\ next.pc = (IF ok THEN "install" ELSE "commit") /\ next.err = ~ok /\ next.key = key
  BY <1>2, <1>3 DEF LoopRecord
<1>. HIDE DEF next
<1>5. loop[l].task = PREPARE
  BY <1>1, WorkingPlace DEF PlaceOK
<1>6. PlaceOK(next) /\ next.pc \in Working
  BY <1>2, <1>4, <1>5 DEF PlaceOK, Working
<1>. QED  BY <1>1, <1>4, <1>6, QuietCheck

\* A goroutine is alone with its Dryad exactly if it was before, as long as no
\* goroutine starts.
LEMMA MoveAlone ==
    ASSUME TypeOK, NEW l \in Loops, NEW c, NEW new, Moves(l, c, new)
    PROVE  /\ loop'[l] = new /\ closed' = closed
           /\ \A k \in Loops \ {l} : loop'[k] = loop[k]
           /\ \A k \in Loops : loop'[k].uuid = loop[k].uuid
           /\ \A k \in Loops : Alone(k)' <=> Alone(k)
           /\ \A k \in Loops \ {l} : Prepared(k)' <=> Prepared(k)
<1>1. /\ loop'[l] = new /\ closed' = closed
      /\ \A k \in Loops \ {l} : loop'[k] = loop[k]
      /\ \A k \in Loops : loop'[k].uuid = loop[k].uuid
  BY DEF TypeOK, Moves
<1>. QED  BY <1>1 DEF Alone, First, Prepared

\* The goroutine of a worker that can be matched, or runs a job, is not about to
\* store a key.
LEMMA NotSettled ==
    ASSUME IInv, NEW l \in Loops, loop[l].pc \notin {"recv", "start", "addr"},
           NEW w \in Workers, workers[w].state \in {IDLE, RUN}
    PROVE  workers[w].bg # l
BY DEF IInv, Settled, Calm

\* Of the goroutines that were started for a Dryad, an installed key reaches
\* only the one that installs it.
LEMMA InstallKeyKeeps ==
    ASSUME IInv, NEW l \in Loops, NEW left \in DryadKeys, NEW ok \in BOOLEAN,
           InstallKey(l, left, ok)
    PROVE  IInv'
<1>. DEFINE next == Proceed(l, "store", ~ok)
            d == loop[l].uuid
<1>1. /\ loop[l].pc = "install" /\ loop[l].pc \in Working
      /\ ok => left = loop[l].key
      /\ installed' = [installed EXCEPT ![d] = left]
      /\ overlapped' = [overlapped EXCEPT ![d] = givenup[d]]
      /\ \/ givenup' = givenup
         \/ ~ok /\ givenup' = [givenup EXCEPT ![d] = TRUE]
      /\ checkPendingOperation(l, next)
      /\ UNCHANGED <<workers, closed, sending>>
  BY DEF InstallKey, CallPrepare, Working
<1>2. /\ next \in LoopRecord /\ next.uuid = d /\ next.task = loop[l].task
      /\ next.pc = (IF ok THEN "store" ELSE "commit") /\ next.err = ~ok
      /\ next.key = loop[l].key
  <2>1. CASE ok
    BY <2>1, ProceedType DEF IInv, PCs
  <2>2. CASE ~ok
    BY <2>2, ProceedType DEF IInv, PCs
  <2>. QED  BY <2>1, <2>2
<1>. HIDE DEF next
<1>3. PlaceOK(next) /\ next.pc \in Working /\ d \in Workers
  BY <1>1, <1>2, WorkingPlace DEF PlaceOK, Working
<1>4. PICK new :
          /\ Moves(l, <<>>, new)
          /\ ~closed[l] => /\ WorksOn(<<>>, new, Order(d))
                           /\ workers[d].state \in {IDLE, RUN} => Calm(<<>>, new)
          /\ \/ new = next /\ ~closed[l] /\ chan[l] = <<>>
             \/ new.pc \in {"recv", "start", "exit"}
  BY <1>1, <1>2, <1>3, CheckMoves
<1>5. /\ SameWorkers /\ DryadsOK'
      /\ ok => AcceptsThen(d, loop[l].key)
      /\ \A w \in Workers \ {d} : \A key : AcceptsThen(w, key) <=> Accepts(w, key)
  <2>1. SameWorkers
    BY <1>1 DEF IInv, TypeOK, SameWorkers, Registered
  <2>2. DryadsOK'
    BY <1>1, <1>3 DEF IInv, TypeOK, DryadsOK
  <2>3. ASSUME ok
        PROVE  AcceptsThen(d, loop[l].key)
    BY <1>1, <1>3, <2>3 DEF IInv, TypeOK, AcceptsThen
  <2>4. \A w \in Workers \ {d} : /\ installed'[w] = installed[w] /\ givenup'[w] = givenup[w]
                                /\ overlapped'[w] = overlapped[w]
    BY <1>1 DEF IInv, TypeOK
  <2>. QED  BY <2>1, <2>2, <2>3, <2>4 DEF Accepts, AcceptsThen
<1>6. TypeOK' /\ Owners' /\ Places' /\ Sends' /\ Newest' /\ Settled'
  BY <1>4, <1>5, MoveKeeps
<1>7. /\ loop'[l] = new /\ closed' = closed
      /\ \A k \in Loops \ {l} : loop'[k] = loop[k]
      /\ \A k \in Loops : loop'[k].uuid = loop[k].uuid
      /\ \A k \in Loops : Alone(k)' <=> Alone(k)
      /\ \A k \in Loops \ {l} : Prepared(k)' <=> Prepared(k)
  BY <1>4, MoveAlone DEF IInv
<1>8. ~Prepared(l)' /\ (new.pc = "store" => ok /\ new.key = loop[l].key)
  BY <1>2, <1>4, <1>7 DEF Prepared
<1>9. HasKeys'
  BY <1>1, <1>7, <1>8 DEF IInv, HasKeys, RunnableHasKey
<1>10. FirstKeys'
  <2>. SUFFICES ASSUME NEW w \in Workers, workers[w].state \in {IDLE, RUN}, First(w, workers[w].bg)
                PROVE  AcceptsThen(w, workers[w].key)
    BY <1>1, <1>7 DEF FirstKeys, First, Accepts, AcceptsThen
  <2>1. workers[w].bg # l
    BY <1>1, NotSettled
  <2>2. w # d
    BY <2>1 DEF First
  <2>3. Accepts(w, workers[w].key)
    BY DEF IInv, SameKeys, FirstKeys
  <2>. QED  BY <1>5, <2>2, <2>3
<1>11. ASSUME NEW k \in Loops, Alone(k)
       PROVE  /\ loop'[k].pc = "store" => AcceptsThen(loop[k].uuid, loop'[k].key)
              /\ Prepared(k)' => AcceptsThen(loop[k].uuid, workers[loop[k].uuid].key)
  <2>1. CASE k = l
    BY <1>1, <1>5, <1>7, <1>8, <2>1
  <2>2. CASE k # l
    <3>1. loop[k].uuid # d
      BY <1>11, <2>2 DEF Alone, First
    <3>2. loop[k].pc \in Working => loop[k].uuid \in Workers
      BY WorkingPlace
    <3>. QED  BY <1>5, <1>7, <1>11, <2>2, <3>1, <3>2 DEF IInv, SameKeys, Prepared, Working
  <2>. QED  BY <2>1, <2>2
<1>. QED  BY <1>1, <1>6, <1>7, <1>9, <1>10, <1>11 DEF IInv, SameKeys, Accepts, AcceptsThen

\* The key that is stored is the one that was installed.
LEMMA SetWorkerKeyKeeps ==
    ASSUME IInv, NEW l \in Loops, SetWorkerKey(l) PROVE IInv'
<1>. DEFINE d == loop[l].uuid
            err == ~Registered(d)
            next == Proceed(l, "commit", err)
<1>1. /\ loop[l].pc = "store" /\ loop[l].pc \in Working /\ MutexFree
      /\ checkPendingOperation(l, next)
      /\ UNCHANGED <<closed, sending, dryads>>
  BY DEF SetWorkerKey, Working
<1>2. /\ next \in LoopRecord /\ next.uuid = d /\ next.task = loop[l].task
      /\ next.pc = "commit" /\ next.err = err /\ next.key = loop[l].key
  <2>1. CASE err
    BY <2>1, ProceedType DEF IInv, PCs
  <2>2. CASE ~err
    BY <2>2, ProceedType DEF IInv, PCs
  <2>. QED  BY <2>1, <2>2
<1>3. d \in Workers /\ loop[l].key \in Keys /\ loop[l].task = PREPARE
  BY <1>1, WorkingPlace, KeysAssumption DEF PlaceOK, LoopRecord
<1>. HIDE DEF next
<1>4. PlaceOK(next) /\ next.pc \in Working
  BY <1>2, <1>3 DEF PlaceOK, Working
<1>5. PICK new :
          /\ Moves(l, <<>>, new)
          /\ ~closed[l] => /\ WorksOn(<<>>, new, Order(d))
                           /\ workers[d].state \in {IDLE, RUN} => Calm(<<>>, new)
          /\ \/ new = next /\ ~closed[l] /\ chan[l] = <<>>
             \/ new.pc \in {"recv", "start", "exit"}
  BY <1>1, <1>2, <1>4, CheckMoves
<1>6. /\ SameWorkers
      /\ Registered(d) => workers'[d].key = loop[l].key
      /\ \A w \in Workers \ {d} : workers'[w] = workers[w]
      /\ ~Registered(d) => workers' = workers
  <2>1. CASE Registered(d)
    <3>. DEFINE m == [workers[d] EXCEPT !.key = loop[l].key]
    <3>1. workers[d] \in MapWorker
      BY <1>3, <2>1, RegisteredType DEF IInv
    <3>2. /\ m \in MapWorker /\ m.state = workers[d].state /\ m.bg = workers[d].bg
          /\ m.key = loop[l].key
      BY <1>3, <3>1 DEF MapWorker
    <3>3. workers' = [workers EXCEPT ![d] = m]
      BY <2>1 DEF SetWorkerKey
    <3>. HIDE DEF m
    <3>4. m # NoWorker
      BY <3>2, NoWorkerApart
    <3>. QED  BY <1>3, <2>1, <3>2, <3>3, <3>4 DEF IInv, TypeOK, SameWorkers, Registered
  <2>2. CASE ~Registered(d)
    BY <2>2 DEF SetWorkerKey, IInv, TypeOK, SameWorkers, Registered
  <2>. QED  BY <2>1, <2>2
<1>7. TypeOK' /\ Owners' /\ Places' /\ Sends' /\ Newest' /\ Settled'
  <2>1. DryadsOK'
    BY <1>1 DEF IInv, TypeOK, DryadsOK
  <2>. QED  BY <1>5, <1>6, <2>1, MoveKeeps
<1>8. /\ loop'[l] = new /\ closed' = closed
      /\ \A k \in Loops \ {l} : loop'[k] = loop[k]
      /\ \A k \in Loops : loop'[k].uuid = loop[k].uuid
      /\ \A k \in Loops : Alone(k)' <=> Alone(k)
      /\ \A k \in Loops \ {l} : Prepared(k)' <=> Prepared(k)
  BY <1>5, MoveAlone DEF IInv
<1>9. (Prepared(l)' => Registered(d)) /\ new.pc # "store"
  BY <1>2, <1>5, <1>8 DEF Prepared
<1>10. ASSUME NEW w \in Workers, workers[w].key # NoKey
       PROVE  workers'[w].key # NoKey
  BY <1>3, <1>6, <1>10, KeysAssumption
<1>11. HasKeys'
  <2>1. RunnableHasKey'
    BY <1>6, <1>10 DEF IInv, HasKeys, RunnableHasKey, SameWorkers
  <2>2. ASSUME NEW k \in Loops, Prepared(k)'
        PROVE  workers'[loop'[k].uuid].key # NoKey
    <3>1. CASE k = l
      BY <1>3, <1>6, <1>8, <1>9, <2>2, <3>1, KeysAssumption
    <3>2. CASE k # l
      <4>1. Prepared(k) /\ loop[k].uuid \in Workers
        BY <1>8, <2>2, <3>2, WorkingPlace DEF Prepared, Working
      <4>. QED  BY <1>8, <1>10, <4>1 DEF IInv, HasKeys
    <3>. QED  BY <3>1, <3>2
  <2>. QED  BY <2>1, <2>2 DEF HasKeys
<1>12. FirstKeys'
  <2>. SUFFICES ASSUME NEW w \in Workers, workers[w].state \in {IDLE, RUN}, First(w, workers[w].bg)
                PROVE  Accepts(w, workers'[w].key)
    BY <1>1, <1>6, <1>8 DEF FirstKeys, First, SameWorkers, Accepts
  <2>1. workers[w].bg # l
    BY <1>1, NotSettled
  <2>2. w # d
    BY <2>1 DEF First
  <2>. QED  BY <1>6, <2>2 DEF IInv, SameKeys, FirstKeys
<1>13. ASSUME NEW k \in Loops, Alone(k)
       PROVE  /\ loop'[k].pc = "store" => Accepts(loop[k].uuid, loop'[k].key)
              /\ Prepared(k)' => Accepts(loop[k].uuid, workers'[loop[k].uuid].key)
  <2>1. CASE k = l
    <3>1. Accepts(d, loop[l].key)
      BY <1>1, <1>13, <2>1 DEF IInv, SameKeys
    <3>. QED  BY <1>6, <1>8, <1>9, <2>1, <3>1
  <2>2. CASE k # l
    <3>1. loop[k].uuid # d
      BY <1>13, <2>2 DEF Alone, First
    <3>2. loop[k].pc \in Working => loop[k].uuid \in Workers
      BY WorkingPlace
    <3>. QED  BY <1>6, <1>8, <1>13, <2>2, <3>1, <3>2 DEF IInv, SameKeys, Prepared, Working
  <2>. QED  BY <2>1, <2>2
<1>. QED  BY <1>1, <1>7, <1>8, <1>11, <1>12, <1>13 DEF IInv, SameKeys, Accepts

\* A state that is received is the newest, or there are newer ones behind it.
LEMMA ReceiveKeeps == ASSUME IInv, NEW l \in Loops, Receive(l) PROVE IInv'
<1>. DEFINE d == loop[l].uuid
<1>1. /\ loop[l].pc = "recv" /\ loop[l] \in LoopRecord /\ chan[l] \in Seq(WorkerState)
      /\ Len(chan[l]) \in Nat /\ Len(chan[l]) <= BufferSize + 1
      /\ d \in Workers
      /\ ~closed[l] => Registered(d) /\ workers[d].bg = l
      /\ UNCHANGED <<workers, closed, sending, dryads>>
  BY LenProperties DEF Receive, IInv, TypeOK, LoopRecord, Owners
<1>2. ASSUME ~closed[l]
      PROVE  WorksOn(chan[l], loop[l], Order(d))
  BY <1>1, <1>2 DEF IInv, Newest
<1>3. ASSUME ~closed[l], workers[d].state \in {IDLE, RUN}
      PROVE  Calm(chan[l], loop[l])
  BY <1>1, <1>3 DEF IInv, Settled
<1>4. CASE chan[l] # <<>>
  <2>. DEFINE c == Tail(chan[l])
              s == Head(chan[l])
              new == Dispatch(l, s)
  <2>1. /\ c \in Seq(WorkerState) /\ Len(c) = Len(chan[l]) - 1
        /\ s = chan[l][1] /\ s \in WorkerState
        /\ c # <<>> => Last(c) = Last(chan[l]) /\ Len(chan[l]) > 1
        /\ c = <<>> => s = Last(chan[l])
        /\ \A i \in 1 .. Len(c) : c[i] = chan[l][i + 1]
    BY <1>1, <1>4, LastOfTail
  <2>2. chan' = [chan EXCEPT ![l] = c] /\ loop' = [loop EXCEPT ![l] = new]
    BY <1>4 DEF Receive
  <2>3. /\ new \in LoopRecord /\ new.uuid = d /\ new.task = s /\ ~new.err
        /\ new.pc = IF s \in {PREPARE, BUSY} THEN "start" ELSE "recv"
    BY <1>1, <2>1 DEF Dispatch, LoopRecord, PCs
  <2>. HIDE DEF c, s, new
  <2>4. Moves(l, c, new)
    <3>1. Len(c) <= BufferSize
      BY <1>1, <2>1, BufferAssumption
    <3>2. PlaceOK(new)
      BY <2>3 DEF PlaceOK
    <3>. QED  BY <1>1, <2>1, <2>2, <2>3, <3>1, <3>2 DEF Moves
  <2>5. ASSUME ~closed[l]
        PROVE  WorksOn(c, new, Order(d))
    <3>1. Last(chan[l]) = Order(d)
      BY <1>2, <1>4, <2>5 DEF WorksOn
    <3>. QED  BY <2>1, <2>3, <3>1 DEF WorksOn
  <2>6. ASSUME ~closed[l], workers[d].state \in {IDLE, RUN}
        PROVE  Calm(c, new)
    <3>1. \A i \in 1 .. Len(chan[l]) : i < Len(chan[l]) => chan[l][i] \in {IDLE, RUN}
      BY <1>3, <2>6 DEF Calm
    <3>2. \A i \in 1 .. Len(c) : i < Len(c) => c[i] \in {IDLE, RUN}
      BY <1>1, <2>1, <3>1
    <3>3. c # <<>> => s \in {IDLE, RUN}
      BY <1>1, <2>1, <3>1
    <3>. QED  BY <2>3, <3>2, <3>3 DEF Calm
  <2>. QED  BY <1>1, <2>3, <2>4, <2>5, <2>6, QuietMove
<1>5. CASE chan[l] = <<>>
  <2>. DEFINE new == [NewLoop EXCEPT !.uuid = d, !.pc = "exit"]
  <2>1. closed[l] /\ loop' = [loop EXCEPT ![l] = new] /\ chan' = chan
    BY <1>5 DEF Receive
  <2>2. new \in LoopRecord /\ PlaceOK(new) /\ new.uuid = d /\ new.pc = "exit"
    BY <1>1 DEF LoopRecord, NewLoop, PlaceOK, PCs
  <2>. HIDE DEF new
  <2>3. chan' = [chan EXCEPT ![l] = <<>>]
    BY <1>5, <2>1 DEF IInv, TypeOK
  <2>4. <<>> \in Seq(WorkerState) /\ Len(<<>>) <= BufferSize
    BY EmptySeq, BufferAssumption
  <2>5. Moves(l, <<>>, new)
    BY <1>1, <2>1, <2>2, <2>3, <2>4 DEF Moves
  <2>. QED  BY <1>1, <2>1, <2>2, <2>5, QuietMove
<1>. QED  BY <1>4, <1>5

-----------------------------------------------------------------------------
\* What a goroutine knows when it ends its operation: nothing newer was ordered,
\* and its worker is in the state that was ordered.
LEMMA CommitFacts ==
    ASSUME IInv, NEW l \in Loops, loop[l].pc = "commit", MutexFree, ~Overtaken(l)
    PROVE  LET w == loop[l].uuid IN
           /\ w \in Workers /\ workers[w] \in MapWorker /\ workers[w].bg = l
           /\ ~closed[l] /\ chan[l] = <<>>
           /\ workers[w].state \in {PREPARE, BUSY} /\ loop[l].task = workers[w].state
<1>. DEFINE w == loop[l].uuid
<1>1. w \in Workers /\ Registered(w) /\ workers[w].bg = l /\ ~closed[l] /\ chan[l] = <<>>
  BY DEF IInv, Owners, Overtaken
<1>2. Order(w) = workers[w].state
  BY <1>1, WorkersAssumption DEF MutexFree, NotSending, Order
<1>3. WorksOn(<<>>, loop[l], Order(w))
  BY <1>1 DEF IInv, Newest
<1>4. Order(w) \in {PREPARE, BUSY} /\ loop[l].task = Order(w)
  BY <1>3 DEF WorksOn
<1>5. workers[w] \in MapWorker
  BY <1>1, RegisteredType DEF IInv
<1>. QED  BY <1>1, <1>2, <1>4, <1>5

\* A goroutine that was not overtaken makes its worker IDLE, FAIL or MAINTENANCE.
LEMMA CommitKeeps == ASSUME IInv, NEW l \in Loops, Commit(l) PROVE IInv'
<1>. DEFINE w == loop[l].uuid
            s == EndState(l)
<1>1. /\ loop[l].pc = "commit" /\ loop[l].pc \in Working /\ MutexFree
      /\ UNCHANGED <<closed, sending, dryads>>
  BY DEF Commit, Working
<1>2. CASE Overtaken(l)
  <2>1. checkPendingOperation(l, loop[l]) /\ UNCHANGED workers
    BY <1>2 DEF Commit
  <2>2. loop[l] \in LoopRecord /\ PlaceOK(loop[l])
    BY <1>1, WorkingPlace
  <2>3. PICK new :
            /\ Moves(l, <<>>, new)
            /\ ~closed[l] => /\ WorksOn(<<>>, new, Order(w))
                             /\ workers[w].state \in {IDLE, RUN} => Calm(<<>>, new)
            /\ \/ new = loop[l] /\ ~closed[l] /\ chan[l] = <<>>
               \/ new.pc \in {"recv", "start", "exit"}
    BY <1>1, <2>1, <2>2, CheckMoves
  <2>4. new.pc \in {"recv", "start", "exit"}
    BY <1>2, <2>3 DEF Overtaken
  <2>. QED  BY <1>1, <2>1, <2>3, <2>4, QuietMove
<1>3. CASE ~Overtaken(l)
  <2>. DEFINE m == [workers[w] EXCEPT !.state = s]
              new == [loop[l] EXCEPT !.pc = "recv", !.err = FALSE, !.key = NoKey]
              c == Append(chan[l], s)
  <2>1. /\ w \in Workers /\ workers[w] \in MapWorker /\ workers[w].bg = l
        /\ ~closed[l] /\ chan[l] = <<>>
        /\ workers[w].state \in {PREPARE, BUSY} /\ loop[l].task = workers[w].state
    BY <1>1, <1>3, CommitFacts
  <2>2. /\ s \in {IDLE, MAINTENANCE, FAIL} /\ s \in WorkerState
        /\ s = IDLE => Prepared(l)
    BY <1>1, <2>1 DEF EndState, WorkerState, Prepared
  <2>3. /\ workers' = [workers EXCEPT ![w] = m]
        /\ chan' = [chan EXCEPT ![l] = c]
        /\ loop' = [loop EXCEPT ![l] = new]
    BY <1>3, <2>1 DEF Commit, IInv, TypeOK
  <2>. HIDE DEF s
  <2>4. m \in MapWorker /\ m.state = s /\ m.key = workers[w].key /\ m.bg = l /\ m # NoWorker
    <3>1. m \in MapWorker /\ m.state = s /\ m.key = workers[w].key /\ m.bg = l
      BY <2>1, <2>2 DEF MapWorker
    <3>. HIDE DEF m
    <3>. QED  BY <3>1, NoWorkerApart
  <2>5. new \in LoopRecord /\ new.pc = "recv" /\ ~new.err /\ new.uuid = w
    <3>1. loop[l] \in LoopRecord
      BY <1>1, WorkingPlace
    <3>. QED  BY <3>1 DEF LoopRecord, PCs
  <2>6. c \in Seq(WorkerState) /\ c # <<>> /\ Len(c) = 1 /\ Last(c) = s
    <3>1. chan[l] \in Seq(WorkerState) /\ Len(chan[l]) = 0
      BY <2>1, EmptySeq
    <3>. QED  BY <2>2, <3>1, LastOfAppend
  <2>. HIDE DEF m, new, c
  <2>7. /\ loop'[l] = new /\ chan'[l] = c /\ workers'[w] = m
        /\ \A k \in Loops \ {l} : loop'[k] = loop[k] /\ chan'[k] = chan[k]
        /\ \A k \in Loops : loop'[k].uuid = loop[k].uuid
        /\ \A v \in Workers \ {w} : workers'[v] = workers[v]
    BY <2>1, <2>3, <2>5 DEF IInv, TypeOK
  <2>8. /\ \A v \in Workers : Registered(v) => workers[v].bg \in Loops
        /\ \A v \in Workers \ {w} : Registered(v) => workers[v].bg # l
        /\ \A v \in Workers : Registered(v)' <=> Registered(v)
        /\ \A v \in Workers : workers'[v].bg = workers[v].bg /\ workers'[v].key = workers[v].key
        /\ Registered(w)
    <3>1. Registered(w)
      BY <2>1, NoWorkerApart DEF Registered
    <3>. QED  BY <2>1, <2>4, <2>7, <3>1, RegisteredType DEF IInv, Owners, Registered
  <2>9. MutexFree' /\ \A v \in Workers : sending.uuid # v
    BY <1>1, WorkersAssumption DEF MutexFree, NotSending
  <2>10. TypeOK'
    <3>1. Len(c) <= BufferSize + 1
      BY <2>6, BufferAssumption
    <3>2. chan' \in [Loops -> Seq(WorkerState)] /\ \A k \in Loops : Len(chan'[k]) <= BufferSize + 1
      BY <2>3, <2>6, <2>7, <3>1 DEF IInv, TypeOK
    <3>3. loop' \in [Loops -> LoopRecord]
      BY <2>3, <2>5 DEF IInv, TypeOK, LoopRecord
    <3>. QED  BY <1>1, <2>3, <2>4, <3>2, <3>3 DEF IInv, TypeOK, LoopRecord
  <2>11. Owners'
    BY <1>1, <2>1, <2>5, <2>7, <2>8 DEF IInv, Owners
  <2>12. Places'
    BY <2>5, <2>7 DEF IInv, Places, PlaceOK
  <2>13. Sends'
    <3>1. \A k \in Loops : ~(Len(chan[k]) > BufferSize)
      BY <1>1 DEF IInv, Sends
    <3>2. ~(Len(c) > BufferSize)
      BY <2>6, BufferAssumption
    <3>3. \A k \in Loops : ~(Len(chan'[k]) > BufferSize)
      BY <2>7, <3>1, <3>2
    <3>. QED  BY <2>9, <3>3 DEF Sends
  <2>14. Newest'
    <3>. SUFFICES ASSUME NEW v \in Workers, Registered(v)
                  PROVE  WorksOn(chan'[workers[v].bg], loop'[workers[v].bg], Order(v)')
      BY <2>8 DEF Newest
    <3>1. CASE v = w
      BY <1>1, <2>1, <2>4, <2>6, <2>7, <2>9, <3>1 DEF WorksOn, Order
    <3>2. CASE v # w
      BY <1>1, <2>7, <2>8, <2>9, <3>2 DEF IInv, Newest, Order
    <3>. QED  BY <3>1, <3>2
  <2>15. Settled'
    <3>. SUFFICES ASSUME NEW v \in Workers, workers'[v].state \in {IDLE, RUN}
                  PROVE  Calm(chan'[workers[v].bg], loop'[workers[v].bg])
      BY <2>8 DEF Settled
    <3>1. CASE v = w
      <4>1. \A i \in 1 .. Len(c) : ~(i < Len(c))
        BY <2>6
      <4>. QED  BY <2>1, <2>5, <2>7, <3>1, <4>1 DEF Calm
    <3>2. CASE v # w
      <4>1. workers[v].state \in {IDLE, RUN} /\ Registered(v)
        BY <2>7, <3>2, RegisteredType DEF IInv
      <4>. QED  BY <2>7, <2>8, <3>2, <4>1 DEF IInv, Settled
    <3>. QED  BY <3>1, <3>2
  <2>16. \A k \in Loops : (Alone(k)' <=> Alone(k)) /\ (Prepared(k)' => Prepared(k) /\ k # l)
    BY <1>1, <2>5, <2>7 DEF Alone, First, Prepared
  <2>17. \A k \in Loops : loop[k].pc \in Working => loop[k].uuid \in Workers
    BY WorkingPlace
  <2>18. HasKeys'
    <3>1. RunnableHasKey'
      BY <2>1, <2>2, <2>4, <2>7, <2>8 DEF IInv, HasKeys, RunnableHasKey
    <3>2. \A k \in Loops : Prepared(k)' => workers'[loop'[k].uuid].key # NoKey
      BY <2>7, <2>8, <2>16, <2>17 DEF IInv, HasKeys, Prepared, Working
    <3>. QED  BY <3>1, <3>2 DEF HasKeys
  <2>19. FirstKeys'
    <3>. SUFFICES ASSUME NEW v \in Workers, workers'[v].state \in {IDLE, RUN}, First(v, workers[v].bg)
                  PROVE  Accepts(v, workers[v].key)
      BY <1>1, <2>7, <2>8 DEF FirstKeys, First, Accepts
    <3>1. CASE v = w
      <4>1. Prepared(l) /\ Alone(l)
        BY <2>1, <2>2, <2>4, <2>7, <3>1 DEF Alone
      <4>. QED  BY <3>1, <4>1 DEF IInv, SameKeys
    <3>2. CASE v # w
      BY <2>7, <3>2 DEF IInv, SameKeys, FirstKeys
    <3>. QED  BY <3>1, <3>2
  <2>20. SameKeys'
    <3>. SUFFICES ASSUME NEW k \in Loops, Alone(k)
                  PROVE  /\ loop'[k].pc = "store" => Accepts(loop[k].uuid, loop'[k].key)
                         /\ Prepared(k)' => Accepts(loop[k].uuid, workers'[loop[k].uuid].key)
      BY <1>1, <2>7, <2>16, <2>19 DEF SameKeys, Accepts
    <3>. QED  BY <2>5, <2>7, <2>8, <2>16, <2>17 DEF IInv, SameKeys, Prepared, Working
  <2>. QED  BY <2>10, <2>11, <2>12, <2>13, <2>14, <2>15, <2>18, <2>20 DEF IInv
<1>. QED  BY <1>2, <1>3

-----------------------------------------------------------------------------
\* A handler orders a state of the table, and none makes a worker matchable that
\* was not.
LEMMA OrderedState ==
    ASSUME NEW s \in WorkerState, NEW t, Ordered(s, t)
    PROVE  t \in WorkerState /\ (t \in {IDLE, RUN} => s \in {IDLE, RUN})
BY DEF Ordered, WorkerState, Abstract!RegisterTarget, Abstract!SetStateActs, Abstract!SetStateTarget,
       Abstract!MAINTENANCE, Abstract!IDLE, Abstract!FAIL, Abstract!PREPARE, Abstract!BUSY,
       Abstract!ABSENT

\* A handler that keeps the keys, and makes no worker matchable that was not,
\* keeps what the invariant says of keys.
LEMMA HandlerKeys ==
    ASSUME IInv, UNCHANGED <<loop, closed, dryads>>,
           \A v \in Workers :
              /\ workers'[v].key = workers[v].key /\ workers'[v].bg = workers[v].bg
              /\ workers'[v].state \in {IDLE, RUN} => workers[v].state \in {IDLE, RUN}
    PROVE  HasKeys' /\ SameKeys'
<1>1. \A l \in Loops : (Prepared(l)' <=> Prepared(l)) /\ (Alone(l)' <=> Alone(l))
  BY DEF Prepared, Alone, First
<1>2. \A l \in Loops : loop[l].pc \in Working => loop[l].uuid \in Workers
  BY WorkingPlace
<1>3. HasKeys'
  BY <1>1, <1>2 DEF IInv, HasKeys, RunnableHasKey, Prepared, Working
<1>4. FirstKeys'
  BY DEF IInv, SameKeys, FirstKeys, First, Accepts
<1>5. ASSUME NEW l \in Loops, Alone(l)
      PROVE  /\ loop[l].pc = "store" => Accepts(loop[l].uuid, loop[l].key)
             /\ Prepared(l) => Accepts(loop[l].uuid, workers'[loop[l].uuid].key)
  BY <1>2, <1>5 DEF IInv, SameKeys, Prepared, Working
<1>. QED  BY <1>1, <1>3, <1>4, <1>5 DEF SameKeys, Accepts

\* What assigning a state to a worker of the list leaves alone.
LEMMA StateAssigned ==
    ASSUME TypeOK, NEW w \in Workers, Registered(w), NEW s \in WorkerState,
           workers' = [workers EXCEPT ![w].state = s]
    PROVE  /\ workers' \in [Workers -> MapWorker \cup {NoWorker}]
           /\ workers'[w].state = s
           /\ \A v \in Workers : /\ workers'[v].key = workers[v].key
                                 /\ workers'[v].bg = workers[v].bg
                                 /\ v # w => workers'[v] = workers[v]
                                 /\ Registered(v)' <=> Registered(v)
<1>. DEFINE m == [workers[w] EXCEPT !.state = s]
<1>1. workers[w] \in MapWorker
  BY RegisteredType
<1>2. m \in MapWorker /\ m.state = s /\ m.key = workers[w].key /\ m.bg = workers[w].bg
  BY <1>1 DEF MapWorker
<1>3. workers' = [workers EXCEPT ![w] = m]
  OBVIOUS
<1>. HIDE DEF m
<1>4. m # NoWorker
  BY <1>2, NoWorkerApart
<1>. QED  BY <1>2, <1>3, <1>4 DEF TypeOK, Registered

\* The invariant after a call of setState with the mutex held.
LEMMA SetStateKeeps ==
    ASSUME IInv, NEW w \in Workers, MutexFree, Registered(w), NEW s,
           Ordered(workers[w].state, s), setState(w, s)
    PROVE  IInv'
<1>. DEFINE l == workers[w].bg
            c == Append(chan[l], s)
<1>1. /\ l \in Loops /\ workers[w].state \in WorkerState
      /\ loop[l].uuid = w /\ ~closed[l]
      /\ chan[l] \in Seq(WorkerState) /\ Len(chan[l]) \in Nat /\ Len(chan[l]) <= BufferSize
  <2>1. l \in Loops /\ workers[w].state \in WorkerState
    BY RegisteredType DEF IInv
  <2>2. chan[l] \in Seq(WorkerState) /\ Len(chan[l]) \in Nat
    BY <2>1, LenProperties DEF IInv, TypeOK
  <2>3. ~(Len(chan[l]) > BufferSize)
    BY <2>1 DEF IInv, Sends
  <2>. QED  BY <2>1, <2>2, <2>3, BufferAssumption DEF IInv, Owners
<1>2. s \in WorkerState /\ (s \in {IDLE, RUN} => workers[w].state \in {IDLE, RUN})
  BY <1>1, OrderedState
<1>3. /\ c \in Seq(WorkerState) /\ c # <<>> /\ Len(c) = Len(chan[l]) + 1 /\ Last(c) = s
      /\ \A i \in 1 .. Len(chan[l]) : c[i] = chan[l][i]
  BY <1>1, <1>2, LastOfAppend
<1>4. /\ chan' = [chan EXCEPT ![l] = c]
      /\ UNCHANGED <<closed, loop, dryads>>
  BY DEF setState, IInv, TypeOK
<1>. HIDE DEF c
<1>5. /\ chan' \in [Loops -> Seq(WorkerState)] /\ chan'[l] = c
      /\ \A k \in Loops \ {l} : chan'[k] = chan[k]
  BY <1>1, <1>3, <1>4 DEF IInv, TypeOK
<1>6. \A v \in Workers : Order(v) = workers[v].state /\ sending.uuid # v
  BY WorkersAssumption DEF MutexFree, NotSending, Order
\* The state is assigned at once, or when the channel has room.
<1>7. /\ workers' \in [Workers -> MapWorker \cup {NoWorker}]
      /\ sending' \in [uuid : Workers \cup {0}, state : WorkerState \cup {ABSENT}]
      /\ \A v \in Workers :
            /\ workers'[v].key = workers[v].key /\ workers'[v].bg = workers[v].bg
            /\ Registered(v)' <=> Registered(v)
            /\ v # w => workers'[v] = workers[v] /\ sending'.uuid # v
      /\ \/ /\ Len(chan[l]) < BufferSize /\ workers'[w].state = s /\ sending' = sending
         \/ /\ workers' = workers /\ sending' = [uuid |-> w, state |-> s]
  <2>1. CASE HasRoom(chan[l])
    <3>1. workers' = [workers EXCEPT ![w].state = s] /\ sending' = sending
      BY <2>1 DEF setState
    <3>. QED  BY <1>2, <1>6, <2>1, <3>1, StateAssigned DEF IInv, TypeOK, HasRoom
  <2>2. CASE ~HasRoom(chan[l])
    <3>1. workers' = workers /\ sending' = [uuid |-> w, state |-> s]
      BY <2>2 DEF setState
    <3>. QED  BY <1>2, <3>1 DEF IInv, TypeOK, Registered
  <2>. QED  BY <2>1, <2>2
<1>8. /\ Order(w)' = s
      /\ \A v \in Workers \ {w} : Order(v)' = Order(v)
  BY <1>6, <1>7 DEF Order
<1>9. \A v \in Workers \ {w} : Registered(v) => workers[v].bg # l /\ workers[v].bg \in Loops
  BY <1>1, RegisteredType DEF IInv, Owners
<1>10. TypeOK'
  <2>1. \A k \in Loops : Len(chan'[k]) <= BufferSize + 1
    <3>1. Len(c) <= BufferSize + 1
      BY <1>1, <1>3, BufferAssumption
    <3>. QED  BY <1>5, <3>1 DEF IInv, TypeOK
  <2>. QED  BY <1>4, <1>5, <1>7, <2>1 DEF IInv, TypeOK
<1>11. Owners'
  <2>1. ASSUME NEW k \in Loops, loop[k].pc = "new"
        PROVE  k # l
    BY <2>1 DEF IInv, Owners
  <2>. QED  BY <1>4, <1>5, <1>7, <2>1 DEF IInv, Owners
<1>12. Places'
  BY <1>4 DEF IInv, Places
<1>13. Sends'
  <2>1. \A k \in Loops : ~(Len(chan[k]) > BufferSize)
    BY DEF IInv, Sends
  <2>2. CASE Len(chan[l]) < BufferSize /\ workers'[w].state = s /\ sending' = sending
    <3>1. ~(Len(c) > BufferSize)
      BY <1>1, <1>3, <2>2, BufferAssumption
    <3>2. MutexFree'
      BY <2>2 DEF MutexFree
    <3>. QED  BY <1>5, <2>1, <3>1, <3>2 DEF Sends
  <2>3. CASE workers' = workers /\ sending' = [uuid |-> w, state |-> s]
    <3>1. ~MutexFree' /\ sending'.uuid = w /\ sending'.state = s
      BY <2>3, WorkersAssumption DEF MutexFree, NotSending
    <3>. QED  BY <1>5, <2>1, <2>3, <3>1 DEF Sends, Ordered
  <2>. QED  BY <1>7, <2>2, <2>3
<1>14. Newest'
  <2>. SUFFICES ASSUME NEW v \in Workers, Registered(v)
                PROVE  WorksOn(chan'[workers[v].bg], loop[workers[v].bg], Order(v)')
    BY <1>4, <1>7 DEF Newest
  <2>1. CASE v = w
    BY <1>3, <1>5, <1>8, <2>1 DEF WorksOn
  <2>2. CASE v # w
    BY <1>5, <1>8, <1>9, <2>2 DEF IInv, Newest
  <2>. QED  BY <2>1, <2>2
<1>15. \A v \in Workers : workers'[v].state \in {IDLE, RUN} => workers[v].state \in {IDLE, RUN}
  BY <1>2, <1>7
<1>16. Settled'
  <2>. SUFFICES ASSUME NEW v \in Workers, workers[v].state \in {IDLE, RUN}
                PROVE  Calm(chan'[workers[v].bg], loop[workers[v].bg])
    BY <1>4, <1>7, <1>15 DEF Settled
  <2>1. Calm(chan[workers[v].bg], loop[workers[v].bg])
    BY DEF IInv, Settled
  <2>2. CASE v = w
    <3>1. WorksOn(chan[l], loop[l], workers[w].state)
      BY <1>6 DEF IInv, Newest
    <3>2. loop[l].pc = "recv"
      BY <2>1, <2>2, <3>1 DEF Calm, WorksOn
    <3>3. \A i \in 1 .. Len(chan[l]) : chan[l][i] \in {IDLE, RUN}
      <4>1. chan[l] # <<>> => chan[l][Len(chan[l])] = workers[w].state
        BY <3>1 DEF WorksOn, Last
      <4>2. chan[l] = <<>> => Len(chan[l]) = 0
        BY EmptySeq
      <4>3. ASSUME NEW i \in 1 .. Len(chan[l])
            PROVE  i < Len(chan[l]) \/ (i = Len(chan[l]) /\ chan[l] # <<>>)
        BY <1>1, <4>2
      <4>. QED  BY <2>1, <2>2, <4>1, <4>3 DEF Calm
    <3>4. \A i \in 1 .. Len(c) : i < Len(c) => c[i] \in {IDLE, RUN}
      BY <1>1, <1>3, <3>3
    <3>. QED  BY <1>5, <2>2, <3>2, <3>4, <1>1 DEF Calm
  <2>3. CASE v # w
    <3>1. Registered(v)
      BY RegisteredType DEF IInv
    <3>. QED  BY <1>5, <1>9, <2>1, <2>3, <3>1
  <2>. QED  BY <2>2, <2>3
<1>17. HasKeys' /\ SameKeys'
  BY <1>4, <1>7, <1>15, HandlerKeys
<1>. QED  BY <1>10, <1>11, <1>12, <1>13, <1>14, <1>16, <1>17 DEF IInv

\* The blocked handler assigns what it has sent.
LEMMA FinishKeeps == ASSUME IInv, finishSetState PROVE IInv'
<1>. DEFINE w == sending.uuid
            s == sending.state
            l == workers[w].bg
<1>1. /\ ~MutexFree /\ w \in Workers /\ Ordered(workers[w].state, s)
      /\ Len(chan[l]) <= BufferSize
      /\ workers' = [workers EXCEPT ![w].state = s]
      /\ sending' = NotSending
      /\ UNCHANGED <<chan, closed, loop, dryads>>
  BY DEF finishSetState, IInv, Sends
<1>2. Registered(w) /\ workers[w].state \in WorkerState
  BY <1>1, RegisteredType DEF IInv, Ordered
<1>3. s \in WorkerState /\ (s \in {IDLE, RUN} => workers[w].state \in {IDLE, RUN})
  BY <1>1, <1>2, OrderedState
<1>4. /\ workers' \in [Workers -> MapWorker \cup {NoWorker}]
      /\ workers'[w].state = s
      /\ \A v \in Workers : /\ workers'[v].key = workers[v].key
                            /\ workers'[v].bg = workers[v].bg
                            /\ v # w => workers'[v] = workers[v]
                            /\ Registered(v)' <=> Registered(v)
  BY <1>1, <1>2, <1>3, StateAssigned DEF IInv
<1>5. \A v \in Workers : Order(v)' = Order(v)
  BY <1>1, <1>4, WorkersAssumption DEF Order, NotSending
<1>6. TypeOK'
  BY <1>1, <1>4 DEF IInv, TypeOK, NotSending
<1>7. Owners'
  BY <1>1, <1>4 DEF IInv, Owners
<1>8. Places'
  BY <1>1 DEF IInv, Places
<1>9. Sends'
  <2>1. \A k \in Loops : ~(Len(chan[k]) > BufferSize)
    <3>1. \A k \in Loops : Len(chan[k]) > BufferSize => k = l
      BY DEF IInv, Sends
    <3>2. l \in Loops
      BY <1>1, <1>2, RegisteredType DEF IInv
    <3>3. Len(chan[l]) \in Nat
      BY <3>2, LenProperties DEF IInv, TypeOK
    <3>. QED  BY <1>1, <3>1, <3>3, BufferAssumption
  <2>. QED  BY <1>1, <2>1 DEF Sends, MutexFree
<1>10. Newest'
  BY <1>1, <1>4, <1>5 DEF IInv, Newest
<1>11. \A v \in Workers : workers'[v].state \in {IDLE, RUN} => workers[v].state \in {IDLE, RUN}
  BY <1>3, <1>4
<1>12. Settled'
  BY <1>1, <1>4, <1>11 DEF IInv, Settled
<1>13. HasKeys' /\ SameKeys'
  BY <1>1, <1>4, <1>11, HandlerKeys
<1>. QED  BY <1>6, <1>7, <1>8, <1>9, <1>10, <1>12, <1>13 DEF IInv

\* The first goroutine of a worker has nothing to do.
LEMMA RegisterNewKeeps ==
    ASSUME IInv, NEW w \in Workers, NEW l \in Loops, RegisterNew(w, l) PROVE IInv'
<1>. DEFINE m == [state |-> MAINTENANCE, key |-> NoKey, bg |-> l]
            new == [NewLoop EXCEPT !.uuid = w, !.pc = "recv"]
<1>1. /\ MutexFree /\ ~Registered(w) /\ loop[l].pc = "new"
      /\ workers' = [workers EXCEPT ![w] = m]
      /\ loop' = [loop EXCEPT ![l] = new]
      /\ UNCHANGED <<chan, closed, sending, dryads>>
  BY DEF RegisterNew
<1>2. m \in MapWorker /\ m.state = MAINTENANCE /\ m.key = NoKey /\ m.bg = l /\ m # NoWorker
  BY NoWorkerApart DEF MapWorker, WorkerState
<1>3. new \in LoopRecord /\ new.uuid = w /\ new.pc = "recv" /\ ~new.err
  BY DEF NewLoop, LoopRecord, PCs
<1>. HIDE DEF m, new
<1>4. /\ workers'[w] = m /\ loop'[l] = new
      /\ \A v \in Workers \ {w} : workers'[v] = workers[v]
      /\ \A k \in Loops \ {l} : loop'[k] = loop[k]
      /\ chan[l] = <<>> /\ ~closed[l] /\ loop[l].uuid = 0
  BY <1>1 DEF IInv, TypeOK, Owners
<1>5. /\ \A v \in Workers : Registered(v) => workers[v].bg # l /\ workers[v].bg \in Loops /\ v # w
      /\ \A v \in Workers \ {w} : Registered(v)' <=> Registered(v)
      /\ Registered(w)'
  BY <1>1, <1>2, <1>4, RegisteredType DEF IInv, Owners, Registered
<1>6. \A v \in Workers : sending.uuid # v
  BY <1>1, WorkersAssumption DEF MutexFree, NotSending
<1>7. TypeOK'
  <2>1. loop' \in [Loops -> LoopRecord]
    BY <1>1, <1>3 DEF IInv, TypeOK, LoopRecord
  <2>. QED  BY <1>1, <1>2, <2>1 DEF IInv, TypeOK, LoopRecord
<1>8. Owners'
  <2>1. ASSUME NEW v \in Workers, Registered(v)'
        PROVE  /\ loop'[workers'[v].bg].uuid = v
               /\ loop'[workers'[v].bg].pc \notin {"new", "exit"}
               /\ ~closed[workers'[v].bg]
    <3>1. CASE v = w
      BY <1>2, <1>3, <1>4, <3>1
    <3>2. CASE v # w
      BY <1>4, <1>5, <2>1, <3>2 DEF IInv, Owners
    <3>. QED  BY <3>1, <3>2
  <2>2. ASSUME NEW k \in Loops
        PROVE  IF loop'[k].pc = "new" THEN chan[k] = <<>> /\ ~closed[k] /\ loop'[k].uuid = 0
               ELSE /\ loop'[k].uuid \in Workers
                    /\ ~closed[k] => /\ workers'[loop'[k].uuid] # NoWorker
                                     /\ workers'[loop'[k].uuid].bg = k
    <3>1. CASE k = l
      BY <1>2, <1>3, <1>4, <3>1
    <3>2. CASE k # l
      <4>1. ASSUME loop[k].pc # "new", ~closed[k]
            PROVE  loop[k].uuid # w
        BY <1>1, <4>1 DEF IInv, Owners
      <4>. QED  BY <1>4, <3>2, <4>1 DEF IInv, Owners, Registered
    <3>. QED  BY <3>1, <3>2
  <2>. QED  BY <1>1, <2>1, <2>2 DEF Owners, Registered
<1>9. Places'
  BY <1>3, <1>4 DEF IInv, Places, PlaceOK
<1>10. Sends'
  BY <1>1 DEF IInv, Sends, MutexFree
<1>11. Newest'
  <2>. SUFFICES ASSUME NEW v \in Workers, Registered(v)'
                PROVE  WorksOn(chan[workers'[v].bg], loop'[workers'[v].bg], Order(v)')
    BY <1>1 DEF Newest
  <2>1. CASE v = w
    BY <1>1, <1>2, <1>3, <1>4, <1>6, <2>1 DEF WorksOn, Order
  <2>2. CASE v # w
    BY <1>1, <1>4, <1>5, <2>2 DEF IInv, Newest, Order
  <2>. QED  BY <2>1, <2>2
<1>12. \A v \in Workers : workers'[v].state \in {IDLE, RUN} =>
           v # w /\ workers[v].state \in {IDLE, RUN} /\ Registered(v)
  <2>1. \A v \in Workers : workers[v].state \in {IDLE, RUN} => Registered(v)
    BY RegisteredType DEF IInv
  <2>. QED  BY <1>2, <1>4, <2>1
<1>13. Settled'
  BY <1>1, <1>4, <1>5, <1>12 DEF IInv, Settled
<1>14. ASSUME NEW k \in Loops, Prepared(k)'
       PROVE  Prepared(k) /\ k # l /\ loop[k].uuid \in Workers \ {w}
  <2>1. k # l /\ Prepared(k)
    BY <1>1, <1>3, <1>4, <1>14 DEF Prepared
  <2>2. Registered(loop[k].uuid) /\ loop[k].uuid \in Workers
    BY <2>1 DEF Prepared, IInv, Owners
  <2>. QED  BY <1>1, <2>1, <2>2
<1>15. HasKeys'
  <2>1. RunnableHasKey'
    BY <1>4, <1>12 DEF IInv, HasKeys, RunnableHasKey
  <2>. QED  BY <1>4, <1>14, <2>1 DEF IInv, HasKeys
<1>16. FirstKeys'
  <2>. SUFFICES ASSUME NEW v \in Workers, workers'[v].state \in {IDLE, RUN},
                       First(v, workers[v].bg)'
                PROVE  Accepts(v, workers'[v].key)
    BY <1>1 DEF FirstKeys, Accepts
  <2>1. First(v, workers[v].bg)
    BY <1>4, <1>12, WorkersAssumption DEF First
  <2>. QED  BY <1>4, <1>12, <2>1 DEF IInv, SameKeys, FirstKeys
<1>17. ASSUME NEW k \in Loops, Alone(k)', loop'[k].pc = "store" \/ Prepared(k)'
       PROVE  Alone(k) /\ k # l
  <2>1. k # l /\ loop[k].uuid \in Workers
    <3>1. k # l
      BY <1>3, <1>4, <1>14, <1>17
    <3>. QED  BY <1>4, <1>14, <1>17, <3>1, WorkingPlace DEF Working
  <2>. QED  BY <1>4, <1>17, <2>1, WorkersAssumption DEF Alone, First
<1>18. SameKeys'
  BY <1>1, <1>4, <1>14, <1>16, <1>17 DEF IInv, SameKeys, Accepts
<1>. QED  BY <1>7, <1>8, <1>9, <1>10, <1>11, <1>13, <1>15, <1>18 DEF IInv

\* A goroutine whose channel Deregister has closed has no worker any more.
LEMMA DeregisterKeeps == ASSUME IInv, NEW w \in Workers, Deregister(w) PROVE IInv'
<1>. DEFINE l == workers[w].bg
<1>1. /\ MutexFree /\ workers[w].state \in {MAINTENANCE, FAIL}
      /\ closed' = [closed EXCEPT ![l] = TRUE]
      /\ workers' = [workers EXCEPT ![w] = NoWorker]
      /\ UNCHANGED <<chan, loop, sending, dryads>>
  BY DEF Deregister
<1>2. Registered(w) /\ l \in Loops /\ loop[l].uuid = w /\ loop[l].pc # "new"
  BY <1>1, RegisteredType DEF IInv, Owners
<1>3. /\ workers'[w] = NoWorker /\ ~Registered(w)'
      /\ \A v \in Workers \ {w} : workers'[v] = workers[v] /\ (Registered(v)' <=> Registered(v))
      /\ closed'[l] /\ \A k \in Loops \ {l} : closed'[k] = closed[k]
  BY <1>1, <1>2 DEF IInv, TypeOK, Registered
<1>4. \A v \in Workers : Registered(v) => workers[v].bg \in Loops /\ (v # w => workers[v].bg # l)
  BY <1>2, RegisteredType DEF IInv, Owners
<1>5. TypeOK'
  BY <1>1 DEF IInv, TypeOK
<1>6. Owners'
  <2>1. ASSUME NEW v \in Workers, Registered(v)'
        PROVE  /\ loop[workers'[v].bg].uuid = v
               /\ loop[workers'[v].bg].pc \notin {"new", "exit"}
               /\ ~closed'[workers'[v].bg]
    BY <1>3, <1>4, <2>1 DEF IInv, Owners
  <2>2. ASSUME NEW k \in Loops
        PROVE  IF loop[k].pc = "new" THEN chan[k] = <<>> /\ ~closed'[k] /\ loop[k].uuid = 0
               ELSE /\ loop[k].uuid \in Workers
                    /\ ~closed'[k] => /\ workers'[loop[k].uuid] # NoWorker
                                      /\ workers'[loop[k].uuid].bg = k
    <3>1. k # l /\ ~closed[k] /\ loop[k].pc # "new" => loop[k].uuid # w
      BY DEF IInv, Owners
    <3>. QED  BY <1>2, <1>3, <3>1 DEF IInv, Owners, Registered
  <2>. QED  BY <1>1, <2>1, <2>2 DEF Owners, Registered
<1>7. Places'
  BY <1>1 DEF IInv, Places
<1>8. Sends'
  BY <1>1 DEF IInv, Sends, MutexFree
<1>9. Newest'
  BY <1>1, <1>3 DEF IInv, Newest, Order
<1>10. \A v \in Workers : workers'[v].state \in {IDLE, RUN} =>
           v # w /\ workers[v].state \in {IDLE, RUN}
  BY <1>3, NoWorkerApart
<1>11. Settled'
  BY <1>1, <1>3, <1>10 DEF IInv, Settled
<1>12. ASSUME NEW k \in Loops, Prepared(k)'
       PROVE  Prepared(k) /\ loop[k].uuid \in Workers \ {w}
  <2>1. Prepared(k) /\ k # l
    BY <1>1, <1>3, <1>12 DEF Prepared
  <2>. QED  BY <2>1 DEF Prepared, IInv, Owners
<1>13. HasKeys'
  <2>1. RunnableHasKey'
    BY <1>3, <1>10 DEF IInv, HasKeys, RunnableHasKey
  <2>. QED  BY <1>1, <1>3, <1>12, <2>1 DEF IInv, HasKeys
<1>14. FirstKeys'
  BY <1>1, <1>3, <1>10 DEF IInv, SameKeys, FirstKeys, First, Accepts
<1>15. SameKeys'
  BY <1>1, <1>3, <1>12, <1>14 DEF IInv, SameKeys, Alone, First, Accepts
<1>. QED  BY <1>5, <1>6, <1>7, <1>8, <1>9, <1>11, <1>13, <1>15 DEF IInv

-----------------------------------------------------------------------------
\* A Prepare that was given up can replace the key of a worker that can be
\* matched only if the Prepare of that key met it.
LEMMA GivenUpKeeps ==
    ASSUME IInv, NEW w \in Workers, NEW left \in DryadKeys, GivenUpGoesOn(w, left)
    PROVE  IInv'
<1>1. /\ givenup[w]
      /\ installed' = [installed EXCEPT ![w] = left]
      /\ givenup' = givenup \/ givenup' = [givenup EXCEPT ![w] = FALSE]
      /\ UNCHANGED <<workers, chan, closed, loop, sending, overlapped>>
  BY DEF GivenUpGoesOn
<1>2. \A v \in Workers : \A key : Accepts(v, key) => AcceptsThen(v, key)
  BY <1>1 DEF IInv, TypeOK, Accepts, AcceptsThen
<1>3. TypeOK'
  BY <1>1 DEF IInv, TypeOK
<1>4. Owners' /\ Places' /\ Sends' /\ Newest' /\ Settled' /\ HasKeys'
  BY <1>1 DEF IInv, Owners, Places, Sends, Newest, Settled, HasKeys, RunnableHasKey, Registered,
              MutexFree, Order, Prepared
<1>5. FirstKeys'
  BY <1>1, <1>2 DEF IInv, SameKeys, FirstKeys, First, Accepts, AcceptsThen
<1>6. \A l \in Loops : loop[l].pc \in Working => loop[l].uuid \in Workers
  BY WorkingPlace
<1>7. ASSUME NEW l \in Loops, Alone(l)
      PROVE  /\ loop[l].pc = "store" => AcceptsThen(loop[l].uuid, loop[l].key)
             /\ Prepared(l) => AcceptsThen(loop[l].uuid, workers[loop[l].uuid].key)
  BY <1>2, <1>6, <1>7 DEF IInv, SameKeys, Prepared, Working
<1>8. SameKeys'
  BY <1>1, <1>5, <1>7 DEF SameKeys, Alone, First, Prepared, Accepts, AcceptsThen
<1>. QED  BY <1>3, <1>4, <1>8 DEF IInv

-----------------------------------------------------------------------------
\* NewWorkerList: no workers, no goroutines.
LEMMA InitInv == Init => IInv
<1>. SUFFICES ASSUME Init PROVE IInv
  OBVIOUS
<1>1. /\ \A w \in Workers : workers[w] = NoWorker /\ ~Registered(w)
      /\ \A l \in Loops : chan[l] = <<>> /\ ~closed[l] /\ loop[l] = NewLoop
      /\ MutexFree
  BY DEF Init, Registered, MutexFree
<1>2. NewLoop \in LoopRecord /\ NewLoop.pc = "new" /\ NewLoop.uuid = 0 /\ ~NewLoop.err
  BY DEF NewLoop, LoopRecord, PCs
<1>3. <<>> \in Seq(WorkerState) /\ Len(<<>>) = 0
  BY EmptySeq
<1>4. TypeOK
  <2>1. chan \in [Loops -> Seq(WorkerState)] /\ \A l \in Loops : Len(chan[l]) <= BufferSize + 1
    BY <1>1, <1>3, BufferAssumption DEF Init
  <2>2. loop \in [Loops -> LoopRecord]
    BY <1>2 DEF Init
  <2>. QED  BY <2>1, <2>2 DEF Init, TypeOK, LoopRecord, NotSending, DryadKeys
<1>5. Owners /\ Newest
  BY <1>1, <1>2 DEF Owners, Newest
<1>6. Places
  BY <1>1, <1>2 DEF Places, PlaceOK
<1>7. Sends
  <2>1. ~(0 > BufferSize)
    BY BufferAssumption
  <2>. QED  BY <1>1, <1>3, <2>1 DEF Sends
<1>8. Settled /\ HasKeys /\ SameKeys
  BY <1>1, <1>2, NoWorkerApart DEF Settled, HasKeys, RunnableHasKey, SameKeys, FirstKeys, Prepared
<1>. QED  BY <1>4, <1>5, <1>6, <1>7, <1>8 DEF IInv

\* Every handler that calls setState orders a state that it may order.
LEMMA HandlerOrders ==
    ASSUME TypeOK, NEW w \in Workers,
           \/ \E changed \in BOOLEAN : RegisterAgain(w, changed)
           \/ SetFail(w)
           \/ \E state \in {IDLE, MAINTENANCE} : SetState(w, state)
           \/ TakeBestMatchingWorker(w)
           \/ \E withKeyGeneration \in BOOLEAN : PrepareWorker(w, withKeyGeneration)
    PROVE  /\ MutexFree /\ Registered(w)
           /\ \E s : Ordered(workers[w].state, s) /\ setState(w, s)
<1>1. Registered(w) <=> workers[w].state # ABSENT
  BY RegisteredType
<1>2. ASSUME NEW changed \in BOOLEAN, RegisterAgain(w, changed)
      PROVE  MutexFree /\ Registered(w) /\ \E s : Ordered(workers[w].state, s) /\ setState(w, s)
  BY <1>1, <1>2 DEF RegisterAgain, Ordered
<1>3. CASE SetFail(w)
  BY <1>1, <1>3 DEF SetFail, Ordered
<1>4. ASSUME NEW state \in {IDLE, MAINTENANCE}, SetState(w, state)
      PROVE  MutexFree /\ Registered(w) /\ \E s : Ordered(workers[w].state, s) /\ setState(w, s)
  BY <1>1, <1>4 DEF SetState, Ordered
<1>5. CASE TakeBestMatchingWorker(w)
  BY <1>1, <1>5 DEF TakeBestMatchingWorker, Ordered
<1>6. ASSUME NEW withKeyGeneration \in BOOLEAN, PrepareWorker(w, withKeyGeneration)
      PROVE  MutexFree /\ Registered(w) /\ \E s : Ordered(workers[w].state, s) /\ setState(w, s)
  BY <1>1, <1>6 DEF PrepareWorker, Ordered
<1>. QED  BY <1>2, <1>3, <1>4, <1>5, <1>6

\* A handler keeps the invariant.
LEMMA HandlerKeeps == ASSUME IInv, Handler PROVE IInv'
<1>1. PICK w \in Workers :
          \/ \E l \in Loops : RegisterNew(w, l)
          \/ \E changed \in BOOLEAN : RegisterAgain(w, changed)
          \/ SetFail(w)
          \/ \E state \in {IDLE, MAINTENANCE} : SetState(w, state)
          \/ Deregister(w)
          \/ TakeBestMatchingWorker(w)
          \/ \E withKeyGeneration \in BOOLEAN : PrepareWorker(w, withKeyGeneration)
  BY DEF Handler
<1>2. CASE \E l \in Loops : RegisterNew(w, l)
  BY <1>2, RegisterNewKeeps
<1>3. CASE Deregister(w)
  BY <1>3, DeregisterKeeps
<1>4. CASE ~Deregister(w) /\ ~\E l \in Loops : RegisterNew(w, l)
  <2>1. /\ MutexFree /\ Registered(w)
        /\ \E s : Ordered(workers[w].state, s) /\ setState(w, s)
    BY <1>1, <1>4, HandlerOrders DEF IInv
  <2>. QED  BY <2>1, SetStateKeeps
<1>. QED  BY <1>2, <1>3, <1>4

\* A step of a goroutine keeps the invariant.
LEMMA BackgroundKeeps == ASSUME IInv, NEW l \in Loops, Background(l) PROVE IInv'
BY ReceiveKeeps, StartKeeps, GetWorkerAddrKeeps, CreateClientKeeps, GenerateKeyKeeps,
   InstallKeyKeeps, SetWorkerKeyKeeps, PutInMaintenanceKeeps, CommitKeeps DEF Background

\* Every step of WorkerList keeps the invariant.
LEMMA StepInv == IInv /\ [Next]_vars => IInv'
<1>. SUFFICES ASSUME IInv, [Next]_vars PROVE IInv'
  OBVIOUS
<1>1. CASE UNCHANGED vars
  BY <1>1 DEF vars, IInv, TypeOK, Owners, Places, Sends, Newest, Settled, HasKeys, SameKeys,
              Registered, MutexFree, Order, Prepared, Alone, First, Accepts, RunnableHasKey, FirstKeys
<1>. QED  BY <1>1, HandlerKeeps, FinishKeeps, BackgroundKeeps, GivenUpKeeps DEF Next

\* The invariant holds of every state that the list of workers can be in.
LEMMA Invariance == Spec => []IInv
BY InitInv, StepInv, PTL DEF Spec

\* Every variable keeps its type: no goroutine works for a worker that never was,
\* and no channel holds more than its buffer and the state of one blocked sender
\* (setState, workers.go:503).
THEOREM TypesKept == Spec => []TypeOK
BY Invariance, PTL DEF IInv

\* checkPendingOperation and backgroundLoop lose no order, whatever handlers and
\* goroutines do between two of their steps.
THEOREM NoOrderLost == Spec => []OrderNotLost
<1>1. ASSUME IInv
      PROVE  OrderNotLost
  <2>. SUFFICES ASSUME NEW w \in Workers, workers[w].state \in {PREPARE, BUSY}, sending.uuid # w
                PROVE  LET l == workers[w].bg IN
                       IF chan[l] # <<>> THEN Last(chan[l]) = workers[w].state
                       ELSE loop[l].task = workers[w].state /\ loop[l].pc \notin {"recv", "exit"}
    BY DEF OrderNotLost
  <2>1. Registered(w) /\ Order(w) = workers[w].state
    BY <1>1, RegisteredType DEF IInv, Order
  <2>. QED  BY <1>1, <2>1 DEF IInv, Newest, WorksOn, Owners
<1>. QED  BY <1>1, Invariance, PTL

\* GetWorkerKey finds a key for every worker that a job may run on.
THEOREM RunnableKeys == Spec => []RunnableHasKey
<1>1. IInv => RunnableHasKey
  BY DEF IInv, HasKeys
<1>. QED  BY <1>1, Invariance, PTL

\* The key that AcquireWorker hands out opens the Dryad, whatever call failed and
\* whatever was overtaken before, unless the worker was registered anew while an
\* older goroutine still prepared the same Dryad, or the Prepare that installed
\* the key met one that the server had given up: that one may write its key, or
\* remove the user, at any later time (dryad.go:99, rusalka.go:64).  What makes
\* it hold otherwise is that nothing which was given up is left at the Dryad
\* when the key is installed, and that nothing is given up from then on until
\* the next Prepare (FirstKeys).
THEOREM KeysMatch == Spec => []KeyMatchesFirst
<1>1. IInv => KeyMatchesFirst
  BY DEF IInv, SameKeys, FirstKeys, First, Accepts, KeyMatchesFirst
<1>. QED  BY <1>1, Invariance, PTL

-----------------------------------------------------------------------------
wstate == [w \in Workers |-> workers[w].state]

USE DEF Abstract!MAINTENANCE, Abstract!IDLE, Abstract!RUN, Abstract!FAIL, Abstract!PREPARE,
        Abstract!BUSY, Abstract!ABSENT

\* A step that changes the state of one worker, or none, as the rest of the
\* server sees it.
LEMMA StateSeen ==
    ASSUME NEW w \in Workers, NEW s, workers'[w].state = s,
           \A v \in Workers \ {w} : workers'[v].state = workers[v].state
    PROVE  Abstract!setState(w, s)
BY DEF Abstract!setState

\* WorkerStates does not see a step that changes the state of no worker.
LEMMA NothingSeen ==
    ASSUME \A v \in Workers : workers'[v].state = workers[v].state
    PROVE  wstate' = wstate
BY DEF wstate

\* A state that a handler orders is entered by a call of the abstract interface.
LEMMA OrderSeen ==
    ASSUME TypeOK, NEW w \in Workers, NEW s, Ordered(workers[w].state, s), Abstract!setState(w, s)
    PROVE  Abstract!Next
<1>1. workers[w].state # ABSENT /\ workers[w].state \in WorkerState
  BY RegisteredType DEF Ordered
<1>2. ASSUME NEW changed \in BOOLEAN, s = Abstract!RegisterTarget(workers[w].state, changed)
      PROVE  Abstract!Next
  <2>1. Abstract!Register(w, changed)
    BY <1>2 DEF Abstract!Register, Abstract!setState
  <2>. QED  BY <2>1 DEF Abstract!Next
<1>3. CASE workers[w].state \notin {MAINTENANCE, BUSY} /\ s = FAIL
  BY <1>1, <1>3 DEF Abstract!Next, Abstract!SetFail
<1>4. ASSUME NEW state \in {IDLE, MAINTENANCE}, Abstract!SetStateActs(workers[w].state, state),
             s = Abstract!SetStateTarget(state)
      PROVE  Abstract!Next
  BY <1>1, <1>4 DEF Abstract!Next, Abstract!SetState, Abstract!Registered
<1>5. CASE workers[w].state = IDLE /\ s = RUN
  BY <1>5 DEF Abstract!Next, Abstract!Take
<1>6. CASE workers[w].state = RUN /\ s \in {PREPARE, IDLE}
  BY <1>6 DEF Abstract!Next, Abstract!PrepareWorker
<1>. QED  BY <1>2, <1>3, <1>4, <1>5, <1>6 DEF Ordered

\* A call of setState is one step of the interface: at once, or when
\* finishSetState ends it.
LEMMA SetStateSeen ==
    ASSUME IInv, NEW w \in Workers, Registered(w), NEW s,
           Ordered(workers[w].state, s), setState(w, s)
    PROVE  Abstract!Next \/ wstate' = wstate
<1>1. CASE HasRoom(chan[workers[w].bg])
  <2>1. workers' = [workers EXCEPT ![w].state = s]
    BY <1>1 DEF setState
  <2>2. s \in WorkerState
    BY OrderedState, RegisteredType DEF IInv
  <2>3. workers'[w].state = s /\ \A v \in Workers \ {w} : workers'[v].state = workers[v].state
    BY <2>1, <2>2, StateAssigned DEF IInv
  <2>. QED  BY <2>3, StateSeen, OrderSeen DEF IInv
<1>2. CASE ~HasRoom(chan[workers[w].bg])
  BY <1>2, NothingSeen DEF setState
<1>. QED  BY <1>1, <1>2

\* The end of an order is a step of WorkerStates.
LEMMA FinishSeen == ASSUME IInv, finishSetState PROVE Abstract!Next
<1>. DEFINE w == sending.uuid
            s == sending.state
<1>1. w \in Workers /\ Ordered(workers[w].state, s) /\ workers' = [workers EXCEPT ![w].state = s]
  BY DEF finishSetState, IInv, Sends
<1>2. Registered(w) /\ s \in WorkerState
  BY <1>1, RegisteredType, OrderedState DEF IInv, Ordered
<1>3. workers'[w].state = s /\ \A v \in Workers \ {w} : workers'[v].state = workers[v].state
  BY <1>1, <1>2, StateAssigned DEF IInv
<1>. QED  BY <1>1, <1>3, StateSeen, OrderSeen DEF IInv

\* A handler makes one step of the interface, or stutters.
LEMMA HandlerSeen == ASSUME IInv, Handler PROVE Abstract!Next \/ wstate' = wstate
<1>1. PICK w \in Workers :
          \/ \E l \in Loops : RegisterNew(w, l)
          \/ \E changed \in BOOLEAN : RegisterAgain(w, changed)
          \/ SetFail(w)
          \/ \E state \in {IDLE, MAINTENANCE} : SetState(w, state)
          \/ Deregister(w)
          \/ TakeBestMatchingWorker(w)
          \/ \E withKeyGeneration \in BOOLEAN : PrepareWorker(w, withKeyGeneration)
  BY DEF Handler
<1>2. ASSUME NEW l \in Loops, RegisterNew(w, l)
      PROVE  Abstract!Next
  <2>1. /\ workers[w].state = ABSENT
        /\ workers'[w].state = MAINTENANCE
        /\ \A v \in Workers \ {w} : workers'[v].state = workers[v].state
    BY <1>2, NoWorkerApart DEF RegisterNew, Registered, IInv, TypeOK
  <2>2. Abstract!setState(w, MAINTENANCE)
    BY <2>1, StateSeen
  <2>3. Abstract!RegisterTarget(workers[w].state, FALSE) = MAINTENANCE
    BY <2>1 DEF Abstract!RegisterTarget
  <2>4. Abstract!Register(w, FALSE)
    BY <2>2, <2>3 DEF Abstract!Register, Abstract!setState
  <2>. QED  BY <2>4 DEF Abstract!Next
<1>3. CASE Deregister(w)
  <2>1. /\ workers[w].state \in {MAINTENANCE, FAIL}
        /\ workers'[w].state = ABSENT
        /\ \A v \in Workers \ {w} : workers'[v].state = workers[v].state
    BY <1>3, NoWorkerApart DEF Deregister, IInv, TypeOK
  <2>2. Abstract!setState(w, ABSENT)
    BY <2>1, StateSeen
  <2>. QED  BY <2>1, <2>2 DEF Abstract!Next, Abstract!Deregister
<1>4. CASE ~Deregister(w) /\ ~\E l \in Loops : RegisterNew(w, l)
  <2>1. /\ Registered(w)
        /\ \E s : Ordered(workers[w].state, s) /\ setState(w, s)
    BY <1>1, <1>4, HandlerOrders DEF IInv
  <2>. QED  BY <2>1, SetStateSeen
<1>. QED  BY <1>2, <1>3, <1>4

\* A goroutine that was overtaken, or whose worker was deregistered, changes no
\* state; one that was not ends the preparation or the maintenance of its worker.
LEMMA BackgroundSeen ==
    ASSUME IInv, NEW l \in Loops, Background(l) PROVE Abstract!Next \/ wstate' = wstate
<1>1. CASE Commit(l)
  <2>1. CASE Overtaken(l)
    BY <1>1, <2>1, NothingSeen DEF Commit
  <2>2. CASE ~Overtaken(l)
    <3>1. loop[l].uuid \in Workers /\ loop[l].err \in BOOLEAN
      BY <1>1, <2>2, CommitFacts DEF Commit, IInv, TypeOK
    <3>2. PICK w \in Workers : w = loop[l].uuid
      BY <3>1
    <3>3. PICK ok \in BOOLEAN : ok = ~loop[l].err
      BY <3>1
    <3>4. /\ workers[w] \in MapWorker
          /\ workers[w].state \in {PREPARE, BUSY} /\ loop[l].task = workers[w].state
          /\ workers' = [workers EXCEPT ![w].state = EndState(l)]
      BY <1>1, <2>2, <3>2, CommitFacts DEF Commit
    <3>5. PICK s \in WorkerState : /\ s = EndState(l)
                                   /\ ~ok => s = FAIL
                                   /\ ok => s = IF workers[w].state = PREPARE THEN IDLE ELSE MAINTENANCE
      BY <3>3, <3>4 DEF EndState, WorkerState
    <3>6. Registered(w)
      BY <3>4, NoWorkerApart DEF Registered
    <3>7. workers'[w].state = s /\ \A v \in Workers \ {w} : workers'[v].state = workers[v].state
      BY <3>4, <3>5, <3>6, StateAssigned DEF IInv
    <3>8. Abstract!setState(w, s)
      BY <3>7, StateSeen
    <3>9. CASE workers[w].state = PREPARE
      <4>1. Abstract!PrepareDone(w, ok)
        BY <3>5, <3>8, <3>9 DEF Abstract!PrepareDone
      <4>. QED  BY <4>1 DEF Abstract!Next
    <3>10. CASE workers[w].state = BUSY
      <4>1. Abstract!MaintenanceDone(w, ok)
        BY <3>5, <3>8, <3>10 DEF Abstract!MaintenanceDone
      <4>. QED  BY <4>1 DEF Abstract!Next
    <3>. QED  BY <3>4, <3>9, <3>10
  <2>. QED  BY <2>1, <2>2
<1>2. CASE SetWorkerKey(l)
  <2>1. CASE Registered(loop[l].uuid)
    <3>1. workers' = [workers EXCEPT ![loop[l].uuid].key = loop[l].key]
      BY <1>2, <2>1 DEF SetWorkerKey
    <3>2. loop[l].uuid \in Workers /\ workers[loop[l].uuid] \in MapWorker
      BY <1>2, <2>1, WorkingPlace, RegisteredType DEF SetWorkerKey, Working, IInv
    <3>3. \A v \in Workers : workers'[v].state = workers[v].state
      BY <3>1, <3>2 DEF IInv, TypeOK, MapWorker
    <3>. QED  BY <3>3, NothingSeen
  <2>2. CASE ~Registered(loop[l].uuid)
    BY <1>2, <2>2, NothingSeen DEF SetWorkerKey
  <2>. QED  BY <2>1, <2>2
<1>3. CASE ~Commit(l) /\ ~SetWorkerKey(l)
  <2>1. workers' = workers
    BY <1>3 DEF Background, Receive, Start, GetWorkerAddr, CreateClient, GenerateKey, InstallKey,
                PutInMaintenance
  <2>. QED  BY <2>1, NothingSeen
<1>. QED  BY <1>1, <1>2, <1>3

\* The goroutines, channels and keys behind the list of workers do what the rest
\* of the server is told of it: every step of the code is one transition of
\* WorkerStates, or invisible.
THEOREM Refinement == Spec => ImplementsWorkerStates
<1>1. Init => Abstract!Init
  BY DEF Init, Abstract!Init, NoWorker
<1>2. IInv /\ [Next]_vars => [Abstract!Next]_wstate
  <2>. SUFFICES ASSUME IInv, [Next]_vars PROVE Abstract!Next \/ wstate' = wstate
    OBVIOUS
  <2>1. CASE UNCHANGED vars
    BY <2>1 DEF vars, wstate
  <2>2. ASSUME NEW w \in Workers, NEW left \in DryadKeys, GivenUpGoesOn(w, left)
        PROVE  wstate' = wstate
    BY <2>2 DEF GivenUpGoesOn, wstate
  <2>. QED  BY <2>1, <2>2, HandlerSeen, FinishSeen, BackgroundSeen DEF Next
<1>. QED  BY <1>1, <1>2, Invariance, PTL DEF Spec, ImplementsWorkerStates, Abstract!Spec, wstate
=============================================================================
