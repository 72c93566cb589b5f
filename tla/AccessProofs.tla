---------------------------- MODULE AccessProofs ----------------------------
(***************************************************************************)
(* The key that a job hands out opens the Dryad, for any set of keys.      *)
(***************************************************************************)
EXTENDS Access, TLAPS

USE DEF MAINTENANCE, IDLE, RUN, FAIL, PREPARE, BUSY, ABSENT,
        WL!MAINTENANCE, WL!IDLE, WL!RUN, WL!FAIL, WL!PREPARE, WL!BUSY, WL!ABSENT

CallState == [pc : CallPCs, key : Keys \cup {NoKey}]

WorkerType == wstate \in [{Worker} -> WorkerState \cup {ABSENT}]

\* The goroutine waits for a call exactly while it works on an order; the worker
\* is in the state that was ordered, unless another order has overtaken it.
Orders ==
    /\ bg = NoOrder <=> calls[Current] = NoCall
    /\ bg.task = ABSENT => bg = NoOrder
    /\ bg.task # ABSENT /\ ~bg.overtaken => State = bg.task
    /\ State \in {IDLE, RUN} => bg = NoOrder
    /\ Running(Current) => calls[Current].key = bg.key
    /\ calls[Current].pc = "maintain" => bg.task = BUSY

\* If the last call has begun alone, no call runs beside it, and none when the
\* Dryad has been prepared.
OneRuns ==
    ~overlapped =>
        /\ calls[Current] # NoCall => ~Running(GivenUp)
        /\ State \in {IDLE, RUN} => ~Running(GivenUp)

\* What the place of a call in Prepare says of the Dryad.
PlaceOK(c) ==
    /\ calls[c].pc \in {"delete", "userdel", "add", "useradd", "update", "open", "write"} =>
           "on" \notin blinkers
    /\ calls[c].pc \in {"update", "open", "write"} => account.exists
    /\ calls[c].pc = "open" => user
    /\ calls[c].pc # "unlinked"

Places == ~overlapped => \A c \in Calls : PlaceOK(c)

\* A Prepare that has succeeded has left its key, and nobody blinks.
Prepared ==
    ~overlapped /\ calls[Current].pc = "ok" /\ bg.task = PREPARE =>
        Accepted = bg.key /\ "on" \notin blinkers

IInv == /\ TypeOK /\ WorkerType /\ Orders /\ OneRuns /\ Places /\ Prepared
        /\ GrantedKeyOpens /\ PreparedStopsBlinking

-----------------------------------------------------------------------------
\* The Dryad's part of the types.
DryadType ==
    /\ account \in [exists : BOOLEAN, key : Keys \cup {NoKey}]
    /\ user \in BOOLEAN
    /\ blinkers \subseteq BlinkerState
    /\ calls \in [Calls -> CallState]

\* What a step of the call c may do to the calls: c goes on, or is answered, with
\* its own key, and the file of another one may lose its name.
CallGoesOn(c) ==
    /\ Running(c)
    /\ calls'[c].pc \notin {"none", "maintain"}
    /\ Running(c)' => calls'[c].key = calls[c].key
    /\ \A d \in Calls \ {c} :
           /\ calls'[d].key = calls[d].key
           /\ \/ calls'[d] = calls[d]
              \/ calls[d].pc = "write" /\ calls'[d].pc = "unlinked"

\* What Goto does.
LEMMA GotoFacts ==
    ASSUME calls \in [Calls -> CallState], NEW c \in Calls, Running(c),
           NEW pc \in CallPCs \ {"none", "maintain"}, Goto(c, pc)
    PROVE  /\ calls' \in [Calls -> CallState] /\ CallGoesOn(c)
           /\ calls'[c].pc = pc
           /\ pc \notin {"ok", "err"} => calls'[c].key = calls[c].key
<1>. DEFINE new == [pc |-> pc, key |-> IF pc \in {"ok", "err"} THEN NoKey ELSE calls[c].key]
<1>1. /\ new \in CallState /\ new.pc = pc
      /\ pc \notin {"ok", "err"} => new.key = calls[c].key
  BY DEF CallState
<1>2. calls' = [calls EXCEPT ![c] = new]
  BY DEF Goto, CallState
<1>. HIDE DEF new
<1>3. calls' \in [Calls -> CallState] /\ calls'[c] = new /\ \A d \in Calls \ {c} : calls'[d] = calls[d]
  BY <1>1, <1>2
<1>. QED  BY <1>1, <1>3 DEF CallGoesOn, Running

\* The steps of a call but the one in which Rusalka panics.
CallStep(c) ==
    \/ PrintFails(c) \/ StartBlinking(c) \/ StopBlinking(c)
    \/ DeleteLookup(c) \/ DeleteLookupFails(c)
    \/ \E found \in BOOLEAN : AddLookup(c, found) \/ Update(c, found)
    \/ UserDel(c) \/ UserDelFails(c) \/ UserAdd(c) \/ UserAddFails(c)
    \/ OpenKeyFile(c) \/ OpenKeyFileFails(c) \/ \E ok \in BOOLEAN : WriteKey(c, ok)

\* What a step of a call establishes: its own place is right afterwards, and a
\* Prepare that succeeds has written its key into the account.
Goal(c) ==
    /\ DryadType' /\ CallGoesOn(c) /\ UNCHANGED process
    /\ PlaceOK(c) => PlaceOK(c)'
    /\ PlaceOK(c) /\ calls[c].pc # "maintain" /\ calls'[c].pc = "ok" =>
           Accepted' = calls[c].key /\ "on" \notin blinkers'

\* The account and the calls that are left when userdel has succeeded.
LEMMA UserDelGoal ==
    ASSUME DryadType, NEW c \in Calls, UserDel(c)
    PROVE  Goal(c)
<1>1. calls[c] \in CallState /\ calls[c].pc = "userdel"
  BY DEF DryadType, UserDel
<1>2. ASSUME NEW d \in Calls
      PROVE  /\ calls'[d] \in CallState
             /\ calls'[d].key = calls[d].key
             /\ IF d = c THEN calls'[d].pc = "add"
                ELSE \/ calls'[d] = calls[d]
                     \/ calls[d].pc = "write" /\ calls'[d].pc = "unlinked"
  <2>1. CASE d = c
    <3>1. calls'[d] = [calls[d] EXCEPT !.pc = "add"] /\ calls[d] \in CallState
      BY <2>1 DEF UserDel, DryadType
    <3>. QED  BY <2>1, <3>1 DEF CallState, CallPCs
  <2>2. CASE d # c /\ calls[d].pc = "write"
    <3>1. calls'[d] = [calls[d] EXCEPT !.pc = "unlinked"] /\ calls[d] \in CallState
      BY <2>2 DEF UserDel, DryadType
    <3>. QED  BY <2>2, <3>1 DEF CallState, CallPCs
  <2>3. CASE d # c /\ calls[d].pc # "write"
    <3>1. calls'[d] = calls[d]
      BY <2>3 DEF UserDel
    <3>. QED  BY <2>3, <3>1 DEF DryadType
  <2>. QED  BY <2>1, <2>2, <2>3
<1>3. calls' \in [Calls -> CallState]
  <2>1. calls' = [d \in Calls |-> calls'[d]]
    BY DEF UserDel
  <2>. QED  BY <1>2, <2>1
<1>4. CallGoesOn(c) /\ calls'[c].pc = "add"
  BY <1>1, <1>2 DEF CallGoesOn, Running
<1>5. DryadType' /\ UNCHANGED <<process, blinkers>>
  BY <1>3 DEF DryadType, UserDel
<1>. QED  BY <1>1, <1>4, <1>5 DEF Goal, PlaceOK

\* The same for every other step.
LEMMA CallGoal ==
    ASSUME DryadType, NEW c \in Calls, CallStep(c)
    PROVE  Goal(c)
<1>1. calls \in [Calls -> CallState] /\ calls[c] \in CallState
  BY DEF DryadType
\* What is left to show of a step that ends in Goto.
<1>2. ASSUME NEW pc \in CallPCs \ {"none", "maintain"}, Running(c), Goto(c, pc),
             DryadType /\ calls' \in [Calls -> CallState] => DryadType', UNCHANGED process,
             calls'[c].pc = pc => /\ PlaceOK(c) => PlaceOK(c)'
                                  /\ PlaceOK(c) /\ calls[c].pc # "maintain" /\ pc = "ok" =>
                                         Accepted' = calls[c].key /\ "on" \notin blinkers'
      PROVE  Goal(c)
  <2>1. /\ calls' \in [Calls -> CallState] /\ CallGoesOn(c)
        /\ calls'[c].pc = pc
    BY <1>1, <1>2, GotoFacts
  <2>. QED  BY <1>2, <2>1 DEF Goal
<1>3. CASE PrintFails(c)
  <2>1. Goto(c, "err") /\ UNCHANGED <<process, account, user, blinkers>> /\ Running(c)
    BY <1>3 DEF PrintFails, Running
  <2>2. DryadType /\ calls' \in [Calls -> CallState] => DryadType'
    BY <2>1 DEF DryadType
  <2>. QED  BY <1>2, <2>1, <2>2 DEF PlaceOK, CallPCs
<1>4. CASE StartBlinking(c)
  <2>1. Goto(c, "ok") /\ UNCHANGED <<process, account, user>> /\ calls[c].pc = "maintain"
    BY <1>4 DEF StartBlinking
  <2>2. DryadType /\ calls' \in [Calls -> CallState] => DryadType'
    BY <1>4, <2>1 DEF StartBlinking, DryadType, BlinkerState
  <2>. QED  BY <1>2, <2>1, <2>2 DEF PlaceOK, CallPCs, Running
<1>5. CASE StopBlinking(c)
  <2>1. Goto(c, "delete") /\ UNCHANGED <<process, account, user>> /\ calls[c].pc = "cancel"
        /\ "on" \notin blinkers'
    BY <1>5 DEF StopBlinking
  <2>2. DryadType /\ calls' \in [Calls -> CallState] => DryadType'
    BY <1>5, <2>1 DEF StopBlinking, DryadType, BlinkerState
  <2>. QED  BY <1>2, <2>1, <2>2 DEF PlaceOK, CallPCs, Running
<1>6. CASE DeleteLookup(c)
  <2>1. /\ UNCHANGED <<process, account, blinkers>> /\ calls[c].pc = "delete"
        /\ user' \in BOOLEAN
        /\ Goto(c, "userdel") \/ Goto(c, "add")
    BY <1>6 DEF DeleteLookup, Lookup, DryadType
  <2>2. DryadType /\ calls' \in [Calls -> CallState] => DryadType'
    BY <2>1 DEF DryadType
  <2>3. ASSUME NEW pc \in {"userdel", "add"}, Goto(c, pc)
        PROVE  Goal(c)
    BY <1>2, <2>1, <2>2, <2>3 DEF PlaceOK, CallPCs, Running
  <2>. QED  BY <2>1, <2>3
<1>7. CASE DeleteLookupFails(c)
  <2>1. /\ UNCHANGED <<process, account, blinkers>> /\ calls[c].pc = "delete"
        /\ user' \in BOOLEAN /\ Goto(c, "err")
    BY <1>7 DEF DeleteLookupFails, Lookup
  <2>2. DryadType /\ calls' \in [Calls -> CallState] => DryadType'
    BY <2>1 DEF DryadType
  <2>. QED  BY <1>2, <2>1, <2>2 DEF PlaceOK, CallPCs, Running
<1>8. ASSUME NEW found \in BOOLEAN, AddLookup(c, found)
      PROVE  Goal(c)
  <2>1. /\ UNCHANGED <<process, account, blinkers>> /\ calls[c].pc = "add"
        /\ user' \in BOOLEAN
        /\ (account.exists /\ Goto(c, "update")) \/ Goto(c, "useradd")
    BY <1>8 DEF AddLookup, Lookup
  <2>2. DryadType /\ calls' \in [Calls -> CallState] => DryadType'
    BY <2>1 DEF DryadType
  <2>3. CASE account.exists /\ Goto(c, "update")
    BY <1>2, <2>1, <2>2, <2>3 DEF PlaceOK, CallPCs, Running
  <2>4. CASE Goto(c, "useradd")
    BY <1>2, <2>1, <2>2, <2>4 DEF PlaceOK, CallPCs, Running
  <2>. QED  BY <2>1, <2>3, <2>4
<1>9. ASSUME NEW found \in BOOLEAN, Update(c, found)
      PROVE  Goal(c)
  <2>1. /\ UNCHANGED <<process, account, blinkers>> /\ calls[c].pc = "update"
        /\ user' \in BOOLEAN
        /\ (account.exists /\ user' /\ Goto(c, "open")) \/ Goto(c, "err")
    BY <1>9 DEF Update, Lookup
  <2>2. DryadType /\ calls' \in [Calls -> CallState] => DryadType'
    BY <2>1 DEF DryadType
  <2>3. CASE account.exists /\ user' /\ Goto(c, "open")
    BY <1>2, <2>1, <2>2, <2>3 DEF PlaceOK, CallPCs, Running
  <2>4. CASE Goto(c, "err")
    BY <1>2, <2>1, <2>2, <2>4 DEF PlaceOK, CallPCs, Running
  <2>. QED  BY <2>1, <2>3, <2>4
<1>10. CASE UserDelFails(c)
  <2>1. /\ UNCHANGED <<process, user, blinkers>> /\ calls[c].pc = "userdel" /\ Goto(c, "err")
        /\ account' \in {account, [account EXCEPT !.exists = FALSE]}
    BY <1>10 DEF UserDelFails
  <2>2. DryadType /\ calls' \in [Calls -> CallState] => DryadType'
    BY <2>1 DEF DryadType
  <2>. QED  BY <1>2, <2>1, <2>2 DEF PlaceOK, CallPCs, Running
<1>11. CASE UserAdd(c)
  <2>1. /\ UNCHANGED <<process, user, blinkers>> /\ calls[c].pc = "useradd" /\ Goto(c, "update")
        /\ account' = [account EXCEPT !.exists = TRUE]
    BY <1>11 DEF UserAdd
  <2>2. account'.exists /\ account' \in [exists : BOOLEAN, key : Keys \cup {NoKey}]
    BY <2>1 DEF DryadType
  <2>3. DryadType /\ calls' \in [Calls -> CallState] => DryadType'
    BY <2>1, <2>2 DEF DryadType
  <2>. QED  BY <1>2, <2>1, <2>2, <2>3 DEF PlaceOK, CallPCs, Running
<1>12. CASE UserAddFails(c)
  <2>1. /\ UNCHANGED <<process, user, blinkers>> /\ calls[c].pc = "useradd" /\ Goto(c, "err")
        /\ account' \in {account, [account EXCEPT !.exists = TRUE]}
    BY <1>12 DEF UserAddFails
  <2>2. DryadType /\ calls' \in [Calls -> CallState] => DryadType'
    BY <2>1 DEF DryadType
  <2>. QED  BY <1>2, <2>1, <2>2 DEF PlaceOK, CallPCs, Running
<1>13. CASE OpenKeyFile(c)
  <2>1. /\ UNCHANGED <<process, user, blinkers>> /\ calls[c].pc = "open" /\ Goto(c, "write")
        /\ account' = [account EXCEPT !.key = NoKey]
    BY <1>13 DEF OpenKeyFile
  <2>2. /\ account'.exists = account.exists
        /\ account' \in [exists : BOOLEAN, key : Keys \cup {NoKey}]
    BY <2>1 DEF DryadType
  <2>3. DryadType /\ calls' \in [Calls -> CallState] => DryadType'
    BY <2>1, <2>2 DEF DryadType
  <2>. QED  BY <1>2, <2>1, <2>2, <2>3 DEF PlaceOK, CallPCs, Running
<1>14. CASE OpenKeyFileFails(c)
  <2>1. /\ UNCHANGED <<process, user, blinkers>> /\ calls[c].pc = "open" /\ Goto(c, "err")
        /\ account' \in {account, [account EXCEPT !.key = NoKey]}
    BY <1>14 DEF OpenKeyFileFails
  <2>2. DryadType /\ calls' \in [Calls -> CallState] => DryadType'
    BY <2>1 DEF DryadType
  <2>. QED  BY <1>2, <2>1, <2>2 DEF PlaceOK, CallPCs, Running
<1>15. ASSUME NEW ok \in BOOLEAN, WriteKey(c, ok)
       PROVE  Goal(c)
  <2>1. /\ UNCHANGED <<process, user, blinkers>> /\ calls[c].pc \in {"write", "unlinked"}
        /\ account' = IF ok /\ calls[c].pc = "write" THEN [account EXCEPT !.key = calls[c].key]
                                                     ELSE account
    BY <1>15 DEF WriteKey
  <2>2. account' \in [exists : BOOLEAN, key : Keys \cup {NoKey}]
    BY <1>1, <2>1 DEF DryadType, CallState
  <2>3. DryadType /\ calls' \in [Calls -> CallState] => DryadType'
    BY <2>1, <2>2 DEF DryadType
  <2>4. CASE ok
    <3>1. Goto(c, "ok")
      BY <1>15, <2>4 DEF WriteKey
    <3>2. PlaceOK(c) => Accepted' = calls[c].key /\ "on" \notin blinkers'
      BY <2>1, <2>4 DEF PlaceOK, Accepted, DryadType
    <3>. QED  BY <1>2, <2>1, <2>3, <3>1, <3>2 DEF PlaceOK, CallPCs, Running
  <2>5. CASE ~ok
    <3>1. Goto(c, "err")
      BY <1>15, <2>5 DEF WriteKey
    <3>. QED  BY <1>2, <2>1, <2>3, <3>1 DEF PlaceOK, CallPCs, Running
  <2>. QED  BY <2>4, <2>5
<1>. QED  BY <1>3, <1>4, <1>5, <1>6, <1>7, <1>8, <1>9, <1>10, <1>11, <1>12, <1>13, <1>14, <1>15,
             UserDelGoal DEF CallStep

-----------------------------------------------------------------------------
\* There are two places for calls, and a worker whose Dryad has been prepared has
\* no order.
LEMMA TwoCalls ==
    /\ Current \in Calls /\ GivenUp \in Calls /\ Current # GivenUp
    /\ \A c \in Calls : c = Current \/ c = GivenUp
    /\ ~(NoCall.pc \notin {"none", "ok", "err"}) /\ NoCall.pc = "none" /\ NoCall.key = NoKey
    /\ NoOrder.task = ABSENT
BY CallsAssumption DEF Current, GivenUp, NoCall, NoOrder

\* What the types of the agent and of the worker's entry come to.
LEMMA Types == TypeOK => DryadType /\ State \in WorkerState \cup {ABSENT}
BY DEF TypeOK, DryadType, CallState

\* A step of a call, when it runs alone.
LEMMA CallKeeps ==
    ASSUME IInv, NEW c \in Calls, CallStep(c), UNCHANGED <<serverVars, overlapped>>
    PROVE  IInv'
<1>1. Goal(c)
  BY CallGoal, Types DEF IInv
<1>2. /\ DryadType' /\ CallGoesOn(c) /\ UNCHANGED process
      /\ UNCHANGED <<wstate, wkey, bg, jobKey, overlapped>>
      /\ State' = State
  BY <1>1 DEF Goal, serverVars, State
<1>3. TypeOK' /\ WorkerType'
  BY <1>2 DEF IInv, TypeOK, WorkerType, DryadType, CallState
<1>4. ASSUME NEW d \in Calls
      PROVE  /\ Running(d)' => Running(d) /\ calls'[d].key = calls[d].key
             /\ calls[d] = NoCall <=> calls'[d] = NoCall
             /\ calls'[d].pc = "maintain" => calls[d].pc = "maintain"
             /\ ~Running(d) => calls'[d] = calls[d]
  BY <1>2, TwoCalls DEF CallGoesOn, Running
<1>5. Orders'
  BY <1>2, <1>4, TwoCalls DEF IInv, Orders
<1>6. OneRuns'
  BY <1>2, <1>4, TwoCalls DEF IInv, OneRuns
<1>7. ASSUME ~overlapped, NEW d \in Calls \ {c}
      PROVE  ~Running(d)
  BY <1>2, <1>7, TwoCalls DEF IInv, OneRuns, CallGoesOn, Running
<1>8. Places'
  <2>. SUFFICES ASSUME ~overlapped, NEW d \in Calls PROVE PlaceOK(d)'
    BY <1>2 DEF Places
  <2>1. CASE d = c
    BY <1>1, <2>1 DEF Goal, IInv, Places
  <2>2. CASE d # c
    <3>1. calls'[d].pc \in {"none", "ok", "err"}
      BY <1>4, <1>7, <2>2 DEF Running
    <3>. QED  BY <3>1 DEF PlaceOK
  <2>. QED  BY <2>1, <2>2
<1>9. Prepared'
  <2>. SUFFICES ASSUME ~overlapped, calls'[Current].pc = "ok", bg.task = PREPARE
                PROVE  Accepted' = bg.key /\ "on" \notin blinkers'
    BY <1>2 DEF Prepared
  <2>1. CASE c = Current
    <3>1. calls[c].pc # "maintain" /\ calls[c].key = bg.key
      BY <1>2, <2>1 DEF IInv, Orders, CallGoesOn
    <3>. QED  BY <1>1, <2>1, <3>1 DEF Goal, IInv, Places
  <2>2. CASE c # Current
    <3>1. c = GivenUp /\ Running(c)
      BY <1>2, <2>2, TwoCalls DEF CallGoesOn
    <3>2. calls[Current] = NoCall
      BY <3>1 DEF IInv, OneRuns
    <3>. QED  BY <1>4, <3>2, TwoCalls
  <2>. QED  BY <2>1, <2>2
<1>10. State \in {IDLE, RUN} => overlapped
  <2>1. State \in {IDLE, RUN} => ~Running(Current)
    BY TwoCalls DEF IInv, Orders, Running
  <2>. QED  BY <1>2, <2>1, TwoCalls DEF IInv, OneRuns, CallGoesOn
<1>11. GrantedKeyOpens' /\ PreparedStopsBlinking'
  BY <1>2, <1>10 DEF GrantedKeyOpens, PreparedStopsBlinking
<1>. QED  BY <1>3, <1>5, <1>6, <1>8, <1>9, <1>11 DEF IInv

\* The Dryad's process ends.
LEMMA DieKeeps ==
    ASSUME IInv, Die, UNCHANGED <<serverVars, overlapped>>
    PROVE  IInv'
<1>1. /\ process' = "down" /\ user' = FALSE /\ blinkers' = {}
      /\ UNCHANGED <<account, wstate, wkey, bg, jobKey, overlapped>>
      /\ State' = State /\ Accepted' = Accepted
  BY DEF Die, serverVars, State, Accepted
<1>2. [pc |-> "err", key |-> NoKey] \in CallState /\ NoCall \in CallState
  BY DEF CallState, CallPCs, NoCall
<1>3. calls' = [c \in Calls |-> IF calls[c] = NoCall THEN NoCall ELSE [pc |-> "err", key |-> NoKey]]
  BY DEF Die
<1>4. /\ calls' \in [Calls -> CallState]
      /\ \A c \in Calls : /\ calls'[c].pc \in {"none", "err"}
                          /\ calls'[c] = NoCall <=> calls[c] = NoCall
                          /\ ~Running(c)'
  BY <1>2, <1>3, TwoCalls DEF Running
<1>5. TypeOK' /\ WorkerType'
  BY <1>1, <1>4 DEF IInv, TypeOK, WorkerType, CallState
<1>6. Orders' /\ OneRuns' /\ Prepared'
  BY <1>1, <1>4, TwoCalls DEF IInv, Orders, OneRuns, Prepared
<1>7. Places'
  BY <1>1, <1>4 DEF Places, PlaceOK
<1>8. GrantedKeyOpens' /\ PreparedStopsBlinking'
  BY <1>1 DEF IInv, GrantedKeyOpens, PreparedStopsBlinking
<1>. QED  BY <1>5, <1>6, <1>7, <1>8 DEF IInv

\* A step of the Dryad.
LEMMA DryadKeeps == ASSUME IInv, DryadStep PROVE IInv'
<1>0. UNCHANGED <<serverVars, overlapped>>
  BY DEF DryadStep
<1>1. ASSUME NEW c \in Calls, RusalkaStep(c)
      PROVE  IInv'
  <2>1. CallStep(c) \/ Die
    BY <1>1 DEF RusalkaStep, CallStep
  <2>. QED  BY <1>0, <2>1, CallKeeps, DieKeeps
<1>2. CASE BlinkerEnds
  <2>1. /\ blinkers' = blinkers \ {"cancelled"}
        /\ UNCHANGED <<process, account, user, calls, wstate, wkey, bg, jobKey, overlapped>>
    BY <1>0, <1>2 DEF BlinkerEnds, serverVars
  <2>. QED  BY <2>1 DEF IInv, TypeOK, WorkerType, Orders, OneRuns, Places, PlaceOK, Prepared,
               GrantedKeyOpens, PreparedStopsBlinking, State, Running, Accepted
<1>3. CASE Serve
  <2>1. /\ process' = "serving"
        /\ UNCHANGED <<account, user, blinkers, calls, wstate, wkey, bg, jobKey, overlapped>>
    BY <1>0, <1>3 DEF Serve, serverVars
  <2>. QED  BY <2>1 DEF IInv, TypeOK, WorkerType, Orders, OneRuns, Places, PlaceOK, Prepared,
               GrantedKeyOpens, PreparedStopsBlinking, State, Running, Accepted
<1>. QED  BY <1>0, <1>1, <1>2, <1>3, DieKeeps DEF DryadStep

-----------------------------------------------------------------------------
\* The end of an order makes the worker IDLE only if the order was to prepare it,
\* and nothing newer has been ordered.
LEMMA EndOrderFacts ==
    ASSUME IInv, bg # NoOrder, NEW ok \in BOOLEAN, EndOrder(ok)
    PROVE  /\ WorkerType' /\ wkey' \in Keys \cup {NoKey} /\ bg' = NoOrder
           /\ State' # RUN
           /\ State' = IDLE => ok /\ bg.task = PREPARE /\ wkey' = bg.key
<1>1. wkey \in Keys \cup {NoKey} /\ bg.key \in Keys \cup {NoKey} /\ bg' = NoOrder
  BY DEF EndOrder, IInv, TypeOK
<1>2. CASE bg.overtaken
  BY <1>1, <1>2 DEF EndOrder, IInv, Orders, WorkerType, State
<1>3. CASE ~bg.overtaken /\ bg.task = PREPARE
  BY <1>1, <1>3 DEF EndOrder, IInv, WorkerType, State, WorkerState, WL!PrepareDone, WL!setState
<1>4. CASE ~bg.overtaken /\ bg.task # PREPARE
  BY <1>1, <1>4 DEF EndOrder, IInv, WorkerType, State, WorkerState, WL!MaintenanceDone, WL!setState
<1>. QED  BY <1>2, <1>3, <1>4

\* client.Create succeeds, and the call begins.
LEMMA CallDryadKeeps ==
    ASSUME IInv, NEW key \in Keys \cup {NoKey}, CallDryad(key)
    PROVE  IInv'
<1>. DEFINE new == [pc |-> IF State = PREPARE THEN "cancel" ELSE "maintain", key |-> key]
<1>1. /\ State \in {PREPARE, BUSY} /\ bg = NoOrder
      /\ bg' = [task |-> State, key |-> key, overtaken |-> FALSE]
      /\ calls' = [calls EXCEPT ![Current] = new]
      /\ overlapped' = Running(GivenUp)
      /\ UNCHANGED <<process, account, user, blinkers, wstate, wkey, jobKey>>
      /\ State' = State
  BY DEF CallDryad, State
<1>2. /\ new \in CallState /\ new # NoCall /\ new.key = key
      /\ new.pc = IF State = PREPARE THEN "cancel" ELSE "maintain"
  BY TwoCalls DEF CallState, CallPCs
<1>. HIDE DEF new
<1>3. calls'[Current] = new /\ calls'[GivenUp] = calls[GivenUp]
  BY <1>1, TwoCalls DEF IInv, TypeOK
<1>4. TypeOK' /\ WorkerType'
  <2>1. calls' \in [Calls -> CallState]
    BY <1>1, <1>2, Types DEF IInv, DryadType
  <2>2. bg' \in [task : {ABSENT, PREPARE, BUSY}, key : Keys \cup {NoKey}, overtaken : BOOLEAN]
    BY <1>1
  <2>. QED  BY <1>1, <2>1, <2>2 DEF IInv, TypeOK, WorkerType, CallState, Running
<1>5. Orders'
  <2>1. bg' # NoOrder /\ bg'.task = State /\ ~bg'.overtaken /\ bg'.key = key
    BY <1>1 DEF NoOrder
  <2>. QED  BY <1>1, <1>2, <1>3, <2>1 DEF Orders
<1>6. Running(GivenUp)' = Running(GivenUp)
  BY <1>3 DEF Running
<1>7. OneRuns'
  BY <1>1, <1>6 DEF OneRuns
<1>8. Places'
  <2>. SUFFICES ASSUME ~overlapped', NEW c \in Calls PROVE PlaceOK(c)'
    BY DEF Places
  <2>1. CASE c = Current
    BY <1>2, <1>3, <2>1 DEF PlaceOK
  <2>2. CASE c = GivenUp
    BY <1>1, <1>3, <2>2 DEF PlaceOK, Running
  <2>. QED  BY <2>1, <2>2, TwoCalls
<1>9. Prepared'
  BY <1>2, <1>3 DEF Prepared
<1>10. GrantedKeyOpens' /\ PreparedStopsBlinking'
  BY <1>1 DEF GrantedKeyOpens, PreparedStopsBlinking
<1>. QED  BY <1>4, <1>5, <1>7, <1>8, <1>9, <1>10 DEF IInv

\* The server stops to wait for the current call, which may go on as the one that
\* it has given up.
LEMMA HangUp ==
    ASSUME IInv, UNCHANGED <<account, user, blinkers, overlapped>>,
           GiveUpCall \/ (~Running(Current) /\ calls' = [calls EXCEPT ![Current] = NoCall])
    PROVE  /\ calls' \in [Calls -> CallState]
           /\ calls'[Current] = NoCall
           /\ Running(Current) \/ calls'[GivenUp] = calls[GivenUp]
           /\ Places'
<1>1. calls \in [Calls -> CallState] /\ NoCall \in CallState
  BY Types DEF IInv, DryadType, CallState, CallPCs, NoCall
<1>2. /\ calls' \in [Calls -> CallState]
      /\ calls'[Current] = NoCall
      /\ calls'[GivenUp] = IF Running(Current) THEN calls[Current] ELSE calls[GivenUp]
  <2>1. CASE GiveUpCall
    BY <1>1, <2>1, TwoCalls DEF GiveUpCall
  <2>2. CASE ~Running(Current) /\ calls' = [calls EXCEPT ![Current] = NoCall]
    BY <1>1, <2>2, TwoCalls
  <2>. QED  BY <2>1, <2>2
<1>3. Places'
  <2>. SUFFICES ASSUME ~overlapped, NEW c \in Calls PROVE PlaceOK(c)'
    BY DEF Places
  <2>1. PlaceOK(Current) /\ PlaceOK(GivenUp)
    BY TwoCalls DEF IInv, Places
  <2>2. CASE c = Current
    BY <1>2, <2>2, TwoCalls DEF PlaceOK
  <2>3. CASE c = GivenUp
    BY <1>2, <2>1, <2>3 DEF PlaceOK
  <2>. QED  BY <2>2, <2>3, TwoCalls
<1>. QED  BY <1>2, <1>3

\* The answer of the current call has come: if it is that a Prepare has
\* succeeded, its key is stored.
LEMMA AnsweredKeeps ==
    ASSUME IInv, NEW ok \in BOOLEAN, Answered(ok)
    PROVE  IInv'
<1>1. /\ calls[Current].pc = (IF ok THEN "ok" ELSE "err") /\ ~Running(Current)
      /\ EndOrder(ok)
      /\ calls' = [calls EXCEPT ![Current] = NoCall]
      /\ UNCHANGED <<process, account, user, blinkers, jobKey, overlapped>>
      /\ Accepted' = Accepted
  BY DEF Answered, Running, Accepted
<1>2. bg # NoOrder /\ calls[Current] # NoCall
  BY <1>1, TwoCalls DEF IInv, Orders
<1>3. /\ WorkerType' /\ wkey' \in Keys \cup {NoKey} /\ bg' = NoOrder
      /\ State' # RUN
      /\ State' = IDLE => ok /\ bg.task = PREPARE /\ wkey' = bg.key
  BY <1>1, <1>2, EndOrderFacts
<1>4. /\ calls' \in [Calls -> CallState]
      /\ calls'[Current] = NoCall /\ calls'[GivenUp] = calls[GivenUp]
      /\ Places'
  BY <1>1, HangUp
<1>5. TypeOK'
  <2>1. NoOrder \in [task : {ABSENT, PREPARE, BUSY}, key : Keys \cup {NoKey}, overtaken : BOOLEAN]
    BY DEF NoOrder
  <2>2. State' \in WorkerState \cup {ABSENT}
    BY <1>3 DEF WorkerType, State
  <2>. QED  BY <1>1, <1>3, <1>4, <2>1, <2>2 DEF IInv, TypeOK, CallState
<1>6. Orders'
  BY <1>3, <1>4, TwoCalls DEF Orders, Running
<1>7. OneRuns'
  BY <1>1, <1>2, <1>4 DEF IInv, OneRuns, Running
<1>8. Prepared'
  BY <1>4, TwoCalls DEF Prepared
<1>9. GrantedKeyOpens' /\ PreparedStopsBlinking'
  BY <1>1, <1>3 DEF IInv, Prepared, GrantedKeyOpens, PreparedStopsBlinking
<1>. QED  BY <1>3, <1>4, <1>5, <1>6, <1>7, <1>8, <1>9 DEF IInv

\* The connection breaks: the order fails, and the call may go on.
LEMMA ConnectionLostKeeps == ASSUME IInv, ConnectionLost PROVE IInv'
<1>1. /\ calls[Current] # NoCall /\ GiveUpCall /\ EndOrder(FALSE)
      /\ UNCHANGED <<process, account, user, blinkers, jobKey, overlapped>>
  BY DEF ConnectionLost
<1>2. bg # NoOrder
  BY <1>1 DEF IInv, Orders
<1>3. /\ WorkerType' /\ wkey' \in Keys \cup {NoKey} /\ bg' = NoOrder
      /\ State' \notin {IDLE, RUN}
  BY <1>1, <1>2, EndOrderFacts
<1>4. calls' \in [Calls -> CallState] /\ calls'[Current] = NoCall /\ Places'
  BY <1>1, HangUp
<1>5. TypeOK'
  <2>1. NoOrder \in [task : {ABSENT, PREPARE, BUSY}, key : Keys \cup {NoKey}, overtaken : BOOLEAN]
    BY DEF NoOrder
  <2>2. State' \in WorkerState \cup {ABSENT}
    BY <1>3 DEF WorkerType, State
  <2>. QED  BY <1>1, <1>3, <1>4, <2>1, <2>2 DEF IInv, TypeOK, CallState
<1>6. Orders' /\ OneRuns' /\ Prepared'
  BY <1>3, <1>4, TwoCalls DEF Orders, OneRuns, Prepared, Running
<1>7. GrantedKeyOpens' /\ PreparedStopsBlinking'
  BY <1>3 DEF GrantedKeyOpens, PreparedStopsBlinking
<1>. QED  BY <1>3, <1>4, <1>5, <1>6, <1>7 DEF IInv

\* A call that was given up has ended.
LEMMA AnswerLostKeeps == ASSUME IInv, AnswerLost PROVE IInv'
<1>1. /\ ~Running(GivenUp)
      /\ calls' = [calls EXCEPT ![GivenUp] = NoCall]
      /\ UNCHANGED <<process, account, user, blinkers, wstate, wkey, bg, jobKey, overlapped>>
      /\ State' = State /\ Accepted' = Accepted
  BY DEF AnswerLost, serverVars, State, Accepted
<1>2. calls \in [Calls -> CallState] /\ NoCall \in CallState
  BY Types DEF IInv, DryadType, CallState, CallPCs, NoCall
<1>3. /\ calls' \in [Calls -> CallState]
      /\ calls'[GivenUp] = NoCall /\ calls'[Current] = calls[Current]
      /\ ~Running(GivenUp)' /\ Running(Current)' = Running(Current)
  BY <1>1, <1>2, TwoCalls DEF Running
<1>4. TypeOK' /\ WorkerType'
  BY <1>1, <1>3 DEF IInv, TypeOK, WorkerType, CallState
<1>5. Orders' /\ OneRuns' /\ Prepared'
  BY <1>1, <1>3 DEF IInv, Orders, OneRuns, Prepared
<1>6. Places'
  <2>. SUFFICES ASSUME ~overlapped, NEW c \in Calls PROVE PlaceOK(c)'
    BY <1>1 DEF Places
  <2>1. CASE c = Current
    BY <1>1, <1>3, <2>1 DEF IInv, Places, PlaceOK
  <2>2. CASE c = GivenUp
    BY <1>3, <2>2, TwoCalls DEF PlaceOK
  <2>. QED  BY <2>1, <2>2, TwoCalls
<1>7. GrantedKeyOpens' /\ PreparedStopsBlinking'
  BY <1>1 DEF IInv, GrantedKeyOpens, PreparedStopsBlinking
<1>. QED  BY <1>4, <1>5, <1>6, <1>7 DEF IInv

\* A step of the server that talks to no Dryad, but may change the state of the
\* worker and overtake its order.
LEMMA OrderKeeps ==
    ASSUME IInv, WorkerType', process' \in {"down", "serving", "registered"},
           UNCHANGED <<account, user, blinkers, calls, wkey, overlapped>>,
           jobKey' \in Keys \cup {NoKey}, Overtake,
           State' = IDLE => State = IDLE,
           State' = RUN => \/ State = IDLE /\ jobKey' = wkey
                           \/ State = RUN /\ jobKey' = jobKey
    PROVE  IInv'
<1>1. bg \in [task : {ABSENT, PREPARE, BUSY}, key : Keys \cup {NoKey}, overtaken : BOOLEAN]
  BY DEF IInv, TypeOK
<1>2. PICK overtaken \in BOOLEAN :
          overtaken <=> bg.overtaken \/ (bg.task # ABSENT /\ wstate' # wstate)
  OBVIOUS
<1>3. bg' = [bg EXCEPT !.overtaken = overtaken]
  BY <1>1, <1>2, Zenon DEF Overtake
<1>4. /\ bg' \in [task : {ABSENT, PREPARE, BUSY}, key : Keys \cup {NoKey}, overtaken : BOOLEAN]
      /\ bg'.task = bg.task /\ bg'.key = bg.key /\ bg'.overtaken = overtaken
  BY <1>1, <1>3
<1>5. /\ bg = NoOrder <=> bg' = NoOrder
      /\ bg'.task = ABSENT => bg' = NoOrder
      /\ bg'.task # ABSENT /\ ~bg'.overtaken => ~bg.overtaken /\ State' = State
  <2>1. bg.task = ABSENT => ~overtaken /\ bg = NoOrder
    BY <1>2 DEF IInv, Orders, NoOrder
  <2>2. bg.task = ABSENT => bg' = bg
    BY <1>1, <1>3, <2>1 DEF NoOrder
  <2>. QED  BY <1>2, <1>4, <2>1, <2>2, TwoCalls DEF State
<1>6. UNCHANGED <<Accepted, Running(Current), Running(GivenUp)>>
  BY DEF Accepted, Running
<1>7. TypeOK'
  <2>1. State' \in WorkerState \cup {ABSENT}
    BY DEF WorkerType, State
  <2>. QED  BY <1>4, <2>1 DEF IInv, TypeOK
<1>8. Orders'
  BY <1>4, <1>5, <1>6 DEF IInv, Orders
<1>9. OneRuns' /\ Prepared'
  BY <1>4, <1>6 DEF IInv, OneRuns, Prepared
<1>10. Places'
  BY DEF IInv, Places, PlaceOK
<1>11. GrantedKeyOpens' /\ PreparedStopsBlinking'
  BY <1>6 DEF IInv, GrantedKeyOpens, PreparedStopsBlinking
<1>. QED  BY <1>7, <1>8, <1>9, <1>10, <1>11 DEF IInv

\* What the transitions of WorkerStates do to the state.
LEMMA StateSet ==
    ASSUME WorkerType, NEW s \in WorkerState \cup {ABSENT}, WL!setState(Worker, s)
    PROVE  WorkerType' /\ State' = s
BY DEF WorkerType, WL!setState, State

\* The administrator, and a Dryad that registers, never make the worker IDLE.
LEMMA AdminKeeps == ASSUME IInv, AdminStep PROVE IInv'
<1>1. WorkerType' /\ State' \in {FAIL, PREPARE, BUSY}
  <2>1. CASE WL!SetFail(Worker)
    BY <2>1, StateSet DEF WL!SetFail, WorkerState, IInv
  <2>2. ASSUME NEW state \in {IDLE, MAINTENANCE}, WL!SetState(Worker, state)
        PROVE  WorkerType' /\ State' \in {FAIL, PREPARE, BUSY}
    BY <2>2 DEF WL!SetState, WL!SetStateTarget, WL!setState, WorkerState, IInv, WorkerType, State
  <2>. QED  BY <2>1, <2>2 DEF AdminStep
<1>. QED  BY <1>1, OrderKeeps DEF AdminStep, rusalkaVars, OnWorkerFail, IInv, TypeOK

\* The Dryad registers.
LEMMA RegisterKeeps == ASSUME IInv, NEW changed \in BOOLEAN, Register(changed) PROVE IInv'
<1>1. WorkerType' /\ (wstate' = wstate \/ State' \in {MAINTENANCE, PREPARE, BUSY})
  BY DEF Register, WL!Register, WL!RegisterTarget, WL!setState, WorkerState, IInv, WorkerType, State
<1>2. wstate' = wstate => State' = State /\ jobKey' = jobKey
  BY DEF Register, OnWorkerFail, State
<1>. QED  BY <1>1, <1>2, OrderKeeps DEF Register, OnWorkerFail, IInv, TypeOK

\* No order is under way, and none is given.
LEMMA NothingOvertaken ==
    ASSUME IInv, bg = NoOrder, UNCHANGED bg
    PROVE  Overtake
<1>. DEFINE O == [task : {ABSENT, PREPARE, BUSY}, key : Keys \cup {NoKey}, overtaken : BOOLEAN]
<1>1. bg.overtaken = FALSE /\ bg.task = ABSENT /\ bg \in O
  BY DEF NoOrder
<1>2. ASSUME NEW o \in O, o.overtaken = FALSE PROVE [o EXCEPT !.overtaken = FALSE] = o
  BY <1>2
<1>3. [bg EXCEPT !.overtaken = FALSE] = bg
  BY <1>1, <1>2
<1>4. (bg.overtaken \/ (bg.task # ABSENT /\ wstate' # wstate)) = FALSE
  BY <1>1
<1>. QED  BY <1>3, <1>4, Zenon DEF Overtake

\* The Dryad cannot be reached.
LEMMA CreateFailsKeeps == ASSUME IInv, CreateFails PROVE IInv'
<1>1. WorkerType' /\ State' = FAIL
  BY DEF CreateFails, WL!PrepareDone, WL!MaintenanceDone, WL!setState, WorkerState, IInv, WorkerType, State
<1>. QED  BY <1>1, OrderKeeps, NothingOvertaken DEF CreateFails, rusalkaVars, IInv, TypeOK

\* The worker that is taken has no order, and its key is handed out.
LEMMA CreateJobKeeps == ASSUME IInv, CreateJob PROVE IInv'
<1>1. WorkerType' /\ State = IDLE /\ State' = RUN
  BY DEF CreateJob, WL!Take, WL!setState, WorkerState, IInv, WorkerType, State
<1>2. bg = NoOrder
  BY <1>1 DEF IInv, Orders
<1>. QED  BY <1>1, <1>2, OrderKeeps, NothingOvertaken DEF CreateJob, rusalkaVars, IInv, TypeOK

\* The user closes the request of a job.
LEMMA CloseRequestKeeps == ASSUME IInv, CloseRequest PROVE IInv'
<1>1. WorkerType' /\ State = RUN /\ State' = PREPARE
  BY DEF CloseRequest, WL!PrepareWorker, WL!setState, WorkerState, IInv, WorkerType, State
<1>2. bg = NoOrder
  BY <1>1 DEF IInv, Orders
<1>. QED  BY <1>1, <1>2, OrderKeeps, NothingOvertaken DEF CloseRequest, rusalkaVars, IInv, TypeOK

\* A deregistered worker has no order, though a call may go on.
LEMMA DeregisterKeeps == ASSUME IInv, Deregister PROVE IInv'
<1>1. /\ WorkerType' /\ State' = ABSENT
      /\ GiveUpCall /\ bg' = NoOrder /\ wkey' = NoKey
      /\ UNCHANGED <<process, account, user, blinkers, jobKey, overlapped>>
  BY DEF Deregister, WL!Deregister, WL!setState, IInv, WorkerType, State
<1>2. calls' \in [Calls -> CallState] /\ calls'[Current] = NoCall /\ Places'
  BY <1>1, HangUp
<1>3. TypeOK'
  <2>1. NoOrder \in [task : {ABSENT, PREPARE, BUSY}, key : Keys \cup {NoKey}, overtaken : BOOLEAN]
    BY DEF NoOrder
  <2>. QED  BY <1>1, <1>2, <2>1 DEF IInv, TypeOK, CallState
<1>4. Orders' /\ OneRuns' /\ Prepared'
  BY <1>1, <1>2, TwoCalls DEF Orders, OneRuns, Prepared, Running
<1>5. GrantedKeyOpens' /\ PreparedStopsBlinking'
  BY <1>1 DEF GrantedKeyOpens, PreparedStopsBlinking
<1>. QED  BY <1>1, <1>2, <1>3, <1>4, <1>5 DEF IInv

-----------------------------------------------------------------------------
\* Neither the Dryad nor the server has been started.
LEMMA InitInv == Init => IInv
<1>. SUFFICES ASSUME Init PROVE IInv
  OBVIOUS
<1>1. /\ process = "down" /\ account = [exists |-> FALSE, key |-> NoKey] /\ user = FALSE
      /\ blinkers = {} /\ calls = [c \in Calls |-> NoCall]
      /\ wstate = [w \in {Worker} |-> ABSENT] /\ State = ABSENT
      /\ wkey = NoKey /\ bg = NoOrder /\ jobKey = NoKey /\ overlapped = FALSE
  BY DEF Init, RusalkaInit, WL!Init, State
<1>2. NoCall \in CallState
  BY DEF NoCall, CallState, CallPCs
<1>3. /\ calls \in [Calls -> CallState]
      /\ \A c \in Calls : calls[c] = NoCall /\ ~Running(c) /\ calls[c].pc = "none"
  BY <1>1, <1>2, TwoCalls DEF Running
<1>4. TypeOK /\ WorkerType
  <2>1. NoOrder \in [task : {ABSENT, PREPARE, BUSY}, key : Keys \cup {NoKey}, overtaken : BOOLEAN]
    BY DEF NoOrder
  <2>. QED  BY <1>1, <1>3, <2>1 DEF TypeOK, WorkerType, CallState
<1>. QED  BY <1>1, <1>3, <1>4, TwoCalls DEF IInv, Orders, OneRuns, Places, PlaceOK, Prepared,
             GrantedKeyOpens, PreparedStopsBlinking

\* Every step of Access keeps the invariant.
LEMMA StepInv == IInv /\ [Next]_vars => IInv'
<1>. SUFFICES ASSUME IInv, [Next]_vars PROVE IInv'
  OBVIOUS
<1>1. CASE UNCHANGED vars
  BY <1>1 DEF vars, rusalkaVars, serverVars, IInv, TypeOK, WorkerType, Orders, OneRuns, Places, PlaceOK,
              Prepared, GrantedKeyOpens, PreparedStopsBlinking, State, Running, Accepted
<1>2. CASE ServerStep
  BY <1>2, CallDryadKeeps, CreateFailsKeeps, AnsweredKeeps, ConnectionLostKeeps, AnswerLostKeeps,
     AdminKeeps, DeregisterKeeps, RegisterKeeps, CreateJobKeeps, CloseRequestKeeps DEF ServerStep
<1>. QED  BY <1>1, <1>2, DryadKeeps DEF Next

\* The invariant holds of every state that the server and its Dryad can be in.
LEMMA Invariance == Spec => []IInv
BY InitInv, StepInv, PTL DEF Spec

\* Every variable of the server and the Dryad keeps its type.
THEOREM TypesKept == Spec => []TypeOK
BY Invariance, PTL DEF IInv

\* While a worker can be taken, and while its job runs, sshd of the Dryad accepts
\* the key of AccessInfo and no other one, whatever broke and restarted before.
THEOREM KeyOpens == Spec => []GrantedKeyOpens
BY Invariance, PTL DEF IInv

\* installKey does not dereference a nil user as long as calls do not overlap.
THEOREM PanicFree == Spec => []NoPanic
<1>1. IInv => NoPanic
  BY DEF IInv, Places, PlaceOK, NoPanic, Panics
<1>. QED  BY <1>1, Invariance, PTL

\* Prepare leaves no goroutine that makes the LEDs blink and could be cancelled.
THEOREM BlinkingStopped == Spec => []PreparedStopsBlinking
BY Invariance, PTL DEF IInv
=============================================================================
