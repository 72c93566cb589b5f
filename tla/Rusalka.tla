------------------------------ MODULE Rusalka ------------------------------
(***************************************************************************)
(* The agent on a Dryad: dryad/rusalka.go with user.go, key.go, muxpi.go,  *)
(* started by cmd/dryad.  The RPC server runs every call in a goroutine of *)
(* its own, though Rusalka "is not safe for concurrent use": a call that   *)
(* the server has given up goes on here, beside the next one.  Each command*)
(* and each access to a file is a step and may fail, some of them after    *)
(* they have had a part of their effect.                                   *)
(*                                                                         *)
(* useradd, userdel, the files and the STM are external.  LEDs and display *)
(* are abstracted to the goroutines that make the LEDs blink.              *)
(***************************************************************************)
CONSTANTS
    Calls,         \* places for calls that run at the same time
    Keys           \* public keys

VARIABLES
    process,       \* of cmd/dryad: "down", "serving" RPC, or "registered"
    account,       \* the Unix account exists; the key in authorized_keys of
                   \*   its home, which may outlive it
    user,          \* borutaUser.user is not nil
    blinkers,      \* what goroutines of blinkMaintenanceLED there are
    calls          \* each call's next step, or its answer, and its key

rusalkaVars == <<process, account, user, blinkers, calls>>

-----------------------------------------------------------------------------
NoKey  == "nokey"
NoCall == [pc |-> "none", key |-> NoKey]

\* A blinker is "on" while cancelMaintenance is its cancel function, "lost"
\* when that was overwritten by the one of another blinker, "cancelled" until
\* it notices.  Only one can be on; several in one of the other states count as
\* one.
BlinkerState == {"on", "lost", "cancelled"}

CallPCs == {"none", "maintain", "cancel", "delete", "userdel", "add", "useradd",
            "update", "open", "write", "unlinked", "ok", "err"}

Running(c) == calls[c].pc \notin {"none", "ok", "err"}

\* The key that sshd accepts for the account.
Accepted == IF account.exists THEN account.key ELSE NoKey

RusalkaInit ==
    /\ process = "down"
    /\ account = [exists |-> FALSE, key |-> NoKey]
    /\ user = FALSE
    /\ blinkers = {}
    /\ calls = [c \in Calls |-> NoCall]

\* The call c goes on at pc; an answer carries no key.
Goto(c, pc) ==
    calls' = [calls EXCEPT ![c] = [pc |-> pc, key |-> IF pc \in {"ok", "err"} THEN NoKey ELSE @.key]]

-----------------------------------------------------------------------------
(***************************************************************************)
(* PutInMaintenance: print the message, then start to blink.               *)
(***************************************************************************)
PrintFails(c) ==
    /\ calls[c].pc = "maintain"
    /\ Goto(c, "err")
    /\ UNCHANGED <<process, account, user, blinkers>>

\* cancelMaintenance is overwritten; whoever was blinking is not cancelled.
StartBlinking(c) ==
    /\ calls[c].pc = "maintain"
    /\ blinkers' = blinkers \cup {"on"} \cup (IF "on" \in blinkers THEN {"lost"} ELSE {})
    /\ Goto(c, "ok")
    /\ UNCHANGED <<process, account, user>>

\* blinkMaintenanceLED finds its context cancelled after a round.
BlinkerEnds ==
    /\ "cancelled" \in blinkers
    /\ blinkers' = blinkers \ {"cancelled"}
    /\ UNCHANGED <<process, account, user, calls>>

-----------------------------------------------------------------------------
(***************************************************************************)
(* Prepare: stop blinking; delete, add and update the user; install the    *)
(* key.                                                                    *)
(***************************************************************************)
StopBlinkingSkipped(c) ==
    /\ calls[c].pc = "cancel"
    /\ Goto(c, "delete")
    /\ UNCHANGED <<process, account, user, blinkers>>

StopBlinking(c) ==
    /\ calls[c].pc = "cancel"
    /\ blinkers' = (blinkers \ {"on"}) \cup (IF "on" \in blinkers THEN {"cancelled"} ELSE {})
    /\ Goto(c, "delete")
    /\ UNCHANGED <<process, account, user>>

\* update: user.Lookup finds the account, does not, or fails; found says what
\* it reports.  Only an account that exists is found.
Lookup(found) == (found => account.exists) /\ user' = found

\* delete: nothing to do without the account.
DeleteLookup(c) ==
    /\ calls[c].pc = "delete"
    /\ Lookup(account.exists)
    /\ Goto(c, IF account.exists THEN "userdel" ELSE "add")
    /\ UNCHANGED <<process, account, blinkers>>

\* A lookup that fails for another reason.
DeleteLookupFails(c) ==
    /\ calls[c].pc = "delete"
    /\ Lookup(FALSE)
    /\ Goto(c, "err")
    /\ UNCHANGED <<process, account, blinkers>>

\* userdel -r removes the home as well.  A file that some call has opened
\* there goes on to exist for that call alone.
UserDel(c) ==
    /\ calls[c].pc = "userdel"
    /\ account.exists
    /\ account' = [exists |-> FALSE, key |-> NoKey]
    /\ user' = FALSE
    /\ calls' = [d \in Calls |->
                    IF d = c THEN [calls[d] EXCEPT !.pc = "add"]
                    ELSE IF calls[d].pc = "write" THEN [calls[d] EXCEPT !.pc = "unlinked"]
                    ELSE calls[d]]
    /\ UNCHANGED <<process, blinkers>>

\* It may fail after it has removed the account, but not its home.
UserDelFails(c) ==
    /\ calls[c].pc = "userdel"
    /\ account' \in {account, [account EXCEPT !.exists = FALSE]}
    /\ Goto(c, "err")
    /\ UNCHANGED <<process, user, blinkers>>

\* add: nothing to do if the account is found.
AddLookup(c, found) ==
    /\ calls[c].pc = "add"
    /\ Lookup(found)
    /\ Goto(c, IF found THEN "update" ELSE "useradd")
    /\ UNCHANGED <<process, account, blinkers>>

UserAdd(c) ==
    /\ calls[c].pc = "useradd"
    /\ ~account.exists
    /\ account' = [account EXCEPT !.exists = TRUE]
    /\ Goto(c, "update")
    /\ UNCHANGED <<process, user, blinkers>>

\* It may fail after it has added the account, for want of a home.
UserAddFails(c) ==
    /\ calls[c].pc = "useradd"
    /\ account' \in {account, [account EXCEPT !.exists = TRUE]}
    /\ Goto(c, "err")
    /\ UNCHANGED <<process, user, blinkers>>

UpdateUnchecked(c, found) ==
    /\ calls[c].pc = "update"
    /\ Lookup(found)
    /\ Goto(c, "open")
    /\ UNCHANGED <<process, account, blinkers>>

Update(c, found) ==
    /\ calls[c].pc = "update"
    /\ Lookup(found)
    /\ Goto(c, IF found THEN "open" ELSE "err")
    /\ UNCHANGED <<process, account, blinkers>>

\* installKey dereferences user.  installPublicKey then truncates
\* authorized_keys, makes its directory if need be and changes owners.
OpenKeyFile(c) ==
    /\ calls[c].pc = "open"
    /\ user
    /\ account' = [account EXCEPT !.key = NoKey]
    /\ Goto(c, "write")
    /\ UNCHANGED <<process, user, blinkers>>

OpenKeyFileFails(c) ==
    /\ calls[c].pc = "open"
    /\ user
    /\ account' \in {account, [account EXCEPT !.key = NoKey]}
    /\ Goto(c, "err")
    /\ UNCHANGED <<process, user, blinkers>>

WriteKey(c, ok) ==
    /\ calls[c].pc \in {"write", "unlinked"}
    /\ account' = IF ok /\ calls[c].pc = "write" THEN [account EXCEPT !.key = calls[c].key]
                                                 ELSE account
    /\ Goto(c, IF ok THEN "ok" ELSE "err")
    /\ UNCHANGED <<process, user, blinkers>>

-----------------------------------------------------------------------------
\* The process ends, with its goroutines, and whoever waits for an answer sees
\* the connection break.  The account stays.
Die ==
    /\ process' = "down"
    /\ user' = FALSE
    /\ blinkers' = {}
    /\ calls' = [c \in Calls |-> IF calls[c] = NoCall THEN NoCall ELSE [pc |-> "err", key |-> NoKey]]
    /\ UNCHANGED account

\* installKey meets a nil user; net/rpc does not recover from the panic.
Panics(c) == calls[c].pc = "open" /\ ~user

\* main starts to serve RPC before it registers at the server.
Serve ==
    /\ process = "down"
    /\ process' = "serving"
    /\ UNCHANGED <<account, user, blinkers, calls>>

RusalkaStep(c) ==
    \/ PrintFails(c) \/ StartBlinking(c) \/ StopBlinking(c)
    \/ DeleteLookup(c) \/ DeleteLookupFails(c)
    \/ \E found \in BOOLEAN : AddLookup(c, found) \/ Update(c, found)
    \/ UserDel(c) \/ UserDelFails(c) \/ UserAdd(c) \/ UserAddFails(c)
    \/ OpenKeyFile(c) \/ OpenKeyFileFails(c) \/ \E ok \in BOOLEAN : WriteKey(c, ok)
    \/ Panics(c) /\ Die
=============================================================================
