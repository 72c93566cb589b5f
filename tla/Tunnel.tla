------------------------------- MODULE Tunnel -------------------------------
(***************************************************************************)
(* tunnels/tunnels.go: a Tunnel listens on a port of the server, connects  *)
(* every client it accepts to the Dryad's sshd, and copies the data of     *)
(* both directions in two goroutines.  One goroutine, listenAndForward,    *)
(* accepts and dials, one client after another; it closes the connections  *)
(* when it returns, and not before.  Close only tells it to: it closes the *)
(* channel done and then the listener, and waits for nothing.              *)
(*                                                                         *)
(* TCP is abstracted to: a client may come as long as the listener is open,*)
(* dialling ends with or without success, and either peer may go away.     *)
(***************************************************************************)
EXTENDS Naturals

CONSTANTS
    Tunnels,    \* bound: tunnels at work or still closing at the same time
    MaxConns    \* bound: connections that a tunnel keeps at the same time

ASSUME ConnsAssumption == MaxConns \in Nat

VARIABLE tunnel

-----------------------------------------------------------------------------
Conns == 1 .. MaxConns

\* A connection is a client's socket and the one to the Dryad:
\*   "none"    there is none
\*   "open"    both are open, data is copied in both directions
\*   "half"    a peer has gone; the server's own two ends stay open
\*   "closed"  listenAndForward has closed both, forward has still to notice
ConnState == {"none", "open", "half", "closed"}

NoConns == [c \in Conns |-> "none"]

\* pc is the place of listenAndForward: at its select, in Accept, in DialTCP
\* for the client it has accepted, or returned.
Free == [pc |-> "returned", done |-> TRUE, listening |-> FALSE, conns |-> NoConns]

TunnelState == [pc : {"select", "accept", "dial", "returned"}, done : BOOLEAN,
                listening : BOOLEAN, conns : [Conns -> ConnState]]

TunnelInit == tunnel = [t \in Tunnels |-> Free]

-----------------------------------------------------------------------------
\* Create, if the port can be opened.
Create(t) ==
    /\ tunnel[t] = Free
    /\ tunnel' = [tunnel EXCEPT ![t] = [pc |-> "select", done |-> FALSE, listening |-> TRUE,
                                        conns |-> NoConns]]

\* The two steps of Close.
CloseDone(t) == tunnel' = [tunnel EXCEPT ![t].done = TRUE]

CloseListener(t) == tunnel' = [tunnel EXCEPT ![t].listening = FALSE]

-----------------------------------------------------------------------------
(***************************************************************************)
(* listenAndForward.                                                       *)
(***************************************************************************)

\* What the deferred calls leave of the connections.
CloseLastConn(conns) ==
    [c \in Conns |-> IF conns[c] # "none" /\ \A d \in Conns : d > c => conns[d] = "none"
                     THEN "closed" ELSE conns[c]]

CloseConns(conns) == [c \in Conns |-> IF conns[c] = "none" THEN "none" ELSE "closed"]

\* The select: return if done is closed, else go on to Accept.
Select(t) ==
    /\ tunnel[t].pc = "select"
    /\ tunnel' = IF tunnel[t].done
                 THEN [tunnel EXCEPT ![t].pc = "returned", ![t].conns = CloseConns(@)]
                 ELSE [tunnel EXCEPT ![t].pc = "accept"]

Accept(t) ==
    /\ tunnel[t].pc = "accept"
    /\ tunnel[t].listening
    /\ \E c \in Conns : tunnel[t].conns[c] = "none"
    /\ tunnel' = [tunnel EXCEPT ![t].pc = "dial"]

\* Accept fails: for good once the listener is closed, and now and then before
\* (an aborted client, no file descriptor left).
AcceptFails(t) ==
    /\ tunnel[t].pc = "accept"
    /\ tunnel' = [tunnel EXCEPT ![t].pc = "select"]

\* DialTCP succeeds, and the two forward goroutines start.
DialSucceeds(t, c) ==
    /\ tunnel[t].pc = "dial"
    /\ tunnel[t].conns[c] = "none"
    /\ \A d \in Conns : d < c => tunnel[t].conns[d] # "none"
    /\ tunnel' = [tunnel EXCEPT ![t].pc = "select", ![t].conns[c] = "open"]

\* DialTCP fails, and the client's socket is closed.
DialFails(t) ==
    /\ tunnel[t].pc = "dial"
    /\ tunnel' = [tunnel EXCEPT ![t].pc = "select"]

-----------------------------------------------------------------------------
\* A client or the Dryad goes away: io.Copy ends in one direction.
PeerCloses(t, c) ==
    /\ tunnel[t].conns[c] = "open"
    /\ tunnel' = [tunnel EXCEPT ![t].conns[c] = "half"]

\* forward: io.Copy fails on a socket that the server has closed itself.
ForwardEnds(t, c) ==
    /\ tunnel[t].conns[c] = "closed"
    /\ tunnel' = [tunnel EXCEPT ![t].conns[c] = "none"]

-----------------------------------------------------------------------------
\* What goes on by itself: a blocking Accept does so only when it is to fail.
LoopStep(t) ==
    \/ Select(t)
    \/ ~tunnel[t].listening /\ AcceptFails(t)
    \/ \E c \in Conns : DialSucceeds(t, c)
    \/ DialFails(t)

TunnelStep ==
    \E t \in Tunnels :
        \/ Select(t) \/ Accept(t) \/ AcceptFails(t) \/ DialFails(t)
        \/ \E c \in Conns : DialSucceeds(t, c) \/ PeerCloses(t, c) \/ ForwardEnds(t, c)
=============================================================================
