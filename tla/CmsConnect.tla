------------------------------ MODULE CmsConnect ------------------------------
(***************************************************************************)
(* cmsConnect() of lib/cmsconnect.c: the non-blocking connect() to one CMS *)
(* after another, given CONNECT_TIMEOUT seconds each, against a network    *)
(* that may answer late, refuse, or not answer.  One socket per attempt.   *)
(***************************************************************************)
EXTENDS Integers

CONSTANT NHost      \* hosts in the list: one attempt each

Try == 1 .. NHost

VARIABLES
    at,        \* where the process is
    cur,       \* the number of the current attempt
    sock,      \* sock[i]: the descriptor of attempt i: "none", "open", "closed"
    link,      \* link[i]: its connection: "none", "pending", "up", "refused"
    blocking   \* the current socket is in blocking mode

vars == <<at, cur, sock, link, blocking>>

Connecting == {"socket", "resolve", "connect", "wait", "check", "giveup", "restore"}

Init == /\ at = "turn" /\ cur = 1
        /\ sock = [i \in Try |-> "none"]
        /\ link = [i \in Try |-> "none"]
        /\ blocking = TRUE
-----------------------------------------------------------------------------
(* The network                                                             *)

Accept(i) == /\ link[i] = "pending"
             /\ link' = [link EXCEPT ![i] = "up"]
             /\ UNCHANGED <<at, cur, sock, blocking>>

\* A refusal or another error, or the reset of a connection just made.
Refuse(i) == /\ link[i] = "pending" \/ (i = cur /\ at = "check" /\ link[i] = "up")
             /\ link' = [link EXCEPT ![i] = "refused"]
             /\ UNCHANGED <<at, cur, sock, blocking>>
-----------------------------------------------------------------------------
(* cmsConnect(); "skip" is return(-1), "connected" the socket, "failed" err() *)

\* close(): a connection that is pending or up is given up with the socket.
Release == /\ sock' = [sock EXCEPT ![cur] = "closed"]
           /\ link' = [link EXCEPT ![cur] = "none"]

CreateSocket ==
    /\ at = "socket"
    /\ \/ at' = "resolve" /\ sock' = [sock EXCEPT ![cur] = "open"] /\ blocking' = TRUE
       \/ at' = "failed" /\ UNCHANGED <<sock, blocking>>
    /\ UNCHANGED <<cur, link>>

\* Every write() of a message to the client raises SIGPIPE if it has hung up: the
\* one after socket(), and those that tell of success or failure.
ClientGone ==
    /\ at \in {"resolve", "connect", "check", "giveup"}
    /\ at' = "killed"
    /\ UNCHANGED <<cur, sock, link, blocking>>

\* An unknown host: the socket stays open.
Resolve ==
    /\ at = "resolve"
    /\ \/ at' = "connect" /\ blocking' = FALSE
       \/ at' = "skip" /\ UNCHANGED blocking
    /\ UNCHANGED <<cur, sock, link>>

\* connect() succeeds at once, is EINPROGRESS, or fails.
Connect ==
    /\ at = "connect"
    /\ \/ at' = "restore" /\ link' = [link EXCEPT ![cur] = "up"] /\ UNCHANGED sock
       \/ at' = "wait" /\ link' = [link EXCEPT ![cur] = "pending"] /\ UNCHANGED sock
       \/ at' = "skip" /\ Release
    /\ UNCHANGED <<cur, blocking>>

\* select() finds the socket writable ...
Ready == /\ at = "wait"
         /\ link[cur] \in {"up", "refused"}
         /\ at' = "check"
         /\ UNCHANGED <<cur, sock, link, blocking>>

\* ... or CONNECT_TIMEOUT is over; an answer may still come before close().
TimedOut == /\ at = "wait"
            /\ link[cur] = "pending"
            /\ at' = "giveup"
            /\ UNCHANGED <<cur, sock, link, blocking>>

ReleaseNot == UNCHANGED <<sock, link>>          \* mutant: close() is missing
Abandon == Release

GiveUp == /\ at = "giveup"
          /\ Abandon
          /\ at' = "skip"
          /\ UNCHANGED <<cur, blocking>>

\* getsockopt(SO_ERROR): it may fail itself; after an error the socket stays open.
CheckStatus ==
    /\ at = "check"
    /\ \/ at' = "skip" /\ Release
       \/ link[cur] = "refused" /\ at' = "skip" /\ UNCHANGED <<sock, link>>
       \/ link[cur] = "up" /\ at' = "restore" /\ UNCHANGED <<sock, link>>
    /\ UNCHANGED <<cur, blocking>>

RestoreNot(b) == b                              \* mutant: O_NONBLOCK stays set
Restored(b) == TRUE

Restore == /\ at = "restore"
           /\ blocking' = Restored(blocking)
           /\ at' = "connected"
           /\ UNCHANGED <<cur, sock, link>>

Network == \E i \in Try : Accept(i) \/ Refuse(i)

Step == \/ CreateSocket \/ ClientGone \/ Resolve \/ Connect \/ Ready \/ TimedOut
        \/ GiveUp \/ CheckStatus \/ Restore
=============================================================================
