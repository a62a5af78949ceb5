------------------------------ MODULE CmsSession ------------------------------
(***************************************************************************)
(* One rmsgw process from its list of hosts to its end: the host loop of   *)
(* main() and cmsSession(), composed of cmsConnect() (CmsConnect) and the  *)
(* login (SglLogin).  The relay is only its outcome here (GatewayRelay).   *)
(***************************************************************************)
EXTENDS SglLogin

CONSTANT NHost

ASSUME HostsAssumption == NHost \in Nat

VARIABLES at, cur, sock, link, blocking,    \* as in CmsConnect
          rc                                \* what cmsSession() will return

Conn == INSTANCE CmsConnect

\* exit(0), exit(99), the exit(1) of err(), and SIGPIPE.
Gone == {"served", "fatal", "failed", "killed"}

dialogue == <<queue, open, state, rbuf, result, loopCnt, histories>>
session == <<at, cur, sock, link, blocking, rc>>
svars == <<dialogue, session>>

SInit == Init /\ Conn!Init /\ rc = "none"
-----------------------------------------------------------------------------
(* The host loop: cmsp = cmsp->next, or err() past the last host           *)

TakeHost ==
    /\ at = "turn"
    /\ at' = IF cur > NHost THEN "failed" ELSE "lookup"
    /\ UNCHANGED <<dialogue, cur, sock, link, blocking, rc>>

\* No port, no channel data, no password: ERR_SESS_FATAL.  The client is told of the
\* last; here and after the relay SIGPIPE may end the process, too.
Lookup ==
    /\ at = "lookup"
    /\ at' \in {"socket", "fatal", "killed"}
    /\ UNCHANGED <<dialogue, cur, sock, link, blocking, rc>>

ConnectStep == Conn!Step /\ UNCHANGED <<dialogue, rc>>

\* ERR_SESS_CONNECT, ERR_SESS_GWSKIP: the next host, if any.
NextHost ==
    /\ at = "skip"
    /\ at' = "turn"
    /\ cur' = cur + 1
    /\ UNCHANGED <<dialogue, sock, link, blocking, rc>>
-----------------------------------------------------------------------------
(* gateway(): login and relay                                              *)

\* The locals of sglProcess() are set, but for the line buffer: that may hold
\* what the call for the host before has left on the stack.
RefillOld == state' = state                     \* mutant: the state is kept
StartState == state' = "SGL_CALLSIGN"

BeginLogin ==
    /\ at = "connected"
    /\ at' = "login"
    /\ queue' = <<>> /\ open' = TRUE
    /\ StartState
    /\ result' = "none" /\ loopCnt' = 0
    /\ answered' = NoCode /\ greeted' = FALSE /\ asked' = NoLine
    /\ UNCHANGED <<rbuf, cur, sock, link, blocking, rc>>

LoginStep == at = "login" /\ Login /\ UNCHANGED session

FailedLoginUnset == rc                          \* mutant: rc is not set
FailedLogin == "skip"                           \* ERR_SESS_GWSKIP

\* For the relay gateway() makes the socket non-blocking.
LoginOver ==
    /\ at = "login" /\ Done
    /\ \/ state = "killed" /\ at' = "killed" /\ UNCHANGED <<rc, blocking>>
       \/ state \in Failed /\ at' = "close" /\ rc' = FailedLogin /\ UNCHANGED blocking
       \/ state \in Complete /\ at' = "relay" /\ UNCHANGED rc /\ blocking' = FALSE
    /\ UNCHANGED <<dialogue, cur, sock, link>>

\* gateway() closes the socket when it returns, cmsSession() closes it again.
RelayOver ==
    /\ at = "relay"
    /\ \/ Conn!Release /\ at' = "close" /\ rc' \in {"served", "fatal"}
       \/ at' = "killed" /\ UNCHANGED <<sock, link, rc>>
    /\ UNCHANGED <<dialogue, cur, blocking>>

EndSession ==
    /\ at = "close"
    /\ \/ Conn!Release /\ at' = rc
       \/ rc = "served" /\ at' = "killed" /\ UNCHANGED <<sock, link>>
    /\ UNCHANGED <<dialogue, cur, blocking, rc>>
-----------------------------------------------------------------------------
(* The CMS and the network                                                 *)

Talk == at = "login" /\ (Say \/ Close) /\ UNCHANGED session

HangUp == /\ at = "relay" /\ open
          /\ open' = FALSE
          /\ UNCHANGED <<queue, state, rbuf, result, loopCnt, histories>>
          /\ UNCHANGED session

Answering == Conn!Network /\ UNCHANGED <<dialogue, rc>>

Process == \/ TakeHost \/ Lookup \/ ConnectStep \/ NextHost \/ BeginLogin
           \/ LoginStep \/ LoginOver \/ EndSession

SNext == Process \/ RelayOver \/ Talk \/ HangUp \/ Answering

SessionSpec == SInit /\ [][SNext]_svars

\* The process runs on while it is not blocked, select() in cmsConnect() has a
\* timeout, and the relay ends once the CMS has closed (GatewayRelay, CloseEnds).
FairSession == /\ SessionSpec
               /\ WF_svars(Process)
               /\ WF_svars(~open /\ RelayOver)
-----------------------------------------------------------------------------
(* Properties                                                              *)

SessionTypeOK ==
    /\ at \in Conn!Connecting \cup {"turn", "lookup", "skip", "connected", "login",
                                    "relay", "close"} \cup Gone
    /\ cur \in 1 .. NHost + 1
    /\ sock \in [1 .. NHost -> {"none", "open", "closed"}]
    /\ link \in [1 .. NHost -> {"none", "pending", "up", "refused"}]
    /\ blocking \in BOOLEAN
    /\ rc \in {"none", "skip", "served", "fatal"}

\* However late the answers come: no CMS but the one the process is dealing with
\* holds a connection from it, or will get one; while it logs in and relays, that
\* connection is there; and the login has a socket that blocks, since readln()
\* takes an EAGAIN for the end of the CMS.
OneConnection ==
    /\ \A i \in 1 .. NHost : link[i] \in {"pending", "up"} => i = cur
    /\ at \in {"connected", "login", "relay"} => sock[cur] = "open" /\ link[cur] = "up"
    /\ at \in {"connected", "login"} => blocking

\* If every CMS that has accepted the connection goes away some day, the process
\* ends, whatever host hangs in connect() or in which state of the login.
ProcessEnds ==
    LET InDialogue == at \in {"login", "relay"} /\ open
    IN  (InDialogue ~> ~InDialogue) => <>(at \in Gone)
=============================================================================
