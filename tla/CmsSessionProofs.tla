-------------------------- MODULE CmsSessionProofs --------------------------
(***************************************************************************)
(* Proofs about the login (SglLogin), for every set of codes, LOOP_LIMIT   *)
(* and number of lines in flight, and about the session that contains it   *)
(* (CmsSession), for every number of hosts: a login is complete only after *)
(* a prompt and a challenge of its own CMS, and only the CMS in use has a  *)
(* connection.                                                             *)
(***************************************************************************)
EXTENDS CmsSession, TLAPS
-----------------------------------------------------------------------------
(* The login by itself                                                     *)

(***************************************************************************)
(* AnswersChallenge is not inductive: it needs that every line still on    *)
(* its way is as the CMS forms them, that the challenge is looked for only *)
(* once the callsigns were sent, and that a challenge about to be looked   *)
(* at is the one that was read last.  (The buffer is kept across the       *)
(* passes of the loop and the hosts tried.)                                *)
(***************************************************************************)
LoginInv ==
    /\ TypeOK
    /\ queue \in Seq(Formed) /\ rbuf \in Formed
    /\ ~Done => loopCnt <= LoopLimit + 1
    /\ state = "SGL_CHALLENGE" => greeted
    /\ result = "line" /\ greeted /\ HasCode(rbuf) => asked = rbuf
    /\ AnswersChallenge

LEMMA LinesFormed == NoLine \in Formed /\ Formed \subseteq Line
BY DEF NoLine, Formed, Line, Text, HasCode

LEMMA LoginInit == Init => LoginInv
<1> SUFFICES ASSUME Init PROVE LoginInv
  OBVIOUS
<1>1. rbuf \in Formed /\ {rbuf, asked} \subseteq Line
  BY LinesFormed DEF Init
<1>2. /\ queue \in Seq(Line) /\ queue \in Seq(Formed)
      /\ Len(queue) <= MaxQueue /\ loopCnt \in 0 .. LoopLimit + 2 /\ loopCnt <= LoopLimit + 1
  BY LoginAssumption DEF Init
<1>3. TypeOK
  BY <1>1, <1>2 DEF Init, TypeOK
<1> QED
  BY <1>1, <1>2, <1>3 DEF Init, LoginInv, AnswersChallenge, Complete

\* What sglProcess() does once readln() has returned: neither the line nor what
\* is on its way changes.
Acting == \/ GiveUp \/ EatCr \/ SendCallsigns \/ Nudge \/ StopNudging
          \/ Answer \/ Unexpected

LEMMA ActingKeeps == Acting => /\ UNCHANGED <<queue, open, rbuf, asked>>
                               /\ result' = "none" /\ ~Done
BY DEF Acting, GiveUp, EatCr, SendCallsigns, NotPrompt, Nudge, StopNudging, Answer,
       Unexpected, Heard, Turn, Write, cms, histories, Done

LEMMA ActingType == LoginInv /\ Acting => TypeOK' /\ (~Done => loopCnt <= LoopLimit + 1)'
<1> SUFFICES ASSUME LoginInv, Acting PROVE TypeOK' /\ (~Done => loopCnt <= LoopLimit + 1)'
  OBVIOUS
<1>1. UNCHANGED <<queue, open, rbuf, asked>> /\ result' = "none"
  BY ActingKeeps
<1>2. state' \in {"SGL_CALLSIGN", "SGL_CHALLENGE", "killed"} \cup Failed \cup Complete
  BY DEF Acting, GiveUp, EatCr, SendCallsigns, Nudge, StopNudging, Answer,
         Unexpected, Turn, Write, LoginInv, TypeOK, Failed, Complete
<1>3. loopCnt' \in 0 .. LoopLimit + 2 /\ (~Done => loopCnt <= LoopLimit + 1)'
  <2>0. LoopLimit \in Nat /\ loopCnt \in 0 .. LoopLimit + 2 /\ loopCnt <= LoopLimit + 1
    BY LoginAssumption, ActingKeeps DEF LoginInv, TypeOK
  <2>1. CASE Nudge
    BY <2>0, <2>1 DEF Nudge, TooMany
  <2>2. CASE StopNudging
    <3>1. Done' /\ loopCnt' = loopCnt + 1
      BY <2>2 DEF StopNudging, Turn, Done
    <3> QED
      BY <2>0, <3>1
  <2>3. CASE GiveUp \/ EatCr \/ SendCallsigns \/ Answer \/ Unexpected
    BY <2>0, <2>3 DEF GiveUp, EatCr, SendCallsigns, Answer, Unexpected
  <2> QED
    BY <2>1, <2>2, <2>3 DEF Acting
<1>4. answered' \in Code \cup {NoCode} /\ greeted' \in BOOLEAN
  BY DEF Acting, GiveUp, EatCr, SendCallsigns, Nudge, StopNudging, Answer,
         Unexpected, LoginInv, TypeOK, Parsed, Line, histories
<1> QED
  BY <1>1, <1>2, <1>3, <1>4 DEF LoginInv, TypeOK

LEMMA LoginKeeps == LoginInv /\ [Next]_vars => LoginInv'
<1> SUFFICES ASSUME LoginInv, [Next]_vars PROVE LoginInv'
  OBVIOUS
<1> USE DEF LoginInv
<1>1. CASE Say
  <2>1. PICK l \in Formed : queue' = Append(queue, l)
    BY <1>1 DEF Say
  <2>2. queue' \in Seq(Formed) /\ queue' \in Seq(Line) /\ Len(queue') <= MaxQueue
    BY <1>1, <2>1, LinesFormed, LoginAssumption DEF Say, TypeOK
  <2> QED
    BY <1>1, <2>2 DEF Say, TypeOK, AnswersChallenge, Done, histories
<1>2. CASE Close
  BY <1>2 DEF Close, TypeOK, AnswersChallenge, Done, histories
<1>3. CASE ReadLine
  <2>1. /\ Head(queue) \in Formed /\ Tail(queue) \in Seq(Formed)
        /\ Head(queue) \in Line /\ Tail(queue) \in Seq(Line)
        /\ Len(Tail(queue)) <= MaxQueue
    BY <1>3, LoginAssumption DEF ReadLine, TypeOK
  <2>2. TypeOK'
    BY <1>3, <2>1 DEF ReadLine, TypeOK
  <2>3. state \notin Complete /\ state' = state
    BY <1>3 DEF ReadLine, Done, Complete
  <2> QED
    BY <1>3, <2>1, <2>2, <2>3 DEF ReadLine, AnswersChallenge, Done
<1>4. CASE ReadNothing
  BY <1>4 DEF ReadNothing, cms, histories, TypeOK, AnswersChallenge, Done
<1>5. CASE Acting
  <2>1. TypeOK' /\ (~Done => loopCnt <= LoopLimit + 1)'
    BY <1>5, ActingType
  <2>2. UNCHANGED <<queue, rbuf, asked>> /\ result' = "none"
    BY <1>5, ActingKeeps
  <2>3. (state = "SGL_CHALLENGE" => greeted)'
    BY <1>5 DEF Acting, GiveUp, EatCr, SendCallsigns, Nudge, StopNudging, Answer,
                Unexpected, Turn, Write, NotPrompt, histories
  <2>4. AnswersChallenge'
    <3>1. CASE Answer
      <4>1. /\ rbuf.text \in {"challenge", "inner"} /\ answered' = Parsed(rbuf)
            /\ result = "line" /\ greeted /\ greeted' = greeted
        BY <3>1 DEF Answer, IsChallenge, Heard, Nothing, TypeOK
      <4>2. asked = rbuf /\ asked' = rbuf /\ rbuf.code \in Code
        BY <2>2, <4>1 DEF Formed, HasCode, Line
      <4> QED
        BY <4>1, <4>2 DEF AnswersChallenge, Parsed
    <3>2. CASE Acting /\ ~Answer
      BY <3>2 DEF Acting, GiveUp, EatCr, SendCallsigns, Nudge, StopNudging,
                  Unexpected, Turn, Write, Heard, Done, Complete, Failed,
                  AnswersChallenge, NotPrompt
    <3> QED
      BY <1>5, <3>1, <3>2
  <2> QED
    BY <2>1, <2>2, <2>3, <2>4
<1>6. CASE UNCHANGED vars
  BY <1>6 DEF vars, cms, histories, TypeOK, AnswersChallenge, Done
<1> QED
  BY <1>1, <1>2, <1>3, <1>4, <1>5, <1>6 DEF Next, Login, Acting

\* Every variable of the login stays in its domain; in particular no more than
\* LOOP_LIMIT + 2 lines without a prompt are listened to, whatever the CMS says.
THEOREM LoginTypeCorrect == Spec => []TypeOK
<1>1. LoginInv => TypeOK
  BY DEF LoginInv
<1> QED
  BY LoginInit, LoginKeeps, <1>1, PTL DEF Spec

\* A login taken for complete answered a prompt and has, for the challenge line
\* read last after it, computed a response - from its code, if that stands at the
\* start of the line, from no code otherwise - in a dialogue of any length.
THEOREM LoginAnswers == Spec => []AnswersChallenge
<1>1. LoginInv => AnswersChallenge
  BY DEF LoginInv
<1> QED
  BY LoginInit, LoginKeeps, <1>1, PTL DEF Spec
-----------------------------------------------------------------------------
(* The session: its connections                                            *)

(***************************************************************************)
(* OneConnection is not inductive: an attempt that is given up must leave  *)
(* no connection when the host loop turns to the next host, and a step of  *)
(* cmsConnect() relies on the socket that the steps before it have opened. *)
(***************************************************************************)
Holding == {"wait", "check", "giveup", "restore", "connected", "login", "relay"}

ConnectionInv ==
    /\ SessionTypeOK
    /\ at \notin {"turn"} \cup Gone => cur \in 1 .. NHost
    /\ at = "close" => rc \in {"skip", "served", "fatal"}
    /\ \A i \in 1 .. NHost : link[i] \in {"pending", "up"} =>
                               i = cur /\ at \in Holding \cup {"close", "killed"}
    /\ at \in Holding \cup {"resolve", "connect"} => sock[cur] = "open"
    /\ at \in {"restore", "connected", "login", "relay"} => link[cur] = "up"
    /\ at \in {"connected", "login"} => blocking

LEMMA InvImplies == ConnectionInv => OneConnection /\ SessionTypeOK
  BY DEF ConnectionInv, OneConnection, Holding

LEMMA SessionInit == SInit => ConnectionInv
  BY HostsAssumption
  DEF SInit, Conn!Init, Conn!Try, ConnectionInv, SessionTypeOK, Holding, Gone

-----------------------------------------------------------------------------
(* The network may answer at any time                                      *)

LEMMA AnsweringKeeps == ConnectionInv /\ Answering => ConnectionInv'
<1> SUFFICES ASSUME ConnectionInv, Answering PROVE ConnectionInv'
  OBVIOUS
<1>1. PICK i \in 1 .. NHost : Conn!Accept(i) \/ Conn!Refuse(i)
  BY DEF Answering, Conn!Network, Conn!Try
<1>2. UNCHANGED <<at, cur, sock, blocking, rc>>
  BY <1>1 DEF Answering, Conn!Accept, Conn!Refuse
<1>3. CASE Conn!Accept(i)
  BY <1>2, <1>3
  DEF Conn!Accept, ConnectionInv, SessionTypeOK, Holding, Gone
<1>4. CASE Conn!Refuse(i)
  <2>1. link' = [link EXCEPT ![i] = "refused"]
    BY <1>4 DEF Conn!Refuse
  <2>2. at \in {"restore", "connected", "login", "relay"} => i # cur
    BY <1>4 DEF Conn!Refuse, ConnectionInv
  <2> QED
    BY <1>2, <2>1, <2>2 DEF ConnectionInv, SessionTypeOK, Holding, Gone
<1> QED
  BY <1>1, <1>3, <1>4
-----------------------------------------------------------------------------
(* cmsConnect()                                                            *)

LEMMA ConnectKeeps == ConnectionInv /\ ConnectStep => ConnectionInv'
<1> SUFFICES ASSUME ConnectionInv, ConnectStep PROVE ConnectionInv'
  OBVIOUS
<1> USE DEF ConnectionInv, SessionTypeOK, Holding, Gone
<1>1. rc' = rc /\ cur' = cur
  BY DEF ConnectStep, Conn!Step, Conn!CreateSocket, Conn!ClientGone, Conn!Resolve, Conn!Connect,
         Conn!Ready, Conn!TimedOut, Conn!GiveUp, Conn!CheckStatus, Conn!Restore
<1>2. CASE Conn!CreateSocket
  BY <1>1, <1>2 DEF Conn!CreateSocket, Conn!Connecting
<1>9. CASE Conn!ClientGone
  BY <1>1, <1>9 DEF Conn!ClientGone
<1>3. CASE Conn!Resolve
  BY <1>1, <1>3 DEF Conn!Resolve, Conn!Connecting
<1>4. CASE Conn!Connect
  BY <1>1, <1>4 DEF Conn!Connect, Conn!Release, Conn!Connecting
<1>5. CASE Conn!Ready \/ Conn!TimedOut
  BY <1>1, <1>5 DEF Conn!Ready, Conn!TimedOut, Conn!Connecting
<1>6. CASE Conn!GiveUp
  BY <1>1, <1>6 DEF Conn!GiveUp, Conn!Abandon, Conn!Release, Conn!Connecting
<1>7. CASE Conn!CheckStatus
  BY <1>1, <1>7 DEF Conn!CheckStatus, Conn!Release, Conn!Connecting
<1>8. CASE Conn!Restore
  BY <1>1, <1>8 DEF Conn!Restore, Conn!Restored, Conn!Connecting
<1> QED
  BY <1>2, <1>3, <1>4, <1>5, <1>6, <1>7, <1>8, <1>9 DEF ConnectStep, Conn!Step
-----------------------------------------------------------------------------
(* The host loop, the login and the end of a session                       *)

LEMMA SessionKeeps == ConnectionInv /\ [SNext]_svars => ConnectionInv'
<1> SUFFICES ASSUME ConnectionInv, [SNext]_svars PROVE ConnectionInv'
  OBVIOUS
<1> USE DEF ConnectionInv, SessionTypeOK, Holding, Gone, Conn!Connecting
<1>1. CASE TakeHost
  BY <1>1, HostsAssumption DEF TakeHost
<1>2. CASE Lookup
  BY <1>2 DEF Lookup
<1>3. CASE ConnectStep
  BY <1>3, ConnectKeeps
<1>4. CASE NextHost
  BY <1>4, HostsAssumption DEF NextHost
<1>5. CASE BeginLogin
  BY <1>5 DEF BeginLogin
<1>6. CASE LoginStep \/ Talk \/ HangUp \/ UNCHANGED svars
  <2>1. UNCHANGED session
    BY <1>6 DEF LoginStep, Talk, HangUp, svars
  <2> QED
    BY <2>1 DEF session
<1>7. CASE LoginOver
  BY <1>7 DEF LoginOver, FailedLogin
<1>8. CASE RelayOver
  BY <1>8 DEF RelayOver, Conn!Release
<1>9. CASE EndSession
  BY <1>9 DEF EndSession, Conn!Release
<1>10. CASE Answering
  BY <1>10, AnsweringKeeps
<1> QED
  BY <1>1, <1>2, <1>3, <1>4, <1>5, <1>6, <1>7, <1>8, <1>9, <1>10 DEF SNext, Process

\* Whatever cmsSession() and the host loop meet, their variables stay in their
\* domains: no error path leaves a return code or a socket unset.
THEOREM SessionTypeCorrect == SessionSpec => []SessionTypeOK
<1>1. SessionSpec => []ConnectionInv
  BY SessionInit, SessionKeeps, PTL DEF SessionSpec
<1> QED
  BY <1>1, InvImplies, PTL

\* However many hosts are tried and however late they answer: no CMS but the one
\* the process deals with holds a connection from it.
THEOREM SoleConnection == SessionSpec => []OneConnection
<1>1. SessionSpec => []ConnectionInv
  BY SessionInit, SessionKeeps, PTL DEF SessionSpec
<1> QED
  BY <1>1, InvImplies, PTL
-----------------------------------------------------------------------------
(* The session: the logins to one host after another                       *)

LEMMA SessionLoginInit == SInit => LoginInv
BY LoginInit DEF SInit

LEMMA SessionLoginKeeps == LoginInv /\ [SNext]_svars => LoginInv'
<1> SUFFICES ASSUME LoginInv, [SNext]_svars PROVE LoginInv'
  OBVIOUS
<1>1. CASE UNCHANGED dialogue
  BY <1>1 DEF dialogue, histories, LoginInv, TypeOK, AnswersChallenge, Done
<1>2. CASE LoginStep \/ Talk
  BY <1>2, LoginKeeps DEF LoginStep, Talk, Next
\* The buffer still holds the last line of the host before.
<1>3. CASE BeginLogin
  <2>1. /\ queue' = <<>> /\ open' = TRUE /\ rbuf' = rbuf
        /\ state' = "SGL_CALLSIGN" /\ result' = "none" /\ loopCnt' = 0
        /\ answered' = NoCode /\ greeted' = FALSE /\ asked' = NoLine
    BY <1>3 DEF BeginLogin, StartState
  <2>2. <<>> \in Seq(Line) /\ <<>> \in Seq(Formed) /\ Len(<<>>) <= MaxQueue
    BY LoginAssumption
  <2>3. 0 \in 0 .. LoopLimit + 2 /\ 0 <= LoopLimit + 1 /\ NoLine \in Line
    BY LoginAssumption, LinesFormed
  <2>4. TypeOK'
    BY <2>1, <2>2, <2>3 DEF LoginInv, TypeOK
  <2> QED
    BY <2>1, <2>2, <2>3, <2>4 DEF LoginInv, AnswersChallenge, Complete
<1>4. CASE HangUp
  BY <1>4 DEF HangUp, histories, LoginInv, TypeOK, AnswersChallenge, Done
<1> QED
  BY <1>1, <1>2, <1>3, <1>4
  DEF SNext, Process, TakeHost, Lookup, ConnectStep, NextHost, LoginOver, EndSession,
      RelayOver, Answering, svars

\* The login's variables stay in their domains over all the hosts a process
\* tries, although the line buffer is not cleared between them.
THEOREM SessionLoginTypes == SessionSpec => []TypeOK
<1>1. LoginInv => TypeOK
  BY DEF LoginInv
<1> QED
  BY SessionLoginInit, SessionLoginKeeps, <1>1, PTL DEF SessionSpec

\* The same of every login of a process that goes from host to host: what the
\* buffer still holds of another CMS is never taken for a challenge of this one.
THEOREM SessionAnswers == SessionSpec => []AnswersChallenge
<1>1. LoginInv => AnswersChallenge
  BY DEF LoginInv
<1> QED
  BY SessionLoginInit, SessionLoginKeeps, <1>1, PTL DEF SessionSpec
=============================================================================
