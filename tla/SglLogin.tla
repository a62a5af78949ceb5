------------------------------ MODULE SglLogin ------------------------------
(***************************************************************************)
(* The secure gateway login, sglProcess() of lib/cmslogin.c: the dialogue  *)
(* in which a CMS asks for callsigns and sends a challenge, read line by   *)
(* line with readln(), against a CMS that may say anything, stall or close *)
(* the connection at any time.                                             *)
(***************************************************************************)
EXTENDS Integers, Sequences

CONSTANTS
    Code,       \* challenge codes
    LoopLimit,  \* LOOP_LIMIT (3)
    MaxQueue    \* lines in flight towards the gateway

NoCode == "no code"

ASSUME LoginAssumption == /\ NoCode \notin Code
                          /\ LoopLimit \in Nat
                          /\ MaxQueue \in Nat \ {0}

(***************************************************************************)
(* What sglProcess() tells apart in a line that ends with CR: nothing but  *)
(* the CR, the "Callsign :" prompt, a challenge, or other text.  A line    *)
(* "challenge" begins with ";SQ: " and the code; in "inner" that stands    *)
(* behind other text, or behind the LF that ended the line before if the   *)
(* CMS ends its lines with CR LF, or is not in capitals.  A CR behind an   *)
(* LF is "other".                                                          *)
(***************************************************************************)
Text == {"cr", "prompt", "challenge", "inner", "other"}
Line == [text : Text, code : Code \cup {NoCode}]
NoLine == [text |-> "other", code |-> NoCode]

Failed == {"SGL_CALLSIGNFAIL", "SGL_CHALLENGEFAIL"}
Complete == {"SGL_RESPONSESENT", "SGL_LOGINCOMPLETE"}

VARIABLES
    queue,     \* lines the CMS has sent and readln() has not returned
    open,      \* the CMS has not closed the connection
    state,     \* sgl_state; "killed" once a write() has raised SIGPIPE
    rbuf,      \* the last line read
    result,    \* what readln() returned: "line", "eof", "error", or "none"
    loopCnt,   \* loop_cnt: CRs sent to elicit the prompt
    answered,  \* history: the code the response was computed for
    greeted,   \* history: the callsigns have been sent in answer to a prompt
    asked      \* history: the last challenge line read since then

cms == <<queue, open>>
histories == <<answered, greeted, asked>>
vars == <<cms, state, rbuf, result, loopCnt, histories>>

Done == state \notin {"SGL_CALLSIGN", "SGL_CHALLENGE"}

Init ==
    /\ queue = <<>> /\ open = TRUE
    /\ state = "SGL_CALLSIGN"
    /\ rbuf = NoLine
    /\ result = "none"
    /\ loopCnt = 0
    /\ answered = NoCode /\ greeted = FALSE /\ asked = NoLine
-----------------------------------------------------------------------------
(* The CMS                                                                 *)

HasCode(l) == l.text \in {"challenge", "inner"}
Formed == {l \in Line : HasCode(l) <=> l.code # NoCode}

Say ==
    /\ open /\ ~Done
    /\ Len(queue) < MaxQueue
    /\ \E l \in Formed : queue' = Append(queue, l)
    /\ UNCHANGED <<open, state, rbuf, result, loopCnt, histories>>

Close ==
    /\ open /\ ~Done
    /\ open' = FALSE
    /\ UNCHANGED <<queue, state, rbuf, result, loopCnt, histories>>
-----------------------------------------------------------------------------
(* sglProcess()                                                            *)

\* readln(): blocks until a line is there, without any timeout.
ReadLine ==
    /\ ~Done /\ result = "none"
    /\ queue # <<>>
    /\ result' = "line"
    /\ rbuf' = Head(queue)
    /\ queue' = Tail(queue)
    /\ asked' = IF greeted /\ HasCode(Head(queue)) THEN Head(queue) ELSE asked
    /\ UNCHANGED <<open, state, loopCnt, answered, greeted>>

\* The connection was closed, or reset: rbuf keeps the line before.
ReadNothing ==
    /\ ~Done /\ result = "none"
    /\ ~open
    /\ \/ queue = <<>> /\ result' = "eof"
       \/ result' = "error"
    /\ UNCHANGED <<cms, state, rbuf, loopCnt, histories>>

\* n_read <= 0
NothingOnError(r) == r = "error"        \* mutant: n_read < 0, EOF is not seen
Nothing(r) == r \in {"eof", "error"}

Turn(s) == /\ state' = s
           /\ result' = "none"

GiveUp ==
    /\ Nothing(result)
    /\ \/ state = "SGL_CALLSIGN" /\ Turn("SGL_CALLSIGNFAIL")
       \/ state = "SGL_CHALLENGE" /\ Turn("SGL_CHALLENGEFAIL")
    /\ UNCHANGED <<cms, rbuf, loopCnt, histories>>

\* In which case the buffer is a line, new or not.
Heard == ~Done /\ result # "none" /\ ~Nothing(result)

LoneCrOrText(l) == l.text \in {"cr", "other"}   \* mutant: text eaten as well
LoneCr(l) == l.text = "cr"

EatCr ==
    /\ Heard /\ LoneCr(rbuf)
    /\ Turn(state)
    /\ UNCHANGED <<cms, rbuf, loopCnt, histories>>

\* expectsend() with nothing to expect is a write(): a short or failed one
\* is reported, and one to a peer that has gone may raise SIGPIPE.
Write(sent, failed) ==
    \/ Turn(sent)
    \/ Turn(failed)
    \/ ~open /\ Turn("killed")

SendCallsigns ==
    /\ state = "SGL_CALLSIGN" /\ Heard
    /\ rbuf.text = "prompt"
    /\ Write("SGL_CHALLENGE", "SGL_CALLSIGNFAIL")
    /\ greeted' = (state' = "SGL_CHALLENGE")
    /\ UNCHANGED <<cms, rbuf, loopCnt, answered, asked>>

NotPrompt == /\ state = "SGL_CALLSIGN" /\ Heard
             /\ ~LoneCr(rbuf) /\ rbuf.text # "prompt"

\* loop_cnt++ > LOOP_LIMIT
TooManyNever(n) == FALSE                \* mutant: the count is not checked
TooMany(n) == n > LoopLimit

Nudge ==
    /\ NotPrompt /\ ~TooMany(loopCnt)
    /\ loopCnt' = loopCnt + 1
    /\ Write("SGL_CALLSIGN", "SGL_CALLSIGNFAIL")
    /\ UNCHANGED <<cms, rbuf, histories>>

StopNudging ==
    /\ NotPrompt /\ TooMany(loopCnt)
    /\ loopCnt' = loopCnt + 1
    /\ Turn("SGL_CALLSIGNFAIL")
    /\ UNCHANGED <<cms, rbuf, histories>>

\* strcasestr() finds ";SQ: " anywhere in the line, sscanf() converts the code
\* only where the line begins with it.
Parsed(l) == IF l.text = "challenge" THEN l.code ELSE NoCode

IsAnyText(l) == l.text # "cr"           \* mutant: any line is the challenge
IsChallenge(l) == l.text \in {"challenge", "inner"}

\* A response that cannot be sent counts as a complete login, too.
Answer ==
    /\ state = "SGL_CHALLENGE" /\ Heard
    /\ IsChallenge(rbuf)
    /\ answered' = Parsed(rbuf)
    /\ Write("SGL_RESPONSESENT", "SGL_LOGINCOMPLETE")
    /\ UNCHANGED <<cms, rbuf, loopCnt, greeted, asked>>

Unexpected ==
    /\ state = "SGL_CHALLENGE" /\ Heard
    /\ ~LoneCr(rbuf) /\ ~IsChallenge(rbuf)
    /\ Turn("SGL_CHALLENGEFAIL")
    /\ UNCHANGED <<cms, rbuf, loopCnt, histories>>

Login == \/ ReadLine \/ ReadNothing \/ GiveUp \/ EatCr \/ SendCallsigns
         \/ Nudge \/ StopNudging \/ Answer \/ Unexpected

Next == Say \/ Close \/ Login

Spec == Init /\ [][Next]_vars
-----------------------------------------------------------------------------
(* Properties                                                              *)

TypeOK ==
    /\ queue \in Seq(Line) /\ Len(queue) <= MaxQueue
    /\ open \in BOOLEAN /\ greeted \in BOOLEAN
    /\ state \in {"SGL_CALLSIGN", "SGL_CHALLENGE", "killed"} \cup Failed \cup Complete
    /\ {rbuf, asked} \subseteq Line
    /\ result \in {"none", "line", "eof", "error"}
    /\ loopCnt \in 0 .. LoopLimit + 2
    /\ answered \in Code \cup {NoCode}

\* A login is taken for complete only if the callsigns were sent in answer to a
\* prompt and this CMS, not the one before, has sent a challenge that was read
\* after that: the last such line is the one a response was computed for, and from
\* its code, unless the code does not stand at the start of the line; then the
\* response answers no code at all.  (Complete includes SGL_LOGINCOMPLETE, a
\* response that could not be sent.)
AnswersChallenge ==
    state \in Complete =>
      /\ greeted
      /\ \/ asked.text = "challenge" /\ answered = asked.code /\ answered \in Code
         \/ asked.text = "inner" /\ answered = NoCode

\* A CMS that talks on and on without prompting does not hold the gateway.
ChatterEndsLogin ==
    []<>(result = "line" /\ rbuf.text = "other") => <>Done
=============================================================================
