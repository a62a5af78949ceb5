---------------------------- MODULE GatewayRelay ----------------------------
(***************************************************************************)
(* gateway() of rmsgw/gateway.c: the conversation one rmsgw process relays *)
(* between its AX.25 client (stdin/stdout) and the CMS (a TCP socket).     *)
(***************************************************************************)
EXTENDS Integers, Sequences, FiniteSets

CONSTANTS
    Kind,         \* the bytes there are; the gateway tells "F" and "Q" apart, and
                  \* the eight bytes of a "keepalive" count as one here
    Texts,        \* what the ends may have to say: a sequence of packets each
    MaxQueue,     \* bytes in flight towards the gateway, per direction
    Paclen,       \* bytes one write() to the AX.25 side may carry
    RetryMax,     \* EAGAIN in a row before the AX.25 side is given up (15)
    ConvTimeout   \* CONV_TIMEOUT (60)

ASSUME RelayAssumption ==
    /\ {MaxQueue, Paclen, RetryMax, ConvTimeout} \subseteq Nat \ {0}
    /\ Texts \subseteq [{"cms", "rf"} -> Seq(Seq(Kind))]

\* The bytes of an end are numbered by it.
Byte == [kind : Kind, id : Nat \ {0}]
Side == {"cms", "rf"}
Other(side) == IF side = "cms" THEN "rf" ELSE "cms"

\* errcode: 10 while a final FQ has been seen; the rest are return values.
NormalFinal == 10
TimedOut == 1
LoginError == -1
SockError == -101
RfError == -102
SockIoError == -103
RfIoError == -104

VARIABLES
    text,      \* text[e]: the packets end e has yet to send
    queue,     \* queue[e]: bytes end e has sent and gateway() has not read
    open,      \* open[e]: end e has not closed its connection
    sent,      \* sent[e]: how many bytes end e has sent
    got,       \* got[e]: the bytes written to end e, in order
    pc,        \* where gateway() is; "returned" or "killed" once it is over
    ready,     \* the descriptors select() reported readable
    buf,       \* the buffer being written
    ff,        \* sense: the ends whose last FF stands (FFUP for "cms", FFDN)
    loop,      \* passes since the last read that returned data
    err,       \* rc.errcode
    retry,     \* retry_count
    eaten,     \* history: bytes dropped by the keep-alive filter
    read       \* history: the buffers read that are not plain data: the end
               \* each came from, and what it looked like

ends == <<text, queue, open, sent>>
vars == <<text, queue, open, sent, got, pc, ready, buf, ff, loop, err, retry, eaten, read>>

Over == pc \in {"returned", "killed"}

Init ==
    /\ text \in Texts
    /\ queue = [e \in Side |-> <<>>]
    /\ open = [e \in Side |-> TRUE]
    /\ sent = [e \in Side |-> 0]
    /\ got = [e \in Side |-> <<>>]
    /\ pc = "login"
    /\ ready = {}
    /\ buf = <<>>
    /\ ff = {}
    /\ loop = 0
    /\ err = 0
    /\ retry = 0
    /\ eaten = {}
    /\ read = <<>>
-----------------------------------------------------------------------------
(* The two ends                                                            *)

\* A packet arrives whole; a read may take part of it, or more than one.
Packet(p, n) == [i \in 1 .. Len(p) |-> [kind |-> p[i], id |-> n + i]]

Send(e) ==
    /\ open[e] /\ ~Over
    /\ text[e] # <<>>
    /\ LET p == Head(text[e])
       IN  /\ Len(queue[e]) + Len(p) <= MaxQueue
           /\ queue' = [queue EXCEPT ![e] = @ \o Packet(p, sent[e])]
           /\ sent' = [sent EXCEPT ![e] = @ + Len(p)]
    /\ text' = [text EXCEPT ![e] = Tail(@)]
    /\ UNCHANGED <<open, got, pc, ready, buf, ff, loop, err, retry, eaten, read>>

Close(e) ==
    /\ open[e] /\ ~Over
    /\ open' = [open EXCEPT ![e] = FALSE]
    /\ UNCHANGED <<text, queue, sent, got, pc, ready, buf, ff, loop, err, retry, eaten, read>>
-----------------------------------------------------------------------------
(* gateway()                                                               *)

Return(code) == /\ pc' = "returned"
                /\ err' = code

\* cmslogin() and the two fcntl() calls.
Login ==
    /\ pc = "login"
    /\ \/ pc' = "select" /\ err' = err
       \/ \E code \in {LoginError, SockError, RfError} : Return(code)
    /\ UNCHANGED <<ends, got, ready, buf, ff, loop, retry, eaten, read>>

Readable == {e \in Side : queue[e] # <<>> \/ ~open[e]}

\* select() without a timeout.
Select ==
    /\ pc = "select"
    /\ Readable # {}
    /\ ready' = Readable
    /\ pc' = IF "cms" \in Readable THEN "peek" ELSE "readrf"
    /\ UNCHANGED <<ends, got, buf, ff, loop, err, retry, eaten, read>>

\* Both bits of read_fd stay set if select() fails, which is logged and let pass.
SelectFails ==
    /\ pc = "select"
    /\ ready' = Side
    /\ pc' = "peek"
    /\ UNCHANGED <<ends, got, buf, ff, loop, err, retry, eaten, read>>

\* recv(MSG_PEEK) == 0: the client is told "Connection closed by CMS", in a write()
\* whose result is not looked at, but which may raise SIGPIPE.
Closed == queue["cms"] = <<>> /\ ~open["cms"]

Peek ==
    /\ pc = "peek"
    /\ \/ Closed /\ Return(0)
       \/ Closed /\ ~open["rf"] /\ pc' = "killed" /\ err' = err
       \/ ~Closed /\ pc' = "readcms" /\ err' = err
    /\ UNCHANGED <<ends, got, ready, buf, ff, loop, retry, eaten, read>>

(***************************************************************************)
(* What a buffer looks like to sense: the test for FF looks at the last    *)
(* bytes but one of any buffer, and at those in front of one of less than  *)
(* three bytes; FQ and another turn are three bytes exactly.               *)
(***************************************************************************)
Ends(b, k) == b[Len(b) - 1].kind = k[2] /\ b[Len(b) - 2].kind = k[1]
Plain(b) == \A i \in 1 .. Len(b) : b[i].kind # "keepalive"

Look(b) ==
    CASE Plain(b) /\ (Len(b) = 1 \/ (Len(b) = 2 /\ b[1].kind = "F")) -> "short"
      [] Len(b) >= 3 /\ b[Len(b)].kind # "keepalive" /\ Ends(b, <<"F", "F">>) -> "FF"
      [] Plain(b) /\ Len(b) = 3 /\ ~Ends(b, <<"F", "F">>) ->
           IF Ends(b, <<"F", "Q">>) THEN "FQ" ELSE "turn"
      [] OTHER -> "data"

\* A final FF is remembered; FQ from the other end while it stands ends the
\* conversation, and any other three bytes from there clear it.
ClearedNot(e) == ff                    \* mutant: a turn of the other end leaves FF
Cleared(e) == ff \ {Other(e)}

Sense(e, look) ==
    LET final == look = "FQ" /\ Other(e) \in ff
    IN  /\ ff' \in CASE look = "FF" -> {ff \cup {e}}
                     [] look = "short" -> {ff, ff \cup {e}}
                     [] look = "turn" -> {Cleared(e)}
                     [] OTHER -> {ff}
        /\ loop' = IF final THEN ConvTimeout ELSE 0
        /\ err' = IF final THEN NormalFinal ELSE err

Values(s) == {s[i] : i \in 1 .. Len(s)}

\* recv() or read() of a non-empty prefix of what end e has sent.
Take(e, n) ==
    LET b == SubSeq(queue[e], 1, n)
    IN  /\ queue' = [queue EXCEPT ![e] = SubSeq(@, n + 1, Len(@))]
        /\ read' = IF Look(b) = "data" THEN read
                   ELSE Append(read, [end |-> e, look |-> Look(b)])
        /\ Sense(e, Look(b))

\* strncmp(cp, ";;;;;;\r\n", 8) == 0: the whole buffer is eaten.
IsKeepAlive(b) == b[1].kind = "keepalive"

ReadCms ==
    /\ pc = "readcms"
    /\ \E n \in 1 .. Len(queue["cms"]) :
         LET b == SubSeq(queue["cms"], 1, n)
         IN  /\ Take("cms", n)
             /\ IF IsKeepAlive(b)
                THEN /\ eaten' = eaten \cup Values(b)
                     /\ UNCHANGED <<pc, buf, retry>>
                ELSE /\ pc' = "writerf"
                     /\ buf' = b
                     /\ retry' = 0
                     /\ eaten' = eaten
    /\ UNCHANGED <<text, open, sent, got, ready>>

\* recv() or read() returned -1 (EAGAIN) or 0.
NoMoreOpen(e) == queue[e] = <<>> /\ open[e]   \* mutant: 0 does not end the loop
NoMore(e) == queue[e] = <<>>

CmsDrained ==
    /\ pc = "readcms"
    /\ NoMore("cms")
    /\ pc' = IF "rf" \in ready THEN "readrf" ELSE "pass"
    /\ UNCHANGED <<ends, got, ready, buf, ff, loop, err, retry, eaten, read>>

\* What is left of the buffer after m bytes were written.
RestNone(m) == <<>>                    \* mutant: a short write loses the rest
Rest(m) == SubSeq(buf, m + 1, Len(buf))

WrittenOnce(e, m, back) ==             \* mutant: a short write is not continued
    /\ got' = [got EXCEPT ![e] = @ \o SubSeq(buf, 1, m)]
    /\ buf' = <<>>
    /\ pc' = back
Written(e, m, back) ==
    /\ got' = [got EXCEPT ![e] = @ \o SubSeq(buf, 1, m)]
    /\ buf' = Rest(m)
    /\ pc' = IF Rest(m) = <<>> THEN back ELSE pc

Smaller(a, b) == IF a < b THEN a ELSE b

WriteRf ==
    /\ pc = "writerf"
    /\ open["rf"]
    /\ \E m \in 1 .. Smaller(Paclen, Len(buf)) : Written("rf", m, "readcms")
    /\ retry' = 0
    /\ UNCHANGED <<ends, ready, ff, loop, err, eaten, read>>

\* The AX.25 connection's window is full: sleep and retry, a bounded number
\* of times in a row.
WriteRfAgain ==
    /\ pc = "writerf"
    /\ open["rf"]
    /\ retry' = retry + 1
    /\ IF retry + 1 > RetryMax THEN Return(RfIoError) ELSE UNCHANGED <<pc, err>>
    /\ UNCHANGED <<ends, got, ready, buf, ff, loop, eaten, read>>

\* Any other error of write() to end e; a peer that has closed raises SIGPIPE,
\* which nothing handles.
WriteFails(e, at, code) ==
    /\ pc = at
    /\ \/ Return(code)
       \/ ~open[e] /\ pc' = "killed" /\ err' = err
    /\ UNCHANGED <<ends, got, ready, buf, ff, loop, retry, eaten, read>>

ReadRf ==
    /\ pc = "readrf"
    /\ \E n \in 1 .. Len(queue["rf"]) :
         /\ Take("rf", n)
         /\ buf' = SubSeq(queue["rf"], 1, n)
    /\ pc' = "writecms"
    /\ UNCHANGED <<text, open, sent, got, ready, retry, eaten>>

RfDrained ==
    /\ pc = "readrf"
    /\ NoMore("rf")
    /\ pc' = "pass"
    /\ UNCHANGED <<ends, got, ready, buf, ff, loop, err, retry, eaten, read>>

\* An EAGAIN of this write() is retried at once, forever: a stuttering step.
WriteCms ==
    /\ pc = "writecms"
    /\ open["cms"]
    /\ \E m \in 1 .. Len(buf) : Written("cms", m, "readrf")
    /\ UNCHANGED <<ends, ready, ff, loop, err, retry, eaten, read>>

\* The end of a pass of the for loop.
ExpiredNever(n) == FALSE               \* mutant: the pass count is not checked
Expired(n) == n > ConvTimeout

Pass ==
    /\ pc = "pass"
    /\ loop' = loop + 1
    /\ IF Expired(loop + 1)
       THEN Return(IF err = NormalFinal THEN 0 ELSE TimedOut)
       ELSE pc' = "select" /\ err' = err
    /\ UNCHANGED <<ends, got, ready, buf, ff, retry, eaten, read>>

Gateway == \/ Login \/ Select \/ Peek \/ ReadCms \/ CmsDrained
           \/ WriteRf \/ WriteRfAgain \/ WriteFails("rf", "writerf", RfIoError)
           \/ ReadRf \/ RfDrained \/ Pass
           \/ WriteCms \/ WriteFails("cms", "writecms", SockIoError)

Peers == \E e \in Side : Send(e) \/ Close(e)

Next == Gateway \/ SelectFails \/ Peers

Spec == Init /\ [][Next]_vars

\* The process keeps running, and a full CMS socket is some day drained or
\* broken; nothing else is promised of either end, nor that select() ever fails.
FairSpec == Spec /\ WF_vars(Gateway)
-----------------------------------------------------------------------------
(* Properties                                                              *)

Ids(s) == {l.id : l \in Values(s)}

TypeOK ==
    /\ queue \in [Side -> Seq(Byte)] /\ \A e \in Side : Len(queue[e]) <= MaxQueue
    /\ text \in [Side -> Seq(Seq(Kind))] /\ open \in [Side -> BOOLEAN] /\ sent \in [Side -> Nat]
    /\ got \in [Side -> Seq(Byte)] /\ buf \in Seq(Byte) /\ eaten \subseteq Byte
    /\ pc \in {"login", "select", "peek", "readcms", "writerf", "readrf",
               "writecms", "pass", "returned", "killed"}
    /\ ready \subseteq Side /\ ff \subseteq Side
    /\ loop \in 0 .. ConvTimeout + 1 /\ retry \in 0 .. RetryMax + 1
    /\ err \in {0, NormalFinal, TimedOut, LoginError, SockError, RfError,
                SockIoError, RfIoError}
    /\ read \in Seq([end : Side, look : {"FF", "FQ", "turn", "short"}])

\* Towards end e: the bytes in the buffer when it is e's turn to be written.
InHand(e) == IF pc = (IF e = "rf" THEN "writerf" ELSE "writecms") THEN buf ELSE <<>>

\* What end e has sent and the keep-alive filter has not dropped.
Path(e) == got[Other(e)] \o InHand(Other(e)) \o queue[e]

\* Bytes are in the order they were sent in.
InOrder(s) == \A i, j \in 1 .. Len(s) : i < j => s[i].id < s[j].id

Lost(e) == IF e = "cms" THEN {l.id : l \in eaten} ELSE {}

\* Until a write fails, every byte an end has sent is exactly once either with
\* the other end, in the buffer, unread, or dropped by the keep-alive filter,
\* and what arrived arrived in order - short writes, EAGAIN and any grouping
\* of bytes into reads included.
Conserved ==
    ~Over => \A e \in Side :
      /\ InOrder(Path(e))
      /\ Ids(Path(e)) \cap Lost(e) = {}
      /\ Ids(Path(e)) \cup Lost(e) = 1 .. sent[e]

\* A conversation that ends without an error, by the CMS closing, by FQ or by the
\* pass limit, has delivered to each end, in order, all it has read from the
\* other and not eaten; if it was the CMS that closed, that is all the CMS sent.
Delivered(e) ==
    /\ InOrder(got[Other(e)])
    /\ Ids(got[Other(e)]) \cup Ids(queue[e]) \cup Lost(e) = 1 .. sent[e]

DeliveredAtEnd ==
    pc = "returned" /\ err \in {0, TimedOut} =>
      /\ \A e \in Side : Delivered(e)
      /\ loop <= ConvTimeout => Ids(got["rf"]) \cup Lost("cms") = 1 .. sent["cms"]

\* One end sent FQ while the FF of the other stood: since then no three bytes
\* that were neither had come from the end that sent FQ.  A buffer too short for the
\* test may have counted as FF.
Finished ==
    \E i, j \in 1 .. Len(read) :
      /\ i < j /\ read[j].end = Other(read[i].end)
      /\ read[i].look \in {"FF", "short"} /\ read[j].look = "FQ"
      /\ \A k \in i .. j : read[k] # [end |-> read[j].end, look |-> "turn"]

\* errcode 0 is reported as a good session and its bytes are accounted: it
\* means that the CMS closed the connection, or that a buffer of one end was FQ
\* while an FF at the end of a buffer of the other stood.
GoodMeansFinished ==
    pc = "returned" /\ err = 0 =>
      \/ ~open["cms"]
      \/ Finished

\* The CMS closing ends the session, whatever the client does.
CloseEnds == ~open["cms"] ~> Over

\* So does the client hanging up, if the CMS then has nothing more to say.
HangupEnds == <>[](~open["rf"] /\ queue["cms"] = <<>>) => <>Over
-----------------------------------------------------------------------------
(* What comments of the source say and the code does not do                *)

\* gateway.c: 'filter "keep alive" packet from CMS': only those are dropped.
OnlyKeepAlivesEaten == \A l \in eaten : l.kind = "keepalive"
=============================================================================
