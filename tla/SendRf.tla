------------------------------- MODULE SendRf -------------------------------
(***************************************************************************)
(* sendrf() of lib/sendrf.c: one message of the gateway itself (greeting,  *)
(* banner, session report) on its way to the AX.25 client, whose window    *)
(* may be full.                                                            *)
(***************************************************************************)
EXTENDS Integers, Sequences

CONSTANTS
    Size,          \* len: the bytes of the message are at offsets 1 .. Size
    AddEol,        \* SRF_ADDEOL: one more byte is sent, the one at Size + 1
    NonBlocking,   \* gateway() has set O_NONBLOCK on standard output
    RetryMax,      \* retries in a row before sendrf() gives up (15)
    MaxAgain       \* EAGAINs in all (bounds the model)

ASSUME SendAssumption == /\ Size \in Nat
                         /\ AddEol \in BOOLEAN /\ NonBlocking \in BOOLEAN
                         /\ RetryMax \in Nat /\ MaxAgain \in Nat

slen == IF AddEol THEN Size + 1 ELSE Size

VARIABLES
    pc,        \* "alloc", "write", "sent" (slen - nleft is returned), "failed" (-1)
    buf,       \* how far buf has moved from the start of the message
    nleft,     \* bytes that remain to be written
    retry,     \* retry_count
    wire,      \* the offsets from buf of the bytes that were written, in order
    again      \* history: how many write()s returned EAGAIN

vars == <<pc, buf, nleft, retry, wire, again>>

Init == /\ pc = "alloc"
        /\ buf = 0 /\ nleft = slen
        /\ retry = 0 /\ again = 0
        /\ wire = <<>>

\* sbuf receives the translated message - and is used for the log only.
Allocate == /\ pc = "alloc"
            /\ pc' \in {"write", "failed"}
            /\ UNCHANGED <<buf, nleft, retry, wire, again>>

Return == /\ pc = "write" /\ nleft <= 0
          /\ pc' = "sent"
          /\ UNCHANGED <<buf, nleft, retry, wire, again>>

(***************************************************************************)
(* The third expression of the for loop, nleft -= nwritten, buf +=         *)
(* nwritten, after every write() that does not end the function.           *)
(***************************************************************************)
AdvanceBuf(n) == nleft' = nleft /\ buf' = buf + n       \* mutant: nleft stays
Advance(n) == nleft' = nleft - n /\ buf' = buf + n

Write == /\ pc = "write" /\ nleft > 0
         /\ \E n \in 1 .. nleft :
              /\ wire' = wire \o [i \in 1 .. n |-> buf + i]
              /\ Advance(n)
         /\ retry' = 0
         /\ UNCHANGED <<pc, again>>

\* EAGAIN leaves nwritten at -1: the loop steps back by a byte.
WriteAgain ==
    /\ pc = "write" /\ nleft > 0
    /\ NonBlocking /\ again < MaxAgain
    /\ again' = again + 1
    /\ retry' = retry + 1
    /\ IF retry + 1 > RetryMax
       THEN pc' = "failed" /\ UNCHANGED <<buf, nleft>>
       ELSE pc' = pc /\ Advance(-1)
    /\ UNCHANGED wire

WriteFails == /\ pc = "write" /\ nleft > 0
              /\ pc' = "failed"
              /\ UNCHANGED <<buf, nleft, retry, wire, again>>

Next == Allocate \/ Return \/ Write \/ WriteAgain \/ WriteFails

Spec == Init /\ [][Next]_vars
-----------------------------------------------------------------------------
(* Properties                                                              *)

\* Every variable stays in its domain; the buffer is left behind by at most the
\* EAGAINs there were.
TypeOK ==
    /\ pc \in {"alloc", "write", "sent", "failed"}
    /\ buf \in -again .. slen /\ nleft \in 0 .. slen + again
    /\ retry \in 0 .. RetryMax + 1 /\ again \in 0 .. MaxAgain
    /\ wire \in Seq(-again + 1 .. slen)

\* However writes are split and refused, no byte of the message is left out: a
\* byte is sent only when the one before it in memory has been, and a message
\* reported sent is sent to its end.  Each byte lies behind its place in the
\* message by no more than the EAGAINs there were, so that without one they are
\* sent in order and once.  With them bytes are repeated, and bytes that lie in
\* front of the message are sent, no further in front than there were EAGAINs.
\* Behind the message one byte is sent, with SRF_ADDEOL: the end of line is only
\* in sbuf, and this is the byte that follows buf in the caller's memory.
NothingLeftOut ==
    /\ \A i \in 1 .. Len(wire) :
         /\ wire[i] \in i - again .. i
         /\ wire[i] > 1 => \E j \in 1 .. i - 1 : wire[j] = wire[i] - 1
         /\ wire[i] > Size => AddEol /\ wire[i] = Size + 1
    /\ pc = "sent" /\ slen > 0 => \E i \in 1 .. Len(wire) : wire[i] = slen
-----------------------------------------------------------------------------
(* What a comment of the source says and the code does not do              *)

\* sendrf.c: "returns: count of bytes sent, or -1 on error".
CountReturned == pc = "sent" => Len(wire) = slen - nleft
=============================================================================
