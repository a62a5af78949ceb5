------------------------------ MODULE HostsFile ------------------------------
(***************************************************************************)
(* The reader of the CMS hosts file: nextent() and getcmsent() of          *)
(* lib/getcms.c, and what getcmslist() accepts of the entries (the order   *)
(* of its list is HostRotation's).  Lines are read into one static buffer, *)
(* which keeps the rest of the longer lines that came before.              *)
(*                                                                         *)
(* A line is a sequence of tokens: blanks, colons, the newline, numbers    *)
(* and names.  The zeroed memory behind the buffer is part of it.          *)
(***************************************************************************)
EXTENDS Integers, SequencesExt

CONSTANTS
    HostsFiles,  \* contents of the file: sequences of lines
    Size,        \* cells fgets() fills: BUFSIZE - 1 of a line, and a NUL
    Number       \* the values of the tokens that are numbers

NUL == "NUL"
Hash == "#"
Space == " "
Colon == ":"
Newline == "\n"

ASSUME HostsAssumption ==
    /\ \A h \in HostsFiles :
         /\ h \in Seq(Range(h))
         /\ \A i \in 1 .. Len(h) : h[i] \in Seq(Range(h[i])) \ {<<>>}
    /\ Size \in Nat \ {0, 1}
    /\ DOMAIN Number \cap {NUL, Hash, Space, Colon, Newline} = {}

VARIABLES
    unread,    \* what is left of the file, as lines
    cbuf,      \* the buffer
    listed     \* history: the entries accepted, each with the line it came from

hostvars == <<unread, cbuf, listed>>

Cell == 1 .. 2 * Size

HostsInit == /\ unread \in HostsFiles
             /\ cbuf = [i \in Cell |-> NUL]
             /\ listed = <<>>
-----------------------------------------------------------------------------
\* fgets(): a line, or as much of it as fits; the cells behind keep their values.
Piece(l) == SubSeq(l, 1, IF Len(l) < Size THEN Len(l) ELSE Size - 1)
Fgets(b, l) == [i \in Cell |-> IF i <= Len(Piece(l)) THEN l[i]
                               ELSE IF i = Len(Piece(l)) + 1 THEN NUL ELSE b[i]]
Rest(l, ls) == IF Len(l) < Size THEN ls ELSE <<SubSeq(l, Size, Len(l))>> \o ls

\* The first cell from i on that holds one of the tokens.
Find(b, i, tokens) == CHOOSE j \in Cell : /\ j >= i /\ b[j] \in tokens
                                          /\ \A k \in i .. j - 1 : b[k] \notin tokens

\* A comment, or nothing but blanks.
Ignored(b) == b[1] = Hash \/ b[Find(b, 1, {b[j] : j \in Cell} \ {Space, Newline})] = NUL

PasswordEndLost == {Colon, NUL}              \* mutant: the newline is kept
PasswordEnd == {Colon, Newline, NUL}

\* The fields: each ends with a NUL that is put over its terminator, which may be
\* a NUL already, that of the line; the next field then lies behind the line.
\* Leading blanks are passed over but stay in the name.
Entry(b) ==
    LET hostEnd == Find(b, 1, {Colon, NUL})
        portEnd == Find(b, hostEnd + 1, {Colon, NUL})
        passEnd == Find(b, portEnd + 1, PasswordEnd)
        port == b[hostEnd + 1]
    IN  [buf  |-> [b EXCEPT ![hostEnd] = NUL, ![portEnd] = NUL, ![passEnd] = NUL],
         host |-> SubSeq(b, 1, hostEnd - 1),
         port |-> IF port \in DOMAIN Number THEN Number[port] ELSE 0,
         pass |-> SubSeq(b, portEnd + 1, passEnd - 1)]

\* getcmslist(): a name, a port that is not a well-known one, a password.
UserPort == 1024 .. 65535
Accepted(e) == e.host # <<>> /\ e.port \in UserPort /\ e.pass # <<>>

ReadLine ==
    /\ unread # <<>>
    /\ LET l == Head(unread)
           b == Fgets(cbuf, l)
           e == Entry(b)
       IN  /\ unread' = Rest(l, Tail(unread))
           /\ cbuf' = IF Ignored(b) THEN b ELSE e.buf
           /\ listed' = IF ~Ignored(b) /\ Accepted(e)
                        THEN Append(listed, [host |-> e.host, port |-> e.port,
                                             pass |-> e.pass, line |-> l])
                        ELSE listed
-----------------------------------------------------------------------------
(* What a line stands for                                                  *)

\* name:port:password, or name:port:password:more.
Complete(l) ==
    /\ Len(l) \in 6 .. Size - 1
    /\ l[1] \notin {NUL, Hash, Space, Colon, Newline} /\ l[2] = Colon /\ l[4] = Colon
    /\ l[3] \in DOMAIN Number /\ Number[l[3]] \in UserPort
    /\ l[5] \notin {NUL, Colon, Newline} /\ l[6] \in {Colon, Newline}

Meaning(l) == [host |-> <<l[1]>>, port |-> Number[l[3]], pass |-> <<l[5]>>, line |-> l]

\* No rest of a line that is too long could be taken for a complete entry.
OwnLines(h) ==
    \A i \in 1 .. Len(h) :
      Len(h[i]) >= Size => \A k \in 2 .. Len(h[i]) : ~Complete(SubSeq(h[i], k, Len(h[i])))
=============================================================================
