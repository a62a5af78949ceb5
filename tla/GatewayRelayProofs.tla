-------------------------- MODULE GatewayRelayProofs --------------------------
(***************************************************************************)
(* Proofs about GatewayRelay: for any number of bytes, any grouping of     *)
(* them into packets, reads and writes, any bound on queues, retries and passes.    *)
(***************************************************************************)
EXTENDS GatewayRelay, SequenceTheorems, TLAPS

(* ---- sequences of bytes ------------------------------------------------- *)

Earlier(A, B) == \A a \in A, b \in B : a < b

LEMMA JoinValues ==
  ASSUME NEW s \in Seq(Byte), NEW t \in Seq(Byte)
  PROVE  Values(s \o t) = Values(s) \cup Values(t)
<1> DEFINE u == s \o t
<1>1. /\ Len(u) = Len(s) + Len(t) /\ Len(s) \in Nat /\ Len(t) \in Nat
      /\ \A i \in 1 .. Len(s) + Len(t) : u[i] = IF i <= Len(s) THEN s[i] ELSE t[i - Len(s)]
  BY ConcatProperties, LenProperties
<1> HIDE DEF u
<1>2. ASSUME NEW i \in 1 .. Len(s) PROVE s[i] \in Values(u)
  <2>1. i \in 1 .. Len(u) /\ u[i] = s[i]
    BY <1>1
  <2> QED
    BY <2>1 DEF Values
<1>3. ASSUME NEW i \in 1 .. Len(t) PROVE t[i] \in Values(u)
  <2>1. i + Len(s) \in 1 .. Len(u) /\ u[i + Len(s)] = t[i]
    BY <1>1
  <2> QED
    BY <2>1 DEF Values
<1>4. ASSUME NEW i \in 1 .. Len(u) PROVE u[i] \in Values(s) \cup Values(t)
  <2>1. CASE i <= Len(s)
    <3>1. i \in 1 .. Len(s) /\ u[i] = s[i]
      BY <1>1, <2>1
    <3> QED
      BY <3>1 DEF Values
  <2>2. CASE i > Len(s)
    <3>1. i - Len(s) \in 1 .. Len(t) /\ u[i] = t[i - Len(s)]
      BY <1>1, <2>2
    <3> QED
      BY <3>1 DEF Values
  <2> QED
    BY <1>1, <2>1, <2>2
<1>5. Values(u) = Values(s) \cup Values(t)
  BY <1>2, <1>3, <1>4 DEF Values
<1> QED
  BY <1>5 DEF u

LEMMA JoinIds ==
  ASSUME NEW s \in Seq(Byte), NEW t \in Seq(Byte)
  PROVE  Ids(s \o t) = Ids(s) \cup Ids(t)
BY JoinValues DEF Ids

LEMMA JoinOrder ==
  ASSUME NEW s \in Seq(Byte), NEW t \in Seq(Byte)
  PROVE  InOrder(s \o t) <=> InOrder(s) /\ InOrder(t) /\ Earlier(Ids(s), Ids(t))
<1> DEFINE u == s \o t
<1>1. /\ Len(u) = Len(s) + Len(t) /\ Len(s) \in Nat /\ Len(t) \in Nat
      /\ \A i \in 1 .. Len(s) + Len(t) : u[i] = IF i <= Len(s) THEN s[i] ELSE t[i - Len(s)]
  BY ConcatProperties, LenProperties
<1> HIDE DEF u
<1>2. /\ \A i \in 1 .. Len(s) : i \in 1 .. Len(u) /\ u[i] = s[i]
      /\ \A i \in 1 .. Len(t) : i + Len(s) \in 1 .. Len(u) /\ u[i + Len(s)] = t[i]
  <2>1. ASSUME NEW i \in 1 .. Len(s) PROVE i \in 1 .. Len(u) /\ u[i] = s[i]
    BY <1>1
  <2>2. ASSUME NEW i \in 1 .. Len(t)
        PROVE  i + Len(s) \in 1 .. Len(u) /\ u[i + Len(s)] = t[i]
    <3>1. /\ i + Len(s) \in 1 .. Len(s) + Len(t) /\ ~(i + Len(s) <= Len(s))
          /\ (i + Len(s)) - Len(s) = i
      BY <1>1
    <3> QED
      BY <1>1, <3>1
  <2> QED
    BY <2>1, <2>2
<1>3. ASSUME InOrder(u) PROVE InOrder(s) /\ InOrder(t) /\ Earlier(Ids(s), Ids(t))
  <2>1. InOrder(s)
    BY <1>2, <1>3 DEF InOrder
  <2>2. ASSUME NEW i \in 1 .. Len(t), NEW j \in 1 .. Len(t), i < j
        PROVE  t[i].id < t[j].id
    <3>1. i + Len(s) < j + Len(s)
      BY <1>1, <2>2
    <3> QED
      BY <1>2, <1>3, <2>2, <3>1 DEF InOrder
  <2>3. ASSUME NEW a \in Ids(s), NEW b \in Ids(t) PROVE a < b
    <3>1. PICK i \in 1 .. Len(s) : a = s[i].id
      BY DEF Ids, Values
    <3>2. PICK j \in 1 .. Len(t) : b = t[j].id
      BY DEF Ids, Values
    <3>3. i < j + Len(s)
      BY <1>1
    <3> QED
      BY <1>2, <1>3, <3>1, <3>2, <3>3 DEF InOrder
  <2> QED
    BY <2>1, <2>2, <2>3 DEF InOrder, Earlier
<1>4. ASSUME InOrder(s), InOrder(t), Earlier(Ids(s), Ids(t)),
             NEW i \in 1 .. Len(u), NEW j \in 1 .. Len(u), i < j
      PROVE  u[i].id < u[j].id
  <2>1. CASE j <= Len(s)
    <3>1. i \in 1 .. Len(s) /\ j \in 1 .. Len(s) /\ u[i] = s[i] /\ u[j] = s[j]
      BY <1>1, <1>4, <2>1
    <3> QED
      BY <1>4, <3>1 DEF InOrder
  <2>2. CASE i <= Len(s) /\ j > Len(s)
    <3>1. /\ i \in 1 .. Len(s) /\ j - Len(s) \in 1 .. Len(t)
          /\ u[i] = s[i] /\ u[j] = t[j - Len(s)]
      BY <1>1, <2>2
    <3>2. u[i].id \in Ids(s) /\ u[j].id \in Ids(t)
      BY <1>4, <3>1 DEF Ids, Values
    <3> QED
      BY <1>4, <3>2 DEF Earlier
  <2>3. CASE i > Len(s)
    <3>1. /\ i - Len(s) \in 1 .. Len(t) /\ j - Len(s) \in 1 .. Len(t)
          /\ i - Len(s) < j - Len(s)
          /\ u[i] = t[i - Len(s)] /\ u[j] = t[j - Len(s)]
      BY <1>1, <1>4, <2>3
    <3> QED
      BY <1>4, <3>1 DEF InOrder
  <2> QED
    BY <1>1, <2>1, <2>2, <2>3
<1>5. InOrder(s) /\ InOrder(t) /\ Earlier(Ids(s), Ids(t)) => InOrder(u)
  BY <1>4 DEF InOrder
<1> QED
  BY <1>3, <1>5 DEF u

LEMMA Regroup ==
  ASSUME NEW s \in Seq(Byte), NEW t \in Seq(Byte), NEW u \in Seq(Byte)
  PROVE  (s \o t) \o u = s \o (t \o u)
BY ConcatAssociative

\* A packet has the numbers that follow those sent before.
LEMMA PacketIds ==
  ASSUME NEW p \in Seq(Kind), NEW n \in Nat
  PROVE  /\ Packet(p, n) \in Seq(Byte) /\ Len(Packet(p, n)) = Len(p)
         /\ InOrder(Packet(p, n)) /\ Ids(Packet(p, n)) = n + 1 .. n + Len(p)
<1> DEFINE q == Packet(p, n)
           N == Len(p)
<1>1. N \in Nat /\ \A i \in 1 .. N : p[i] \in Kind
  BY LenProperties, ElementOfSeq
<1>2. q = [i \in 1 .. N |-> [kind |-> p[i], id |-> n + i]]
  BY DEF Packet
<1> HIDE DEF q, N
<1>3. q \in Seq(Byte) /\ Len(q) = N /\ \A i \in 1 .. N : q[i].id = n + i
  <2>1. \A i \in 1 .. N : [kind |-> p[i], id |-> n + i] \in Byte
    BY <1>1 DEF Byte
  <2> QED
    BY <1>1, <1>2, <2>1
<1>4. InOrder(q)
  BY <1>1, <1>3 DEF InOrder
<1>5. Ids(q) = n + 1 .. n + N
  <2>1. Ids(q) = {q[i].id : i \in 1 .. N}
    BY <1>3 DEF Ids, Values
  <2>2. Ids(q) = {n + i : i \in 1 .. N}
    BY <1>3, <2>1
  <2>3. \A x \in n + 1 .. n + N : x - n \in 1 .. N /\ x = n + (x - n)
    BY <1>1
  <2>4. n + 1 .. n + N \subseteq {n + i : i \in 1 .. N}
    BY <2>3
  <2> QED
    BY <1>1, <2>2, <2>4
<1> QED
  BY <1>3, <1>4, <1>5 DEF q, N

\* A read or a write of the first n bytes of a sequence splits it in two.
LEMMA Split ==
  ASSUME NEW s \in Seq(Byte), NEW n \in 1 .. Len(s)
  PROVE  /\ SubSeq(s, 1, n) \in Seq(Byte) /\ Len(SubSeq(s, 1, n)) = n
         /\ SubSeq(s, n + 1, Len(s)) \in Seq(Byte)
         /\ Len(SubSeq(s, n + 1, Len(s))) = Len(s) - n
         /\ SubSeq(s, 1, n) \o SubSeq(s, n + 1, Len(s)) = s
<1>1. Len(s) \in Nat /\ \A i \in 1 .. Len(s) : s[i] \in Byte
  BY LenProperties, ElementOfSeq
<1>2. SubSeq(s, 1, n) \in Seq(Byte) /\ Len(SubSeq(s, 1, n)) = n
  BY <1>1, SubSeqProperties
<1>3. /\ SubSeq(s, n + 1, Len(s)) \in Seq(Byte)
      /\ Len(SubSeq(s, n + 1, Len(s))) = Len(s) - n
  BY <1>1, SubSeqProperties
<1>4. SubSeq(s, 1, n) \o SubSeq(s, n + 1, Len(s)) = SubSeq(s, 1, Len(s))
  <2>1. 1 \in 1 .. Len(s) + 1 /\ n \in 1 - 1 .. Len(s) /\ Len(s) \in n .. Len(s)
    BY <1>1
  <2> QED
    BY <2>1, ConcatAdjacentSubSeq
<1> QED
  BY <1>2, <1>3, <1>4, SubSeqFull

LEMMA Sides ==
  /\ \A e \in Side : Other(e) \in Side /\ Other(Other(e)) = e /\ Other(e) # e
  /\ "cms" \in Side /\ "rf" \in Side /\ Other("cms") = "rf" /\ Other("rf") = "cms"
BY DEF Side, Other

(* ---- types and bounds --------------------------------------------------- *)

\* Nothing is in hand but between a read and the end of its write.
HandEmpty == ~Over /\ pc \notin {"writerf", "writecms"} => buf = <<>>

\* The pass and retry counts stay below the limits that end the session.
Bounded == ~Over => loop <= ConvTimeout /\ retry <= RetryMax /\ err \in {0, NormalFinal}

RelayTyped == TypeOK /\ HandEmpty /\ Bounded

Reading == [end : Side, look : {"FF", "FQ", "turn", "short"}]

LEMMA Looks == \A b : Look(b) \in {"FF", "FQ", "turn", "short", "data"}
BY DEF Look

\* What Take(e, n) does.
LEMMA Taken ==
  ASSUME TypeOK, NEW e \in Side, NEW n \in 1 .. Len(queue[e]), Take(e, n)
  PROVE  LET b == SubSeq(queue[e], 1, n)
             r == SubSeq(queue[e], n + 1, Len(queue[e]))
         IN  /\ b \in Seq(Byte) /\ Len(b) = n /\ b \o r = queue[e]
             /\ queue' = [queue EXCEPT ![e] = r]
             /\ r \in Seq(Byte) /\ Len(r) <= MaxQueue
             /\ Values(b) \subseteq Byte
             /\ read' \in Seq(Reading)
             /\ ff' \subseteq Side /\ loop' \in {0, ConvTimeout} /\ err' \in {err, NormalFinal}
<1> DEFINE b == SubSeq(queue[e], 1, n)
           r == SubSeq(queue[e], n + 1, Len(queue[e]))
<1>1. queue[e] \in Seq(Byte) /\ Len(queue[e]) \in Nat /\ Len(queue[e]) <= MaxQueue
  BY LenProperties DEF TypeOK
<1>2. b \in Seq(Byte) /\ Len(b) = n /\ r \in Seq(Byte) /\ b \o r = queue[e] /\ Len(r) = Len(queue[e]) - n
  BY <1>1, Split
<1>3. MaxQueue \in Nat
  BY RelayAssumption
<1>4. Len(r) <= MaxQueue
  BY <1>1, <1>2, <1>3
<1>5. queue' = [queue EXCEPT ![e] = r]
  BY DEF Take
<1>6. read' = IF Look(b) = "data" THEN read ELSE Append(read, [end |-> e, look |-> Look(b)])
  BY DEF Take
<1>7. Sense(e, Look(b))
  BY DEF Take
<1> HIDE DEF b, r
<1>8. \A i \in 1 .. Len(b) : b[i] \in Byte
  BY <1>2, ElementOfSeq
<1>9. Values(b) \subseteq Byte
  BY <1>8 DEF Values
<1>10. Look(b) # "data" => [end |-> e, look |-> Look(b)] \in Reading
  BY Looks DEF Reading
<1>12. read' \in Seq(Reading)
  <2> DEFINE x == [end |-> e, look |-> Look(b)]
  <2>1. read \in Seq(Reading)
    BY DEF TypeOK, Reading
  <2>2. read' = read \/ (x \in Reading /\ read' = Append(read, x))
    BY <1>6, <1>10
  <2> HIDE DEF x
  <2> QED
    BY <2>1, <2>2
<1>13. ff' \subseteq Side /\ loop' \in {0, ConvTimeout} /\ err' \in {err, NormalFinal}
  <2>1. ff \subseteq Side
    BY DEF TypeOK
  <2> QED
    BY <1>7, <2>1 DEF Sense, Cleared
<1> QED
  BY <1>2, <1>4, <1>5, <1>9, <1>12, <1>13 DEF b, r

\* What a short write of the first m bytes of the buffer does.
LEMMA Wrote ==
  ASSUME TypeOK, NEW e \in Side, NEW m \in 1 .. Len(buf), NEW back, Written(e, m, back)
  PROVE  LET b == SubSeq(buf, 1, m)
         IN  /\ b \in Seq(Byte) /\ buf' \in Seq(Byte) /\ b \o buf' = buf
             /\ got' = [got EXCEPT ![e] = @ \o b]
             /\ got' \in [Side -> Seq(Byte)]
             /\ \/ pc' = back /\ buf' = <<>>
                \/ pc' = pc
<1>1. buf \in Seq(Byte) /\ got \in [Side -> Seq(Byte)]
  BY DEF TypeOK
<1>2. SubSeq(buf, 1, m) \in Seq(Byte) /\ Rest(m) \in Seq(Byte) /\ SubSeq(buf, 1, m) \o Rest(m) = buf
  BY <1>1, Split DEF Rest
<1>3. got[e] \o SubSeq(buf, 1, m) \in Seq(Byte)
  BY <1>1, <1>2, ConcatProperties
<1>4. /\ got' = [got EXCEPT ![e] = @ \o SubSeq(buf, 1, m)]
      /\ buf' = Rest(m) /\ ((pc' = back /\ Rest(m) = <<>>) \/ pc' = pc)
  BY DEF Written
<1>5. got' \in [Side -> Seq(Byte)]
  BY <1>1, <1>3, <1>4
<1> QED
  BY <1>2, <1>4, <1>5

LEMMA RelayTypedInit == Init => RelayTyped
<1> SUFFICES ASSUME Init PROVE RelayTyped
  OBVIOUS
<1>1. {MaxQueue, Paclen, RetryMax, ConvTimeout} \subseteq Nat \ {0}
  BY RelayAssumption
<1>2. queue \in [Side -> Seq(Byte)] /\ \A e \in Side : Len(queue[e]) <= MaxQueue
  BY <1>1 DEF Init
<1>3. loop \in 0 .. ConvTimeout + 1 /\ retry \in 0 .. RetryMax + 1 /\ loop <= ConvTimeout /\ retry <= RetryMax
  BY <1>1 DEF Init
<1>4. err = 0 /\ buf = <<>> /\ pc = "login"
  BY DEF Init
<1>5. got \in [Side -> Seq(Byte)] /\ read \in Seq(Reading) /\ buf \in Seq(Byte)
  BY DEF Init
<1>6. text \in [Side -> Seq(Seq(Kind))]
  BY RelayAssumption DEF Init, Side
<1>7. TypeOK
  BY <1>2, <1>3, <1>4, <1>5, <1>6 DEF Init, TypeOK, Reading
<1> QED
  BY <1>3, <1>4, <1>7 DEF RelayTyped, HandEmpty, Bounded

\* The next packet of an end.
LEMMA Sending ==
  ASSUME RelayTyped, NEW e \in Side, Send(e)
  PROVE  /\ Head(text[e]) \in Seq(Kind)
         /\ Len(queue[e]) + Len(Head(text[e])) <= MaxQueue
         /\ queue' = [queue EXCEPT ![e] = @ \o Packet(Head(text[e]), sent[e])]
         /\ sent' = [sent EXCEPT ![e] = @ + Len(Head(text[e]))]
         /\ text' \in [Side -> Seq(Seq(Kind))]
         /\ ~Over /\ UNCHANGED <<open, got, pc, ready, buf, ff, loop, err, retry, eaten, read>>
<1> DEFINE P == Seq(Kind)
           t == text[e]
<1>1. text \in [Side -> Seq(P)] /\ t # <<>> /\ text' = [text EXCEPT ![e] = Tail(t)]
  BY DEF RelayTyped, TypeOK, Send
<1>2. t \in Seq(P)
  BY <1>1
<1> HIDE DEF P
<1>3. Head(t) \in P /\ Tail(t) \in Seq(P)
  BY <1>1, <1>2, HeadTailProperties
<1> HIDE DEF t
<1>4. text' \in [Side -> Seq(P)]
  BY <1>1, <1>3
<1> QED
  BY <1>3, <1>4 DEF P, t, Send

LEMMA RelayTypedPeers == RelayTyped /\ Peers => RelayTyped'
<1> SUFFICES ASSUME RelayTyped, NEW e \in Side, Send(e) \/ Close(e) PROVE RelayTyped'
  BY DEF Peers
<1>0. /\ MaxQueue \in Nat /\ queue \in [Side -> Seq(Byte)] /\ sent \in [Side -> Nat]
      /\ open \in [Side -> BOOLEAN]
  BY RelayAssumption DEF RelayTyped, TypeOK
<1>1. UNCHANGED <<got, pc, ready, buf, ff, loop, err, retry, eaten, read>>
  BY DEF Send, Close
<1>2. /\ queue' \in [Side -> Seq(Byte)] /\ \A d \in Side : Len(queue'[d]) <= MaxQueue
      /\ sent' \in [Side -> Nat] /\ open' \in [Side -> BOOLEAN]
      /\ text' \in [Side -> Seq(Seq(Kind))]
  <2>1. CASE Send(e)
    <3> DEFINE p == Head(text[e])
               q == Packet(p, sent[e])
    <3>1. /\ p \in Seq(Kind) /\ Len(queue[e]) + Len(p) <= MaxQueue
          /\ queue' = [queue EXCEPT ![e] = @ \o q] /\ sent' = [sent EXCEPT ![e] = @ + Len(p)]
          /\ text' \in [Side -> Seq(Seq(Kind))] /\ open' = open
      BY <2>1, Sending
    <3>2. q \in Seq(Byte) /\ Len(q) = Len(p) /\ Len(p) \in Nat
      BY <1>0, <3>1, PacketIds, LenProperties
    <3> HIDE DEF p, q
    <3>3. queue[e] \o q \in Seq(Byte) /\ Len(queue[e] \o q) = Len(queue[e]) + Len(q)
      <4>1. queue[e] \in Seq(Byte)
        BY <1>0
      <4> QED
        BY <3>2, <4>1, ConcatProperties
    <3> QED
      BY <1>0, <3>1, <3>2, <3>3 DEF RelayTyped, TypeOK
  <2>2. CASE Close(e)
    BY <1>0, <2>2 DEF Close, RelayTyped, TypeOK
  <2> QED
    BY <2>1, <2>2
<1> QED
  BY <1>1, <1>2 DEF RelayTyped, TypeOK, HandEmpty, Bounded, Over

LEMMA RelayTypedGateway == RelayTyped /\ (Gateway \/ SelectFails) => RelayTyped'
<1> SUFFICES ASSUME RelayTyped, Gateway \/ SelectFails PROVE RelayTyped'
  OBVIOUS
<1>0. /\ ConvTimeout \in Nat /\ RetryMax \in Nat /\ ConvTimeout \in 0 .. ConvTimeout + 1
      /\ loop \in 0 .. ConvTimeout + 1 /\ retry \in 0 .. RetryMax + 1
      /\ 0 \in 0 .. RetryMax + 1 /\ 0 \in 0 .. ConvTimeout + 1
      /\ err \in {0, NormalFinal, TimedOut, LoginError, SockError, RfError, SockIoError, RfIoError}
  BY RelayAssumption DEF RelayTyped, TypeOK
<1> USE DEF RelayTyped, HandEmpty, Bounded, Over
<1>1. CASE Login
  BY <1>0, <1>1 DEF Login, Return, TypeOK, ends
<1>2. CASE Select \/ SelectFails
  BY <1>0, <1>2 DEF Select, SelectFails, Readable, TypeOK, ends
<1>3. CASE Peek
  BY <1>0, <1>3 DEF Peek, Return, TypeOK, ends
<1>4. ASSUME NEW e \in Side, NEW n \in 1 .. Len(queue[e]), Take(e, n), ~Over, retry' \in {retry, 0},
             UNCHANGED <<text, open, sent, got, ready>>, eaten' \subseteq Byte, buf' \in Seq(Byte),
             \/ pc' \in {"writerf", "writecms"}
             \/ pc' = "readcms" /\ buf' = <<>>
      PROVE  RelayTyped'
  <2> DEFINE r == SubSeq(queue[e], n + 1, Len(queue[e]))
  <2>1. /\ queue' = [queue EXCEPT ![e] = r] /\ r \in Seq(Byte) /\ Len(r) <= MaxQueue
        /\ read' \in Seq(Reading)
        /\ ff' \subseteq Side /\ loop' \in {0, ConvTimeout} /\ err' \in {err, NormalFinal}
    BY <1>4, Taken
  <2> HIDE DEF r
  <2>2. queue' \in [Side -> Seq(Byte)] /\ \A d \in Side : Len(queue'[d]) <= MaxQueue
    BY <2>1 DEF TypeOK
  <2>3. /\ pc' \in {"login", "select", "peek", "readcms", "writerf", "readrf",
                     "writecms", "pass", "returned", "killed"}
        /\ loop' \in 0 .. ConvTimeout + 1 /\ loop' <= ConvTimeout
        /\ retry' \in 0 .. RetryMax + 1 /\ retry' <= RetryMax
    BY <1>0, <1>4, <2>1
  <2>4. err' \in {0, NormalFinal}
    BY <1>4, <2>1
  <2>5. TypeOK'
    BY <1>4, <2>1, <2>2, <2>3, <2>4 DEF TypeOK, Reading
  <2> QED
    BY <1>4, <2>3, <2>4, <2>5
<1>5. CASE ReadCms
  <2>1. PICK n \in 1 .. Len(queue["cms"]) :
          LET b == SubSeq(queue["cms"], 1, n)
          IN  /\ Take("cms", n)
              /\ \/ eaten' = eaten \cup Values(b) /\ UNCHANGED <<pc, buf, retry>>
                 \/ pc' = "writerf" /\ buf' = b /\ retry' = 0 /\ eaten' = eaten
    BY <1>5 DEF ReadCms
  <2>2. pc = "readcms" /\ ~Over /\ buf = <<>> /\ UNCHANGED <<text, open, sent, got, ready>>
    BY <1>5 DEF ReadCms
  <2>3. /\ SubSeq(queue["cms"], 1, n) \in Seq(Byte)
        /\ Values(SubSeq(queue["cms"], 1, n)) \subseteq Byte
    BY <2>1, Taken, Sides
  <2>4. eaten' \subseteq Byte /\ buf' \in Seq(Byte)
    BY <2>1, <2>3 DEF TypeOK
  <2> QED
    BY <1>4, <2>1, <2>2, <2>4, Sides
<1>6. CASE CmsDrained
  BY <1>0, <1>6 DEF CmsDrained, TypeOK, ends
<1>7. ASSUME NEW e \in Side, NEW m \in 1 .. Len(buf), NEW back,
             pc \in {"writerf", "writecms"}, back \in {"readcms", "readrf"}, Written(e, m, back),
             retry' \in {retry, 0}, UNCHANGED <<ends, ready, ff, loop, err, eaten, read>>
      PROVE  RelayTyped'
  <2>1. /\ buf' \in Seq(Byte) /\ got' \in [Side -> Seq(Byte)]
        /\ (pc' = back /\ buf' = <<>>) \/ pc' = pc
    BY <1>7, Wrote
  <2>2. retry' \in 0 .. RetryMax + 1 /\ retry' <= RetryMax /\ loop' <= ConvTimeout
    BY <1>0, <1>7
  <2>3. TypeOK'
    BY <1>7, <2>1, <2>2 DEF TypeOK, ends
  <2> QED
    BY <1>7, <2>1, <2>2, <2>3
<1>8. CASE WriteRf
  <2>1. PICK m \in 1 .. Smaller(Paclen, Len(buf)) : Written("rf", m, "readcms")
    BY <1>8 DEF WriteRf
  <2>2. Paclen \in Nat /\ Len(buf) \in Nat
    BY RelayAssumption, LenProperties DEF TypeOK
  <2>3. m \in 1 .. Len(buf)
    BY <2>2 DEF Smaller
  <2> QED
    BY <1>7, <1>8, <2>1, <2>3, Sides DEF WriteRf
<1>9. CASE WriteRfAgain
  <2>1. retry' = retry + 1 /\ retry <= RetryMax /\ retry' \in 0 .. RetryMax + 1
    BY <1>0, <1>9 DEF WriteRfAgain
  <2>2. \/ pc' = "returned" /\ err' = RfIoError
        \/ retry' <= RetryMax /\ UNCHANGED <<pc, err>>
    BY <1>0, <1>9 DEF WriteRfAgain, Return
  <2>3. UNCHANGED <<ends, got, ready, buf, ff, loop, eaten, read>>
    BY <1>9 DEF WriteRfAgain
  <2>4. TypeOK'
    BY <2>1, <2>2, <2>3 DEF TypeOK, ends
  <2> QED
    BY <1>9, <2>1, <2>2, <2>3, <2>4 DEF WriteRfAgain
<1>10. ASSUME NEW e, NEW at, NEW code, WriteFails(e, at, code), code \in {RfIoError, SockIoError}
       PROVE  RelayTyped'
  BY <1>0, <1>10 DEF WriteFails, Return, TypeOK, ends
<1>11. CASE ReadRf
  <2>1. PICK n \in 1 .. Len(queue["rf"]) :
          Take("rf", n) /\ buf' = SubSeq(queue["rf"], 1, n)
    BY <1>11 DEF ReadRf
  <2>2. pc = "readrf" /\ pc' = "writecms" /\ UNCHANGED <<text, open, sent, got, ready, retry, eaten>>
    BY <1>11 DEF ReadRf
  <2>3. buf' \in Seq(Byte)
    BY <2>1, Taken, Sides
  <2> QED
    BY <1>4, <2>1, <2>2, <2>3, Sides DEF TypeOK
<1>12. CASE RfDrained
  BY <1>0, <1>12 DEF RfDrained, TypeOK, ends
<1>13. CASE Pass
  <2>1. /\ loop' = loop + 1 /\ loop' \in 0 .. ConvTimeout + 1
        /\ UNCHANGED <<ends, got, ready, buf, ff, retry, eaten, read>>
    BY <1>0, <1>13 DEF Pass
  <2>2. \/ pc' = "returned" /\ err' \in {0, TimedOut}
        \/ loop' <= ConvTimeout /\ pc' = "select" /\ err' = err
    BY <1>0, <1>13, <2>1 DEF Pass, Return, Expired
  <2>3. TypeOK'
    BY <2>1, <2>2 DEF TypeOK, ends
  <2> QED
    BY <1>13, <2>1, <2>2, <2>3 DEF Pass
<1>14. CASE WriteCms
  BY <1>7, <1>14, Sides DEF WriteCms
<1> QED
  BY <1>1, <1>2, <1>3, <1>5, <1>6, <1>8, <1>9, <1>10, <1>11, <1>12, <1>13, <1>14 DEF Gateway

LEMMA RelayTypedStep == RelayTyped /\ [Next]_vars => RelayTyped'
<1>1. RelayTyped /\ UNCHANGED vars => RelayTyped'
  BY DEF vars, RelayTyped, TypeOK, HandEmpty, Bounded, Over
<1> QED
  BY <1>1, RelayTypedPeers, RelayTypedGateway DEF Next

\* The types of the state, the pass and retry counts' limits included.
THEOREM RelayTypes == Spec => []TypeOK
<1>1. Spec => []RelayTyped
  BY RelayTypedInit, RelayTypedStep, PTL DEF Spec
<1>2. RelayTyped => TypeOK
  BY DEF RelayTyped
<1> QED
  BY <1>1, <1>2, PTL

(* ---- no byte is lost, repeated or overtaken ----------------------------- *)

ConservedAt(e) ==
    /\ InOrder(Path(e))
    /\ Ids(Path(e)) \cap Lost(e) = {}
    /\ Ids(Path(e)) \cup Lost(e) = 1 .. sent[e]

LEMMA PathParts ==
  ASSUME RelayTyped, NEW e \in Side
  PROVE  /\ got[Other(e)] \in Seq(Byte) /\ InHand(Other(e)) \in Seq(Byte) /\ queue[e] \in Seq(Byte)
         /\ got[Other(e)] \o InHand(Other(e)) \in Seq(Byte)
         /\ Path(e) \in Seq(Byte)
<1>1. /\ got[Other(e)] \in Seq(Byte) /\ InHand(Other(e)) \in Seq(Byte) /\ queue[e] \in Seq(Byte)
  BY Sides, EmptySeq DEF RelayTyped, TypeOK, InHand
<1>2. got[Other(e)] \o InHand(Other(e)) \in Seq(Byte)
  BY <1>1, ConcatProperties
<1> QED
  BY <1>1, <1>2, ConcatProperties DEF Path

\* A packet that an end sends is the last of its path.
LEMMA SentLast ==
  ASSUME RelayTyped, Conserved, NEW e \in Side, Send(e)
  PROVE  Conserved'
<1> DEFINE p == Head(text[e])
           l == Packet(p, sent[e])
           n == Len(p)
<1>0. /\ p \in Seq(Kind) /\ sent[e] \in Nat /\ sent \in [Side -> Nat]
      /\ queue \in [Side -> Seq(Byte)] /\ n \in Nat
      /\ queue' = [queue EXCEPT ![e] = @ \o l] /\ sent' = [sent EXCEPT ![e] = @ + n]
      /\ ~Over /\ UNCHANGED <<got, pc, buf, eaten>>
  <2>1. p \in Seq(Kind)
    BY Sending
  <2> QED
    BY <2>1, Sending, LenProperties DEF RelayTyped, TypeOK
<1>1. l \in Seq(Byte) /\ InOrder(l) /\ Ids(l) = sent[e] + 1 .. sent[e] + n
  BY <1>0, PacketIds
<1> HIDE DEF p, l, n
<1>2. \A d \in Side : InHand(d)' = InHand(d)
  BY <1>0 DEF InHand
<1>3. ASSUME NEW d \in Side, d # e PROVE ConservedAt(d)'
  <2>1. queue'[d] = queue[d] /\ sent'[d] = sent[d]
    BY <1>0, <1>3
  <2>2. Path(d)' = Path(d) /\ Lost(d)' = Lost(d)
    BY <1>0, <1>2, <2>1, Sides DEF Path, Lost
  <2> QED
    BY <1>0, <2>1, <2>2 DEF Conserved, ConservedAt
<1>4. ConservedAt(e)'
  <2> DEFINE q == Path(e)
  <2>1. Path(e)' = q \o l /\ q \in Seq(Byte)
    <3>1. queue'[e] = queue[e] \o l
      BY <1>0
    <3> DEFINE g == got[Other(e)] \o InHand(Other(e))
    <3>2. Path(e)' = g \o (queue[e] \o l) /\ q = g \o queue[e]
      BY <1>0, <1>2, <3>1, Sides DEF Path
    <3>3. g \in Seq(Byte) /\ queue[e] \in Seq(Byte)
      BY PathParts
    <3> HIDE DEF g, q
    <3> QED
      BY <1>1, <3>2, <3>3, Regroup, ConcatProperties
  <2>2. Lost(e)' = Lost(e)
    BY <1>0 DEF Lost
  <2>5. InOrder(q) /\ Ids(q) \cap Lost(e) = {} /\ Ids(q) \cup Lost(e) = 1 .. sent[e]
    BY <1>0 DEF Conserved
  <2> HIDE DEF q
  <2>6. Ids(q \o l) = Ids(q) \cup Ids(l)
    BY <1>1, <2>1, JoinIds
  <2>7. Earlier(Ids(q), Ids(l))
    BY <1>0, <1>1, <2>5 DEF Earlier
  <2>8. InOrder(q \o l)
    BY <1>1, <2>1, <2>5, <2>7, JoinOrder
  <2>9. sent'[e] = sent[e] + n
    BY <1>0
  <2>10. /\ 1 .. sent'[e] = (1 .. sent[e]) \cup Ids(l)
         /\ \A i \in Ids(l) : i \notin 1 .. sent[e]
    BY <1>0, <1>1, <2>9
  <2> QED
    BY <2>1, <2>2, <2>5, <2>6, <2>8, <2>10 DEF ConservedAt
<1> QED
  BY <1>3, <1>4 DEF Conserved, ConservedAt

\* A path that keeps its bytes, though they move along it, stays as it was.
LEMMA PathSame ==
  ASSUME Conserved, ~Over, UNCHANGED <<sent, eaten>>,
         \A e \in Side : Path(e)' = Path(e)
  PROVE  Conserved'
<1>1. \A e \in Side : Lost(e)' = Lost(e)
  BY DEF Lost
<1> QED
  BY <1>1 DEF Conserved

\* A read moves the first bytes of a queue into the buffer.
LEMMA ReadKeepsPath ==
  ASSUME RelayTyped, NEW e \in Side, NEW n \in 1 .. Len(queue[e]), Take(e, n),
         \A d \in Side : InHand(d) = <<>>,
         InHand(Other(e))' = SubSeq(queue[e], 1, n), InHand(e)' = <<>>,
         UNCHANGED <<sent, got>>
  PROVE  \A d \in Side : Path(d)' = Path(d)
<1> DEFINE b == SubSeq(queue[e], 1, n)
           r == SubSeq(queue[e], n + 1, Len(queue[e]))
           g == got[Other(e)]
<1>1. /\ b \in Seq(Byte) /\ r \in Seq(Byte) /\ b \o r = queue[e]
      /\ queue' = [queue EXCEPT ![e] = r]
  BY Taken DEF RelayTyped
<1>2. queue'[e] = r /\ queue'[Other(e)] = queue[Other(e)]
  BY <1>1, Sides DEF RelayTyped, TypeOK
<1>3. Path(e)' = (g \o b) \o r
  BY <1>2 DEF Path
<1>4. Path(e) = (g \o <<>>) \o (b \o r)
  BY <1>1, Sides DEF Path
<1>5. g \in Seq(Byte)
  BY PathParts
<1>6. Path(Other(e))' = Path(Other(e))
  BY <1>2, Sides DEF Path
<1> HIDE DEF b, r, g
<1>7. Path(e)' = Path(e)
  <2>1. g \o <<>> = g
    BY <1>5, ConcatEmptySeq
  <2>2. (g \o b) \o r = g \o (b \o r)
    BY <1>1, <1>5, Regroup
  <2> QED
    BY <1>3, <1>4, <2>1, <2>2
<1> QED
  BY <1>6, <1>7 DEF Side, Other

\* A buffer eaten by the keep-alive filter leaves the path of the CMS.
LEMMA EatenLost ==
  ASSUME RelayTyped, Conserved, ~Over, NEW n \in 1 .. Len(queue["cms"]), Take("cms", n),
         eaten' = eaten \cup Values(SubSeq(queue["cms"], 1, n)),
         UNCHANGED <<sent, got, pc, buf>>, buf = <<>>
  PROVE  Conserved'
<1> DEFINE b == SubSeq(queue["cms"], 1, n)
           r == SubSeq(queue["cms"], n + 1, Len(queue["cms"]))
           g == got["rf"]
<1>1. /\ b \in Seq(Byte) /\ r \in Seq(Byte) /\ b \o r = queue["cms"]
      /\ queue' = [queue EXCEPT !["cms"] = r]
  BY Taken, Sides DEF RelayTyped
<1>2. queue'["cms"] = r /\ queue'["rf"] = queue["rf"]
  BY <1>1, Sides DEF RelayTyped, TypeOK
<1>3. \A d \in Side : InHand(d) = <<>> /\ InHand(d)' = <<>>
  BY DEF InHand
<1>4. Path("cms") = (g \o <<>>) \o (b \o r) /\ Path("cms")' = (g \o <<>>) \o r
  BY <1>1, <1>2, <1>3, Sides DEF Path
<1>5. Path("rf")' = Path("rf") /\ Lost("rf")' = Lost("rf")
  BY <1>2, <1>3, Sides DEF Path, Lost
<1>6. g \in Seq(Byte)
  BY PathParts, Sides
<1>7. Lost("cms") = {l.id : l \in eaten} /\ Lost("cms")' = {l.id : l \in eaten \cup Values(b)}
  BY DEF Lost
<1>8. Lost("cms")' = Lost("cms") \cup Ids(b)
  BY <1>7 DEF Ids
<1> HIDE DEF b, r, g
<1>9. Path("cms") = g \o (b \o r) /\ Path("cms")' = g \o r /\ b \o r \in Seq(Byte)
  BY <1>1, <1>4, <1>6, ConcatEmptySeq, ConcatProperties
<1>10. /\ Ids(Path("cms")) = Ids(g) \cup Ids(b) \cup Ids(r)
       /\ Ids(Path("cms")') = Ids(g) \cup Ids(r)
  <2>1. Ids(g \o (b \o r)) = Ids(g) \cup Ids(b \o r)
    BY <1>6, <1>9, JoinIds
  <2>2. Ids(b \o r) = Ids(b) \cup Ids(r)
    BY <1>1, JoinIds
  <2>3. Ids(g \o r) = Ids(g) \cup Ids(r)
    BY <1>1, <1>6, JoinIds
  <2> QED
    BY <1>9, <2>1, <2>2, <2>3
<1>11. /\ InOrder(Path("cms")) /\ Ids(Path("cms")) \cap Lost("cms") = {}
       /\ Ids(Path("cms")) \cup Lost("cms") = 1 .. sent["cms"]
  BY Sides DEF Conserved
<1>12. /\ InOrder(g) /\ InOrder(b) /\ InOrder(r) /\ Earlier(Ids(b), Ids(r))
       /\ Earlier(Ids(g), Ids(b) \cup Ids(r))
  <2>1. InOrder(g) /\ InOrder(b \o r) /\ Earlier(Ids(g), Ids(b \o r))
    BY <1>6, <1>9, <1>11, JoinOrder
  <2>2. InOrder(b) /\ InOrder(r) /\ Earlier(Ids(b), Ids(r))
    BY <1>1, <2>1, JoinOrder
  <2>3. Ids(b \o r) = Ids(b) \cup Ids(r)
    BY <1>1, JoinIds
  <2> QED
    BY <2>1, <2>2, <2>3
<1>13. InOrder(Path("cms")')
  <2>1. Earlier(Ids(g), Ids(r))
    BY <1>12 DEF Earlier
  <2>2. InOrder(g \o r)
    BY <1>1, <1>6, <1>12, <2>1, JoinOrder
  <2> QED
    BY <1>9, <2>2
<1>14. (Ids(g) \cup Ids(r)) \cap Ids(b) = {}
  <2>1. Ids(g) \cup Ids(b) \cup Ids(r) \subseteq Int
    BY <1>10, <1>11
  <2>2. \A x \in Ids(b) : x \notin Ids(g) /\ x \notin Ids(r)
    BY <1>12, <2>1 DEF Earlier
  <2> QED
    BY <2>2
<1>15. ConservedAt("cms")'
  BY <1>8, <1>10, <1>11, <1>13, <1>14 DEF ConservedAt
<1>16. ConservedAt("rf")'
  BY <1>5, Sides DEF Conserved, ConservedAt
<1> QED
  BY <1>15, <1>16 DEF Conserved, ConservedAt, Side

\* A write moves the first bytes of the buffer to the end they are for.
LEMMA WriteKeepsPath ==
  ASSUME RelayTyped, NEW e \in Side, NEW m \in 1 .. Len(buf), NEW back,
         Written(Other(e), m, back), UNCHANGED queue,
         pc = IF Other(e) = "rf" THEN "writerf" ELSE "writecms",
         back \in {"readcms", "readrf"}
  PROVE  \A d \in Side : Path(d)' = Path(d)
<1> DEFINE b == SubSeq(buf, 1, m)
           g == got[Other(e)]
           q == queue[e]
<1>0. Other(e) \in Side /\ Other(Other(e)) = e /\ got \in [Side -> Seq(Byte)]
  BY Sides DEF RelayTyped, TypeOK
<1>1. /\ b \in Seq(Byte) /\ buf' \in Seq(Byte) /\ b \o buf' = buf
      /\ got' = [got EXCEPT ![Other(e)] = @ \o b]
      /\ \/ pc' = back /\ buf' = <<>>
         \/ pc' = pc
  BY <1>0, Wrote DEF RelayTyped
<1>2. got'[Other(e)] = g \o b /\ got'[e] = got[e]
  BY <1>0, <1>1, Sides
<1>3. InHand(Other(e)) = buf /\ InHand(Other(e))' = buf'
  BY <1>0, <1>1 DEF InHand, Side
<1>4. InHand(e) = <<>> /\ InHand(e)' = <<>>
  BY <1>0, <1>1 DEF InHand, Side, Other
<1>5. Path(e) = (g \o (b \o buf')) \o q
  BY <1>1, <1>3 DEF Path
<1>6. Path(e)' = ((g \o b) \o buf') \o q
  BY <1>2, <1>3 DEF Path
<1>7. g \in Seq(Byte)
  BY <1>0
<1>8. Path(Other(e))' = Path(Other(e))
  BY <1>0, <1>2, <1>4 DEF Path
<1> HIDE DEF b, g, q
<1>9. Path(e)' = Path(e)
  <2>1. (g \o b) \o buf' = g \o (b \o buf')
    BY <1>1, <1>7, Regroup
  <2> QED
    BY <1>5, <1>6, <2>1
<1> QED
  BY <1>8, <1>9 DEF Side, Other

LEMMA ConservedStep == RelayTyped /\ Conserved /\ [Next]_vars => Conserved'
<1> SUFFICES ASSUME RelayTyped, Conserved, [Next]_vars PROVE Conserved'
  OBVIOUS
<1>1. CASE Over'
  BY <1>1 DEF Conserved
<1>2. ASSUME UNCHANGED <<queue, sent, got, eaten>>, ~Over,
             \/ UNCHANGED <<pc, buf>>
             \/ {pc, pc'} \cap {"writerf", "writecms"} = {}
      PROVE  Conserved'
  <2>1. \A d \in Side : InHand(d)' = InHand(d)
    BY <1>2 DEF InHand
  <2>2. \A d \in Side : Path(d)' = Path(d)
    <3> SUFFICES ASSUME NEW d \in Side PROVE Path(d)' = Path(d)
      OBVIOUS
    <3>1. InHand(Other(d))' = InHand(Other(d))
      BY <2>1, Sides
    <3> QED
      BY <1>2, <3>1 DEF Path
  <2> QED
    BY <1>2, <2>2, PathSame
<1>3. ASSUME NEW e \in Side, Send(e) PROVE Conserved'
  BY <1>3, SentLast
<1>5. ASSUME NEW e \in Side, Close(e) PROVE Conserved'
  BY <1>2, <1>5 DEF Close
<1>6. CASE ReadCms
  <2>1. PICK n \in 1 .. Len(queue["cms"]) :
          LET b == SubSeq(queue["cms"], 1, n)
          IN  /\ Take("cms", n)
              /\ \/ eaten' = eaten \cup Values(b) /\ UNCHANGED <<pc, buf, retry>>
                 \/ pc' = "writerf" /\ buf' = b /\ retry' = 0 /\ eaten' = eaten
    BY <1>6 DEF ReadCms
  <2>2. pc = "readcms" /\ ~Over /\ buf = <<>> /\ UNCHANGED <<sent, got>>
    BY <1>6 DEF ReadCms, RelayTyped, HandEmpty, Over
  <2>3. CASE eaten' = eaten \cup Values(SubSeq(queue["cms"], 1, n)) /\ UNCHANGED <<pc, buf, retry>>
    BY <2>1, <2>2, <2>3, EatenLost
  <2>4. CASE pc' = "writerf" /\ buf' = SubSeq(queue["cms"], 1, n) /\ eaten' = eaten
    <3>1. \A d \in Side : InHand(d) = <<>>
      BY <2>2 DEF InHand
    <3>2. InHand(Other("cms"))' = SubSeq(queue["cms"], 1, n) /\ InHand("cms")' = <<>>
      BY <2>4, Sides DEF InHand
    <3>3. \A d \in Side : Path(d)' = Path(d)
      BY <2>1, <2>2, <3>1, <3>2, ReadKeepsPath, Sides
    <3> QED
      BY <2>2, <2>4, <3>3, PathSame
  <2> QED
    BY <2>1, <2>3, <2>4
<1>7. CASE ReadRf
  <2>1. PICK n \in 1 .. Len(queue["rf"]) :
          Take("rf", n) /\ buf' = SubSeq(queue["rf"], 1, n)
    BY <1>7 DEF ReadRf
  <2>2. pc = "readrf" /\ ~Over /\ pc' = "writecms" /\ UNCHANGED <<sent, got, eaten>>
    BY <1>7 DEF ReadRf, Over
  <2>3. \A d \in Side : InHand(d) = <<>>
    BY <2>2 DEF InHand
  <2>4. InHand(Other("rf"))' = SubSeq(queue["rf"], 1, n) /\ InHand("rf")' = <<>>
    BY <2>1, <2>2, Sides DEF InHand
  <2>5. \A d \in Side : Path(d)' = Path(d)
    BY <2>1, <2>2, <2>3, <2>4, ReadKeepsPath, Sides
  <2> QED
    BY <2>2, <2>5, PathSame
<1>8. CASE WriteRf
  <2>1. PICK m \in 1 .. Smaller(Paclen, Len(buf)) : Written("rf", m, "readcms")
    BY <1>8 DEF WriteRf
  <2>2. Paclen \in Nat /\ Len(buf) \in Nat
    BY RelayAssumption, LenProperties DEF RelayTyped, TypeOK
  <2>3. m \in 1 .. Len(buf)
    BY <2>2 DEF Smaller
  <2>4. pc = "writerf" /\ ~Over /\ UNCHANGED <<queue, sent, eaten>>
    BY <1>8 DEF WriteRf, Over, ends
  <2>5. \A d \in Side : Path(d)' = Path(d)
    BY <2>1, <2>3, <2>4, WriteKeepsPath, Sides
  <2> QED
    BY <2>4, <2>5, PathSame
<1>9. CASE WriteCms
  <2>1. PICK m \in 1 .. Len(buf) : Written("cms", m, "readrf")
    BY <1>9 DEF WriteCms
  <2>2. pc = "writecms" /\ ~Over /\ UNCHANGED <<queue, sent, eaten>>
    BY <1>9 DEF WriteCms, Over, ends
  <2>3. \A d \in Side : Path(d)' = Path(d)
    BY <2>1, <2>2, WriteKeepsPath, Sides
  <2> QED
    BY <2>2, <2>3, PathSame
<1>10. CASE Login \/ Select \/ SelectFails \/ Peek \/ CmsDrained \/ RfDrained \/ Pass
  <2>1. UNCHANGED <<queue, sent, got, eaten>> /\ ~Over /\ {pc, pc'} \cap {"writerf", "writecms"} = {}
    BY <1>10 DEF Login, Select, SelectFails, Peek, CmsDrained, RfDrained, Pass, Return, ends, Over
  <2> QED
    BY <1>2, <2>1
<1>11. CASE WriteRfAgain
  <2>1. UNCHANGED <<queue, sent, got, eaten>> /\ ~Over /\ (Over' \/ UNCHANGED <<pc, buf>>)
    BY <1>11 DEF WriteRfAgain, Return, ends, Over
  <2> QED
    BY <1>1, <1>2, <2>1
<1>12. ASSUME NEW e, NEW at, NEW code, WriteFails(e, at, code) PROVE Conserved'
  BY <1>1, <1>12 DEF WriteFails, Return, Over
<1>13. CASE UNCHANGED vars
  <2>1. Over' = Over /\ UNCHANGED <<queue, sent, got, eaten, pc, buf>>
    BY <1>13 DEF vars, ends, Over
  <2> QED
    BY <1>1, <1>2, <2>1
<1> QED
  BY <1>3, <1>5, <1>6, <1>7, <1>8, <1>9, <1>10, <1>11, <1>12, <1>13 DEF Next, Gateway, Peers

LEMMA ConservedInit == Init => Conserved
<1> SUFFICES ASSUME Init, NEW e \in Side PROVE ConservedAt(e)
  BY DEF Conserved, ConservedAt
<1>1. got[Other(e)] = <<>> /\ InHand(Other(e)) = <<>> /\ queue[e] = <<>> /\ sent[e] = 0 /\ eaten = {}
  BY Sides DEF Init, InHand
<1>2. Path(e) = <<>>
  BY <1>1 DEF Path
<1>3. Ids(<<>>) = {} /\ InOrder(<<>>)
  BY DEF Ids, Values, InOrder
<1>4. Lost(e) = {} /\ 1 .. sent[e] = {}
  BY <1>1 DEF Lost
<1> QED
  BY <1>2, <1>3, <1>4 DEF ConservedAt

\* Until a write fails, every byte sent is exactly once with the other end, in
\* the buffer, unread or eaten with a keep-alive, and in the order sent.
THEOREM BytesConserved == Spec => []Conserved
<1>1. Init => RelayTyped /\ Conserved
  BY RelayTypedInit, ConservedInit
<1>2. RelayTyped /\ Conserved /\ [Next]_vars => (RelayTyped /\ Conserved)'
  BY RelayTypedStep, ConservedStep
<1>3. RelayTyped /\ Conserved => Conserved
  OBVIOUS
<1> QED
  BY <1>1, <1>2, <1>3, PTL DEF Spec

(* ---- how a conversation ends -------------------------------------------- *)

TurnOf(e) == [end |-> e, look |-> "turn"]

\* A buffer of e was taken for FF, and no other three bytes have come from the other
\* end since.
Stands(e) ==
    \E i \in 1 .. Len(read) :
      /\ read[i].end = e /\ read[i].look \in {"FF", "short"}
      /\ \A k \in i .. Len(read) : read[k] # TurnOf(Other(e))

\* sense and errcode say no more than what was read.
Sensed ==
    /\ \A e \in ff : Stands(e)
    /\ err = NormalFinal => Finished

\* What has been read stays, whatever else is read.
LEMMA FinishedStays ==
  ASSUME Finished, Len(read) \in Nat, Len(read') \in Nat, Len(read) <= Len(read'),
         \A k \in 1 .. Len(read) : read'[k] = read[k]
  PROVE  Finished'
<1>1. PICK i \in 1 .. Len(read), j \in 1 .. Len(read) :
        /\ i < j /\ read[j].end = Other(read[i].end)
        /\ read[i].look \in {"FF", "short"} /\ read[j].look = "FQ"
        /\ \A k \in i .. j : read[k] # [end |-> read[j].end, look |-> "turn"]
  BY DEF Finished
<1>2. /\ i \in 1 .. Len(read') /\ j \in 1 .. Len(read')
      /\ read'[i] = read[i] /\ read'[j] = read[j]
      /\ \A k \in i .. j : read'[k] = read[k]
  OBVIOUS
<1>3. \A k \in i .. j : read'[k] # [end |-> read'[j].end, look |-> "turn"]
  <2> DEFINE x == [end |-> read[j].end, look |-> "turn"]
  <2>1. /\ \A k \in i .. j : read[k] # x
        /\ x = [end |-> read'[j].end, look |-> "turn"]
    BY <1>1, <1>2
  <2> HIDE DEF x
  <2>2. \A k \in i .. j : read'[k] # x
    BY <1>2, <2>1
  <2> QED
    BY <2>1, <2>2
<1> QED
  BY <1>1, <1>2, <1>3 DEF Finished

\* A read leaves what was read before, and adds what sense() saw in it.
LEMMA ReadSensed ==
  ASSUME RelayTyped, Sensed, NEW e \in Side, NEW n \in 1 .. Len(queue[e]), Take(e, n)
  PROVE  Sensed'
<1> DEFINE L == Look(SubSeq(queue[e], 1, n))
           x == [end |-> e, look |-> L]
           N == Len(read)
<1>0. read \in Seq(Reading) /\ N \in Nat /\ ff \subseteq Side
  BY LenProperties DEF RelayTyped, TypeOK, Reading
<1>1. Sense(e, L) /\ read' = IF L = "data" THEN read ELSE Append(read, x)
  BY DEF Take
<1>2. L \in {"FF", "FQ", "turn", "short", "data"}
  BY Looks
<1> HIDE DEF L
<1>3. /\ ff' \subseteq ff \cup {e}
      /\ L = "turn" => ff' = ff \ {Other(e)}
      /\ L \in {"FQ", "data"} => ff' = ff
      /\ err' = err \/ (L = "FQ" /\ Other(e) \in ff)
  BY <1>1, <1>2 DEF Sense, Cleared
<1>4. CASE L = "data"
  <2>1. read' = read /\ ff' = ff /\ err' = err
    BY <1>1, <1>3, <1>4
  <2>2. (\A d : Stands(d)' = Stands(d)) /\ Finished' = Finished
    BY <2>1 DEF Stands, Finished
  <2> QED
    BY <2>1, <2>2 DEF Sensed
<1>5. CASE L # "data"
  <2>1. /\ Len(read') = N + 1 /\ read'[N + 1] = x
        /\ \A k \in 1 .. N : read'[k] = read[k]
    <3> HIDE DEF x
    <3>1. read' = Append(read, x)
      BY <1>1, <1>5
    <3> QED
      BY <1>0, <3>1
  <2>2. x.end = e /\ x.look = L
    OBVIOUS
  <2> HIDE DEF x
  <2>3. ASSUME NEW d \in ff, d \in ff' PROVE Stands(d)'
    <3>1. PICK i \in 1 .. N :
            /\ read[i].end = d /\ read[i].look \in {"FF", "short"}
            /\ \A k \in i .. N : read[k] # TurnOf(Other(d))
      BY DEF Sensed, Stands
    <3>2. x # TurnOf(Other(d))
      <4>1. CASE L = "turn"
        BY <1>0, <1>3, <2>2, <2>3, <4>1, Sides DEF TurnOf
      <4>2. CASE L # "turn"
        BY <2>2, <4>2 DEF TurnOf
      <4> QED
        BY <4>1, <4>2
    <3>3. \A k \in i .. N + 1 : read'[k] # TurnOf(Other(d))
      <4> SUFFICES ASSUME NEW k \in i .. N + 1 PROVE read'[k] # TurnOf(Other(d))
        OBVIOUS
      <4>1. k = N + 1 \/ (k \in i .. N /\ k \in 1 .. N)
        BY <1>0
      <4> QED
        BY <2>1, <3>1, <3>2, <4>1
    <3>4. i \in 1 .. N + 1 /\ read'[i] = read[i]
      BY <1>0, <2>1
    <3> QED
      BY <2>1, <3>1, <3>3, <3>4 DEF Stands
  <2>4. ASSUME e \in ff', e \notin ff PROVE Stands(e)'
    <3>1. L \in {"FF", "short"}
      BY <1>2, <1>3, <1>5, <2>4
    <3>2. x # TurnOf(Other(e))
      BY <2>2, <3>1 DEF TurnOf
    <3>3. N + 1 \in 1 .. N + 1 /\ \A k \in N + 1 .. N + 1 : k = N + 1
      BY <1>0
    <3> QED
      BY <2>1, <2>2, <3>1, <3>2, <3>3 DEF Stands
  <2>5. \A d \in ff' : Stands(d)'
    BY <1>3, <2>3, <2>4
  <2>6. Finished => Finished'
    BY <1>0, <2>1, FinishedStays
  <2>7. ASSUME L = "FQ", Other(e) \in ff PROVE Finished'
    <3>1. PICK i \in 1 .. N :
            /\ read[i].end = Other(e) /\ read[i].look \in {"FF", "short"}
            /\ \A k \in i .. N : read[k] # TurnOf(e)
      BY <2>7, Sides DEF Sensed, Stands
    <3>2. \A k \in i .. N + 1 : read'[k] # TurnOf(e)
      <4> SUFFICES ASSUME NEW k \in i .. N + 1 PROVE read'[k] # TurnOf(e)
        OBVIOUS
      <4>1. k = N + 1 \/ (k \in i .. N /\ k \in 1 .. N)
        BY <1>0
      <4>2. x # TurnOf(e)
        BY <2>2, <2>7 DEF TurnOf
      <4> QED
        BY <2>1, <3>1, <4>1, <4>2
    <3>3. /\ i \in 1 .. N + 1 /\ N + 1 \in 1 .. N + 1 /\ i < N + 1
          /\ read'[i] = read[i] /\ read'[N + 1].end = e /\ read'[N + 1].look = "FQ"
      BY <1>0, <2>1, <2>2, <2>7
    <3> QED
      BY <2>1, <3>1, <3>2, <3>3, Sides DEF Finished, TurnOf
  <2> QED
    BY <1>3, <2>5, <2>6, <2>7 DEF Sensed
<1> QED
  BY <1>4, <1>5

LEMMA SensedStep == RelayTyped /\ Sensed /\ [Next]_vars => Sensed'
<1> SUFFICES ASSUME RelayTyped, Sensed, [Next]_vars PROVE Sensed'
  OBVIOUS
<1>1. CASE UNCHANGED <<ff, read>> /\ (err' = err \/ err' # NormalFinal)
  <2>1. ASSUME NEW e \in ff, Stands(e) PROVE Stands(e)'
    BY <1>1, <2>1, Zenon DEF Stands
  <2>2. Finished => Finished'
    BY <1>1, Zenon DEF Finished
  <2>3. ff' = ff /\ (err' = NormalFinal => err = NormalFinal)
    BY <1>1
  <2> QED
    BY <2>1, <2>2, <2>3, Zenon DEF Sensed
<1>2. CASE ReadCms \/ ReadRf
  BY <1>2, ReadSensed, Sides DEF ReadCms, ReadRf
<1>3. CASE Peers
  BY <1>1, <1>3 DEF Peers, Send, Close
<1>4. CASE Login \/ Select \/ SelectFails \/ Peek \/ CmsDrained \/ RfDrained \/ Pass
  BY <1>1, <1>4 DEF Login, Select, SelectFails, Peek, CmsDrained, RfDrained, Pass, Return,
       NormalFinal, TimedOut, LoginError, SockError, RfError
<1>5. CASE WriteRf \/ WriteCms
  BY <1>1, <1>5 DEF WriteRf, WriteCms
<1>6. CASE WriteRfAgain
  BY <1>1, <1>6 DEF WriteRfAgain, Return, NormalFinal, RfIoError
<1>7. CASE \/ WriteFails("rf", "writerf", RfIoError)
           \/ WriteFails("cms", "writecms", SockIoError)
  BY <1>1, <1>7 DEF WriteFails, Return, NormalFinal, RfIoError, SockIoError
<1>8. CASE UNCHANGED vars
  BY <1>1, <1>8 DEF vars
<1> QED
  BY <1>2, <1>3, <1>4, <1>5, <1>6, <1>7, <1>8 DEF Next, Gateway

\* What is conserved, with nothing in hand, has been delivered or is unread.
LEMMA ConservedDelivered ==
  ASSUME RelayTyped, Conserved, ~Over, buf = <<>>, NEW e \in Side
  PROVE  Delivered(e)
<1> DEFINE g == got[Other(e)]
           q == queue[e]
<1>1. InHand(Other(e)) = <<>>
  BY DEF InHand
<1>2. g \in Seq(Byte) /\ q \in Seq(Byte)
  BY PathParts
<1>3. Path(e) = (g \o <<>>) \o q
  BY <1>1 DEF Path
<1>4. InOrder(Path(e)) /\ Ids(Path(e)) \cup Lost(e) = 1 .. sent[e]
  BY DEF Conserved
<1> HIDE DEF g, q
<1>5. Path(e) = g \o q
  BY <1>2, <1>3, ConcatEmptySeq
<1>6. InOrder(g) /\ Ids(Path(e)) = Ids(g) \cup Ids(q)
  BY <1>2, <1>4, <1>5, JoinOrder, JoinIds
<1> QED
  BY <1>4, <1>6 DEF Delivered, g, q

EndInv == RelayTyped /\ Conserved /\ Sensed /\ DeliveredAtEnd /\ GoodMeansFinished

\* gateway() returns errcode 0 or a time-out from two places only: the peek that finds
\* the CMS gone, and the pass after the last that was allowed.
LEMMA EndStep == EndInv /\ [Next]_vars => DeliveredAtEnd' /\ GoodMeansFinished'
<1> SUFFICES ASSUME EndInv, [Next]_vars PROVE DeliveredAtEnd' /\ GoodMeansFinished'
  OBVIOUS
<1>0. ConvTimeout \in Nat /\ loop \in Int
  BY RelayAssumption DEF EndInv, RelayTyped, TypeOK
<1>1. CASE ~(pc' = "returned" /\ err' \in {0, TimedOut})
  BY <1>1 DEF DeliveredAtEnd, GoodMeansFinished
<1>2. ASSUME pc \in {"peek", "pass"}, UNCHANGED <<ends, got, buf, eaten>>
      PROVE  \A e \in Side : Delivered(e)'
  <2>1. ~Over /\ buf = <<>>
    BY <1>2 DEF EndInv, RelayTyped, HandEmpty, Over
  <2>2. \A e \in Side : Delivered(e)
    BY <2>1, ConservedDelivered DEF EndInv
  <2>3. \A e \in Side : Delivered(e)' = Delivered(e)
    BY <1>2 DEF Delivered, Lost, ends
  <2> QED
    BY <2>2, <2>3
<1>3. CASE Peek
  <2>1. CASE Closed /\ Return(0)
    <3>1. /\ queue["cms"] = <<>> /\ ~open["cms"] /\ pc = "peek"
          /\ UNCHANGED <<ends, got, buf, eaten>>
      BY <1>3, <2>1 DEF Closed, Peek
    <3>2. \A e \in Side : Delivered(e)'
      BY <1>2, <3>1
    <3>3. Ids(queue["cms"])' = {}
      BY <3>1 DEF Ids, Values, ends
    <3>4. (Ids(got["rf"]) \cup Lost("cms") = 1 .. sent["cms"])'
      BY <3>2, <3>3, Sides DEF Delivered
    <3>5. ~open'["cms"]
      BY <3>1 DEF ends
    <3> QED
      BY <3>2, <3>4, <3>5 DEF DeliveredAtEnd, GoodMeansFinished
  <2>2. CASE pc' \in {"readcms", "killed"}
    BY <1>1, <2>2
  <2> QED
    BY <1>3, <2>1, <2>2 DEF Peek
<1>4. CASE Pass
  <2>1. CASE pc' = "returned"
    <3>1. /\ Expired(loop + 1) /\ loop' = loop + 1 /\ read' = read /\ pc = "pass"
          /\ err' = 0 => err = NormalFinal
          /\ UNCHANGED <<ends, got, buf, eaten>>
      BY <1>4, <2>1 DEF Pass, Return, TimedOut
    <3>2. ~(loop' <= ConvTimeout)
      BY <1>0, <3>1 DEF Expired
    <3>3. err' = 0 => Finished'
      BY <3>1 DEF EndInv, Sensed, Finished
    <3> QED
      BY <1>2, <3>1, <3>2, <3>3 DEF DeliveredAtEnd, GoodMeansFinished
  <2> QED
    BY <1>1, <2>1
<1>5. CASE Over /\ UNCHANGED vars
  BY <1>5 DEF vars, ends, EndInv, DeliveredAtEnd, Delivered, Lost, GoodMeansFinished, Finished
<1>6. CASE Peers \/ (~Over /\ UNCHANGED vars)
  <2>1. pc' # "returned"
    BY <1>6 DEF Peers, Send, Close, Over, vars
  <2> QED
    BY <1>1, <2>1
<1>7. CASE Login
  BY <1>1, <1>7 DEF Login, Return, LoginError, SockError, RfError, TimedOut
<1>8. CASE Select \/ SelectFails \/ ReadCms \/ CmsDrained \/ ReadRf \/ RfDrained
  <2>1. pc' # "returned"
    BY <1>8 DEF Select, SelectFails, ReadCms, CmsDrained, ReadRf, RfDrained
  <2> QED
    BY <1>1, <2>1
<1>9. CASE WriteRf \/ WriteCms
  <2>1. pc' # "returned"
    BY <1>9 DEF WriteRf, WriteCms, Written
  <2> QED
    BY <1>1, <2>1
<1>10. CASE WriteRfAgain
  <2>1. pc' # "returned" \/ err' \notin {0, TimedOut}
    BY <1>10 DEF WriteRfAgain, Return, RfIoError, TimedOut
  <2> QED
    BY <1>1, <2>1
<1>11. CASE \/ WriteFails("rf", "writerf", RfIoError)
            \/ WriteFails("cms", "writecms", SockIoError)
  <2>1. pc' # "returned" \/ err' \notin {0, TimedOut}
    BY <1>11 DEF WriteFails, Return, RfIoError, SockIoError, TimedOut
  <2> QED
    BY <1>1, <2>1
<1> QED
  BY <1>3, <1>4, <1>5, <1>6, <1>7, <1>8, <1>9, <1>10, <1>11 DEF Next, Gateway

LEMMA EndInvariant == Spec => []EndInv
<1>1. Init => Sensed /\ DeliveredAtEnd /\ GoodMeansFinished
  BY DEF Init, Sensed, DeliveredAtEnd, GoodMeansFinished, NormalFinal
<1>2. Init => EndInv
  BY <1>1, RelayTypedInit, ConservedInit DEF EndInv
<1>3. EndInv /\ [Next]_vars => EndInv'
  BY RelayTypedStep, ConservedStep, SensedStep, EndStep DEF EndInv
<1> QED
  BY <1>2, <1>3, PTL DEF Spec

\* A conversation that ends without an error has delivered, in order, all it has
\* read and not eaten; if it ends because the CMS closed, all the CMS has sent.
THEOREM EndDelivers == Spec => []DeliveredAtEnd
<1>1. EndInv => DeliveredAtEnd
  BY DEF EndInv
<1> QED
  BY <1>1, EndInvariant, PTL

\* A session reported as good ended with the CMS closing, or with the FQ of one
\* end while the FF of the other stood.
THEOREM GoodIsFinished == Spec => []GoodMeansFinished
<1>1. EndInv => GoodMeansFinished
  BY DEF EndInv
<1> QED
  BY <1>1, EndInvariant, PTL
=============================================================================
