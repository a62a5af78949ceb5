----------------------------- MODULE SendRfProofs -----------------------------
(***************************************************************************)
(* Proofs about SendRf, for every length of the message, every bound on    *)
(* the retries and every way of splitting and refusing the writes.         *)
(***************************************************************************)
EXTENDS SendRf, TLAPS

(***************************************************************************)
(* buf may move back, but whatever lies before it has been written,        *)
(* and buf and nleft always add up to the message.                         *)
(***************************************************************************)
OnWire(b) == \E j \in 1 .. Len(wire) : wire[j] = b

Behind ==
    /\ pc = "alloc" => wire = <<>> /\ buf = 0 /\ again = 0 /\ retry = 0
    /\ pc = "write" => retry <= RetryMax
    /\ pc = "sent" => nleft = 0
    /\ buf + nleft = slen
    /\ \A b \in 1 .. buf : OnWire(b)
    /\ pc # "failed" => buf = Len(wire) - again

SendInv == TypeOK /\ Behind /\ NothingLeftOut

LEMMA LengthOfMessage == slen \in Nat
  BY SendAssumption DEF slen

LEMMA SendInvInit == Init => SendInv
<1> SUFFICES ASSUME Init PROVE SendInv
  OBVIOUS
<1>1. TypeOK
  BY LengthOfMessage, SendAssumption DEF Init, TypeOK
<1>2. Behind
  BY LengthOfMessage, SendAssumption DEF Init, Behind
<1>3. NothingLeftOut
  BY DEF Init, NothingLeftOut
<1> QED
  BY <1>1, <1>2, <1>3 DEF SendInv

LEMMA Elements ==
  ASSUME NEW S, NEW s \in Seq(S)
  PROVE  s \in [1 .. Len(s) -> S] /\ Len(s) \in Nat
OBVIOUS

LEMMA SequenceOf ==
  ASSUME NEW T, NEW s \in Seq(Int), \A i \in 1 .. Len(s) : s[i] \in T
  PROVE  s \in Seq(T)
OBVIOUS

\* What one write() appends: the bytes behind buf, after all that was there.
LEMMA Appended ==
  ASSUME NEW n \in Nat \ {0}, wire \in Seq(Int), buf \in Int,
         wire' = wire \o [i \in 1 .. n |-> buf + i]
  PROVE  /\ wire' \in Seq(Int) /\ Len(wire') = Len(wire) + n
         /\ \A i \in 1 .. Len(wire) : wire'[i] = wire[i]
         /\ \A i \in Len(wire) + 1 .. Len(wire) + n : wire'[i] = buf + (i - Len(wire))
<1> DEFINE piece == [i \in 1 .. n |-> buf + i]
<1>1. piece \in Seq(Int) /\ Len(piece) = n
  OBVIOUS
<1>2. \A i \in 1 .. n : piece[i] = buf + i
  OBVIOUS
<1> HIDE DEF piece
<1>3. wire' = wire \o piece
  BY DEF piece
<1> QED
  BY <1>1, <1>2, <1>3

LEMMA WriteKeeps == SendInv /\ Write => SendInv'
<1> SUFFICES ASSUME SendInv, Write PROVE SendInv'
  OBVIOUS
<1>1. PICK n \in 1 .. nleft : /\ wire' = wire \o [i \in 1 .. n |-> buf + i]
                              /\ nleft' = nleft - n /\ buf' = buf + n
  BY DEF Write, Advance
<1>2. /\ pc = "write" /\ pc' = pc /\ again' = again /\ retry' = 0
      /\ buf \in Int /\ nleft \in Nat /\ again \in Nat /\ n \in Nat \ {0}
      /\ wire \in Seq(Int) /\ buf + nleft = slen /\ slen \in Nat
      /\ buf >= -again /\ n <= nleft
  BY <1>1, LengthOfMessage, SendAssumption DEF Write, SendInv, TypeOK, Behind
<1>3. PICK len \in Nat :
        /\ len = Len(wire) /\ Len(wire') = len + n /\ wire' \in Seq(Int)
        /\ \A i \in 1 .. len : wire'[i] = wire[i]
        /\ \A i \in len + 1 .. len + n : wire'[i] = buf + (i - len)
  BY <1>1, <1>2, Appended, Elements
<1>4. \A k \in 1 .. n : len + k \in len + 1 .. len + n /\ wire'[len + k] = buf + k
  <2> TAKE k \in 1 .. n
  <2>1. len + k \in len + 1 .. len + n /\ (len + k) - len = k
    BY <1>2
  <2> QED
    BY <1>3, <2>1
<1>5. TypeOK'
  <2>1. \A i \in 1 .. len : wire[i] \in (-again + 1) .. slen
    BY <1>3, Elements DEF SendInv, TypeOK
  <2>2. \A i \in 1 .. len + n : wire'[i] \in (-again + 1) .. slen
    <3> TAKE i \in 1 .. len + n
    <3>1. CASE i <= len
      BY <1>2, <1>3, <2>1, <3>1
    <3>2. CASE i > len
      <4>1. PICK k \in 1 .. n : i = len + k
        <5>1. i - len \in 1 .. n /\ i = len + (i - len)
          BY <1>2, <1>3, <3>2
        <5> QED
          BY <5>1
      <4>2. wire'[i] = buf + k
        BY <1>4, <4>1
      <4>3. buf + k >= -again + 1 /\ buf + k <= slen /\ buf + k \in Int
        BY <1>2
      <4> QED
        BY <1>2, <4>2, <4>3
    <3> QED
      BY <1>2, <3>1, <3>2
  <2>3. wire' \in Seq((-again + 1) .. slen)
    BY <1>3, <2>2, SequenceOf
  <2> QED
    BY <1>1, <1>2, <2>3, SendAssumption DEF SendInv, TypeOK, slen
<1>6. \A b \in 1 .. buf' : OnWire(b)'
  <2> SUFFICES ASSUME NEW b \in 1 .. buf + n PROVE OnWire(b)'
    BY <1>1
  <2>1. CASE b <= buf
    <3>0. b \in 1 .. buf /\ \A x \in 1 .. buf : OnWire(x)
      <4>1. b \in 1 .. buf
        BY <1>2, <2>1
      <4> QED
        BY <4>1 DEF SendInv, Behind
    <3>1. PICK j \in 1 .. len : wire[j] = b
      BY <1>3, <3>0 DEF OnWire
    <3>2. j \in 1 .. len + n /\ wire'[j] = b
      BY <1>2, <1>3, <3>1
    <3> QED
      BY <1>3, <3>2 DEF OnWire
  <2>2. CASE b > buf
    <3>1. PICK k \in 1 .. n : b = buf + k
      BY <1>2, <2>2
    <3>2. len + k \in 1 .. len + n /\ wire'[len + k] = b
      BY <1>2, <1>3, <1>4, <3>1
    <3> QED
      BY <1>3, <3>2 DEF OnWire
  <2> QED
    BY <1>2, <2>1, <2>2
<1>7. Behind'
  <2>1. buf = Len(wire) - again
    BY <1>2 DEF SendInv, Behind
  <2>2. buf' = Len(wire') - again' /\ buf' + nleft' = slen
    <3>1. buf' = buf + n /\ nleft' = nleft - n
      BY <1>1
    <3>2. len \in Nat /\ Len(wire) = len /\ Len(wire') = len + n
      BY <1>3
    <3>3. /\ again' = again /\ buf + nleft = slen
          /\ buf \in Int /\ nleft \in Int /\ again \in Int /\ n \in Int
      BY <1>2
    <3> QED
      BY <2>1, <3>1, <3>2, <3>3
  <2>3. slen' = slen
    BY DEF slen
  <2> QED
    BY <1>2, <1>6, <2>2, <2>3, SendAssumption DEF Behind
<1>8. ASSUME NEW i \in 1 .. len + n
      PROVE  /\ wire'[i] <= slen
             /\ wire'[i] > 1 => \E j \in 1 .. i - 1 : wire'[j] = wire'[i] - 1
  <2>1. CASE i <= len
    <3>1. i \in 1 .. len /\ \A j \in 1 .. i - 1 : j \in 1 .. len
      BY <1>3, <2>1
    <3>2. wire[i] <= slen
      BY <1>2, <1>3, <3>1, Elements DEF SendInv, TypeOK
    <3>3. wire[i] > 1 => \E j \in 1 .. i - 1 : wire[j] = wire[i] - 1
      BY <1>3, <3>1 DEF SendInv, NothingLeftOut
    <3> QED
      BY <1>3, <3>1, <3>2, <3>3
  <2>2. CASE i = len + 1
    <3>1. wire'[i] = buf + 1
      BY <1>2, <1>4, <2>2
    <3>2. buf > 0 => \E j \in 1 .. len : wire'[j] = buf
      <4>1. buf > 0 => buf \in 1 .. buf
        BY <1>2
      <4>2. \A b \in 1 .. buf : \E j \in 1 .. len : wire[j] = b
        BY <1>3 DEF SendInv, Behind, OnWire
      <4> QED
        BY <1>3, <4>1, <4>2
    <3>3. i - 1 = len /\ wire'[i] - 1 = buf /\ wire'[i] <= slen
      BY <1>2, <2>2, <3>1
    <3> QED
      BY <1>2, <3>1, <3>2, <3>3
  <2>3. CASE i > len + 1
    <3>1. PICK k \in 1 .. n : i = len + k /\ k > 1
      <4>1. i - len \in 1 .. n /\ i = len + (i - len) /\ i - len > 1
        BY <1>2, <1>3, <2>3
      <4> QED
        BY <4>1
    <3>2. wire'[i] = buf + k /\ wire'[i - 1] = buf + (k - 1)
      <4>1. k - 1 \in 1 .. n /\ len + (k - 1) = i - 1
        BY <1>2, <3>1
      <4> QED
        BY <1>4, <3>1, <4>1
    <3>3. i - 1 \in 1 .. i - 1 /\ wire'[i - 1] = wire'[i] - 1
      BY <1>2, <2>3, <3>1, <3>2
    <3>4. wire'[i] <= slen
      BY <1>2, <3>2
    <3> QED
      BY <3>3, <3>4
  <2> QED
    BY <1>2, <1>3, <2>1, <2>2, <2>3
<1>9. ASSUME NEW i \in 1 .. len + n PROVE wire'[i] \in i - again .. i
  <2>1. CASE i <= len
    BY <1>3, <2>1 DEF SendInv, NothingLeftOut
  <2>2. CASE i > len
    <3>1. PICK k \in 1 .. n : i = len + k
      <4>1. i - len \in 1 .. n /\ i = len + (i - len)
        BY <1>2, <1>3, <2>2
      <4> QED
        BY <4>1
    <3>2. wire'[i] = buf + k /\ buf = len - again
      BY <1>2, <1>3, <1>4, <3>1 DEF SendInv, Behind
    <3> QED
      BY <1>2, <1>3, <3>1, <3>2
  <2> QED
    BY <1>2, <1>3, <2>1, <2>2
<1>10. ASSUME NEW i \in 1 .. len + n, wire'[i] > Size PROVE AddEol /\ wire'[i] = Size + 1
  <2>1. wire'[i] <= slen /\ wire'[i] \in Int
    BY <1>2, <1>8, <1>9, <1>3
  <2> QED
    BY <1>10, <2>1, SendAssumption DEF slen
<1>11. NothingLeftOut'
  BY <1>2, <1>3, <1>8, <1>9, <1>10 DEF NothingLeftOut, slen
<1> QED
  BY <1>5, <1>7, <1>11 DEF SendInv

LEMMA WriteAgainKeeps == SendInv /\ WriteAgain => SendInv'
<1> SUFFICES ASSUME SendInv, WriteAgain PROVE SendInv'
  OBVIOUS
<1>1. /\ pc = "write" /\ again' = again + 1 /\ retry' = retry + 1 /\ wire' = wire
      /\ again \in Nat /\ again < MaxAgain /\ retry \in Nat /\ retry <= RetryMax
      /\ buf \in Int /\ nleft \in Nat /\ slen \in Nat
  BY LengthOfMessage, SendAssumption DEF WriteAgain, SendInv, TypeOK, Behind
<1>2. \/ pc' = "failed" /\ buf' = buf /\ nleft' = nleft
      \/ /\ pc' = "write" /\ retry + 1 <= RetryMax
         /\ buf' = buf - 1 /\ nleft' = nleft + 1
  BY <1>1, SendAssumption DEF WriteAgain, Advance
<1>3. TypeOK'
  <2> DEFINE T == (-again + 1) .. slen
  <2>0. wire \in Seq(T) /\ wire \in Seq(Int)
    <3>1. wire \in Seq(T)
      BY DEF SendInv, TypeOK
    <3>2. \A i \in T : i \in Int
      BY <1>1
    <3> HIDE DEF T
    <3> QED
      BY <3>1, <3>2
  <2> HIDE DEF T
  <2>1. \A i \in 1 .. Len(wire) : wire[i] \in T
    BY <2>0, Elements
  <2> USE DEF T
  <2>2. \A i \in 1 .. Len(wire) : wire[i] \in (-again' + 1) .. slen
    BY <1>1, <2>1
  <2>3. wire' \in Seq((-again' + 1) .. slen)
    BY <1>1, <2>0, <2>2, SequenceOf
  <2> QED
    BY <1>1, <1>2, <2>3, SendAssumption DEF SendInv, TypeOK
<1>4. Behind'
  BY <1>1, <1>2, SendAssumption DEF SendInv, Behind, OnWire
<1>5. NothingLeftOut'
  BY <1>1, <1>2 DEF SendInv, NothingLeftOut
<1> QED
  BY <1>3, <1>4, <1>5 DEF SendInv

LEMMA SendInvKept == SendInv /\ [Next]_vars => SendInv'
<1> SUFFICES ASSUME SendInv, [Next]_vars PROVE SendInv'
  OBVIOUS
<1>1. CASE Allocate
  <2>1. /\ wire = <<>> /\ wire' = wire /\ buf = 0 /\ again = 0 /\ nleft = slen
        /\ pc' \in {"write", "failed"} /\ UNCHANGED <<buf, nleft, retry, again>>
        /\ retry = 0
    BY <1>1, LengthOfMessage DEF Allocate, SendInv, TypeOK, Behind
  <2>2. TypeOK'
    BY <1>1, <2>1 DEF SendInv, TypeOK, slen
  <2>3. Behind'
    BY <1>1, <2>1, LengthOfMessage, SendAssumption DEF SendInv, Behind, OnWire, slen
  <2>4. NothingLeftOut'
    BY <2>1 DEF SendInv, NothingLeftOut, slen
  <2> QED
    BY <2>2, <2>3, <2>4 DEF SendInv
<1>2. CASE Return
  <2>1. /\ nleft = 0 /\ nleft \in Nat /\ slen \in Nat /\ buf = slen
        /\ slen > 0 => OnWire(slen)
    BY <1>2, LengthOfMessage, SendAssumption DEF Return, SendInv, TypeOK, Behind
  <2> QED
    BY <1>2, <2>1 DEF Return, SendInv, TypeOK, Behind, OnWire, NothingLeftOut
<1>3. CASE WriteFails
  BY <1>3 DEF WriteFails, SendInv, TypeOK, Behind, OnWire, NothingLeftOut
<1>4. CASE UNCHANGED vars
  BY <1>4 DEF vars, SendInv, TypeOK, Behind, OnWire, NothingLeftOut
<1> QED
  BY <1>1, <1>2, <1>3, <1>4, WriteKeeps, WriteAgainKeeps DEF Next

\* Whatever the message and however its writes are split and refused: the
\* variables stay in their domains.
THEOREM SendTypeCorrect == Spec => []TypeOK
<1>1. Spec => []SendInv
  BY SendInvInit, SendInvKept, PTL DEF Spec
<1>2. SendInv => TypeOK
  BY DEF SendInv
<1> QED
  BY <1>1, <1>2, PTL

\* No byte is left out, a message reported sent is sent to its end, and what is
\* sent that is not the message's is bounded: in front of it, by the EAGAINs there
\* were; behind it, by the one byte that stands for the end of line.
THEOREM MessageComplete == Spec => []NothingLeftOut
<1>1. Spec => []SendInv
  BY SendInvInit, SendInvKept, PTL DEF Spec
<1>2. SendInv => NothingLeftOut
  BY DEF SendInv
<1> QED
  BY <1>1, <1>2, PTL
=============================================================================
