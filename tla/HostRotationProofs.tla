-------------------------- MODULE HostRotationProofs --------------------------
(***************************************************************************)
(* Proofs about HostRotation, for every number of processes, every hosts   *)
(* file and every set of rejected entries.                                 *)
(***************************************************************************)
EXTENDS HostRotation, WellFoundedInduction, TLAPS

(* ---- addcmsnode() ------------------------------------------------------ *)

LEMMA LeastNumber ==
  ASSUME NEW S \in SUBSET Nat, S # {}
  PROVE  \E i \in S : \A j \in S : i <= j
<1> DEFINE R == {s \in Nat \X Nat : s[1] < s[2]}
<1>1. IsWellFoundedOn(R, Nat)
  BY NatLessThanWellFounded DEF OpToRel
<1>2. PICK i \in S : \A j \in S : ~(<<j, i>> \in R)
  BY <1>1, WFMin
<1>3. \A j \in S : ~(j < i)
  <2> TAKE j \in S
  <2>1. <<j, i>> \in Nat \X Nat /\ <<j, i>>[1] = j /\ <<j, i>>[2] = i
    OBVIOUS
  <2> QED
    BY <1>2, <2>1
<1> HIDE DEF R
<1> QED
  BY <1>3

\* Sequence m is sequence l with n put in as the k-th element.
PutIn(m, l, n, k) ==
    /\ k \in 1 .. Len(l) + 1
    /\ m \in Seq(Node) /\ Len(m) = Len(l) + 1
    /\ \A i \in 1 .. k - 1 : m[i] = l[i]
    /\ m[k] = n
    /\ \A i \in k + 1 .. Len(m) : m[i] = l[i - 1]

LEMMA Spliced ==
  ASSUME NEW l \in Seq(Node), NEW n \in Node, NEW k \in 1 .. Len(l) + 1
  PROVE  PutIn(SubSeq(l, 1, k - 1) \o <<n>> \o SubSeq(l, k, Len(l)), l, n, k)
<1> DEFINE front == SubSeq(l, 1, k - 1)
           back == SubSeq(l, k, Len(l))
<1>1. /\ front \in Seq(Node) /\ Len(front) = k - 1
      /\ \A i \in 1 .. k - 1 : front[i] = l[i]
  OBVIOUS
<1>2. /\ back \in Seq(Node) /\ Len(back) = Len(l) - k + 1
      /\ \A i \in 1 .. Len(l) - k + 1 : back[i] = l[k + i - 1]
  OBVIOUS
<1> HIDE DEF front, back
<1> DEFINE m == front \o <<n>> \o back
<1> DEFINE head == front \o <<n>>
<1>a. /\ head \in Seq(Node) /\ Len(head) = k
      /\ \A i \in 1 .. k - 1 : head[i] = front[i]
      /\ head[k] = n
  BY <1>1
<1> HIDE DEF head
<1>b. Len(l) \in Nat
  OBVIOUS
<1>3. /\ m \in Seq(Node) /\ Len(m) = Len(l) + 1
      /\ \A i \in 1 .. k : m[i] = head[i]
      /\ \A i \in k + 1 .. Len(l) + 1 : m[i] = back[i - k]
  <2>1. /\ m \in Seq(Node) /\ Len(m) = k + (Len(l) - k + 1)
        /\ \A i \in 1 .. Len(head) : m[i] = head[i]
        /\ \A i \in Len(head) + 1 .. Len(head) + Len(back) : m[i] = back[i - Len(head)]
    BY <1>2, <1>a DEF head
  <2>2. /\ k \in Int /\ Len(head) = k /\ Len(back) = Len(l) - k + 1
        /\ k + (Len(l) - k + 1) = Len(l) + 1
    BY <1>2, <1>a, <1>b
  <2> HIDE DEF m
  <2>3. \A i \in k + 1 .. k + (Len(l) - k + 1) : m[i] = back[i - k]
    BY <2>1, <2>2
  <2> QED
    BY <2>1, <2>2, <2>3
<1> HIDE DEF m
<1>4. \A i \in k + 1 .. Len(l) + 1 : m[i] = l[i - 1]
  <2> TAKE i \in k + 1 .. Len(l) + 1
  <2>1. i - k \in 1 .. Len(l) - k + 1 /\ k + (i - k) - 1 = i - 1
    OBVIOUS
  <2> QED
    BY <1>2, <1>3, <2>1
<1>5. PutIn(m, l, n, k)
  BY <1>1, <1>3, <1>4, <1>a, <1>b DEF PutIn
<1> QED
  BY <1>5 DEF m, front, back

\* addcmsnode() puts a node before the first one with a later time.
LEMMA Inserted ==
  ASSUME NEW l \in Seq(Node), NEW n \in Node
  PROVE  \E k \in 1 .. Len(l) + 1 :
           /\ PutIn(Insert(l, n), l, n, k)
           /\ k <= Len(l) => n.time < l[k].time
           /\ \A i \in 1 .. k - 1 : ~(n.time < l[i].time)
<1> DEFINE later == Later(l, n.time)
<1>1. later \in SUBSET Nat /\ \A i \in later : i \in 1 .. Len(l) /\ n.time < l[i].time
  BY DEF Later
<1>2. \A i \in 1 .. Len(l) : n.time < l[i].time => i \in later
  BY DEF Later
<1>a. Len(l) \in Nat
  OBVIOUS
<1> DEFINE k == IF later = {} THEN Len(l) + 1
                ELSE CHOOSE i \in later : \A j \in later : i <= j
<1>3. /\ k \in 1 .. Len(l) + 1
      /\ k <= Len(l) => k \in later
      /\ \A j \in later : k <= j
  <2>1. CASE later = {}
    BY <1>a, <2>1
  <2>2. CASE later # {}
    <3>1. \E i \in later : \A j \in later : i <= j
      BY <1>1, <2>2, LeastNumber
    <3>2. k \in later /\ \A j \in later : k <= j
      BY <2>2, <3>1
    <3> HIDE DEF k
    <3> QED
      BY <1>1, <1>a, <3>2
  <2> QED
    BY <2>1, <2>2
<1>4. Insert(l, n) = SubSeq(l, 1, k - 1) \o <<n>> \o SubSeq(l, k, Len(l))
  BY DEF Insert
<1> HIDE DEF k, later
<1>5. PutIn(Insert(l, n), l, n, k)
  BY <1>3, <1>4, Spliced
<1>6. \A i \in 1 .. k - 1 : ~(n.time < l[i].time)
  <2> SUFFICES ASSUME NEW i \in 1 .. k - 1, n.time < l[i].time PROVE FALSE
    OBVIOUS
  <2>1. i \in 1 .. Len(l) /\ i < k
    BY <1>3, <1>a
  <2>2. i \in later
    BY <1>2, <2>1
  <2> QED
    BY <1>1, <1>3, <2>1, <2>2
<1> QED
  BY <1>1, <1>3, <1>5, <1>6

(* ---- types and positions ------------------------------------------------ *)

\* The stages of a process: the hosts file is read before the list is worked
\* through, and cmsp is on a node during a session.
Positions ==
  \A p \in Proc :
    /\ pc[p] \in {"start", "build"} => pos[p] = 1
    /\ pc[p] = "start" => entry[p] = 1 /\ list[p] = <<>>
    /\ pc[p] \notin {"start", "build"} => entry[p] = Len(File) + 1
    /\ pc[p] = "session" => pos[p] <= Len(list[p])
    /\ pc[p] = "failed" => pos[p] = Len(list[p]) + 1

WellPlaced == TypeOK /\ Positions

\* What AddHost(p) does to the list of p.
LEMMA Added ==
  ASSUME TypeOK, NEW p \in Proc, AddHost(p)
  PROVE  /\ entry[p] \in 1 .. Len(File) /\ File[entry[p]] \in Host
         /\ list' = [list EXCEPT ![p] = list'[p]]
         /\ \/ /\ File[entry[p]] \in Rejected
               /\ list'[p] = list[p] /\ starved' = starved
            \/ /\ list'[p] = <<>> /\ starved'[p]
               /\ starved' = [starved EXCEPT ![p] = TRUE]
            \/ /\ File[entry[p]] \notin Rejected /\ starved' = starved
               /\ LET n == [host |-> File[entry[p]], time |-> stat[File[entry[p]]]]
                  IN  n \in Node /\ list'[p] = Insert(list[p], n)
<1>1. /\ Len(File) \in Nat /\ entry[p] \in 1 .. Len(File) + 1 /\ entry[p] <= Len(File)
      /\ File \in Seq(Host)
  BY RotationAssumption DEF AddHost, TypeOK
<1>2. entry[p] \in 1 .. Len(File) /\ File[entry[p]] \in Host
  BY <1>1
<1>3. [host |-> File[entry[p]], time |-> stat[File[entry[p]]]] \in Node
  BY <1>2 DEF TypeOK, Node
<1>4. list \in [Proc -> Seq(Node)] /\ starved \in [Proc -> BOOLEAN]
  BY DEF TypeOK
<1>5. CASE File[entry[p]] \in Rejected /\ UNCHANGED <<list, starved>>
  BY <1>2, <1>4, <1>5
<1>6. CASE /\ list' = [list EXCEPT ![p] = <<>>]
           /\ starved' = [starved EXCEPT ![p] = TRUE]
  BY <1>2, <1>4, <1>6
<1>7. CASE /\ File[entry[p]] \notin Rejected /\ starved' = starved
           /\ list' = [list EXCEPT ![p] =
                  Insert(@, [host |-> File[entry[p]], time |-> stat[File[entry[p]]]])]
  BY <1>2, <1>3, <1>4, <1>7
<1> QED
  BY <1>5, <1>6, <1>7 DEF AddHost

LEMMA WellPlacedInit == Init => WellPlaced
<1> SUFFICES ASSUME Init PROVE WellPlaced
  OBVIOUS
<1>1. MaxTime \in Nat \ {0} /\ Len(File) \in Nat
  BY RotationAssumption
<1>2. list \in [Proc -> Seq(Node)] /\ \A p \in Proc : list[p] = <<>> /\ Len(list[p]) = 0
  BY DEF Init
<1>3. stat \in [Host -> 0 .. MaxTime] /\ now \in 1 .. MaxTime
  BY <1>1 DEF Init
<1>4. tried \in [Proc -> SUBSET Host]
  BY DEF Init
<1>5. TypeOK
  BY <1>1, <1>2, <1>3, <1>4 DEF Init, TypeOK
<1>6. Positions
  BY <1>2 DEF Init, Positions
<1> QED
  BY <1>5, <1>6 DEF WellPlaced

LEMMA WellPlacedStep == WellPlaced /\ [Next]_vars => WellPlaced'
<1> SUFFICES ASSUME WellPlaced, [Next]_vars PROVE WellPlaced'
  OBVIOUS
<1>0. /\ MaxTime \in Nat /\ Len(File) \in Nat
      /\ now \in 1 .. MaxTime /\ now \in 0 .. MaxTime
      /\ \A p \in Proc : Len(list[p]) \in Nat
  BY RotationAssumption DEF WellPlaced, TypeOK
<1>1. CASE Tick
  <2>1. now' \in 1 .. MaxTime
    BY <1>0, <1>1 DEF Tick
  <2>2. TypeOK'
    BY <1>1, <2>1 DEF Tick, TypeOK, WellPlaced
  <2> QED
    BY <1>1, <2>2 DEF Tick, Positions, WellPlaced
<1>2. ASSUME NEW p \in Proc, Start(p) PROVE WellPlaced'
  <2>1. pc' \in [Proc -> {"start", "build", "turn", "session"} \cup Gone]
    BY <1>2 DEF Start, WellPlaced, TypeOK
  <2>2. TypeOK'
    BY <1>2, <2>1 DEF Start, WellPlaced, TypeOK
  <2> QED
    BY <1>2, <2>2 DEF Start, WellPlaced, Positions, TypeOK
<1>3. ASSUME NEW p \in Proc, AddHost(p) PROVE WellPlaced'
  <2>0. pc[p] = "build" /\ pos[p] = 1 /\ pc' = pc /\ pos' = pos /\ list \in [Proc -> Seq(Node)]
    BY <1>3 DEF AddHost, WellPlaced, Positions, TypeOK
  <2>1. list'[p] \in Seq(Node) /\ 1 \in 1 .. Len(list'[p]) + 1
    <3>1. CASE list'[p] = list[p]
      BY <1>0, <2>0, <3>1
    <3>2. CASE list'[p] = <<>>
      BY <3>2
    <3>3. ASSUME NEW n \in Node, list'[p] = Insert(list[p], n) PROVE <2>1!:
      <4>1. PICK k : PutIn(Insert(list[p], n), list[p], n, k)
        BY <2>0, Inserted
      <4> QED
        BY <1>0, <3>3, <4>1 DEF PutIn
    <3> QED
      BY <1>3, <3>1, <3>2, <3>3, Added DEF WellPlaced
  <2>2. list' = [list EXCEPT ![p] = list'[p]]
    BY <1>3, Added DEF WellPlaced
  <2>3. list' \in [Proc -> Seq(Node)] /\ \A q \in Proc : q # p => list'[q] = list[q]
    BY <2>0, <2>1, <2>2
  <2>4. pos' \in [Proc -> Nat] /\ \A q \in Proc : pos'[q] \in 1 .. Len(list'[q]) + 1
    BY <2>0, <2>1, <2>3 DEF WellPlaced, TypeOK
  <2>5. entry' \in [Proc -> 1 .. Len(File) + 1] /\ \A q \in Proc : q # p => entry'[q] = entry[q]
    BY <1>0, <1>3, Added DEF AddHost, WellPlaced, TypeOK
  <2>6. starved' \in [Proc -> BOOLEAN]
    BY <1>3 DEF AddHost, WellPlaced, TypeOK
  <2>7. TypeOK'
    BY <1>3, <2>0, <2>3, <2>4, <2>5, <2>6 DEF AddHost, WellPlaced, TypeOK
  <2>8. Positions'
    BY <2>0, <2>3, <2>5 DEF WellPlaced, Positions
  <2> QED
    BY <2>7, <2>8 DEF WellPlaced
<1>4. ASSUME NEW p \in Proc, ListDone(p) PROVE WellPlaced'
  <2>1. pc' \in [Proc -> {"start", "build", "turn", "session"} \cup Gone]
    BY <1>4 DEF ListDone, WellPlaced, TypeOK
  <2>2. TypeOK'
    BY <1>4, <2>1 DEF ListDone, WellPlaced, TypeOK
  <2>3. entry[p] = Len(File) + 1
    BY <1>0, <1>4 DEF ListDone, WellPlaced, TypeOK
  <2> QED
    BY <1>4, <2>2, <2>3 DEF ListDone, WellPlaced, Positions, TypeOK
<1>5. ASSUME NEW p \in Proc, Turn(p) PROVE WellPlaced'
  <2>1. pc' \in [Proc -> {"start", "build", "turn", "session"} \cup Gone]
    BY <1>5 DEF Turn, WellPlaced, TypeOK
  <2>2. stat' \in [Host -> 0 .. MaxTime] /\ disturbed' \in [Proc -> BOOLEAN]
    BY <1>0, <1>5 DEF Turn, Touched, WellPlaced, TypeOK
  <2>3. TypeOK'
    BY <1>5, <2>1, <2>2 DEF Turn, WellPlaced, TypeOK
  <2> QED
    BY <1>5, <2>3 DEF Turn, WellPlaced, Positions, TypeOK
<1>6. ASSUME NEW p \in Proc, Exhausted(p) PROVE WellPlaced'
  <2>1. pc' \in [Proc -> {"start", "build", "turn", "session"} \cup Gone]
    BY <1>6 DEF Exhausted, WellPlaced, TypeOK, Gone
  <2>2. TypeOK'
    BY <1>6, <2>1 DEF Exhausted, WellPlaced, TypeOK
  <2>3. pos[p] = Len(list[p]) + 1
    BY <1>0, <1>6 DEF Exhausted, WellPlaced, TypeOK
  <2> QED
    BY <1>6, <2>2, <2>3 DEF Exhausted, WellPlaced, Positions, TypeOK
<1>7. ASSUME NEW p \in Proc, Refuse(p) PROVE WellPlaced'
  <2>1. pc' \in [Proc -> {"start", "build", "turn", "session"} \cup Gone]
    BY <1>7 DEF Refuse, WellPlaced, TypeOK, Gone
  <2>2. TypeOK'
    BY <1>7, <2>1 DEF Refuse, WellPlaced, TypeOK
  <2> QED
    BY <1>7, <2>2 DEF Refuse, WellPlaced, Positions, TypeOK
<1>8. ASSUME NEW p \in Proc, Session(p) PROVE WellPlaced'
  <2>0. /\ pos[p] \in 1 .. Len(list[p]) /\ list[p] \in Seq(Node)
        /\ pc \in [Proc -> {"start", "build", "turn", "session"} \cup Gone]
    BY <1>0, <1>8 DEF Session, WellPlaced, TypeOK, Positions
  <2>1. pc' \in [Proc -> {"start", "build", "turn", "session"} \cup Gone]
    BY <1>8, <2>0 DEF Session, Gone
  <2>2. Current(p) \in Host
    <3>1. list[p][pos[p]] \in Node
      BY <2>0
    <3> QED
      BY <3>1 DEF Current, Node
  <2>3. tried' \in [Proc -> SUBSET Host]
    BY <1>8, <2>2 DEF Session, WellPlaced, TypeOK
  <2>4. pos' \in [Proc -> Nat] /\ \A q \in Proc : pos'[q] \in 1 .. Len(list[q]) + 1
    <3>1. pos \in [Proc -> Nat] /\ \A q \in Proc : pos[q] \in 1 .. Len(list[q]) + 1
      BY DEF WellPlaced, TypeOK
    <3>2. pos[p] + 1 \in Nat /\ pos[p] + 1 \in 1 .. Len(list[p]) + 1
      BY <1>0, <2>0
    <3>3. CASE pos' = pos
      BY <3>1, <3>3
    <3>4. CASE pos' = [pos EXCEPT ![p] = @ + 1]
      BY <3>1, <3>2, <3>4
    <3> QED
      BY <1>8, <3>3, <3>4 DEF Session, Skip
  <2>5. TypeOK'
    BY <1>8, <2>1, <2>3, <2>4 DEF Session, WellPlaced, TypeOK
  <2>6. pc'[p] \in {"turn", "served", "fatal"} /\ \A q \in Proc : q # p => pc'[q] = pc[q] /\ pos'[q] = pos[q]
    BY <1>8, <2>0 DEF Session, WellPlaced, TypeOK
  <2>7. Positions'
    BY <1>8, <2>6 DEF Session, WellPlaced, Positions
  <2> QED
    BY <2>5, <2>7 DEF WellPlaced
<1>9. CASE UNCHANGED vars
  BY <1>9 DEF vars, WellPlaced, TypeOK, Positions
<1> QED
  BY <1>1, <1>2, <1>3, <1>4, <1>5, <1>6, <1>7, <1>8, <1>9 DEF Next, Step

\* The types of the state hold throughout.
THEOREM RotationTyped == Spec => []TypeOK
<1>1. Spec => []WellPlaced
  BY WellPlacedInit, WellPlacedStep, PTL DEF Spec
<1>2. WellPlaced => TypeOK
  BY DEF WellPlaced
<1> QED
  BY <1>1, <1>2, PTL

(* ---- the list ----------------------------------------------------------- *)

HostsIn(l) == {l[i].host : i \in 1 .. Len(l)}
EntriesRead(p) == {File[i] : i \in 1 .. entry[p] - 1} \ Rejected

\* The order of the list, on any two of its nodes.
Before(a, b) ==
    /\ a.host # b.host
    /\ \/ a.time < b.time
       \/ a.time = b.time /\ FileIndex(a.host) < FileIndex(b.host)

InOrder(l) == \A i, j \in 1 .. Len(l) : i < j => Before(l[i], l[j])

\* An allocation that fails empties the list: what is left is still in order,
\* and of entries that were read.
ListKept ==
  \A p \in Proc :
    /\ HostsIn(list[p]) \subseteq EntriesRead(p)
    /\ ~starved[p] => HostsIn(list[p]) = EntriesRead(p)
    /\ InOrder(list[p])

\* A host has one entry in the file, so its place there is found.
LEMMA PlaceInFile ==
  ASSUME NEW i \in 1 .. Len(File)
  PROVE  FileIndex(File[i]) = i
<1>1. \A j \in 1 .. Len(File) : File[j] = File[i] => j = i
  BY RotationAssumption
<1> QED
  BY <1>1 DEF FileIndex

LEMMA PutInHosts ==
  ASSUME NEW l \in Seq(Node), NEW n \in Node, NEW m, NEW k, PutIn(m, l, n, k)
  PROVE  HostsIn(m) = HostsIn(l) \cup {n.host}
<1>0. Len(l) \in Nat /\ k \in 1 .. Len(l) + 1 /\ Len(m) = Len(l) + 1
  BY DEF PutIn
<1>1. ASSUME NEW i \in 1 .. Len(m) PROVE m[i].host \in HostsIn(l) \cup {n.host}
  <2>1. CASE i < k
    <3>1. i \in 1 .. Len(l) /\ m[i] = l[i]
      BY <1>0, <2>1 DEF PutIn
    <3> QED
      BY <3>1 DEF HostsIn
  <2>2. CASE i = k
    BY <2>2 DEF PutIn
  <2>3. CASE i > k
    <3>1. i - 1 \in 1 .. Len(l) /\ m[i] = l[i - 1]
      BY <1>0, <2>3 DEF PutIn
    <3> QED
      BY <3>1 DEF HostsIn
  <2> QED
    BY <1>0, <2>1, <2>2, <2>3
<1>2. ASSUME NEW i \in 1 .. Len(l) PROVE l[i].host \in HostsIn(m)
  <2>1. CASE i < k
    <3>1. i \in 1 .. Len(m) /\ m[i] = l[i]
      BY <1>0, <2>1 DEF PutIn
    <3> QED
      BY <3>1 DEF HostsIn
  <2>2. CASE i >= k
    <3>1. i + 1 \in 1 .. Len(m) /\ i + 1 \in k + 1 .. Len(m) /\ (i + 1) - 1 = i
      BY <1>0, <2>2
    <3>2. m[i + 1] = l[i]
      BY <3>1 DEF PutIn
    <3> QED
      BY <3>1, <3>2 DEF HostsIn
  <2> QED
    BY <1>0, <2>1, <2>2
<1>3. n.host \in HostsIn(m)
  BY <1>0 DEF PutIn, HostsIn
<1>4. HostsIn(m) \subseteq HostsIn(l) \cup {n.host}
  BY <1>1 DEF HostsIn
<1>5. HostsIn(l) \subseteq HostsIn(m)
  BY <1>2 DEF HostsIn
<1> QED
  BY <1>3, <1>4, <1>5

LEMMA PutInOrder ==
  ASSUME NEW l \in Seq(Node), NEW n \in Node, NEW m, NEW k, PutIn(m, l, n, k),
         InOrder(l),
         \A i \in 1 .. k - 1 : Before(l[i], n),
         \A i \in k .. Len(l) : Before(n, l[i])
  PROVE  InOrder(m)
<1>0. Len(l) \in Nat /\ k \in 1 .. Len(l) + 1 /\ Len(m) = Len(l) + 1
  BY DEF PutIn
<1> SUFFICES ASSUME NEW i \in 1 .. Len(m), NEW j \in 1 .. Len(m), i < j
             PROVE  Before(m[i], m[j])
  BY DEF InOrder
<1>1. CASE j < k
  <2>1. i \in 1 .. Len(l) /\ j \in 1 .. Len(l) /\ m[i] = l[i] /\ m[j] = l[j]
    BY <1>0, <1>1 DEF PutIn
  <2> QED
    BY <2>1 DEF InOrder
<1>2. CASE j = k
  <2>1. i \in 1 .. k - 1 /\ m[i] = l[i] /\ m[j] = n
    BY <1>0, <1>2 DEF PutIn
  <2> QED
    BY <2>1
<1>3. CASE i < k /\ k < j
  <2>1. /\ i \in 1 .. Len(l) /\ j - 1 \in 1 .. Len(l) /\ i < j - 1
        /\ m[i] = l[i] /\ m[j] = l[j - 1]
    BY <1>0, <1>3 DEF PutIn
  <2> QED
    BY <2>1 DEF InOrder
<1>4. CASE i = k
  <2>1. j - 1 \in k .. Len(l) /\ m[i] = n /\ m[j] = l[j - 1]
    BY <1>0, <1>4 DEF PutIn
  <2> QED
    BY <2>1
<1>5. CASE k < i
  <2>1. /\ i - 1 \in 1 .. Len(l) /\ j - 1 \in 1 .. Len(l) /\ i - 1 < j - 1
        /\ m[i] = l[i - 1] /\ m[j] = l[j - 1]
    BY <1>0, <1>5 DEF PutIn
  <2> QED
    BY <2>1 DEF InOrder
<1> QED
  BY <1>0, <1>1, <1>2, <1>3, <1>4, <1>5

\* The node of an entry that comes later in the file than all of the list.
LEMMA InsertKeepsOrder ==
  ASSUME NEW l \in Seq(Node), NEW n \in Node, InOrder(l),
         FileIndex(n.host) \in Int,
         \A i \in 1 .. Len(l) :
           FileIndex(l[i].host) \in Int /\ FileIndex(l[i].host) < FileIndex(n.host)
  PROVE  HostsIn(Insert(l, n)) = HostsIn(l) \cup {n.host} /\ InOrder(Insert(l, n))
<1>1. PICK k \in 1 .. Len(l) + 1 :
        /\ PutIn(Insert(l, n), l, n, k)
        /\ k <= Len(l) => n.time < l[k].time
        /\ \A i \in 1 .. k - 1 : ~(n.time < l[i].time)
  BY Inserted
<1>0. Len(l) \in Nat
  OBVIOUS
<1>2. n.time \in Int /\ \A i \in 1 .. Len(l) : l[i].time \in Int
  <2>1. \A x \in Node : x.time \in Int
    BY RotationAssumption DEF Node
  <2>2. \A i \in 1 .. Len(l) : l[i] \in Node
    OBVIOUS
  <2> QED
    BY <2>1, <2>2
<1>3. ASSUME NEW i \in 1 .. k - 1 PROVE Before(l[i], n)
  <2>1. i \in 1 .. Len(l)
    BY <1>0
  <2> QED
    BY <1>1, <1>2, <2>1 DEF Before
<1>4. ASSUME NEW i \in k .. Len(l) PROVE Before(n, l[i])
  <2>1. i \in 1 .. Len(l) /\ k \in 1 .. Len(l) /\ (i = k \/ k < i)
    BY <1>0
  <2>2. k < i => Before(l[k], l[i])
    BY <2>1 DEF InOrder
  <2> QED
    BY <1>1, <1>2, <2>1, <2>2 DEF Before
<1>5. HostsIn(Insert(l, n)) = HostsIn(l) \cup {n.host}
  BY <1>1, PutInHosts
<1>6. InOrder(Insert(l, n))
  BY <1>1, <1>3, <1>4, PutInOrder
<1> QED
  BY <1>5, <1>6

LEMMA ListKeptStep == WellPlaced /\ ListKept /\ [Next]_vars => ListKept'
<1> SUFFICES ASSUME WellPlaced, ListKept, [Next]_vars PROVE ListKept'
  OBVIOUS
<1>1. ASSUME NEW p \in Proc, AddHost(p) PROVE ListKept'
  <2> DEFINE e == entry[p]
             h == File[e]
             n == [host |-> h, time |-> stat[h]]
  <2>0. /\ e \in 1 .. Len(File) /\ Len(File) \in Nat /\ list[p] \in Seq(Node)
        /\ list \in [Proc -> Seq(Node)] /\ starved \in [Proc -> BOOLEAN]
        /\ entry \in [Proc -> 1 .. Len(File) + 1]
    <3>1. e \in 1 .. Len(File)
      BY <1>1, Added DEF WellPlaced
    <3>2. Len(File) \in Nat
      BY RotationAssumption
    <3> QED
      BY <3>1, <3>2 DEF WellPlaced, TypeOK
  <2>1. entry'[p] = e + 1 /\ \A q \in Proc : q # p => entry'[q] = entry[q]
    BY <1>1, <2>0 DEF AddHost
  <2>2. \A q \in Proc : q # p => list'[q] = list[q] /\ starved'[q] = starved[q]
    <3>1. list' = [list EXCEPT ![p] = list'[p]]
      BY <1>1, Added DEF WellPlaced
    <3>2. starved' = starved \/ starved' = [starved EXCEPT ![p] = TRUE]
      BY <1>1, Added DEF WellPlaced
    <3> QED
      BY <2>0, <3>1, <3>2
  <2>3. EntriesRead(p)' = EntriesRead(p) \cup ({h} \ Rejected)
    <3>1. 1 .. e = (1 .. e - 1) \cup {e} /\ (e + 1) - 1 = e
      BY <2>0
    <3>2. EntriesRead(p)' = {File[i] : i \in 1 .. e} \ Rejected
      BY <2>1, <3>1 DEF EntriesRead
    <3>3. {File[i] : i \in (1 .. e - 1) \cup {e}} = {File[i] : i \in 1 .. e - 1} \cup {File[e]}
      OBVIOUS
    <3> QED
      BY <3>1, <3>2, <3>3 DEF EntriesRead
  <2>4. /\ HostsIn(list'[p]) \subseteq EntriesRead(p)'
        /\ ~starved'[p] => HostsIn(list'[p]) = EntriesRead(p)'
        /\ InOrder(list'[p])
    <3>1. CASE h \in Rejected /\ list'[p] = list[p] /\ starved' = starved
      BY <2>3, <3>1 DEF ListKept
    <3>2. CASE list'[p] = <<>> /\ starved'[p]
      BY <3>2 DEF HostsIn, InOrder
    <3>3. CASE h \notin Rejected /\ starved' = starved /\ n \in Node
               /\ list'[p] = Insert(list[p], n)
      <4>1. FileIndex(h) = e
        BY <2>0, PlaceInFile
      <4>2. ASSUME NEW i \in 1 .. Len(list[p])
            PROVE  FileIndex(list[p][i].host) \in Int /\ FileIndex(list[p][i].host) < e
        <5>1. list[p][i].host \in EntriesRead(p)
          BY DEF ListKept, HostsIn
        <5>2. PICK j \in 1 .. e - 1 : list[p][i].host = File[j]
          BY <5>1 DEF EntriesRead
        <5>3. j \in 1 .. Len(File) /\ j < e
          BY <2>0
        <5> QED
          BY <5>2, <5>3, PlaceInFile
      <4>3. n.host = h /\ e \in Int /\ InOrder(list[p])
        BY <2>0 DEF ListKept
      <4> HIDE DEF e, h, n
      <4>4. HostsIn(list'[p]) = HostsIn(list[p]) \cup {h} /\ InOrder(list'[p])
        BY <2>0, <3>3, <4>1, <4>2, <4>3, InsertKeepsOrder
      <4> QED
        BY <2>3, <3>3, <4>4 DEF ListKept
    <3> QED
      BY <1>1, <3>1, <3>2, <3>3, Added DEF WellPlaced
  <2>5. \A q \in Proc : q # p => EntriesRead(q)' = EntriesRead(q)
    BY <2>1 DEF EntriesRead
  <2> QED
    BY <2>2, <2>4, <2>5 DEF ListKept
<1>2. CASE UNCHANGED <<list, entry, starved>>
  BY <1>2 DEF ListKept, EntriesRead
<1> QED
  BY <1>1, <1>2 DEF Next, Step, Tick, Start, ListDone, Turn, Exhausted, Refuse, Session, vars

LEMMA ListKeptInit == Init => ListKept
<1> SUFFICES ASSUME Init, NEW p \in Proc
             PROVE  list[p] = <<>> /\ entry[p] = 1
  BY DEF ListKept, HostsIn, EntriesRead, InOrder
<1> QED
  BY DEF Init

\* The list of a process holds the usable entries it has read, in the order of
\* the times it saw and, where these are equal, of the file.
THEOREM ListIsOrdered == Spec => []ListOrdered
<1>1. Spec => [](WellPlaced /\ ListKept)
  BY WellPlacedInit, WellPlacedStep, ListKeptInit, ListKeptStep, PTL DEF Spec
<1>2. ListKept => ListOrdered
  BY DEF ListKept, ListOrdered, HostsIn, EntriesRead, InOrder, Before
<1> QED
  BY <1>1, <1>2, PTL

(* ---- working through the list ------------------------------------------- *)

\* The nodes whose status file p has not touched yet.
ToCome(p) == {i \in 1 .. Len(list[p]) : i > pos[p] \/ (i = pos[p] /\ pc[p] # "session")}

\* While no other process turns to a host, the times seen when the list was
\* built are those of the status files of the hosts to come.
TimesHold ==
  \A p \in Proc :
    pc[p] \notin Gone /\ ~disturbed[p] =>
      \A i \in ToCome(p) : stat[list[p][i].host] = list[p][i].time

TriedBefore(p) == {list[p][i].host : i \in 1 .. pos[p] - 1}

\* What was tried is the part of the list before cmsp.
TriedSoFar ==
  \A p \in Proc : pc[p] \notin {"served", "fatal"} => tried[p] = TriedBefore(p)

RotationInv == WellPlaced /\ ListKept /\ TimesHold /\ TriedSoFar

LEMMA PutInNodes ==
  ASSUME NEW l \in Seq(Node), NEW n \in Node, NEW m, NEW k, PutIn(m, l, n, k),
         NEW i \in 1 .. Len(m)
  PROVE  m[i] = n \/ \E j \in 1 .. Len(l) : m[i] = l[j]
<1>0. Len(l) \in Nat /\ k \in 1 .. Len(l) + 1 /\ Len(m) = Len(l) + 1
  BY DEF PutIn
<1>1. CASE i < k
  <2>1. i \in 1 .. Len(l) /\ m[i] = l[i]
    BY <1>0, <1>1 DEF PutIn
  <2> QED
    BY <2>1
<1>2. CASE i = k
  BY <1>2 DEF PutIn
<1>3. CASE i > k
  <2>1. i - 1 \in 1 .. Len(l) /\ m[i] = l[i - 1]
    BY <1>0, <1>3 DEF PutIn
  <2> QED
    BY <2>1
<1> QED
  BY <1>0, <1>1, <1>2, <1>3

LEMMA TimesHoldStep == RotationInv /\ [Next]_vars => TimesHold'
<1> SUFFICES ASSUME RotationInv, [Next]_vars PROVE TimesHold'
  OBVIOUS
<1>0. /\ pc \in [Proc -> {"start", "build", "turn", "session"} \cup Gone]
      /\ disturbed \in [Proc -> BOOLEAN]
      /\ \A p \in Proc : pos[p] \in Nat /\ Len(list[p]) \in Nat /\ list[p] \in Seq(Node)
  BY DEF RotationInv, WellPlaced, TypeOK
<1>1. ASSUME NEW p \in Proc, AddHost(p) PROVE TimesHold'
  <2>1. pc[p] = "build" /\ pos[p] = 1 /\ UNCHANGED <<stat, pc, pos, disturbed>>
    BY <1>1 DEF AddHost, RotationInv, WellPlaced, Positions
  <2>2. \A q \in Proc : q # p => list'[q] = list[q]
    <3>1. TypeOK /\ list \in [Proc -> Seq(Node)]
      BY DEF RotationInv, WellPlaced, TypeOK
    <3>2. list' = [list EXCEPT ![p] = list'[p]]
      BY <1>1, <3>1, Added
    <3> QED
      BY <3>1, <3>2
  <2>3. ASSUME ~disturbed[p], NEW i \in 1 .. Len(list'[p])
        PROVE  stat[list'[p][i].host] = list'[p][i].time
    <3>1. \A j \in 1 .. Len(list[p]) : stat[list[p][j].host] = list[p][j].time
      BY <1>0, <2>1, <2>3 DEF RotationInv, TimesHold, ToCome, Gone
    <3>2. CASE list'[p] = list[p]
      BY <3>1, <3>2
    <3>3. CASE list'[p] = <<>>
      BY <3>3
    <3>4. ASSUME NEW n \in Node, n.time = stat[n.host], list'[p] = Insert(list[p], n)
          PROVE  stat[list'[p][i].host] = list'[p][i].time
      <4>1. PICK k : PutIn(list'[p], list[p], n, k)
        BY <1>0, <3>4, Inserted
      <4>2. list'[p][i] = n \/ \E j \in 1 .. Len(list[p]) : list'[p][i] = list[p][j]
        <5>1. list[p] \in Seq(Node)
          BY <1>0 DEF RotationInv, WellPlaced, TypeOK
        <5> QED
          BY <3>4, <4>1, <5>1, PutInNodes
      <4> QED
        BY <3>1, <3>4, <4>2
    <3>5. LET n == [host |-> File[entry[p]], time |-> stat[File[entry[p]]]]
          IN  n.time = stat[n.host]
      OBVIOUS
    <3> QED
      BY <1>1, <3>2, <3>3, <3>4, <3>5, Added DEF RotationInv, WellPlaced
  <2>4. ASSUME NEW q \in Proc, q # p PROVE ToCome(q)' = ToCome(q)
    BY <2>1, <2>2, <2>4 DEF ToCome
  <2>5. ToCome(p)' \subseteq 1 .. Len(list'[p])
    BY DEF ToCome
  <2> QED
    BY <2>1, <2>2, <2>3, <2>4, <2>5 DEF RotationInv, TimesHold
<1>2. ASSUME NEW p \in Proc, Turn(p) PROVE TimesHold'
  <2>1. /\ pc[p] = "turn" /\ pos[p] \in 1 .. Len(list[p])
        /\ pc' = [pc EXCEPT ![p] = "session"] /\ UNCHANGED <<list, pos>>
    BY <1>0, <1>2 DEF Turn, RotationInv, WellPlaced, TypeOK
  <2>2. \A q \in Proc : q # p => ToCome(q)' = ToCome(q) /\ pc'[q] = pc[q]
    BY <1>0, <2>1 DEF ToCome
  <2>3. ToCome(p)' = {i \in 1 .. Len(list[p]) : i > pos[p]} /\ ToCome(p)' \subseteq ToCome(p)
    BY <1>0, <2>1 DEF ToCome
  <2>4. CASE UNCHANGED <<stat, disturbed>>
    BY <2>1, <2>2, <2>3, <2>4 DEF RotationInv, TimesHold, Gone
  <2>5. CASE /\ stat' = Touched(Current(p))
             /\ disturbed' = [q \in Proc |-> disturbed[q] \/ (q # p /\ Live(q))]
    <3>1. \A g \in Host : g # Current(p) => stat'[g] = stat[g]
      BY <2>5 DEF Touched, RotationInv, WellPlaced, TypeOK
    <3>2. ASSUME NEW i \in ToCome(p)'
          PROVE  i \in 1 .. Len(list[p]) /\ list[p][i].host \in Host /\ list[p][i].host # Current(p)
      <4>1. i \in 1 .. Len(list[p]) /\ pos[p] < i
        BY <2>3
      <4>2. list[p][i] \in Node
        BY <1>0, <4>1
      <4>3. Before(list[p][pos[p]], list[p][i])
        BY <2>1, <4>1 DEF RotationInv, ListKept, InOrder
      <4> QED
        BY <4>1, <4>2, <4>3 DEF Before, Current, Node
    <3>3. ASSUME NEW q \in Proc, q # p, pc'[q] \notin Gone, ~disturbed'[q]
          PROVE  ToCome(q)' = {}
      <4>1. pc[q] \notin Gone /\ ~Live(q)
        BY <2>2, <2>5, <3>3
      <4>2. list[q] = <<>>
        BY <4>1 DEF Live, RotationInv, WellPlaced, Positions
      <4>3. 1 .. Len(list[q]) = {}
        BY <4>2
      <4>4. ToCome(q) \subseteq 1 .. Len(list[q])
        BY DEF ToCome
      <4> QED
        BY <2>2, <3>3, <4>3, <4>4
    <3>4. disturbed'[p] = disturbed[p]
      BY <1>0, <2>5
    <3>5. ASSUME pc'[p] \notin Gone, ~disturbed'[p], NEW i \in ToCome(p)'
          PROVE  stat'[list'[p][i].host] = list'[p][i].time
      BY <2>1, <2>3, <3>1, <3>2, <3>4, <3>5 DEF RotationInv, TimesHold, Gone
    <3> QED
      BY <3>3, <3>5 DEF TimesHold
  <2> QED
    BY <1>2, <2>4, <2>5 DEF Turn
<1>3. ASSUME NEW p \in Proc, Session(p) PROVE TimesHold'
  <2>1. /\ pc[p] = "session" /\ UNCHANGED <<stat, list, disturbed>>
        /\ \A q \in Proc : q # p => pc'[q] = pc[q] /\ pos'[q] = pos[q]
    BY <1>0, <1>3 DEF Session, RotationInv, WellPlaced, TypeOK
  <2>2. \/ pc'[p] \in Gone
        \/ pos'[p] = pos[p] + 1
    BY <1>0, <1>3 DEF Session, Skip, RotationInv, WellPlaced, TypeOK, Gone
  <2>3. pos'[p] = pos[p] + 1 => ToCome(p)' \subseteq ToCome(p)
    BY <1>0, <2>1 DEF ToCome
  <2>4. \A q \in Proc : q # p => ToCome(q)' = ToCome(q)
    BY <2>1 DEF ToCome
  <2> QED
    BY <2>1, <2>2, <2>3, <2>4 DEF RotationInv, TimesHold, Gone
<1>4. ASSUME NEW p \in Proc, Start(p) \/ ListDone(p) \/ Exhausted(p) \/ Refuse(p) PROVE TimesHold'
  <2>1. /\ pc[p] \notin Gone /\ UNCHANGED <<stat, list, pos, disturbed>>
        /\ \A q \in Proc : q # p => pc'[q] = pc[q]
        /\ pc'[p] \in Gone \/ pc[p] # "session"
    BY <1>0, <1>4 DEF Start, ListDone, Exhausted, Refuse, Gone
  <2>2. pc'[p] \in Gone \/ ToCome(p)' \subseteq ToCome(p)
    BY <2>1 DEF ToCome
  <2>3. \A q \in Proc : q # p => ToCome(q)' = ToCome(q)
    BY <2>1 DEF ToCome
  <2> QED
    BY <2>1, <2>2, <2>3 DEF RotationInv, TimesHold
<1>5. CASE UNCHANGED <<stat, pc, list, pos, disturbed>>
  BY <1>5 DEF RotationInv, TimesHold, ToCome
<1> QED
  BY <1>1, <1>2, <1>3, <1>4, <1>5 DEF Next, Step, Tick, vars

LEMMA TriedSoFarStep == RotationInv /\ [Next]_vars => TriedSoFar'
<1> SUFFICES ASSUME RotationInv, [Next]_vars PROVE TriedSoFar'
  OBVIOUS
<1>0. /\ pc \in [Proc -> {"start", "build", "turn", "session"} \cup Gone]
      /\ \A p \in Proc : pos[p] \in 1 .. Len(list[p]) + 1 /\ pos[p] \in Nat
  BY DEF RotationInv, WellPlaced, TypeOK
<1>1. ASSUME NEW p \in Proc, AddHost(p) PROVE TriedSoFar'
  <2>1. pc[p] = "build" /\ pos[p] = 1 /\ UNCHANGED <<pc, pos, tried>>
    BY <1>1 DEF AddHost, RotationInv, WellPlaced, Positions
  <2>2. \A q \in Proc : q # p => list'[q] = list[q]
    <3>1. TypeOK /\ list \in [Proc -> Seq(Node)]
      BY DEF RotationInv, WellPlaced, TypeOK
    <3>2. list' = [list EXCEPT ![p] = list'[p]]
      BY <1>1, <3>1, Added
    <3> QED
      BY <3>1, <3>2
  <2>3. 1 .. pos[p] - 1 = {}
    BY <2>1
  <2>4. TriedBefore(p)' = {} /\ TriedBefore(p) = {}
    BY <2>1, <2>3 DEF TriedBefore
  <2>5. \A q \in Proc : q # p => TriedBefore(q)' = TriedBefore(q)
    BY <2>1, <2>2 DEF TriedBefore
  <2> QED
    BY <2>1, <2>4, <2>5 DEF RotationInv, TriedSoFar
<1>2. ASSUME NEW p \in Proc, Session(p) PROVE TriedSoFar'
  <2>1. /\ pc[p] = "session" /\ list' = list
        /\ \A q \in Proc : q # p => pc'[q] = pc[q] /\ pos'[q] = pos[q] /\ tried'[q] = tried[q]
    BY <1>0, <1>2 DEF Session, RotationInv, WellPlaced, TypeOK
  <2>2. \A q \in Proc : q # p => TriedBefore(q)' = TriedBefore(q)
    BY <2>1 DEF TriedBefore
  <2>3. tried'[p] = tried[p] \cup {Current(p)}
    BY <1>2 DEF Session, RotationInv, WellPlaced, TypeOK
  <2>4. \/ pc'[p] \in {"served", "fatal"}
        \/ pos'[p] = pos[p] + 1
    BY <1>0, <1>2 DEF Session, Skip, RotationInv, WellPlaced, TypeOK
  <2>5. pos'[p] = pos[p] + 1 => TriedBefore(p)' = TriedBefore(p) \cup {Current(p)}
    <3> SUFFICES ASSUME pos'[p] = pos[p] + 1
                 PROVE  TriedBefore(p)' = TriedBefore(p) \cup {Current(p)}
      OBVIOUS
    <3>1. 1 .. pos'[p] - 1 = (1 .. pos[p] - 1) \cup {pos[p]}
      BY <1>0
    <3> QED
      BY <2>1, <3>1 DEF TriedBefore, Current
  <2>6. tried[p] = TriedBefore(p)
    BY <2>1 DEF RotationInv, TriedSoFar
  <2> QED
    BY <2>1, <2>2, <2>3, <2>4, <2>5, <2>6 DEF RotationInv, TriedSoFar
<1>3. ASSUME NEW p \in Proc, Start(p) \/ ListDone(p) \/ Turn(p) \/ Exhausted(p) \/ Refuse(p)
      PROVE  TriedSoFar'
  <2>1. /\ pc[p] \notin {"served", "fatal"} /\ UNCHANGED <<list, pos, tried>>
        /\ \A q \in Proc : q # p => pc'[q] = pc[q]
    BY <1>0, <1>3 DEF Start, ListDone, Turn, Exhausted, Refuse
  <2> QED
    BY <2>1 DEF RotationInv, TriedSoFar, TriedBefore
<1>4. CASE UNCHANGED <<pc, list, pos, tried>>
  BY <1>4 DEF RotationInv, TriedSoFar, TriedBefore
<1> QED
  BY <1>1, <1>2, <1>3, <1>4 DEF Next, Step, Tick, vars

LEMMA RotationInvariant == Spec => []RotationInv
<1>1. Init => TimesHold /\ TriedSoFar
  <2> SUFFICES ASSUME Init, NEW p \in Proc PROVE list[p] = <<>> /\ pos[p] = 1 /\ tried[p] = {}
    BY DEF TimesHold, TriedSoFar, ToCome, TriedBefore
  <2> QED
    BY DEF Init
<1>2. Init => RotationInv
  BY <1>1, WellPlacedInit, ListKeptInit DEF RotationInv
<1>3. RotationInv /\ [Next]_vars => RotationInv'
  BY WellPlacedStep, ListKeptStep, TimesHoldStep, TriedSoFarStep DEF RotationInv
<1> QED
  BY <1>2, <1>3, PTL DEF Spec

\* Unless another process turns to a host, the host whose turn it is was tried
\* no later than any host that is still to come.
THEOREM LeastRecentIsFirst == Spec => []LeastRecentFirst
<1>1. RotationInv => LeastRecentFirst
  <2> SUFFICES ASSUME RotationInv, NEW p \in Proc, pc[p] = "turn", ~disturbed[p],
                      NEW i \in pos[p] .. Len(list[p])
               PROVE  stat[Current(p)] <= stat[list[p][i].host]
    BY DEF LeastRecentFirst
  <2>1. /\ pos[p] \in 1 .. Len(list[p]) /\ i \in 1 .. Len(list[p])
        /\ i = pos[p] \/ pos[p] < i
        /\ list[p] \in Seq(Node)
    BY DEF RotationInv, WellPlaced, TypeOK
  <2>2. pos[p] \in ToCome(p) /\ i \in ToCome(p)
    BY <2>1 DEF ToCome
  <2>3. stat[Current(p)] = list[p][pos[p]].time /\ stat[list[p][i].host] = list[p][i].time
    BY <2>2 DEF RotationInv, TimesHold, Current, Gone
  <2>4. list[p][pos[p]].time \in Int /\ list[p][i].time \in Int
    <3>1. \A x \in Node : x.time \in Int
      BY RotationAssumption DEF Node
    <3>2. list[p][pos[p]] \in Node /\ list[p][i] \in Node
      BY <2>1
    <3> QED
      BY <3>1, <3>2
  <2>5. pos[p] < i => Before(list[p][pos[p]], list[p][i])
    BY <2>1 DEF RotationInv, ListKept, InOrder
  <2> QED
    BY <2>1, <2>3, <2>4, <2>5 DEF Before
<1> QED
  BY <1>1, RotationInvariant, PTL

\* rmsgw says that it failed to connect to any CMS host only after it has asked
\* for a connection to every usable one.
THEOREM FailureTriesAll == Spec => []FailedMeansAllTried
<1>1. RotationInv => FailedMeansAllTried
  <2> SUFFICES ASSUME RotationInv, NEW p \in Proc, pc[p] = "failed", ~starved[p]
               PROVE  tried[p] = Usable
    BY DEF FailedMeansAllTried
  <2>1. /\ pos[p] = Len(list[p]) + 1 /\ entry[p] = Len(File) + 1
        /\ Len(list[p]) \in Nat /\ Len(File) \in Nat
    BY RotationAssumption DEF RotationInv, WellPlaced, TypeOK, Positions
  <2>2. pos[p] - 1 = Len(list[p]) /\ entry[p] - 1 = Len(File)
    BY <2>1
  <2>3. tried[p] = HostsIn(list[p])
    BY <2>2 DEF RotationInv, TriedSoFar, TriedBefore, HostsIn
  <2>4. HostsIn(list[p]) = EntriesRead(p)
    BY DEF RotationInv, ListKept
  <2> QED
    BY <2>2, <2>3, <2>4 DEF EntriesRead, Usable
<1> QED
  BY <1>1, RotationInvariant, PTL
=============================================================================
