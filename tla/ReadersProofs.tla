---------------------------- MODULE ReadersProofs ----------------------------
(***************************************************************************)
(* Proofs about Readers for every set of files, edited at any time and any *)
(* number of times: a pass of rmsgw_aci over channels.xml, the lookups of  *)
(* rmsgw in it, the types of both, the substitution of variables in the    *)
(* status checker, and the list of rmsgw's hosts.                          *)
(***************************************************************************)
EXTENDS Readers, SequenceTheorems, WellFoundedInduction, TLAPS

(***************************************************************************)
(* OnePass speaks of the end of the pass; until then the nodes handed out  *)
(* are those of the parsed copy up to cur_node, and that copy, once made,  *)
(* does not follow the file.                                               *)
(***************************************************************************)
InPass ==
    pc \in {"pass", "entry"} =>
      \/ doc = Null /\ node = 0 /\ pass = <<>>
      \/ doc # Null /\ node \in 1 .. Len(doc) /\ pass = SubSeq(doc, 1, node)

PassInv == /\ file \in Version
           /\ doc # Null => doc \in Version \ {Broken}
           /\ InPass
           /\ OnePass

LEMMA VersionIsSeq ==
    ASSUME NEW v \in Version \ {Broken}
    PROVE  v \in Seq(Range(v)) /\ Len(v) \in Nat /\ v # Null
BY ChannelAssumption

\* The nodes up to the next one are those up to this one, and the next one.
LEMMA OneMore ==
    ASSUME NEW v \in Version \ {Broken}, NEW k \in 0 .. Len(v), k + 1 <= Len(v)
    PROVE  Append(SubSeq(v, 1, k), v[k + 1]) = SubSeq(v, 1, k + 1)
<1>1. v \in Seq(Range(v)) /\ Len(v) \in Nat
  BY VersionIsSeq
<1> QED
  BY <1>1

LEMMA AllOf == ASSUME NEW v \in Version \ {Broken} PROVE SubSeq(v, 1, Len(v)) = v
<1>1. v \in Seq(Range(v)) /\ Len(v) \in Nat
  BY VersionIsSeq
<1> QED
  BY <1>1

LEMMA PassInit == RInit => PassInv
BY DEF RInit, ChanInit, PassInv, InPass, OnePass

\* One call of getchanent().
LEMMA NextChannelKeeps == PassInv /\ NextChannel => PassInv'
<1> SUFFICES ASSUME PassInv, NextChannel PROVE PassInv'
  OBVIOUS
<1> DEFINE d == IF doc = Null THEN Parsed(file) ELSE doc
           k == IF d = Null THEN 0 ELSE NextNode(d, node)
<1>1. /\ doc' = d /\ node' = k /\ file' = file
      /\ k = 0 => pc' = "done" /\ pass' = pass
      /\ k # 0 => \/ pc' = "crashed"
                  \/ pc' = "entry" /\ pass' = Append(pass, d[k])
  <2> DEFINE s == [doc |-> d, node |-> k,
                   curent |-> IF k = 0 THEN curent ELSE Filled(curent, d[k]),
                   result |-> IF k = 0 THEN "null"
                              ELSE IF Faulty(curent, d[k]) THEN "crash" ELSE "entry"]
  <2>1. getchanent = s
    BY DEF getchanent
  <2>2. /\ Becomes(s)
        /\ pc' = CASE s.result = "entry" -> "entry"
                   [] s.result = "null" -> "done"
                   [] s.result = "crash" -> "crashed"
        /\ pass' = IF s.result = "entry" THEN Append(pass, s.doc[s.node]) ELSE pass
    BY <2>1 DEF NextChannel
  <2>3. s.doc = d /\ s.node = k /\ (k = 0 => s.result = "null")
        /\ (k # 0 => s.result \in {"crash", "entry"})
    OBVIOUS
  <2> HIDE DEF s, d, k
  <2> QED
    BY <2>2, <2>3 DEF Becomes
<1>2. pc = "pass"
  BY DEF NextChannel
<1>3. d # Null => d \in Version \ {Broken}
  BY DEF PassInv, Parsed
<1> HIDE DEF d
<1>4. CASE d = Null
  <2>1. doc = Null /\ pass = <<>>
    BY <1>2, <1>4 DEF d, PassInv, InPass
  <2> QED
    BY <1>1, <1>4, <2>1 DEF PassInv, InPass, OnePass
<1>5. CASE d # Null
  <2>1. /\ Len(d) \in Nat /\ node \in 0 .. Len(d)
        /\ pass = SubSeq(d, 1, node)
    <3>1. d \in Seq(Range(d)) /\ Len(d) \in Nat
      BY <1>3, <1>5, VersionIsSeq
    <3>2. SubSeq(d, 1, 0) = <<>>
      BY <3>1
    <3>3. CASE doc = Null
      BY <1>2, <3>1, <3>2, <3>3 DEF PassInv, InPass
    <3>4. CASE doc # Null
      BY <1>2, <3>1, <3>4 DEF PassInv, InPass, d
    <3> QED
      BY <3>3, <3>4
  <2>2. k = IF node + 1 <= Len(d) THEN node + 1 ELSE 0
    BY <1>5, <2>1 DEF NextNode, First
  <2>3. CASE node + 1 <= Len(d)
    <3>1. k = node + 1 /\ k # 0 /\ k \in 1 .. Len(d)
      BY <2>1, <2>2, <2>3
    <3>2. Append(pass, d[k]) = SubSeq(d, 1, k)
      BY <1>3, <1>5, <2>1, <2>3, <3>1, OneMore
    <3> HIDE DEF k
    <3> QED
      BY <1>1, <1>3, <1>5, <3>1, <3>2 DEF PassInv, InPass, OnePass
  <2>4. CASE ~(node + 1 <= Len(d))
    <3>1. k = 0 /\ node = Len(d)
      BY <2>1, <2>2, <2>4
    <3>2. pass = d
      BY <1>3, <1>5, <2>1, <3>1, AllOf
    <3> HIDE DEF k
    <3> QED
      BY <1>1, <1>3, <1>5, <3>1, <3>2 DEF PassInv, InPass, OnePass
  <2> QED
    BY <2>3, <2>4
<1> QED
  BY <1>4, <1>5

LEMMA PassStep == PassInv /\ [RNext]_rvars => PassInv'
<1> SUFFICES ASSUME PassInv, [RNext]_rvars PROVE PassInv'
  OBVIOUS
<1>1. CASE NextChannel
  BY <1>1, NextChannelKeeps
<1>2. CASE ReadHosts \/ HostsRead \/ NoMoreHosts \/ Session
  BY <1>2 DEF ReadHosts, HostsRead, NoMoreHosts, Session, chanvars, PassInv, InPass,
              OnePass
\* rmsgw: the record is looked up, but there is no pass.
<1>3. CASE LookUp
  <2> DEFINE s == getchannam(Port, GwCall)
  <2>1. s.doc = Parsed(file) /\ s.result \in {"null", "crash", "entry"}
    BY DEF getchannam
  <2>2. /\ doc' = s.doc /\ file' = file
        /\ pc' = CASE s.result = "entry" -> "found"
                   [] s.result = "null" -> "fatal"
                   [] s.result = "crash" -> "crashed"
    BY <1>3 DEF LookUp, Becomes
  <2> HIDE DEF s
  <2>3. doc' = Parsed(file) /\ pc' \in {"found", "fatal", "crashed"}
    BY <2>1, <2>2
  <2> QED
    BY <2>2, <2>3 DEF PassInv, InPass, OnePass, Parsed
<1>4. CASE Examine
  BY <1>4 DEF Examine, PassInv, InPass, OnePass
<1>5. CASE EndPass
  BY <1>5 DEF EndPass, endchanent, Becomes, PassInv, InPass, OnePass
<1>6. CASE Edit
  BY <1>6 DEF Edit, PassInv, InPass, OnePass
<1>7. CASE UNCHANGED rvars
  BY <1>7 DEF rvars, chanvars, PassInv, InPass, OnePass
<1> QED
  BY <1>1, <1>2, <1>3, <1>4, <1>5, <1>6, <1>7 DEF RNext

\* However the file is edited meanwhile, a pass over the channels hands out those
\* of one version of it, all of them, in order.
THEOREM PassIsOneVersion == RSpec => []OnePass
<1>1. PassInv => OnePass
  BY DEF PassInv
<1> QED
  BY <1>1, PassInit, PassStep, PTL DEF RSpec

(* ---- numbers ------------------------------------------------------------- *)

LEMMA LeastNumber ==
  ASSUME NEW S \in SUBSET Nat, S # {}
  PROVE  \E i \in S : \A j \in S : i <= j
<1> DEFINE R == {s \in Nat \X Nat : s[1] < s[2]}
<1>1. IsWellFoundedOn(R, Nat)
  BY NatLessThanWellFounded DEF OpToRel
<1>2. PICK i \in S : \A j \in S : ~(<<j, i>> \in R)
  BY <1>1, WFMin
<1>3. \A j \in S : ~(j < i)
  <2> TAKE j \in S
  <2>1. <<j, i>> \in Nat \X Nat /\ <<j, i>>[1] = j /\ <<j, i>>[2] = i
    OBVIOUS
  <2> QED
    BY <1>2, <2>1
<1> HIDE DEF R
<1> QED
  BY <1>3

\* What holds of 0 and of each number with the one before it holds up to N.
LEMMA CountUp ==
    ASSUME NEW N \in Nat, NEW G, 0 \in G,
           \A k \in 1 .. N : k - 1 \in G => k \in G
    PROVE  0 .. N \subseteq G
<1> DEFINE Bad == {k \in 0 .. N : k \notin G}
<1> SUFFICES ASSUME Bad # {} PROVE FALSE
  OBVIOUS
<1>1. PICK k \in Bad : \A j \in Bad : k <= j
  <2>1. Bad \in SUBSET Nat
    OBVIOUS
  <2> HIDE DEF Bad
  <2> QED
    BY <2>1, LeastNumber
<1>2. k \in 1 .. N
  BY <1>1
<1>3. k - 1 \in 0 .. N /\ ~(k <= k - 1)
  BY <1>2
<1> QED
  BY <1>1, <1>2, <1>3

(* ---- the static record, node after node ----------------------------------- *)

\* The recursion of Records is well-founded, so that it has a value.
LEMMA RecordsDefined ==
    ASSUME NEW nodes, Len(nodes) \in Nat
    PROVE  LET r == Records(nodes)
           IN  r = [k \in 0 .. Len(nodes) |->
                      IF k <= 0 THEN curent ELSE Filled(r[k - 1], nodes[k])]
<1> DEFINE F(g, k) == IF k <= 0 THEN curent ELSE Filled(g[k - 1], nodes[k])
           N == Len(nodes)
           G == {n \in 0 .. N : \E g : g = [k \in 0 .. n |-> F(g, k)]}
<1>1. 0 \in G
  <2> DEFINE h == [k \in 0 .. 0 |-> curent]
  <2>1. h = [k \in 0 .. 0 |-> F(h, k)]
    OBVIOUS
  <2> HIDE DEF h
  <2> QED
    BY <2>1
<1>2. ASSUME NEW n \in 1 .. N, n - 1 \in G PROVE n \in G
  <2>1. PICK g : g = [k \in 0 .. n - 1 |-> F(g, k)]
    BY <1>2
  <2> DEFINE h == [k \in 0 .. n |-> IF k = n THEN F(g, n) ELSE g[k]]
  <2>2. h = [k \in 0 .. n |-> F(h, k)]
    <3> SUFFICES ASSUME NEW k \in 0 .. n PROVE h[k] = F(h, k)
      OBVIOUS
    <3>1. CASE k = n
      <4>1. n - 1 \in 0 .. n /\ n - 1 # n /\ h[n - 1] = g[n - 1]
        OBVIOUS
      <4> QED
        BY <3>1, <4>1
    <3>2. CASE k # n /\ k = 0
      <4>1. 0 \in 0 .. n - 1
        OBVIOUS
      <4> QED
        BY <2>1, <3>2, <4>1
    <3>3. CASE k # n /\ k # 0
      <4>1. k \in 0 .. n - 1 /\ k - 1 \in 0 .. n /\ k - 1 # n
        BY <3>3
      <4>2. h[k - 1] = g[k - 1] /\ h[k] = g[k]
        BY <3>3, <4>1
      <4>3. g[k] = F(g, k)
        BY <2>1, <4>1
      <4> QED
        BY <4>2, <4>3
    <3> QED
      BY <3>1, <3>2, <3>3
  <2> HIDE DEF h
  <2> QED
    BY <2>2
<1>3. 0 .. N \subseteq G
  <2> HIDE DEF G
  <2> QED
    BY <1>1, <1>2, CountUp
<1>4. \E g : g = [k \in 0 .. N |-> F(g, k)]
  BY <1>3
<1> QED
  BY <1>4 DEF Records, Rewound

LEMMA RecordsStep ==
    ASSUME NEW nodes, Len(nodes) \in Nat
    PROVE  /\ Records(nodes)[0] = curent
           /\ \A k \in 1 .. Len(nodes) :
                Records(nodes)[k] = Filled(Records(nodes)[k - 1], nodes[k])
<1> DEFINE r == Records(nodes)
           N == Len(nodes)
<1>1. r = [k \in 0 .. N |-> IF k <= 0 THEN curent ELSE Filled(r[k - 1], nodes[k])]
  BY RecordsDefined
<1> HIDE DEF r, N
<1>2. N \in Nat
  BY DEF N
<1>3. r[0] = curent
  BY <1>1, <1>2
<1>4. ASSUME NEW k \in 1 .. N PROVE r[k] = Filled(r[k - 1], nodes[k])
  <2>1. k \in 0 .. N /\ ~(k <= 0)
    BY <1>2
  <2> QED
    BY <1>1, <2>1
<1> QED
  BY <1>3, <1>4 DEF r, N

\* In the record a node's attributes are its own, and so is its callsign.
LEMMA FilledFields ==
    ASSUME NEW old, NEW n
    PROVE  /\ \A f \in Attr : Filled(old, n)[f] = n[f]
           /\ \A f \in {"callsign", "password"} :
                Filled(old, n)[f] = IF n[f] = Null THEN old[f] ELSE n[f]
           /\ Filled(old, n)["servicecode"] =
                IF n["servicecode"] = Null THEN old["servicecode"] ELSE Cut(n["servicecode"])
BY DEF Filled, Attr, Field, Elem, Element

(* ---- the channel of the port -------------------------------------------- *)

LEMMA PrefixOfItself == ASSUME NEW S, NEW s \in Seq(S) PROVE IsPrefix(s, s)
BY DEF IsPrefix

\* The record after a complete node has that node's fields.
LEMMA RecordOfClear ==
    ASSUME NEW v \in Version, Clear(v), NEW k \in 1 .. Len(v)
    PROVE  /\ Len(v) \in Nat
           /\ v[k]["checker"] # Null /\ v[k]["name"] # Null /\ v[k]["callsign"] # Null
           /\ Records(v)[k]["name"] = v[k]["name"]
           /\ Records(v)[k]["callsign"] = v[k]["callsign"]
           /\ v[k]["password"] # Null => Records(v)[k]["password"] = v[k]["password"]
<1>1. Len(v) \in Nat
  BY VersionIsSeq DEF Clear
<1>2. \A f \in {"name", "callsign", "checker"} : v[k][f] # Null
  BY DEF Clear, Present
<1>3. Records(v)[k] = Filled(Records(v)[k - 1], v[k])
  BY <1>1, RecordsStep
<1> QED
  BY <1>1, <1>2, <1>3, FilledFields DEF Field, Attr, Elem

LEMMA LookUpClear ==
    ASSUME file \in Version, Clear(file),
           NEW Mine, Mine = {i \in 1 .. Len(file) : Asked(file[i])},
           NEW s, s = getchannam(Port, GwCall)
    PROVE  /\ s.doc = file
           /\ Mine = {} => s.result = "null"
           /\ Mine # {} =>
                /\ s.result = "entry"
                /\ \A f \in Present(file[Min(Mine)]) \cap {"name", "callsign", "password"} :
                     s.curent[f] = file[Min(Mine)][f]
<1> DEFINE v == file
           R == Records(v)
           Crash(k) == Faulty(R[k - 1], v[k]) \/ Unreadable(R[k], Port)
           stops == {k \in 1 .. Len(v) : Crash(k) \/ Agrees(R[k], Port, GwCall)}
           m == IF stops = {} THEN 0 ELSE Min(stops)
<1>1. Parsed(v) = v /\ v # Null
  BY ChannelAssumption DEF Parsed, Clear
<1>2. /\ s.doc = v
      /\ s.result = IF m = 0 THEN "null" ELSE IF Crash(m) THEN "crash" ELSE "entry"
      /\ m # 0 => s.curent = R[m]
  BY <1>1 DEF getchannam, Rewound
<1> DEFINE Own == {i \in 1 .. Len(v) : Asked(v[i])}
<1>3. Own = Mine /\ Len(v) \in Nat
  BY VersionIsSeq DEF Clear
\* A node that agrees has the port and the callsign, and nothing is null.
<1>4. ASSUME NEW k \in 1 .. Len(v)
      PROVE  /\ ~Crash(k)
             /\ Agrees(R[k], Port, GwCall) <=> Asked(v[k])
             /\ \A f \in Present(v[k]) \cap {"name", "callsign", "password"} :
                  R[k][f] = v[k][f]
  <2>1. /\ v[k].checker # Null /\ v[k].name # Null /\ v[k].callsign # Null
        /\ R[k].name = v[k].name /\ R[k].callsign = v[k].callsign
        /\ v[k].password # Null => R[k].password = v[k].password
    BY RecordOfClear
  <2>2. Alike(v[k]) => Asked(v[k])
    BY DEF Clear
  <2>3. IsPrefix(Port, Port) /\ IsPrefix(GwCall, GwCall)
    BY ReadersAssumption, PrefixOfItself
  <2>4. ~Crash(k)
    <3>1. ~Faulty(R[k - 1], v[k])
      BY <2>1 DEF Faulty
    <3>2. ~Unreadable(R[k], Port)
      BY <2>1 DEF Unreadable
    <3> QED
      BY <3>1, <3>2
  <2>5. Alike(v[k]) <=> Asked(v[k])
    BY <2>2, <2>3 DEF Alike, Asked
  <2>6. Agrees(R[k], Port, GwCall) <=> Asked(v[k])
    BY <2>1, <2>5 DEF Agrees, NameAgrees, Alike
  <2>7. ASSUME NEW f \in Present(v[k]) \cap {"name", "callsign", "password"}
        PROVE  R[k][f] = v[k][f]
    BY <2>1 DEF Present
  <2> HIDE DEF v, R, Crash
  <2> QED
    BY <2>4, <2>6, <2>7
<1> HIDE DEF R, Crash
<1>5. stops = Own
  BY <1>4
<1> HIDE DEF stops
<1>6. CASE Mine = {}
  BY <1>1, <1>2, <1>3, <1>5, <1>6
<1>7. CASE Mine # {}
  <2>1. stops \in SUBSET Nat /\ stops # {} /\ stops \subseteq 1 .. Len(v)
    BY <1>3, <1>5, <1>7
  <2>2. m \in stops /\ m = Min(Mine)
    BY <1>3, <1>5, <2>1, LeastNumber DEF Min
  <2> HIDE DEF m
  <2>3. m \in 1 .. Len(v) /\ m # 0
    BY <2>1, <2>2
  <2> HIDE DEF v
  <2>4. ~Crash(m)
    BY <1>4, <2>3
  <2>5. \A f \in Present(v[m]) \cap {"name", "callsign", "password"} : R[m][f] = v[m][f]
    BY <1>4, <2>3
  <2>6. s.result = "entry" /\ s.curent = R[m] /\ s.doc = v
    BY <1>2, <2>3, <2>4
  <2>7. v = file
    BY DEF v
  <2> HIDE DEF Min
  <2> QED
    BY <1>7, <2>2, <2>5, <2>6, <2>7
<1> QED
  BY <1>6, <1>7

\* In channels.xml as it is then, a lookup finds the first channel with the port and
\* the callsign, or tells that there is none, whatever other channels stand before
\* it and whatever lookups and edits there were.
THEOREM LookUpFindsPort == RSpec => RightChannel
<1> DEFINE Inv == file \in Version
           Found(Mine) ==
             IF Mine = {} THEN pc' = "fatal"
             ELSE /\ pc' = "found" /\ doc' = file
                  /\ LET n == file[Min(Mine)]
                     IN  \A f \in Present(n) \cap {"name", "callsign", "password"} :
                           curent'[f] = n[f]
<1>1. RInit => Inv
  BY DEF RInit, ChanInit
<1>2. Inv /\ [RNext]_rvars => Inv'
  BY DEF RNext, rvars, chanvars, ReadHosts, HostsRead, LookUp, NoMoreHosts, Session,
         NextChannel, Examine, EndPass, Edit, Becomes
<1>3. ASSUME Inv, [RNext]_rvars, tried' # tried, Clear(file),
             NEW Mine, Mine = {i \in 1 .. Len(file) : Asked(file[i])}
      PROVE  Found(Mine)
  <2>1. LookUp
    BY <1>3 DEF RNext, rvars, ReadHosts, HostsRead, NoMoreHosts, Session, NextChannel,
         Examine, EndPass, Edit
  <2> DEFINE s == getchannam(Port, GwCall)
  <2>2. /\ doc' = s.doc /\ curent' = s.curent
        /\ pc' = CASE s.result = "entry" -> "found"
                   [] s.result = "null" -> "fatal"
                   [] s.result = "crash" -> "crashed"
    BY <2>1 DEF LookUp, Becomes
  <2> HIDE DEF s
  <2>3. /\ s.doc = file
        /\ Mine = {} => s.result = "null"
        /\ Mine # {} =>
             /\ s.result = "entry"
             /\ \A f \in Present(file[Min(Mine)]) \cap {"name", "callsign", "password"} :
                  s.curent[f] = file[Min(Mine)][f]
    BY <1>3, LookUpClear DEF s
  <2> HIDE DEF Min
  <2> QED
    BY <2>2, <2>3
<1>4. Inv /\ [RNext]_rvars =>
        [tried' # tried /\ Clear(file) =>
           LET Mine == {i \in 1 .. Len(file) : Asked(file[i])}
           IN  IF Mine = {} THEN pc' = "fatal"
               ELSE /\ pc' = "found" /\ doc' = file
                    /\ LET n == file[Min(Mine)]
                       IN  \A f \in Present(n) \cap {"name", "callsign", "password"} :
                             curent'[f] = n[f]]_rvars
  BY <1>3
<1> QED
  BY <1>1, <1>2, <1>4, PTL DEF RSpec, RightChannel

(* ---- types -------------------------------------------------------------- *)

RecordOK(r) ==
    /\ r = [f \in Field |-> r[f]]
    /\ r["servicecode"] # Null => \/ Len(r["servicecode"]) <= MaxServiceCode
                                  \/ r["servicecode"] = <<"PUBLIC">>

LEMMA CutFits == ASSUME NEW S, NEW c \in Seq(S) PROVE Len(Cut(c)) <= MaxServiceCode
<1>1. Len(c) \in Nat /\ MaxServiceCode \in Nat
  BY ChannelAssumption
<1>2. CASE Len(c) < MaxServiceCode
  <2>1. Len(SubSeq(c, 1, Len(c))) = Len(c)
    BY <1>1
  <2> QED
    BY <1>1, <1>2, <2>1 DEF Cut
<1>3. CASE ~(Len(c) < MaxServiceCode)
  <2>1. Len(SubSeq(c, 1, MaxServiceCode)) = MaxServiceCode
    BY <1>1, <1>3
  <2> QED
    BY <1>1, <1>3, <2>1 DEF Cut
<1> QED
  BY <1>2, <1>3

\* A service code is cut to its length wherever a record is filled.
LEMMA FilledService ==
    ASSUME NEW v \in Version \ {Broken}, NEW k \in 1 .. Len(v), NEW old, RecordOK(old)
    PROVE  RecordOK(Filled(old, v[k]))
<1>1. Filled(old, v[k])["servicecode"] =
        IF v[k]["servicecode"] = Null THEN old["servicecode"] ELSE Cut(v[k]["servicecode"])
  BY FilledFields
<1>2. v[k]["servicecode"] # Null => Len(Cut(v[k]["servicecode"])) <= MaxServiceCode
  <2>1. \A f \in Field \ {"checker"} : v[k][f] # Null => v[k][f] \in Text
    BY TextAssumption
  <2>2. v[k]["servicecode"] # Null => v[k]["servicecode"] \in Seq(Token)
    BY <2>1 DEF Field, Elem, Text
  <2> QED
    BY <2>2, CutFits
<1>3. Filled(old, v[k]) = [f \in Field |-> Filled(old, v[k])[f]]
  BY DEF Filled
<1> QED
  BY <1>1, <1>2, <1>3 DEF RecordOK

LEMMA RecordsService ==
    ASSUME NEW v \in Version \ {Broken}, RecordOK(curent)
    PROVE  \A k \in 0 .. Len(v) : RecordOK(Records(v)[k])
<1> DEFINE R == Records(v)
           Bad == {k \in 0 .. Len(v) : ~RecordOK(R[k])}
<1>0. Len(v) \in Nat
  BY VersionIsSeq
<1>1. R[0] = curent /\ \A k \in 1 .. Len(v) : R[k] = Filled(R[k - 1], v[k])
  BY <1>0, RecordsStep
<1> HIDE DEF R
<1>2. ASSUME Bad # {} PROVE FALSE
  <2>1. PICK k \in Bad : \A j \in Bad : k <= j
    <3>1. Bad \in SUBSET Nat
      BY <1>0
    <3> HIDE DEF Bad
    <3> QED
      BY <1>2, <3>1, LeastNumber
  <2>2. k \in 0 .. Len(v) /\ ~RecordOK(R[k])
    BY <2>1
  <2>3. k \in 1 .. Len(v)
    BY <1>0, <1>1, <2>2
  <2>4. k - 1 \in 0 .. Len(v) /\ ~(k <= k - 1)
    BY <1>0, <2>3
  <2>5. RecordOK(R[k - 1])
    BY <2>1, <2>4
  <2>6. R[k] = Filled(R[k - 1], v[k])
    BY <1>1, <2>3
  <2> QED
    BY <2>2, <2>3, <2>5, <2>6, FilledService
<1> QED
  BY <1>2 DEF R

LEMMA LookUpPlace ==
    ASSUME file \in Version, RecordOK(curent), NEW s, s = getchannam(Port, GwCall)
    PROVE  /\ s.doc # Null => s.doc \in Version \ {Broken} /\ s.node \in 0 .. Len(s.doc)
           /\ s.doc = Null => s.node = 0
           /\ RecordOK(s.curent)
           /\ s.result \in {"null", "crash", "entry"}
<1> DEFINE d == Parsed(file)
           v == IF d = Null THEN <<>> ELSE d
           R == Records(v)
           Crash(k) == Faulty(R[k - 1], v[k]) \/ Unreadable(R[k], Port)
           stops == {k \in Rewound + 1 .. Len(v) : Crash(k) \/ Agrees(R[k], Port, GwCall)}
           m == IF stops = {} THEN 0 ELSE Min(stops)
<1>1. /\ s.doc = d /\ s.node = m
      /\ s.curent = R[IF m = 0 THEN Len(v) ELSE m]
      /\ s.result = IF m = 0 THEN "null" ELSE IF Crash(m) THEN "crash" ELSE "entry"
  <2>1. s = [doc |-> d, node |-> m, curent |-> R[IF m = 0 THEN Len(v) ELSE m],
             result |-> IF m = 0 THEN "null" ELSE IF Crash(m) THEN "crash" ELSE "entry"]
    BY Zenon DEF getchannam
  <2> HIDE DEF d, v, R, Crash, m
  <2> QED
    BY <2>1
<1>2. stops \subseteq 1 .. Len(v)
  BY DEF Rewound
<1>3. d # Null => d \in Version \ {Broken}
  BY DEF Parsed
<1> HIDE DEF d
<1>4. d = Null => v = <<>>
  OBVIOUS
<1>5. Len(v) \in Nat /\ \A k \in 0 .. Len(v) : RecordOK(R[k])
  <2>1. CASE d = Null
    <3>1. Len(v) = 0
      BY <2>1
    <3>2. R[0] = curent
      BY <3>1, RecordsStep
    <3> HIDE DEF v, R
    <3> QED
      BY <3>1, <3>2
  <2>2. CASE d # Null
    <3>1. v \in Version \ {Broken}
      BY <1>3, <2>2
    <3> HIDE DEF v
    <3> QED
      BY <3>1, RecordsService, VersionIsSeq
  <2> QED
    BY <2>1, <2>2
<1> HIDE DEF R, Crash, stops
<1>6. m \in 0 .. Len(v)
  <2>1. CASE stops = {}
    BY <1>5, <2>1
  <2>2. CASE stops # {}
    <3>1. stops \in SUBSET Nat
      BY <1>2, <1>5
    <3>2. m \in stops
      BY <2>2, <3>1, LeastNumber DEF Min
    <3> HIDE DEF m, v
    <3> QED
      BY <1>2, <1>5, <3>2
  <2> QED
    BY <2>1, <2>2
<1>7. d # Null => v = d
  OBVIOUS
<1>8. d = Null => m = 0
  <2>1. d = Null => Len(v) = 0
    BY <1>4
  <2> QED
    BY <1>6, <2>1
<1> HIDE DEF m, v
<1>9. (IF m = 0 THEN Len(v) ELSE m) \in 0 .. Len(v)
  BY <1>5, <1>6
<1> QED
  BY <1>1, <1>3, <1>5, <1>6, <1>7, <1>8, <1>9

ReadersInv ==
    /\ file \in Version
    /\ doc # Null => doc \in Version \ {Broken} /\ node \in 0 .. Len(doc)
    /\ RecordOK(curent)
    /\ doc = Null => node = 0
    /\ pc = "hosts" => tried = 0
    /\ \E S : listed \in Seq(S)
    /\ tried \in 0 .. Len(listed) /\ edits \in 0 .. MaxEdits

LEMMA ReadersInvInit == RInit => ReadersInv
<1> SUFFICES ASSUME RInit PROVE ReadersInv
  OBVIOUS
<1>1. listed = <<>> /\ listed \in Seq({}) /\ Len(listed) = 0
  BY DEF RInit, HostsInit
<1>2. RecordOK(curent)
  BY DEF RInit, ChanInit, NoRecord, RecordOK, Field, Elem
<1>3. \E S : listed \in Seq(S)
  BY <1>1
<1>4. MaxEdits \in Nat
  BY ReadersAssumption
<1> QED
  BY <1>1, <1>2, <1>3, <1>4 DEF RInit, ChanInit, ReadersInv

LEMMA ReadersInvStep == ReadersInv /\ [RNext]_rvars => ReadersInv'
<1> SUFFICES ASSUME ReadersInv, [RNext]_rvars PROVE ReadersInv'
  OBVIOUS
<1>1. CASE ReadHosts
  <2>1. listed' = listed \/ \E e : listed' = Append(listed, e)
    BY <1>1 DEF ReadHosts, ReadLine
  <2>2. PICK S : listed \in Seq(S)
    BY DEF ReadersInv
  <2>3. ASSUME NEW e, listed' = Append(listed, e)
        PROVE  (\E T : listed' \in Seq(T)) /\ Len(listed') \in Nat
    <3>1. listed \in Seq(S \cup {e})
      BY <2>2
    <3>2. listed' \in Seq(S \cup {e})
      BY <2>3, <3>1
    <3> QED
      BY <3>2
  <2>4. (\E T : listed' \in Seq(T)) /\ Len(listed') \in Nat
    BY <2>1, <2>2, <2>3
  <2>5. tried' = 0 /\ pc' = "hosts" /\ UNCHANGED <<chanvars, edits>>
    BY <1>1 DEF ReadHosts, ReadersInv
  <2> QED
    BY <2>4, <2>5 DEF chanvars, ReadersInv
<1>2. CASE HostsRead \/ NoMoreHosts \/ Session
  BY <1>2 DEF HostsRead, NoMoreHosts, Session, chanvars, hostvars, ReadersInv
<1>3. CASE LookUp
  <2> DEFINE s == getchannam(Port, GwCall)
  <2>1. /\ s.doc # Null => s.doc \in Version \ {Broken} /\ s.node \in 0 .. Len(s.doc)
        /\ s.doc = Null => s.node = 0
        /\ RecordOK(s.curent)
        /\ s.result \in {"null", "crash", "entry"}
    BY LookUpPlace DEF ReadersInv
  <2>2. /\ doc' = s.doc /\ node' = s.node /\ curent' = s.curent /\ file' = file
        /\ pc' = CASE s.result = "entry" -> "found"
                   [] s.result = "null" -> "fatal"
                   [] s.result = "crash" -> "crashed"
        /\ tried < Len(listed) /\ tried' = tried + 1
        /\ UNCHANGED <<listed, edits>>
    BY <1>3 DEF LookUp, Becomes, hostvars
  <2> HIDE DEF s
  <2>3. pc' # "hosts"
    BY <2>1, <2>2
  <2>4. Len(listed) \in Nat
    BY DEF ReadersInv
  <2>5. RecordOK(curent)'
    BY <2>1, <2>2 DEF RecordOK
  <2> QED
    BY <2>1, <2>2, <2>3, <2>4, <2>5 DEF ReadersInv
<1>4. CASE NextChannel
  <2> DEFINE d == IF doc = Null THEN Parsed(file) ELSE doc
             k == IF d = Null THEN 0 ELSE NextNode(d, node)
  <2>1. /\ doc' = d /\ node' = k /\ file' = file
        /\ curent' = IF k = 0 THEN curent ELSE Filled(curent, d[k])
    BY <1>4 DEF NextChannel, getchanent, Becomes
  <2>2. pc = "pass" /\ pc' # "hosts" /\ UNCHANGED <<listed, tried, edits>>
    <3> DEFINE s == getchanent
    <3>1. /\ pc = "pass" /\ UNCHANGED <<listed, tried, edits>>
          /\ pc' = CASE s.result = "entry" -> "entry"
                     [] s.result = "null" -> "done"
                     [] s.result = "crash" -> "crashed"
      BY <1>4 DEF NextChannel, hostvars
    <3>2. s.result \in {"null", "crash", "entry"}
      BY DEF getchanent
    <3> HIDE DEF s
    <3> QED
      BY <3>1, <3>2
  <2>3. d # Null => d \in Version \ {Broken} /\ Len(d) \in Nat
    BY VersionIsSeq DEF Parsed, ReadersInv
  <2> HIDE DEF d
  <2>4. ASSUME d # Null PROVE k \in 0 .. Len(d)
    <3>1. CASE node = 0
      BY <2>3, <2>4, <3>1 DEF NextNode, First
    <3>2. CASE node # 0 /\ node + 1 <= Len(d)
      <4>1. CASE doc = Null
        BY <3>2, <4>1 DEF ReadersInv
      <4>2. CASE doc # Null
        BY <2>3, <2>4, <3>2, <4>2 DEF d, NextNode, ReadersInv
      <4> QED
        BY <4>1, <4>2
    <3>3. CASE node # 0 /\ ~(node + 1 <= Len(d))
      BY <2>3, <2>4, <3>3 DEF NextNode
    <3> QED
      BY <3>1, <3>2, <3>3
  <2>5. k # 0 => d # Null
    OBVIOUS
  <2> HIDE DEF k
  <2>6. RecordOK(curent')
    <3>1. CASE k = 0
      BY <2>1, <3>1 DEF ReadersInv
    <3>2. CASE k # 0
      <4>1. k \in 1 .. Len(d) /\ d \in Version \ {Broken}
        BY <2>3, <2>4, <2>5, <3>2
      <4> QED
        BY <2>1, <3>2, <4>1, FilledService DEF ReadersInv
    <3> QED
      BY <3>1, <3>2
  <2> QED
    BY <2>1, <2>2, <2>3, <2>4, <2>5, <2>6 DEF ReadersInv
<1>5. CASE Examine
  <2>1. pc' # "hosts" /\ UNCHANGED <<file, doc, node, listed, tried, edits>>
    BY <1>5 DEF Examine, hostvars
  <2>2. curent' = curent \/ curent' = [curent EXCEPT !["servicecode"] = <<"PUBLIC">>]
    BY <1>5 DEF Examine
  <2>3. RecordOK(curent')
    <3>1. RecordOK(curent) /\ "servicecode" \in Field
      BY DEF ReadersInv, Field, Elem
    <3> HIDE DEF RecordOK
    <3>2. CASE curent' = curent
      BY <3>1, <3>2
    <3>3. CASE curent' = [curent EXCEPT !["servicecode"] = <<"PUBLIC">>]
      <4>1. curent = [f \in Field |-> curent[f]]
        BY <3>1 DEF RecordOK
      <4>2. /\ curent' = [f \in Field |-> curent'[f]]
            /\ curent'["servicecode"] = <<"PUBLIC">>
        BY <3>1, <3>3, <4>1
      <4> QED
        BY <4>2 DEF RecordOK
    <3> QED
      BY <2>2, <3>2, <3>3
  <2> QED
    BY <2>1, <2>3 DEF ReadersInv
<1>6. CASE EndPass
  BY <1>6 DEF EndPass, endchanent, Becomes, hostvars, ReadersInv
<1>7. CASE Edit
  BY <1>7, ReadersAssumption DEF Edit, hostvars, ReadersInv
<1>8. CASE UNCHANGED rvars
  BY <1>8 DEF rvars, chanvars, hostvars, ReadersInv
<1> QED
  BY <1>1, <1>2, <1>3, <1>4, <1>5, <1>6, <1>7, <1>8 DEF RNext

\* The place in the parsed copy is in it, the service code fits its array, and no
\* host is tried twice.
THEOREM ReadersTypes == RSpec => []ReadersTypeOK
<1>1. ReadersInv => ReadersTypeOK
  BY DEF ReadersInv, RecordOK, ReadersTypeOK
<1> QED
  BY <1>1, ReadersInvInit, ReadersInvStep, PTL DEF RSpec

(* ---- pieces put together ------------------------------------------------ *)

\* f[k] is the first k of the n pieces put together.
Summed(f, ps, n) ==
    f[0] = <<>> /\ \A k \in 1 .. n : f[k] = f[k - 1] \o ps[k]

Sums(S, N, ps, f) == /\ N \in Nat
                     /\ ps \in [1 .. N -> Seq(S)] /\ f \in [0 .. N -> Seq(S)]
                     /\ Summed(f, ps, N)

LEMMA SumsExist ==
    ASSUME NEW S, NEW N \in Nat, NEW ps \in [1 .. N -> Seq(S)]
    PROVE  \E f : Sums(S, N, ps, f)
<1> DEFINE G == {n \in 0 .. N : \E f \in [0 .. n -> Seq(S)] : Summed(f, ps, n)}
<1>1. 0 \in G
  <2> DEFINE f == [k \in 0 .. 0 |-> <<>>]
  <2>1. f \in [0 .. 0 -> Seq(S)] /\ Summed(f, ps, 0)
    BY DEF Summed
  <2> HIDE DEF f
  <2> QED
    BY <2>1
<1>2. ASSUME NEW n \in 1 .. N, n - 1 \in G PROVE n \in G
  <2>1. PICK g \in [0 .. n - 1 -> Seq(S)] : Summed(g, ps, n - 1)
    BY <1>2
  <2> DEFINE f == [k \in 0 .. n |-> IF k = n THEN g[n - 1] \o ps[n] ELSE g[k]]
  <2>2. g[n - 1] \in Seq(S) /\ ps[n] \in Seq(S)
    OBVIOUS
  <2>3. g[n - 1] \o ps[n] \in Seq(S)
    BY <2>2, ConcatProperties
  <2>4. f \in [0 .. n -> Seq(S)]
    <3> SUFFICES ASSUME NEW k \in 0 .. n, k # n PROVE g[k] \in Seq(S)
      BY <2>3
    <3>1. k \in 0 .. n - 1
      OBVIOUS
    <3> QED
      BY <2>1, <3>1
  <2>5. f[0] = <<>>
    <3>1. f[0] = g[0]
      OBVIOUS
    <3> QED
      BY <2>1, <3>1 DEF Summed
  <2>6. ASSUME NEW k \in 1 .. n PROVE f[k] = f[k - 1] \o ps[k]
    <3>1. f[k - 1] = g[k - 1]
      OBVIOUS
    <3>2. CASE k = n
      <4>1. f[n] = g[n - 1] \o ps[n]
        OBVIOUS
      <4> HIDE DEF f
      <4> QED
        BY <3>1, <3>2, <4>1
    <3>3. CASE k # n
      <4>1. k \in 1 .. n - 1 /\ f[k] = g[k]
        BY <3>3
      <4>2. g[k] = g[k - 1] \o ps[k]
        BY <2>1, <4>1 DEF Summed
      <4> QED
        BY <3>1, <4>1, <4>2
    <3> QED
      BY <3>2, <3>3
  <2> HIDE DEF f
  <2>7. Summed(f, ps, n)
    BY <2>5, <2>6 DEF Summed
  <2> QED
    BY <2>4, <2>7
<1> HIDE DEF G
<1>3. 0 .. N \subseteq G
  BY <1>1, <1>2, CountUp
<1>4. N \in G
  BY <1>3
<1> QED
  BY <1>4 DEF G, Sums

\* Text c is a, and b after it.
Follows(c, a, b) ==
    /\ Len(a) \in Nat /\ Len(b) \in Nat /\ Len(c) = Len(a) + Len(b)
    /\ \A i \in 1 .. Len(a) : c[i] = a[i]
    /\ \A i \in 1 .. Len(b) : c[Len(a) + i] = b[i]

LEMMA SumsNext ==
    ASSUME NEW S, NEW N, NEW ps, NEW f, Sums(S, N, ps, f), NEW k \in 1 .. N
    PROVE  /\ f[k - 1] \in Seq(S) /\ ps[k] \in Seq(S) /\ f[k] \in Seq(S)
           /\ Follows(f[k], f[k - 1], ps[k])
<1>1. f[k - 1] \in Seq(S) /\ ps[k] \in Seq(S) /\ f[k] \in Seq(S)
  BY DEF Sums
<1> DEFINE a == f[k - 1]
           b == ps[k]
           c == f[k]
<1>2. c = a \o b
  BY DEF Sums, Summed
<1> HIDE DEF a, b, c
<1>3. a \in Seq(S) /\ b \in Seq(S)
  BY <1>1 DEF a, b
<1>4. Follows(c, a, b)
  BY <1>2, <1>3 DEF Follows
<1> QED
  BY <1>1, <1>4 DEF a, b, c

\* Text a is the beginning of b.
Begins(b, a) == /\ Len(a) \in Nat /\ Len(a) <= Len(b)
                /\ \A i \in 1 .. Len(a) : b[i] = a[i]

\* What is put together begins with what is put together of the first pieces.
LEMMA SumsGrow ==
    ASSUME NEW S, NEW N, NEW ps, NEW f, Sums(S, N, ps, f), NEW k \in 0 .. N
    PROVE  Begins(f[N], f[k])
<1> DEFINE G == {n \in 0 .. N : k <= n => Begins(f[n], f[k])}
<1>0. N \in Nat /\ f[k] \in Seq(S) /\ Len(f[k]) \in Nat
  BY DEF Sums
<1>1. 0 \in G
  BY <1>0 DEF Begins
<1>2. ASSUME NEW n \in 1 .. N, n - 1 \in G, k <= n PROVE Begins(f[n], f[k])
  <2>1. Follows(f[n], f[n - 1], ps[n])
    BY SumsNext
  <2>2. CASE k = n
    BY <1>0, <2>2 DEF Begins
  <2>3. CASE k # n
    <3>1. Begins(f[n - 1], f[k])
      BY <1>2, <2>3
    <3> DEFINE b == f[n - 1]
               c == f[n]
    <3>2. /\ Len(b) \in Nat /\ Len(ps[n]) \in Nat /\ Len(c) = Len(b) + Len(ps[n])
          /\ \A i \in 1 .. Len(b) : c[i] = b[i]
          /\ Len(f[k]) <= Len(b)
          /\ \A i \in 1 .. Len(f[k]) : b[i] = f[k][i]
      BY <2>1, <3>1 DEF Follows, Begins
    <3> HIDE DEF b, c
    <3>3. Len(f[k]) <= Len(c) /\ \A i \in 1 .. Len(f[k]) : c[i] = f[k][i]
      BY <1>0, <3>2
    <3> QED
      BY <1>0, <3>3 DEF c, Begins
  <2> QED
    BY <2>2, <2>3
<1>3. 0 .. N \subseteq G
  <2>1. \A n \in 1 .. N : n - 1 \in G => n \in G
    BY <1>0, <1>2
  <2> HIDE DEF G
  <2> QED
    BY <1>0, <1>1, <2>1, CountUp
<1>4. Begins(f[N], f[k])
  BY <1>0, <1>3
<1> QED
  BY <1>4

\* FlattenSeq puts all the pieces together.
LEMMA Flattened ==
    ASSUME NEW S, NEW N, NEW ps, NEW f, Sums(S, N, ps, f)
    PROVE  FlattenSeq(ps) = f[N]
<1> DEFINE F(g, i) == IF i = 1 THEN ps[i] ELSE g[i - 1] \o ps[i]
           flatten == CHOOSE g : g = [i \in 1 .. N |-> F(g, i)]
           h == [i \in 1 .. N |-> f[i]]
<1>0. N \in Nat /\ Len(ps) = N
  BY DEF Sums
<1>1. h = [i \in 1 .. N |-> F(h, i)]
  <2> SUFFICES ASSUME NEW i \in 1 .. N PROVE f[i] = F(h, i)
    OBVIOUS
  <2>1. f[i] = f[i - 1] \o ps[i] /\ ps[i] \in Seq(S) /\ f[0] = <<>>
    BY DEF Sums, Summed
  <2>2. CASE i = 1
    <3>1. f[i - 1] = <<>>
      BY <2>1, <2>2
    <3> QED
      BY <2>1, <2>2, <3>1, ConcatEmptySeq
  <2>3. CASE i # 1
    <3>1. i - 1 \in 1 .. N
      BY <1>0, <2>3
    <3>2. h[i - 1] = f[i - 1]
      BY <3>1
    <3> QED
      BY <2>1, <2>3, <3>2
  <2> QED
    BY <2>2, <2>3
<1>2. flatten = [i \in 1 .. N |-> F(flatten, i)]
  BY <1>1
<1> HIDE DEF flatten, h
<1>3. 0 .. N \subseteq {0} \cup {i \in 1 .. N : flatten[i] = h[i]}
  <2> DEFINE G == {0} \cup {i \in 1 .. N : flatten[i] = h[i]}
  <2>1. 0 \in G
    OBVIOUS
  <2>2. ASSUME NEW i \in 1 .. N, i - 1 \in G PROVE i \in G
    <3>1. flatten[i] = F(flatten, i) /\ h[i] = F(h, i)
      BY <1>1, <1>2
    <3>2. CASE i = 1
      BY <3>1, <3>2
    <3>3. CASE i # 1
      <4>1. flatten[i - 1] = h[i - 1]
        BY <2>2, <3>3
      <4> QED
        BY <3>1, <3>3, <4>1
    <3> QED
      BY <3>2, <3>3
  <2> HIDE DEF G
  <2>3. 0 .. N \subseteq G
    BY <1>0, <2>1, <2>2, CountUp
  <2> QED
    BY <2>3 DEF G
<1>4. CASE N = 0
  <2>1. ps = <<>> /\ f[N] = <<>>
    BY <1>4 DEF Sums, Summed
  <2> QED
    BY <1>0, <1>4, <2>1 DEF FlattenSeq
<1>5. CASE N # 0
  <2>1. FlattenSeq(ps) = flatten[N]
    BY <1>0, <1>5 DEF FlattenSeq, flatten
  <2>2. N \in 1 .. N /\ N \in 0 .. N
    BY <1>0, <1>5
  <2>3. flatten[N] = h[N]
    BY <1>3, <2>2
  <2> QED
    BY <2>1, <2>2, <2>3 DEF h
<1> QED
  BY <1>4, <1>5

(* ---- the scan of varsubst ------------------------------------------------ *)

Char == Token \cup {Nul}

LEMMA Signs ==
    /\ " " # "$" /\ Backslash # " " /\ Backslash # "$" /\ Nul # "$" /\ Nul # Backslash
    /\ Backslash \notin NameToken /\ " " \notin NameToken /\ "$" \notin NameToken
    /\ Nul \notin NameToken
BY Zenon DEF Backslash, Nul, NameToken

\* The recursion of Scan is well-founded, so that it has a value.
LEMMA ScanDefined ==
    ASSUME NEW symbols, NEW t, Len(t) \in Nat
    PROVE  LET r == Scan(symbols, t)
           IN  r = [k \in 0 .. Len(t) |->
                      IF k = 0 THEN [out |-> <<>>, mode |-> "copy", name |-> <<>>]
                      ELSE Scanned(symbols, r[k - 1], t[k])]
<1> DEFINE start == [out |-> <<>>, mode |-> "copy", name |-> <<>>]
           F(g, k) == IF k = 0 THEN start ELSE Scanned(symbols, g[k - 1], t[k])
           N == Len(t)
           G == {n \in 0 .. N : \E g : g = [k \in 0 .. n |-> F(g, k)]}
<1>1. 0 \in G
  <2> DEFINE h == [k \in 0 .. 0 |-> start]
  <2>1. h = [k \in 0 .. 0 |-> F(h, k)]
    OBVIOUS
  <2> HIDE DEF h
  <2> QED
    BY <2>1
<1>2. ASSUME NEW n \in 1 .. N, n - 1 \in G PROVE n \in G
  <2>1. PICK g : g = [k \in 0 .. n - 1 |-> F(g, k)]
    BY <1>2
  <2> DEFINE h == [k \in 0 .. n |-> IF k = n THEN F(g, n) ELSE g[k]]
  <2>2. h = [k \in 0 .. n |-> F(h, k)]
    <3> SUFFICES ASSUME NEW k \in 0 .. n PROVE h[k] = F(h, k)
      OBVIOUS
    <3>1. CASE k = n
      <4>1. n - 1 \in 0 .. n /\ n - 1 # n /\ h[n - 1] = g[n - 1]
        OBVIOUS
      <4> QED
        BY <3>1, <4>1
    <3>2. CASE k # n /\ k = 0
      <4>1. 0 \in 0 .. n - 1
        OBVIOUS
      <4> QED
        BY <2>1, <3>2, <4>1
    <3>3. CASE k # n /\ k # 0
      <4>1. k \in 0 .. n - 1 /\ k - 1 \in 0 .. n /\ k - 1 # n
        BY <3>3
      <4>2. h[k - 1] = g[k - 1] /\ h[k] = g[k]
        BY <3>3, <4>1
      <4>3. g[k] = F(g, k)
        BY <2>1, <4>1
      <4> QED
        BY <4>2, <4>3
    <3> QED
      BY <3>1, <3>2, <3>3
  <2> HIDE DEF h, F
  <2> QED
    BY <2>2
<1>3. 0 .. N \subseteq G
  <2> HIDE DEF G
  <2> QED
    BY <1>1, <1>2, CountUp
<1>4. \E g : g = [k \in 0 .. N |-> F(g, k)]
  BY <1>3
<1> QED
  BY <1>4 DEF Scan

LEMMA ScanStep ==
    ASSUME NEW symbols, NEW t, Len(t) \in Nat
    PROVE  /\ Scan(symbols, t)[0] = [out |-> <<>>, mode |-> "copy", name |-> <<>>]
           /\ \A k \in 1 .. Len(t) :
                Scan(symbols, t)[k] = Scanned(symbols, Scan(symbols, t)[k - 1], t[k])
<1> DEFINE r == Scan(symbols, t)
           N == Len(t)
           start == [out |-> <<>>, mode |-> "copy", name |-> <<>>]
<1>1. r = [k \in 0 .. N |-> IF k = 0 THEN start ELSE Scanned(symbols, r[k - 1], t[k])]
  BY ScanDefined
<1> HIDE DEF r, N, start
<1>2. N \in Nat
  BY DEF N
<1>3. r[0] = start
  BY <1>1, <1>2
<1>4. ASSUME NEW k \in 1 .. N PROVE r[k] = Scanned(symbols, r[k - 1], t[k])
  <2>1. k \in 0 .. N /\ k # 0
    BY <1>2
  <2> QED
    BY <1>1, <2>1
<1> QED
  BY <1>3, <1>4 DEF r, N, start

\* The scan has put out o, is in mode m, and has collected the name w.
At(o, m, w) == [out |-> o, mode |-> m, name |-> w]

\* It is between two parts of the text.
Settled(s, o) == \E w : s = At(o, "copy", w)

LEMMA CopyStep ==
    ASSUME NEW symbols, NEW s, NEW o, Settled(s, o), NEW c, c # "$", c # Backslash
    PROVE  Settled(Scanned(symbols, s, c), Append(o, c))
<1>1. PICK w : s = At(o, "copy", w)
  BY DEF Settled
<1>2. Scanned(symbols, s, c) = At(Append(o, c), "copy", w)
  BY <1>1 DEF At, Scanned
<1> QED
  BY <1>2 DEF Settled

LEMMA EscapeStep ==
    ASSUME NEW symbols, NEW s, NEW o, Settled(s, o), NEW c
    PROVE  Settled(Scanned(symbols, Scanned(symbols, s, Backslash), c), Append(o, c))
<1>1. PICK w : s = At(o, "copy", w)
  BY DEF Settled
<1>2. Scanned(symbols, s, Backslash) = At(o, "esc", w)
  BY <1>1, Signs DEF At, Scanned
<1>3. Scanned(symbols, At(o, "esc", w), c) = At(Append(o, c), "copy", w)
  BY DEF At, Scanned
<1> QED
  BY <1>2, <1>3 DEF Settled

LEMMA DollarStep ==
    ASSUME NEW symbols, NEW s, NEW o, Settled(s, o)
    PROVE  Scanned(symbols, s, "$") = At(o, "var", <<>>)
<1>1. PICK w : s = At(o, "copy", w)
  BY DEF Settled
<1> QED
  BY <1>1, Signs DEF At, Scanned

LEMMA NameStep ==
    ASSUME NEW symbols, NEW o, NEW w, NEW c \in NameToken
    PROVE  Scanned(symbols, At(o, "var", w), c) = At(o, "var", Append(w, c))
BY DEF At, Scanned

\* A part of the text that says o is over, but for the token behind it.
Said(symbols, s, o) ==
    \/ Settled(s, o)
    \/ \E u, w : s = At(u, "var", w) /\ o = u \o Value(symbols, w)

LEMMA EndStep ==
    ASSUME NEW symbols, NEW s, NEW o \in Seq(Char), Said(symbols, s, o), NEW c \in {" ", Nul}
    PROVE  Settled(Scanned(symbols, s, c), Append(o, c))
<1>1. c \in Char /\ c \notin NameToken /\ c # "$" /\ c # Backslash
  BY TokenAssumption, Signs DEF Char
<1>2. CASE Settled(s, o)
  BY <1>1, <1>2, CopyStep
<1>3. ASSUME NEW u, NEW w, s = At(u, "var", w), o = u \o Value(symbols, w)
      PROVE  Settled(Scanned(symbols, s, c), Append(o, c))
  <2>1. Scanned(symbols, s, c) = At(u \o Value(symbols, w) \o <<c>>, "copy", <<>>)
    BY <1>1, <1>3 DEF At, Scanned, EndName
  <2>2. Append(o, c) = o \o <<c>>
    BY <1>1, AppendIsConcat
  <2> QED
    BY <1>3, <2>1, <2>2 DEF Settled
<1> QED
  BY <1>2, <1>3 DEF Said

\* The text t has the part w behind its first p tokens.
Holds(t, p, w) == /\ p \in Nat /\ p + Len(w) <= Len(t)
                  /\ \A i \in 1 .. Len(w) : t[p + i] = w[i]

\* The first k tokens of a text are its first k - 1 and the k-th.
LEMMA OneMoreToken ==
    ASSUME NEW S, NEW w \in Seq(S), NEW k \in 1 .. Len(w)
    PROVE  SubSeq(w, 1, k) = Append(SubSeq(w, 1, k - 1), w[k])
OBVIOUS

LEMMA OneMoreAfter ==
    ASSUME NEW S, NEW o \in Seq(S), NEW w \in Seq(S), NEW k \in 1 .. Len(w)
    PROVE  o \o SubSeq(w, 1, k) = Append(o \o SubSeq(w, 1, k - 1), w[k])
<1> DEFINE a == SubSeq(w, 1, k - 1)
           e == w[k]
<1>1. SubSeq(w, 1, k) = Append(a, e)
  BY OneMoreToken
<1>2. a \in Seq(S) /\ e \in S
  OBVIOUS
<1> HIDE DEF a, e
<1>3. o \o Append(a, e) = Append(o \o a, e)
  BY <1>2
<1> QED
  BY <1>1, <1>3 DEF a, e

LEMMA AllOfText == ASSUME NEW S, NEW w \in Seq(S)
                   PROVE  SubSeq(w, 1, Len(w)) = w /\ SubSeq(w, 1, 0) = <<>>
OBVIOUS

\* What is escaped is put out as it was.
LEMMA ScanEscaped ==
    ASSUME NEW symbols, NEW t, Len(t) \in Nat, NEW w \in Seq(Token), NEW p, NEW o \in Seq(Char),
           Holds(t, p, Escaped(w)), Settled(Scan(symbols, t)[p], o)
    PROVE  Settled(Scan(symbols, t)[p + Len(Escaped(w))], o \o w)
<1> DEFINE N == Len(w)
           ps == [i \in DOMAIN w |-> IF w[i] \in {"$", Backslash} THEN <<Backslash, w[i]>>
                                   ELSE <<w[i]>>]
           Z(k) == Scan(symbols, t)[k]
<1>1. N \in Nat /\ DOMAIN w = 1 .. N /\ w \in Seq(Char) /\ \A i \in 1 .. N : w[i] \in Token
  BY DEF Char
<1>2. ps \in [1 .. N -> Seq(Token)]
  <2> SUFFICES ASSUME NEW i \in 1 .. N
               PROVE  <<Backslash, w[i]>> \in Seq(Token) /\ <<w[i]>> \in Seq(Token)
    OBVIOUS
  <2>1. Backslash \in Token
    BY TokenAssumption
  <2> QED
    BY <1>1, <2>1
<1>3. Escaped(w) = FlattenSeq(ps)
  BY DEF Escaped
<1>4. \A i \in 1 .. N : /\ w[i] \in {"$", Backslash} => ps[i] = <<Backslash, w[i]>>
                        /\ w[i] \notin {"$", Backslash} => ps[i] = <<w[i]>>
  OBVIOUS
<1> HIDE DEF ps
<1>5. PICK f : Sums(Token, N, ps, f)
  BY <1>1, <1>2, SumsExist
<1>6. Escaped(w) = f[N] /\ f[0] = <<>>
  <2>1. FlattenSeq(ps) = f[N]
    BY <1>5, Flattened
  <2> QED
    BY <1>3, <1>5, <2>1 DEF Sums, Summed
<1> DEFINE G == {k \in 0 .. N : Settled(Z(p + Len(f[k])), o \o SubSeq(w, 1, k))}
<1>7. 0 \in G
  <2>1. p \in Nat /\ p + Len(f[0]) = p
    BY <1>6 DEF Holds
  <2>2. o \o SubSeq(w, 1, 0) = o
    BY AllOfText, ConcatEmptySeq
  <2>3. Z(p + Len(f[0])) = Z(p)
    BY <2>1
  <2>4. Settled(Z(p + Len(f[0])), o \o SubSeq(w, 1, 0))
    BY <2>2, <2>3, Zenon
  <2> QED
    BY <1>1, <2>4
<1>8. ASSUME NEW k \in 1 .. N, k - 1 \in G PROVE k \in G
  <2> DEFINE q == p + Len(f[k - 1])
             u == o \o SubSeq(w, 1, k - 1)
  <2>1. Settled(Z(q), u)
    BY <1>8
  <2>2. /\ f[k - 1] \in Seq(Token) /\ ps[k] \in Seq(Token)
        /\ Follows(f[k], f[k - 1], ps[k])
    BY <1>5, SumsNext
  <2>3. Begins(f[N], f[k])
    BY <1>1, <1>5, SumsGrow
  <2>4. /\ p \in Nat /\ p + Len(f[N]) <= Len(t)
        /\ \A i \in 1 .. Len(f[N]) : t[p + i] = f[N][i]
    BY <1>6 DEF Holds
  <2> DEFINE a == Len(f[k - 1])
             b == Len(ps[k])
             c == Len(f[k])
  <2>5. /\ p \in Nat /\ a \in Nat /\ b \in Nat /\ c = a + b /\ c <= Len(f[N])
        /\ p + Len(f[N]) <= Len(t) /\ q = p + a
        /\ \A i \in 1 .. c : f[N][i] = f[k][i]
        /\ \A i \in 1 .. b : f[k][a + i] = ps[k][i]
    <3>1. c \in Nat /\ c <= Len(f[N]) /\ \A i \in 1 .. c : f[N][i] = f[k][i]
      BY <2>3 DEF Begins
    <3>2. a \in Nat /\ b \in Nat /\ \A i \in 1 .. b : f[k][a + i] = ps[k][i]
      BY <2>2 DEF Follows
    <3>3. c = a + b
      BY <2>2 DEF Follows
    <3> QED
      BY <2>4, <3>1, <3>2, <3>3
  <2> HIDE DEF a, b, c, q
  <2>6. q \in Nat /\ p + c = q + b /\ q + b <= Len(t)
    BY <1>1, <1>5, <2>5 DEF Sums
  <2>61. ASSUME NEW i \in 1 .. b PROVE t[q + i] = ps[k][i]
    <3>1. a + i \in 1 .. c /\ a + i \in 1 .. Len(f[N]) /\ p + (a + i) = q + i
      BY <2>5
    <3>2. t[p + (a + i)] = f[N][a + i]
      BY <2>4, <3>1
    <3>3. f[N][a + i] = f[k][a + i]
      BY <2>5, <3>1
    <3> QED
      BY <2>5, <3>1, <3>2, <3>3
  <2>7. Append(u, w[k]) = o \o SubSeq(w, 1, k)
    BY <1>1, OneMoreAfter
  <2> HIDE DEF u
  <2>8. CASE w[k] \in {"$", Backslash}
    <3>1. ps[k] = <<Backslash, w[k]>>
      BY <1>4, <2>8
    <3>2. b = 2 /\ ps[k][1] = Backslash /\ ps[k][2] = w[k]
      BY <3>1 DEF b
    <3>3. q \in Nat /\ t[q + 1] = Backslash /\ t[q + 2] = w[k] /\ p + c = q + 2 /\ q + 2 <= Len(t)
      BY <2>6, <2>61, <3>2
    <3>4. /\ Z(q + 1) = Scanned(symbols, Z(q), Backslash)
          /\ Z(q + 2) = Scanned(symbols, Z(q + 1), w[k])
      <4>1. /\ q + 1 \in 1 .. Len(t) /\ q + 2 \in 1 .. Len(t)
            /\ (q + 1) - 1 = q /\ (q + 2) - 1 = q + 1
        BY <3>3
      <4> QED
        BY <3>3, <4>1, ScanStep
    <3>5. Settled(Z(q + 2), Append(u, w[k]))
      BY <2>1, <3>4, EscapeStep
    <3> HIDE DEF Z
    <3>6. Settled(Z(p + c), Append(u, w[k]))
      BY <3>3, <3>5
    <3>7. Settled(Z(p + Len(f[k])), o \o SubSeq(w, 1, k))
      BY <2>7, <3>6, Zenon DEF c
    <3> QED
      BY <1>1, <3>7
  <2>9. CASE w[k] \notin {"$", Backslash}
    <3>1. ps[k] = <<w[k]>>
      BY <1>4, <2>9
    <3>2. b = 1 /\ ps[k][1] = w[k]
      BY <3>1 DEF b
    <3>3. q \in Nat /\ t[q + 1] = w[k] /\ p + c = q + 1 /\ q + 1 <= Len(t)
      BY <2>6, <2>61, <3>2
    <3>4. Z(q + 1) = Scanned(symbols, Z(q), w[k])
      <4>1. q + 1 \in 1 .. Len(t) /\ (q + 1) - 1 = q
        BY <3>3
      <4> QED
        BY <3>3, <4>1, ScanStep
    <3>5. Settled(Z(q + 1), Append(u, w[k]))
      BY <2>1, <2>9, <3>4, CopyStep
    <3> QED
      BY <2>7, <3>3, <3>5 DEF c
  <2> QED
    BY <2>8, <2>9
<1> HIDE DEF G
<1>9. 0 .. N \subseteq G
  BY <1>1, <1>7, <1>8, CountUp
<1>10. Settled(Z(p + Len(f[N])), o \o SubSeq(w, 1, N))
  BY <1>1, <1>9 DEF G
<1> QED
  BY <1>6, <1>10, AllOfText

\* After a dollar sign a name is collected.
LEMMA ScanName ==
    ASSUME NEW symbols, NEW t, Len(t) \in Nat, NEW w \in Seq(NameToken), NEW p, NEW o,
           Holds(t, p, <<"$">> \o w), Settled(Scan(symbols, t)[p], o)
    PROVE  Scan(symbols, t)[p + Len(<<"$">> \o w)] = At(o, "var", w)
<1> DEFINE N == Len(w)
           Z(k) == Scan(symbols, t)[k]
           c == <<"$">> \o w
           G == {k \in 0 .. N : Z(p + 1 + k) = At(o, "var", SubSeq(w, 1, k))}
<1>1. N \in Nat /\ \A i \in 1 .. N : w[i] \in NameToken
  OBVIOUS
<1>2. Len(c) = N + 1 /\ c[1] = "$" /\ \A i \in 1 .. N : c[i + 1] = w[i]
  <2>1. w \in Seq(NameToken \cup {"$"}) /\ <<"$">> \in Seq(NameToken \cup {"$"})
    OBVIOUS
  <2> QED
    BY <2>1
<1> HIDE DEF c
<1>3. /\ p \in Nat /\ p + 1 + N <= Len(t) /\ t[p + 1] = "$"
      /\ \A i \in 1 .. N : t[p + 1 + i] = w[i]
  <2>1. /\ p \in Nat /\ p + (N + 1) <= Len(t)
        /\ \A i \in 1 .. N + 1 : t[p + i] = c[i]
    BY <1>2 DEF Holds, c
  <2>2. ASSUME NEW i \in 1 .. N PROVE t[p + 1 + i] = w[i]
    <3>1. i + 1 \in 1 .. N + 1 /\ p + (i + 1) = p + 1 + i
      BY <1>1, <2>1
    <3> QED
      BY <1>2, <2>1, <3>1
  <2> QED
    BY <1>1, <1>2, <2>1, <2>2
<1>4. 0 \in G
  <2>1. p + 1 \in 1 .. Len(t) /\ (p + 1) - 1 = p /\ p + 1 + 0 = p + 1
    BY <1>1, <1>3
  <2>2. Z(p + 1) = Scanned(symbols, Z(p), "$")
    BY <1>3, <2>1, ScanStep
  <2>3. Z(p + 1) = At(o, "var", <<>>)
    BY <2>2, DollarStep
  <2>4. SubSeq(w, 1, 0) = <<>>
    BY AllOfText
  <2>5. Z(p + 1 + 0) = At(o, "var", SubSeq(w, 1, 0))
    <3>1. Z(p + 1 + 0) = Z(p + 1)
      BY <2>1
    <3> QED
      BY <2>3, <2>4, <3>1, Zenon
  <2> QED
    BY <1>1, <2>5
<1>5. ASSUME NEW k \in 1 .. N, k - 1 \in G PROVE k \in G
  <2>1. /\ p + 1 + k \in 1 .. Len(t) /\ (p + 1 + k) - 1 = p + 1 + (k - 1)
    BY <1>1, <1>3
  <2>2. Z(p + 1 + k) = Scanned(symbols, Z(p + 1 + (k - 1)), w[k])
    BY <1>3, <2>1, ScanStep
  <2>3. Z(p + 1 + k) = At(o, "var", Append(SubSeq(w, 1, k - 1), w[k]))
    BY <1>1, <1>5, <2>2, NameStep
  <2>4. SubSeq(w, 1, k) = Append(SubSeq(w, 1, k - 1), w[k])
    BY OneMoreToken
  <2>5. Z(p + 1 + k) = At(o, "var", SubSeq(w, 1, k))
    BY <2>3, <2>4, Zenon
  <2> QED
    BY <2>5
<1> HIDE DEF G
<1>6. 0 .. N \subseteq G
  BY <1>1, <1>4, <1>5, CountUp
<1>7. Z(p + 1 + N) = At(o, "var", SubSeq(w, 1, N))
  BY <1>1, <1>6 DEF G
<1>8. p + Len(c) = p + 1 + N
  BY <1>1, <1>2, <1>3
<1> QED
  BY <1>7, <1>8, AllOfText DEF c

LEMMA FlattenedText ==
    ASSUME NEW S, NEW N \in Nat, NEW ps \in [1 .. N -> Seq(S)]
    PROVE  FlattenSeq(ps) \in Seq(S)
<1>1. PICK f : Sums(S, N, ps, f)
  BY SumsExist
<1>2. FlattenSeq(ps) = f[N]
  BY <1>1, Flattened
<1> QED
  BY <1>1, <1>2 DEF Sums

(* ---- the words of a status checker -------------------------------------- *)

\* A word in the file, and what it stands for.
Written(w) == IF w.var THEN <<"$">> \o w.text ELSE Escaped(w.text)
Meant(symbols, w) == IF w.var THEN Value(symbols, w.text) ELSE w.text

\* The assumption on the words of channels.xml.
Proper(w) == w \in Word /\ (w.var => w.text \in Seq(NameToken))

LEMMA WrittenText == ASSUME NEW w, Proper(w) PROVE Written(w) \in Seq(Token)
<1>1. w.text \in Seq(Token) /\ w.var \in BOOLEAN
  BY DEF Proper, Word, Text
<1>2. <<"$">> \in Seq(Token)
  <2>1. "$" \in Token
    BY TokenAssumption
  <2> QED
    BY <2>1
<1>3. <<"$">> \o w.text \in Seq(Token)
  BY <1>1, <1>2, ConcatProperties
<1>4. Escaped(w.text) \in Seq(Token)
  <2> DEFINE t == w.text
             ps == [i \in DOMAIN t |-> IF t[i] \in {"$", Backslash} THEN <<Backslash, t[i]>>
                                       ELSE <<t[i]>>]
  <2>1. Escaped(t) = FlattenSeq(ps)
    BY DEF Escaped
  <2> HIDE DEF t
  <2>2. t \in Seq(Token) /\ Backslash \in Token
    BY <1>1, TokenAssumption DEF t
  <2>3. Len(t) \in Nat /\ ps \in [1 .. Len(t) -> Seq(Token)]
    BY <2>2
  <2> HIDE DEF ps
  <2>4. FlattenSeq(ps) \in Seq(Token)
    BY <2>3, FlattenedText
  <2> QED
    BY <2>1, <2>4 DEF t
<1> QED
  BY <1>3, <1>4 DEF Written

\* Behind what is written there is what is meant.
LEMMA ScanWord ==
    ASSUME NEW symbols, NEW t, Len(t) \in Nat, NEW w, Proper(w), NEW p, NEW o \in Seq(Char),
           Holds(t, p, Written(w)), Settled(Scan(symbols, t)[p], o)
    PROVE  Said(symbols, Scan(symbols, t)[p + Len(Written(w))], o \o Meant(symbols, w))
<1>1. CASE w.var
  <2>1. w.text \in Seq(NameToken) /\ Written(w) = <<"$">> \o w.text
    BY <1>1 DEF Proper, Written
  <2>2. Scan(symbols, t)[p + Len(Written(w))] = At(o, "var", w.text)
    <3> DEFINE v == w.text
               c == <<"$">> \o v
    <3>1. v \in Seq(NameToken) /\ Written(w) = c /\ Holds(t, p, c)
      BY <2>1
    <3> HIDE DEF v
    <3>2. Scan(symbols, t)[p + Len(c)] = At(o, "var", v)
      BY <3>1, ScanName
    <3> HIDE DEF c
    <3> QED
      BY <3>1, <3>2 DEF v
  <2>3. Meant(symbols, w) = Value(symbols, w.text)
    BY <1>1 DEF Meant
  <2> QED
    BY <2>2, <2>3 DEF Said
<1>2. CASE ~w.var
  <2>1. w.text \in Seq(Token) /\ Written(w) = Escaped(w.text)
    BY <1>2 DEF Proper, Written, Word, Text
  <2>2. Settled(Scan(symbols, t)[p + Len(Written(w))], o \o w.text)
    BY <2>1, ScanEscaped
  <2>3. Meant(symbols, w) = w.text
    BY <1>2 DEF Meant
  <2> QED
    BY <2>2, <2>3 DEF Said
<1> QED
  BY <1>1, <1>2

Blank == " "

\* The texts, with blanks between them, are put together of the pieces ps.
Joins(N, texts, ps, f) ==
    /\ Sums(Token, N, ps, f) /\ Joined(texts) = f[N]
    /\ 1 \in 1 .. N => ps[1] = texts[1]
    /\ \A i \in 2 .. N : ps[i] = <<Blank>> \o texts[i]

LEMMA JoinsExist ==
    ASSUME NEW N \in Nat, NEW texts \in [1 .. N -> Seq(Token)]
    PROVE  \E ps, f : Joins(N, texts, ps, f)
<1> DEFINE ps == [i \in DOMAIN texts |-> IF i = 1 THEN texts[i] ELSE <<Blank>> \o texts[i]]
<1>1. Joined(texts) = FlattenSeq(ps)
  BY DEF Joined, Blank
<1>2. Blank \in Token
  BY TokenAssumption DEF Blank
<1>3. \A i \in 1 .. N : texts[i] \in Seq(Token) /\ <<Blank>> \o texts[i] \in Seq(Token)
  <2>1. <<Blank>> \in Seq(Token)
    BY <1>2
  <2> QED
    BY <2>1, ConcatProperties
<1>4. ps \in [1 .. N -> Seq(Token)]
  BY <1>3
<1>5. /\ 1 \in 1 .. N => ps[1] = texts[1]
      /\ \A i \in 2 .. N : ps[i] = <<Blank>> \o texts[i]
  OBVIOUS
<1> HIDE DEF ps
<1>6. PICK f : Sums(Token, N, ps, f)
  BY <1>4, SumsExist
<1>7. FlattenSeq(ps) = f[N]
  BY <1>6, Flattened
<1> QED
  BY <1>1, <1>5, <1>6, <1>7 DEF Joins

LEMMA JoinedText ==
    ASSUME NEW N \in Nat, NEW texts \in [1 .. N -> Seq(Token)]
    PROVE  Joined(texts) \in Seq(Token)
<1>1. PICK ps, f : Joins(N, texts, ps, f)
  BY JoinsExist
<1>2. Sums(Token, N, ps, f) /\ Joined(texts) = f[N]
  BY <1>1 DEF Joins
<1> QED
  BY <1>2 DEF Sums

\* A piece of a longer text is where the pieces before it end.
LEMMA PieceHeld ==
    ASSUME NEW N \in Nat, NEW ps, NEW f, Sums(Token, N, ps, f), NEW k \in 1 .. N,
           NEW t, Len(t) \in Nat, Len(f[N]) <= Len(t),
           \A i \in 1 .. Len(f[N]) : t[i] = f[N][i]
    PROVE  Holds(t, Len(f[k - 1]), ps[k])
<1> DEFINE a == Len(f[k - 1])
           b == Len(ps[k])
           c == Len(f[k])
<1>1. Follows(f[k], f[k - 1], ps[k])
  BY SumsNext
<1>2. Begins(f[N], f[k])
  BY SumsGrow
<1>3. a \in Nat /\ b \in Nat /\ \A i \in 1 .. b : f[k][a + i] = ps[k][i]
  BY <1>1 DEF Follows
<1>4. c = a + b
  BY <1>1 DEF Follows
<1>5. c \in Nat /\ c <= Len(f[N]) /\ \A i \in 1 .. c : f[N][i] = f[k][i]
  BY <1>2 DEF Begins
<1>6. Len(f[N]) \in Nat
  BY DEF Sums
<1> HIDE DEF a, b, c
<1>7. a + b <= Len(t)
  BY <1>3, <1>4, <1>5, <1>6
<1>8. ASSUME NEW i \in 1 .. b PROVE t[a + i] = ps[k][i]
  <2>1. a + i \in 1 .. c /\ a + i \in 1 .. Len(f[N])
    BY <1>3, <1>4, <1>5, <1>6
  <2> QED
    BY <1>3, <1>5, <2>1
<1> QED
  BY <1>3, <1>4, <1>7, <1>8 DEF Holds, a, b, c

\* What stands behind a first token of a part.
LEMMA RestHeld ==
    ASSUME NEW t, Len(t) \in Nat, NEW p, NEW c \in Token, NEW w \in Seq(Token),
           Holds(t, p, <<c>> \o w)
    PROVE  /\ p + 1 \in 1 .. Len(t) /\ t[p + 1] = c
           /\ Holds(t, p + 1, w)
           /\ p + Len(<<c>> \o w) = p + 1 + Len(w)
<1> DEFINE d == <<c>> \o w
           n == Len(w)
<1>1. n \in Nat /\ Len(d) = 1 + n /\ d[1] = c /\ \A i \in 1 .. n : d[1 + i] = w[i]
  OBVIOUS
<1> HIDE DEF d, n
<1>2. p \in Nat /\ p + Len(d) <= Len(t) /\ \A i \in 1 .. Len(d) : t[p + i] = d[i]
  BY DEF Holds, d
<1>3. p + 1 + n <= Len(t) /\ p + Len(d) = p + 1 + n
  BY <1>1, <1>2
<1>4. t[p + 1] = c
  BY <1>1, <1>2
<1>5. ASSUME NEW i \in 1 .. n PROVE t[p + 1 + i] = w[i]
  <2>1. 1 + i \in 1 .. Len(d) /\ p + (1 + i) = p + 1 + i
    BY <1>1, <1>2
  <2> QED
    BY <1>1, <1>2, <2>1
<1>6. p + 1 \in 1 .. Len(t) /\ p + 1 \in Nat
  BY <1>1, <1>2, <1>3
<1> QED
  BY <1>3, <1>4, <1>5, <1>6 DEF Holds, d, n

\* The substitution puts what is meant in the place of what is written.
LEMMA Substituted ==
    ASSUME NEW symbols, NEW words \in Seq(Word),
           \A i \in 1 .. Len(words) : /\ Proper(words[i])
                                      /\ Meant(symbols, words[i]) \in Seq(Token)
    PROVE  varsubst(symbols, Content(words))
             = Joined([i \in DOMAIN words |-> Meant(symbols, words[i])])
<1> DEFINE N == Len(words)
           texts == [i \in DOMAIN words |-> Written(words[i])]
           says == [i \in DOMAIN words |-> Meant(symbols, words[i])]
           t == Append(Joined(texts), Nul)
           Z(k) == Scan(symbols, t)[k]
<1>1. Content(words) = Joined(texts)
  BY DEF Content, Written
<1>2. N \in Nat /\ DOMAIN words = 1 .. N
  OBVIOUS
<1>3. texts \in [1 .. N -> Seq(Token)] /\ says \in [1 .. N -> Seq(Token)]
  BY <1>2, WrittenText
<1>4. \A i \in 1 .. N : texts[i] = Written(words[i]) /\ says[i] = Meant(symbols, words[i])
  BY <1>2
<1> HIDE DEF N, texts, says
<1>5. PICK ps, f : Joins(N, texts, ps, f)
  BY <1>2, <1>3, JoinsExist
<1>6. PICK qs, g : Joins(N, says, qs, g)
  BY <1>2, <1>3, JoinsExist
<1>51. Sums(Token, N, ps, f) /\ Sums(Token, N, qs, g)
  BY <1>5, <1>6 DEF Joins
<1>52. Joined(texts) = f[N] /\ Joined(says) = g[N]
  BY <1>5, <1>6 DEF Joins
<1>53. f[0] = <<>> /\ g[0] = <<>> /\ \A k \in 0 .. N : g[k] \in Seq(Token) /\ f[k] \in Seq(Token)
  BY <1>51 DEF Sums, Summed
<1>54. Len(f[0]) = 0
  BY <1>53
<1>7. /\ f[N] \in Seq(Token) /\ Len(f[N]) \in Nat /\ Len(t) = Len(f[N]) + 1
      /\ t[Len(f[N]) + 1] = Nul
      /\ \A i \in 1 .. Len(f[N]) : t[i] = f[N][i]
  <2> DEFINE c == f[N]
  <2>1. c \in Seq(Token)
    BY <1>2, <1>53
  <2>2. t = Append(c, Nul)
    BY <1>52
  <2> HIDE DEF c, t
  <2>3. c \in Seq(Char) /\ Nul \in Char
    BY <2>1 DEF Char
  <2>4. /\ Len(t) = Len(c) + 1 /\ t[Len(c) + 1] = Nul
        /\ \A i \in 1 .. Len(c) : t[i] = c[i]
    BY <2>2, <2>3, AppendProperties
  <2> QED
    BY <2>1, <2>4 DEF c
<1> HIDE DEF t
<1>71. \A i \in 1 .. Len(t) : Z(i) = Scanned(symbols, Z(i - 1), t[i])
  <2>1. Len(t) \in Nat
    BY <1>7
  <2> QED
    BY <2>1, ScanStep
<1> DEFINE G == {k \in 0 .. N : Said(symbols, Z(Len(f[k])), g[k])}
<1>8. 0 \in G
  <2>1. Z(0) = At(<<>>, "copy", <<>>)
    BY <1>7, ScanStep DEF At
  <2>2. Said(symbols, Z(0), <<>>)
    BY <2>1 DEF Said, Settled
  <2>3. Z(Len(f[0])) = Z(0)
    BY <1>54
  <2>4. Said(symbols, Z(Len(f[0])), g[0])
    BY <1>53, <2>2, <2>3, Zenon
  <2> QED
    BY <1>2, <2>4
<1>9. ASSUME NEW k \in 1 .. N, k - 1 \in G PROVE k \in G
  <2> DEFINE w == words[k]
             p == Len(f[k - 1])
  <2>1. Proper(w) /\ texts[k] = Written(w) /\ says[k] = Meant(symbols, w) /\ says[k] \in Seq(Token)
    BY <1>3, <1>4 DEF N
  <2>2. Holds(t, p, ps[k]) /\ Len(f[k]) = p + Len(ps[k])
    <3>1. Holds(t, p, ps[k])
      <4>1. Len(t) \in Nat /\ Len(f[N]) <= Len(t)
        BY <1>7
      <4> QED
        BY <1>2, <1>51, <1>7, <4>1, PieceHeld
    <3>2. Follows(f[k], f[k - 1], ps[k])
      BY <1>51, SumsNext
    <3> QED
      BY <3>1, <3>2 DEF Follows
  <2>3. g[k] = g[k - 1] \o qs[k]
    BY <1>51 DEF Sums, Summed
  <2>31. g[k - 1] \in Seq(Token)
    BY <1>2, <1>53
  <2>4. CASE k = 1
    <3>1. ps[k] = Written(w) /\ qs[k] = Meant(symbols, w)
      BY <1>5, <1>6, <2>1, <2>4 DEF Joins
    <3>2. p = 0 /\ Settled(Z(p), <<>>)
      <4>1. p = 0
        BY <1>54, <2>4
      <4>2. Z(0) = At(<<>>, "copy", <<>>)
        BY <1>7, ScanStep DEF At
      <4> QED
        BY <4>1, <4>2 DEF Settled
    <3>3. Said(symbols, Z(p + Len(Written(w))), <<>> \o Meant(symbols, w))
      <4>1. <<>> \in Seq(Char) /\ Len(t) \in Nat
        BY <1>7
      <4> HIDE DEF p, w
      <4> QED
        BY <2>1, <2>2, <3>1, <3>2, <4>1, ScanWord
    <3>4. g[k] = <<>> \o Meant(symbols, w)
      <4>1. g[k - 1] = <<>>
        BY <1>53, <2>4
      <4> QED
        BY <2>3, <3>1, <4>1, Zenon
    <3> QED
      <4>1. Len(f[k]) = p + Len(Written(w))
        BY <2>2, <3>1
      <4>2. Said(symbols, Z(Len(f[k])), g[k])
        BY <3>3, <3>4, <4>1, Zenon
      <4> QED
        BY <4>2
  <2>5. CASE k # 1
    <3>0. Blank \in Token /\ Blank \in Char
      BY TokenAssumption DEF Char, Blank
    <3>1. ps[k] = <<Blank>> \o Written(w) /\ qs[k] = <<Blank>> \o Meant(symbols, w)
      <4>1. k \in 2 .. N
        BY <1>2, <2>5
      <4> QED
        BY <1>5, <1>6, <2>1, <4>1 DEF Joins
    <3>2. /\ p + 1 \in 1 .. Len(t) /\ t[p + 1] = Blank
          /\ Holds(t, p + 1, Written(w))
          /\ Len(f[k]) = p + 1 + Len(Written(w))
      <4>1. Written(w) \in Seq(Token) /\ Len(t) \in Nat /\ Holds(t, p, <<Blank>> \o Written(w))
        <5>1. Written(w) \in Seq(Token)
          BY <2>1, WrittenText
        <5>2. Len(t) \in Nat
          BY <1>7
        <5> QED
          BY <2>2, <3>1, <5>1, <5>2, Zenon
      <4> HIDE DEF w, p
      <4>2. /\ p + 1 \in 1 .. Len(t) /\ t[p + 1] = Blank
            /\ Holds(t, p + 1, Written(w))
            /\ p + Len(<<Blank>> \o Written(w)) = p + 1 + Len(Written(w))
        BY <3>0, <4>1, RestHeld
      <4> QED
        BY <2>2, <3>1, <4>2
    <3>3. Settled(Z(p + 1), Append(g[k - 1], Blank))
      <4>1. Said(symbols, Z(p), g[k - 1]) /\ g[k - 1] \in Seq(Char)
        BY <1>9, <2>31 DEF Char
      <4>2. Z(p + 1) = Scanned(symbols, Z(p), Blank)
        <5>1. (p + 1) - 1 = p
          BY <2>2 DEF Holds
        <5> HIDE DEF p
        <5> QED
          BY <1>71, <3>2, <5>1
      <4> QED
        BY <4>1, <4>2, EndStep DEF Blank
    <3>4. Said(symbols, Z(p + 1 + Len(Written(w))),
               Append(g[k - 1], Blank) \o Meant(symbols, w))
      <4>1. Append(g[k - 1], Blank) \in Seq(Char) /\ Len(t) \in Nat
        <5> DEFINE u == g[k - 1]
        <5>1. u \in Seq(Char)
          BY <2>31 DEF Char
        <5> HIDE DEF u
        <5>2. Append(u, Blank) \in Seq(Char)
          BY <3>0, <5>1
        <5> QED
          BY <1>7, <5>2 DEF u
      <4> HIDE DEF p, w
      <4> QED
        BY <2>1, <3>2, <3>3, <4>1, ScanWord
    <3>5. g[k] = Append(g[k - 1], Blank) \o Meant(symbols, w)
      <4> DEFINE u == g[k - 1]
                 m == Meant(symbols, w)
      <4>1. g[k] = u \o (<<Blank>> \o m) /\ u \in Seq(Token) /\ m \in Seq(Token)
        BY <2>1, <2>3, <2>31, <3>1
      <4> HIDE DEF u, m
      <4>2. u \o (<<Blank>> \o m) = Append(u, Blank) \o m
        <5>1. Append(u, Blank) = u \o <<Blank>>
          BY <3>0, <4>1, AppendIsConcat
        <5>2. <<Blank>> \in Seq(Token)
          BY <3>0
        <5>3. (u \o <<Blank>>) \o m = u \o (<<Blank>> \o m)
          BY <4>1, <5>2, ConcatAssociative
        <5> QED
          BY <5>1, <5>3
      <4> QED
        BY <4>1, <4>2 DEF u, m
    <3>6. Said(symbols, Z(Len(f[k])), g[k])
      BY <3>2, <3>4, <3>5, Zenon
    <3> QED
      BY <3>6
  <2> QED
    BY <2>4, <2>5
<1> HIDE DEF G
<1>10. 0 .. N \subseteq G
  BY <1>2, <1>8, <1>9, CountUp
<1>11. Said(symbols, Z(Len(f[N])), g[N]) /\ g[N] \in Seq(Token)
  BY <1>2, <1>53, <1>10 DEF G
<1>12. Settled(Z(Len(t)), Append(g[N], Nul))
  <2> DEFINE L == Len(f[N])
  <2>1. L + 1 \in 1 .. Len(t) /\ (L + 1) - 1 = L /\ t[L + 1] = Nul /\ Len(t) = L + 1
    BY <1>7
  <2> HIDE DEF L
  <2>2. Z(L + 1) = Scanned(symbols, Z(L), Nul)
    BY <1>71, <2>1
  <2>3. Said(symbols, Z(L), g[N]) /\ g[N] \in Seq(Char)
    BY <1>11 DEF L, Char
  <2> QED
    BY <2>1, <2>2, <2>3, EndStep
<1>13. Z(Len(t)).out = Append(g[N], Nul)
  BY <1>12 DEF Settled, At
<1>14. Front(Append(g[N], Nul)) = g[N]
  <2> DEFINE c == g[N]
  <2>1. c \in Seq(Char) /\ Nul \in Char
    BY <1>11 DEF Char
  <2> HIDE DEF c
  <2>2. Front(Append(c, Nul)) = c
    BY <2>1 DEF Front
  <2> QED
    BY <2>2 DEF c
<1>15. varsubst(symbols, Content(words)) = Front(Z(Len(t)).out)
  BY <1>1 DEF varsubst, t
<1> QED
  BY <1>52, <1>13, <1>14, <1>15 DEF says

(* ---- the record that is handed out --------------------------------------- *)

LEMMA WordsProper ==
    ASSUME NEW v \in Version \ {Broken}, NEW i \in 1 .. Len(v), v[i]["checker"] # Null
    PROVE  /\ v[i]["checker"] \in Seq(Word)
           /\ \A k \in 1 .. Len(v[i]["checker"]) : Proper(v[i]["checker"][k])
<1> DEFINE c == v[i]["checker"]
<1>1. c \in Seq(Word) /\ \A w \in Range(c) : w.var => w.text \in Seq(NameToken)
  BY TextAssumption
<1> HIDE DEF c
<1>2. ASSUME NEW k \in 1 .. Len(c) PROVE Proper(c[k])
  <2>1. c[k] \in Range(c) /\ c[k] \in Word
    BY <1>1 DEF Range
  <2> QED
    BY <1>1, <2>1 DEF Proper
<1> QED
  BY <1>1, <1>2 DEF c

LEMMA ContentText ==
    ASSUME NEW words \in Seq(Word), \A k \in 1 .. Len(words) : Proper(words[k])
    PROVE  Content(words) \in Seq(Token)
<1> DEFINE texts == [i \in DOMAIN words |-> Written(words[i])]
<1>1. Content(words) = Joined(texts)
  BY DEF Content, Written
<1>2. Len(words) \in Nat /\ texts \in [1 .. Len(words) -> Seq(Token)]
  BY WrittenText
<1> HIDE DEF texts
<1> QED
  BY <1>1, <1>2, JoinedText

\* The values of a node's names are texts.
LEMMA ValuesAreTexts ==
    ASSUME NEW v \in Version \ {Broken}, NEW i \in 1 .. Len(v), NEW name
    PROVE  Value(Symbols(v[i]), name) \in Seq(Token)
<1> DEFINE n == v[i]
           symbols == Symbols(n)
<1>1. ASSUME NEW f \in Present(n) PROVE symbols[f] \in Seq(Token)
  <2>1. f \in Field /\ n[f] # Null
    BY DEF Present
  <2>2. symbols[f] = IF f = "checker" THEN Content(n[f]) ELSE n[f]
    BY DEF Symbols
  <2>3. CASE f = "checker"
    BY <2>1, <2>2, <2>3, WordsProper, ContentText
  <2>4. CASE f # "checker"
    <3>1. n[f] \in Text
      BY <2>1, <2>4, TextAssumption
    <3> QED
      BY <2>2, <2>4, <3>1 DEF Text
  <2> QED
    BY <2>3, <2>4
<1>2. DOMAIN symbols = Present(n)
  BY DEF Symbols
<1> HIDE DEF symbols, n
<1>3. Value(symbols, name) \in Seq(Token)
  <2>1. CASE Len(name) = 1 /\ name[1] \in DOMAIN symbols
    BY <1>1, <1>2, <2>1 DEF Value
  <2>2. CASE ~(Len(name) = 1 /\ name[1] \in DOMAIN symbols)
    <3>1. Value(symbols, name) = <<>>
      BY <2>2 DEF Value
    <3> QED
      BY <3>1
  <2> QED
    BY <2>1, <2>2
<1> QED
  BY <1>3 DEF symbols, n

\* The checker in the record is what the node's checker says.
LEMMA CheckerSays ==
    ASSUME NEW v \in Version \ {Broken}, NEW i \in 1 .. Len(v), v[i]["checker"] # Null, NEW old
    PROVE  Filled(old, v[i])["checker"] = Command(v[i])
<1> DEFINE n == v[i]
           words == n["checker"]
           symbols == Symbols(n)
<1>1. Filled(old, n)["checker"] = varsubst(symbols, Content(words))
  BY DEF Filled, Faulty, Element, Field, Elem, Attr
<1>2. words \in Seq(Word) /\ \A k \in 1 .. Len(words) : Proper(words[k])
  BY WordsProper
<1>3. ASSUME NEW k \in 1 .. Len(words) PROVE Meant(symbols, words[k]) \in Seq(Token)
  <2>1. CASE words[k].var
    <3>1. Value(symbols, words[k].text) \in Seq(Token)
      BY ValuesAreTexts
    <3> HIDE DEF symbols, words
    <3> QED
      BY <2>1, <3>1 DEF Meant
  <2>2. CASE ~words[k].var
    <3>1. Proper(words[k])
      BY <1>2
    <3> HIDE DEF symbols, words
    <3> QED
      BY <2>2, <3>1 DEF Meant, Proper, Word, Text
  <2> QED
    BY <2>1, <2>2
<1>4. Command(n) = Joined([k \in DOMAIN words |-> Meant(symbols, words[k])])
  BY DEF Command, Meant
<1> HIDE DEF words, symbols
<1>5. varsubst(symbols, Content(words)) = Joined([k \in DOMAIN words |-> Meant(symbols, words[k])])
  BY <1>2, <1>3, Substituted
<1> QED
  BY <1>1, <1>4, <1>5

\* What is handed out is the record as the current node left it.
RecordInv ==
    pc \in {"entry", "found"} =>
      /\ doc # Null /\ node \in 1 .. Len(doc)
      /\ \E old : curent = Filled(old, doc[node])

LEMMA RecordInvFaithful == ReadersInv /\ RecordInv => RecordFaithful
<1> SUFFICES ASSUME ReadersInv, RecordInv, pc \in {"entry", "found"},
                    NEW n, n = doc[node]
             PROVE  /\ \A f \in Attr : curent[f] = n[f]
                    /\ \A f \in Present(n) \cap {"callsign", "password"} : curent[f] = n[f]
                    /\ n.servicecode # Null => curent.servicecode = Cut(n.servicecode)
                    /\ n.checker # Null => curent.checker = Command(n)
  BY DEF RecordFaithful
<1>1. doc \in Version \ {Broken} /\ node \in 1 .. Len(doc)
  BY DEF ReadersInv, RecordInv
<1>2. PICK old : curent = Filled(old, n)
  BY DEF RecordInv
<1>3. /\ \A f \in Attr : curent[f] = n[f]
      /\ \A f \in {"callsign", "password"} : n[f] # Null => curent[f] = n[f]
      /\ n["servicecode"] # Null => curent["servicecode"] = Cut(n["servicecode"])
  BY <1>2, FilledFields
<1>4. n["checker"] # Null => curent["checker"] = Command(n)
  BY <1>1, <1>2, CheckerSays
<1> QED
  BY <1>3, <1>4 DEF Present

LEMMA LookUpRecord ==
    ASSUME file \in Version, NEW s, s = getchannam(Port, GwCall), s.result = "entry"
    PROVE  /\ s.doc # Null /\ s.node \in 1 .. Len(s.doc)
           /\ \E old : s.curent = Filled(old, s.doc[s.node])
<1> DEFINE d == Parsed(file)
           v == IF d = Null THEN <<>> ELSE d
           R == Records(v)
           Crash(k) == Faulty(R[k - 1], v[k]) \/ Unreadable(R[k], Port)
           stops == {k \in Rewound + 1 .. Len(v) : Crash(k) \/ Agrees(R[k], Port, GwCall)}
           m == IF stops = {} THEN 0 ELSE Min(stops)
<1>0. s = [doc |-> d, node |-> m, curent |-> R[IF m = 0 THEN Len(v) ELSE m],
           result |-> IF m = 0 THEN "null" ELSE IF Crash(m) THEN "crash" ELSE "entry"]
  BY Zenon DEF getchannam
<1>1. s.doc = d /\ s.node = m
  <2> HIDE DEF d, v, R, Crash, m
  <2> QED
    BY <1>0
<1>2. s.curent = R[IF m = 0 THEN Len(v) ELSE m]
  <2> HIDE DEF d, v, R, Crash, m
  <2> QED
    BY <1>0
<1>3. s.result = IF m = 0 THEN "null" ELSE IF Crash(m) THEN "crash" ELSE "entry"
  <2> HIDE DEF d, v, R, Crash, m
  <2> QED
    BY <1>0
<1>4. stops \subseteq 1 .. Len(v)
  BY DEF Rewound
<1>5. d # Null => d \in Version \ {Broken}
  BY DEF Parsed
<1> HIDE DEF d
<1>6. Len(v) \in Nat
  <2>1. CASE d = Null
    BY <2>1
  <2>2. CASE d # Null
    <3>1. v \in Version \ {Broken}
      BY <1>5, <2>2
    <3> HIDE DEF v
    <3> QED
      BY <3>1, VersionIsSeq
  <2> QED
    BY <2>1, <2>2
<1>7. d = Null => Len(v) = 0
  OBVIOUS
<1>8. d # Null => v = d
  OBVIOUS
<1> HIDE DEF R, Crash, stops
<1>9. m # 0
  <2> HIDE DEF m
  <2> QED
    BY <1>3
<1>10. m \in 1 .. Len(v)
  <2>1. stops # {}
    BY <1>9
  <2>2. stops \in SUBSET Nat
    BY <1>4, <1>6
  <2>3. m \in stops
    BY <2>1, <2>2, LeastNumber DEF Min
  <2> HIDE DEF m, v
  <2> QED
    BY <1>4, <2>3
<1> HIDE DEF m, v
<1>11. s.curent = Filled(R[m - 1], v[m])
  <2>1. s.curent = R[m]
    BY <1>2, <1>9
  <2> QED
    BY <1>6, <1>10, <2>1, RecordsStep DEF R
<1>12. d # Null
  BY <1>6, <1>7, <1>10
<1> QED
  BY <1>1, <1>8, <1>10, <1>11, <1>12

LEMMA NextRecord ==
    ASSUME ReadersInv, NEW s, s = getchanent, s.result = "entry"
    PROVE  /\ s.doc # Null /\ s.node \in 1 .. Len(s.doc)
           /\ \E old : s.curent = Filled(old, s.doc[s.node])
<1> DEFINE d == IF doc = Null THEN Parsed(file) ELSE doc
           k == IF d = Null THEN 0 ELSE NextNode(d, node)
<1>1. /\ s.doc = d /\ s.node = k
      /\ s.curent = IF k = 0 THEN curent ELSE Filled(curent, d[k])
      /\ k = 0 => s.result = "null"
  BY DEF getchanent
<1>2. k # 0
  <2> HIDE DEF k
  <2> QED
    BY <1>1
<1>3. d # Null
  BY <1>2
<1>4. d \in Version \ {Broken} /\ node \in Nat
  <2>1. CASE doc = Null
    BY <1>3, <2>1 DEF ReadersInv, Parsed
  <2>2. CASE doc # Null
    BY <2>2, VersionIsSeq DEF ReadersInv
  <2> QED
    BY <2>1, <2>2
<1> HIDE DEF d
<1>5. k \in 1 .. Len(d)
  <2>1. Len(d) \in Nat
    BY <1>4, VersionIsSeq
  <2> QED
    BY <1>2, <1>3, <1>4, <2>1 DEF NextNode, First
<1> HIDE DEF k
<1> QED
  BY <1>1, <1>2, <1>3, <1>5

LEMMA RecordStep == ReadersInv /\ RecordInv /\ [RNext]_rvars => RecordInv'
<1> SUFFICES ASSUME ReadersInv, RecordInv, [RNext]_rvars, pc' \in {"entry", "found"}
             PROVE  RecordInv'
  BY DEF RecordInv
<1>1. CASE LookUp
  <2> DEFINE s == getchannam(Port, GwCall)
  <2>1. /\ Becomes(s)
        /\ pc' = CASE s.result = "entry" -> "found"
                   [] s.result = "null" -> "fatal"
                   [] s.result = "crash" -> "crashed"
    BY <1>1 DEF LookUp
  <2>2. s.result \in {"null", "crash", "entry"} /\ file \in Version
    BY LookUpPlace DEF ReadersInv
  <2> HIDE DEF s
  <2>3. s.result = "entry"
    BY <2>1, <2>2
  <2> QED
    BY <2>1, <2>2, <2>3, LookUpRecord DEF RecordInv, Becomes, s
<1>2. CASE NextChannel
  <2> DEFINE s == getchanent
  <2>1. /\ Becomes(s)
        /\ pc' = CASE s.result = "entry" -> "entry"
                   [] s.result = "null" -> "done"
                   [] s.result = "crash" -> "crashed"
    BY <1>2 DEF NextChannel
  <2>2. s.result \in {"null", "crash", "entry"}
    BY DEF getchanent
  <2> HIDE DEF s
  <2>3. s.result = "entry"
    BY <2>1, <2>2
  <2> QED
    BY <2>1, <2>3, NextRecord DEF RecordInv, Becomes, s
<1>3. CASE ReadHosts \/ HostsRead \/ NoMoreHosts \/ Session \/ Examine \/ EndPass
  BY <1>3 DEF ReadHosts, HostsRead, NoMoreHosts, Session, Examine, EndPass
<1>4. CASE Edit
  BY <1>4 DEF Edit, RecordInv
<1>5. CASE UNCHANGED rvars
  BY <1>5 DEF rvars, chanvars, RecordInv
<1> QED
  BY <1>1, <1>2, <1>3, <1>4, <1>5 DEF RNext

\* The record handed out agrees with its node in all that the node has, whatever
\* channels were read before it; and the command of the status checker is what the
\* node's words mean, with its own values: varsubst() undoes the backslashes and
\* replaces the names, and nothing else.
THEOREM RecordIsFaithful == RSpec => []RecordFaithful
<1>1. RInit => RecordInv
  BY DEF RInit, RecordInv
<1> QED
  BY <1>1, RecordInvFaithful, RecordStep, ReadersInvInit, ReadersInvStep, PTL DEF RSpec

(* ---- one line of the hosts file ------------------------------------------ *)

LEMMA OneToken == ASSUME NEW S, NEW w \in Seq(S), NEW i \in 1 .. Len(w)
                  PROVE  SubSeq(w, i, i) = <<w[i]>>
<1> DEFINE c == SubSeq(w, i, i)
<1>1. c \in Seq(S) /\ Len(c) = 1 /\ c[1] = w[i] /\ w[i] \in S
  OBVIOUS
<1> HIDE DEF c
<1>2. c = <<w[i]>>
  BY <1>1
<1> QED
  BY <1>2 DEF c

LEMMA FindIs ==
    ASSUME NEW b, NEW i \in Nat, NEW tokens, NEW j \in Cell, j >= i, b[j] \in tokens,
           \A k \in i .. j - 1 : b[k] \notin tokens
    PROVE  Find(b, i, tokens) = j
<1> DEFINE P(x) == /\ x >= i /\ b[x] \in tokens
                   /\ \A k \in i .. x - 1 : b[k] \notin tokens
           x == CHOOSE y \in Cell : P(y)
<1>1. P(j) /\ j \in Nat
  BY HostsAssumption DEF Cell
<1>2. x \in Cell /\ P(x)
  BY <1>1
<1>3. x \in Nat
  BY <1>2, HostsAssumption DEF Cell
<1> HIDE DEF x
<1>4. ~(x < j)
  BY <1>1, <1>2, <1>3
<1>5. ~(j < x)
  BY <1>1, <1>2, <1>3
<1>6. x = j
  BY <1>1, <1>3, <1>4, <1>5
<1> QED
  BY <1>6 DEF x, Find

LEMMA EntryIs ==
    ASSUME NEW b, NEW h, h = Find(b, 1, {Colon, NUL}),
           NEW p, p = Find(b, h + 1, {Colon, NUL}), NEW q, q = Find(b, p + 1, PasswordEnd)
    PROVE  Entry(b) =
             [buf  |-> [b EXCEPT ![h] = NUL, ![p] = NUL, ![q] = NUL],
              host |-> SubSeq(b, 1, h - 1),
              port |-> IF b[h + 1] \in DOMAIN Number THEN Number[b[h + 1]] ELSE 0,
              pass |-> SubSeq(b, p + 1, q - 1)]
BY Zenon DEF Entry

\* A complete entry at the beginning of the buffer, whatever stands behind it, is
\* an entry that is accepted, and means what it says.
LEMMA CompleteRead ==
    ASSUME NEW T, NEW l \in Seq(T), Complete(l), NEW old, NEW b, b = Fgets(old, l)
    PROVE  /\ ~Ignored(b) /\ Accepted(Entry(b))
           /\ [host |-> Entry(b).host, port |-> Entry(b).port, pass |-> Entry(b).pass,
               line |-> l] = Meaning(l)
<1>1. Size \in Nat /\ Len(l) \in Nat /\ Len(l) >= 6 /\ Len(l) < Size
  BY HostsAssumption DEF Complete
<1>2. Piece(l) = l
  <2>1. Piece(l) = SubSeq(l, 1, Len(l))
    BY <1>1 DEF Piece
  <2> QED
    BY <2>1
<1>3. \A i \in 1 .. 6 : i \in Cell /\ b[i] = l[i]
  BY <1>1, <1>2 DEF Fgets, Cell
<1>4. /\ b[1] \notin {NUL, Hash, Space, Colon, Newline} /\ b[2] = Colon /\ b[4] = Colon
      /\ b[3] \in DOMAIN Number /\ Number[b[3]] \in UserPort
      /\ b[5] \notin {NUL, Colon, Newline} /\ b[6] \in {Colon, Newline}
  BY <1>3 DEF Complete
<1>5. b[3] \notin {NUL, Colon}
  BY <1>4, HostsAssumption
<1>6. Find(b, 1, {Colon, NUL}) = 2
  <2> DEFINE tokens == {Colon, NUL}
  <2>1. 2 \in Cell /\ b[2] \in tokens /\ \A k \in 1 .. 2 - 1 : b[k] \notin tokens
    BY <1>3, <1>4, <1>5
  <2> HIDE DEF tokens
  <2>2. Find(b, 1, tokens) = 2
    BY <2>1, FindIs
  <2> QED
    BY <2>2 DEF tokens
<1>7. Find(b, 3, {Colon, NUL}) = 4
  <2> DEFINE tokens == {Colon, NUL}
  <2>1. 4 \in Cell /\ b[4] \in tokens /\ \A k \in 3 .. 4 - 1 : b[k] \notin tokens
    BY <1>3, <1>4, <1>5
  <2> HIDE DEF tokens
  <2>2. Find(b, 3, tokens) = 4
    BY <2>1, FindIs
  <2> QED
    BY <2>2 DEF tokens
<1>8. Find(b, 5, PasswordEnd) = 6
  <2>1. \A k \in 5 .. 6 - 1 : b[k] \notin PasswordEnd
    BY <1>4 DEF PasswordEnd
  <2>2. b[6] \in PasswordEnd
    BY <1>4 DEF PasswordEnd
  <2>3. 6 \in Cell
    BY <1>3
  <2> QED
    BY <2>1, <2>2, <2>3, FindIs
<1>9. ~Ignored(b)
  <2> DEFINE tokens == {b[j] : j \in Cell} \ {Space, Newline}
  <2>1. b[1] \in tokens
    BY <1>3, <1>4
  <2> HIDE DEF tokens
  <2>2. Find(b, 1, tokens) = 1
    <3>1. \A k \in 1 .. 1 - 1 : b[k] \notin tokens
      OBVIOUS
    <3> QED
      BY <1>3, <2>1, <3>1, FindIs
  <2> QED
    BY <1>4, <2>2 DEF Ignored, tokens
<1>10. SubSeq(b, 1, 1) = <<l[1]>> /\ SubSeq(b, 5, 5) = <<l[5]>>
  <2> DEFINE n == 2 * Size
             S == {b[i] : i \in 1 .. n}
  <2>1. n \in Nat /\ n >= 6 /\ b = [i \in 1 .. n |-> b[i]]
    BY <1>1 DEF Fgets, Cell
  <2> HIDE DEF n
  <2>2. b \in Seq(S) /\ Len(b) = n
    BY <2>1
  <2> HIDE DEF S
  <2>3. 1 \in 1 .. Len(b) /\ 5 \in 1 .. Len(b)
    BY <2>1, <2>2
  <2>4. SubSeq(b, 1, 1) = <<b[1]>> /\ SubSeq(b, 5, 5) = <<b[5]>>
    BY <2>2, <2>3, OneToken
  <2> QED
    BY <1>3, <2>4
<1> DEFINE e == Entry(b)
<1> HIDE DEF e
<1>11. e.host = <<l[1]>> /\ e.port = Number[l[3]] /\ e.pass = <<l[5]>>
  <2> DEFINE buf == [b EXCEPT ![2] = NUL, ![4] = NUL, ![6] = NUL]
  <2> HIDE DEF buf
  <2>0. e = [buf  |-> buf, host |-> SubSeq(b, 1, 2 - 1),
             port |-> IF b[2 + 1] \in DOMAIN Number THEN Number[b[2 + 1]] ELSE 0,
             pass |-> SubSeq(b, 4 + 1, 6 - 1)]
    <3>1. 2 = Find(b, 1, {Colon, NUL}) /\ 4 = Find(b, 2 + 1, {Colon, NUL})
          /\ 6 = Find(b, 4 + 1, PasswordEnd)
      BY <1>6, <1>7, <1>8
    <3> QED
      BY <3>1, EntryIs, ZenonT(60) DEF buf, e
  <2>1. e.host = SubSeq(b, 1, 1) /\ e.pass = SubSeq(b, 5, 5)
    BY <2>0
  <2>2. e.port = Number[b[3]]
    BY <1>4, <2>0
  <2> QED
    BY <1>3, <1>10, <2>1, <2>2
<1>12. Accepted(e)
  BY <1>3, <1>4, <1>11 DEF Accepted
<1> QED
  BY <1>9, <1>11, <1>12 DEF Meaning, e

\* One piece more appends that piece.
LEMMA FlattenedOneMore ==
    ASSUME NEW S, NEW N \in Nat, NEW ps \in [1 .. N -> Seq(S)],
           NEW qs \in [1 .. N + 1 -> Seq(S)], \A i \in 1 .. N : qs[i] = ps[i]
    PROVE  FlattenSeq(qs) = FlattenSeq(ps) \o qs[N + 1]
<1>1. PICK f : Sums(S, N + 1, qs, f)
  BY SumsExist
<1> DEFINE g == [k \in 0 .. N |-> f[k]]
<1>2. Sums(S, N, ps, g)
  <2>1. g \in [0 .. N -> Seq(S)] /\ g[0] = <<>>
    BY <1>1 DEF Sums, Summed
  <2>2. ASSUME NEW k \in 1 .. N PROVE g[k] = g[k - 1] \o ps[k]
    <3>1. k \in 1 .. N + 1 /\ k - 1 \in 0 .. N /\ k \in 0 .. N
      OBVIOUS
    <3>2. f[k] = f[k - 1] \o qs[k]
      BY <1>1, <3>1 DEF Sums, Summed
    <3> QED
      BY <3>1, <3>2
  <2> HIDE DEF g
  <2> QED
    BY <2>1, <2>2 DEF Sums, Summed
<1>3. FlattenSeq(qs) = f[N + 1]
  BY <1>1, Flattened
<1>4. FlattenSeq(ps) = g[N]
  <2> HIDE DEF g
  <2> QED
    BY <1>2, Flattened
<1>5. g[N] = f[N]
  OBVIOUS
<1>6. f[N + 1] = f[N] \o qs[N + 1]
  <2>1. N + 1 \in 1 .. N + 1 /\ (N + 1) - 1 = N
    OBVIOUS
  <2>2. f[N + 1] = f[(N + 1) - 1] \o qs[N + 1]
    BY <1>1, <2>1 DEF Sums, Summed
  <2> QED
    BY <2>1, <2>2
<1> HIDE DEF g
<1> QED
  BY <1>3, <1>4, <1>5, <1>6

(* ---- the entries of the hosts file --------------------------------------- *)

\* The complete ones of the entries in a list, and of the first j lines of a file.
Kept(list) ==
    FlattenSeq([i \in DOMAIN list |-> IF Complete(list[i].line) THEN <<list[i]>> ELSE <<>>])
Wanted(h, j) ==
    FlattenSeq([i \in 1 .. j |-> IF Complete(h[i]) THEN <<Meaning(h[i])>> ELSE <<>>])

LEMMA KeptOneMore ==
    ASSUME NEW S, NEW list \in Seq(S), NEW e
    PROVE  Kept(Append(list, e)) = Kept(list) \o (IF Complete(e.line) THEN <<e>> ELSE <<>>)
<1> DEFINE T == S \cup {e}
           more == Append(list, e)
           N == Len(list)
           ps == [i \in DOMAIN list |-> IF Complete(list[i].line) THEN <<list[i]>> ELSE <<>>]
           qs == [i \in DOMAIN more |-> IF Complete(more[i].line) THEN <<more[i]>> ELSE <<>>]
<1>1. /\ N \in Nat /\ DOMAIN list = 1 .. N /\ DOMAIN more = 1 .. N + 1
      /\ \A i \in 1 .. N : list[i] \in T /\ more[i] = list[i]
      /\ more[N + 1] = e /\ e \in T
  OBVIOUS
<1>2. Kept(list) = FlattenSeq(ps) /\ Kept(more) = FlattenSeq(qs)
  BY DEF Kept
<1> HIDE DEF more, N, T
<1>3. ps \in [1 .. N -> Seq(T)]
  BY <1>1
<1>4. qs \in [1 .. N + 1 -> Seq(T)]
  <2> SUFFICES ASSUME NEW i \in 1 .. N + 1
               PROVE  (IF Complete(more[i].line) THEN <<more[i]>> ELSE <<>>) \in Seq(T)
    BY <1>1
  <2>1. more[i] \in T
    BY <1>1
  <2> QED
    BY <2>1
<1>5. \A i \in 1 .. N : qs[i] = ps[i]
  BY <1>1
<1>6. qs[N + 1] = IF Complete(e.line) THEN <<e>> ELSE <<>>
  BY <1>1
<1> HIDE DEF ps, qs
<1>7. FlattenSeq(qs) = FlattenSeq(ps) \o qs[N + 1]
  BY <1>1, <1>3, <1>4, <1>5, FlattenedOneMore
<1>8. Kept(more) = Kept(list) \o (IF Complete(e.line) THEN <<e>> ELSE <<>>)
  BY <1>2, <1>6, <1>7, Zenon
<1> QED
  BY <1>8 DEF more

LEMMA WantedOneMore ==
    ASSUME NEW h, NEW j \in Nat
    PROVE  Wanted(h, j + 1) = Wanted(h, j) \o (IF Complete(h[j + 1]) THEN <<Meaning(h[j + 1])>>
                                               ELSE <<>>)
<1> DEFINE T == {Meaning(h[i]) : i \in 1 .. j + 1}
           ps == [i \in 1 .. j |-> IF Complete(h[i]) THEN <<Meaning(h[i])>> ELSE <<>>]
           qs == [i \in 1 .. j + 1 |-> IF Complete(h[i]) THEN <<Meaning(h[i])>> ELSE <<>>]
<1>1. \A i \in 1 .. j + 1 : Meaning(h[i]) \in T
  OBVIOUS
<1> HIDE DEF T
<1>2. ps \in [1 .. j -> Seq(T)] /\ qs \in [1 .. j + 1 -> Seq(T)]
  BY <1>1
<1>3. /\ \A i \in 1 .. j : qs[i] = ps[i]
      /\ qs[j + 1] = IF Complete(h[j + 1]) THEN <<Meaning(h[j + 1])>> ELSE <<>>
  OBVIOUS
<1>4. Wanted(h, j) = FlattenSeq(ps) /\ Wanted(h, j + 1) = FlattenSeq(qs)
  BY DEF Wanted
<1> HIDE DEF ps, qs
<1>5. FlattenSeq(qs) = FlattenSeq(ps) \o qs[j + 1]
  BY <1>2, <1>3, FlattenedOneMore
<1> QED
  BY <1>3, <1>4, <1>5, Zenon

LEMMA KeptEmpty == ASSUME NEW S, NEW list \in Seq(S) PROVE Kept(list) \o <<>> = Kept(list)
<1> DEFINE N == Len(list)
           ps == [i \in DOMAIN list |-> IF Complete(list[i].line) THEN <<list[i]>> ELSE <<>>]
<1>1. Kept(list) = FlattenSeq(ps)
  BY DEF Kept
<1>2. N \in Nat /\ ps \in [1 .. N -> Seq(S)]
  OBVIOUS
<1> HIDE DEF ps, N
<1>3. FlattenSeq(ps) \in Seq(S)
  BY <1>2, FlattenedText
<1> QED
  BY <1>1, <1>3, ConcatEmptySeq

\* A line that is read adds its entry if it is a complete one, and no complete one
\* if it is not.
LEMMA LineKept ==
    ASSUME NEW T, Head(unread) \in Seq(T), NEW S, listed \in Seq(S), ReadLine
    PROVE  Kept(listed') = Kept(listed) \o (IF Complete(Head(unread)) THEN <<Meaning(Head(unread))>>
                                            ELSE <<>>)
<1> DEFINE l == Head(unread)
           b == Fgets(cbuf, l)
           e == Entry(b)
           r == [host |-> e.host, port |-> e.port, pass |-> e.pass, line |-> l]
<1>1. listed' = IF ~Ignored(b) /\ Accepted(e) THEN Append(listed, r) ELSE listed
  BY DEF ReadLine
<1>2. r.line = l
  OBVIOUS
<1> HIDE DEF l, b, e
<1>3. Complete(l) => ~Ignored(b) /\ Accepted(e) /\ r = Meaning(l)
  BY CompleteRead DEF b, e, l
<1> HIDE DEF r
<1>4. Kept(Append(listed, r)) = Kept(listed) \o (IF Complete(l) THEN <<r>> ELSE <<>>)
  BY <1>2, KeptOneMore
<1>5. CASE Complete(l)
  BY <1>1, <1>3, <1>4, <1>5 DEF l
<1>6. CASE ~Complete(l)
  <2>1. Kept(listed) \o <<>> = Kept(listed)
    BY KeptEmpty
  <2>2. Kept(listed') = Kept(listed)
    BY <1>1, <1>4, <1>6, <2>1
  <2> QED
    BY <1>6, <2>1, <2>2 DEF l
<1> QED
  BY <1>5, <1>6

\* The lines behind the first j are unread, and perhaps a rest of the j-th before
\* them, if that does not fit the buffer.
Unread(h, j) ==
    \/ unread = SubSeq(h, j + 1, Len(h))
    \/ /\ j >= 1 /\ Len(h[j]) >= Size
       /\ \E k \in 2 .. Len(h[j]) :
            unread = <<SubSeq(h[j], k, Len(h[j]))>> \o SubSeq(h, j + 1, Len(h))

\* While the file is read, the list has the complete entries of the lines read; from
\* the end of the file on, those of the file.
ListInv ==
    /\ hosts0 \in HostsFiles
    /\ \E S : listed \in Seq(S)
    /\ OwnLines(hosts0) =>
         /\ pc = "hosts" => \E j \in 0 .. Len(hosts0) : /\ Unread(hosts0, j)
                                                        /\ Kept(listed) = Wanted(hosts0, j)
         /\ pc \in {"turn", "found"} => Kept(listed) = Wanted(hosts0, Len(hosts0))

LEMMA FileIsSeq ==
    ASSUME NEW h \in HostsFiles
    PROVE  /\ h \in Seq(Range(h)) /\ Len(h) \in Nat
           /\ \A i \in 1 .. Len(h) : /\ h[i] \in Seq(Range(h[i])) /\ Len(h[i]) \in Nat
<1>1. h \in Seq(Range(h)) /\ \A i \in 1 .. Len(h) : h[i] \in Seq(Range(h[i]))
  BY HostsAssumption
<1> QED
  BY <1>1

LEMMA HeadOfRest ==
    ASSUME NEW S, NEW h \in Seq(S), NEW j \in 0 .. Len(h) - 1
    PROVE  /\ SubSeq(h, j + 1, Len(h)) # <<>>
           /\ Head(SubSeq(h, j + 1, Len(h))) = h[j + 1]
           /\ Tail(SubSeq(h, j + 1, Len(h))) = SubSeq(h, (j + 1) + 1, Len(h))
<1> DEFINE c == SubSeq(h, j + 1, Len(h))
           d == SubSeq(h, (j + 1) + 1, Len(h))
<1>1. c \in Seq(S) /\ Len(c) = Len(h) - j /\ \A i \in 1 .. Len(c) : c[i] = h[j + i]
  OBVIOUS
<1>2. d \in Seq(S) /\ Len(d) = Len(h) - j - 1 /\ \A i \in 1 .. Len(d) : d[i] = h[j + 1 + i]
  OBVIOUS
<1> HIDE DEF c, d
<1>3. c # <<>> /\ Head(c) = h[j + 1]
  BY <1>1
<1>4. Tail(c) \in Seq(S) /\ Len(Tail(c)) = Len(c) - 1
      /\ \A i \in 1 .. Len(Tail(c)) : Tail(c)[i] = c[i + 1]
  BY <1>1, <1>3
<1>5. Tail(c) = d
  <2>1. Len(Tail(c)) = Len(d)
    BY <1>1, <1>2, <1>4
  <2>2. ASSUME NEW i \in 1 .. Len(d) PROVE Tail(c)[i] = d[i]
    <3>1. i \in 1 .. Len(Tail(c)) /\ i + 1 \in 1 .. Len(c) /\ j + (i + 1) = j + 1 + i
      BY <1>1, <1>2, <2>1
    <3> QED
      BY <1>1, <1>2, <1>4, <3>1
  <2> QED
    BY <1>2, <1>4, <2>1, <2>2, SeqEqual
<1> QED
  BY <1>3, <1>5 DEF c, d

LEMMA RestOfRest ==
    ASSUME NEW S, NEW l \in Seq(S), NEW k \in 1 .. Len(l), NEW n \in 1 .. Len(l) - k + 1
    PROVE  LET r == SubSeq(l, k, Len(l))
           IN  /\ r \in Seq(S) /\ Len(r) = Len(l) - k + 1
               /\ SubSeq(r, n, Len(r)) = SubSeq(l, k + n - 1, Len(l))
<1> DEFINE r == SubSeq(l, k, Len(l))
           a == SubSeq(r, n, Len(r))
           b == SubSeq(l, k + n - 1, Len(l))
<1>1. r \in Seq(S) /\ Len(r) = Len(l) - k + 1 /\ \A i \in 1 .. Len(r) : r[i] = l[k + i - 1]
  OBVIOUS
<1>2. /\ b \in Seq(S) /\ Len(b) = Len(l) - k - n + 2
      /\ \A i \in 1 .. Len(b) : b[i] = l[k + n - 1 + i - 1]
  OBVIOUS
<1> HIDE DEF r, b
<1>3. a \in Seq(S) /\ Len(a) = Len(r) - n + 1 /\ \A i \in 1 .. Len(a) : a[i] = r[n + i - 1]
  BY <1>1
<1> HIDE DEF a
<1>4. Len(a) = Len(b)
  BY <1>1, <1>2, <1>3
<1>5. ASSUME NEW i \in 1 .. Len(a) PROVE a[i] = b[i]
  <2>1. n + i - 1 \in 1 .. Len(r) /\ k + (n + i - 1) - 1 = k + n - 1 + i - 1
    BY <1>1, <1>3
  <2> QED
    BY <1>1, <1>2, <1>3, <1>4, <2>1
<1>6. a = b
  BY <1>2, <1>3, <1>4, <1>5, SeqEqual
<1> QED
  BY <1>1, <1>6 DEF a, b, r

\* After a line, the next one is read, or a rest of the same.
LEMMA ReadOn ==
    ASSUME NEW h \in HostsFiles, OwnLines(h), NEW j \in 0 .. Len(h), Unread(h, j),
           unread # <<>>, unread' = Rest(Head(unread), Tail(unread))
    PROVE  /\ \E T : Head(unread) \in Seq(T)
           /\ \/ j + 1 \in 0 .. Len(h) /\ Head(unread) = h[j + 1] /\ Unread(h, j + 1)'
              \/ ~Complete(Head(unread)) /\ Unread(h, j)'
<1> DEFINE l == Head(unread)
           N == Len(h)
<1>0. /\ h \in Seq(Range(h)) /\ N \in Nat /\ Size \in Nat /\ Size >= 2
      /\ \A i \in 1 .. N : h[i] \in Seq(Range(h[i])) /\ Len(h[i]) \in Nat
  BY FileIsSeq, HostsAssumption
<1>1. CASE unread = SubSeq(h, j + 1, N)
  <2>1. j \in 0 .. N - 1
    <3>1. j # N
      <4>1. SubSeq(h, N + 1, N) = <<>>
        BY <1>0
      <4> QED
        BY <1>1, <4>1
    <3> QED
      BY <1>0, <3>1
  <2>2. l = h[j + 1] /\ Tail(unread) = SubSeq(h, (j + 1) + 1, N)
    BY <1>0, <1>1, <2>1, HeadOfRest
  <2>3. j + 1 \in 1 .. N /\ j + 1 \in 0 .. N /\ j + 1 >= 1
    BY <1>0, <2>1
  <2>4. l \in Seq(Range(h[j + 1])) /\ Len(l) \in Nat
    BY <1>0, <2>2, <2>3
  <2> HIDE DEF l, N
  <2>5. CASE Len(l) < Size
    <3>1. unread' = SubSeq(h, (j + 1) + 1, N)
      BY <2>2, <2>5 DEF Rest, l
    <3>2. Unread(h, j + 1)'
      BY <3>1 DEF Unread, N
    <3> QED
      BY <2>2, <2>3, <2>4, <3>2 DEF l, N
  <2>6. CASE ~(Len(l) < Size)
    <3>1. unread' = <<SubSeq(h[j + 1], Size, Len(h[j + 1]))>> \o SubSeq(h, (j + 1) + 1, N)
      BY <2>2, <2>6 DEF Rest, l
    <3>2. Size \in 2 .. Len(h[j + 1]) /\ Len(h[j + 1]) >= Size
      BY <1>0, <2>2, <2>4, <2>6
    <3>3. Unread(h, j + 1)'
      BY <2>3, <3>1, <3>2 DEF Unread, N
    <3> QED
      BY <2>2, <2>3, <2>4, <3>3 DEF l, N
  <2> QED
    BY <2>5, <2>6
<1>2. ASSUME j >= 1, Len(h[j]) >= Size, NEW k \in 2 .. Len(h[j]),
             unread = <<SubSeq(h[j], k, Len(h[j]))>> \o SubSeq(h, j + 1, N)
      PROVE  /\ \E T : Head(unread) \in Seq(T)
             /\ ~Complete(Head(unread)) /\ Unread(h, j)'
  <2> DEFINE m == h[j]
             r == SubSeq(m, k, Len(m))
             c == SubSeq(h, j + 1, N)
  <2>1. j \in 1 .. N
    BY <1>0, <1>2
  <2>2. m \in Seq(Range(m)) /\ Len(m) \in Nat /\ k \in 1 .. Len(m)
    BY <1>0, <1>2, <2>1
  <2>3. r \in Seq(Range(m)) /\ Len(r) = Len(m) - k + 1
    <3> HIDE DEF m
    <3> QED
      BY <2>2
  <2>4. l = r /\ Tail(unread) = c
    <3>1. c \in Seq(Range(h))
      BY <1>0, <2>1
    <3>2. unread = <<r>> \o c
      BY <1>2
    <3> HIDE DEF r, c
    <3>3. Head(<<r>> \o c) = r /\ Tail(<<r>> \o c) = c
      <4>1. <<r>> \in Seq({r} \cup Range(h)) /\ c \in Seq({r} \cup Range(h))
        BY <3>1
      <4> QED
        BY <4>1
    <3> QED
      BY <3>2, <3>3
  <2>5. ~Complete(r)
    BY <1>2, <2>1 DEF OwnLines
  <2>6. Unread(h, j)'
    <3>1. CASE Len(r) < Size
      <4>1. unread' = c
        BY <2>4, <3>1 DEF Rest
      <4> QED
        BY <4>1 DEF Unread
    <3>2. CASE ~(Len(r) < Size)
      <4>1. unread' = <<SubSeq(r, Size, Len(r))>> \o c
        BY <2>4, <3>2 DEF Rest
      <4>2. Size \in 1 .. Len(m) - k + 1
        <5> HIDE DEF m, r
        <5> QED
          BY <1>0, <2>2, <2>3, <3>2
      <4>3. SubSeq(r, Size, Len(r)) = SubSeq(m, k + Size - 1, Len(m))
        <5> HIDE DEF m
        <5> QED
          BY <2>2, <4>2, RestOfRest
      <4>4. k + Size - 1 \in 2 .. Len(m)
        BY <1>0, <1>2, <2>2, <4>2
      <4> QED
        BY <1>2, <4>1, <4>3, <4>4 DEF Unread
    <3> QED
      BY <3>1, <3>2
  <2> QED
    BY <2>3, <2>4, <2>5, <2>6
<1> QED
  BY <1>1, <1>2 DEF Unread

LEMMA ListInvInit == RInit => ListInv
<1> SUFFICES ASSUME RInit PROVE ListInv
  OBVIOUS
<1>1. hosts0 \in HostsFiles /\ unread = hosts0 /\ listed = <<>>
  BY DEF RInit, HostsInit
<1>2. listed \in Seq({})
  BY <1>1
<1>3. hosts0 \in Seq(Range(hosts0)) /\ Len(hosts0) \in Nat
  BY <1>1, FileIsSeq
<1>4. Unread(hosts0, 0)
  <2>1. SubSeq(hosts0, 0 + 1, Len(hosts0)) = hosts0
    BY <1>3
  <2> QED
    BY <1>1, <2>1 DEF Unread
<1>5. Kept(listed) = Wanted(hosts0, 0)
  <2> DEFINE ps == [i \in DOMAIN listed |->
                      IF Complete(listed[i].line) THEN <<listed[i]>> ELSE <<>>]
             qs == [i \in 1 .. 0 |->
                      IF Complete(hosts0[i]) THEN <<Meaning(hosts0[i])>> ELSE <<>>]
  <2>1. ps = <<>> /\ qs = <<>>
    BY <1>1
  <2>2. Kept(listed) = FlattenSeq(ps) /\ Wanted(hosts0, 0) = FlattenSeq(qs)
    BY DEF Kept, Wanted
  <2> HIDE DEF ps, qs
  <2> QED
    BY <2>1, <2>2
<1>6. 0 \in 0 .. Len(hosts0)
  BY <1>3
<1>7. pc \notin {"turn", "found"}
  BY DEF RInit
<1> QED
  BY <1>1, <1>2, <1>4, <1>5, <1>6, <1>7 DEF ListInv

LEMMA ListInvStep == ListInv /\ [RNext]_rvars => ListInv'
<1> SUFFICES ASSUME ListInv, [RNext]_rvars PROVE ListInv'
  OBVIOUS
<1>1. CASE ReadHosts
  <2>1. /\ ReadLine /\ pc = "hosts" /\ pc' = "hosts" /\ hosts0' = hosts0
        /\ unread # <<>> /\ unread' = Rest(Head(unread), Tail(unread))
    BY <1>1 DEF ReadHosts, ReadLine
  <2>2. PICK S : listed \in Seq(S)
    BY DEF ListInv
  <2>3. \E U : listed' \in Seq(U)
    <3>1. listed' = listed \/ \E e : listed' = Append(listed, e)
      BY <2>1 DEF ReadLine
    <3>2. ASSUME NEW e, listed' = Append(listed, e) PROVE \E U : listed' \in Seq(U)
      <4>1. listed \in Seq(S \cup {e})
        BY <2>2
      <4>2. listed' \in Seq(S \cup {e})
        BY <3>2, <4>1
      <4> QED
        BY <4>2
    <3> QED
      BY <2>2, <3>1, <3>2
  <2>4. ASSUME OwnLines(hosts0)
        PROVE  \E j \in 0 .. Len(hosts0) : /\ Unread(hosts0, j)'
                                           /\ Kept(listed') = Wanted(hosts0, j)
    <3> DEFINE h == hosts0
               l == Head(unread)
    <3>1. h \in HostsFiles
      BY DEF ListInv
    <3>2. PICK j \in 0 .. Len(h) : Unread(h, j) /\ Kept(listed) = Wanted(h, j)
      BY <2>1, <2>4 DEF ListInv
    <3>3. /\ \E T : l \in Seq(T)
          /\ \/ j + 1 \in 0 .. Len(h) /\ l = h[j + 1] /\ Unread(h, j + 1)'
             \/ ~Complete(l) /\ Unread(h, j)'
      BY <2>1, <2>4, <3>1, <3>2, ReadOn
    <3>4. Kept(listed') = Kept(listed) \o (IF Complete(l) THEN <<Meaning(l)>> ELSE <<>>)
      BY <2>1, <2>2, <3>3, LineKept
    <3>5. CASE j + 1 \in 0 .. Len(h) /\ l = h[j + 1] /\ Unread(h, j + 1)'
      <4>1. Wanted(h, j + 1) = Wanted(h, j) \o (IF Complete(l) THEN <<Meaning(l)>> ELSE <<>>)
        BY <3>5, WantedOneMore
      <4>2. Kept(listed') = Wanted(h, j + 1)
        BY <3>2, <3>4, <4>1
      <4> QED
        BY <3>5, <4>2
    <3>6. CASE ~Complete(l) /\ Unread(h, j)'
      <4>1. Kept(listed') = Kept(listed)
        <5>1. Kept(listed') = Kept(listed) \o <<>>
          BY <3>4, <3>6
        <5> QED
          BY <2>2, <5>1, KeptEmpty
      <4> QED
        BY <3>2, <3>6, <4>1
    <3> QED
      BY <3>3, <3>5, <3>6
  <2> QED
    BY <2>1, <2>3, <2>4 DEF ListInv, Unread
<1>2. CASE HostsRead
  <2>1. /\ pc = "hosts" /\ unread = <<>> /\ pc' = "turn"
        /\ hosts0' = hosts0 /\ listed' = listed
    BY <1>2 DEF HostsRead, hostvars
  <2>2. ASSUME OwnLines(hosts0) PROVE Kept(listed) = Wanted(hosts0, Len(hosts0))
    <3> DEFINE h == hosts0
               N == Len(h)
    <3>1. h \in Seq(Range(h)) /\ N \in Nat
      BY FileIsSeq DEF ListInv
    <3>2. PICK j \in 0 .. N : Unread(h, j) /\ Kept(listed) = Wanted(h, j)
      BY <2>1, <2>2 DEF ListInv
    <3>3. unread = SubSeq(h, j + 1, N)
      <4>1. ASSUME NEW r, unread = <<r>> \o SubSeq(h, j + 1, N) PROVE FALSE
        <5> DEFINE c == SubSeq(h, j + 1, N)
        <5>1. c \in Seq(Range(h))
          BY <3>1
        <5> HIDE DEF c
        <5>2. <<r>> \in Seq({r} \cup Range(h)) /\ c \in Seq({r} \cup Range(h))
          BY <5>1
        <5>3. <<r>> \o c # <<>>
          BY <5>2
        <5> QED
          BY <2>1, <4>1, <5>3 DEF c
      <4> QED
        BY <3>2, <4>1 DEF Unread
    <3>4. j = N
      <4>1. CASE j \in 0 .. N - 1
        <5>1. SubSeq(h, j + 1, N) # <<>>
          BY <3>1, <4>1, HeadOfRest
        <5> QED
          BY <2>1, <3>3, <5>1
      <4> QED
        BY <3>1, <4>1
    <3> QED
      BY <3>2, <3>4
  <2> QED
    BY <2>1, <2>2 DEF ListInv
<1>3. CASE LookUp
  <2> DEFINE s == getchannam(Port, GwCall)
  <2>1. s.result \in {"null", "crash", "entry"}
    BY DEF getchannam
  <2> HIDE DEF s
  <2>2. /\ hosts0' = hosts0 /\ listed' = listed /\ pc = "turn"
        /\ pc' = CASE s.result = "entry" -> "found"
                   [] s.result = "null" -> "fatal"
                   [] s.result = "crash" -> "crashed"
    BY <1>3 DEF LookUp, hostvars, s
  <2>3. pc' # "hosts"
    BY <2>1, <2>2
  <2> QED
    BY <2>2, <2>3 DEF ListInv
<1>4. CASE NoMoreHosts \/ Session
  <2>1. /\ hosts0' = hosts0 /\ listed' = listed /\ pc \in {"turn", "found"} /\ pc' # "hosts"
    BY <1>4 DEF NoMoreHosts, Session, hostvars
  <2> QED
    BY <2>1 DEF ListInv
<1>7. CASE NextChannel
  <2> DEFINE s == getchanent
  <2>1. s.result \in {"null", "crash", "entry"}
    BY DEF getchanent
  <2> HIDE DEF s
  <2>2. /\ hosts0' = hosts0 /\ listed' = listed
        /\ pc' = CASE s.result = "entry" -> "entry"
                   [] s.result = "null" -> "done"
                   [] s.result = "crash" -> "crashed"
    BY <1>7 DEF NextChannel, hostvars, s
  <2>3. pc' \notin {"hosts", "turn", "found"}
    BY <2>1, <2>2
  <2> QED
    BY <2>2, <2>3 DEF ListInv
<1>8. CASE Examine \/ EndPass
  <2>1. /\ hosts0' = hosts0 /\ listed' = listed /\ pc' \notin {"hosts", "turn", "found"}
    BY <1>8 DEF Examine, EndPass, hostvars
  <2> QED
    BY <2>1 DEF ListInv
<1>5. CASE Edit
  BY <1>5 DEF Edit, hostvars, ListInv, Unread
<1>6. CASE UNCHANGED rvars
  BY <1>6 DEF rvars, hostvars, ListInv, Unread
<1> QED
  BY <1>1, <1>2, <1>3, <1>4, <1>5, <1>6, <1>7, <1>8 DEF RNext

\* Every complete entry of the hosts file is listed, exactly and in order, whatever
\* comments, malformed lines and longer lines came into the buffer before it.
THEOREM CompleteAreListed == RSpec => []CompleteEntriesListed
<1>1. ListInv => CompleteEntriesListed
  <2> SUFFICES ASSUME ListInv, pc = "turn", OwnLines(hosts0)
               PROVE  FlattenSeq([i \in DOMAIN listed |->
                        IF Complete(listed[i].line) THEN <<listed[i]>> ELSE <<>>])
                      = FlattenSeq([i \in DOMAIN hosts0 |->
                          IF Complete(hosts0[i]) THEN <<Meaning(hosts0[i])>> ELSE <<>>])
    BY DEF CompleteEntriesListed
  <2>1. DOMAIN hosts0 = 1 .. Len(hosts0)
    BY FileIsSeq DEF ListInv
  <2>2. Kept(listed) = Wanted(hosts0, Len(hosts0))
    BY DEF ListInv
  <2> QED
    BY <2>1, <2>2 DEF Kept, Wanted
<1> QED
  BY <1>1, ListInvInit, ListInvStep, PTL DEF RSpec
=============================================================================
