---------------------------- MODULE MonitorProofs ----------------------------
(***************************************************************************)
(* Proofs about the ACI's part of the status block, for every number of    *)
(* check-ins and of host slots, beside a monitor and gateways.             *)
(***************************************************************************)
EXTENDS Monitor, FiniteSetTheorems, SequenceTheorems, TLAPS

Places == {"start", "running", "report", "search", "claim", "claim2", "publish",
           "updates", "errors", "disconnected", "version", "versioned", "idle", "over"}

Names == {"free", "half", "winlink"}
HostRow == [name : Names, updates : 0 .. NAci, errors : 0 .. NAci]

\* After the statistics have been stored, or dropped.
After == {"disconnected", "version", "versioned", "idle", "over"}

AciTypeOK ==
    /\ aciHost \in [CmsSlot -> HostRow]
    /\ apc \in [Run -> Places]
    /\ aslot \in [Run -> 0 .. CmsSlots]
    /\ hostIdx \in -1 .. CmsSlots - 1
    /\ alone \in 0 .. NAci
    /\ \A p \in Run : apc[p] \in {"claim", "claim2", "publish", "updates", "errors"}
                        => aslot[p] \in CmsSlot

\* The slots the search of run p has passed are spoilt.
Passed(p) == \A s \in CmsSlot : s < aslot[p] => aciHost[s].name = "half"

Stored(p) ==
    \/ \A s \in CmsSlot : aciHost[s].name = "half"
    \/ /\ hostIdx \in CmsSlot
       /\ aciHost[hostIdx] = [name |-> "winlink", updates |-> p, errors |-> p]

(***************************************************************************)
(* LastRunShown speaks of a run that is over; what it has stored so far    *)
(* follows it through its search and its stores.                           *)
(***************************************************************************)
Progress(p) ==
    /\ apc[p] # "start" /\ aciPid = p
    /\ apc[p] \in {"running", "report"} => aslot[p] = 0
    /\ apc[p] = "search" => Passed(p)
    /\ apc[p] \in {"publish", "updates", "errors"} => aciHost[aslot[p]].name = "winlink"
    /\ apc[p] \in {"updates", "errors"} => hostIdx = aslot[p]
    /\ apc[p] = "errors" => aciHost[aslot[p]].updates = p
    /\ apc[p] \in After => Stored(p)
    /\ apc[p] = "over" => aciState = "ACI_IDLE"

AciInv ==
    /\ AciTypeOK
    /\ \A p \in Run : apc[p] = "start" => aslot[p] = 0
    /\ \A p \in Run : apc[p] \in {"running", "report"} => aslot[p] = 0
    /\ alone \in Run => Progress(alone)

LEMMA AciInvInit == AciInit => AciInv
<1> SUFFICES ASSUME AciInit PROVE AciInv
  OBVIOUS
<1>1. PICK k \in 0 .. CmsSlots :
        aciHost = [s \in CmsSlot |-> [name |-> IF s < k THEN "half" ELSE "free",
                                      updates |-> 0, errors |-> 0]]
  BY DEF AciInit
<1>2. 0 \in 0 .. NAci /\ 0 \in 0 .. CmsSlots /\ -1 \in -1 .. CmsSlots - 1 /\ 0 \notin Run
  BY AciAssumption DEF Run
<1>3. aciHost \in [CmsSlot -> HostRow]
  BY <1>1, <1>2 DEF HostRow, Names
<1>4. AciTypeOK
  BY <1>2, <1>3 DEF AciInit, AciTypeOK, Places
<1> QED
  BY <1>2, <1>4 DEF AciInit, AciInv

LEMMA AloneStep ==
  ASSUME NEW p \in Run,
         \/ SetAciPid(p) \/ SetAciState(p) \/ SearchHost(p)
         \/ ClaimHost(p) \/ PublishHost(p) \/ StoreStats(p)
  PROVE  Alone(p)
BY DEF SetAciPid, SetAciState, SearchHost, ClaimHost, PublishHost, StoreStats

LEMMA NameStored ==
  ASSUME NEW h \in [CmsSlot -> HostRow], NEW s \in CmsSlot, NEW n \in Names
  PROVE  [h EXCEPT ![s].name = n] \in [CmsSlot -> HostRow]
<1>1. h[s] \in HostRow
  OBVIOUS
<1>2. [h[s] EXCEPT !.name = n] \in HostRow
  BY <1>1 DEF HostRow
<1> QED
  BY <1>2

LEMMA CountStored ==
  ASSUME NEW h \in [CmsSlot -> HostRow], NEW s \in CmsSlot, NEW n \in 0 .. NAci
  PROVE  /\ [h EXCEPT ![s].updates = n] \in [CmsSlot -> HostRow]
         /\ [h EXCEPT ![s].errors = n] \in [CmsSlot -> HostRow]
<1>1. h[s] \in HostRow
  OBVIOUS
<1>2. [h[s] EXCEPT !.updates = n] \in HostRow /\ [h[s] EXCEPT !.errors = n] \in HostRow
  BY <1>1 DEF HostRow
<1> QED
  BY <1>2

LEMMA AciStepKeepsType == AciTypeOK /\ AciStep => AciTypeOK'
<1> SUFFICES ASSUME AciTypeOK, NEW p \in Run,
                    \/ SetAciPid(p) \/ SetAciState(p) \/ SearchHost(p)
                    \/ ClaimHost(p) \/ PublishHost(p) \/ StoreStats(p)
             PROVE AciTypeOK'
  BY DEF AciStep
<1>1. alone' \in 0 .. NAci
  <2>1. alone' = p \/ alone' = 0
    BY AloneStep DEF Alone
  <2> QED
    BY <2>1, AciAssumption DEF Run
<1>2. PICK to \in Places : apc' = [apc EXCEPT ![p] = to] \/ apc' = apc
  <2>1. CASE SetAciPid(p) \/ PublishHost(p)
    BY <2>1 DEF SetAciPid, PublishHost, AciGoto, Places
  <2>2. CASE SetAciState(p)
    <3>1. PICK f \in AciFlow : apc' = [apc EXCEPT ![p] = f[3]]
      BY <2>2 DEF SetAciState, AciGoto
    <3>2. f[3] \in Places
      BY <3>1 DEF AciFlow, Places
    <3> QED
      BY <3>1, <3>2
  <2>3. CASE SearchHost(p)
    BY <2>3 DEF SearchHost, PastTable, AciGoto, Places
  <2>4. CASE ClaimHost(p)
    BY <2>4 DEF ClaimHost, AciGoto, Places
  <2>5. CASE StoreStats(p)
    BY <2>5 DEF StoreStats, AciGoto, Places
  <2> QED
    BY <2>1, <2>2, <2>3, <2>4, <2>5
<1>3. apc' \in [Run -> Places]
  BY <1>2 DEF AciTypeOK
<1>4. CASE SetAciPid(p) \/ SetAciState(p)
  <2>1. UNCHANGED <<aciHost, aslot, hostIdx>>
    BY <1>4 DEF SetAciPid, SetAciState
  <2>2. /\ apc' = [apc EXCEPT ![p] = apc'[p]]
        /\ apc'[p] \notin {"claim", "claim2", "publish", "updates", "errors"}
    BY <1>4 DEF SetAciPid, SetAciState, AciFlow, AciGoto, AciTypeOK
  <2> QED
    BY <1>1, <1>3, <2>1, <2>2 DEF AciTypeOK
<1>5. CASE SearchHost(p)
  <2>1. UNCHANGED <<aciHost, hostIdx>>
    BY <1>5 DEF SearchHost
  <2>2. CASE aslot[p] = CmsSlots
    <3>1. apc' = [apc EXCEPT ![p] = "disconnected"] /\ aslot' = aslot
      BY <1>5, <2>2, AciAssumption DEF SearchHost, PastTable, AciGoto
    <3> QED
      BY <1>1, <1>3, <2>1, <3>1 DEF AciTypeOK
  <2>3. CASE aslot[p] < CmsSlots
    <3>1. aslot[p] \in CmsSlot /\ aslot[p] + 1 \in 0 .. CmsSlots
      BY <2>3, AciAssumption DEF AciTypeOK, CmsSlot
    <3>2. CASE aslot' = aslot
      BY <1>1, <1>3, <1>5, <2>1, <2>3, <3>1, <3>2 DEF SearchHost, AciGoto, AciTypeOK
    <3>3. CASE aslot' = [aslot EXCEPT ![p] = @ + 1] /\ apc' = apc
      BY <1>1, <1>3, <1>5, <2>1, <3>1, <3>3 DEF SearchHost, AciTypeOK
    <3> QED
      BY <1>5, <2>3, <3>2, <3>3 DEF SearchHost
  <2> QED
    BY <1>5, <2>2, <2>3 DEF SearchHost
<1>6. CASE ClaimHost(p)
  <2>1. aslot[p] \in CmsSlot /\ UNCHANGED <<aslot, hostIdx>>
    BY <1>6 DEF ClaimHost, AciTypeOK
  <2>2. PICK n \in Names : aciHost' = [aciHost EXCEPT ![aslot[p]].name = n]
    <3>1. aciHost[aslot[p]].name \in Names
      BY <2>1 DEF AciTypeOK, HostRow
    <3> QED
      BY <1>6, <3>1 DEF ClaimHost, Names
  <2>3. aciHost' \in [CmsSlot -> HostRow]
    BY <2>1, <2>2, NameStored DEF AciTypeOK
  <2> QED
    BY <1>1, <1>3, <1>6, <2>1, <2>3 DEF ClaimHost, AciGoto, AciTypeOK
<1>7. CASE PublishHost(p)
  <2>1. hostIdx' \in -1 .. CmsSlots - 1 /\ aslot[p] \in CmsSlot
    BY <1>7, AciAssumption DEF PublishHost, AciTypeOK, CmsSlot
  <2> QED
    BY <1>1, <1>3, <1>7, <2>1 DEF PublishHost, AciGoto, AciTypeOK
<1>8. CASE StoreStats(p)
  <2>1. p \in 0 .. NAci /\ aslot[p] \in CmsSlot /\ UNCHANGED <<aslot, hostIdx>>
    BY <1>8, AciAssumption DEF StoreStats, Run, AciTypeOK
  <2>2. aciHost' \in [CmsSlot -> HostRow]
    <3>1. \/ aciHost' = [aciHost EXCEPT ![aslot[p]].updates = p]
          \/ aciHost' = [aciHost EXCEPT ![aslot[p]].errors = p]
      BY <1>8 DEF StoreStats
    <3>2. aciHost \in [CmsSlot -> HostRow]
      BY DEF AciTypeOK
    <3> HIDE <1>8
    <3> QED
      BY <2>1, <3>1, <3>2, CountStored
  <2> QED
    BY <1>1, <1>3, <1>8, <2>1, <2>2 DEF StoreStats, AciGoto, AciTypeOK
<1> QED
  BY <1>4, <1>5, <1>6, <1>7, <1>8

LEMMA AciStepKeeps == AciInv /\ AciStep => AciInv'
<1> SUFFICES ASSUME AciInv, NEW p \in Run,
                    \/ SetAciPid(p) \/ SetAciState(p) \/ SearchHost(p)
                    \/ ClaimHost(p) \/ PublishHost(p) \/ StoreStats(p)
             PROVE AciInv'
  BY DEF AciStep
<1>1. AciTypeOK'
  BY AciStepKeepsType DEF AciInv, AciStep
<1>2. /\ \A q \in Run : apc'[q] = "start" => aslot'[q] = 0
      /\ \A q \in Run : apc'[q] \in {"running", "report"} => aslot'[q] = 0
  BY DEF AciInv, AciTypeOK, AciGoto, SetAciPid, SetAciState, AciFlow, SearchHost,
         PastTable, ClaimHost, PublishHost, StoreStats
<1>3. ASSUME alone' \in Run PROVE p = alone'
  BY <1>3, AciAssumption
  DEF Run, Alone, SetAciPid, SetAciState, SearchHost, ClaimHost, PublishHost, StoreStats
<1>4. ASSUME alone' = p PROVE Progress(p)'
  <2>1. apc[p] = "start" \/ Progress(p)
    BY <1>4, AciAssumption
    DEF AciInv, Run, Alone, SetAciPid, SetAciState, SearchHost, ClaimHost, PublishHost,
        StoreStats
  <2> USE AciAssumption DEF AciInv, AciTypeOK, AciGoto, Run, CmsSlot, Places, After
  <2>2. CASE SetAciPid(p)
    BY <2>2 DEF SetAciPid, Progress
  <2>3. CASE SetAciState(p)
    <3>1. PICK f \in AciFlow : /\ apc[p] = f[1] /\ aciState' = f[2]
                               /\ apc' = [apc EXCEPT ![p] = f[3]]
                               /\ UNCHANGED <<aciPid, hostIdx, aciHost, aslot>>
      BY <2>3 DEF SetAciState
    <3>2. Stored(p) => Stored(p)'
      BY <3>1 DEF Stored
    <3> QED
      BY <2>1, <3>1, <3>2 DEF AciFlow, Progress, Passed
  <2>4. CASE SearchHost(p)
    <3>1. aslot[p] = CmsSlots => \A s \in CmsSlot : aciHost[s].name = "half"
      BY <2>1, <2>4 DEF SearchHost, Progress, Passed
    <3>2. apc[p] = "search" /\ aciPid' = p /\ aciHost' = aciHost /\ Passed(p)
      BY <2>1, <2>4 DEF SearchHost, Progress
    <3>3. CASE aslot[p] = CmsSlots
      <4>1. apc'[p] = "disconnected" /\ aslot' = aslot
        BY <2>4, <3>3 DEF SearchHost, PastTable
      <4> QED
        BY <3>1, <3>2, <3>3, <4>1 DEF Progress, Stored
    <3>4. CASE aslot[p] < CmsSlots
      <4>1. CASE aciHost[aslot[p]].name = "free" /\ apc' = [apc EXCEPT ![p] = "claim"]
        BY <3>2, <4>1 DEF Progress
      <4>2. CASE /\ SameHost(aciHost[aslot[p]].name) /\ aslot' = aslot
                 /\ apc' = [apc EXCEPT ![p] = "publish"]
        BY <3>2, <4>2 DEF SameHost, Progress
      <4>3. CASE /\ aciHost[aslot[p]].name # "free" /\ ~SameHost(aciHost[aslot[p]].name)
                 /\ aslot' = [aslot EXCEPT ![p] = @ + 1] /\ apc' = apc
        <5>1. aslot[p] \in CmsSlot
          BY <3>4
        <5>2. aciHost[aslot[p]].name = "half"
          BY <4>3, <5>1 DEF SameHost, HostRow, Names
        <5>3. \A s \in CmsSlot : s < aslot[p] + 1 => s < aslot[p] \/ s = aslot[p]
          BY <5>1
        <5>4. Passed(p)'
          BY <3>2, <4>3, <5>2, <5>3 DEF Passed
        <5> QED
          BY <3>2, <4>3, <5>4 DEF Progress
      <4> QED
        BY <2>4, <3>4, <4>1, <4>2, <4>3 DEF SearchHost
    <3> QED
      BY <2>4, <3>3, <3>4 DEF SearchHost
  <2>5. CASE ClaimHost(p)
    <3>1. aslot[p] \in CmsSlot /\ UNCHANGED <<aciPid, aciState, hostIdx, aslot>>
      BY <2>5 DEF ClaimHost
    <3>2. CASE apc' = [apc EXCEPT ![p] = "claim2"]
      BY <2>1, <2>5, <3>1, <3>2 DEF ClaimHost, Progress
    <3>3. CASE /\ apc' = [apc EXCEPT ![p] = "publish"]
               /\ aciHost' = [aciHost EXCEPT ![aslot[p]].name = "winlink"]
      <4>1. aciHost'[aslot[p]].name = "winlink"
        BY <3>1, <3>3 DEF HostRow
      <4> QED
        BY <2>1, <2>5, <3>1, <3>3, <4>1 DEF ClaimHost, Progress
    <3> QED
      BY <2>5, <3>2, <3>3 DEF ClaimHost
  <2>6. CASE PublishHost(p)
    BY <2>1, <2>6 DEF PublishHost, Progress
  <2>7. CASE StoreStats(p)
    <3>1. /\ Progress(p) /\ aslot[p] \in CmsSlot /\ aciHost[aslot[p]] \in HostRow
          /\ hostIdx = aslot[p] /\ aciHost[aslot[p]].name = "winlink"
          /\ UNCHANGED <<aciPid, aciState, hostIdx, aslot>>
      BY <2>1, <2>7 DEF StoreStats, Progress
    <3>2. CASE /\ apc' = [apc EXCEPT ![p] = "errors"]
               /\ aciHost' = [aciHost EXCEPT ![aslot[p]].updates = p]
      <4>1. aciHost'[aslot[p]].name = "winlink" /\ aciHost'[aslot[p]].updates = p
        BY <3>1, <3>2 DEF HostRow
      <4> QED
        BY <3>1, <3>2, <4>1 DEF Progress
    <3>3. CASE /\ apc[p] = "errors" /\ apc' = [apc EXCEPT ![p] = "disconnected"]
               /\ aciHost' = [aciHost EXCEPT ![aslot[p]].errors = p]
      <4>1. aciHost[aslot[p]].updates = p
        BY <3>1, <3>3 DEF Progress
      <4>2. aciHost'[aslot[p]] = [name |-> "winlink", updates |-> p, errors |-> p]
        BY <3>1, <3>3, <4>1 DEF HostRow
      <4>3. Stored(p)'
        BY <3>1, <4>2 DEF Stored
      <4> QED
        BY <3>1, <3>3, <4>3 DEF Progress
    <3> QED
      BY <2>7, <3>2, <3>3 DEF StoreStats
  <2> QED
    BY <2>2, <2>3, <2>4, <2>5, <2>6, <2>7
<1> QED
  BY <1>1, <1>2, <1>3, <1>4 DEF AciInv

LEMMA AciInvKept == AciInv /\ [MNext]_allvars => AciInv'
<1> SUFFICES ASSUME AciInv, [MNext]_allvars PROVE AciInv'
  OBVIOUS
<1>1. AciStep \/ UNCHANGED acivars
  BY DEF MNext, Monitor, Write, Gateways, CheckIns, allvars, writers
<1>2. CASE UNCHANGED acivars
  BY <1>2 DEF acivars, AciInv, AciTypeOK, Progress, Passed, Stored
<1> QED
  BY <1>1, <1>2, AciStepKeeps

LEMMA InvShows == AciInv => LastRunShown
<1> SUFFICES ASSUME AciInv, NEW p \in Run, alone = p, apc[p] = "over"
             PROVE /\ aciState = "ACI_IDLE" /\ aciPid = p
                   /\ Stored(p)
  BY DEF LastRunShown, Stored
<1> QED
  BY DEF AciInv, Progress, After

\* Whatever killed, stalled or earlier runs have left in the host table: the
\* results published when an uninterrupted check-in ends are its own.
THEOREM LastResultsShown == MSpec => []LastRunShown
<1>1. MInit => AciInv
  BY AciInvInit DEF MInit
<1>2. MSpec => []AciInv
  BY <1>1, AciInvKept, PTL DEF MSpec
<1> QED
  BY <1>2, InvShows, PTL

(* ---- what the monitor draws --------------------------------------------- *)

AciPlaces == {"aciName", "aciState", "active", "last", "unmark", "heading"}
RowPlaces == {"pid", "state", "counters", "client", "off"}
AfterHosts == {"heading", "gwRow", "wait", "quit"} \cup RowPlaces

Mark == [name : Names, mark : {"none", "active", "last"}]
Drawn == [state : GwState, hidden : SUBSET Part]

ScreenTyped ==
    /\ mpc \in {"refresh", "gwRow", "wait", "quit"} \cup AciPlaces \cup RowPlaces
    /\ pen \in {"none", "active", "last"} /\ {invis, noHead, quiet, leftOn} \subseteq BOOLEAN
    /\ title \in (AciState \cup {"none"}) \X (-1 .. CmsSlots - 1)
    /\ marks \in Seq(Mark)
    /\ gwRows \in [1 .. Len(Slots) -> Drawn]

\* The row being drawn is one of the window that is drawn; a row of aciwin has
\* been drawn for each row before it.
InWindow ==
    /\ mpc = "refresh" => row \in 0 .. Len(Slots) + 1
    /\ mpc \in {"aciName", "heading"} => row \in 0 .. CmsSlots
    /\ mpc \in {"aciState", "active", "last", "unmark"} => row \in CmsSlot
    /\ mpc \in {"gwRow", "wait", "quit"} => row \in 1 .. Len(Slots) + 1
    /\ mpc \in RowPlaces => row \in 1 .. Len(Slots)
    /\ mpc \in AciPlaces => Len(marks) = IF mpc = "unmark" THEN row + 1 ELSE row
    /\ Len(marks) <= CmsSlots

BlockTyped ==
    /\ table \in [Call -> Row]
    /\ at \in [Proc -> {"start"} \cup Op \cup End]
    /\ aciState \in AciState

ScreenInv == ScreenTyped /\ InWindow

LEMMA PutTyped ==
    ASSUME NEW o \in Op, NEW p \in Proc, NEW r \in Row
    PROVE  Put(o, p, Get(o, r) + 1, r) \in Row
<1>1. Get(o, r) + 1 \in Nat
  BY DEF Get, Row
<1>2. p \in Holder
  BY DEF Holder
<1> QED
  BY <1>1, <1>2 DEF Put, Op, Row, GwState

LEMMA BlockInit == MInit => BlockTyped
<1> SUFFICES ASSUME MInit PROVE BlockTyped
  OBVIOUS
<1>1. /\ NewRow("none", "zero", "GW_UNUSED") \in Row
      /\ NewRow("old", "old", "GW_IDLE") \in Row
  BY DEF NewRow, Row, Holder, GwState
<1> QED
  BY <1>1 DEF MInit, Init, AciInit, BlockTyped, AciState

LEMMA BlockStep == BlockTyped /\ [MNext]_allvars => BlockTyped'
<1> SUFFICES ASSUME BlockTyped, [MNext]_allvars PROVE BlockTyped'
  OBVIOUS
<1>1. aciState' \in AciState
  <2>1. CASE AciStep
    BY <2>1 DEF AciStep, SetAciPid, SetAciState, AciFlow, SearchHost, ClaimHost,
                PublishHost, StoreStats, BlockTyped, AciState
  <2>2. CASE UNCHANGED acivars
    BY <2>2 DEF acivars, BlockTyped
  <2> QED
    BY <2>1, <2>2 DEF MNext, Monitor, Write, Gateways, CheckIns, allvars, writers
<1>2. table' \in [Call -> Row] /\ at' \in [Proc -> {"start"} \cup Op \cup End]
  <2>1. ASSUME NEW p \in Proc, Begin(p) PROVE <1>2
    BY <2>1 DEF Begin, BlockTyped, Op
  <2>2. ASSUME NEW p \in Proc, Update(p) PROVE <1>2
    <3>1. PICK o \in Follow(at[p]) : at' = [at EXCEPT ![p] = o]
      BY <2>2 DEF Update
    <3>2. o \in Op \cup End /\ at[p] \in Op
      BY <2>2, <3>1 DEF Update, Active, Follow, Flow, Op, End
    <3>3. table' \in [Call -> Row]
      <4>1. CASE callOf[p] \in Call
        <5>1. table[callOf[p]] \in Row
          BY <4>1 DEF BlockTyped
        <5>2. table' = [table EXCEPT ![callOf[p]] =
                          Put(at[p], p, Get(at[p], table[callOf[p]]) + 1,
                              table[callOf[p]])]
          BY <2>2 DEF Update
        <5> QED
          BY <3>2, <5>1, <5>2, PutTyped DEF BlockTyped
      <4>2. CASE callOf[p] \notin Call
        BY <2>2, <4>2 DEF Update, BlockTyped
      <4> QED
        BY <4>1, <4>2
    <3> QED
      BY <3>1, <3>2, <3>3 DEF BlockTyped
  <2>3. ASSUME NEW p \in Proc, Vanish(p) PROVE <1>2
    BY <2>3 DEF Vanish, BlockTyped, End
  <2>4. CASE UNCHANGED tvars
    BY <2>4 DEF tvars, BlockTyped
  <2> QED
    BY <2>1, <2>2, <2>3, <2>4
    DEF MNext, Monitor, Write, Gateways, CheckIns, allvars, writers, Next
<1> QED
  BY <1>1, <1>2 DEF BlockTyped

LEMMA ScreenInit == MInit => ScreenInv
<1> SUFFICES ASSUME MInit PROVE ScreenInv
  OBVIOUS
<1>1. Len(Slots) \in Nat /\ CmsSlots \in Nat \ {0}
  BY MonitorAssumption, AciAssumption
<1>2. NoRows \in [1 .. Len(Slots) -> Drawn]
  BY DEF NoRows, Blank, Drawn, GwState
<1>3. <<>> \in Seq(Mark) /\ Len(<<>>) = 0
  OBVIOUS
<1>4. <<"none", 0>> \in (AciState \cup {"none"}) \X (-1 .. CmsSlots - 1)
  BY <1>1
<1>5. ScreenTyped
  BY <1>2, <1>3, <1>4 DEF MInit, ScreenTyped
<1>6. InWindow
  BY <1>1, <1>3 DEF MInit, InWindow, AciPlaces, RowPlaces
<1> QED
  BY <1>5, <1>6 DEF ScreenInv

LEMMA ScreenStep ==
    AciTypeOK /\ BlockTyped /\ ScreenInv /\ [MNext]_allvars => ScreenInv'
<1> SUFFICES ASSUME AciTypeOK, BlockTyped, ScreenInv, [MNext]_allvars PROVE ScreenInv'
  OBVIOUS
<1> USE DEF AciPlaces, RowPlaces
<1>a. Len(Slots) \in Nat /\ CmsSlots \in Nat \ {0}
  BY MonitorAssumption, AciAssumption
<1>b. \A i \in 1 .. Len(Slots) : Slots[i] \in Call /\ table[Slots[i]] \in Row
  BY MonitorAssumption DEF BlockTyped
<1>c. /\ ScreenTyped /\ InWindow
      /\ Len(marks) \in Nat
  BY DEF ScreenInv, ScreenTyped
<1>1. CASE UNCHANGED mvars /\ {quiet', leftOn'} \subseteq BOOLEAN
  BY <1>1, <1>c DEF ScreenInv, ScreenTyped, InWindow, mvars
<1>d. ASSUME Monitor PROVE {quiet', leftOn'} \subseteq BOOLEAN
  BY <1>c, <1>d DEF Monitor, ScreenTyped
<1>2. CASE DrawTitle /\ Monitor
  <2>1. NoRows \in [1 .. Len(Slots) -> Drawn]
    BY DEF NoRows, Blank, Drawn, GwState
  <2>2. <<>> \in Seq(Mark) /\ Len(<<>>) = 0
    OBVIOUS
  <2>3. title' \in (AciState \cup {"none"}) \X (-1 .. CmsSlots - 1)
    BY <1>2 DEF DrawTitle, BlockTyped, AciTypeOK
  <2> QED
    BY <1>2, <1>a, <1>c, <1>d, <2>1, <2>2, <2>3
    DEF DrawTitle, ScreenInv, ScreenTyped, InWindow
<1>3. CASE (AciName \/ AciColour) /\ Monitor
  BY <1>3, <1>a, <1>c, <1>d
  DEF AciName, AciColour, ScreenInv, ScreenTyped, InWindow, CmsSlot
<1>4. CASE AciRow /\ Monitor
  <2>1. row \in CmsSlot /\ Len(marks) = row /\ mpc \in {"active", "last"} /\ row' = row
    BY <1>4, <1>c DEF AciRow, InWindow
  <2>2. pen' \in {"none", "active", "last"}
    BY <1>4, <1>c DEF AciRow, ScreenTyped
  <2>3. [name |-> aciHost[row].name, mark |-> pen'] \in Mark
    BY <2>1, <2>2 DEF AciTypeOK, HostRow, Mark
  <2>4. marks' \in Seq(Mark) /\ Len(marks') = row + 1
    BY <1>4, <1>c, <2>1, <2>3 DEF AciRow, ScreenTyped
  <2>5. row + 1 <= CmsSlots
    BY <1>a, <2>1 DEF CmsSlot
  <2> QED
    BY <1>4, <1>c, <1>d, <2>1, <2>2, <2>4, <2>5
    DEF AciRow, ScreenInv, ScreenTyped, InWindow
<1>5. CASE AciUnmark /\ Monitor
  <2>1. row \in CmsSlot /\ row + 1 \in 0 .. CmsSlots
    BY <1>5, <1>a, <1>c DEF AciUnmark, InWindow, CmsSlot
  <2> QED
    BY <1>5, <1>c, <1>d, <2>1 DEF AciUnmark, ScreenInv, ScreenTyped, InWindow
<1>e. ASSUME NEW part \in Part, NEW hide \in BOOLEAN, Draw(part, hide),
             row \in 1 .. Len(Slots)
      PROVE  gwRows' \in [1 .. Len(Slots) -> Drawn]
  <2>1. gwRows \in [1 .. Len(Slots) -> Drawn] /\ gwRows[row] \in Drawn
    BY <1>c, <1>e DEF ScreenTyped
  <2>2. /\ [gwRows[row] EXCEPT !.hidden = @ \cup {part}] \in Drawn
        /\ [gwRows[row] EXCEPT !.hidden = @] \in Drawn
    BY <1>e, <2>1 DEF Drawn
  <2> QED
    BY <1>e, <2>1, <2>2 DEF Draw
<1>6. CASE (GwHeading \/ GwEnd) /\ Monitor
  BY <1>6, <1>a, <1>c, <1>d
  DEF GwHeading, GwEnd, ScreenInv, ScreenTyped, InWindow
<1>12. CASE GwRow /\ Monitor
  <2>1. gwRows' \in [1 .. Len(Slots) -> Drawn]
    <3>1. row \in 1 .. Len(Slots) /\ invis \in BOOLEAN /\ "number" \in Part
      BY <1>12, <1>c DEF GwRow, InWindow, ScreenTyped, Part
    <3> QED
      BY <1>12, <1>c, <1>e, <3>1 DEF GwRow, ScreenTyped
  <2> QED
    BY <1>12, <1>a, <1>c, <1>d, <2>1
    DEF GwRow, SkipUnused, ScreenInv, ScreenTyped, InWindow
<1>7. CASE (GwPid \/ GwClient) /\ Monitor
  <2>1. row \in 1 .. Len(Slots) /\ row' = row /\ invis' \in BOOLEAN
    BY <1>7, <1>c DEF GwPid, GwClient, InvisOn, InWindow, ScreenTyped
  <2>2. gwRows' \in [1 .. Len(Slots) -> Drawn]
    BY <1>7, <1>e, <2>1 DEF GwPid, GwClient, Part
  <2> QED
    BY <1>7, <1>c, <1>d, <2>1, <2>2
    DEF GwPid, GwClient, ScreenInv, ScreenTyped, InWindow
<1>8. CASE (GwUnhide \/ GwOff) /\ Monitor
  <2>1. row \in 1 .. Len(Slots) /\ invis' \in BOOLEAN
    BY <1>8, <1>c DEF GwUnhide, GwOff, InvisOff, InWindow, ScreenTyped
  <2> QED
    BY <1>8, <1>a, <1>c, <1>d, <2>1
    DEF GwUnhide, GwOff, ScreenInv, ScreenTyped, InWindow
<1>9. CASE GwCounters /\ Monitor
  <2>1. row \in 1 .. Len(Slots) /\ row' = row /\ State \in GwState
    BY <1>9, <1>b, <1>c DEF GwCounters, InWindow, State, Row
  <2>2. gwRows' \in [1 .. Len(Slots) -> Drawn]
    <3>1. gwRows[row] \in Drawn
      BY <1>c, <2>1 DEF ScreenTyped
    <3>2. [state |-> State, hidden |-> IF invis THEN gwRows[row].hidden \cup {"counters"}
                                       ELSE gwRows[row].hidden] \in Drawn
      BY <2>1, <3>1 DEF Drawn, Part
    <3>3. gwRows \in [1 .. Len(Slots) -> Drawn]
      BY <1>c DEF ScreenTyped
    <3> QED
      BY <1>9, <2>1, <3>2, <3>3 DEF GwCounters
  <2> QED
    BY <1>9, <1>c, <1>d, <2>1, <2>2
    DEF GwCounters, ScreenInv, ScreenTyped, InWindow
<1>10. CASE (Again \/ Quit) /\ Monitor
  BY <1>10, <1>a, <1>c, <1>d DEF Again, Quit, ScreenInv, ScreenTyped, InWindow
<1>11. Write \/ UNCHANGED allvars => UNCHANGED mvars /\ {quiet', leftOn'} \subseteq BOOLEAN
  BY <1>c DEF Write, allvars, histories, ScreenTyped
<1> QED
  BY <1>1, <1>2, <1>3, <1>4, <1>5, <1>6, <1>7, <1>8, <1>9, <1>10, <1>11, <1>12
  DEF MNext, Monitor, Refresh

\* The monitor's own variables and the block it reads keep their domains; in
\* particular no row is drawn beside the table it comes from.
THEOREM MonitorTypes == MSpec => []MonitorTypeOK
<1>1. AciInv /\ ScreenInv => MonitorTypeOK
  <2> SUFFICES ASSUME AciInv, ScreenInv PROVE MonitorTypeOK
    OBVIOUS
  <2>1. Len(Slots) \in Nat /\ CmsSlots \in Nat \ {0}
    BY MonitorAssumption, AciAssumption
  <2>2. row \in 0 .. CmsSlots + Len(Slots) + 1
    BY <2>1 DEF ScreenInv, ScreenTyped, InWindow, AciPlaces, RowPlaces, CmsSlot
  <2>3. /\ \A i \in 1 .. Len(Slots) : gwRows[i].state \in GwState /\ gwRows[i].hidden \subseteq Part
        /\ \A s \in CmsSlot : aciHost[s].name \in {"free", "half", "winlink"}
    BY DEF ScreenInv, ScreenTyped, Drawn, AciInv, AciTypeOK, HostRow, Names
  <2> QED
    BY <2>2, <2>3 DEF MonitorTypeOK, ScreenInv, ScreenTyped, InWindow, AciPlaces,
                      RowPlaces, AciInv, AciTypeOK
<1>2. MInit => AciInv
  BY AciInvInit DEF MInit
<1>3. AciInv => AciTypeOK
  BY DEF AciInv
<1> QED
  BY <1>1, <1>2, <1>3, AciInvKept, BlockInit, BlockStep, ScreenInit, ScreenStep, PTL
  DEF MSpec

(* ---- a refresh nobody writes during ------------------------------------- *)

\* The row of aciwin that shows host slot s.
MarkOf(s) == [name |-> aciHost[s].name,
              mark |-> IF s # hostIdx THEN "none"
                       ELSE IF aciState = "ACI_IDLE" THEN "last" ELSE "active"]

HostsSoFar ==
    /\ mpc # "refresh" => title = <<aciState, hostIdx>>
    /\ mpc # "refresh" => \A i \in 1 .. Len(marks) :
          aciHost[i - 1].name # "free" /\ marks[i] = MarkOf(i - 1)
    /\ mpc \in {"aciName", "aciState", "active", "last"} => pen = "none"
    /\ mpc = "unmark" => pen = MarkOf(row).mark
    /\ mpc \in {"aciState", "active", "last"} => aciHost[row].name # "free"
    /\ mpc = "active" => aciState # "ACI_IDLE"
    /\ mpc = "last" => aciState = "ACI_IDLE"
    /\ mpc \in AfterHosts => \/ Len(marks) = CmsSlots
                             \/ /\ Len(marks) \in CmsSlot
                                /\ aciHost[Len(marks)].name = "free"

\* What the row of gateway c holds before its pid, its state and its client, and at
\* its end.
Before(where) == CASE where = "pid" -> {"number"}
                   [] where \in {"state", "counters"} -> {"number", "pid"}
                   [] where = "client" -> {"number", "pid", "counters"}
                   [] OTHER -> Part

PartOf(c, on, where) ==
    [state |-> IF where \in {"client", "off"} THEN table[c].state ELSE "GW_UNUSED",
     hidden |-> Hidden(c, on) \cap Before(where)]

\* A_INVIS, left on or not, as the rows before row i leave it.
RowsSoFar ==
    /\ mpc \in AciPlaces => invis = leftOn /\ gwRows = NoRows
    /\ mpc \in {"gwRow", "wait", "quit"} \cup RowPlaces => noHead = leftOn
    /\ mpc \in {"gwRow", "wait", "quit", "pid"} => invis = StillOn(row)
    /\ mpc \in RowPlaces =>
         LET idle == table[Slots[row]].state = "GW_IDLE"
         IN  /\ mpc \in {"state", "off"} => invis = (StillOn(row) \/ idle)
             /\ mpc \in {"counters", "client"} => invis = (StillOn(row) /\ ~idle)
             /\ table[Slots[row]].state # "GW_UNUSED"
             /\ gwRows[row] = PartOf(Slots[row], StillOn(row), mpc)
    /\ mpc \in {"gwRow", "wait", "quit"} \cup RowPlaces =>
         \A i \in 1 .. Len(Slots) :
            /\ i < row => gwRows[i] = Shown(Slots[i], StillOn(i))
            /\ i > row => gwRows[i] = Blank
            /\ i = row /\ mpc = "gwRow" => gwRows[i] = Blank
    /\ mpc \in {"wait", "quit"} => row = Len(Slots) + 1

QuietInv == quiet => HostsSoFar /\ RowsSoFar

LEMMA QuietStart ==
    ASSUME DrawTitle, leftOn' = invis, UNCHANGED writers
    PROVE  (HostsSoFar /\ RowsSoFar)'
<1>1. /\ mpc' = "aciName" /\ title' = <<aciState, hostIdx>> /\ marks' = <<>>
      /\ gwRows' = NoRows /\ pen' = "none" /\ invis' = invis
      /\ UNCHANGED <<aciState, hostIdx, aciHost>>
  BY DEF DrawTitle, writers, acivars
<1>2. Len(<<>>) = 0
  OBVIOUS
<1>3. HostsSoFar'
  BY <1>1, <1>2 DEF HostsSoFar, AfterHosts, RowPlaces
<1>4. RowsSoFar'
  BY <1>1 DEF RowsSoFar, AciPlaces, RowPlaces
<1> QED
  BY <1>3, <1>4

LEMMA HostsKept ==
    ASSUME ScreenInv, HostsSoFar, Refresh \/ Quit, mpc # "refresh", UNCHANGED writers
    PROVE  HostsSoFar'
<1> USE DEF AciPlaces, RowPlaces, AfterHosts
<1>a. ScreenTyped /\ InWindow /\ Len(marks) \in Nat /\ marks \in Seq(Mark)
  BY DEF ScreenInv, ScreenTyped
<1>b. /\ UNCHANGED <<aciState, hostIdx, aciHost>>
      /\ \A s : MarkOf(s)' = MarkOf(s)
  BY DEF writers, acivars, MarkOf
<1>c. CmsSlots \in Nat \ {0}
  BY AciAssumption
<1>1. CASE AciName
  BY <1>1, <1>a, <1>b, <1>c DEF AciName, HostsSoFar, InWindow, CmsSlot
<1>2. CASE AciColour
  BY <1>2, <1>a, <1>b DEF AciColour, HostsSoFar
<1>3. CASE AciRow
  <2>1. /\ row \in CmsSlot /\ Len(marks) = row /\ aciHost[row].name # "free"
        /\ mpc' = "unmark" /\ row' = row /\ title' = title
    BY <1>3, <1>a DEF AciRow, InWindow, HostsSoFar
  <2>2. pen' = MarkOf(row).mark
    BY <1>3, <1>b DEF AciRow, HostsSoFar, MarkOf
  <2>3. [name |-> aciHost[row].name, mark |-> pen'] = MarkOf(row)
    BY <2>2 DEF MarkOf
  <2>4. marks' = Append(marks, MarkOf(row))
    BY <1>3, <2>3 DEF AciRow
  <2>5. /\ Len(marks') = row + 1 /\ marks'[row + 1] = MarkOf(row)
        /\ \A i \in 1 .. row : marks'[i] = marks[i]
    BY <1>a, <2>1, <2>4
  <2>6. ASSUME NEW i \in 1 .. Len(marks')
        PROVE  aciHost[i - 1].name # "free" /\ marks'[i] = MarkOf(i - 1)
    <3>1. CASE i = row + 1
      BY <2>1, <2>5, <3>1 DEF CmsSlot
    <3>2. CASE i # row + 1
      <4>1. i \in 1 .. row
        BY <1>c, <2>1, <2>5, <3>2 DEF CmsSlot
      <4> QED
        BY <2>1, <2>5, <4>1, <1>3 DEF HostsSoFar, AciRow
    <3> QED
      BY <3>1, <3>2
  <2> QED
    BY <1>b, <1>3, <2>1, <2>2, <2>6 DEF HostsSoFar, AciRow
<1>4. CASE AciUnmark
  <2>1. pen' = "none" /\ mpc' = "aciName" /\ marks' = marks /\ title' = title
    BY <1>4 DEF AciUnmark, HostsSoFar, MarkOf
  <2> QED
    BY <1>4, <1>b, <2>1 DEF HostsSoFar, AciUnmark
<1>5. CASE \/ GwHeading \/ GwRow \/ GwEnd \/ GwPid \/ GwUnhide \/ GwCounters
           \/ GwClient \/ GwOff \/ Again \/ Quit
  <2>1. /\ mpc \in AfterHosts /\ mpc' \in {"refresh"} \cup AfterHosts
        /\ mpc' # "heading" /\ marks' = marks /\ title' = title
    BY <1>5 DEF GwHeading, GwRow, SkipUnused, GwEnd, GwPid, GwUnhide, GwCounters,
                GwClient, GwOff, Again, Quit
  <2> QED
    BY <1>b, <2>1 DEF HostsSoFar
<1> QED
  BY <1>1, <1>2, <1>3, <1>4, <1>5 DEF Refresh, DrawTitle

\* One idle row clears the attribute for all after it.
LEMMA StillOnNext ==
    ASSUME NEW i \in Nat \ {0}
    PROVE  StillOn(i + 1) = (StillOn(i) /\ table[Slots[i]].state # "GW_IDLE")
<1>1. \A j : j \in 1 .. (i + 1) - 1 <=> j \in 1 .. i - 1 \/ j = i
  OBVIOUS
<1> QED
  BY <1>1 DEF StillOn

LEMMA StillOnFirst == leftOn \in BOOLEAN => StillOn(1) = leftOn
<1>1. 1 .. 1 - 1 = {}
  OBVIOUS
<1> QED
  BY <1>1 DEF StillOn

\* The parts of a row, one after the other.
LEMMA PartByPart ==
    ASSUME NEW c, NEW on \in BOOLEAN
    PROVE  LET idle == table[c].state = "GW_IDLE"
           IN  /\ [Blank EXCEPT !.hidden = IF on THEN @ \cup {"number"} ELSE @]
                    = PartOf(c, on, "pid")
               /\ [PartOf(c, on, "pid") EXCEPT
                      !.hidden = IF on \/ idle THEN @ \cup {"pid"} ELSE @]
                    = PartOf(c, on, "state")
               /\ [state |-> table[c].state,
                   hidden |-> IF on /\ ~idle THEN PartOf(c, on, "counters").hidden
                                                  \cup {"counters"}
                              ELSE PartOf(c, on, "counters").hidden]
                    = PartOf(c, on, "client")
               /\ [PartOf(c, on, "client") EXCEPT
                      !.hidden = IF on \/ idle THEN @ \cup {"client"} ELSE @]
                    = PartOf(c, on, "off")
<1> DEFINE idle == table[c].state = "GW_IDLE"
<1> DEFINE h == Hidden(c, on)
<1>1. /\ (IF on THEN {} \cup {"number"} ELSE {}) = h \cap {"number"}
      /\ (IF on \/ idle THEN (h \cap {"number"}) \cup {"pid"} ELSE h \cap {"number"})
           = h \cap {"number", "pid"}
      /\ (IF on /\ ~idle THEN (h \cap {"number", "pid"}) \cup {"counters"}
                         ELSE h \cap {"number", "pid"})
           = h \cap {"number", "pid", "counters"}
      /\ (IF on \/ idle THEN (h \cap {"number", "pid", "counters"}) \cup {"client"}
                        ELSE h \cap {"number", "pid", "counters"})
           = h \cap Part
  BY DEF Hidden, Part
<1> HIDE DEF h
<1>2. /\ PartOf(c, on, "pid") = [state |-> "GW_UNUSED", hidden |-> h \cap {"number"}]
      /\ PartOf(c, on, "state") = [state |-> "GW_UNUSED", hidden |-> h \cap {"number", "pid"}]
      /\ PartOf(c, on, "counters") = [state |-> "GW_UNUSED",
                                     hidden |-> h \cap {"number", "pid"}]
      /\ PartOf(c, on, "client") = [state |-> table[c].state,
                                   hidden |-> h \cap {"number", "pid", "counters"}]
      /\ PartOf(c, on, "off") = [state |-> table[c].state, hidden |-> h \cap Part]
  BY DEF PartOf, Before, h
<1> HIDE DEF idle
<1>3. [Blank EXCEPT !.hidden = IF on THEN @ \cup {"number"} ELSE @] = PartOf(c, on, "pid")
  BY <1>1, <1>2 DEF Blank
<1>4. [PartOf(c, on, "pid") EXCEPT !.hidden = IF on \/ idle THEN @ \cup {"pid"} ELSE @]
        = PartOf(c, on, "state")
  BY <1>1, <1>2
<1>5. [state |-> table[c].state,
       hidden |-> IF on /\ ~idle THEN PartOf(c, on, "counters").hidden \cup {"counters"}
                  ELSE PartOf(c, on, "counters").hidden]
        = PartOf(c, on, "client")
  BY <1>1, <1>2
<1>6. [PartOf(c, on, "client") EXCEPT !.hidden = IF on \/ idle THEN @ \cup {"client"} ELSE @]
        = PartOf(c, on, "off")
  BY <1>1, <1>2
<1> QED
  BY <1>3, <1>4, <1>5, <1>6 DEF idle

LEMMA RowsKept ==
    ASSUME BlockTyped, ScreenInv, RowsSoFar, Refresh \/ Quit, mpc # "refresh",
           UNCHANGED <<writers, leftOn>>
    PROVE  RowsSoFar'
<1> USE DEF AciPlaces, RowPlaces
<1>a. /\ ScreenTyped /\ InWindow /\ Len(Slots) \in Nat
      /\ gwRows \in [1 .. Len(Slots) -> Drawn]
      /\ leftOn \in BOOLEAN
  BY MonitorAssumption DEF ScreenInv, ScreenTyped
<1>b. /\ table' = table /\ leftOn' = leftOn
      /\ \A c, on : Shown(c, on)' = Shown(c, on)
      /\ \A c, on, w : PartOf(c, on, w)' = PartOf(c, on, w)
      /\ \A i : StillOn(i)' = StillOn(i)
  BY DEF writers, tvars, Shown, PartOf, Hidden, StillOn
<1>e. \A i : StillOn(i) \in BOOLEAN
  BY DEF StillOn
<1>f. LET c == Slots[row]  on == StillOn(row)
      IN  /\ [Blank EXCEPT !.hidden = IF on THEN @ \cup {"number"} ELSE @]
               = PartOf(c, on, "pid")
          /\ [PartOf(c, on, "pid") EXCEPT
                 !.hidden = IF on \/ State = "GW_IDLE" THEN @ \cup {"pid"} ELSE @]
               = PartOf(c, on, "state")
          /\ [state |-> State,
              hidden |-> IF on /\ State # "GW_IDLE"
                         THEN PartOf(c, on, "counters").hidden \cup {"counters"}
                         ELSE PartOf(c, on, "counters").hidden]
               = PartOf(c, on, "client")
          /\ [PartOf(c, on, "client") EXCEPT
                 !.hidden = IF on \/ State = "GW_IDLE" THEN @ \cup {"client"} ELSE @]
               = PartOf(c, on, "off")
  <2>1. StillOn(row) \in BOOLEAN
    BY <1>e
  <2> QED
    BY <2>1, PartByPart, Zenon DEF State
<1>1. CASE AciName \/ AciColour \/ AciRow \/ AciUnmark
  BY <1>1, <1>b DEF AciName, AciColour, AciRow, AciUnmark, RowsSoFar
<1>2. CASE GwHeading
  <2>1. \A i \in 1 .. Len(Slots) : gwRows[i] = Blank
    BY <1>2 DEF GwHeading, RowsSoFar, NoRows
  <2>2. /\ mpc' = "gwRow" /\ row' = 1 /\ gwRows' = gwRows
        /\ invis' = leftOn /\ noHead' = leftOn
    BY <1>2 DEF GwHeading, RowsSoFar
  <2>3. StillOn(1) = leftOn
    BY <1>a, StillOnFirst
  <2>4. \A i \in 1 .. Len(Slots) : ~(i < 1)
    OBVIOUS
  <2> QED
    BY <1>b, <2>1, <2>2, <2>3, <2>4 DEF RowsSoFar
<1>3. CASE GwRow
  <2>1. /\ mpc = "gwRow" /\ row \in 1 .. Len(Slots) /\ invis' = invis /\ noHead' = noHead
        /\ noHead = leftOn /\ invis = StillOn(row) /\ gwRows[row] = Blank
        /\ \A i \in 1 .. Len(Slots) :
              /\ i < row => gwRows[i] = Shown(Slots[i], StillOn(i))
              /\ i > row => gwRows[i] = Blank
    BY <1>3, <1>a DEF GwRow, RowsSoFar, InWindow
  <2>2. CASE State = "GW_UNUSED" /\ SkipUnused /\ UNCHANGED gwRows
    <3>1. gwRows[row] = Shown(Slots[row], StillOn(row))
      BY <2>1, <2>2 DEF Shown, State
    <3>2. mpc' = "gwRow" /\ row' = row + 1 /\ gwRows' = gwRows
      BY <2>2 DEF SkipUnused
    <3>3. \A i \in 1 .. Len(Slots) : (i < row + 1 => i < row \/ i = row)
                                     /\ (i >= row + 1 => i > row)
      BY <2>1
    <3>4. StillOn(row + 1) = StillOn(row)
      BY <1>e, <2>1, <2>2, StillOnNext DEF State
    <3>5. \A i \in 1 .. Len(Slots) :
            /\ i < row + 1 => gwRows[i] = Shown(Slots[i], StillOn(i))
            /\ i >= row + 1 => gwRows[i] = Blank
      BY <2>1, <3>1, <3>3
    <3>6. invis' = StillOn(row + 1) /\ noHead' = leftOn
      BY <2>1, <3>4
    <3> QED
      BY <1>b, <3>2, <3>5, <3>6 DEF RowsSoFar
  <2>3. CASE State # "GW_UNUSED" /\ mpc' = "pid" /\ Draw("number", invis) /\ UNCHANGED row
    <3>1. [gwRows[row] EXCEPT !.hidden = IF invis THEN @ \cup {"number"} ELSE @]
            = PartOf(Slots[row], StillOn(row), "pid")
      BY <1>f, <2>1
    <3>2. gwRows' = [gwRows EXCEPT ![row] = PartOf(Slots[row], StillOn(row), "pid")]
      BY <2>3, <3>1 DEF Draw
    <3>3. /\ gwRows'[row] = PartOf(Slots[row], StillOn(row), "pid")
          /\ \A i \in 1 .. Len(Slots) : i # row => gwRows'[i] = gwRows[i]
      BY <1>a, <2>1, <3>2
    <3>4. \A i \in 1 .. Len(Slots) :
            /\ i < row => gwRows'[i] = Shown(Slots[i], StillOn(i))
            /\ i > row => gwRows'[i] = Blank
      BY <2>1, <3>3
    <3> QED
      BY <1>b, <2>1, <2>3, <3>3, <3>4 DEF RowsSoFar, State
  <2> QED
    BY <1>3, <2>2, <2>3 DEF GwRow
<1>4. CASE GwEnd
  <2>1. row = Len(Slots) + 1
    BY <1>4, <1>a DEF GwEnd, InWindow
  <2> QED
    BY <1>4, <1>b, <2>1 DEF GwEnd, RowsSoFar
\* An action that writes to the row it is at, and to no other.
<1>c. ASSUME mpc \in RowPlaces, mpc' \in RowPlaces, mpc' # "pid",
             row' = row, noHead' = noHead,
             gwRows' = [gwRows EXCEPT ![row] = PartOf(Slots[row], StillOn(row), mpc')],
             mpc' \in {"state", "off"} => invis' = (StillOn(row) \/ State = "GW_IDLE"),
             mpc' \in {"counters", "client"} =>
               invis' = (StillOn(row) /\ State # "GW_IDLE")
      PROVE  RowsSoFar'
  <2>1. row \in 1 .. Len(Slots) /\ table[Slots[row]].state # "GW_UNUSED" /\ noHead = leftOn
    BY <1>a, <1>c DEF InWindow, RowsSoFar
  <2>2. /\ gwRows'[row] = PartOf(Slots[row], StillOn(row), mpc')
        /\ \A i \in 1 .. Len(Slots) : i # row => gwRows'[i] = gwRows[i]
    BY <1>a, <1>c, <2>1
  <2>3. \A i \in 1 .. Len(Slots) : /\ i < row => gwRows[i] = Shown(Slots[i], StillOn(i))
                                   /\ i > row => gwRows[i] = Blank
    BY <1>c DEF RowsSoFar
  <2>4. \A i \in 1 .. Len(Slots) : /\ i < row => gwRows'[i] = Shown(Slots[i], StillOn(i))
                                   /\ i > row => gwRows'[i] = Blank
    BY <2>1, <2>2, <2>3
  <2> QED
    BY <1>b, <1>c, <2>1, <2>2, <2>4 DEF RowsSoFar, State
<1>d. ASSUME mpc \in RowPlaces
      PROVE  /\ row \in 1 .. Len(Slots) /\ gwRows[row] \in Drawn
             /\ State = table[Slots[row]].state
             /\ gwRows[row] = PartOf(Slots[row], StillOn(row), mpc)
             /\ mpc = "pid" => invis = StillOn(row)
             /\ mpc \in {"state", "off"} => invis = (StillOn(row) \/ State = "GW_IDLE")
             /\ mpc \in {"counters", "client"} =>
                  invis = (StillOn(row) /\ State # "GW_IDLE")
             /\ StillOn(row) \in BOOLEAN /\ noHead = leftOn
             /\ \A i \in 1 .. Len(Slots) :
                  /\ i < row => gwRows[i] = Shown(Slots[i], StillOn(i))
                  /\ i > row => gwRows[i] = Blank
  <2>1. row \in 1 .. Len(Slots)
    BY <1>a, <1>d DEF InWindow
  <2> QED
    BY <1>a, <1>d, <1>e, <2>1 DEF RowsSoFar, State
<1>5. CASE GwPid
  <2>1. /\ mpc = "pid" /\ mpc' = "state" /\ row' = row /\ noHead' = noHead
        /\ invis' = (StillOn(row) \/ State = "GW_IDLE")
    BY <1>5, <1>d DEF GwPid, InvisOn
  <2>2. gwRows[row] = PartOf(Slots[row], StillOn(row), "pid")
    BY <1>d, <2>1
  <2>3. [gwRows[row] EXCEPT !.hidden = IF invis' THEN @ \cup {"pid"} ELSE @]
          = PartOf(Slots[row], StillOn(row), "state")
    BY <1>f, <2>1, <2>2
  <2>4. gwRows' = [gwRows EXCEPT ![row] = PartOf(Slots[row], StillOn(row), "state")]
    BY <1>5, <2>3 DEF GwPid, Draw
  <2> QED
    BY <1>c, <2>1, <2>4
<1>6. CASE GwUnhide
  <2>1. /\ mpc = "state" /\ mpc' = "counters" /\ row' = row /\ noHead' = noHead
        /\ invis' = (StillOn(row) /\ State # "GW_IDLE")
        /\ gwRows' = gwRows
    BY <1>6, <1>d DEF GwUnhide, InvisOff
  <2>2. gwRows[row] = PartOf(Slots[row], StillOn(row), "state")
    BY <1>d, <2>1
  <2>3. gwRows[row] = PartOf(Slots[row], StillOn(row), "counters")
    BY <2>2 DEF PartOf, Before
  <2>4. gwRows' = [gwRows EXCEPT ![row] = PartOf(Slots[row], StillOn(row), "counters")]
    BY <1>a, <1>d, <2>1, <2>3
  <2> QED
    BY <1>c, <2>1, <2>4
<1>7. CASE GwCounters
  <2>1. /\ mpc = "counters" /\ mpc' = "client" /\ row' = row /\ noHead' = noHead
        /\ invis' = (StillOn(row) /\ State # "GW_IDLE") /\ invis' = invis
    BY <1>7, <1>d DEF GwCounters
  <2>2. gwRows[row] = PartOf(Slots[row], StillOn(row), "counters")
    BY <1>d, <2>1
  <2>3. [state |-> State,
         hidden |-> IF invis THEN gwRows[row].hidden \cup {"counters"}
                    ELSE gwRows[row].hidden]
          = PartOf(Slots[row], StillOn(row), "client")
    <3>1. invis = (StillOn(row) /\ State # "GW_IDLE")
      BY <2>1
    <3>2. CASE invis
      BY <1>f, <2>2, <3>1, <3>2, Zenon
    <3>3. CASE ~invis
      BY <1>f, <2>2, <3>1, <3>3, Zenon
    <3> QED
      BY <3>2, <3>3
  <2>4. gwRows' = [gwRows EXCEPT ![row] = PartOf(Slots[row], StillOn(row), "client")]
    BY <1>7, <2>3 DEF GwCounters
  <2> QED
    BY <1>c, <2>1, <2>4
<1>8. CASE GwClient
  <2>1. /\ mpc = "client" /\ mpc' = "off" /\ row' = row /\ noHead' = noHead
        /\ invis' = (StillOn(row) \/ State = "GW_IDLE")
    BY <1>8, <1>d DEF GwClient, InvisOn
  <2>2. gwRows[row] = PartOf(Slots[row], StillOn(row), "client")
    BY <1>d, <2>1
  <2>3. [gwRows[row] EXCEPT !.hidden = IF invis' THEN @ \cup {"client"} ELSE @]
          = PartOf(Slots[row], StillOn(row), "off")
    BY <1>f, <2>1, <2>2
  <2>4. gwRows' = [gwRows EXCEPT ![row] = PartOf(Slots[row], StillOn(row), "off")]
    BY <1>8, <2>3 DEF GwClient, Draw
  <2> QED
    BY <1>c, <2>1, <2>4
<1>9. CASE GwOff
  <2>1. /\ mpc = "off" /\ mpc' = "gwRow" /\ row' = row + 1 /\ noHead' = noHead
        /\ invis' = (StillOn(row) /\ State # "GW_IDLE")
        /\ gwRows' = gwRows
    BY <1>9, <1>d DEF GwOff, InvisOff
  <2>2. gwRows[row] = Shown(Slots[row], StillOn(row)) /\ row \in 1 .. Len(Slots)
    <3>1. Hidden(Slots[row], StillOn(row)) \cap Part = Hidden(Slots[row], StillOn(row))
      BY DEF Hidden
    <3>2. table[Slots[row]].state # "GW_UNUSED"
      BY <2>1 DEF RowsSoFar
    <3> QED
      BY <1>d, <2>1, <3>1, <3>2 DEF PartOf, Before, Shown
  <2>3. \A i \in 1 .. Len(Slots) : (i < row + 1 => i < row \/ i = row)
                                   /\ (i >= row + 1 => i > row)
    BY <2>2
  <2>4. \A i \in 1 .. Len(Slots) :
          /\ i < row + 1 => gwRows[i] = Shown(Slots[i], StillOn(i))
          /\ i >= row + 1 => gwRows[i] = Blank
    BY <1>d, <2>1, <2>2, <2>3
  <2>5. invis' = StillOn(row + 1) /\ noHead' = leftOn
    <3>0. row \in Nat \ {0} /\ State = table[Slots[row]].state
      BY <1>a, <1>d, <2>1
    <3>1. StillOn(row + 1) = (StillOn(row) /\ State # "GW_IDLE")
      BY <3>0, StillOnNext
    <3> QED
      BY <1>d, <2>1, <3>1
  <2> QED
    BY <1>b, <2>1, <2>4, <2>5 DEF RowsSoFar
<1>10. CASE Again \/ Quit
  BY <1>10, <1>b DEF Again, Quit, RowsSoFar
<1> QED
  BY <1>1, <1>2, <1>3, <1>4, <1>5, <1>6, <1>7, <1>8, <1>9, <1>10
  DEF Refresh, DrawTitle

LEMMA QuietStep ==
    BlockTyped /\ ScreenInv /\ QuietInv /\ [MNext]_allvars => QuietInv'
<1> SUFFICES ASSUME BlockTyped, ScreenInv, QuietInv, [MNext]_allvars, quiet'
             PROVE  (HostsSoFar /\ RowsSoFar)'
  BY DEF QuietInv
<1>1. CASE Monitor
  <2>1. CASE mpc = "refresh"
    <3>1. DrawTitle
      BY <1>1, <2>1 DEF Monitor, Refresh, AciName, AciColour, AciRow, AciUnmark,
           GwHeading, GwRow, GwEnd, GwPid, GwUnhide, GwCounters, GwClient, GwOff,
           Again, Quit
    <3> QED
      BY <1>1, <2>1, <3>1, QuietStart DEF Monitor
  <2>2. CASE mpc # "refresh"
    BY <1>1, <2>2, HostsKept, RowsKept DEF Monitor, QuietInv
  <2> QED
    BY <2>1, <2>2
<1>2. CASE Write
  BY <1>2 DEF Write
<1>3. CASE UNCHANGED allvars
  <2>1. UNCHANGED <<mvars, quiet, leftOn, table, aciState, hostIdx, aciHost>>
    BY <1>3 DEF allvars, histories, writers, tvars, acivars
  <2>2. HostsSoFar /\ RowsSoFar
    BY <2>1 DEF QuietInv
  <2>3. HostsSoFar'
    BY <2>1, <2>2 DEF mvars, HostsSoFar, MarkOf
  <2>4. RowsSoFar'
    BY <2>1, <2>2 DEF mvars, RowsSoFar, PartOf, Shown, Hidden, StillOn
  <2> QED
    BY <2>3, <2>4
<1> QED
  BY <1>1, <1>2, <1>3 DEF MNext

\* A complete, undisturbed pass over the hosts draws them all.
LEMMA AllHostsDrawn ==
    ASSUME ScreenInv, HostsSoFar, mpc = "wait"
    PROVE  HostsShown
<1> DEFINE Used == {s \in CmsSlot : \A t \in 0 .. s : aciHost[t].name # "free"}
           n == Len(marks)
<1>1. n \in 0 .. CmsSlots /\ CmsSlots \in Nat \ {0}
  BY AciAssumption DEF ScreenInv, ScreenTyped, InWindow
<1>2. /\ title = <<aciState, hostIdx>>
      /\ \A i \in 1 .. n : aciHost[i - 1].name # "free" /\ marks[i] = MarkOf(i - 1)
      /\ n = CmsSlots \/ (n \in CmsSlot /\ aciHost[n].name = "free")
  <2>1. mpc \in AfterHosts /\ mpc # "refresh"
    BY DEF AfterHosts
  <2>2. title = <<aciState, hostIdx>>
    BY <2>1 DEF HostsSoFar
  <2>3. \A i \in 1 .. n : aciHost[i - 1].name # "free" /\ marks[i] = MarkOf(i - 1)
    BY <2>1 DEF HostsSoFar
  <2>4. n = CmsSlots \/ (n \in CmsSlot /\ aciHost[n].name = "free")
    BY <2>1 DEF HostsSoFar
  <2> QED
    BY <2>2, <2>3, <2>4
<1>3. Used = 0 .. n - 1
  <2>1. ASSUME NEW s \in Used PROVE s \in 0 .. n - 1
    BY <1>1, <1>2 DEF CmsSlot
  <2>2. ASSUME NEW s \in 0 .. n - 1 PROVE s \in Used
    <3>1. s \in CmsSlot
      BY <1>1 DEF CmsSlot
    <3>2. ASSUME NEW t \in 0 .. s PROVE aciHost[t].name # "free"
      <4>1. t + 1 \in 1 .. n /\ (t + 1) - 1 = t
        BY <1>1
      <4> QED
        BY <1>2, <4>1
    <3> QED
      BY <3>1, <3>2
  <2> QED
    BY <2>1, <2>2
<1>4. Cardinality(Used) = n
  <2> HIDE DEF n, Used
  <2>1. 0 \in Int /\ n - 1 \in Int /\ n \in Nat
    BY <1>1
  <2>2. Cardinality(0 .. n - 1) = IF 0 > n - 1 THEN 0 ELSE (n - 1) - 0 + 1
    BY <2>1, FS_Interval
  <2>3. Cardinality(0 .. n - 1) = n
    BY <2>1, <2>2
  <2> QED
    BY <1>3, <2>3
<1>5. ASSUME NEW s \in Used PROVE marks[s + 1] = MarkOf(s)
  <2>1. s + 1 \in 1 .. n /\ (s + 1) - 1 = s
    BY <1>1, <1>3
  <2> QED
    BY <1>2, <2>1
<1> QED
  BY <1>2, <1>4, <1>5 DEF HostsShown, MarkOf

\* A refresh nobody wrote during draws both tables as they are, whatever earlier
\* refreshes have left on: if that is A_INVIS, the headings and the rows down to the
\* number of the first idle one are hidden, and nothing after that.
THEOREM QuietRefreshShows == MSpec => []QuietRefresh
<1>1. ScreenInv /\ QuietInv => QuietRefresh
  <2> SUFFICES ASSUME ScreenInv, QuietInv, mpc = "wait", quiet
               PROVE  /\ HostsShown /\ noHead = leftOn
                      /\ \A i \in 1 .. Len(Slots) :
                           gwRows[i] = Shown(Slots[i], StillOn(i))
    BY DEF QuietRefresh
  <2>1. HostsSoFar /\ RowsSoFar
    BY DEF QuietInv
  <2>2. noHead = leftOn /\ \A i \in 1 .. Len(Slots) : i < Len(Slots) + 1
    BY <2>1, MonitorAssumption DEF RowsSoFar
  <2> QED
    BY <2>1, <2>2, AllHostsDrawn DEF RowsSoFar
<1>2. MInit => AciInv /\ QuietInv
  BY AciInvInit DEF MInit, QuietInv
<1>3. AciInv => AciTypeOK
  BY DEF AciInv
<1> QED
  BY <1>1, <1>2, <1>3, AciInvKept, BlockInit, BlockStep, ScreenInit, ScreenStep,
     QuietStep, PTL DEF MSpec
=============================================================================
