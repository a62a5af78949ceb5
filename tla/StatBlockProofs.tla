--------------------------- MODULE StatBlockProofs ---------------------------
(***************************************************************************)
(* Theorems about StatBlock, for every set of processes and callsigns,     *)
(* every table size and every way the constants may be set.                *)
(***************************************************************************)
EXTENDS StatBlock, FiniteSetTheorems, TLAPS

(* ---- the updates ------------------------------------------------------ *)

LEMMA FollowType == \A o \in Op : Follow(o) \subseteq Op \cup End
BY DEF Follow, Flow, Op, End

LEMMA PutType ==
    ASSUME NEW o \in Op, NEW p \in Proc, NEW n \in Nat, NEW r \in Row
    PROVE  Put(o, p, n, r) \in Row
<1>1. p \in Holder
  BY DEF Holder
<1> QED
  BY <1>1 DEF Put, Op, Row, GwState

LEMMA GetType ==
    ASSUME NEW o \in Op, NEW r \in Row
    PROVE  Get(o, r) \in Nat
BY DEF Get, Row

LEMMA NewRowType ==
    /\ NewRow("zero", "zero", "GW_UNUSED") \in Row
    /\ NewRow("none", "zero", "GW_UNUSED") \in Row
    /\ NewRow("old", "old", "GW_IDLE") \in Row
BY DEF NewRow, Row, Holder, GwState

LEMMA ClearedType == ASSUME NEW r \in Row PROVE Cleared(r) \in Row
BY DEF Cleared, Row, Holder, GwState

(* ---- type correctness -------------------------------------------------- *)

PC == {"start"} \cup AttachPC \cup UpdatePC \cup End

LEMMA FinishType ==
    ASSUME TypeOK, NEW p \in Proc, Finish(p)
    PROVE  /\ pc' \in [Proc -> PC]
           /\ op' \in [Proc -> Op]
           /\ idx' \in [Proc -> 0 .. NSlot + 1]
           /\ reg' \in [Proc -> Nat]
           /\ pc'[p] \in {"probe"} \cup End /\ idx'[p] = 1
           /\ \A q \in Proc \ {p} : pc'[q] = pc[q] /\ idx'[q] = idx[q]
<1>1. PICK o \in Follow(op[p]) :
        /\ pc' = [pc EXCEPT ![p] = IF o \in End THEN o ELSE "probe"]
        /\ op' = [op EXCEPT ![p] = IF o \in End THEN @ ELSE o]
        /\ idx' = [idx EXCEPT ![p] = FirstSlot]
        /\ reg' = [reg EXCEPT ![p] = 0]
  BY DEF Finish
<1>2. o \in Op \cup End
  BY FollowType DEF TypeOK, ProcessType
<1>3. FirstSlot \in 0 .. NSlot + 1
  BY SlotAssumption DEF FirstSlot
<1> QED
  BY <1>1, <1>2, <1>3 DEF TypeOK, ProcessType, UpdatePC, FirstSlot, PC

LEMMA FinishIndex ==
    ASSUME TypeOK, NEW p \in Proc, Finish(p)
    PROVE  IndexInTable'
BY FinishType, SlotAssumption
DEF TypeOK, IndexInTable, Slot, UpdatePC, End

LEMMA TypeInit == Init => TypeOK
<1> SUFFICES ASSUME Init PROVE TypeOK
  OBVIOUS
<1>1. gwcall \in [Slot -> Part \X Part]
  <2>1. NoCall \in Part \X Part
    BY DEF NoCall, Part
  <2>2. \A c \in Call \cup {NoCall} : c \in Part \X Part
    BY <2>1, CallAssumption DEF Part
  <2> QED
    BY <2>1, <2>2, BootAssumption DEF Init
<1>2. row \in [Slot -> Row]
  BY NewRowType DEF Init
<1>3. MemoryType
  BY <1>1, <1>2, BootAssumption DEF Init, MemoryType
<1>4. ProcessType
  BY SlotAssumption DEF Init, ProcessType, Op
<1>5. IndexInTable
  BY DEF Init, IndexInTable, UpdatePC
<1> QED
  BY <1>3, <1>4, <1>5 DEF TypeOK

LEMMA MemoryTypeStep == TypeOK /\ [Next]_vars => MemoryType'
<1> SUFFICES ASSUME TypeOK, [Next]_vars PROVE MemoryType'
  OBVIOUS
<1>1. MemoryType
  BY DEF TypeOK
<1>2. ASSUME NEW p \in Proc,
             \/ ShmGet(p) \/ CheckMagic(p) \/ Probe(p) \/ Compare(p)
             \/ LoadCounter(p) \/ Kill(p)
      PROVE  MemoryType'
  BY <1>1, <1>2 DEF MemoryType, ShmGet, CheckMagic, Probe, Compare, LoadCounter,
                    Kill, shared
<1>3. ASSUME NEW p \in Proc, ShmCreate(p) PROVE MemoryType'
  BY <1>1, <1>3 DEF MemoryType, ShmCreate
<1>4. ASSUME NEW p \in Proc, Wipe(p) PROVE MemoryType'
  <2>1. NoCall \in Part \X Part
    BY DEF NoCall, Part
  <2> QED
    BY <1>1, <1>4, <2>1, NewRowType DEF MemoryType, Wipe
<1>5. ASSUME NEW p \in Proc, Sign(p) PROVE MemoryType'
  BY <1>1, <1>5 DEF MemoryType, Sign
<1>6. ASSUME NEW p \in Proc, InitRow(p) PROVE MemoryType'
  <2>1. row' \in [Slot -> Row]
    BY <1>1, <1>6, ClearedType DEF MemoryType, InitRow
  <2> QED
    BY <1>1, <1>6, <2>1 DEF MemoryType, InitRow
<1>7. ASSUME NEW p \in Proc, Claim(p) \/ ClaimTail(p) PROVE MemoryType'
  <2>1. \A s \in Slot : /\ <<callOf[p][1], gwcall[s][2]>> \in Part \X Part
                        /\ <<gwcall[s][1], callOf[p][2]>> \in Part \X Part
    <3>1. callOf[p] \in Part \X Part
      BY CallAssumption DEF Part
    <3>2. \A s \in Slot : gwcall[s] \in Part \X Part
      BY <1>1 DEF MemoryType
    <3> QED
      BY <3>1, <3>2
  <2>2. gwcall' \in [Slot -> Part \X Part]
    <3>1. CASE Claim(p)
      BY <1>1, <2>1, <3>1 DEF MemoryType, Claim
    <3>2. CASE ClaimTail(p)
      BY <1>1, <2>1, <3>2 DEF MemoryType, ClaimTail
    <3> QED
      BY <1>7, <3>1, <3>2
  <2> QED
    BY <1>1, <1>7, <2>2 DEF MemoryType, Claim, ClaimTail
<1>8. ASSUME NEW p \in Proc, Assign(p) PROVE MemoryType'
  <2>1. row' \in [Slot -> Row]
    BY <1>1, <1>8, PutType DEF MemoryType, TypeOK, ProcessType, Assign
  <2> QED
    BY <1>1, <1>8, <2>1 DEF MemoryType, Assign
<1>9. ASSUME NEW p \in Proc, StoreCounter(p) PROVE MemoryType'
  <2>1. reg[p] + 1 \in Nat
    BY DEF TypeOK, ProcessType
  <2>2. row' \in [Slot -> Row]
    BY <1>1, <1>9, <2>1, PutType DEF MemoryType, TypeOK, ProcessType, StoreCounter
  <2>3. credit' \in [Slot -> SUBSET Proc]
    BY <1>1, <1>9 DEF MemoryType, StoreCounter
  <2> QED
    BY <1>1, <1>9, <2>2, <2>3 DEF MemoryType, StoreCounter
<1>10. CASE UNCHANGED vars
  BY <1>1, <1>10 DEF MemoryType, vars
<1> QED
  BY <1>2, <1>3, <1>4, <1>5, <1>6, <1>7, <1>8, <1>9, <1>10 DEF Next, Step

LEMMA ProcessTypeStep == TypeOK /\ [Next]_vars => ProcessType' /\ IndexInTable'
<1> SUFFICES ASSUME TypeOK, [Next]_vars PROVE ProcessType' /\ IndexInTable'
  OBVIOUS
<1> USE SlotAssumption DEF Slot
<1>1. ProcessType /\ IndexInTable
  BY DEF TypeOK
<1>2. ASSUME NEW p \in Proc, ShmGet(p) PROVE ProcessType' /\ IndexInTable'
  BY <1>1, <1>2 DEF ProcessType, IndexInTable, ShmGet, Attached, FirstSlot,
                    AttachPC, UpdatePC
<1>3. ASSUME NEW p \in Proc, ShmCreate(p) PROVE ProcessType' /\ IndexInTable'
  BY <1>1, <1>3 DEF ProcessType, IndexInTable, ShmCreate, AttachPC, UpdatePC
<1>4. ASSUME NEW p \in Proc, CheckMagic(p) PROVE ProcessType' /\ IndexInTable'
  BY <1>1, <1>4 DEF ProcessType, IndexInTable, CheckMagic, Attached, FirstSlot,
                    AttachPC, UpdatePC
<1>5. ASSUME NEW p \in Proc, Wipe(p) PROVE ProcessType' /\ IndexInTable'
  BY <1>1, <1>5 DEF ProcessType, IndexInTable, Wipe, AttachPC, UpdatePC
<1>6. ASSUME NEW p \in Proc, Sign(p) PROVE ProcessType' /\ IndexInTable'
  BY <1>1, <1>6 DEF ProcessType, IndexInTable, Sign, AttachPC, UpdatePC
<1>7. ASSUME NEW p \in Proc, InitRow(p) PROVE ProcessType' /\ IndexInTable'
  BY <1>1, <1>7 DEF ProcessType, IndexInTable, InitRow, Attached, FirstSlot,
                    AttachPC, UpdatePC
<1>8. ASSUME NEW p \in Proc, Probe(p) PROVE ProcessType' /\ IndexInTable'
  <2>1. CASE PastTable(idx[p])
    BY <1>1, <1>8, <2>1, FinishType, FinishIndex DEF ProcessType, Probe, PC
  <2>2. CASE ~PastTable(idx[p])
    BY <1>1, <1>8, <2>2 DEF ProcessType, IndexInTable, Probe, PastTable,
                            AttachPC, UpdatePC
  <2> QED
    BY <2>1, <2>2
<1>9. ASSUME NEW p \in Proc, Claim(p) \/ ClaimTail(p)
      PROVE  ProcessType' /\ IndexInTable'
  BY <1>1, <1>9 DEF ProcessType, IndexInTable, Claim, ClaimTail, AttachPC, UpdatePC
<1>10. ASSUME NEW p \in Proc, Compare(p) PROVE ProcessType' /\ IndexInTable'
  BY <1>1, <1>10 DEF ProcessType, IndexInTable, Compare, AttachPC, UpdatePC
<1>11. ASSUME NEW p \in Proc, Assign(p) \/ StoreCounter(p)
       PROVE  ProcessType' /\ IndexInTable'
  <2>1. Finish(p) /\ doinit' = doinit
    BY <1>11 DEF Assign, StoreCounter
  <2> QED
    BY <1>1, <2>1, FinishType, FinishIndex DEF ProcessType, PC
<1>12. ASSUME NEW p \in Proc, LoadCounter(p) PROVE ProcessType' /\ IndexInTable'
  <2>1. idx[p] \in Slot
    BY <1>1, <1>12 DEF IndexInTable, LoadCounter, UpdatePC
  <2>2. Get(op[p], row[idx[p]]) \in Nat
    BY <1>1, <2>1, GetType DEF TypeOK, MemoryType, ProcessType
  <2> QED
    BY <1>1, <1>12, <2>1, <2>2 DEF ProcessType, IndexInTable, LoadCounter,
                                  AttachPC, UpdatePC
<1>13. ASSUME NEW p \in Proc, Kill(p) PROVE ProcessType' /\ IndexInTable'
  BY <1>1, <1>13 DEF ProcessType, IndexInTable, Kill, FirstSlot, End, UpdatePC
<1>14. CASE UNCHANGED vars
  BY <1>1, <1>14 DEF ProcessType, IndexInTable, vars
<1> QED
  BY <1>2, <1>3, <1>4, <1>5, <1>6, <1>7, <1>8, <1>9, <1>10, <1>11, <1>12,
     <1>13, <1>14 DEF Next, Step

\* Every variable keeps its type and every table index its range, for any
\* number of processes, slots and callsigns.
THEOREM TypeCorrect == Spec => []TypeOK
<1>1. TypeOK /\ [Next]_vars => TypeOK'
  BY MemoryTypeStep, ProcessTypeStep DEF TypeOK
<1> QED
  BY <1>1, TypeInit, PTL DEF Spec
(* ---- gw_connects never overcounts -------------------------------------- *)

\* The updates a process makes before its connection has been counted.
Early == {"pid", "running", "connects"}
Uncounted(p) == op[p] \in Early /\ pc[p] \notin End

(***************************************************************************)
(* NoOvercount alone is not inductive: a process between the load and the  *)
(* store of its ++ carries a value that must not exceed the credits of the *)
(* slot it read, and it must not have been credited before.                *)
(***************************************************************************)
CountInv ==
    /\ NoOvercount
    /\ \A p \in Proc : Uncounted(p) => \A s \in Slot : p \notin credit[s]
    /\ \A p \in Proc : pc[p] = "store" /\ op[p] = "connects"
                         => reg[p] <= Cardinality(credit[idx[p]])

LEMMA FollowEarly ==
    \A o \in Op : /\ o \notin {"pid", "running"} => Follow(o) \cap Early = {}
                  /\ o \in {"pid", "running"} => Follow(o) \cap End = {}
BY DEF Follow, Flow, Op, End, Early

LEMMA CreditSize ==
    ASSUME TypeOK, NEW s \in Slot
    PROVE  /\ Cardinality(credit[s]) \in Nat
           /\ \A p \in Proc : p \notin credit[s] =>
                Cardinality(credit[s] \cup {p}) = Cardinality(credit[s]) + 1
<1>1. credit[s] \subseteq Proc
  BY DEF TypeOK, MemoryType
<1>2. IsFiniteSet(credit[s])
  BY <1>1, ProcAssumption, FS_Subset
<1> QED
  BY <1>2, FS_CardinalityType, FS_AddElement

\* Finishing an update never returns a process to the early ones.
LEMMA FinishCount ==
    ASSUME TypeOK, NEW p \in Proc, Finish(p)
    PROVE  /\ Uncounted(p)' => op[p] \in Early
           /\ op[p] = "connects" => ~Uncounted(p)'
           /\ pc'[p] # "store"
           /\ \A q \in Proc \ {p} : op'[q] = op[q] /\ pc'[q] = pc[q]
                                    /\ idx'[q] = idx[q] /\ reg'[q] = reg[q]
<1>1. PICK o \in Follow(op[p]) :
        /\ pc' = [pc EXCEPT ![p] = IF o \in End THEN o ELSE "probe"]
        /\ op' = [op EXCEPT ![p] = IF o \in End THEN @ ELSE o]
        /\ idx' = [idx EXCEPT ![p] = FirstSlot]
        /\ reg' = [reg EXCEPT ![p] = 0]
  BY DEF Finish
<1>2. op[p] \in Op /\ (o \in Early => op[p] \in Early)
  BY FollowEarly DEF TypeOK, ProcessType, Early
<1>3. op[p] = "connects" => o \notin Early
  BY <1>2, FollowEarly DEF Early
<1> QED
  BY <1>1, <1>2, <1>3 DEF TypeOK, ProcessType, End, Uncounted

LEMMA CountInit == Init => CountInv
<1> SUFFICES ASSUME Init PROVE CountInv
  OBVIOUS
<1>1. \A s \in Slot : row[s].connects = 0 /\ credit[s] = {}
  BY DEF Init, NewRow
<1>2. NoOvercount
  BY <1>1, FS_EmptySet DEF NoOvercount
<1> QED
  BY <1>1, <1>2 DEF CountInv, Init

\* No step but that of its own count changes whether a process is counted.
LEMMA UncountedStays ==
    ASSUME TypeOK, NEW p \in Proc, pc[p] \notin End,
           \/ op' = op /\ \A q \in Proc \ {p} : pc'[q] = pc[q]
           \/ Finish(p)
    PROVE  \A q \in Proc : Uncounted(q)' => Uncounted(q)
<1>1. CASE op' = op /\ \A q \in Proc \ {p} : pc'[q] = pc[q]
  BY <1>1 DEF Uncounted
<1>2. CASE Finish(p)
  BY <1>2, FinishCount DEF Uncounted
<1> QED
  BY <1>1, <1>2

LEMMA CountStep == TypeOK /\ CountInv /\ [Next]_vars => CountInv'
<1> SUFFICES ASSUME TypeOK, CountInv, [Next]_vars PROVE CountInv'
  OBVIOUS
<1>1. ASSUME NEW p \in Proc,
             \/ ShmGet(p) \/ ShmCreate(p) \/ CheckMagic(p) \/ Sign(p)
             \/ Claim(p) \/ ClaimTail(p) \/ Compare(p) \/ Kill(p)
      PROVE  CountInv'
  <2>1. row' = row /\ credit' = credit /\ op' = op
    BY <1>1 DEF ShmGet, ShmCreate, CheckMagic, Sign, Claim, ClaimTail, Compare,
                Kill, shared
  <2>2. \A q \in Proc : pc'[q] = "store" =>
                          pc[q] = "store" /\ idx'[q] = idx[q] /\ reg'[q] = reg[q]
    BY <1>1 DEF ShmGet, ShmCreate, CheckMagic, Sign, Claim, ClaimTail, Compare,
                Kill, Attached, shared, TypeOK, ProcessType
  <2>3. pc[p] \notin End /\ \A q \in Proc \ {p} : pc'[q] = pc[q]
    <3>1. CASE ShmGet(p) \/ ShmCreate(p) \/ CheckMagic(p) \/ Sign(p)
      BY <3>1 DEF ShmGet, ShmCreate, CheckMagic, Sign, Attached, End, TypeOK, ProcessType
    <3>2. CASE Claim(p) \/ ClaimTail(p) \/ Compare(p)
      BY <3>2 DEF Claim, ClaimTail, Compare, End, TypeOK, ProcessType
    <3>3. CASE Kill(p)
      BY <3>3 DEF Kill, Live, AttachPC, UpdatePC, End, TypeOK, ProcessType
    <3> QED
      BY <1>1, <3>1, <3>2, <3>3
  <2> QED
    BY <2>1, <2>2, <2>3, UncountedStays DEF CountInv, NoOvercount
<1>2. ASSUME NEW p \in Proc, Wipe(p) \/ InitRow(p) PROVE CountInv'
  <2>1. credit' = credit /\ op' = op /\ reg' = reg
    BY <1>2 DEF Wipe, InitRow
  <2>2. \A s \in Slot : row'[s].connects \in {row[s].connects, 0}
    <3>1. CASE Wipe(p)
      <4>1. NewRow("zero", "zero", "GW_UNUSED").connects = 0
        BY DEF NewRow
      <4> QED
        BY <3>1, <4>1 DEF Wipe, TypeOK, MemoryType
    <3>2. CASE InitRow(p)
      <4>1. \A s \in Slot : Cleared(row[s]).connects = 0
        BY DEF Cleared, TypeOK, MemoryType, Row
      <4> QED
        BY <3>2, <4>1 DEF InitRow, TypeOK, MemoryType
    <3> QED
      BY <1>2, <3>1, <3>2
  <2>3. NoOvercount'
    <3>1. \A s \in Slot : 0 <= Cardinality(credit[s])
      BY CreditSize
    <3> QED
      BY <2>1, <2>2, <3>1 DEF CountInv, NoOvercount
  <2>4. \A q \in Proc : pc'[q] = "store" => pc[q] = "store" /\ idx'[q] = idx[q]
    BY <1>2 DEF Wipe, InitRow, Attached, TypeOK, ProcessType
  <2>5. pc[p] \notin End /\ \A q \in Proc \ {p} : pc'[q] = pc[q]
    BY <1>2 DEF Wipe, InitRow, Attached, End, TypeOK, ProcessType
  <2> QED
    BY <2>1, <2>3, <2>4, <2>5, UncountedStays DEF CountInv
<1>3. ASSUME NEW p \in Proc, Probe(p) PROVE CountInv'
  <2>1. row' = row /\ credit' = credit
    BY <1>3 DEF Probe, shared
  <2>2. CASE PastTable(idx[p])
    <3>1. Finish(p) /\ pc[p] \notin End
      BY <1>3, <2>2 DEF Probe, End
    <3> QED
      BY <2>1, <3>1, FinishCount, UncountedStays DEF CountInv, NoOvercount
  <2>3. CASE ~PastTable(idx[p])
    <3>1. op' = op /\ reg' = reg /\ idx' = idx
      BY <1>3, <2>3 DEF Probe
    <3>2. \A q \in Proc : pc'[q] = "store" => pc[q] = "store"
      BY <1>3, <2>3 DEF Probe, TypeOK, ProcessType
    <3>3. pc[p] \notin End /\ \A q \in Proc \ {p} : pc'[q] = pc[q]
      BY <1>3, <2>3 DEF Probe, End, TypeOK, ProcessType
    <3> QED
      BY <2>1, <3>1, <3>2, <3>3, UncountedStays DEF CountInv, NoOvercount
  <2> QED
    BY <2>2, <2>3
<1>4. ASSUME NEW p \in Proc, Assign(p) PROVE CountInv'
  <2>1. credit' = credit /\ Finish(p) /\ pc[p] \notin End
    BY <1>4 DEF Assign, End
  <2>2. \A s \in Slot : row'[s].connects = row[s].connects
    BY <1>4 DEF Assign, Put, Counter, TypeOK, MemoryType, ProcessType, Row, Op
  <2> QED
    BY <2>1, <2>2, FinishCount, UncountedStays DEF CountInv, NoOvercount
<1>5. ASSUME NEW p \in Proc, LoadCounter(p) PROVE CountInv'
  <2>1. row' = row /\ credit' = credit /\ op' = op /\ idx' = idx
    BY <1>5 DEF LoadCounter, shared
  <2>2. /\ pc' = [pc EXCEPT ![p] = "store"]
        /\ reg' = [reg EXCEPT ![p] = Get(op[p], row[idx[p]])]
    BY <1>5 DEF LoadCounter
  <2>3. idx[p] \in Slot
    BY <1>5 DEF LoadCounter, TypeOK, IndexInTable, UpdatePC
  <2>4. op[p] = "connects" => reg'[p] <= Cardinality(credit[idx[p]])
    BY <2>2, <2>3 DEF Get, CountInv, NoOvercount, TypeOK, ProcessType
  <2>5. pc[p] \notin End /\ \A q \in Proc \ {p} : pc'[q] = pc[q]
    BY <1>5 DEF LoadCounter, End, TypeOK, ProcessType
  <2>6. \A q \in Proc : Uncounted(q)' => Uncounted(q)
    BY <2>1, <2>5, UncountedStays
  <2> QED
    BY <2>1, <2>2, <2>4, <2>6 DEF CountInv, NoOvercount, TypeOK, ProcessType
<1>6. ASSUME NEW p \in Proc, StoreCounter(p) PROVE CountInv'
  <2>1. /\ idx[p] \in Slot /\ Finish(p) /\ pc[p] = "store" /\ reg[p] \in Nat
        /\ pc[p] \notin End
    BY <1>6 DEF End, StoreCounter, TypeOK, IndexInTable, ProcessType, UpdatePC
  <2>2. CASE op[p] # "connects"
    <3>1. credit' = credit
      BY <1>6, <2>2 DEF StoreCounter
    <3>2. \A s \in Slot : row'[s].connects = row[s].connects
      BY <1>6, <2>1, <2>2
      DEF StoreCounter, Put, TypeOK, MemoryType, ProcessType, Row, Op
    <3> QED
      BY <2>1, <3>1, <3>2, <2>2, FinishCount, UncountedStays DEF CountInv, NoOvercount
  <2>3. CASE op[p] = "connects"
    <3> DEFINE i == idx[p]
    <3>1. /\ credit' = [credit EXCEPT ![i] = @ \cup {p}]
          /\ row' = [row EXCEPT ![i] = Put("connects", p, reg[p] + 1, @)]
      BY <1>6, <2>3 DEF StoreCounter
    <3>2. p \notin credit[i] /\ reg[p] <= Cardinality(credit[i])
      BY <2>1, <2>3 DEF CountInv, Early, Uncounted
    <3>3. /\ Cardinality(credit[i]) \in Nat
          /\ Cardinality(credit[i] \cup {p}) = Cardinality(credit[i]) + 1
      BY <2>1, <3>2, CreditSize
    <3>4. /\ credit'[i] = credit[i] \cup {p}
          /\ \A s \in Slot \ {i} : credit'[s] = credit[s] /\ row'[s] = row[s]
      BY <2>1, <3>1 DEF TypeOK, MemoryType
    <3>5. row'[i].connects = reg[p] + 1
      BY <2>1, <3>1 DEF Put, TypeOK, MemoryType, Row
    <3>6. NoOvercount'
      <4>1. \A s \in Slot \ {i} : row'[s].connects <= Cardinality(credit'[s])
        BY <3>4 DEF NoOvercount, CountInv
      <4>2. row'[i].connects <= Cardinality(credit'[i])
        BY <2>1, <3>2, <3>3, <3>4, <3>5
      <4> QED
        BY <4>1, <4>2 DEF NoOvercount
    <3>7. \A q \in Proc : Uncounted(q)' => \A s \in Slot : q \notin credit'[s]
      BY <2>1, <2>3, <3>4, FinishCount, UncountedStays DEF CountInv
    <3>8. \A s \in Slot : Cardinality(credit[s]) <= Cardinality(credit'[s])
      <4>1. \A s \in Slot : Cardinality(credit[s]) \in Nat
        BY CreditSize
      <4>2. Cardinality(credit'[i]) = Cardinality(credit[i]) + 1
        BY <3>3, <3>4
      <4>3. \A s \in Slot \ {i} : Cardinality(credit'[s]) = Cardinality(credit[s])
        BY <3>4
      <4> QED
        BY <2>1, <4>1, <4>2, <4>3
    <3>9. \A q \in Proc : pc'[q] = "store" /\ op'[q] = "connects"
                            => reg'[q] <= Cardinality(credit'[idx'[q]])
      <4> SUFFICES ASSUME NEW q \in Proc, pc'[q] = "store", op'[q] = "connects"
                   PROVE  reg'[q] <= Cardinality(credit'[idx'[q]])
        OBVIOUS
      <4>1. q # p /\ pc[q] = "store" /\ op[q] = "connects"
            /\ idx'[q] = idx[q] /\ reg'[q] = reg[q]
        BY <2>1, FinishCount
      <4>2. idx[q] \in Slot /\ reg[q] \in Nat
        BY <4>1 DEF TypeOK, IndexInTable, ProcessType, UpdatePC
      <4>3. reg[q] <= Cardinality(credit[idx[q]])
        BY <4>1 DEF CountInv
      <4>4. /\ Cardinality(credit[idx[q]]) \in Nat
            /\ Cardinality(credit'[idx[q]]) \in Nat
        <5>1. \A s \in Slot : Cardinality(credit[s]) \in Nat
          BY CreditSize
        <5>2. Cardinality(credit'[i]) \in Nat
          BY <3>3, <3>4
        <5> QED
          BY <4>2, <3>4, <5>1, <5>2
      <4> QED
        BY <4>1, <4>2, <4>3, <4>4, <3>8
    <3> QED
      BY <3>6, <3>7, <3>9 DEF CountInv
  <2> QED
    BY <2>2, <2>3
<1>7. CASE UNCHANGED vars
  BY <1>7 DEF CountInv, NoOvercount, Uncounted, vars
<1> QED
  BY <1>1, <1>2, <1>3, <1>4, <1>5, <1>6, <1>7 DEF Next, Step

\* Whatever the number of processes, crashes and initialisers, gw_connects of a
\* slot is at most the number of processes that counted themselves in it.
THEOREM ConnectsBounded == Spec => []NoOvercount
<1>1. CountInv => NoOvercount
  BY DEF CountInv
<1> QED
  BY <1>1, CountInit, CountStep, TypeCorrect, PTL DEF Spec
(* ---- the table has no holes -------------------------------------------- *)

(***************************************************************************)
(* In a segment that existed before the first process no callsign cell is  *)
(* ever emptied, and every slot a search has passed is occupied; from the  *)
(* two it follows that a claim always takes the first vacant slot.         *)
(***************************************************************************)
HoleInv ==
    ~Fresh => /\ exists
              /\ \A p \in Proc : pc[p] \notin AttachPC
              /\ NoHoles
              /\ \A p \in Proc : pc[p] \in UpdatePC =>
                   \A t \in Slot : t < idx[p] => ~Vacant(gwcall[t])
              /\ \A p \in Proc : pc[p] = "compare" => ~Vacant(gwcall[idx[p]])

LEMMA HoleInit == Init => HoleInv
<1> SUFFICES ASSUME Init, ~Fresh
             PROVE  /\ exists
                    /\ \A p \in Proc : pc[p] \notin AttachPC /\ pc[p] \notin UpdatePC
                    /\ NoHoles
  BY DEF HoleInv, UpdatePC
<1>1. exists
  BY DEF Init
<1>2. \A p \in Proc : pc[p] \notin AttachPC /\ pc[p] \notin UpdatePC
  BY DEF Init, AttachPC, UpdatePC
<1>3. gwcall = Table0
  BY DEF Init
<1>4. NoHoles
  BY <1>3, BootAssumption DEF NoHoles
<1> QED
  BY <1>1, <1>2, <1>4

\* No step of a process that does not initialise the segment empties a cell.
LEMMA HoleStep == TypeOK /\ HoleInv /\ [Next]_vars => HoleInv'
<1> SUFFICES ASSUME TypeOK, HoleInv, [Next]_vars, ~Fresh PROVE HoleInv'
  BY DEF HoleInv
<1>a. /\ exists
      /\ \A p \in Proc : pc[p] \notin AttachPC
      /\ NoHoles
      /\ \A p \in Proc : pc[p] \in UpdatePC =>
           \A t \in Slot : t < idx[p] => ~Vacant(gwcall[t])
      /\ \A p \in Proc : pc[p] = "compare" => ~Vacant(gwcall[idx[p]])
  BY DEF HoleInv
<1>b. \A p \in Proc : pc[p] \in UpdatePC => idx[p] \in 1 .. NSlot + 1
  BY SlotAssumption DEF TypeOK, IndexInTable, Slot
<1>1. ASSUME NEW p \in Proc,
             \/ ShmCreate(p) \/ CheckMagic(p) \/ Wipe(p) \/ Sign(p) \/ InitRow(p)
      PROVE  FALSE
  BY <1>a, <1>1 DEF ShmCreate, CheckMagic, Wipe, Sign, InitRow, AttachPC
<1>2. ASSUME NEW p \in Proc, ShmGet(p) PROVE HoleInv'
  <2>1. Attached(p) /\ gwcall' = gwcall /\ exists' = exists
    BY <1>a, <1>2 DEF ShmGet, shared
  <2>2. \A t \in Slot : ~(t < 1)
    BY DEF Slot
  <2> QED
    BY <1>a, <2>1, <2>2
    DEF HoleInv, Attached, FirstSlot, NoHoles, TypeOK, ProcessType, AttachPC, UpdatePC
<1>3. ASSUME NEW p \in Proc, Finish(p), gwcall' = gwcall, exists' = exists
      PROVE  HoleInv'
  <2>1. /\ pc'[p] \in {"probe"} \cup End /\ idx'[p] = 1
        /\ \A q \in Proc \ {p} : pc'[q] = pc[q] /\ idx'[q] = idx[q]
    BY <1>3, FinishType
  <2>2. \A t \in Slot : ~(t < idx'[p])
    BY <2>1 DEF Slot
  <2> QED
    BY <1>a, <1>3, <2>1, <2>2 DEF HoleInv, NoHoles, AttachPC, UpdatePC, End
<1>4. ASSUME NEW p \in Proc, Probe(p) PROVE HoleInv'
  <2>1. gwcall' = gwcall /\ exists' = exists
    BY <1>4 DEF Probe, shared
  <2>2. CASE PastTable(idx[p])
    BY <1>3, <1>4, <2>1, <2>2 DEF Probe
  <2>3. CASE ~PastTable(idx[p])
    BY <1>a, <1>4, <2>1, <2>3
    DEF Probe, HoleInv, NoHoles, TypeOK, ProcessType, AttachPC, UpdatePC
  <2> QED
    BY <2>2, <2>3
<1>5. ASSUME NEW p \in Proc, Claim(p) PROVE HoleInv'
  <2>1. /\ idx[p] \in Slot /\ idx' = idx /\ exists' = exists
        /\ pc' = [pc EXCEPT ![p] = "tail"] /\ pc[p] \in UpdatePC
    BY <1>5 DEF Claim, TypeOK, IndexInTable, UpdatePC
  <2>2. callOf[p][1] # Nul
    BY CallAssumption
  <2>3. /\ ~Vacant(gwcall'[idx[p]])
        /\ \A t \in Slot \ {idx[p]} : gwcall'[t] = gwcall[t]
    BY <1>5, <2>1, <2>2 DEF Claim, Vacant, TypeOK, MemoryType
  <2>4. \A t \in Slot : t < idx[p] => ~Vacant(gwcall[t])
    BY <1>a, <2>1
  <2>5. \A t \in Slot : ~Vacant(gwcall[t]) => ~Vacant(gwcall'[t])
    BY <2>3
  <2>6. NoHoles'
    <3> SUFFICES ASSUME NEW s \in Slot, NEW t \in Slot, t < s, Vacant(gwcall'[t])
                 PROVE  Vacant(gwcall'[s])
      BY DEF NoHoles
    <3>1. t # idx[p] /\ Vacant(gwcall[t]) /\ Vacant(gwcall[s])
      BY <1>a, <2>3 DEF NoHoles
    <3>2. s # idx[p]
      BY <2>4, <3>1
    <3> QED
      BY <2>3, <3>1, <3>2
  <2>7. \A q \in Proc : /\ pc'[q] \in UpdatePC => pc[q] \in UpdatePC
                        /\ pc'[q] = "compare" => pc[q] = "compare"
                        /\ pc'[q] \notin AttachPC
    BY <1>a, <2>1 DEF TypeOK, ProcessType, UpdatePC, AttachPC
  <2>8. \A q \in Proc : pc'[q] = "compare" => ~Vacant(gwcall'[idx'[q]])
    BY <1>a, <2>1, <2>5, <2>7 DEF TypeOK, IndexInTable, UpdatePC
  <2> QED
    BY <1>a, <2>1, <2>5, <2>6, <2>7, <2>8 DEF HoleInv
<1>6. ASSUME NEW p \in Proc, ClaimTail(p) PROVE HoleInv'
  <2>1. /\ idx[p] \in Slot /\ idx' = idx /\ exists' = exists
        /\ pc' = [pc EXCEPT ![p] = "apply"]
    BY <1>6 DEF ClaimTail, TypeOK, IndexInTable, UpdatePC
  <2>2. \A t \in Slot : Vacant(gwcall'[t]) <=> Vacant(gwcall[t])
    BY <1>6, <2>1 DEF ClaimTail, Vacant, TypeOK, MemoryType
  <2>3. \A q \in Proc : /\ pc'[q] \in UpdatePC => pc[q] \in UpdatePC
                        /\ pc'[q] = "compare" => pc[q] = "compare" /\ idx[q] \in Slot
                        /\ pc'[q] \notin AttachPC
    BY <1>a, <1>6, <2>1
    DEF ClaimTail, TypeOK, ProcessType, IndexInTable, UpdatePC, AttachPC
  <2> QED
    BY <1>a, <2>1, <2>2, <2>3 DEF HoleInv, NoHoles
<1>7. ASSUME NEW p \in Proc, Compare(p) PROVE HoleInv'
  <2>1. /\ gwcall' = gwcall /\ exists' = exists
        /\ pc[p] = "compare" /\ idx[p] \in Slot
    BY <1>7 DEF Compare, shared, TypeOK, IndexInTable, UpdatePC
  <2>2. \A q \in Proc \ {p} : pc'[q] = pc[q] /\ idx'[q] = idx[q]
    BY <1>7 DEF Compare, TypeOK, ProcessType
  <2>3. pc'[p] \in {"apply", "probe"} /\ idx'[p] \in {idx[p], idx[p] + 1}
    BY <1>7 DEF Compare, TypeOK, ProcessType
  <2>4. \A t \in Slot : t < idx[p] + 1 => ~Vacant(gwcall[t])
    <3>1. \A t \in Slot : t < idx[p] + 1 => t < idx[p] \/ t = idx[p]
      BY <2>1 DEF Slot
    <3> QED
      BY <1>a, <2>1, <3>1 DEF UpdatePC
  <2>5. \A t \in Slot : t < idx'[p] => ~Vacant(gwcall[t])
    BY <1>a, <2>1, <2>3, <2>4 DEF UpdatePC
  <2> QED
    BY <1>a, <2>1, <2>2, <2>3, <2>5 DEF HoleInv, NoHoles, AttachPC, UpdatePC
<1>8. ASSUME NEW p \in Proc, Assign(p) \/ StoreCounter(p) PROVE HoleInv'
  BY <1>3, <1>8 DEF Assign, StoreCounter
<1>9. ASSUME NEW p \in Proc, LoadCounter(p) PROVE HoleInv'
  BY <1>a, <1>9
  DEF HoleInv, NoHoles, LoadCounter, shared, TypeOK, ProcessType, AttachPC, UpdatePC
<1>10. ASSUME NEW p \in Proc, Kill(p) PROVE HoleInv'
  BY <1>a, <1>10
  DEF HoleInv, NoHoles, Kill, shared, TypeOK, ProcessType, AttachPC, UpdatePC
<1>11. CASE UNCHANGED vars
  BY <1>a, <1>11 DEF HoleInv, NoHoles, vars
<1> QED
  BY <1>1, <1>2, <1>4, <1>5, <1>6, <1>7, <1>8, <1>9, <1>10, <1>11 DEF Next, Step

\* The gateway table of an existing segment never has a vacant slot before an
\* occupied one, however many processes search and claim at once.
THEOREM TableHasNoHoles == Spec => []NoHoles
<1>1. HoleInv => NoHoles
  BY DEF HoleInv, NoHoles
<1> QED
  BY <1>1, HoleInit, HoleStep, TypeCorrect, PTL DEF Spec

\* An update of a process is dropped only when no slot of the table is free.
THEOREM DropMeansFull == Spec => []DroppedOnlyWhenFull
<1>1. TypeOK /\ HoleInv => DroppedOnlyWhenFull
  <2> SUFFICES ASSUME TypeOK, HoleInv, ~Fresh, NEW p \in Proc, pc[p] = "probe",
                      PastTable(idx[p]), NEW s \in Slot
               PROVE  ~Vacant(gwcall[s])
    BY DEF DroppedOnlyWhenFull
  <2>1. s < idx[p]
    BY SlotAssumption DEF PastTable, TypeOK, ProcessType, Slot
  <2> QED
    BY <2>1 DEF HoleInv, UpdatePC
<1> QED
  BY <1>1, HoleInit, HoleStep, TypeCorrect, PTL DEF Spec

(***************************************************************************)
(* The unlocked status table implements the table with indivisible updates *)
(* once every callsign is registered and serves one client at a time.      *)
(***************************************************************************)

(* ---- where a search ends ----------------------------------------------- *)

LEMMA HomeProps ==
    ASSUME Registered, NEW c \in Call
    PROVE  Home(c) \in Slot /\ IsHome(Home(c), c)
BY DEF Registered, Home

LEMMA HomeInjective ==
    ASSUME Registered, NEW c \in Call, NEW d \in Call, Home(c) = Home(d)
    PROVE  c = d
BY HomeProps DEF IsHome

\* Below its home a search meets occupied slots that do not match; there it matches.
LEMMA HomeSearch ==
    ASSUME Registered, NEW c \in Call, NEW t \in Slot, t <= Home(c)
    PROVE  ~Vacant(Table0[t]) /\ (Matches(c, Table0[t]) <=> t = Home(c))
<1>1. Home(c) \in Slot /\ IsHome(Home(c), c)
  BY HomeProps
<1>2. c[1] # Nul
  BY CallAssumption
<1>3. CASE t = Home(c)
  BY <1>1, <1>2, <1>3 DEF IsHome, Vacant, Matches, IsPrefix
<1>4. CASE t < Home(c)
  <2>1. t \in 1 .. (Home(c) - 1)
    BY <1>1, <1>4 DEF Slot
  <2> QED
    BY <1>1, <1>4, <2>1 DEF IsHome, Matches
<1> QED
  BY <1>1, <1>3, <1>4 DEF Slot

(* ---- a process writes to the row of its callsign only ------------------ *)

Holders(r) == {r.pid, r.client, r.cms} \cap Proc

(***************************************************************************)
(* The callsign cells never change, so every search stops at the home slot *)
(* of its callsign.                                                        *)
(***************************************************************************)
HomeInv ==
    Registered =>
      /\ exists /\ gwcall = Table0
      /\ \A p \in Proc : /\ pc[p] \notin AttachPC \cup {"claim", "tail"}
                         /\ pc[p] \in UpdatePC => idx[p] <= Home(callOf[p])
                         /\ pc[p] \in {"apply", "store"} => idx[p] = Home(callOf[p])
      /\ \A s \in Slot : \A q \in Holders(row[s]) : s = Home(callOf[q])

LEMMA HomeInit == Init => HomeInv
<1> SUFFICES ASSUME Init, Registered PROVE HomeInv
  BY DEF HomeInv
<1>1. exists /\ gwcall = Table0
  BY DEF Init, Registered
<1>2. \A s \in Slot : Holders(row[s]) = {}
  BY ProcAssumption DEF Init, Holders, NewRow
<1> QED
  BY <1>1, <1>2 DEF HomeInv, Init, AttachPC, UpdatePC

\* What one store of process p does to the holders of the rows.
LEMMA PutHolders ==
    ASSUME TypeOK, NEW p \in Proc, NEW o \in Op, NEW n \in Nat, NEW i \in Slot,
           row' = [row EXCEPT ![i] = Put(o, p, n, @)]
    PROVE  /\ \A s \in Slot \ {i} : Holders(row'[s]) = Holders(row[s])
           /\ Holders(row'[i]) \subseteq Holders(row[i]) \cup {p}
<1>1. row \in [Slot -> Row]
  BY DEF TypeOK, MemoryType
<1>2. \A s \in Slot \ {i} : row'[s] = row[s]
  BY <1>1
<1>3. row[i] \in Row /\ row'[i] = Put(o, p, n, row[i])
  BY <1>1
<1>4. /\ Put(o, p, n, row[i]).pid \in {row[i].pid, p}
      /\ Put(o, p, n, row[i]).client \in {row[i].client, p}
      /\ Put(o, p, n, row[i]).cms \in {row[i].cms, p}
  BY <1>3 DEF Put, Op, Row
<1> QED
  BY <1>2, <1>3, <1>4 DEF Holders

LEMMA HomeStep == TypeOK /\ HomeInv /\ [Next]_vars => HomeInv'
<1> SUFFICES ASSUME TypeOK, HomeInv, [Next]_vars, Registered PROVE HomeInv'
  BY DEF HomeInv
<1>a. /\ exists /\ gwcall = Table0
      /\ \A p \in Proc : /\ pc[p] \notin AttachPC \cup {"claim", "tail"}
                         /\ pc[p] \in UpdatePC => idx[p] <= Home(callOf[p])
                         /\ pc[p] \in {"apply", "store"} => idx[p] = Home(callOf[p])
      /\ \A s \in Slot : \A q \in Holders(row[s]) : s = Home(callOf[q])
  BY DEF HomeInv
<1>b. \A p \in Proc : /\ callOf[p] \in Call /\ Home(callOf[p]) \in Slot
                      /\ 1 <= Home(callOf[p])
  BY HomeProps, CallAssumption DEF Slot
<1>1. ASSUME NEW p \in Proc,
             \/ ShmCreate(p) \/ CheckMagic(p) \/ Wipe(p) \/ Sign(p) \/ InitRow(p)
             \/ Claim(p) \/ ClaimTail(p)
      PROVE  FALSE
  BY <1>a, <1>1 DEF ShmCreate, CheckMagic, Wipe, Sign, InitRow, Claim, ClaimTail,
                    AttachPC
<1>2. ASSUME NEW p \in Proc, ShmGet(p) PROVE HomeInv'
  <2>1. Attached(p) /\ gwcall' = gwcall /\ exists' = exists /\ row' = row
    BY <1>a, <1>2 DEF ShmGet, shared
  <2> QED
    BY <1>a, <1>b, <2>1 DEF HomeInv, Attached, FirstSlot, Holders, TypeOK,
                            ProcessType, AttachPC, UpdatePC
<1>3. ASSUME NEW p \in Proc, Finish(p), gwcall' = gwcall, exists' = exists,
             \A s \in Slot : \A q \in Holders(row'[s]) : s = Home(callOf[q])
      PROVE  HomeInv'
  <2>1. /\ pc'[p] \in {"probe"} \cup End /\ idx'[p] = 1
        /\ \A q \in Proc \ {p} : pc'[q] = pc[q] /\ idx'[q] = idx[q]
    BY <1>3, FinishType
  <2> QED
    BY <1>a, <1>b, <1>3, <2>1 DEF HomeInv, AttachPC, UpdatePC, End
<1>4. ASSUME NEW p \in Proc, Probe(p) PROVE HomeInv'
  <2>1. /\ gwcall' = gwcall /\ exists' = exists /\ row' = row
        /\ pc[p] = "probe" /\ idx[p] \in 1 .. NSlot + 1
    BY <1>4 DEF Probe, shared, TypeOK, IndexInTable
  <2>2. idx[p] <= Home(callOf[p]) /\ idx[p] \in Slot
    BY <1>a, <1>b, <2>1, SlotAssumption DEF UpdatePC, Slot
  <2>3. ~Vacant(gwcall[idx[p]]) /\ ~PastTable(idx[p])
    BY <1>a, <1>b, <2>2, HomeSearch, SlotAssumption DEF PastTable, Slot
  <2>4. pc' = [pc EXCEPT ![p] = "compare"] /\ idx' = idx
    BY <1>4, <2>3 DEF Probe
  <2> QED
    BY <1>a, <2>1, <2>2, <2>4
    DEF HomeInv, Holders, TypeOK, ProcessType, AttachPC, UpdatePC
<1>5. ASSUME NEW p \in Proc, Compare(p) PROVE HomeInv'
  <2>1. /\ gwcall' = gwcall /\ exists' = exists /\ row' = row
        /\ pc[p] = "compare" /\ idx[p] \in Slot /\ idx[p] <= Home(callOf[p])
    BY <1>a, <1>5 DEF Compare, shared, TypeOK, IndexInTable, UpdatePC
  <2>2. Matches(callOf[p], gwcall[idx[p]]) <=> idx[p] = Home(callOf[p])
    BY <1>a, <1>b, <2>1, HomeSearch
  <2>3. CASE idx[p] = Home(callOf[p])
    <3>1. pc' = [pc EXCEPT ![p] = "apply"] /\ idx' = idx
      BY <1>5, <2>2, <2>3 DEF Compare
    <3> QED
      BY <1>a, <2>1, <2>3, <3>1
      DEF HomeInv, Holders, TypeOK, ProcessType, AttachPC, UpdatePC
  <2>4. CASE idx[p] # Home(callOf[p])
    <3>1. /\ pc' = [pc EXCEPT ![p] = "probe"]
          /\ idx' = [idx EXCEPT ![p] = idx[p] + 1]
      BY <1>5, <2>2, <2>4 DEF Compare
    <3>2. idx[p] + 1 <= Home(callOf[p])
      BY <1>b, <2>1, <2>4 DEF Slot
    <3> QED
      BY <1>a, <2>1, <3>1, <3>2
      DEF HomeInv, Holders, TypeOK, ProcessType, AttachPC, UpdatePC
  <2> QED
    BY <2>3, <2>4
<1>6. ASSUME NEW p \in Proc, Assign(p) \/ StoreCounter(p) PROVE HomeInv'
  <2>1. Finish(p) /\ gwcall' = gwcall /\ exists' = exists
    BY <1>6 DEF Assign, StoreCounter
  <2>2. idx[p] \in Slot /\ op[p] \in Op /\ reg[p] + 1 \in Nat
    BY <1>6 DEF Assign, StoreCounter, TypeOK, IndexInTable, ProcessType, UpdatePC
  <2>3. \E n \in Nat : row' = [row EXCEPT ![idx[p]] = Put(op[p], p, n, @)]
    <3>1. CASE Assign(p)
      <4>1. row' = [row EXCEPT ![idx[p]] = Put(op[p], p, 0, @)]
        BY <3>1 DEF Assign
      <4> QED
        BY <4>1
    <3>2. CASE StoreCounter(p)
      <4>1. row' = [row EXCEPT ![idx[p]] = Put(op[p], p, reg[p] + 1, @)]
        BY <3>2 DEF StoreCounter
      <4> QED
        BY <2>2, <4>1
    <3> QED
      BY <1>6, <3>1, <3>2
  <2>4. /\ \A s \in Slot \ {idx[p]} : Holders(row'[s]) = Holders(row[s])
        /\ Holders(row'[idx[p]]) \subseteq Holders(row[idx[p]]) \cup {p}
    <3>1. PICK n \in Nat : row' = [row EXCEPT ![idx[p]] = Put(op[p], p, n, @)]
      BY <2>3
    <3> QED
      BY <2>2, <3>1, PutHolders
  <2>5. idx[p] = Home(callOf[p])
    BY <1>a, <1>6 DEF Assign, StoreCounter
  <2>6. \A s \in Slot : \A q \in Holders(row'[s]) : s = Home(callOf[q])
    BY <1>a, <2>4, <2>5
  <2> QED
    BY <1>3, <2>1, <2>6
<1>7. ASSUME NEW p \in Proc, LoadCounter(p) \/ Kill(p) PROVE HomeInv'
  <2>1. gwcall' = gwcall /\ exists' = exists /\ row' = row
    BY <1>7 DEF LoadCounter, Kill, shared
  <2>2. \A q \in Proc \ {p} : pc'[q] = pc[q] /\ idx'[q] = idx[q]
    BY <1>7 DEF LoadCounter, Kill, TypeOK, ProcessType
  <2>3. \/ pc[p] = "apply" /\ pc'[p] = "store" /\ idx'[p] = idx[p]
        \/ pc'[p] = "killed"
    BY <1>7 DEF LoadCounter, Kill, TypeOK, ProcessType
  <2> QED
    BY <1>a, <2>1, <2>2, <2>3 DEF HomeInv, Holders, AttachPC, UpdatePC
<1>8. CASE UNCHANGED vars
  BY <1>a, <1>8 DEF HomeInv, Holders, vars
<1> QED
  BY <1>1, <1>2, <1>4, <1>5, <1>6, <1>7, <1>8 DEF Next, Step

\* With every callsign registered, a process about to write has found the slot
\* of its own callsign and no row ever shows a process of another callsign.
THEOREM WritesOwnRow == Spec => []OwnRow
<1>1. TypeOK /\ HomeInv => OwnRow
  <2> SUFFICES ASSUME TypeOK, HomeInv, Registered PROVE OwnRow
    BY DEF OwnRow
  <2>1. \A p \in Proc : pc[p] \in {"apply", "store"} => gwcall[idx[p]] = callOf[p]
    BY HomeProps, CallAssumption DEF HomeInv, IsHome
  <2>2. \A s \in Slot : Holders(row[s]) \subseteq {p \in Proc : callOf[p] = gwcall[s]}
    BY HomeProps, CallAssumption DEF HomeInv, Holders, IsHome
  <2> QED
    BY <2>1, <2>2 DEF OwnRow, Holders
<1> QED
  BY <1>1, HomeInit, HomeStep, TypeCorrect, PTL DEF Spec
(* ---- the table with indivisible updates is implemented ----------------- *)

(***************************************************************************)
(* Two live processes never serve one callsign, so between the load and    *)
(* the store of a counter nobody else writes to the row.                   *)
(***************************************************************************)
SoleInv ==
    Registered /\ Serial =>
      /\ \A p \in Proc, q \in Proc :
           p # q /\ callOf[p] = callOf[q] => ~(Live(p) /\ Live(q))
      /\ \A p \in Proc :
           pc[p] = "store" => /\ op[p] \in Counter
                              /\ reg[p] = Get(op[p], row[Home(callOf[p])])
      /\ \A p \in Proc : pc[p] = "start" => op[p] = "pid"

LEMMA SoleInit == Init => SoleInv
BY DEF Init, SoleInv, Live, AttachPC, UpdatePC

LEMMA SoleStep == TypeOK /\ HomeInv /\ SoleInv /\ [Next]_vars => SoleInv'
<1> SUFFICES ASSUME TypeOK, HomeInv, SoleInv, [Next]_vars, Registered, Serial
             PROVE  SoleInv'
  BY DEF SoleInv
<1>a. /\ \A p \in Proc, q \in Proc :
           p # q /\ callOf[p] = callOf[q] => ~(Live(p) /\ Live(q))
      /\ \A p \in Proc :
           pc[p] = "store" => /\ op[p] \in Counter
                              /\ reg[p] = Get(op[p], row[Home(callOf[p])])
      /\ \A p \in Proc : pc[p] = "start" => op[p] = "pid"
  BY DEF SoleInv
<1>b. \A p \in Proc : /\ pc[p] \notin AttachPC \cup {"claim", "tail"}
                      /\ pc[p] \in {"apply", "store"} => idx[p] = Home(callOf[p])
  BY DEF HomeInv
<1>1. ASSUME NEW p \in Proc,
             \/ ShmCreate(p) \/ CheckMagic(p) \/ Wipe(p) \/ Sign(p) \/ InitRow(p)
             \/ Claim(p) \/ ClaimTail(p)
      PROVE  FALSE
  BY <1>b, <1>1 DEF ShmCreate, CheckMagic, Wipe, Sign, InitRow, Claim, ClaimTail,
                    AttachPC
<1>2. ASSUME NEW p \in Proc, ShmGet(p) PROVE SoleInv'
  <2>1. /\ row' = row /\ op' = op /\ reg' = reg /\ pc[p] = "start"
        /\ pc' = [pc EXCEPT ![p] = "probe"] \/ pc' = [pc EXCEPT ![p] = "create"]
        /\ \A q \in Proc : callOf[q] = callOf[p] => ~Live(q)
    BY <1>2 DEF ShmGet, Attached, shared
  <2>2. \A q \in Proc \ {p} : pc'[q] = pc[q]
    BY <2>1 DEF TypeOK, ProcessType
  <2>3. pc'[p] \in {"probe", "create"}
    BY <2>1 DEF TypeOK, ProcessType
  <2> QED
    BY <1>a, <2>1, <2>2, <2>3 DEF SoleInv, Live
\* A step of a live process p that keeps every other process and its row alone.
<1>3. ASSUME NEW p \in Proc, Live(p),
             \A q \in Proc \ {p} : pc'[q] = pc[q] /\ op'[q] = op[q] /\ reg'[q] = reg[q],
             \A s \in Slot \ {Home(callOf[p])} : row'[s] = row[s],
             pc'[p] # "start",
             pc'[p] = "store" => /\ op'[p] \in Counter
                                 /\ reg'[p] = Get(op'[p], row'[Home(callOf[p])])
      PROVE  SoleInv'
  <2>1. \A q \in Proc : Live(q)' => Live(q)
    BY <1>3 DEF Live
  <2>2. ASSUME NEW q \in Proc, q # p, pc'[q] = "store"
        PROVE  op'[q] \in Counter /\ reg'[q] = Get(op'[q], row'[Home(callOf[q])])
    <3>1. Live(q)
      BY <1>3, <2>2 DEF Live, UpdatePC
    <3>2. callOf[q] # callOf[p]
      BY <1>a, <1>3, <2>2, <3>1
    <3>3. Home(callOf[q]) \in Slot /\ Home(callOf[q]) # Home(callOf[p])
      BY <3>2, HomeProps, HomeInjective, CallAssumption
    <3> QED
      BY <1>a, <1>3, <2>2, <3>3
  <2> QED
    BY <1>a, <1>3, <2>1, <2>2 DEF SoleInv
<1>4. ASSUME NEW p \in Proc, Finish(p), Live(p),
             \A s \in Slot \ {Home(callOf[p])} : row'[s] = row[s]
      PROVE  SoleInv'
  <2>1. /\ pc'[p] \in {"probe"} \cup End
        /\ \A q \in Proc \ {p} : pc'[q] = pc[q] /\ op'[q] = op[q] /\ reg'[q] = reg[q]
    BY <1>4, FinishType, FinishCount
  <2> QED
    BY <1>3, <1>4, <2>1 DEF End
<1>5. ASSUME NEW p \in Proc, Probe(p) PROVE SoleInv'
  <2>1. Live(p) /\ row' = row
    BY <1>5 DEF Probe, shared, Live, UpdatePC
  <2>2. CASE PastTable(idx[p])
    BY <1>4, <1>5, <2>1, <2>2 DEF Probe
  <2>3. CASE ~PastTable(idx[p])
    BY <1>3, <1>5, <2>1, <2>3 DEF Probe, TypeOK, ProcessType
  <2> QED
    BY <2>2, <2>3
<1>6. ASSUME NEW p \in Proc, Compare(p) PROVE SoleInv'
  <2>1. Live(p)
    BY <1>6 DEF Compare, Live, UpdatePC
  <2> QED
    BY <1>3, <1>6, <2>1 DEF Compare, shared, TypeOK, ProcessType
<1>7. ASSUME NEW p \in Proc, Assign(p) \/ StoreCounter(p) PROVE SoleInv'
  <2>1. Live(p) /\ Finish(p) /\ idx[p] = Home(callOf[p])
    BY <1>b, <1>7 DEF Assign, StoreCounter, Live, UpdatePC
  <2>2. \A s \in Slot \ {idx[p]} : row'[s] = row[s]
    BY <1>7 DEF Assign, StoreCounter, TypeOK, MemoryType
  <2> QED
    BY <1>4, <2>1, <2>2
<1>8. ASSUME NEW p \in Proc, LoadCounter(p) PROVE SoleInv'
  <2>1. /\ Live(p) /\ row' = row /\ op' = op /\ op[p] \in Counter
        /\ idx[p] = Home(callOf[p])
    BY <1>b, <1>8 DEF LoadCounter, shared, Live, UpdatePC
  <2>2. reg'[p] = Get(op[p], row[idx[p]]) /\ pc'[p] = "store"
    BY <1>8 DEF LoadCounter, TypeOK, ProcessType
  <2>3. \A q \in Proc \ {p} : pc'[q] = pc[q] /\ reg'[q] = reg[q]
    BY <1>8 DEF LoadCounter, TypeOK, ProcessType
  <2> QED
    BY <1>3, <2>1, <2>2, <2>3
<1>9. ASSUME NEW p \in Proc, Kill(p) PROVE SoleInv'
  BY <1>3, <1>9 DEF Kill, shared, TypeOK, ProcessType
<1>10. CASE UNCHANGED vars
  BY <1>a, <1>10 DEF SoleInv, Live, vars
<1> QED
  BY <1>1, <1>2, <1>5, <1>6, <1>7, <1>8, <1>9, <1>10 DEF Next, Step

(* The mapped variables: table, at and counted of StatTable.                *)
tableBar == [c \in Call |-> row[Home(c)]]
atBar == [p \in Proc |-> IF Live(p) THEN op[p] ELSE pc[p]]
countedBar == UNION {credit[s] : s \in Slot}

LEMMA SameOps ==
    /\ Table!Op = Op
    /\ \A o : Table!Follow(o) = Follow(o)
    /\ \A o, r : Table!Get(o, r) = Get(o, r)
    /\ \A o, p, n, r : Table!Put(o, p, n, r) = Put(o, p, n, r)
    /\ \A a, b, c : Table!NewRow(a, b, c) = NewRow(a, b, c)
BY DEF Table!Op, Op, Table!Follow, Follow, Table!Flow, Flow, Table!Get, Get,
       Table!Put, Put, Table!NewRow, NewRow, Table!Op

LEMMA SameSize == \A S : Table!Cardinality(S) = Cardinality(S)
BY DEF Table!Cardinality, Cardinality

LEMMA AbstractInit == Init /\ Registered => Table!Init
<1> SUFFICES ASSUME Init, Registered PROVE Table!Init
  OBVIOUS
<1>1. tableBar \in [Call -> {Table!NewRow("none", "zero", "GW_UNUSED"),
                             Table!NewRow("old", "old", "GW_IDLE")}]
  <2>1. \A s \in Slot : row[s] \in {NewRow("none", "zero", "GW_UNUSED"),
                                    NewRow("old", "old", "GW_IDLE")}
    BY DEF Init, Registered
  <2> QED
    BY <2>1, HomeProps, SameOps DEF tableBar
<1>2. atBar = [p \in Proc |-> "start"]
  BY DEF Init, atBar, Live, AttachPC, UpdatePC
<1>3. countedBar = {}
  BY DEF Init, countedBar
<1> QED
  BY <1>1, <1>2, <1>3 DEF Table!Init, tableBar, atBar, countedBar

\* A process is active in StatTable exactly while it is live here.
LEMMA AbstractActive ==
    ASSUME TypeOK, NEW p \in Proc
    PROVE  atBar[p] \in Table!Op <=> Live(p)
<1>1. op[p] \in Op /\ pc[p] \in {"start"} \cup AttachPC \cup UpdatePC \cup End
  BY DEF TypeOK, ProcessType
<1>2. ~Live(p) => pc[p] \notin Op
  BY <1>1 DEF Live, Op, End
<1> QED
  BY <1>1, <1>2, SameOps DEF atBar

\* A store of process p to its home row, followed by Finish, is one Update.
LEMMA AbstractUpdate ==
    ASSUME Registered, TypeOK, NEW p \in Proc, Live(p), Finish(p),
           idx[p] = Home(callOf[p]),
           row' = [row EXCEPT ![idx[p]] = Put(op[p], p, Get(op[p], @) + 1, @)],
           credit' = IF op[p] = "connects"
                     THEN [credit EXCEPT ![idx[p]] = @ \cup {p}] ELSE credit
    PROVE  Table!Update(p)
<1> DEFINE c == callOf[p]
<1>1. c \in Call /\ Home(c) \in Slot
  BY CallAssumption, HomeProps
<1>2. atBar[p] = op[p] /\ op[p] \in Op
  BY DEF atBar, TypeOK, ProcessType
<1>3. tableBar' = [tableBar EXCEPT ![c] =
                     Table!Put(atBar[p], p, Table!Get(atBar[p], @) + 1, @)]
  <2>1. \A d \in Call : row'[Home(d)] =
          IF d = c THEN Put(op[p], p, Get(op[p], row[Home(c)]) + 1, row[Home(c)])
                   ELSE row[Home(d)]
    BY <1>1, HomeProps, HomeInjective DEF TypeOK, MemoryType
  <2>2. tableBar' = [d \in Call |-> row'[Home(d)]]
    BY DEF tableBar
  <2> QED
    BY <1>1, <1>2, <2>1, <2>2, SameOps DEF tableBar
<1>4. \E o \in Table!Follow(atBar[p]) : atBar' = [atBar EXCEPT ![p] = o]
  <2>1. PICK o \in Follow(op[p]) :
          /\ pc' = [pc EXCEPT ![p] = IF o \in End THEN o ELSE "probe"]
          /\ op' = [op EXCEPT ![p] = IF o \in End THEN @ ELSE o]
    BY DEF Finish
  <2>2. o \in Op \cup End
    BY <1>2, <2>1, FollowType
  <2>3. /\ pc'[p] = (IF o \in End THEN o ELSE "probe")
        /\ op'[p] = (IF o \in End THEN op[p] ELSE o)
        /\ \A q \in Proc \ {p} : pc'[q] = pc[q] /\ op'[q] = op[q]
    BY <2>1 DEF TypeOK, ProcessType
  <2>4. (IF Live(p)' THEN op'[p] ELSE pc'[p]) = o
    BY <2>2, <2>3 DEF Live, AttachPC, UpdatePC, End
  <2>5. \A q \in Proc \ {p} : Live(q)' <=> Live(q)
    BY <2>3 DEF Live
  <2>6. atBar' = [q \in Proc |-> IF q = p THEN o ELSE atBar[q]]
    BY <2>3, <2>4, <2>5 DEF atBar
  <2>7. atBar' = [atBar EXCEPT ![p] = o]
    BY <2>6 DEF atBar
  <2> QED
    BY <1>2, <2>1, <2>7, SameOps
<1>5. countedBar' = IF atBar[p] = "connects" THEN countedBar \cup {p} ELSE countedBar
  <2>1. CASE op[p] = "connects"
    <3>1. \A s \in Slot : credit'[s] = IF s = Home(c) THEN credit[s] \cup {p}
                                       ELSE credit[s]
      BY <1>1, <2>1 DEF TypeOK, MemoryType
    <3>2. countedBar' = UNION {credit'[s] : s \in Slot}
      BY DEF countedBar
    <3>3. UNION {credit'[s] : s \in Slot} = countedBar \cup {p}
      BY <1>1, <3>1 DEF countedBar
    <3> QED
      BY <1>2, <2>1, <3>2, <3>3
  <2>2. CASE op[p] # "connects"
    BY <1>2, <2>2 DEF countedBar
  <2> QED
    BY <2>1, <2>2
<1>6. Table!Active(p)
  BY AbstractActive DEF Table!Active, atBar
<1> QED
  BY <1>3, <1>4, <1>5, <1>6 DEF Table!Update, tableBar, atBar, countedBar

LEMMA AbstractStep ==
    ASSUME Registered, Serial, TypeOK, HomeInv, SoleInv, [Next]_vars
    PROVE  [Table!Next]_(Table!tvars)
<1>a. \A p \in Proc : /\ pc[p] \notin AttachPC \cup {"claim", "tail"}
                      /\ pc[p] \in UpdatePC => idx[p] <= Home(callOf[p])
                      /\ pc[p] \in {"apply", "store"} => idx[p] = Home(callOf[p])
  BY DEF HomeInv
<1>b. \A p \in Proc : callOf[p] \in Call /\ Home(callOf[p]) \in Slot
  BY CallAssumption, HomeProps
<1>c. ASSUME row' = row, credit' = credit, atBar' = atBar
      PROVE  UNCHANGED Table!tvars
  BY <1>c DEF Table!tvars, tableBar, atBar, countedBar
<1>1. ASSUME NEW p \in Proc,
             \/ ShmCreate(p) \/ CheckMagic(p) \/ Wipe(p) \/ Sign(p) \/ InitRow(p)
             \/ Claim(p) \/ ClaimTail(p)
      PROVE  FALSE
  BY <1>a, <1>1 DEF ShmCreate, CheckMagic, Wipe, Sign, InitRow, Claim, ClaimTail,
                    AttachPC
<1>2. ASSUME NEW p \in Proc, ShmGet(p) PROVE Table!Begin(p)
  <2>1. /\ row' = row /\ credit' = credit /\ op' = op /\ pc[p] = "start"
        /\ pc' = [pc EXCEPT ![p] = "probe"]
        /\ \A q \in Proc : callOf[q] = callOf[p] => ~Live(q)
    BY <1>2 DEF ShmGet, Attached, shared, HomeInv
  <2>2. op[p] = "pid" /\ atBar[p] = "start"
    BY <2>1 DEF SoleInv, atBar, Live, AttachPC, UpdatePC
  <2>3. pc'[p] = "probe" /\ \A q \in Proc \ {p} : pc'[q] = pc[q]
    BY <2>1 DEF TypeOK, ProcessType
  <2>4. Live(p)' /\ \A q \in Proc \ {p} : Live(q)' <=> Live(q)
    BY <2>3 DEF Live, UpdatePC
  <2>5. atBar' = [q \in Proc |-> IF q = p THEN "pid" ELSE atBar[q]]
    BY <2>1, <2>2, <2>3, <2>4 DEF atBar
  <2>6. atBar' = [atBar EXCEPT ![p] = "pid"]
    BY <2>5 DEF atBar
  <2>7. tableBar' = tableBar /\ countedBar' = countedBar
    BY <2>1 DEF tableBar, countedBar
  <2>8. \A q \in Proc : callOf[q] = callOf[p] => ~Table!Active(q)
    BY <2>1, AbstractActive DEF Table!Active, atBar
  <2> QED
    BY <2>2, <2>6, <2>7, <2>8 DEF Table!Begin, tableBar, atBar, countedBar
<1>3. ASSUME NEW p \in Proc, Probe(p) PROVE UNCHANGED Table!tvars
  <2>1. idx[p] \in 1 .. NSlot + 1 /\ idx[p] <= Home(callOf[p]) /\ pc[p] = "probe"
    BY <1>a, <1>3 DEF Probe, TypeOK, IndexInTable, UpdatePC
  <2>2. ~PastTable(idx[p])
    BY <1>b, <2>1, SlotAssumption DEF PastTable, Slot
  <2>3. /\ row' = row /\ credit' = credit /\ op' = op
        /\ \A q \in Proc : Live(q)' <=> Live(q)
        /\ \A q \in Proc : ~Live(q) => pc'[q] = pc[q]
    BY <1>3, <2>2 DEF Probe, shared, Live, TypeOK, ProcessType, UpdatePC
  <2>4. atBar' = atBar
    BY <2>3 DEF atBar
  <2> QED
    BY <1>c, <2>3, <2>4
<1>4. ASSUME NEW p \in Proc, Compare(p) \/ LoadCounter(p)
      PROVE  UNCHANGED Table!tvars
  <2>1. /\ row' = row /\ credit' = credit /\ op' = op
        /\ \A q \in Proc : Live(q)' <=> Live(q)
        /\ \A q \in Proc : ~Live(q) => pc'[q] = pc[q]
    BY <1>4 DEF Compare, LoadCounter, shared, Live, TypeOK, ProcessType, UpdatePC
  <2>2. atBar' = atBar
    BY <2>1 DEF atBar
  <2> QED
    BY <1>c, <2>1, <2>2
<1>5. ASSUME NEW p \in Proc, Assign(p) PROVE Table!Update(p)
  <2>1. /\ Live(p) /\ Finish(p) /\ idx[p] = Home(callOf[p]) /\ op[p] \notin Counter
        /\ credit' = credit /\ row' = [row EXCEPT ![idx[p]] = Put(op[p], p, 0, @)]
    BY <1>a, <1>5 DEF Assign, Live, UpdatePC
  <2>2. \A n, m : \A r \in Row : Put(op[p], p, n, r) = Put(op[p], p, m, r)
    BY <2>1 DEF Put, Counter
  <2>3. row' = [row EXCEPT ![idx[p]] = Put(op[p], p, Get(op[p], @) + 1, @)]
    BY <1>b, <2>1, <2>2 DEF TypeOK, MemoryType
  <2>4. op[p] # "connects"
    BY <2>1 DEF Counter
  <2> QED
    BY <2>1, <2>3, <2>4, AbstractUpdate
<1>6. ASSUME NEW p \in Proc, StoreCounter(p) PROVE Table!Update(p)
  <2>1. /\ Live(p) /\ Finish(p) /\ idx[p] = Home(callOf[p])
        /\ reg[p] = Get(op[p], row[idx[p]])
    BY <1>a, <1>6 DEF StoreCounter, Live, UpdatePC, SoleInv
  <2>2. row' = [row EXCEPT ![idx[p]] = Put(op[p], p, Get(op[p], @) + 1, @)]
    BY <1>b, <1>6, <2>1 DEF StoreCounter, TypeOK, MemoryType
  <2> QED
    BY <1>6, <2>1, <2>2, AbstractUpdate DEF StoreCounter
<1>7. ASSUME NEW p \in Proc, Kill(p) PROVE Table!Vanish(p)
  <2>1. /\ Crashes /\ Live(p) /\ row' = row /\ credit' = credit /\ op' = op
        /\ pc'[p] = "killed" /\ \A q \in Proc \ {p} : pc'[q] = pc[q]
    BY <1>7 DEF Kill, shared, TypeOK, ProcessType
  <2>2. ~Live(p)' /\ \A q \in Proc \ {p} : Live(q)' <=> Live(q)
    BY <2>1 DEF Live, AttachPC, UpdatePC
  <2>3. atBar' = [q \in Proc |-> IF q = p THEN "killed" ELSE atBar[q]]
    BY <2>1, <2>2 DEF atBar
  <2>4. atBar' = [atBar EXCEPT ![p] = "killed"]
    BY <2>3 DEF atBar
  <2>5. tableBar' = tableBar /\ countedBar' = countedBar
    BY <2>1 DEF tableBar, countedBar
  <2>6. Table!Active(p)
    BY <2>1, AbstractActive DEF Table!Active, atBar
  <2> QED
    BY <2>1, <2>4, <2>5, <2>6 DEF Table!Vanish, tableBar, atBar, countedBar
<1>8. CASE UNCHANGED vars
  <2>1. row' = row /\ credit' = credit /\ atBar' = atBar
    BY <1>8 DEF vars, atBar, Live
  <2> QED
    BY <1>c, <2>1
<1> QED
  BY <1>1, <1>2, <1>3, <1>4, <1>5, <1>6, <1>7, <1>8
  DEF Next, Step, Table!Next

\* With every callsign registered and one client per callsign at a time, the
\* unlocked table behaves as one whose updates are indivisible: connections
\* and bytes are counted exactly, and every row describes one session.
THEOREM ImplementsTable ==
    ASSUME Registered, Serial
    PROVE  Spec => TableSpec
<1>1. Init => Table!Init
  BY AbstractInit
<1>2. TypeOK /\ HomeInv /\ SoleInv /\ [Next]_vars => [Table!Next]_(Table!tvars)
  BY AbstractStep
<1> QED
  BY <1>1, <1>2, TypeCorrect, HomeInit, HomeStep, SoleInit, SoleStep, PTL
  DEF Spec, TableSpec, Table!Spec

(* ---- what the table with indivisible updates promises ------------------ *)

(***************************************************************************)
(* The promises are stated over a table t, the positions a of the          *)
(* processes and the processes k that have counted their connection.       *)
(***************************************************************************)
PromiseType(t, a, k) == /\ t \in [Call -> Row]
                        /\ a \in [Proc -> {"start"} \cup Op \cup End]
                        /\ k \subseteq Proc

\* One client per callsign at a time.
Alone(a) == \A p \in Proc, q \in Proc :
              p # q /\ callOf[p] = callOf[q] => ~(a[p] \in Op /\ a[q] \in Op)

\* A process that has made an update still finds it in its row; a row whose
\* last process left through exit() is idle.
Shown(t, a) ==
    \A p \in Proc :
      LET r == t[callOf[p]]
      IN  /\ a[p] \in Op \ {"pid"} => r.pid = p
          /\ a[p] \in Op \ {"pid", "running", "connects", "usercall"}
               => r.client = p
          /\ a[p] \in Op \ {"pid", "running", "connects", "usercall", "cms"}
               => r.cms = p
          /\ a[p] = "exited" /\ r.pid = p => r.state = "GW_IDLE"

\* The connections of a callsign are those of the processes in k; a session
\* that has yet to move its mail leaves room below the counter before it.
Tallied(t, a, k) ==
    /\ \A p \in Proc :
         LET r == t[callOf[p]]
         IN  /\ a[p] \in {"start", "pid", "running", "connects"} => p \notin k
             /\ a[p] \in {"usercall", "cms", "connecting", "connected",
                          "disconnected", "bytesOut"}
                  => r.bytesOut < r.connects
             /\ a[p] = "bytesIn" => r.bytesIn < r.bytesOut
    /\ \A c \in Call :
         /\ t[c].connects = Cardinality({p \in k : callOf[p] = c})
         /\ t[c].bytesIn <= t[c].bytesOut
         /\ t[c].bytesOut <= t[c].connects

Promise(t, a, k) ==
    PromiseType(t, a, k) /\ Alone(a) /\ Shown(t, a) /\ Tallied(t, a, k)

\* What one update leaves in a row.
LEMMA PutEffect ==
    ASSUME NEW o \in Op, NEW p \in Proc, NEW r \in Row,
           NEW s, s = Put(o, p, Get(o, r) + 1, r)
    PROVE  /\ s \in Row
           /\ s.pid = (IF o = "pid" THEN p ELSE r.pid)
           /\ s.client = (IF o = "usercall" THEN p ELSE r.client)
           /\ s.cms = (IF o = "cms" THEN p ELSE r.cms)
           /\ s.connects = (IF o = "connects" THEN r.connects + 1 ELSE r.connects)
           /\ s.bytesOut = (IF o = "bytesOut" THEN r.bytesOut + 1 ELSE r.bytesOut)
           /\ s.bytesIn = (IF o = "bytesIn" THEN r.bytesIn + 1 ELSE r.bytesIn)
           /\ o = "idle" => s.state = "GW_IDLE"
<1>1. s \in Row
  BY PutType, GetType
<1> QED
  BY <1>1 DEF Put, Get, Op, Row

\* The updates of a process come in this order.
LEMMA FollowOrder ==
    ASSUME NEW o \in Op, NEW n \in Follow(o)
    PROVE  /\ n \in Op \cup End /\ n # "pid"
           /\ n = "running" => o = "pid"
           /\ n = "connects" => o = "running"
           /\ n = "usercall" => o = "connects"
           /\ n = "cms" => o \in {"usercall", "connecting", "disconnected"}
           /\ n = "connecting" => o = "cms"
           /\ n = "connected" => o = "connecting"
           /\ n = "bytesOut" => o = "connected"
           /\ n = "bytesIn" => o = "bytesOut"
           /\ n = "closed" => o = "bytesIn"
           /\ n = "disconnected" => o = "connected"
           /\ n = "idle" => o \in {"cms", "closed", "disconnected"}
           /\ n = "exited" => o = "idle"
BY DEF Follow, Flow, Op, End

LEMMA PromiseInit ==
    ASSUME NEW t \in [Call -> {NewRow("none", "zero", "GW_UNUSED"),
                               NewRow("old", "old", "GW_IDLE")}]
    PROVE  Promise(t, [p \in Proc |-> "start"], {})
<1> DEFINE a == [p \in Proc |-> "start"]
<1>1. PromiseType(t, a, {})
  BY NewRowType DEF PromiseType
<1>2. Alone(a) /\ Shown(t, a)
  BY DEF Alone, Shown, Op
<1>3. Tallied(t, a, {})
  <2>1. \A c \in Call : {p \in {} : callOf[p] = c} = {}
    OBVIOUS
  <2>2. Cardinality({}) = 0
    BY FS_EmptySet
  <2>3. \A c \in Call : t[c].connects = 0 /\ t[c].bytesIn = 0 /\ t[c].bytesOut = 0
    BY DEF NewRow
  <2>4. \A p \in Proc : a[p] = "start" /\ p \notin {}
    OBVIOUS
  <2> QED
    BY <2>1, <2>2, <2>3, <2>4 DEF Tallied
<1> QED
  BY <1>1, <1>2, <1>3 DEF Promise

LEMMA PromiseBegin ==
    ASSUME NEW t, NEW a, NEW k, Promise(t, a, k), NEW p \in Proc, a[p] = "start",
           \A q \in Proc : callOf[q] = callOf[p] => a[q] \notin Op
    PROVE  Promise(t, [a EXCEPT ![p] = "pid"], k)
<1> DEFINE b == [a EXCEPT ![p] = "pid"]
<1>1. a \in [Proc -> {"start"} \cup Op \cup End]
  BY DEF Promise, PromiseType
<1>2. b[p] = "pid" /\ \A q \in Proc \ {p} : b[q] = a[q]
  BY <1>1
<1>3. PromiseType(t, b, k)
  BY <1>1 DEF Promise, PromiseType, Op
<1> HIDE DEF b
<1>4. Alone(b)
  BY <1>2 DEF Promise, Alone
<1>5. Shown(t, b)
  BY <1>2 DEF Promise, Shown
<1>6. Tallied(t, b, k)
  BY <1>2 DEF Promise, Tallied
<1> QED
  BY <1>3, <1>4, <1>5, <1>6 DEF Promise, b

LEMMA PromiseVanish ==
    ASSUME NEW t, NEW a, NEW k, Promise(t, a, k), NEW p \in Proc
    PROVE  Promise(t, [a EXCEPT ![p] = "killed"], k)
<1> DEFINE b == [a EXCEPT ![p] = "killed"]
<1>1. a \in [Proc -> {"start"} \cup Op \cup End]
  BY DEF Promise, PromiseType
<1>2. b[p] = "killed" /\ \A q \in Proc \ {p} : b[q] = a[q]
  BY <1>1
<1>3. PromiseType(t, b, k)
  BY <1>1 DEF Promise, PromiseType, End
<1>4. "killed" \notin Op
  BY DEF Op
<1> HIDE DEF b
<1>5. Alone(b)
  BY <1>2, <1>4 DEF Promise, Alone
<1>6. Shown(t, b)
  BY <1>2, <1>4 DEF Promise, Shown
<1>7. Tallied(t, b, k)
  BY <1>2 DEF Promise, Tallied
<1> QED
  BY <1>3, <1>5, <1>6, <1>7 DEF Promise, b

LEMMA PromiseUpdate ==
    ASSUME NEW t, NEW a, NEW k, Promise(t, a, k), NEW p \in Proc, a[p] \in Op,
           NEW o \in Follow(a[p]), NEW t2, NEW k2,
           t2 = [t EXCEPT ![callOf[p]] = Put(a[p], p, Get(a[p], @) + 1, @)],
           k2 = IF a[p] = "connects" THEN k \cup {p} ELSE k
    PROVE  Promise(t2, [a EXCEPT ![p] = o], k2)
<1> DEFINE b == [a EXCEPT ![p] = o]
           c == callOf[p]
           r == t[c]
           s == t2[c]
<1>1. /\ t \in [Call -> Row] /\ a \in [Proc -> {"start"} \cup Op \cup End]
      /\ k \subseteq Proc /\ c \in Call /\ r \in Row
  BY CallAssumption DEF Promise, PromiseType
<1>2. b[p] = o /\ \A q \in Proc \ {p} : b[q] = a[q]
  BY <1>1
<1>3. s = Put(a[p], p, Get(a[p], r) + 1, r) /\ \A d \in Call \ {c} : t2[d] = t[d]
  BY <1>1
<1>4. /\ s \in Row
      /\ s.pid = (IF a[p] = "pid" THEN p ELSE r.pid)
      /\ s.client = (IF a[p] = "usercall" THEN p ELSE r.client)
      /\ s.cms = (IF a[p] = "cms" THEN p ELSE r.cms)
      /\ s.connects = (IF a[p] = "connects" THEN r.connects + 1 ELSE r.connects)
      /\ s.bytesOut = (IF a[p] = "bytesOut" THEN r.bytesOut + 1 ELSE r.bytesOut)
      /\ s.bytesIn = (IF a[p] = "bytesIn" THEN r.bytesIn + 1 ELSE r.bytesIn)
      /\ a[p] = "idle" => s.state = "GW_IDLE"
  BY <1>1, <1>3, PutEffect
<1>5. /\ o \in Op \cup End /\ o # "pid"
      /\ o = "running" => a[p] = "pid"
      /\ o = "connects" => a[p] = "running"
      /\ o = "usercall" => a[p] = "connects"
      /\ o = "cms" => a[p] \in {"usercall", "connecting", "disconnected"}
      /\ o = "connecting" => a[p] = "cms"
      /\ o = "connected" => a[p] = "connecting"
      /\ o = "bytesOut" => a[p] = "connected"
      /\ o = "bytesIn" => a[p] = "bytesOut"
      /\ o = "closed" => a[p] = "bytesIn"
      /\ o = "disconnected" => a[p] = "connected"
      /\ o = "idle" => a[p] \in {"cms", "closed", "disconnected"}
      /\ o = "exited" => a[p] = "idle"
  BY FollowOrder
<1>6. \A q \in Proc \ {p} : callOf[q] = c => a[q] \notin Op
  BY DEF Promise, Alone
<1>7. PromiseType(t2, b, k2)
  <2>1. t2 \in [Call -> Row]
    BY <1>1, <1>3, <1>4
  <2>2. b \in [Proc -> {"start"} \cup Op \cup End]
    BY <1>1, <1>5
  <2> QED
    BY <1>1, <2>1, <2>2 DEF PromiseType
<1> HIDE DEF b, s
<1>8. Alone(b)
  BY <1>2, <1>6 DEF Promise, Alone
<1>9. Shown(t2, b)
  <2>1. ASSUME NEW q \in Proc, q # p, callOf[q] # c
        PROVE  t2[callOf[q]] = t[callOf[q]] /\ b[q] = a[q]
    BY <1>2, <1>3, <2>1, CallAssumption
  <2>2. ASSUME NEW q \in Proc, q # p, callOf[q] = c
        PROVE  /\ b[q] = a[q] /\ a[q] \notin Op
               /\ b[q] = "exited" => s.pid # q
    <3>1. b[q] = a[q] /\ a[q] \notin Op
      BY <1>2, <1>6, <2>2
    <3>2. a[p] # "pid" => r.pid = p
      BY DEF Promise, Shown
    <3> QED
      BY <1>4, <2>2, <3>1, <3>2
  <2>3. /\ a[p] \in Op \ {"pid"} => r.pid = p
        /\ a[p] \in Op \ {"pid", "running", "connects", "usercall"} => r.client = p
        /\ a[p] \in Op \ {"pid", "running", "connects", "usercall", "cms"}
             => r.cms = p
    BY DEF Promise, Shown
  <2>4. /\ b[p] \in Op \ {"pid"} => s.pid = p
        /\ b[p] \in Op \ {"pid", "running", "connects", "usercall"} => s.client = p
        /\ b[p] \in Op \ {"pid", "running", "connects", "usercall", "cms"}
             => s.cms = p
        /\ b[p] = "exited" => s.state = "GW_IDLE"
    BY <1>2, <1>4, <1>5, <2>3 DEF Op
  <2>5. ASSUME NEW q \in Proc, q # p
        PROVE  LET rq == t2[callOf[q]]
               IN  /\ b[q] \in Op \ {"pid"} => rq.pid = q
                   /\ b[q] \in Op \ {"pid", "running", "connects", "usercall"}
                        => rq.client = q
                   /\ b[q] \in Op \ {"pid", "running", "connects", "usercall", "cms"}
                        => rq.cms = q
                   /\ b[q] = "exited" /\ rq.pid = q => rq.state = "GW_IDLE"
    <3>1. CASE callOf[q] = c
      BY <2>2, <2>5, <3>1 DEF s
    <3>2. CASE callOf[q] # c
      <4>1. t2[callOf[q]] = t[callOf[q]] /\ b[q] = a[q]
        BY <2>1, <2>5, <3>2
      <4> QED
        BY <4>1 DEF Promise, Shown
    <3> QED
      BY <3>1, <3>2
  <2> QED
    BY <2>4, <2>5 DEF Shown, s
<1>10. Tallied(t2, b, k2)
  <2>1. \A q \in Proc :
          /\ a[q] \in {"start", "pid", "running", "connects"} => q \notin k
          /\ a[q] \in {"usercall", "cms", "connecting", "connected",
                       "disconnected", "bytesOut"}
               => t[callOf[q]].bytesOut < t[callOf[q]].connects
          /\ a[q] = "bytesIn" => t[callOf[q]].bytesIn < t[callOf[q]].bytesOut
    BY DEF Promise, Tallied
  <2>2. \A d \in Call : /\ t[d].connects = Cardinality({q \in k : callOf[q] = d})
                        /\ t[d].bytesIn <= t[d].bytesOut
                        /\ t[d].bytesOut <= t[d].connects
    BY DEF Promise, Tallied
  <2>3. /\ r.connects \in Nat /\ r.bytesOut \in Nat /\ r.bytesIn \in Nat
        /\ s.connects \in Nat /\ s.bytesOut \in Nat /\ s.bytesIn \in Nat
    BY <1>1, <1>4 DEF Row
  <2>4. /\ s.bytesIn <= s.bytesOut /\ s.bytesOut <= s.connects
        /\ b[p] \in {"usercall", "cms", "connecting", "connected", "disconnected",
                     "bytesOut"} => s.bytesOut < s.connects
        /\ b[p] = "bytesIn" => s.bytesIn < s.bytesOut
        /\ b[p] \in {"start", "pid", "running", "connects"} => p \notin k2
    <3>1. /\ r.bytesIn <= r.bytesOut /\ r.bytesOut <= r.connects
          /\ a[p] \in {"usercall", "cms", "connecting", "connected", "disconnected",
                       "bytesOut"} => r.bytesOut < r.connects
          /\ a[p] = "bytesIn" => r.bytesIn < r.bytesOut
          /\ a[p] \in {"start", "pid", "running", "connects"} => p \notin k
      BY <1>1, <2>1, <2>2
    <3>2. s.bytesIn <= s.bytesOut /\ s.bytesOut <= s.connects
      BY <1>4, <2>3, <3>1
    <3>3. b[p] \in {"usercall", "cms", "connecting", "connected", "disconnected",
                    "bytesOut"} => s.bytesOut < s.connects
      BY <1>2, <1>4, <1>5, <2>3, <3>1
    <3>4. b[p] = "bytesIn" => s.bytesIn < s.bytesOut
      BY <1>2, <1>4, <1>5, <2>3, <3>1
    <3>5. b[p] \in {"start", "pid", "running", "connects"} => p \notin k2
      BY <1>2, <1>5, <3>1 DEF Op, End
    <3> QED
      BY <3>2, <3>3, <3>4, <3>5
  <2>5. ASSUME NEW q \in Proc, q # p
        PROVE  LET rq == t2[callOf[q]]
               IN  /\ b[q] \in {"start", "pid", "running", "connects"} => q \notin k2
                   /\ b[q] \in {"usercall", "cms", "connecting", "connected",
                                "disconnected", "bytesOut"}
                        => rq.bytesOut < rq.connects
                   /\ b[q] = "bytesIn" => rq.bytesIn < rq.bytesOut
    <3>1. b[q] = a[q] /\ (q \in k2 <=> q \in k)
      BY <1>2, <2>5
    <3>2. CASE callOf[q] = c
      <4>1. a[q] \notin Op
        BY <1>6, <2>5, <3>2
      <4> QED
        BY <2>1, <3>1, <4>1 DEF Op
    <3>3. CASE callOf[q] # c
      <4>1. t2[callOf[q]] = t[callOf[q]]
        BY <1>3, <3>3, CallAssumption
      <4> QED
        BY <2>1, <3>1, <4>1
    <3> QED
      BY <3>2, <3>3
  <2>6. \A d \in Call : t2[d].connects = Cardinality({q \in k2 : callOf[q] = d})
    <3>1. CASE a[p] # "connects"
      <4>1. k2 = k /\ \A d \in Call : t2[d].connects = t[d].connects
        BY <1>3, <1>4, <3>1 DEF s
      <4> QED
        BY <2>2, <4>1
    <3>2. CASE a[p] = "connects"
      <4>1. ASSUME NEW d \in Call, d # c
            PROVE  {q \in k2 : callOf[q] = d} = {q \in k : callOf[q] = d}
        BY <4>1, <3>2
      <4>2. {q \in k2 : callOf[q] = c} = {q \in k : callOf[q] = c} \cup {p}
        BY <3>2
      <4>3. /\ IsFiniteSet({q \in k : callOf[q] = c})
            /\ p \notin {q \in k : callOf[q] = c}
        <5>1. {q \in k : callOf[q] = c} \subseteq Proc /\ p \notin k
          BY <1>1, <2>1, <3>2
        <5> QED
          BY <5>1, FS_Subset, ProcAssumption
      <4>4. Cardinality({q \in k2 : callOf[q] = c}) = r.connects + 1
        <5>1. Cardinality({q \in k : callOf[q] = c} \cup {p})
                = Cardinality({q \in k : callOf[q] = c}) + 1
          BY <4>3, FS_AddElement
        <5>2. Cardinality({q \in k : callOf[q] = c}) = r.connects
          BY <1>1, <2>2
        <5> QED
          BY <4>2, <5>1, <5>2
      <4>5. s.connects = r.connects + 1
        BY <1>4, <3>2
      <4> QED
        BY <1>3, <2>2, <4>1, <4>4, <4>5 DEF s
    <3> QED
      BY <3>1, <3>2
  <2>7. \A d \in Call : t2[d].bytesIn <= t2[d].bytesOut
                        /\ t2[d].bytesOut <= t2[d].connects
    BY <1>3, <2>2, <2>4 DEF s
  <2> QED
    BY <2>4, <2>5, <2>6, <2>7 DEF Tallied, s
<1> QED
  BY <1>7, <1>8, <1>9, <1>10 DEF Promise, b

(***************************************************************************)
(* The promises of the table hold of what the processes share: a step of   *)
(* StatBlock is a step of StatTable or leaves the mapped table alone.      *)
(***************************************************************************)
PromiseInv == Registered /\ Serial => Promise(tableBar, atBar, countedBar)

LEMMA PromiseInvInit == Init => PromiseInv
<1> SUFFICES ASSUME Init, Registered, Serial
             PROVE  Promise(tableBar, atBar, countedBar)
  BY DEF PromiseInv
<1>1. Table!Init
  BY AbstractInit
<1>2. tableBar \in [Call -> {NewRow("none", "zero", "GW_UNUSED"),
                             NewRow("old", "old", "GW_IDLE")}]
  BY <1>1, SameOps DEF Table!Init, tableBar
<1>3. atBar = [p \in Proc |-> "start"] /\ countedBar = {}
  BY <1>1 DEF Table!Init, atBar, countedBar
<1> QED
  BY <1>2, <1>3, PromiseInit

LEMMA PromiseInvStep ==
    TypeOK /\ HomeInv /\ SoleInv /\ PromiseInv /\ [Next]_vars => PromiseInv'
<1> SUFFICES ASSUME TypeOK, HomeInv, SoleInv, PromiseInv, [Next]_vars,
                    Registered, Serial
             PROVE  Promise(tableBar', atBar', countedBar')
  BY DEF PromiseInv
<1>1. Promise(tableBar, atBar, countedBar)
  BY DEF PromiseInv
<1>2. [Table!Next]_(Table!tvars)
  BY AbstractStep
<1>3. ASSUME NEW p \in Proc, Table!Begin(p)
      PROVE  Promise(tableBar', atBar', countedBar')
  <2>1. /\ atBar[p] = "start" /\ atBar' = [atBar EXCEPT ![p] = "pid"]
        /\ tableBar' = tableBar /\ countedBar' = countedBar
    BY <1>3 DEF Table!Begin, tableBar, atBar, countedBar
  <2>2. \A q \in Proc : callOf[q] = callOf[p] => atBar[q] \notin Op
    BY <1>3, SameOps DEF Table!Begin, Table!Active, atBar
  <2> QED
    BY <1>1, <2>1, <2>2, PromiseBegin
<1>4. ASSUME NEW p \in Proc, Table!Update(p)
      PROVE  Promise(tableBar', atBar', countedBar')
  <2>1. atBar[p] \in Op
    BY <1>4, SameOps DEF Table!Update, Table!Active, atBar
  <2>2. tableBar' = [tableBar EXCEPT ![callOf[p]] =
                       Put(atBar[p], p, Get(atBar[p], @) + 1, @)]
    BY <1>4, SameOps DEF Table!Update, tableBar, atBar
  <2>3. PICK o \in Follow(atBar[p]) : atBar' = [atBar EXCEPT ![p] = o]
    BY <1>4, SameOps DEF Table!Update, atBar
  <2>4. countedBar' = IF atBar[p] = "connects" THEN countedBar \cup {p}
                                               ELSE countedBar
    BY <1>4 DEF Table!Update, atBar, countedBar
  <2> QED
    BY <1>1, <2>1, <2>2, <2>3, <2>4, PromiseUpdate
<1>5. ASSUME NEW p \in Proc, Table!Vanish(p)
      PROVE  Promise(tableBar', atBar', countedBar')
  <2>1. /\ atBar' = [atBar EXCEPT ![p] = "killed"]
        /\ tableBar' = tableBar /\ countedBar' = countedBar
    BY <1>5 DEF Table!Vanish, tableBar, atBar, countedBar
  <2> QED
    BY <1>1, <2>1, PromiseVanish
<1>6. CASE UNCHANGED Table!tvars
  <2>1. tableBar' = tableBar /\ atBar' = atBar /\ countedBar' = countedBar
    BY <1>6 DEF Table!tvars, tableBar, atBar, countedBar
  <2> QED
    BY <1>1, <2>1
<1> QED
  BY <1>2, <1>3, <1>4, <1>5, <1>6 DEF Table!Next

LEMMA PromiseKept == Spec => []PromiseInv
<1> QED
  BY TypeCorrect, HomeInit, HomeStep, SoleInit, SoleStep, PromiseInvInit,
     PromiseInvStep, PTL DEF Spec

\* Every connection of a callsign is counted exactly once, in its own row, and
\* the bytes of a session only after its connection, although ++ is a load and
\* a store and the row is looked up again before each update.
THEOREM ConnectionsAccounted == Spec => []Accounted
<1>1. PromiseInv => Accounted
  <2> SUFFICES ASSUME PromiseInv, Registered, Serial PROVE Table!Accounted
    BY DEF Accounted
  <2>1. \A c \in Call :
          /\ tableBar[c].connects = Cardinality({p \in countedBar : callOf[p] = c})
          /\ tableBar[c].bytesIn <= tableBar[c].bytesOut
          /\ tableBar[c].bytesOut <= tableBar[c].connects
    BY DEF PromiseInv, Promise, Tallied
  <2> QED
    BY <2>1, SameSize DEF Table!Accounted, tableBar, countedBar
<1> QED
  BY <1>1, PromiseKept, PTL

\* While a session runs, its row shows its own process, user and host.
THEOREM RowShowsOneSession == Spec => []OneSessionPerRow
<1>1. PromiseInv => OneSessionPerRow
  <2> SUFFICES ASSUME PromiseInv, Registered, Serial PROVE Table!OneSessionPerRow
    BY DEF OneSessionPerRow, Table!OneSessionPerRow
  <2> QED
    BY DEF PromiseInv, Promise, Shown, Table!OneSessionPerRow, Op, tableBar, atBar
<1> QED
  BY <1>1, PromiseKept, PTL

\* The row of a process that left through exit(), and that no later process
\* took over, is idle: rmsgwmon may hide its pid.
THEOREM IdleOnceExited == Spec => []IdleAfterExit
<1>1. TypeOK /\ HomeInv /\ PromiseInv => IdleAfterExit
  <2> SUFFICES ASSUME TypeOK, HomeInv, PromiseInv, Registered, Serial,
                      NEW s \in Slot, NEW p \in Proc, row[s].pid = p,
                      pc[p] = "exited"
               PROVE  row[s].state = "GW_IDLE"
    BY DEF IdleAfterExit
  <2>1. callOf[p] \in Call /\ s = Home(callOf[p])
    BY CallAssumption DEF HomeInv, Holders
  <2>2. tableBar[callOf[p]] = row[s] /\ atBar[p] = "exited"
    BY <2>1 DEF tableBar, atBar, Live, AttachPC, UpdatePC
  <2> QED
    BY <2>2 DEF PromiseInv, Promise, Shown
<1> QED
  BY <1>1, PromiseKept, TypeCorrect, HomeInit, HomeStep, PTL DEF Spec
=============================================================================
