------------------------------ MODULE StatBlock ------------------------------
(***************************************************************************)
(* The System V shared memory segment in which every rmsgw process keeps   *)
(* its row of the gateway table (lib/shm.c, lib/statblock.c), accessed the *)
(* way the code accesses it: no lock ("TODO: enter monitor"), the table    *)
(* searched again by every update, strncpy() and ++ not atomic.            *)
(***************************************************************************)
EXTENDS GwOps, FiniteSets

CONSTANTS
    Text, Nul, \* what a part of a callsign cell may hold, and zero bytes
    Call,      \* gateway callsigns: <<first store of strncpy(), the rest>>
    callOf,    \* callOf[p]: cfg->gwcall of process p
    NSlot,     \* RMS_GW_TABLE_SIZE
    Fresh,     \* TRUE: no segment exists when the first process starts
    Table0,    \* callsigns in the table when the segment exists already
    Serial,    \* TRUE: no two processes serve one callsign at a time
    Crashes    \* TRUE: a process may be killed, or fail to attach

Part == Text \cup {Nul}
NoCall == <<Nul, Nul>>
Slot == 1 .. NSlot
Vacant(cell) == cell[1] = Nul                   \* strlen(gw_gwcall) <= 0

ASSUME SlotAssumption == NSlot \in Nat \ {0}
ASSUME ProcAssumption == /\ IsFiniteSet(Proc)
                         /\ Proc \cap {"zero", "none", "old"} = {}
ASSUME CallAssumption == /\ Nul \notin Text
                         /\ Call \subseteq Text \X Part
                         /\ callOf \in [Proc -> Call]
ASSUME BootAssumption == /\ Fresh \in BOOLEAN /\ Serial \in BOOLEAN
                         /\ Crashes \in BOOLEAN
                         /\ Table0 \in [Slot -> Call \cup {NoCall}]
                         /\ \A s \in Slot, t \in Slot :
                              t < s /\ Vacant(Table0[t]) => Vacant(Table0[s])

VARIABLES
    exists,    \* the segment has been created
    magic,     \* RMS_SHM_MAGIC stands at its front
    gwcall,    \* gwcall[s]: the two parts of the callsign cell of slot s
    row,       \* row[s]: the other fields of slot s
    pc,        \* where each process is; an element of End once it is gone
    op,        \* the status update it is in
    doinit,    \* its shm_must_init flag
    idx,       \* its loop index i in get_gw_slot() or statblock_attach()
    reg,       \* the counter value it has read and not yet written back
    credit     \* history: credit[s] = the processes whose connects++ hit s

shared == <<exists, magic, gwcall, row>>
vars == <<exists, magic, gwcall, row, pc, op, doinit, idx, reg, credit>>

AttachPC == {"create", "check", "wipe", "sign", "initrow"}
UpdatePC == {"probe", "claim", "tail", "compare", "apply", "store"}
Live(p) == pc[p] \in AttachPC \cup UpdatePC

Init ==
    /\ exists = ~Fresh
    /\ magic = ~Fresh
    /\ gwcall = IF Fresh THEN [s \in Slot |-> NoCall] ELSE Table0
    /\ row = [s \in Slot |->
                IF Fresh THEN NewRow("zero", "zero", "GW_UNUSED")
                ELSE IF Vacant(Table0[s]) THEN NewRow("none", "zero", "GW_UNUSED")
                ELSE NewRow("old", "old", "GW_IDLE")]
    /\ pc = [p \in Proc |-> "start"]
    /\ op = [p \in Proc |-> "pid"]
    /\ doinit = [p \in Proc |-> FALSE]
    /\ idx = [p \in Proc |-> 1]
    /\ reg = [p \in Proc |-> 0]
    /\ credit = [s \in Slot |-> {}]
-----------------------------------------------------------------------------
(* statblock_attach()                                                      *)

SecondSlot == 2                  \* mutant of FirstSlot
FirstSlot == 1

PastTableEarly(i) == i >= NSlot  \* mutant of PastTable: off by one
PastTable(i) == i > NSlot

\* The process goes on with its first status update.
Attached(p) == /\ pc' = [pc EXCEPT ![p] = "probe"]
               /\ idx' = [idx EXCEPT ![p] = FirstSlot]

\* shmget() without IPC_CREAT.
ShmGet(p) ==
    /\ pc[p] = "start"
    /\ Serial => \A q \in Proc : callOf[q] = callOf[p] => ~Live(q)
    /\ IF exists THEN Attached(p)
                 ELSE pc' = [pc EXCEPT ![p] = "create"] /\ idx' = idx
    /\ UNCHANGED <<shared, op, doinit, reg, credit>>

\* shmget(IPC_CREAT) after ENOENT: without IPC_EXCL it also succeeds when
\* another process created the segment in between.
ShmCreate(p) ==
    /\ pc[p] = "create"
    /\ exists' = TRUE
    /\ doinit' = [doinit EXCEPT ![p] = TRUE]
    /\ pc' = [pc EXCEPT ![p] = "check"]
    /\ UNCHANGED <<magic, gwcall, row, op, idx, reg, credit>>

CheckMagic(p) ==
    /\ pc[p] = "check"
    /\ IF magic THEN Attached(p)
                ELSE /\ pc' = [pc EXCEPT ![p] = "wipe"]
                     /\ idx' = [idx EXCEPT ![p] = 0]
    /\ UNCHANGED <<shared, op, doinit, reg, credit>>

\* memset(), the header (idx = 0) and then one slot at a time.
Wipe(p) ==
    /\ pc[p] = "wipe"
    /\ IF idx[p] = 0
       THEN magic' = FALSE /\ UNCHANGED <<gwcall, row>>
       ELSE /\ gwcall' = [gwcall EXCEPT ![idx[p]] = NoCall]
            /\ row' = [row EXCEPT ![idx[p]] = NewRow("zero", "zero", "GW_UNUSED")]
            /\ magic' = magic
    /\ IF idx[p] = NSlot
       THEN pc' = [pc EXCEPT ![p] = "sign"] /\ idx' = idx
       ELSE idx' = [idx EXCEPT ![p] = @ + 1] /\ pc' = pc
    /\ UNCHANGED <<exists, op, doinit, reg, credit>>

Sign(p) ==
    /\ pc[p] = "sign"
    /\ magic' = TRUE
    /\ pc' = [pc EXCEPT ![p] = "initrow"]
    /\ idx' = [idx EXCEPT ![p] = 1]
    /\ UNCHANGED <<exists, gwcall, row, op, doinit, reg, credit>>

ClearedToNone(r) ==              \* mutant: -1, as the pid, for the counters too
    [r EXCEPT !.pid = "none", !.state = "GW_UNUSED",
              !.connects = -1, !.bytesIn = -1, !.bytesOut = -1]
Cleared(r) == [r EXCEPT !.pid = "none", !.state = "GW_UNUSED",
                        !.connects = 0, !.bytesIn = 0, !.bytesOut = 0]

InitRow(p) ==
    /\ pc[p] = "initrow"
    /\ row' = [row EXCEPT ![idx[p]] = Cleared(@)]
    /\ IF idx[p] = NSlot
       THEN Attached(p)
       ELSE idx' = [idx EXCEPT ![p] = @ + 1] /\ pc' = pc
    /\ UNCHANGED <<exists, magic, gwcall, op, doinit, reg, credit>>
-----------------------------------------------------------------------------
(* get_gw_slot() and the update that called it                             *)

\* Callsign c is what the cell holds, or a prefix of it.
IsPrefix(c, cell) == c[1] = cell[1] /\ c[2] \in {Nul, cell[2]}

\* STRNEQUAL(gwcall, cell, strlen(gwcall)): equal up to the length of the
\* callsign looked for.
MatchesHead(c, cell) == c[1] = cell[1]          \* mutant: one part compared
Matches(c, cell) == IsPrefix(c, cell)

\* The update is over: the process goes to its next one, or ends.
Finish(p) ==
    \E o \in Follow(op[p]) :
      /\ pc' = [pc EXCEPT ![p] = IF o \in End THEN o ELSE "probe"]
      /\ op' = [op EXCEPT ![p] = IF o \in End THEN @ ELSE o]
      /\ idx' = [idx EXCEPT ![p] = FirstSlot]
      /\ reg' = [reg EXCEPT ![p] = 0]

\* i < RMS_GW_TABLE_SIZE and strlen(slot i); past the table the update is
\* dropped ("gateway status table FULL").
Probe(p) ==
    /\ pc[p] = "probe"
    /\ IF PastTable(idx[p])
       THEN Finish(p)
       ELSE /\ pc' = [pc EXCEPT ![p] = IF Vacant(gwcall[idx[p]])
                                       THEN "claim" ELSE "compare"]
            /\ UNCHANGED <<op, idx, reg>>
    /\ UNCHANGED <<shared, doinit, credit>>

\* strncpy() of the callsign into the vacant cell: first part, then the rest.
Claim(p) ==
    /\ pc[p] = "claim"
    /\ gwcall' = [gwcall EXCEPT ![idx[p]] = <<callOf[p][1], @[2]>>]
    /\ pc' = [pc EXCEPT ![p] = "tail"]
    /\ UNCHANGED <<exists, magic, row, op, doinit, idx, reg, credit>>

ClaimTail(p) ==
    /\ pc[p] = "tail"
    /\ gwcall' = [gwcall EXCEPT ![idx[p]] = <<@[1], callOf[p][2]>>]
    /\ pc' = [pc EXCEPT ![p] = "apply"]
    /\ UNCHANGED <<exists, magic, row, op, doinit, idx, reg, credit>>

Compare(p) ==
    /\ pc[p] = "compare"
    /\ IF Matches(callOf[p], gwcall[idx[p]])
       THEN pc' = [pc EXCEPT ![p] = "apply"] /\ idx' = idx
       ELSE /\ pc' = [pc EXCEPT ![p] = "probe"]
            /\ idx' = [idx EXCEPT ![p] = @ + 1]
    /\ UNCHANGED <<shared, op, doinit, reg, credit>>

\* An assignment is one store ...
Assign(p) ==
    /\ pc[p] = "apply"
    /\ op[p] \notin Counter
    /\ row' = [row EXCEPT ![idx[p]] = Put(op[p], p, 0, @)]
    /\ Finish(p)
    /\ UNCHANGED <<exists, magic, gwcall, doinit, credit>>

\* ... and ++ or += is a load and a store.
LoadCounter(p) ==
    /\ pc[p] = "apply"
    /\ op[p] \in Counter
    /\ reg' = [reg EXCEPT ![p] = Get(op[p], row[idx[p]])]
    /\ pc' = [pc EXCEPT ![p] = "store"]
    /\ UNCHANGED <<shared, op, doinit, idx, credit>>

StoreCounter(p) ==
    /\ pc[p] = "store"
    /\ row' = [row EXCEPT ![idx[p]] = Put(op[p], p, reg[p] + 1, @)]
    /\ credit' = IF op[p] = "connects"
                 THEN [credit EXCEPT ![idx[p]] = @ \cup {p}]
                 ELSE credit
    /\ Finish(p)
    /\ UNCHANGED <<exists, magic, gwcall, doinit>>

\* SIGPIPE or another signal (no handler is installed), or a failed shmget()
\* or shmat(): the process is gone, what it wrote stays.
Kill(p) ==
    /\ Crashes
    /\ Live(p)
    /\ pc' = [pc EXCEPT ![p] = "killed"]
    /\ idx' = [idx EXCEPT ![p] = FirstSlot]
    /\ reg' = [reg EXCEPT ![p] = 0]
    /\ UNCHANGED <<shared, op, doinit, credit>>

Step(p) == \/ ShmGet(p) \/ ShmCreate(p) \/ CheckMagic(p) \/ Wipe(p)
           \/ Sign(p) \/ InitRow(p)
           \/ Probe(p) \/ Claim(p) \/ ClaimTail(p) \/ Compare(p)
           \/ Assign(p) \/ LoadCounter(p) \/ StoreCounter(p)

Next == \E p \in Proc : Step(p) \/ Kill(p)

Spec == Init /\ [][Next]_vars
-----------------------------------------------------------------------------
(* The table the processes believe they share, when every callsign has a   *)
(* slot that a search for it finds                                         *)

IsHome(s, c) == /\ Table0[s] = c
                /\ \A t \in 1 .. (s - 1) : /\ ~Vacant(Table0[t])
                                           /\ ~IsPrefix(c, Table0[t])

Registered == ~Fresh /\ \A c \in Call : \E s \in Slot : IsHome(s, c)

Home(c) == CHOOSE s \in Slot : IsHome(s, c)

Table == INSTANCE StatTable WITH
           table   <- [c \in Call |-> row[Home(c)]],
           at      <- [p \in Proc |-> IF Live(p) THEN op[p] ELSE pc[p]],
           counted <- UNION {credit[s] : s \in Slot}

\* Once registered and served one client at a time, the unlocked table cannot
\* be told from one whose updates are indivisible.
TableSpec == Table!Spec
-----------------------------------------------------------------------------
(* Properties                                                              *)

\* Every variable stays in its domain; in particular a loop index never
\* leaves the table by more than the one step that ends the search.
MemoryType ==
    /\ exists \in BOOLEAN /\ magic \in BOOLEAN
    /\ gwcall \in [Slot -> Part \X Part]
    /\ row \in [Slot -> Row]
    /\ credit \in [Slot -> SUBSET Proc]

ProcessType ==
    /\ pc \in [Proc -> {"start"} \cup AttachPC \cup UpdatePC \cup End]
    /\ op \in [Proc -> Op]
    /\ doinit \in [Proc -> BOOLEAN]
    /\ idx \in [Proc -> 0 .. NSlot + 1]
    /\ reg \in [Proc -> Nat]

IndexInTable ==
    \A p \in Proc : /\ pc[p] = "probe" => idx[p] \in 1 .. NSlot + 1
                    /\ pc[p] \in UpdatePC \ {"probe"} => idx[p] \in Slot
                    /\ pc[p] = "wipe" => idx[p] \in 0 .. NSlot
                    /\ pc[p] = "initrow" => idx[p] \in Slot

TypeOK == MemoryType /\ ProcessType /\ IndexInTable

\* gw_connects never counts a connection that did not happen, whatever the
\* interleaving of the searches, of the unlocked ++ and of initialisers that
\* clear the table under a running process.
NoOvercount == \A s \in Slot : row[s].connects <= Cardinality(credit[s])

\* get_gw_slot() takes the first empty cell for the end of the table, so an
\* empty cell before an occupied one would hide the rows behind it.  In a
\* segment that existed already the table never has such a hole.
NoHoles ==
    ~Fresh => \A s, t \in Slot : t < s /\ Vacant(gwcall[t]) => Vacant(gwcall[s])

\* A status update is dropped ("table FULL") only when every slot is taken:
\* no interleaving of searches and claims makes a process walk past a free one.
DroppedOnlyWhenFull ==
    ~Fresh => \A p \in Proc : pc[p] = "probe" /\ PastTable(idx[p])
                              => \A s \in Slot : ~Vacant(gwcall[s])

\* With every callsign in the table already, the process that is about to
\* write has found its own row, and what a row says of its process, user and
\* host comes from processes serving its callsign.
OwnRow ==
  Registered =>
    /\ \A p \in Proc : pc[p] \in {"apply", "store"} => gwcall[idx[p]] = callOf[p]
    /\ \A s \in Slot :
         {row[s].pid, row[s].client, row[s].cms} \cap Proc
           \subseteq {p \in Proc : callOf[p] = gwcall[s]}

\* rmsgwmon hides the pid of an idle row "since there is no active process":
\* once the most recent process of a row has left through exit(), its row is
\* idle, with no leftover of another callsign's session.
IdleAfterExit ==
  Registered /\ Serial =>
    \A s \in Slot : row[s].pid \in Proc /\ pc[row[s].pid] = "exited"
                     => row[s].state = "GW_IDLE"

\* rmsgwmon shows connections and bytes as totals of a callsign: registered and
\* served one client at a time, every connection is counted exactly once, in the
\* row of its callsign, although ++ is not atomic and the slot is looked up anew
\* before each update - and bytes are counted only after their connection.
Accounted == Registered /\ Serial => Table!Accounted

\* ... and while a session runs, its row shows its pid, its user and its host,
\* never a mixture of two sessions.
OneSessionPerRow == Registered => Table!OneSessionPerRow
=============================================================================
