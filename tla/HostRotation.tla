---------------------------- MODULE HostRotation ----------------------------
(***************************************************************************)
(* How rmsgw processes share the CMS hosts: each builds its list of hosts, *)
(* least recently tried first, from the times of the status files          *)
(* (getcmslist(), addcmsnode()), and works through it, touching the file   *)
(* of each host it turns to (main(), setcmsstat(), cmsSession()).          *)
(***************************************************************************)
EXTENDS Integers, Sequences, FiniteSets

CONSTANTS
    Proc,       \* rmsgw processes
    Host,       \* CMS hosts
    File,       \* /etc/rmsgw/hosts: the hosts in the order of the file
    Rejected,   \* hosts whose entry is skipped: no name, port or password, or a
                \* status file that stat() cannot reach
    MaxTime,    \* the clock (time_t) runs from 1 to MaxTime
    NoMemory    \* TRUE: malloc() or strdup() may fail

ASSUME RotationAssumption ==
    /\ IsFiniteSet(Proc) /\ IsFiniteSet(Host)
    /\ File \in Seq(Host)
    /\ \A i, j \in 1 .. Len(File) : i # j => File[i] # File[j]
    /\ Rejected \subseteq Host
    /\ MaxTime \in Nat \ {0}
    /\ NoMemory \in BOOLEAN

Usable == {File[i] : i \in 1 .. Len(File)} \ Rejected
Node == [host : Host, time : 0 .. MaxTime]

VARIABLES
    now,        \* the clock, in seconds
    stat,       \* stat[h]: access time of the status file of h; 0: no file
    pc,         \* where each process is
    entry,      \* entry[p]: next entry of the hosts file to be read
    list,       \* list[p]: cmslist
    pos,        \* pos[p]: index of cmsp in it
    fault,      \* fault[p]: the port, channel or password is missing
    tried,      \* history: tried[p]: hosts p asked cmsConnect() for
    starved,    \* history: starved[p]: an allocation of p failed
    disturbed   \* history: disturbed[p]: another process has touched a status
                \* file since p began

vars == <<now, stat, pc, entry, list, pos, fault, tried, starved, disturbed>>

\* exit(0), exit(99) and the exit(1) of err().
Gone == {"served", "fatal", "failed"}
Live(p) == pc[p] \notin Gone \cup {"start"}

Init ==
    /\ now = 1
    /\ stat \in [Host -> 0 .. 1]
    /\ pc = [p \in Proc |-> "start"]
    /\ entry = [p \in Proc |-> 1]
    /\ list = [p \in Proc |-> <<>>]
    /\ pos = [p \in Proc |-> 1]
    /\ fault \in [Proc -> BOOLEAN]
    /\ tried = [p \in Proc |-> {}]
    /\ starved = [p \in Proc |-> FALSE]
    /\ disturbed = [p \in Proc |-> FALSE]
-----------------------------------------------------------------------------
(* getcmslist()                                                            *)

(***************************************************************************)
(* addcmsnode(): before the first node with a later time, and so after the *)
(* nodes with the same time.                                               *)
(***************************************************************************)
LaterFirst(l, t) ==    \* mutant: most recently tried first
    {i \in 1 .. Len(l) : t >= l[i].time}
Later(l, t) == {i \in 1 .. Len(l) : t < l[i].time}

Insert(l, n) ==
    LET later == Later(l, n.time)
        k == IF later = {} THEN Len(l) + 1
             ELSE CHOOSE i \in later : \A j \in later : i <= j
    IN  SubSeq(l, 1, k - 1) \o <<n>> \o SubSeq(l, k, Len(l))

Start(p) ==
    /\ pc[p] = "start"
    /\ pc' = [pc EXCEPT ![p] = "build"]
    /\ UNCHANGED <<now, stat, entry, list, pos, fault, tried, starved, disturbed>>

\* One entry of the hosts file; its status file is looked up at that moment.
AddHost(p) ==
    /\ pc[p] = "build"
    /\ entry[p] <= Len(File)
    /\ LET h == File[entry[p]]
       IN  \/ /\ h \in Rejected
              /\ UNCHANGED <<list, starved>>
           \/ /\ h \notin Rejected
              /\ list' = [list EXCEPT ![p] =
                            Insert(@, [host |-> h, time |-> stat[h]])]
              /\ starved' = starved
           \/ /\ h \notin Rejected /\ NoMemory
              /\ list' = [list EXCEPT ![p] = <<>>]     \* NULL is assigned to cmslist
              /\ starved' = [starved EXCEPT ![p] = TRUE]
    /\ entry' = [entry EXCEPT ![p] = @ + 1]
    /\ UNCHANGED <<now, stat, pc, pos, fault, tried, disturbed>>

ListDone(p) ==
    /\ pc[p] = "build"
    /\ entry[p] > Len(File)
    /\ pc' = [pc EXCEPT ![p] = "turn"]
    /\ UNCHANGED <<now, stat, entry, list, pos, fault, tried, starved, disturbed>>
-----------------------------------------------------------------------------
(* The host loop of main()                                                 *)

Current(p) == list[p][pos[p]].host

\* utime(statfile, NULL); a failure is only logged.
Touched(h) == [stat EXCEPT ![h] = now]

Turn(p) ==
    /\ pc[p] = "turn"
    /\ pos[p] <= Len(list[p])
    /\ \/ /\ stat' = Touched(Current(p))
          /\ disturbed' = [q \in Proc |-> disturbed[q] \/ (q # p /\ Live(q))]
       \/ UNCHANGED <<stat, disturbed>>
    /\ pc' = [pc EXCEPT ![p] = "session"]
    /\ UNCHANGED <<now, entry, list, pos, fault, tried, starved>>

\* "Invalid CMS host table!" or "failed to connect to any CMS host".
Exhausted(p) ==
    /\ pc[p] = "turn"
    /\ pos[p] > Len(list[p])
    /\ pc' = [pc EXCEPT ![p] = "failed"]
    /\ UNCHANGED <<now, stat, entry, list, pos, fault, tried, starved, disturbed>>

\* cmsSession() before it connects: no port, no channel data, no password.
Refuse(p) ==
    /\ pc[p] = "session"
    /\ fault[p]
    /\ pc' = [pc EXCEPT ![p] = "fatal"]
    /\ UNCHANGED <<now, stat, entry, list, pos, fault, tried, starved, disturbed>>

\* cmsSession() and gateway(): the session is over ("served"), the gateway
\* cannot go on ("fatal"), or the next host is tried.
SkipTwo(i) == i + 2                                 \* mutant: a host is passed over
Skip(i) == i + 1

Session(p) ==
    /\ pc[p] = "session"
    /\ ~fault[p]
    /\ tried' = [tried EXCEPT ![p] = @ \cup {Current(p)}]
    /\ \/ /\ pc' = [pc EXCEPT ![p] = "turn"]
          /\ pos' = [pos EXCEPT ![p] = Skip(@)]
       \/ /\ \E end \in {"served", "fatal"} : pc' = [pc EXCEPT ![p] = end]
          /\ pos' = pos
    /\ UNCHANGED <<now, stat, entry, list, fault, starved, disturbed>>

Tick ==
    /\ now < MaxTime
    /\ now' = now + 1
    /\ UNCHANGED <<stat, pc, entry, list, pos, fault, tried, starved, disturbed>>

Step(p) == \/ Start(p) \/ AddHost(p) \/ ListDone(p)
           \/ Turn(p) \/ Exhausted(p) \/ Refuse(p) \/ Session(p)

Next == Tick \/ \E p \in Proc : Step(p)

Spec == Init /\ [][Next]_vars
-----------------------------------------------------------------------------
(* Properties                                                              *)

TypeOK ==
    /\ now \in 1 .. MaxTime
    /\ stat \in [Host -> 0 .. MaxTime]
    /\ pc \in [Proc -> {"start", "build", "turn", "session"} \cup Gone]
    /\ entry \in [Proc -> 1 .. Len(File) + 1]
    /\ list \in [Proc -> Seq(Node)]
    /\ pos \in [Proc -> Nat] /\ \A p \in Proc : pos[p] \in 1 .. Len(list[p]) + 1
    /\ fault \in [Proc -> BOOLEAN]
    /\ tried \in [Proc -> SUBSET Host]
    /\ starved \in [Proc -> BOOLEAN] /\ disturbed \in [Proc -> BOOLEAN]

FileIndex(h) == CHOOSE i \in 1 .. Len(File) : File[i] = h

\* The list holds exactly the usable entries read so far, ordered by the time
\* seen, and in the order of the file where the times are equal.
ListOrdered ==
    \A p \in Proc :
      ~starved[p] =>
        /\ {list[p][i].host : i \in 1 .. Len(list[p])} =
             {File[i] : i \in 1 .. entry[p] - 1} \ Rejected
        /\ \A i, j \in 1 .. Len(list[p]) :
             i < j => \/ list[p][i].time < list[p][j].time
                      \/ /\ list[p][i].time = list[p][j].time
                         /\ FileIndex(list[p][i].host) < FileIndex(list[p][j].host)

\* "The gateway will attempt to connect to the CMS host that was least recently
\* tried" (man/rmsgw.1): no host that is still to come in the list was tried
\* less recently than the host whose turn it is - unless another process has
\* turned to a host since this one began to build its list.
LeastRecentFirst ==
    \A p \in Proc :
      pc[p] = "turn" /\ ~disturbed[p] =>
        \A i \in pos[p] .. Len(list[p]) : stat[Current(p)] <= stat[list[p][i].host]

\* "failed to connect to any CMS host" is said only when a connection to every
\* usable host was attempted.
FailedMeansAllTried ==
    \A p \in Proc : pc[p] = "failed" /\ ~starved[p] => tried[p] = Usable
=============================================================================
