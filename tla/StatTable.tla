------------------------------ MODULE StatTable ------------------------------
(***************************************************************************)
(* What the gateway status table promises: one row per callsign, each      *)
(* status update of a process one indivisible change of the row of its     *)
(* callsign.  It is what the code would keep if the "TODO: enter monitor"  *)
(* of lib/statblock.c were in place.  StatBlock implements it once every   *)
(* callsign has its slot and each serves one client at a time.             *)
(***************************************************************************)
EXTENDS GwOps, FiniteSets

CONSTANTS Call, callOf, Serial, Crashes     \* as in StatBlock

VARIABLES
    table,     \* table[c]: the row of callsign c
    at,        \* at[p]: the update p makes next, "start", or how it ended
    counted    \* history: the processes that counted their connection

tvars == <<table, at, counted>>

Active(p) == at[p] \in Op

Init == /\ table \in [Call -> {NewRow("none", "zero", "GW_UNUSED"),
                               NewRow("old", "old", "GW_IDLE")}]
        /\ at = [p \in Proc |-> "start"]
        /\ counted = {}

Begin(p) ==
    /\ at[p] = "start"
    /\ Serial => \A q \in Proc : callOf[q] = callOf[p] => ~Active(q)
    /\ at' = [at EXCEPT ![p] = "pid"]
    /\ UNCHANGED <<table, counted>>

Update(p) ==
    /\ Active(p)
    /\ table' = [table EXCEPT ![callOf[p]] = Put(at[p], p, Get(at[p], @) + 1, @)]
    /\ \E o \in Follow(at[p]) : at' = [at EXCEPT ![p] = o]
    /\ counted' = IF at[p] = "connects" THEN counted \cup {p} ELSE counted

\* A process that is killed.
Vanish(p) ==
    /\ Crashes
    /\ Active(p)
    /\ at' = [at EXCEPT ![p] = "killed"]
    /\ UNCHANGED <<table, counted>>

Next == \E p \in Proc : Begin(p) \/ Update(p) \/ Vanish(p)

Spec == Init /\ [][Next]_tvars
-----------------------------------------------------------------------------
\* Every connection of a callsign is counted exactly once in its row, and the
\* bytes of a session only after its connection, out before in.
Accounted ==
    \A c \in Call :
      /\ table[c].connects = Cardinality({p \in counted : callOf[p] = c})
      /\ table[c].bytesIn <= table[c].bytesOut
      /\ table[c].bytesOut <= table[c].connects

\* From its first connection attempt to its end a process finds in its row
\* its own pid, user and host: the row describes one session, not two.
OneSessionPerRow ==
    Serial =>
      \A p \in Proc :
        at[p] \in {"connected", "bytesOut", "bytesIn", "closed", "disconnected"}
          => LET r == table[callOf[p]]
             IN  r.pid = p /\ r.client = p /\ r.cms = p
=============================================================================
