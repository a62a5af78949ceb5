------------------------------ MODULE AciBlock ------------------------------
(***************************************************************************)
(* The ACI part of the shared memory status block as runs of rmsgw_aci     *)
(* change it: sbset_aci_*(), get_cms_slot() and sbset_channel_stats() of   *)
(* lib/statblock.c, one step per access and without a lock, in the order   *)
(* of main() and wl2k_aci().  A run stands for its pid and for the numbers *)
(* it reports; the one host ever looked up is "winlink".  A run that   *)
(* is killed is one that makes no further step.                            *)
(***************************************************************************)
EXTENDS Integers

CONSTANTS
    NAci,       \* runs of rmsgw_aci
    CmsSlots    \* RMS_CMS_TABLE_SIZE (10)

ASSUME AciAssumption == NAci \in Nat /\ CmsSlots \in Nat \ {0}

Run == 1 .. NAci
CmsSlot == 0 .. CmsSlots - 1

AciState == {"ACI_UNUSED", "ACI_RUNNING", "ACI_CHANNELUPDATE",
             "ACI_DISCONNECTED", "ACI_VERSIONUPDATE", "ACI_IDLE"}

VARIABLES
    aciPid, aciState, hostIdx,   \* 0 stands for pid -1
    aciHost,   \* aciHost[s]: name ("free", "half" or "winlink"), updates, errors
    apc,       \* apc[p]: what run p does next, or "start", "over"
    aslot,     \* aslot[p]: the index of its search
    alone      \* history: no other run has made a step since this one began

acivars == <<aciPid, aciState, hostIdx, aciHost, apc, aslot, alone>>

\* The block as initialised, but for names that killed runs have left half
\* written: strncpy() stores a name in more than one piece.
AciInit ==
    /\ aciPid = 0 /\ aciState = "ACI_UNUSED" /\ hostIdx = -1
    /\ \E k \in 0 .. CmsSlots :
         aciHost = [s \in CmsSlot |-> [name |-> IF s < k THEN "half" ELSE "free",
                                       updates |-> 0, errors |-> 0]]
    /\ apc = [p \in Run |-> "start"]
    /\ aslot = [p \in Run |-> 0]
    /\ alone = 0

AciGoto(p, where) == apc' = [apc EXCEPT ![p] = where]

Alone(p) == alone' = IF alone = p \/ apc[p] = "start" THEN p ELSE 0
-----------------------------------------------------------------------------
SetAciPid(p) ==
    /\ apc[p] = "start"
    /\ aciPid' = p
    /\ AciGoto(p, "running")
    /\ Alone(p)
    /\ UNCHANGED <<aciState, hostIdx, aciHost, aslot>>

\* sbset_aci_state() calls: where, the state stored, and where the run goes on.
AciFlow == {<<"running",      "ACI_RUNNING",       "report">>,
            <<"running",      "ACI_RUNNING",       "search">>,
            <<"report",       "ACI_CHANNELUPDATE", "running">>,
            <<"disconnected", "ACI_DISCONNECTED",  "version">>,
            <<"disconnected", "ACI_DISCONNECTED",  "idle">>,
            <<"version",      "ACI_VERSIONUPDATE", "versioned">>,
            <<"versioned",    "ACI_RUNNING",       "idle">>,
            <<"idle",         "ACI_IDLE",          "over">>}

SetAciState(p) ==
    \E f \in AciFlow :
      /\ apc[p] = f[1]
      /\ aciState' = f[2]
      /\ AciGoto(p, f[3])
      /\ Alone(p)
      /\ UNCHANGED <<aciPid, hostIdx, aciHost, aslot>>
-----------------------------------------------------------------------------
(* get_cms_slot()                                                          *)

SameStart(name) == name # "free"            \* mutant: what is stored is compared
SameHost(name) == name = "winlink"

PastTableUsed == "publish"               \* mutant: the index is used unchecked
PastTable == "disconnected"

SearchHost(p) ==
    /\ apc[p] = "search"
    /\ \/ aslot[p] = CmsSlots /\ AciGoto(p, PastTable) /\ UNCHANGED aslot
       \/ /\ aslot[p] < CmsSlots
          /\ LET name == aciHost[aslot[p]].name
             IN  \/ name = "free" /\ AciGoto(p, "claim") /\ UNCHANGED aslot
                 \/ SameHost(name) /\ AciGoto(p, "publish") /\ UNCHANGED aslot
                 \/ /\ name # "free" /\ ~SameHost(name)
                    /\ aslot' = [aslot EXCEPT ![p] = @ + 1]
                    /\ UNCHANGED apc
    /\ Alone(p)
    /\ UNCHANGED <<aciPid, aciState, hostIdx, aciHost>>

\* strncpy(): the first piece of a name over a whole one leaves it whole.
ClaimHost(p) ==
    /\ \/ /\ apc[p] = "claim" /\ AciGoto(p, "claim2")
          /\ aciHost' = [aciHost EXCEPT ![aslot[p]].name = IF @ = "free" THEN "half" ELSE @]
       \/ /\ apc[p] = "claim2" /\ AciGoto(p, "publish")
          /\ aciHost' = [aciHost EXCEPT ![aslot[p]].name = "winlink"]
    /\ Alone(p)
    /\ UNCHANGED <<aciPid, aciState, hostIdx, aslot>>

PublishHost(p) ==
    /\ apc[p] = "publish"
    /\ hostIdx' = aslot[p]
    /\ AciGoto(p, "updates")
    /\ Alone(p)
    /\ UNCHANGED <<aciPid, aciState, aciHost, aslot>>

\* sbset_channel_stats(), after get_cms_slot()
StoreStats(p) ==
    /\ \/ /\ apc[p] = "updates" /\ AciGoto(p, "errors")
          /\ aciHost' = [aciHost EXCEPT ![aslot[p]].updates = p]
       \/ /\ apc[p] = "errors" /\ AciGoto(p, "disconnected")
          /\ aciHost' = [aciHost EXCEPT ![aslot[p]].errors = p]
    /\ Alone(p)
    /\ UNCHANGED <<aciPid, aciState, hostIdx, aslot>>

AciStep == \E p \in Run : \/ SetAciPid(p) \/ SetAciState(p) \/ SearchHost(p)
                          \/ ClaimHost(p) \/ PublishHost(p) \/ StoreStats(p)
-----------------------------------------------------------------------------
\* What other runs, killed or stalled at any point, leave behind does not reach
\* the results of a run that is over and was not interrupted: unless every slot
\* is spoilt, the published index names the host, with the numbers of this run.
LastRunShown ==
    \A p \in Run : alone = p /\ apc[p] = "over" =>
      /\ aciState = "ACI_IDLE" /\ aciPid = p
      /\ \/ \A s \in CmsSlot : aciHost[s].name = "half"
         \/ /\ hostIdx \in CmsSlot
            /\ aciHost[hostIdx] = [name |-> "winlink", updates |-> p, errors |-> p]
=============================================================================
