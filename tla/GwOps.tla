-------------------------------- MODULE GwOps --------------------------------
(***************************************************************************)
(* The status updates one rmsgw process makes during its life, and what    *)
(* each does to the row of the gateway table it resolved to.  Shared by    *)
(* StatBlock (the shared memory as the code accesses it) and StatTable     *)
(* (the table the code means to keep).                                     *)
(***************************************************************************)
EXTENDS Integers

CONSTANT Proc    \* rmsgw processes; each is one run of main() for one client

(***************************************************************************)
(* One element per sbset_/sb_ call site that differs in effect.  The       *)
(* states gateway() publishes between GW_LOGIN and GW_RECEIVING count as   *)
(* "connected"; "closed" and "disconnected" both publish GW_DISCONNECTED,  *)
(* after a session that carried mail and after one that did not.           *)
(***************************************************************************)
Op == {"pid", "running", "connects", "usercall", "cms", "connecting",
       "connected", "bytesOut", "bytesIn", "closed", "disconnected", "idle"}

Counter == {"connects", "bytesOut", "bytesIn"}   \* read-modify-write updates

\* How a process may end: by reaching GW_IDLE, by err() or by a signal.
End == {"exited", "failed", "killed"}

(***************************************************************************)
(* What main() and cmsSession() do after update o: the next update, or     *)
(* exit(0)/exit(99) ("exited"), or err() ("failed": a user callsign that   *)
(* is too long, no socket, an empty or exhausted host list; it ends the    *)
(* process before its GW_IDLE line).                                       *)
(***************************************************************************)
Flow == [o \in Op |->
    CASE o = "pid" -> {"running"}
      [] o = "running" -> {"connects"}
      [] o = "connects" -> {"usercall", "failed"}
      [] o = "usercall" -> {"cms", "failed"}
      [] o = "cms" -> {"connecting", "idle"}
      [] o = "connecting" -> {"connected", "cms", "failed"}
      [] o = "connected" -> {"bytesOut", "disconnected"}
      [] o = "bytesOut" -> {"bytesIn"}
      [] o = "bytesIn" -> {"closed"}
      [] o = "closed" -> {"idle"}
      [] o = "disconnected" -> {"cms", "failed", "idle"}
      [] o = "idle" -> {"exited"}]

\* Mutants: the connect is counted once per host; the fatal exit skips GW_IDLE;
\* the host is not recorded.
FollowRecount(o) == IF o = "cms" THEN {"connects"} ELSE Flow[o]
FollowNoIdle(o) == IF o = "cms" THEN {"connecting", "exited"} ELSE Flow[o]
FollowNoHost(o) == IF o = "usercall" THEN {"connecting"} ELSE Flow[o]

Follow(o) == Flow[o]
-----------------------------------------------------------------------------
(***************************************************************************)
(* A row of the table.  A process stands for its pid, its user's callsign  *)
(* and the host it tries; "zero" is zeroed memory, "none" is pid -1, "old" *)
(* a value an earlier process left.  Each session moves one unit of bytes. *)
(***************************************************************************)
Holder == Proc \cup {"zero", "none", "old"}

GwState == {"GW_UNUSED", "GW_RUNNING", "GW_IDLE", "GW_CONNECTING",
            "GW_CONNECTED", "GW_DISCONNECTED"}

Row == [pid: Holder, client: Holder, cms: Holder, state: GwState,
        connects: Nat, bytesIn: Nat, bytesOut: Nat]

NewRow(pid, who, state) ==
    [pid |-> pid, client |-> who, cms |-> who, state |-> state,
     connects |-> 0, bytesIn |-> 0, bytesOut |-> 0]

\* The counter an update reads before it writes.
Get(o, r) ==
    CASE o = "connects" -> r.connects
      [] o = "bytesOut" -> r.bytesOut
      [] o = "bytesIn"  -> r.bytesIn
      [] OTHER          -> 0

\* Row r after the store of update o by process p; n is what a counter gets.
Put(o, p, n, r) ==
    CASE o = "pid"          -> [r EXCEPT !.pid = p]
      [] o = "usercall"     -> [r EXCEPT !.client = p]
      [] o = "cms"          -> [r EXCEPT !.cms = p]
      [] o = "connects"     -> [r EXCEPT !.connects = n]
      [] o = "bytesOut"     -> [r EXCEPT !.bytesOut = n]
      [] o = "bytesIn"      -> [r EXCEPT !.bytesIn = n]
      [] o = "running"      -> [r EXCEPT !.state = "GW_RUNNING"]
      [] o = "connecting"   -> [r EXCEPT !.state = "GW_CONNECTING"]
      [] o = "connected"    -> [r EXCEPT !.state = "GW_CONNECTED"]
      [] o \in {"closed", "disconnected"} ->
                                [r EXCEPT !.state = "GW_DISCONNECTED"]
      [] o = "idle"         -> [r EXCEPT !.state = "GW_IDLE"]
=============================================================================
