------------------------------- MODULE Monitor -------------------------------
(***************************************************************************)
(* rmsgwmon: the refresh loop of rmsgwmon.c, which reads the status block  *)
(* field by field and without a lock while gateways (StatTable) and        *)
(* check-ins (AciBlock) write it, and draws two curses windows.  A window  *)
(* keeps its attributes from one refresh to the next; werase() does not    *)
(* reset them.                                                             *)
(***************************************************************************)
EXTENDS StatTable, AciBlock, Sequences

CONSTANT Slots      \* the rows of the gateway table: the callsigns in order

ASSUME MonitorAssumption ==
    /\ Slots \in Seq(Call)
    /\ \A c \in Call : \E i \in 1 .. Len(Slots) : Slots[i] = c

VARIABLES
    mpc,       \* where the monitor is
    row,       \* i, the row being drawn
    pen,       \* the colour that is on in aciwin: "none", "active", "last"
    invis,     \* A_INVIS is on in gwwin
    title,     \* what this refresh has drawn: state and host index in aciwin,
    marks,     \* name and colour of each row of aciwin,
    gwRows,    \* each row of gwwin,
    noHead,    \* and whether its headings are hidden
    quiet,     \* history: since this refresh began, nobody has written
    leftOn     \* history: A_INVIS was on when it began

mvars == <<mpc, row, pen, invis, title, marks, gwRows, noHead>>
writers == <<tvars, acivars>>
histories == <<quiet, leftOn>>
allvars == <<writers, mvars, histories>>

\* A row of gwwin: its state, and the parts that were written while A_INVIS was
\* on; "counters" is the state, the counters and the callsign.
Part == {"number", "pid", "counters", "client"}
Blank == [state |-> "GW_UNUSED", hidden |-> {}]
NoRows == [i \in 1 .. Len(Slots) |-> Blank]

MInit == /\ Init /\ AciInit
         /\ mpc = "refresh" /\ row = 0
         /\ pen = "none" /\ invis = FALSE
         /\ title = <<"none", 0>> /\ marks = <<>> /\ gwRows = NoRows
         /\ noHead = FALSE /\ quiet = FALSE /\ leftOn = FALSE
-----------------------------------------------------------------------------
(* aciStatus(): werase(), the title and the headings, the rows             *)

\* The wattroff() calls of the title and the headings leave no colour on.
DrawTitle ==
    /\ mpc = "refresh"
    /\ title' = <<aciState, hostIdx>>
    /\ marks' = <<>> /\ gwRows' = NoRows
    /\ pen' = "none"
    /\ row' = 0
    /\ mpc' = "aciName"
    /\ UNCHANGED <<invis, noHead>>

\* strlen() of the name: the rows end with the first empty one.
AciName ==
    /\ mpc = "aciName"
    /\ mpc' = IF row < CmsSlots /\ aciHost[row].name # "free" THEN "aciState" ELSE "heading"
    /\ UNCHANGED <<row, pen, invis, title, marks, gwRows, noHead>>

\* Which colour the row of hostidx would get.
AciColour ==
    /\ mpc = "aciState"
    /\ mpc' = IF aciState # "ACI_IDLE" THEN "active" ELSE "last"
    /\ UNCHANGED <<row, pen, invis, title, marks, gwRows, noHead>>

AciRow ==
    /\ mpc \in {"active", "last"}
    /\ pen' = IF hostIdx = row THEN mpc ELSE pen
    /\ marks' = Append(marks, [name |-> aciHost[row].name, mark |-> pen'])
    /\ mpc' = "unmark"
    /\ UNCHANGED <<row, invis, title, gwRows, noHead>>

\* wattroff() of any colour pair takes the colour off, so only the index read
\* again decides.
AciUnmark ==
    /\ mpc = "unmark"
    /\ pen' = IF hostIdx = row THEN "none" ELSE pen
    /\ row' = row + 1
    /\ mpc' = "aciName"
    /\ UNCHANGED <<invis, title, marks, gwRows, noHead>>
-----------------------------------------------------------------------------
(* gwStatus(): five reads of gw_state per row, one step each with what is  *)
(* drawn after it                                                          *)

State == table[Slots[row]].state

\* wprintw() while A_INVIS is on or off
Draw(part, hide) ==
    gwRows' = [gwRows EXCEPT ![row].hidden = IF hide THEN @ \cup {part} ELSE @]

GwHeading ==
    /\ mpc = "heading"
    /\ row' = 1
    /\ noHead' = invis
    /\ mpc' = "gwRow"
    /\ UNCHANGED <<pen, invis, title, marks, gwRows>>

StopAtUnused == mpc' = "wait" /\ row' = 0     \* mutant: break for continue
SkipUnused == mpc' = "gwRow" /\ row' = row + 1

GwRow ==
    /\ mpc = "gwRow" /\ row <= Len(Slots)
    /\ \/ State = "GW_UNUSED" /\ SkipUnused /\ UNCHANGED gwRows
       \/ State # "GW_UNUSED" /\ mpc' = "pid" /\ Draw("number", invis) /\ UNCHANGED row
    /\ UNCHANGED <<pen, invis, title, marks, noHead>>

GwEnd ==
    /\ mpc = "gwRow" /\ row > Len(Slots)
    /\ mpc' = "wait"
    /\ UNCHANGED <<row, pen, invis, title, marks, gwRows, noHead>>

\* wattron(A_INVIS) and wattroff(A_INVIS), if the gateway is idle
InvisOn == invis' = (invis \/ State = "GW_IDLE")
OffNever == invis' = invis              \* mutant: the attribute stays on
InvisOff == invis' = (invis /\ State # "GW_IDLE")

GwPid ==
    /\ mpc = "pid"
    /\ InvisOn
    /\ Draw("pid", invis')
    /\ mpc' = "state"
    /\ UNCHANGED <<row, pen, title, marks, noHead>>

GwUnhide ==
    /\ mpc = "state"
    /\ InvisOff
    /\ mpc' = "counters"
    /\ UNCHANGED <<row, pen, title, marks, gwRows, noHead>>

GwCounters ==
    /\ mpc = "counters"
    /\ gwRows' = [gwRows EXCEPT ![row] =
                     [state |-> State,
                      hidden |-> IF invis THEN @.hidden \cup {"counters"} ELSE @.hidden]]
    /\ mpc' = "client"
    /\ UNCHANGED <<row, pen, invis, title, marks, noHead>>

GwClient ==
    /\ mpc = "client"
    /\ InvisOn
    /\ Draw("client", invis')
    /\ mpc' = "off"
    /\ UNCHANGED <<row, pen, title, marks, noHead>>

GwOff ==
    /\ mpc = "off"
    /\ InvisOff
    /\ row' = row + 1
    /\ mpc' = "gwRow"
    /\ UNCHANGED <<pen, title, marks, gwRows, noHead>>
-----------------------------------------------------------------------------
(* gwStatRun(): select() for half a second                                 *)

\* A timeout, EINTR, or a key that does nothing; the interval keys only set a
\* variable nobody reads.
Again == /\ mpc = "wait"
         /\ mpc' = "refresh"
         /\ UNCHANGED <<row, pen, invis, title, marks, gwRows, noHead>>

\* A key that quits, or another error of select().
Quit == /\ mpc = "wait"
        /\ mpc' = "quit"
        /\ UNCHANGED <<row, pen, invis, title, marks, gwRows, noHead>>

Refresh == \/ DrawTitle \/ AciName \/ AciColour \/ AciRow \/ AciUnmark
           \/ GwHeading \/ GwRow \/ GwEnd \/ GwPid \/ GwUnhide \/ GwCounters
           \/ GwClient \/ GwOff \/ Again

Monitor == /\ Refresh \/ Quit
           /\ quiet' = (mpc = "refresh" \/ quiet)
           /\ leftOn' = IF mpc = "refresh" THEN invis ELSE leftOn
           /\ UNCHANGED writers

\* Bounds of the instance: one gateway at a time runs, beside an ACI that never
\* did, or check-ins do, beside idle gateways, those that overlap while the
\* monitor waits.
Gateways == /\ \A p \in Run : apc[p] = "start"
            /\ aciHost[0].name = "free"
            /\ Next
            /\ Cardinality({p \in Proc : Active(p)}') <= 1
            /\ UNCHANGED acivars
CheckIns == /\ \A p \in Proc : at[p] = "start"
            /\ \A c \in Call : table[c].state = "GW_IDLE"
            /\ AciStep
            /\ alone' # 0 \/ mpc = "wait"
            /\ UNCHANGED tvars

Write == /\ Gateways \/ CheckIns
         /\ quiet' = FALSE
         /\ UNCHANGED <<mvars, leftOn>>

MNext == Monitor \/ Write

\* The monitor runs on, and select() has a timeout; writers may stop anywhere.
MSpec == MInit /\ [][MNext]_allvars /\ WF_allvars(Refresh /\ Monitor)
-----------------------------------------------------------------------------
(* Properties                                                              *)

MonitorTypeOK ==
    /\ mpc \in {"refresh", "aciName", "aciState", "active", "last", "unmark",
               "heading", "gwRow", "pid", "state", "counters", "client", "off",
               "wait", "quit"}
    /\ row \in 0 .. CmsSlots + Len(Slots) + 1
    /\ pen \in {"none", "active", "last"} /\ {invis, noHead, quiet, leftOn} \subseteq BOOLEAN
    /\ title \in (AciState \cup {"none"}) \X (-1 .. CmsSlots - 1)
    /\ Len(marks) <= CmsSlots
    /\ \A i \in 1 .. Len(Slots) : gwRows[i].state \in GwState /\ gwRows[i].hidden \subseteq Part
    /\ \A s \in CmsSlot : aciHost[s].name \in {"free", "half", "winlink"}
    /\ hostIdx \in -1 .. CmsSlots - 1
    /\ \A p \in Run : aslot[p] \in 0 .. CmsSlots

\* What is hidden in the row of gateway c: pid and client of an idle one, and, if
\* A_INVIS is still on when the row begins, all up to the wattroff() that only an
\* idle row reaches.
Hidden(c, on) ==
    LET idle == table[c].state = "GW_IDLE"
    IN  {part \in Part : \/ idle /\ part \in {"pid", "client"}
                         \/ on /\ (idle => part = "number")}

Shown(c, on) == IF table[c].state = "GW_UNUSED" THEN Blank
                ELSE [state |-> table[c].state, hidden |-> Hidden(c, on)]

GatewaysShown == /\ ~noHead
                 /\ \A i \in 1 .. Len(Slots) : gwRows[i] = Shown(Slots[i], FALSE)

\* All hosts up to the first empty slot, and the current one in colour.
HostsShown ==
    LET Used == {s \in CmsSlot : \A t \in 0 .. s : aciHost[t].name # "free"}
    IN  /\ title = <<aciState, hostIdx>>
        /\ Len(marks) = Cardinality(Used)
        /\ \A s \in Used : marks[s + 1] =
              [name |-> aciHost[s].name,
               mark |-> IF s # hostIdx THEN "none"
                        ELSE IF aciState = "ACI_IDLE" THEN "last" ELSE "active"]

\* An A_INVIS left on by a torn refresh is still on where row i begins: no row
\* before it was idle.
StillOn(i) == leftOn /\ \A j \in 1 .. i - 1 : table[Slots[j]].state # "GW_IDLE"

\* A refresh nobody writes during leaves the hosts and the state of every gateway
\* on the screen as they are in the block.  Pid and client are hidden in the idle
\* rows only, and nothing else is, if it began with A_INVIS off; if a torn refresh
\* before it had left that on, the headings and every row down to the number of
\* the first idle one are hidden, and what comes after is right.
QuietRefresh ==
    mpc = "wait" /\ quiet =>
      /\ HostsShown
      /\ noHead = leftOn
      /\ \A i \in 1 .. Len(Slots) : gwRows[i] = Shown(Slots[i], StillOn(i))

\* If the writers stop, be they over, stalled or killed, and leave some row idle,
\* the screen is right for good: an A_INVIS that an earlier, torn refresh has left
\* on is cleared.
SomeIdle == \E c \in Call : table[c].state = "GW_IDLE"
CatchesUp ==
    <>[][FALSE]_writers /\ <>[](SomeIdle /\ mpc # "quit")
      => <>[](mpc = "wait" => GatewaysShown /\ HostsShown)
=============================================================================
