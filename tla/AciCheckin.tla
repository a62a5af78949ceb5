----------------------------- MODULE AciCheckin -----------------------------
(***************************************************************************)
(* The automatic check-in: runs of rmsgw_aci, started by cron, that report *)
(* the channels of channels.xml and the software version to the winlink    *)
(* system, paced by the ages of status files (rmsgw_aci.c, wl2k_aci.c).    *)
(* The statistics of a run, and their stores, are AciBlock's.              *)
(***************************************************************************)
EXTENDS Integers, Sequences, FiniteSets

CONSTANTS
    Proc,            \* runs of rmsgw_aci
    Chan,            \* channels
    File,            \* channels.xml: the channels in the order of the file
    Enabled,         \* channels with active="yes"
    Interval,        \* seconds between channel updates (7140)
    VersionInterval, \* seconds between version updates (86400)
    Base, MaxTime,   \* the clock (time_t) runs from Base to MaxTime
    MaxEdits         \* how often the sysop edits channels.xml meanwhile

ASSUME CheckinAssumption ==
    /\ IsFiniteSet(Proc) /\ IsFiniteSet(Chan)
    /\ File \in Seq(Chan) /\ Enabled \subseteq Chan
    /\ {Interval, VersionInterval, Base, MaxTime, MaxEdits} \subseteq Nat
    /\ "version" \notin Chan
    /\ Base <= MaxTime
    \* a file that does not exist (time 0) is older than any interval
    /\ Base >= Interval /\ Base >= VersionInterval

VARIABLES
    now,          \* the clock
    fileTime,     \* modification time of channels.xml
    edition,      \* what is in it: how often it has been edited
    statTime,     \* statTime[c]: that of the status file of c; 0: no file
    versionTime,  \* that of the status file of the version
    aci,          \* aci_state in shared memory
    pc,           \* where each run is
    next,         \* next[p]: the entry of channels.xml p reads next
    fileAge,      \* fileAge[p]: channels_age
    read,         \* read[p]: the edition the script p has called has read
    post,         \* post[p]: the entry that script posts next
    noticed,      \* history: the last edition written while no script that
                  \* had read an older one was under way, and not in a
                  \* second in which a status file had been touched
    expected,     \* history: noticed when p measured channels_age
    skipped,      \* history: skipped[p]: entries p found inactive or down
    sent,         \* history: sent[c]: the edition c was last posted from
    failed,       \* history: failed[c]: the edition the last script called
                  \* for c that failed had read, or could have
    overlapped,   \* history: two runs have been under way at once
    reports       \* history, until then: when the script was last called for
                  \* a channel, or for the version; 0: never, or the touch
                  \* failed

shared == <<now, fileTime, edition, statTime, versionTime, aci>>
local == <<pc, next, fileAge, read, post>>
history == <<noticed, expected, skipped, sent, failed, overlapped, reports>>
vars == <<shared, local, history>>

Live(p) == pc[p] \notin {"start", "exited"}

Never == [k \in Chan \cup {"version"} |-> 0]

Init ==
    /\ now = Base
    /\ fileTime \in {0, Base}
    /\ edition = 0
    /\ statTime \in [Chan -> {0, Base}]
    /\ versionTime = 0
    /\ aci = "ACI_UNUSED"
    /\ pc = [p \in Proc |-> "start"]
    /\ next = [p \in Proc |-> 1]
    /\ fileAge = [p \in Proc |-> 0]
    /\ read = [p \in Proc |-> 0]
    /\ post = [p \in Proc |-> 1]
    /\ noticed = 0
    /\ expected = [p \in Proc |-> 0]
    /\ skipped = [p \in Proc |-> {}]
    /\ sent = [c \in Chan |-> 0]
    /\ failed = [c \in Chan |-> 0]
    /\ overlapped = FALSE
    /\ reports = Never

AgeSwapped(time) == time - now                    \* mutant: operands swapped
Age(time) == now - time

Goto(p, where) == pc' = [pc EXCEPT ![p] = where]

Reported(k, time) ==
    reports' = IF overlapped THEN reports ELSE [reports EXCEPT ![k] = time]
-----------------------------------------------------------------------------
(* The start of main() and of wl2k_aci()                                   *)

Begin(p) ==
    /\ pc[p] = "start"
    /\ aci' = "ACI_RUNNING"
    /\ Goto(p, "open")
    /\ \/ (\A q \in Proc : ~Live(q)) /\ UNCHANGED <<overlapped, reports>>
       \/ (\E q \in Proc : Live(q)) /\ overlapped' = TRUE /\ reports' = Never
    /\ UNCHANGED <<now, fileTime, edition, statTime, versionTime,
                   next, fileAge, read, post,
                   noticed, expected, skipped, sent, failed>>

OpenChannels(p) ==
    /\ pc[p] = "open"
    /\ fileAge' = [fileAge EXCEPT ![p] = Age(fileTime)]
    /\ expected' = [expected EXCEPT ![p] = noticed]
    /\ Goto(p, "channel")
    /\ UNCHANGED <<shared, next, read, post,
                   noticed, skipped, sent, failed, overlapped, reports>>
-----------------------------------------------------------------------------
(* The loop over the channels                                              *)

Channel(p) == File[next[p]]

NextEntry(p) == next' = [next EXCEPT ![p] = @ + 1]

\* The channel is not active="yes", or its status checker, which may say
\* anything, says that an active one is down.
Skip(p) ==
    /\ pc[p] = "channel"
    /\ next[p] <= Len(File)
    /\ NextEntry(p)
    /\ skipped' = [skipped EXCEPT ![p] = @ \cup {next[p]}]
    /\ UNCHANGED <<shared, pc, fileAge, read, post,
                   noticed, expected, sent, failed, overlapped, reports>>

\* The channels file is younger than the status, by the ages measured.
YoungerOnly(age, status) == age > status          \* mutant: the wrong way round
Younger(age, status) == age < status

\* status_age >= channel_update_interval || channels_age < status_age
Due(p, c) == \/ Age(statTime[c]) >= Interval
             \/ Younger(fileAge[p], Age(statTime[c]))

\* The channel is active and available: the age of its status file.
Decide(p) ==
    /\ pc[p] = "channel"
    /\ next[p] <= Len(File)
    /\ Channel(p) \in Enabled
    /\ LET c == Channel(p)
       IN  IF Due(p, c)
           THEN /\ aci' = "ACI_CHANNELUPDATE"
                /\ Reported(c, now)
                /\ Goto(p, "script")
                /\ next' = next
           ELSE /\ NextEntry(p)
                /\ UNCHANGED <<aci, pc, reports>>
    /\ UNCHANGED <<now, fileTime, edition, statTime, versionTime,
                   fileAge, read, post,
                   noticed, expected, skipped, sent, failed, overlapped>>
-----------------------------------------------------------------------------
(* updatechannel.py, whichever channel it was called for: it reads         *)
(* channels.xml itself, posts every channel in it, and exits with 1 at the *)
(* first request that fails.                                               *)

ScriptReads(p) ==
    /\ pc[p] = "script"
    /\ read' = [read EXCEPT ![p] = edition]
    /\ Goto(p, "posting")
    /\ UNCHANGED <<shared, next, fileAge, post, history>>

Post(p) ==
    /\ pc[p] = "posting"
    /\ post[p] <= Len(File)
    /\ sent' = [sent EXCEPT ![File[post[p]]] = read[p]]
    /\ post' = [post EXCEPT ![p] = @ + 1]
    /\ UNCHANGED <<shared, pc, next, fileAge, read,
                   noticed, expected, skipped, failed, overlapped, reports>>

ScriptEnds(p) ==
    /\ aci' = "ACI_RUNNING"
    /\ Goto(p, "touch")
    /\ read' = [read EXCEPT ![p] = 0]
    /\ post' = [post EXCEPT ![p] = 1]
    /\ UNCHANGED <<now, fileTime, edition, statTime, versionTime,
                   next, fileAge, noticed, expected, skipped, sent,
                   overlapped, reports>>

ScriptDone(p) ==
    /\ pc[p] = "posting"
    /\ post[p] > Len(File)
    /\ failed' = failed
    /\ ScriptEnds(p)

\* It exits with 1 or is killed; either way its call is over.
ScriptFails(p) ==
    /\ \/ pc[p] = "script"
          /\ failed' = [failed EXCEPT ![Channel(p)] = edition]
       \/ pc[p] = "posting" /\ post[p] <= Len(File)
          /\ failed' = [failed EXCEPT ![Channel(p)] = read[p]]
    /\ ScriptEnds(p)

\* setstatfile(), whatever became of the report; that it fails is only logged.
TouchedNot(time) == time                           \* mutant: no touch
Touched(time) == now

Touch(p) ==
    /\ pc[p] = "touch"
    /\ LET c == Channel(p)
       IN  \/ statTime' = [statTime EXCEPT ![c] = Touched(@)] /\ reports' = reports
           \/ statTime' = statTime /\ Reported(c, 0)
    /\ NextEntry(p)
    /\ Goto(p, "channel")
    /\ UNCHANGED <<now, fileTime, edition, versionTime, aci,
                   fileAge, read, post,
                   noticed, expected, skipped, sent, failed, overlapped>>
-----------------------------------------------------------------------------
(* The rest of main()                                                      *)

\* From here a run only sets aci_state and, in between, handles the version.
SetState(p, from, state, to) ==
    /\ pc[p] = from
    /\ aci' = state
    /\ Goto(p, to)
    /\ UNCHANGED <<now, fileTime, edition, statTime, versionTime,
                   next, fileAge, read, post, history>>

AfterTouchExit == "exited"                 \* mutant: exit() without ACI_IDLE
AfterTouch == "idle"

Disconnect(p) ==
    /\ pc[p] = "channel"
    /\ next[p] > Len(File)
    /\ aci' = "ACI_DISCONNECTED"
    /\ fileAge' = [fileAge EXCEPT ![p] = 0]
    /\ Goto(p, "version")
    /\ UNCHANGED <<now, fileTime, edition, statTime, versionTime,
                   next, read, post, history>>

VersionDue == Age(versionTime) >= VersionInterval

VersionUpdate(p) ==
    /\ pc[p] = "version"
    /\ IF VersionDue
       THEN /\ aci' = "ACI_VERSIONUPDATE"
            /\ Reported("version", now)
            /\ Goto(p, "sendversion")
       ELSE Goto(p, "idle") /\ UNCHANGED <<aci, reports>>
    /\ UNCHANGED <<now, fileTime, edition, statTime, versionTime,
                   next, fileAge, read, post,
                   noticed, expected, skipped, sent, failed, overlapped>>

\* The result of sendVersion() is not looked at.
VersionSent(p) == SetState(p, "sendversion", "ACI_RUNNING", "touchversion")

TouchVersion(p) ==
    /\ pc[p] = "touchversion"
    /\ \/ versionTime' = Touched(versionTime) /\ reports' = reports
       \/ versionTime' = versionTime /\ Reported("version", 0)
    /\ Goto(p, AfterTouch)
    /\ UNCHANGED <<now, fileTime, edition, statTime, aci,
                   next, fileAge, read, post,
                   noticed, expected, skipped, sent, failed, overlapped>>

Idle(p) == SetState(p, "idle", "ACI_IDLE", "exited")
-----------------------------------------------------------------------------
Tick == /\ now < MaxTime
        /\ now' = now + 1
        /\ UNCHANGED <<fileTime, edition, statTime, versionTime, aci,
                       local, history>>

\* A script has read channels.xml, or has failed to, and its call still has to
\* touch the status file.
Reporting(p) == pc[p] \in {"posting", "touch"}

Edit == /\ edition < MaxEdits
        /\ edition' = edition + 1
        /\ fileTime' = now
        /\ noticed' = IF \/ \E p \in Proc : Reporting(p)
                         \/ \E c \in Chan : statTime[c] = now
                      THEN noticed ELSE edition'
        /\ UNCHANGED <<now, statTime, versionTime, aci, local,
                       expected, skipped, sent, failed, overlapped, reports>>

Step(p) == \/ Begin(p) \/ OpenChannels(p) \/ Skip(p) \/ Decide(p)
           \/ ScriptReads(p) \/ Post(p) \/ ScriptDone(p) \/ ScriptFails(p) \/ Touch(p)
           \/ Disconnect(p) \/ VersionUpdate(p) \/ VersionSent(p) \/ TouchVersion(p) \/ Idle(p)

Next == Tick \/ Edit \/ \E p \in Proc : Step(p)

Spec == Init /\ [][Next]_vars
-----------------------------------------------------------------------------
(* Properties                                                              *)

\* The types, with no time ahead of the clock's last, and no script, and not
\* Winlink, ahead of channels.xml.
TypeOK ==
    /\ now \in Base .. MaxTime /\ fileTime \in 0 .. MaxTime /\ edition \in 0 .. MaxEdits
    /\ statTime \in [Chan -> 0 .. MaxTime] /\ versionTime \in 0 .. MaxTime
    /\ aci \in {"ACI_UNUSED", "ACI_RUNNING", "ACI_CHANNELUPDATE",
                "ACI_DISCONNECTED", "ACI_VERSIONUPDATE", "ACI_IDLE"}
    /\ pc \in [Proc -> {"start", "open", "channel", "script", "posting", "touch",
                        "version", "sendversion", "touchversion", "idle", "exited"}]
    /\ next \in [Proc -> 1 .. Len(File) + 1] /\ post \in [Proc -> 1 .. Len(File) + 1]
    /\ fileAge \in [Proc -> 0 .. MaxTime]
    /\ read \in [Proc -> 0 .. edition] /\ sent \in [Chan -> 0 .. edition]

\* Edition e of channels.xml, or a later one, has been posted for channel c, or
\* the script called for c has failed and could have posted it.
Handled(c, e) == sent[c] >= e \/ failed[c] >= e

Through(p) == pc[p] \in {"version", "sendversion", "touchversion", "idle", "exited"}

\* An edit of channels.xml is reported by the next run: once a run is through
\* with the channels, what was posted last for each one it found up is no older
\* than the edition it had to expect - unless a script called for it has failed,
\* which is not repeated.  This although the two ages it compares were measured
\* at different times, other runs report meanwhile from editions of their own,
\* and their touches make status files look new.  The edit must not have been
\* made while a script that had read channels.xml before was under way, nor in
\* a second in which a status file was touched: such a one may be overlooked
\* (see noticed).
EditReported ==
    \A p \in Proc : Through(p) =>
        \A i \in 1 .. Len(File) : i \in skipped[p] \/ Handled(File[i], expected[p])

\* With one run at a time, p calls the script for a channel only if it was last
\* called an interval ago, or longer ago than channels.xml was old when p began.
ReportPaced(p) ==
    pc[p] = "channel" /\ pc'[p] = "script" /\ ~overlapped /\ reports[Channel(p)] # 0
      => \/ now - reports[Channel(p)] >= Interval
         \/ now - reports[Channel(p)] > fileAge[p]

VersionPaced(p) ==
    pc[p] = "version" /\ pc'[p] = "sendversion" /\ ~overlapped
      /\ reports["version"] # 0
        => now - reports["version"] >= VersionInterval

\* The script is called for a channel, and for the version, no more often than
\* configured, whichever run calls it and whether or not the calls before it
\* succeeded - but for a new channels.xml.  New is what was younger when the run
\* began than the last call is by now, so that a slow run may call the script
\* again for an edit that had been reported just after it was made.  What
\* Winlink gets is one post of every channel for each of these calls.  (If the
\* touch fails the next run repeats the report.)
ReportsPaced == [][\A p \in Proc : ReportPaced(p) /\ VersionPaced(p)]_vars

\* However the runs overlap, the monitor shows an idle ACI once all are over.
IdleWhenOver ==
    (\A p \in Proc : ~Live(p)) => aci \in {"ACI_UNUSED", "ACI_IDLE"}
=============================================================================
