--------------------------- MODULE AciCheckinProofs ---------------------------
(***************************************************************************)
(* Proofs about AciCheckin, for any number of runs of rmsgw_aci, any       *)
(* channels.xml, any number of edits and any intervals.                    *)
(***************************************************************************)
EXTENDS AciCheckin, SequenceTheorems, TLAPS

Where == {"start", "open", "channel", "script", "posting", "touch",
          "version", "sendversion", "touchversion", "idle", "exited"}
AciStates == {"ACI_UNUSED", "ACI_RUNNING", "ACI_CHANNELUPDATE",
              "ACI_DISCONNECTED", "ACI_VERSIONUPDATE", "ACI_IDLE"}
Reportable == Chan \cup {"version"}

Before(p) == pc[p] \in {"start", "open"}
Calling(p) == pc[p] \in {"script", "posting", "touch"}

(* ---- types and times ---------------------------------------------------- *)

Types ==
    /\ now \in Base .. MaxTime /\ fileTime \in 0 .. MaxTime /\ edition \in 0 .. MaxEdits
    /\ statTime \in [Chan -> 0 .. MaxTime] /\ versionTime \in 0 .. MaxTime
    /\ aci \in AciStates
    /\ pc \in [Proc -> Where]
    /\ next \in [Proc -> 1 .. Len(File) + 1] /\ post \in [Proc -> 1 .. Len(File) + 1]
    /\ fileAge \in [Proc -> 0 .. MaxTime]
    /\ read \in [Proc -> 0 .. MaxEdits]
    /\ noticed \in 0 .. MaxEdits /\ expected \in [Proc -> 0 .. MaxEdits]
    /\ skipped \in [Proc -> SUBSET Nat]
    /\ sent \in [Chan -> 0 .. MaxEdits] /\ failed \in [Chan -> 0 .. MaxEdits]
    /\ overlapped \in BOOLEAN
    /\ reports \in [Reportable -> 0 .. MaxTime]

\* Nothing bears a time, or is from an edition, that is still to come.
Past ==
    /\ fileTime <= now /\ versionTime <= now
    /\ \A c \in Chan : statTime[c] <= now /\ sent[c] <= edition
    /\ \A k \in Reportable : reports[k] <= now
    /\ \A p \in Proc : read[p] <= edition /\ expected[p] <= noticed
    /\ noticed <= edition

\* Where a run is in the file.
Places ==
    \A p \in Proc : /\ Before(p) => next[p] = 1
                    /\ Calling(p) => next[p] <= Len(File)
                    /\ Through(p) => next[p] = Len(File) + 1

CheckinTyped == Types /\ Past /\ Places

LEMMA Numbers ==
  ASSUME Types
  PROVE  /\ MaxTime \in Nat /\ Base \in Nat /\ Base <= MaxTime /\ Len(File) \in Nat
         /\ MaxEdits \in Nat /\ edition \in Nat /\ noticed \in Nat
         /\ now \in Nat /\ Base <= now /\ now <= MaxTime /\ now \in 0 .. MaxTime
         /\ \A i \in 1 .. Len(File) : File[i] \in Chan
         /\ \A p \in Proc : next[p] \in Nat /\ next[p] >= 1 /\ next[p] <= Len(File) + 1
         /\ \A p \in Proc : post[p] \in Nat /\ post[p] >= 1 /\ post[p] <= Len(File) + 1
         /\ \A p \in Proc : read[p] \in Nat /\ expected[p] \in Nat
         /\ \A c \in Chan : statTime[c] \in Nat /\ sent[c] \in Nat /\ failed[c] \in Nat
         /\ "version" \in Reportable /\ Chan \subseteq Reportable /\ "version" \notin Chan
<1>1. /\ File \in Seq(Chan) /\ {Base, MaxTime, MaxEdits} \subseteq Nat /\ Base <= MaxTime
      /\ "version" \notin Chan
  BY CheckinAssumption
<1>2. Len(File) \in Nat /\ \A i \in 1 .. Len(File) : File[i] \in Chan
  BY <1>1, LenProperties, ElementOfSeq
<1>3. MaxTime \in Nat /\ Base \in Nat /\ MaxEdits \in Nat
  BY <1>1
<1>4. /\ edition \in Nat /\ noticed \in Nat
      /\ now \in Nat /\ Base <= now /\ now <= MaxTime /\ now \in 0 .. MaxTime
  BY <1>3 DEF Types
<1>5. /\ \A p \in Proc : next[p] \in 1 .. Len(File) + 1 /\ post[p] \in 1 .. Len(File) + 1
      /\ \A p \in Proc : read[p] \in 0 .. MaxEdits /\ expected[p] \in 0 .. MaxEdits
      /\ \A c \in Chan : /\ statTime[c] \in 0 .. MaxTime
                         /\ sent[c] \in 0 .. MaxEdits /\ failed[c] \in 0 .. MaxEdits
  BY DEF Types
<1>6. /\ \A x \in 0 .. MaxTime : x \in Nat
      /\ \A x \in 0 .. MaxEdits : x \in Nat
      /\ \A x \in 1 .. Len(File) + 1 : x \in Nat /\ x >= 1 /\ x <= Len(File) + 1
  BY <1>2, <1>3
<1> QED
  BY <1>1, <1>2, <1>3, <1>4, <1>5, <1>6 DEF Reportable

LEMMA CheckinTypedInit == Init => CheckinTyped
<1> SUFFICES ASSUME Init PROVE CheckinTyped
  OBVIOUS
<1>0. MaxTime \in Nat /\ Base \in Nat /\ MaxEdits \in Nat /\ Base <= MaxTime /\ Len(File) \in Nat
  BY CheckinAssumption, LenProperties
<1>1. now \in Base .. MaxTime /\ fileTime \in 0 .. MaxTime /\ fileTime <= now
  BY <1>0 DEF Init
<1>2. statTime \in [Chan -> 0 .. MaxTime] /\ \A c \in Chan : statTime[c] <= now
  BY <1>0 DEF Init
<1>3. pc \in [Proc -> Where] /\ aci \in AciStates
  BY DEF Init, Where, AciStates
<1>4. next \in [Proc -> 1 .. Len(File) + 1] /\ post \in [Proc -> 1 .. Len(File) + 1]
  BY <1>0 DEF Init
<1>5. skipped \in [Proc -> SUBSET Nat]
  BY DEF Init
<1>6. reports \in [Reportable -> 0 .. MaxTime] /\ \A k \in Reportable : reports[k] = 0
  BY <1>0 DEF Init, Reportable, Never
<1>b. /\ read \in [Proc -> 0 .. MaxEdits] /\ expected \in [Proc -> 0 .. MaxEdits]
      /\ sent \in [Chan -> 0 .. MaxEdits] /\ failed \in [Chan -> 0 .. MaxEdits]
      /\ fileAge \in [Proc -> 0 .. MaxTime] /\ noticed = 0 /\ edition = 0 /\ versionTime = 0
  BY <1>0 DEF Init
<1>7. Types
  <2>1. overlapped \in BOOLEAN
    BY Zenon DEF Init
  <2>2. 0 \in 0 .. MaxEdits /\ 0 \in 0 .. MaxTime
    BY <1>0
  <2> QED
    BY <1>1, <1>2, <1>3, <1>4, <1>5, <1>6, <1>b, <2>1, <2>2 DEF Types
<1>8. Past
  BY <1>0, <1>1, <1>2, <1>6 DEF Init, Past
<1>9. Places
  BY <1>0 DEF Init, Places, Before, Calling, Through
<1> QED
  BY <1>7, <1>8, <1>9 DEF CheckinTyped

\* A step of p moves p only.
LEMMA Moved ==
  ASSUME Types, NEW p \in Proc, NEW x \in Where, Goto(p, x)
  PROVE  pc' \in [Proc -> Where] /\ pc'[p] = x /\ \A q \in Proc : q # p => pc'[q] = pc[q]
BY DEF Types, Goto

\* A run goes on to the next entry.
LEMMA Advanced ==
  ASSUME Types, NEW p \in Proc, next[p] <= Len(File), NextEntry(p)
  PROVE  /\ next' \in [Proc -> 1 .. Len(File) + 1] /\ next'[p] = next[p] + 1
         /\ \A q \in Proc : q # p => next'[q] = next[q]
<1>1. next[p] + 1 \in 1 .. Len(File) + 1
  BY Numbers
<1> QED
  BY <1>1 DEF Types, NextEntry

LEMMA ChannelType ==
  ASSUME Types, NEW p \in Proc, next[p] <= Len(File)
  PROVE  Channel(p) \in Chan
<1>1. next[p] \in 1 .. Len(File)
  BY Numbers
<1> QED
  BY <1>1, Numbers DEF Channel

LEMMA ReportedType ==
  ASSUME Types, NEW k \in Reportable, NEW t \in 0 .. MaxTime, Reported(k, t)
  PROVE  /\ reports' \in [Reportable -> 0 .. MaxTime]
         /\ \A j \in Reportable : j # k => reports'[j] = reports[j]
         /\ reports'[k] \in {reports[k], t}
BY DEF Types, Reported

\* What a step of run p may change, when the clock and channels.xml stand still.
Within(p) ==
    /\ pc' \in [Proc -> Where] /\ \A q \in Proc : q # p => pc'[q] = pc[q]
    /\ next' \in [Proc -> 1 .. Len(File) + 1] /\ \A q \in Proc : q # p => next'[q] = next[q]
    /\ UNCHANGED <<now, fileTime, edition, noticed>>

LEMMA PlacesKept ==
  ASSUME Types, Places, NEW p \in Proc, Within(p),
         Before(p)' => next'[p] = 1, Calling(p)' => next'[p] <= Len(File),
         Through(p)' => next'[p] = Len(File) + 1
  PROVE  Places'
BY DEF Places, Within, Before, Calling, Through

LEMMA CheckinTypedStep == CheckinTyped /\ [Next]_vars => CheckinTyped'
<1> SUFFICES ASSUME CheckinTyped, [Next]_vars PROVE CheckinTyped'
  OBVIOUS
<1>0. Types /\ Past /\ Places
  BY DEF CheckinTyped
<1>a. /\ MaxTime \in Nat /\ Base \in Nat /\ Base <= MaxTime /\ Len(File) \in Nat
      /\ MaxEdits \in Nat /\ edition \in Nat /\ noticed \in Nat
      /\ now \in Nat /\ Base <= now /\ now <= MaxTime /\ now \in 0 .. MaxTime
      /\ \A p \in Proc : next[p] \in Nat /\ next[p] >= 1 /\ next[p] <= Len(File) + 1
      /\ \A p \in Proc : post[p] \in Nat /\ post[p] >= 1 /\ post[p] <= Len(File) + 1
      /\ \A p \in Proc : read[p] \in Nat /\ expected[p] \in Nat
      /\ \A c \in Chan : statTime[c] \in Nat /\ sent[c] \in Nat /\ failed[c] \in Nat
      /\ "version" \in Reportable /\ Chan \subseteq Reportable /\ "version" \notin Chan
      /\ 0 \in 0 .. MaxTime
  BY <1>0, Numbers
<1>1. CASE Tick
  <2>1. now' \in Base .. MaxTime /\ now' = now + 1
    BY <1>1, <1>a DEF Tick
  <2>2. UNCHANGED <<fileTime, edition, statTime, versionTime, aci, pc, next, fileAge, read, post,
                    noticed, expected, skipped, sent, failed, overlapped, reports>>
    BY <1>1 DEF Tick, local, history
  <2>3. Types'
    BY <1>0, <2>1, <2>2 DEF Types
  <2>4. fileTime \in Int /\ versionTime \in Int /\ \A k \in Reportable : reports[k] \in Int
    BY <1>0, <1>a DEF Types
  <2>5. Past'
    BY <1>0, <1>a, <2>1, <2>2, <2>4 DEF Past
  <2>6. Places'
    BY <1>0, <2>2 DEF Places, Before, Calling, Through
  <2> QED
    BY <2>3, <2>5, <2>6 DEF CheckinTyped
<1>2. CASE Edit
  <2>1. UNCHANGED <<now, statTime, versionTime, aci, pc, next, fileAge, read, post,
                    expected, skipped, sent, failed, overlapped, reports>>
    BY <1>2 DEF Edit, local
  <2>2. /\ fileTime' = now /\ edition' = edition + 1 /\ edition' \in 0 .. MaxEdits
        /\ noticed' \in {noticed, edition'}
    BY <1>2, <1>a DEF Edit
  <2>3. Types'
    BY <1>0, <1>a, <2>1, <2>2 DEF Types
  <2>4. noticed <= noticed' /\ noticed' <= edition'
    BY <1>0, <1>a, <2>2 DEF Past
  <2>5. Past'
    <3>1. noticed' \in Nat /\ edition' \in Nat
      BY <1>a, <2>2
    <3>2. \A p \in Proc : read'[p] <= edition' /\ expected'[p] <= noticed'
      BY <1>0, <1>a, <2>1, <2>2, <2>4, <3>1 DEF Past
    <3>3. \A c \in Chan : sent'[c] <= edition'
      BY <1>0, <1>a, <2>1, <2>2 DEF Past
    <3> QED
      BY <1>0, <1>a, <2>1, <2>2, <2>4, <3>2, <3>3 DEF Past
  <2>6. Places'
    BY <1>0, <2>1 DEF Places, Before, Calling, Through
  <2> QED
    BY <2>3, <2>5, <2>6 DEF CheckinTyped
\* Steps that only move on, and may count a report and store a state.
<1>3. ASSUME NEW p \in Proc, NEW x \in Where, Goto(p, x), ~Before(p), x \notin {"start", "open"},
             x \in {"script", "posting", "touch"} => next[p] <= Len(File),
             x \in {"version", "sendversion", "touchversion", "idle", "exited"}
               => next[p] = Len(File) + 1,
             aci' \in AciStates, versionTime' \in {versionTime, now},
             reports' \in [Reportable -> 0 .. MaxTime],
             \A k \in Reportable : reports'[k] \in {reports[k], now, 0},
             fileAge' \in [Proc -> 0 .. MaxTime],
             UNCHANGED <<now, fileTime, edition, statTime, next, read, post,
                         noticed, expected, skipped, sent, failed, overlapped>>
      PROVE  CheckinTyped'
  <2>1. pc' \in [Proc -> Where] /\ pc'[p] = x /\ \A q \in Proc : q # p => pc'[q] = pc[q]
    BY <1>0, <1>3, Moved
  <2>2. versionTime' \in 0 .. MaxTime /\ versionTime' <= now
    <3>1. versionTime \in 0 .. MaxTime /\ versionTime <= now /\ versionTime' \in {versionTime, now}
      BY <1>0, <1>3 DEF Types, Past
    <3> QED
      BY <1>a, <3>1
  <2>3. Types'
    BY <1>0, <1>3, <2>1, <2>2 DEF Types
  <2>4. \A k \in Reportable : reports'[k] <= now
    <3>1. \A k \in Reportable : reports[k] <= now
      BY <1>0 DEF Past
    <3>2. now <= now /\ 0 <= now
      BY <1>a
    <3> QED
      BY <1>3, <3>1, <3>2
  <2>5. Past'
    BY <1>0, <1>3, <2>2, <2>4 DEF Past
  <2>6. Within(p) /\ next'[p] = next[p]
    BY <1>0, <1>3, <2>1 DEF Within, Types
  <2>7. Places'
    BY <1>0, <1>3, <2>1, <2>6, PlacesKept DEF Before, Calling, Through
  <2> QED
    BY <2>3, <2>5, <2>7 DEF CheckinTyped
<1>4. ASSUME NEW p \in Proc, Begin(p) PROVE CheckinTyped'
  <2>1. pc' \in [Proc -> Where] /\ pc'[p] = "open" /\ \A q \in Proc : q # p => pc'[q] = pc[q]
    BY <1>0, <1>4, Moved DEF Begin, Where
  <2>2. UNCHANGED <<now, fileTime, edition, statTime, versionTime, next, fileAge, read, post,
                    noticed, expected, skipped, sent, failed>>
    BY <1>4 DEF Begin
  <2>3. aci' \in AciStates /\ overlapped' \in BOOLEAN
    BY <1>0, <1>4 DEF Begin, AciStates, Types
  <2>4. reports' \in [Reportable -> 0 .. MaxTime] /\ \A k \in Reportable : reports'[k] <= now
    <3>1. Never \in [Reportable -> 0 .. MaxTime] /\ \A k \in Reportable : Never[k] <= now
      BY <1>a DEF Never, Reportable
    <3> QED
      BY <1>0, <1>4, <3>1 DEF Begin, Types, Past
  <2>5. Types'
    BY <1>0, <2>1, <2>2, <2>3, <2>4 DEF Types
  <2>6. Past'
    BY <1>0, <2>2, <2>4 DEF Past
  <2>7. Within(p) /\ next'[p] = 1
    BY <1>0, <1>4, <2>1, <2>2 DEF Within, Types, Places, Before, Begin
  <2>8. Places'
    BY <1>0, <2>1, <2>7, PlacesKept DEF Before, Calling, Through
  <2> QED
    BY <2>5, <2>6, <2>8 DEF CheckinTyped
<1>5. ASSUME NEW p \in Proc, OpenChannels(p) PROVE CheckinTyped'
  <2>1. pc' \in [Proc -> Where] /\ pc'[p] = "channel" /\ \A q \in Proc : q # p => pc'[q] = pc[q]
    BY <1>0, <1>5, Moved DEF OpenChannels, Where
  <2>2. UNCHANGED <<now, fileTime, edition, statTime, versionTime, aci, next, read, post,
                    noticed, skipped, sent, failed, overlapped, reports>>
    BY <1>5 DEF OpenChannels, shared
  <2>3. now - fileTime \in 0 .. MaxTime
    BY <1>0, <1>a DEF Types, Past
  <2>4. fileAge' \in [Proc -> 0 .. MaxTime]
    BY <1>0, <1>5, <2>3 DEF OpenChannels, Age, Types
  <2>5. expected' \in [Proc -> 0 .. MaxEdits] /\ \A q \in Proc : expected'[q] <= noticed
    BY <1>0, <1>5, <1>a DEF OpenChannels, Types, Past
  <2>6. Types'
    BY <1>0, <2>1, <2>2, <2>4, <2>5 DEF Types
  <2>7. Past'
    BY <1>0, <2>2, <2>5 DEF Past
  <2>8. Within(p)
    BY <1>0, <2>1, <2>2 DEF Within, Types
  <2>9. Places'
    BY <1>0, <2>1, <2>8, PlacesKept DEF Before, Calling, Through
  <2> QED
    BY <2>6, <2>7, <2>9 DEF CheckinTyped
\* Steps that leave an entry behind.
<1>6. ASSUME NEW p \in Proc, next[p] <= Len(File), NextEntry(p),
             pc' \in [Proc -> Where], pc'[p] = "channel", \A q \in Proc : q # p => pc'[q] = pc[q],
             statTime' \in [Chan -> 0 .. MaxTime], \A c \in Chan : statTime'[c] <= now,
             skipped' \in [Proc -> SUBSET Nat],
             reports' \in [Reportable -> 0 .. MaxTime],
             \A k \in Reportable : reports'[k] <= now,
             UNCHANGED <<now, fileTime, edition, versionTime, aci, fileAge, read, post,
                         noticed, expected, sent, failed, overlapped>>
      PROVE  CheckinTyped'
  <2>1. /\ next' \in [Proc -> 1 .. Len(File) + 1] /\ \A q \in Proc : q # p => next'[q] = next[q]
    BY <1>0, <1>6, Advanced
  <2>2. Types'
    BY <1>0, <1>6, <2>1 DEF Types
  <2>3. Past'
    BY <1>0, <1>6 DEF Past
  <2>4. Within(p)
    BY <1>6, <2>1 DEF Within
  <2>5. Places'
    BY <1>0, <1>6, <2>4, PlacesKept DEF Before, Calling, Through
  <2> QED
    BY <2>2, <2>3, <2>5 DEF CheckinTyped
<1>7. ASSUME NEW p \in Proc, Skip(p) PROVE CheckinTyped'
  <2>1. /\ pc[p] = "channel" /\ next[p] <= Len(File) /\ NextEntry(p)
        /\ UNCHANGED <<now, fileTime, edition, statTime, versionTime, aci, pc, fileAge, read, post,
                       noticed, expected, sent, failed, overlapped, reports>>
    BY <1>7 DEF Skip, shared
  <2>2. skipped' \in [Proc -> SUBSET Nat]
    BY <1>0, <1>7, <1>a DEF Skip, Types
  <2> QED
    BY <1>0, <1>6, <2>1, <2>2 DEF Types, Past
<1>8. ASSUME NEW p \in Proc, Decide(p) PROVE CheckinTyped'
  <2>0. /\ pc[p] = "channel" /\ next[p] <= Len(File) /\ Channel(p) \in Reportable
        /\ UNCHANGED <<now, fileTime, edition, statTime, versionTime, fileAge, read, post,
                       noticed, expected, skipped, sent, failed, overlapped>>
    BY <1>0, <1>8, <1>a, ChannelType DEF Decide
  <2>1. CASE /\ aci' = "ACI_CHANNELUPDATE" /\ Reported(Channel(p), now)
             /\ Goto(p, "script") /\ next' = next
    <3>1. /\ reports' \in [Reportable -> 0 .. MaxTime]
          /\ \A k \in Reportable : reports'[k] \in {reports[k], now, 0}
      BY <1>0, <1>a, <2>0, <2>1, ReportedType
    <3>2. aci' \in AciStates /\ "script" \in Where
      BY <2>1 DEF AciStates, Where
    <3>3. fileAge' \in [Proc -> 0 .. MaxTime] /\ versionTime' \in {versionTime, now} /\ ~Before(p)
      BY <1>0, <2>0 DEF Types, Before
    <3> QED
      BY <1>3, <2>0, <2>1, <3>1, <3>2, <3>3
  <2>2. CASE NextEntry(p) /\ UNCHANGED <<aci, pc, reports>>
    BY <1>0, <1>6, <2>0, <2>2 DEF Types, Past
  <2> QED
    BY <1>8, <2>1, <2>2 DEF Decide
<1>9. ASSUME NEW p \in Proc, Touch(p) PROVE CheckinTyped'
  <2>0. /\ pc[p] = "touch" /\ next[p] <= Len(File) /\ NextEntry(p)
        /\ UNCHANGED <<now, fileTime, edition, versionTime, aci, fileAge, read, post,
                       noticed, expected, skipped, sent, failed, overlapped>>
    BY <1>0, <1>9 DEF Touch, Places, Calling
  <2>1. Channel(p) \in Chan /\ Channel(p) \in Reportable
    BY <1>0, <1>a, <2>0, ChannelType
  <2>2. pc' \in [Proc -> Where] /\ pc'[p] = "channel" /\ \A q \in Proc : q # p => pc'[q] = pc[q]
    BY <1>0, <1>9, Moved DEF Touch, Where
  <2>3. statTime' \in [Chan -> 0 .. MaxTime] /\ \A c \in Chan : statTime'[c] <= now
    <3>1. statTime' = statTime \/ statTime' = [statTime EXCEPT ![Channel(p)] = now]
      BY <1>9 DEF Touch, Touched
    <3>2. statTime \in [Chan -> 0 .. MaxTime] /\ \A c \in Chan : statTime[c] <= now
      BY <1>0 DEF Types, Past
    <3>3. \A c \in Chan : statTime'[c] \in {statTime[c], now}
      BY <2>1, <3>1, <3>2
    <3>4. statTime' \in [Chan -> 0 .. MaxTime]
      BY <1>a, <2>1, <3>1, <3>2
    <3>5. now <= now
      BY <1>a
    <3> QED
      BY <3>2, <3>3, <3>4, <3>5
  <2>4. reports' \in [Reportable -> 0 .. MaxTime] /\ \A k \in Reportable : reports'[k] <= now
    <3>1. CASE reports' = reports
      BY <1>0, <3>1 DEF Types, Past
    <3>2. CASE Reported(Channel(p), 0)
      <4>1. /\ reports' \in [Reportable -> 0 .. MaxTime]
            /\ \A k \in Reportable : reports'[k] \in {reports[k], 0}
        BY <1>0, <1>a, <2>1, <3>2, ReportedType
      <4>2. 0 <= now /\ \A k \in Reportable : reports[k] <= now
        BY <1>0, <1>a DEF Past
      <4> QED
        BY <4>1, <4>2
    <3> QED
      BY <1>9, <3>1, <3>2 DEF Touch
  <2> QED
    BY <1>0, <1>6, <2>0, <2>2, <2>3, <2>4 DEF Types
\* The steps of the script.
<1>10. ASSUME NEW p \in Proc, pc[p] \in {"script", "posting"}, NEW x \in {"posting", "touch"},
              pc' \in [Proc -> Where], pc'[p] = x, \A q \in Proc : q # p => pc'[q] = pc[q],
              read' \in [Proc -> 0 .. MaxEdits], \A q \in Proc : read'[q] <= edition,
              post' \in [Proc -> 1 .. Len(File) + 1],
              sent' \in [Chan -> 0 .. MaxEdits], \A c \in Chan : sent'[c] <= edition,
              failed' \in [Chan -> 0 .. MaxEdits], aci' \in AciStates,
              UNCHANGED <<now, fileTime, edition, statTime, versionTime, next, fileAge,
                          noticed, expected, skipped, overlapped, reports>>
       PROVE  CheckinTyped'
  <2>1. Types'
    BY <1>0, <1>10 DEF Types
  <2>2. Past'
    BY <1>0, <1>10 DEF Past
  <2>3. Within(p) /\ next'[p] = next[p] /\ next[p] <= Len(File)
    BY <1>0, <1>10 DEF Within, Types, Places, Calling
  <2>4. Places'
    BY <1>0, <1>10, <2>3, PlacesKept DEF Before, Calling, Through
  <2> QED
    BY <2>1, <2>2, <2>4 DEF CheckinTyped
<1>11. ASSUME NEW p \in Proc, ScriptReads(p) PROVE CheckinTyped'
  <2>1. pc' \in [Proc -> Where] /\ pc'[p] = "posting" /\ \A q \in Proc : q # p => pc'[q] = pc[q]
    BY <1>0, <1>11, Moved DEF ScriptReads, Where
  <2>2. read' \in [Proc -> 0 .. MaxEdits] /\ \A q \in Proc : read'[q] <= edition
    BY <1>0, <1>11, <1>a DEF ScriptReads, Types, Past
  <2>3. /\ pc[p] = "script"
        /\ UNCHANGED <<now, fileTime, edition, statTime, versionTime, aci, next, fileAge, post,
                       noticed, expected, skipped, sent, failed, overlapped, reports>>
    BY <1>11 DEF ScriptReads, shared, history
  <2> QED
    BY <1>0, <1>10, <2>1, <2>2, <2>3 DEF Types, Past
<1>12. ASSUME NEW p \in Proc, Post(p) PROVE CheckinTyped'
  <2>1. /\ pc[p] = "posting" /\ post[p] \in 1 .. Len(File) /\ post[p] + 1 \in 1 .. Len(File) + 1
        /\ UNCHANGED <<now, fileTime, edition, statTime, versionTime, aci, pc, next, fileAge, read,
                       noticed, expected, skipped, failed, overlapped, reports>>
    BY <1>12, <1>a DEF Post, shared
  <2>2. post' \in [Proc -> 1 .. Len(File) + 1]
    BY <1>0, <1>12, <2>1 DEF Post, Types
  <2>3. sent' \in [Chan -> 0 .. MaxEdits] /\ \A c \in Chan : sent'[c] <= edition
    <3>1. File[post[p]] \in Chan
      BY <1>0, <2>1, Numbers
    <3> QED
      BY <1>0, <1>12, <3>1 DEF Post, Types, Past
  <2> QED
    BY <1>0, <1>10, <2>1, <2>2, <2>3 DEF Types, Past
<1>13. ASSUME NEW p \in Proc, ScriptEnds(p), pc[p] \in {"script", "posting"},
              failed' \in [Chan -> 0 .. MaxEdits]
       PROVE  CheckinTyped'
  <2>1. pc' \in [Proc -> Where] /\ pc'[p] = "touch" /\ \A q \in Proc : q # p => pc'[q] = pc[q]
    BY <1>0, <1>13, Moved DEF ScriptEnds, Where
  <2>2. read' \in [Proc -> 0 .. MaxEdits] /\ \A q \in Proc : read'[q] <= edition
    BY <1>0, <1>13, <1>a DEF ScriptEnds, Types, Past
  <2>3. post' \in [Proc -> 1 .. Len(File) + 1] /\ aci' \in AciStates
    BY <1>0, <1>13, <1>a DEF ScriptEnds, Types, AciStates
  <2>4. UNCHANGED <<now, fileTime, edition, statTime, versionTime, next, fileAge,
                    noticed, expected, skipped, sent, overlapped, reports>>
    BY <1>13 DEF ScriptEnds
  <2> QED
    BY <1>0, <1>10, <1>13, <2>1, <2>2, <2>3, <2>4 DEF Types, Past
<1>14. ASSUME NEW p \in Proc, ScriptDone(p) PROVE CheckinTyped'
  BY <1>0, <1>13, <1>14 DEF ScriptDone, Types
<1>15. ASSUME NEW p \in Proc, ScriptFails(p) PROVE CheckinTyped'
  <2>1. pc[p] \in {"script", "posting"} /\ ScriptEnds(p)
    BY <1>15 DEF ScriptFails
  <2>2. read[p] \in 0 .. MaxEdits /\ edition \in 0 .. MaxEdits
    BY <1>0 DEF Types
  <2>3. failed' \in [Chan -> 0 .. MaxEdits]
    BY <1>0, <1>15, <2>2 DEF ScriptFails, Types
  <2> QED
    BY <1>13, <2>1, <2>3
<1>16. ASSUME NEW p \in Proc, Disconnect(p) PROVE CheckinTyped'
  <2>1. /\ next[p] = Len(File) + 1 /\ ~Before(p) /\ Goto(p, "version") /\ "version" \in Where
        /\ aci' \in AciStates
        /\ UNCHANGED <<now, fileTime, edition, statTime, versionTime, next, read, post,
                       noticed, expected, skipped, sent, failed, overlapped, reports>>
    BY <1>16, <1>a DEF Disconnect, history, Before, AciStates, Where
  <2>2. fileAge' \in [Proc -> 0 .. MaxTime]
    BY <1>0, <1>16, <1>a DEF Disconnect, Types
  <2> QED
    BY <1>0, <1>3, <2>1, <2>2 DEF Types
<1>17. ASSUME NEW p \in Proc, VersionSent(p) \/ Idle(p) PROVE CheckinTyped'
  <2>1. /\ next[p] = Len(File) + 1 /\ ~Before(p) /\ aci' \in AciStates
        /\ UNCHANGED <<now, fileTime, edition, statTime, versionTime, next, fileAge, read, post,
                       noticed, expected, skipped, sent, failed, overlapped, reports>>
    BY <1>0, <1>17 DEF VersionSent, Idle, SetState, Places, Through, Before, AciStates, history
  <2>2. \E x \in {"touchversion", "exited"} : Goto(p, x) /\ x \in Where
    BY <1>17 DEF VersionSent, Idle, SetState, Where
  <2> QED
    BY <1>0, <1>3, <2>1, <2>2 DEF Types
<1>18. ASSUME NEW p \in Proc, VersionUpdate(p) PROVE CheckinTyped'
  <2>1. /\ next[p] = Len(File) + 1 /\ ~Before(p)
        /\ UNCHANGED <<now, fileTime, edition, statTime, versionTime, next, fileAge, read, post,
                       noticed, expected, skipped, sent, failed, overlapped>>
    BY <1>0, <1>18 DEF VersionUpdate, Places, Through, Before
  <2>2. CASE aci' = "ACI_VERSIONUPDATE" /\ Reported("version", now) /\ Goto(p, "sendversion")
    <3>1. /\ reports' \in [Reportable -> 0 .. MaxTime]
          /\ \A k \in Reportable : reports'[k] \in {reports[k], now, 0}
      BY <1>0, <1>a, <2>2, ReportedType
    <3>2. "sendversion" \in Where /\ aci' \in AciStates
      BY <2>2 DEF Where, AciStates
    <3> QED
      BY <1>0, <1>3, <2>1, <2>2, <3>1, <3>2 DEF Types
  <2>3. CASE Goto(p, "idle") /\ UNCHANGED <<aci, reports>>
    <3>1. "idle" \in Where
      BY DEF Where
    <3> QED
      BY <1>0, <1>3, <2>1, <2>3, <3>1 DEF Types
  <2> QED
    BY <1>18, <2>2, <2>3 DEF VersionUpdate
<1>19. ASSUME NEW p \in Proc, TouchVersion(p) PROVE CheckinTyped'
  <2>1. /\ next[p] = Len(File) + 1 /\ ~Before(p) /\ Goto(p, "idle") /\ "idle" \in Where
        /\ UNCHANGED <<now, fileTime, edition, statTime, aci, next, fileAge, read, post,
                       noticed, expected, skipped, sent, failed, overlapped>>
    BY <1>0, <1>19 DEF TouchVersion, AfterTouch, Places, Through, Before, Where
  <2>2. versionTime' \in {versionTime, now}
    BY <1>19 DEF TouchVersion, Touched
  <2>3. /\ reports' \in [Reportable -> 0 .. MaxTime]
        /\ \A k \in Reportable : reports'[k] \in {reports[k], now, 0}
    <3>1. CASE reports' = reports
      BY <1>0, <3>1 DEF Types
    <3>2. CASE Reported("version", 0)
      BY <1>0, <1>a, <3>2, ReportedType
    <3> QED
      BY <1>19, <3>1, <3>2 DEF TouchVersion
  <2> QED
    BY <1>0, <1>3, <2>1, <2>2, <2>3 DEF Types
<1>20. CASE UNCHANGED vars
  <2>1. UNCHANGED <<now, fileTime, edition, statTime, versionTime, aci, pc, next, fileAge, read,
                    post, noticed, expected, skipped, sent, failed, overlapped, reports>>
    BY <1>20 DEF vars, shared, local, history
  <2> QED
    BY <1>0, <2>1 DEF CheckinTyped, Types, Past, Places, Before, Calling, Through
<1> QED
  BY <1>1, <1>2, <1>4, <1>5, <1>7, <1>8, <1>9, <1>11, <1>12, <1>14, <1>15, <1>16, <1>17,
     <1>18, <1>19, <1>20
     DEF Next, Step

LEMMA CheckinTypedInvariant == Spec => []CheckinTyped
BY CheckinTypedInit, CheckinTypedStep, PTL DEF Spec

\* The types of the state; no script, and not Winlink, is ahead of channels.xml.
THEOREM CheckinTypes == Spec => []TypeOK
<1>1. CheckinTyped => TypeOK
  <2> SUFFICES ASSUME Types, Past PROVE TypeOK
    BY DEF CheckinTyped
  <2>1. read \in [Proc -> 0 .. edition] /\ sent \in [Chan -> 0 .. edition]
    <3>1. /\ \A p \in Proc : read[p] \in 0 .. edition
          /\ \A c \in Chan : sent[c] \in 0 .. edition
      BY Numbers DEF Past
    <3> QED
      BY <3>1 DEF Types
  <2> QED
    BY <2>1 DEF Types, TypeOK, Where, AciStates
<1> QED
  BY <1>1, CheckinTypedInvariant, PTL

(* ---- once all runs are over --------------------------------------------- *)

\* The last thing a run does is to publish ACI_IDLE.
LEMMA IdleStep == Types /\ IdleWhenOver /\ [Next]_vars => IdleWhenOver'
<1> SUFFICES ASSUME Types, IdleWhenOver, [Next]_vars PROVE IdleWhenOver'
  OBVIOUS
<1>1. CASE UNCHANGED <<pc, aci>>
  BY <1>1 DEF IdleWhenOver, Live
<1>2. ASSUME NEW p \in Proc, NEW x \in Where, Goto(p, x), x \notin {"start", "exited"}
      PROVE  IdleWhenOver'
  BY <1>2, Moved DEF IdleWhenOver, Live
<1>3. ASSUME NEW p \in Proc, Idle(p) PROVE IdleWhenOver'
  BY <1>3 DEF Idle, SetState, IdleWhenOver
<1>4. ASSUME NEW p \in Proc, Begin(p) \/ OpenChannels(p) \/ ScriptReads(p) \/ Disconnect(p)
      PROVE  IdleWhenOver'
  <2>1. \E x \in Where : Goto(p, x) /\ x \notin {"start", "exited"}
    BY <1>4 DEF Begin, OpenChannels, ScriptReads, Disconnect, Where
  <2> QED
    BY <1>2, <2>1
<1>5. ASSUME NEW p \in Proc, Skip(p) \/ Post(p) PROVE IdleWhenOver'
  BY <1>1, <1>5 DEF Skip, Post, shared
<1>6. ASSUME NEW p \in Proc, Decide(p) PROVE IdleWhenOver'
  <2>1. Goto(p, "script") \/ UNCHANGED <<aci, pc>>
    BY <1>6 DEF Decide
  <2> QED
    BY <1>1, <1>2, <2>1 DEF Where
<1>7. ASSUME NEW p \in Proc, ScriptDone(p) \/ ScriptFails(p) \/ Touch(p) PROVE IdleWhenOver'
  <2>1. \E x \in Where : Goto(p, x) /\ x \notin {"start", "exited"}
    BY <1>7 DEF ScriptDone, ScriptFails, ScriptEnds, Touch, Where
  <2> QED
    BY <1>2, <2>1
<1>8. ASSUME NEW p \in Proc, VersionUpdate(p) \/ VersionSent(p) \/ TouchVersion(p)
      PROVE  IdleWhenOver'
  <2>1. \E x \in Where : Goto(p, x) /\ x \notin {"start", "exited"}
    BY <1>8 DEF VersionUpdate, VersionSent, SetState, TouchVersion, AfterTouch, Where
  <2> QED
    BY <1>2, <2>1
<1>9. CASE Tick \/ Edit \/ UNCHANGED vars
  BY <1>1, <1>9 DEF Tick, Edit, vars, local, shared
<1> QED
  BY <1>3, <1>4, <1>5, <1>6, <1>7, <1>8, <1>9 DEF Next, Step

\* However the runs overlap, the published state is idle once all are over.
THEOREM OverIsIdle == Spec => []IdleWhenOver
<1>1. Init => IdleWhenOver
  BY DEF Init, IdleWhenOver
<1>2. CheckinTyped /\ IdleWhenOver /\ [Next]_vars => IdleWhenOver'
  BY IdleStep DEF CheckinTyped
<1> QED
  BY <1>1, <1>2, CheckinTypedInvariant, PTL DEF Spec

(* ---- edits of channels.xml ---------------------------------------------- *)

InLoop(p) == pc[p] \in {"channel", "script", "posting", "touch"}

\* A status file as new as channels.xml was touched after a report of the last
\* edit that could be noticed.
Fresh == \A c \in Chan : statTime[c] >= fileTime => Handled(c, noticed)

\* So was, of the edit a run has to expect, one that looks as new to that run.
LooksFresh ==
  \A p \in Proc : InLoop(p) =>
    \A c \in Chan : statTime[c] >= now - fileAge[p] => Handled(c, expected[p])

\* What a script has read, and posted so far, is no older than that edit ...
UpToDate ==
  \A p \in Proc : IF pc[p] = "posting"
                  THEN /\ read[p] >= noticed
                       /\ \A i \in 1 .. post[p] - 1 : sent[File[i]] >= noticed
                  ELSE post[p] = 1

\* ... and when it is over the channel it was called for has been handled.
Called == \A p \in Proc : pc[p] = "touch" => Handled(Channel(p), noticed)

Covered ==
  \A p \in Proc : ~Before(p) =>
    \A i \in 1 .. next[p] - 1 : i \in skipped[p] \/ Handled(File[i], expected[p])

EditInv == Fresh /\ LooksFresh /\ UpToDate /\ Called /\ Covered

LEMMA OthersStay ==
  ASSUME CheckinTyped, NEW p \in Proc, Step(p), NEW q \in Proc, q # p
  PROVE  UNCHANGED <<pc[q], next[q], fileAge[q], read[q], post[q], expected[q], skipped[q]>>
<1>1. /\ pc \in [Proc -> Where] /\ next \in [Proc -> 1 .. Len(File) + 1]
      /\ fileAge \in [Proc -> 0 .. MaxTime] /\ read \in [Proc -> 0 .. MaxEdits]
      /\ post \in [Proc -> 1 .. Len(File) + 1] /\ expected \in [Proc -> 0 .. MaxEdits]
      /\ skipped \in [Proc -> SUBSET Nat]
  BY DEF CheckinTyped, Types
<1>2. CASE Begin(p) \/ OpenChannels(p)
  BY <1>1, <1>2 DEF Begin, OpenChannels, Goto
<1>3. CASE Skip(p) \/ Decide(p)
  BY <1>1, <1>3 DEF Skip, Decide, Goto, NextEntry
<1>4. CASE ScriptReads(p) \/ Post(p)
  BY <1>1, <1>4 DEF ScriptReads, Post, Goto, history
<1>5. CASE ScriptDone(p) \/ ScriptFails(p)
  BY <1>1, <1>5 DEF ScriptDone, ScriptFails, ScriptEnds, Goto
<1>6. CASE Touch(p) \/ Disconnect(p)
  BY <1>1, <1>6 DEF Touch, Disconnect, Goto, NextEntry, history
<1>7. CASE VersionSent(p) \/ Idle(p)
  BY <1>1, <1>7 DEF VersionSent, Idle, SetState, Goto, history
<1>8. CASE VersionUpdate(p) \/ TouchVersion(p)
  BY <1>1, <1>8 DEF VersionUpdate, TouchVersion, Goto
<1> QED
  BY <1>2, <1>3, <1>4, <1>5, <1>6, <1>7, <1>8 DEF Step

\* Status files only get newer, and only by a touch.
LEMMA TimesGrow ==
  ASSUME CheckinTyped, [Next]_vars, NEW c \in Chan
  PROVE  /\ statTime'[c] \in {statTime[c], now}
         /\ statTime'[c] = statTime[c] \/ \E p \in Proc : Touch(p) /\ c = Channel(p)
<1>1. statTime \in [Chan -> 0 .. MaxTime]
  BY DEF CheckinTyped, Types
<1>2. CASE UNCHANGED statTime
  BY <1>2
<1>3. ASSUME NEW p \in Proc, Touch(p)
      PROVE  statTime'[c] = statTime[c] \/ (statTime'[c] = now /\ c = Channel(p))
  BY <1>1, <1>3 DEF Touch, Touched
<1>4. UNCHANGED statTime \/ \E p \in Proc : Touch(p)
  BY DEF Next, Step, vars, shared, Tick, Edit, Begin, OpenChannels, Skip, Decide, ScriptReads,
     Post, ScriptDone, ScriptFails, ScriptEnds, Disconnect, VersionSent, Idle, SetState,
     VersionUpdate, TouchVersion
<1> QED
  BY <1>2, <1>3, <1>4

\* Nothing older than the last edit to be noticed is posted, or given up.
LEMMA Grows ==
  ASSUME CheckinTyped, UpToDate, [Next]_vars, NEW c \in Chan
  PROVE  /\ sent'[c] = sent[c] \/ sent'[c] >= noticed
         /\ failed'[c] = failed[c] \/ failed'[c] >= noticed
<1>1. /\ sent \in [Chan -> 0 .. MaxEdits] /\ failed \in [Chan -> 0 .. MaxEdits]
      /\ edition >= noticed
  BY DEF CheckinTyped, Types, Past
<1>2. CASE UNCHANGED <<sent, failed>>
  BY <1>2
<1>3. ASSUME NEW p \in Proc, Post(p)
      PROVE  failed' = failed /\ (sent'[c] = sent[c] \/ sent'[c] >= noticed)
  <2>1. read[p] >= noticed /\ failed' = failed
    BY <1>3 DEF Post, UpToDate
  <2>2. sent'[c] = sent[c] \/ sent'[c] = read[p]
    BY <1>1, <1>3 DEF Post
  <2> QED
    BY <2>1, <2>2
<1>4. ASSUME NEW p \in Proc, ScriptFails(p)
      PROVE  sent' = sent /\ (failed'[c] = failed[c] \/ failed'[c] >= noticed)
  <2>1. pc[p] = "posting" => read[p] >= noticed
    BY DEF UpToDate
  <2>2. \/ failed' = [failed EXCEPT ![Channel(p)] = edition]
        \/ pc[p] = "posting" /\ failed' = [failed EXCEPT ![Channel(p)] = read[p]]
    BY <1>4 DEF ScriptFails
  <2>3. failed'[c] \in {failed[c], edition} \/ (pc[p] = "posting" /\ failed'[c] \in {failed[c], read[p]})
    BY <1>1, <2>2
  <2>4. sent' = sent
    BY <1>4 DEF ScriptFails, ScriptEnds
  <2> QED
    BY <1>1, <2>1, <2>3, <2>4
<1>5. UNCHANGED <<sent, failed>> \/ \E p \in Proc : Post(p) \/ ScriptFails(p)
  BY DEF Next, Step, vars, history, Tick, Edit, Begin, OpenChannels, Skip, Decide, ScriptReads,
     ScriptDone, ScriptEnds, Touch, Disconnect, VersionSent, Idle, SetState,
     VersionUpdate, TouchVersion
<1> QED
  BY <1>2, <1>3, <1>4, <1>5

\* What has been handled stays so.
LEMMA StaysHandled ==
  ASSUME CheckinTyped, UpToDate, [Next]_vars, NEW c \in Chan, NEW e \in Nat, e <= noticed
  PROVE  /\ Handled(c, e) => sent'[c] >= e \/ failed'[c] >= e
         /\ sent[c] >= e => sent'[c] >= e
<1>1. sent'[c] \in Nat /\ failed'[c] \in Nat /\ sent[c] \in Nat /\ failed[c] \in Nat /\ noticed \in Nat
  <2>1. Types /\ Types'
    BY CheckinTypedStep DEF CheckinTyped
  <2>2. \A x \in 0 .. MaxEdits : x \in Nat
    BY <2>1, Numbers
  <2> QED
    BY <2>1, <2>2 DEF Types
<1> QED
  BY <1>1, Grows DEF Handled

\* An edit changes no more than channels.xml.
LEMMA EditStep ==
  ASSUME CheckinTyped, Edit
  PROVE  /\ UNCHANGED <<now, statTime, pc, next, fileAge, read, post, expected, skipped, sent, failed>>
         /\ fileTime' = now
         /\ \/ noticed' = noticed
            \/ (\A p \in Proc : ~Reporting(p)) /\ \A c \in Chan : statTime[c] # now
BY DEF Edit, local

\* Every other step leaves what there is to notice alone.
LEMMA NoEdit ==
  ASSUME [Next]_vars, ~Edit
  PROVE  UNCHANGED <<fileTime, noticed, edition>>
BY DEF Next, Step, vars, shared, history, Tick, Begin, OpenChannels, Skip, Decide, ScriptReads, Post,
   ScriptDone, ScriptFails, ScriptEnds, Touch, Disconnect, VersionSent, Idle, SetState,
   VersionUpdate, TouchVersion

\* At a touch the channel has been handled.
LEMMA TouchStep ==
  ASSUME CheckinTyped, Called, NEW p \in Proc, Touch(p)
  PROVE  /\ Handled(Channel(p), noticed) /\ UNCHANGED <<sent, failed, noticed, fileTime, now>>
         /\ Channel(p) \in Chan
<1>1. pc[p] = "touch" /\ UNCHANGED <<sent, failed, noticed, fileTime, now>>
  BY DEF Touch
<1>2. next[p] <= Len(File)
  BY <1>1 DEF CheckinTyped, Places, Calling
<1> QED
  BY <1>1, <1>2, ChannelType DEF Called, CheckinTyped

LEMMA FreshStep == CheckinTyped /\ EditInv /\ [Next]_vars => Fresh'
<1> SUFFICES ASSUME CheckinTyped, EditInv, [Next]_vars, NEW c \in Chan, statTime'[c] >= fileTime'
             PROVE  sent'[c] >= noticed' \/ failed'[c] >= noticed'
  BY DEF Fresh, Handled
<1>0. Types /\ Past /\ Fresh /\ UpToDate /\ Called
  BY DEF CheckinTyped, EditInv
<1>a. /\ now \in Nat /\ statTime[c] \in Nat /\ noticed \in Nat /\ statTime[c] <= now
      /\ fileTime \in Nat /\ fileTime <= now
  BY <1>0, Numbers DEF Types, Past
<1>1. CASE Edit
  <2>1. statTime[c] >= now /\ noticed' = noticed /\ UNCHANGED <<sent, failed>>
    BY <1>1, <1>a, EditStep
  <2>2. statTime[c] >= fileTime
    BY <1>a, <2>1
  <2> QED
    BY <1>0, <2>1, <2>2 DEF Fresh, Handled
<1>2. CASE ~Edit /\ statTime'[c] = statTime[c]
  <2>1. statTime[c] >= fileTime /\ noticed' = noticed
    BY <1>2, NoEdit
  <2>2. Handled(c, noticed)
    BY <1>0, <2>1 DEF Fresh
  <2> QED
    BY <1>0, <1>a, <2>1, <2>2, StaysHandled
<1>3. ASSUME NEW p \in Proc, Touch(p), c = Channel(p) PROVE sent'[c] >= noticed' \/ failed'[c] >= noticed'
  BY <1>0, <1>3, TouchStep DEF Handled
<1> QED
  BY <1>1, <1>2, <1>3, TimesGrow

LEMMA LooksFreshStep == CheckinTyped /\ EditInv /\ [Next]_vars => LooksFresh'
<1> SUFFICES ASSUME CheckinTyped, EditInv, [Next]_vars, NEW p \in Proc, InLoop(p)',
                    NEW c \in Chan, statTime'[c] >= now' - fileAge'[p]
             PROVE  Handled(c, expected[p])'
  BY DEF LooksFresh
<1>0. Types /\ Past /\ Fresh /\ LooksFresh /\ UpToDate /\ Called
  BY DEF CheckinTyped, EditInv
<1>a. /\ now \in Nat /\ statTime[c] \in Nat /\ noticed \in Nat /\ statTime[c] <= now
      /\ fileTime \in Nat /\ fileAge[p] \in Nat /\ expected[p] \in Nat /\ expected[p] <= noticed
      /\ sent[c] \in Nat /\ failed[c] \in Nat
  <2>1. \A x \in 0 .. MaxTime : x \in Nat
    BY <1>0, Numbers
  <2> QED
    BY <1>0, <2>1, Numbers DEF Types, Past
\* A run that has measured the age of channels.xml, and does not do so again.
<1>1. ASSUME InLoop(p), UNCHANGED <<fileAge[p], expected[p]>>, now' \in {now, now + 1}
      PROVE  Handled(c, expected[p])'
  <2>1. CASE statTime'[c] = statTime[c]
    <3>1. statTime[c] >= now - fileAge[p]
      BY <1>1, <1>a, <2>1
    <3>2. Handled(c, expected[p])
      BY <1>0, <1>1, <3>1 DEF LooksFresh
    <3>3. sent'[c] >= expected[p] \/ failed'[c] >= expected[p]
      BY <1>0, <1>a, <3>2, StaysHandled
    <3> QED
      BY <1>1, <3>3 DEF Handled
  <2>2. ASSUME NEW q \in Proc, Touch(q), c = Channel(q) PROVE Handled(c, expected[p])'
    <3>1. Handled(c, noticed) /\ UNCHANGED <<sent, failed>>
      BY <1>0, <2>2, TouchStep
    <3> QED
      BY <1>1, <1>a, <3>1 DEF Handled
  <2> QED
    BY <2>1, <2>2, TimesGrow
<1>2. CASE OpenChannels(p)
  <2>1. /\ fileAge'[p] = now - fileTime /\ expected'[p] = noticed
        /\ UNCHANGED <<now, fileTime, statTime, sent, failed>>
    BY <1>0, <1>2 DEF OpenChannels, Age, shared, Types
  <2>2. statTime[c] >= fileTime
    BY <1>a, <2>1
  <2> QED
    BY <1>0, <2>1, <2>2 DEF Fresh, Handled
<1>3. CASE Tick \/ Edit \/ UNCHANGED vars
  <2>1. UNCHANGED <<pc, fileAge, expected>> /\ now' \in {now, now + 1}
    BY <1>3 DEF Tick, Edit, vars, shared, local, history
  <2> QED
    BY <1>1, <2>1 DEF InLoop
<1>4. ASSUME NEW q \in Proc, Step(q) PROVE now' = now
  BY <1>4 DEF Step, shared, Begin, OpenChannels, Skip, Decide, ScriptReads, Post, ScriptDone,
     ScriptFails, ScriptEnds, Touch, Disconnect, VersionSent, Idle, SetState, VersionUpdate,
     TouchVersion
<1>5. ASSUME NEW q \in Proc, Step(q), q # p PROVE Handled(c, expected[p])'
  BY <1>1, <1>4, <1>5, OthersStay DEF InLoop
<1>6. CASE Step(p) /\ ~OpenChannels(p)
  <2>1. InLoop(p) /\ UNCHANGED <<fileAge, expected>>
    <3>1. CASE Begin(p)
      <4>1. pc'[p] = "open"
        BY <1>0, <3>1, Moved DEF Begin, Where
      <4> QED
        BY <4>1 DEF InLoop
    <3>2. CASE Skip(p) \/ Decide(p) \/ ScriptReads(p) \/ Post(p) \/ Touch(p)
      BY <3>2 DEF Skip, Decide, ScriptReads, Post, Touch, history, InLoop
    <3>3. CASE ScriptDone(p) \/ ScriptFails(p)
      BY <3>3 DEF ScriptDone, ScriptFails, ScriptEnds, InLoop
    <3>4. CASE Disconnect(p)
      <4>1. pc'[p] = "version"
        BY <1>0, <3>4, Moved DEF Disconnect, Where
      <4> QED
        BY <4>1 DEF InLoop
    <3>5. CASE VersionSent(p) \/ Idle(p) \/ VersionUpdate(p) \/ TouchVersion(p)
      <4>1. \E x \in {"touchversion", "exited", "sendversion", "idle"} : Goto(p, x) /\ x \in Where
        BY <3>5 DEF VersionSent, Idle, SetState, VersionUpdate, TouchVersion, AfterTouch, Where
      <4>2. pc'[p] \in {"touchversion", "exited", "sendversion", "idle"}
        BY <1>0, <4>1, Moved
      <4> QED
        BY <4>2 DEF InLoop
    <3> QED
      BY <1>6, <3>1, <3>2, <3>3, <3>4, <3>5 DEF Step
  <2> QED
    BY <1>1, <1>4, <1>6, <2>1
<1> QED
  BY <1>2, <1>3, <1>5, <1>6 DEF Next

LEMMA UpToDateStep == CheckinTyped /\ EditInv /\ [Next]_vars => UpToDate'
<1> SUFFICES ASSUME CheckinTyped, EditInv, [Next]_vars, NEW p \in Proc
             PROVE  IF pc'[p] = "posting"
                    THEN /\ read'[p] >= noticed'
                         /\ \A i \in 1 .. post'[p] - 1 : sent'[File[i]] >= noticed'
                    ELSE post'[p] = 1
  BY DEF UpToDate
<1>0. Types /\ Past /\ Places /\ UpToDate
  BY DEF CheckinTyped, EditInv
<1>a. /\ noticed \in Nat /\ edition \in Nat /\ noticed <= edition /\ post[p] \in Nat
      /\ Len(File) \in Nat /\ post[p] >= 1 /\ post[p] <= Len(File) + 1
      /\ \A i \in 1 .. post[p] - 1 : File[i] \in Chan
  <2>1. /\ noticed \in Nat /\ edition \in Nat /\ noticed <= edition /\ post[p] \in Nat
        /\ Len(File) \in Nat /\ post[p] >= 1 /\ post[p] <= Len(File) + 1
    BY <1>0, Numbers DEF Past
  <2>2. \A i \in 1 .. post[p] - 1 : i \in 1 .. Len(File)
    BY <2>1
  <2> QED
    BY <1>0, <2>1, <2>2, Numbers
<1>1. ASSUME UNCHANGED <<pc[p], read[p], post[p]>>, ~Edit
      PROVE  IF pc'[p] = "posting"
             THEN /\ read'[p] >= noticed'
                  /\ \A i \in 1 .. post'[p] - 1 : sent'[File[i]] >= noticed'
             ELSE post'[p] = 1
  <2>1. noticed' = noticed
    BY <1>1, NoEdit
  <2>2. CASE pc[p] = "posting"
    <3>1. read[p] >= noticed /\ \A i \in 1 .. post[p] - 1 : sent[File[i]] >= noticed
      BY <1>0, <2>2 DEF UpToDate
    <3>2. ASSUME NEW i \in 1 .. post[p] - 1 PROVE sent'[File[i]] >= noticed
      <4>1. File[i] \in Chan /\ sent[File[i]] >= noticed /\ noticed <= noticed
        BY <1>a, <3>1
      <4> QED
        BY <1>0, <1>a, <4>1, StaysHandled
    <3> QED
      BY <1>1, <2>1, <2>2, <3>1, <3>2
  <2>3. CASE pc[p] # "posting"
    BY <1>0, <1>1, <2>3 DEF UpToDate
  <2> QED
    BY <2>2, <2>3
<1>2. CASE Edit
  <2>1. /\ UNCHANGED <<pc, read, post, sent>>
        /\ noticed' = noticed \/ \A q \in Proc : ~Reporting(q)
    BY <1>2, EditStep
  <2>2. CASE pc[p] = "posting"
    <3>1. noticed' = noticed
      BY <2>1, <2>2 DEF Reporting
    <3> QED
      BY <1>0, <2>1, <2>2, <3>1 DEF UpToDate
  <2>3. CASE pc[p] # "posting"
    BY <1>0, <2>1, <2>3 DEF UpToDate
  <2> QED
    BY <2>2, <2>3
<1>3. ASSUME NEW q \in Proc, Step(q), q # p
      PROVE  IF pc'[p] = "posting"
             THEN /\ read'[p] >= noticed'
                  /\ \A i \in 1 .. post'[p] - 1 : sent'[File[i]] >= noticed'
             ELSE post'[p] = 1
  <2>1. UNCHANGED <<pc[p], read[p], post[p]>>
    BY <1>3, OthersStay
  <2> QED
    BY <1>1, <1>2, <2>1
<1>4. CASE ScriptReads(p)
  <2>1. read'[p] = edition /\ post'[p] = 1 /\ noticed' = noticed /\ pc'[p] = "posting"
    <3>1. pc'[p] = "posting"
      BY <1>0, <1>4, Moved DEF ScriptReads, Where
    <3>2. post[p] = 1
      BY <1>0, <1>4 DEF UpToDate, ScriptReads
    <3> QED
      BY <1>0, <1>4, <3>1, <3>2 DEF ScriptReads, history, Types
  <2>2. 1 .. post'[p] - 1 = {}
    BY <2>1
  <2> QED
    BY <1>a, <2>1, <2>2
<1>5. CASE Post(p)
  <2>1. /\ pc[p] = "posting" /\ pc' = pc /\ read' = read /\ noticed' = noticed
        /\ post[p] \in 1 .. Len(File) /\ post'[p] = post[p] + 1
        /\ sent' = [sent EXCEPT ![File[post[p]]] = read[p]]
    BY <1>0, <1>5, <1>a DEF Post, Types
  <2>2. read[p] >= noticed /\ \A i \in 1 .. post[p] - 1 : sent[File[i]] >= noticed
    BY <1>0, <2>1 DEF UpToDate
  <2>3. sent'[File[post[p]]] >= noticed
    <3>1. File[post[p]] \in Chan /\ sent \in [Chan -> 0 .. MaxEdits]
      BY <1>0, <2>1, Numbers DEF Types
    <3> QED
      BY <2>1, <2>2, <3>1
  <2>4. ASSUME NEW i \in 1 .. post[p] - 1 PROVE sent'[File[i]] >= noticed
    <3>1. File[i] \in Chan /\ sent[File[i]] >= noticed /\ noticed <= noticed
      BY <1>a, <2>2
    <3> QED
      BY <1>0, <1>a, <3>1, StaysHandled
  <2>5. \A i \in 1 .. post'[p] - 1 : i = post[p] \/ i \in 1 .. post[p] - 1
    BY <1>a, <2>1
  <2>6. \A i \in 1 .. post'[p] - 1 : sent'[File[i]] >= noticed'
    BY <2>1, <2>3, <2>4, <2>5
  <2> QED
    BY <2>1, <2>2, <2>6
<1>6. CASE ScriptDone(p) \/ ScriptFails(p)
  <2>1. pc'[p] = "touch" /\ post'[p] = 1
    BY <1>0, <1>6, Moved DEF ScriptDone, ScriptFails, ScriptEnds, Where, Types
  <2> QED
    BY <2>1
<1>7. ASSUME UNCHANGED <<read, post>>, pc[p] # "posting", pc'[p] # "posting"
      PROVE  post'[p] = 1
  BY <1>0, <1>7 DEF UpToDate
<1>8. CASE Skip(p) \/ Decide(p) \/ Begin(p) \/ OpenChannels(p) \/ Touch(p) \/ Disconnect(p)
           \/ VersionSent(p) \/ Idle(p) \/ VersionUpdate(p) \/ TouchVersion(p)
  <2>1. UNCHANGED <<read, post>> /\ pc[p] # "posting"
    BY <1>8 DEF Skip, Decide, Begin, OpenChannels, Touch, Disconnect, VersionSent, Idle, SetState,
       VersionUpdate, TouchVersion
  <2>2. UNCHANGED pc \/ \E x \in Where : Goto(p, x) /\ x # "posting"
    BY <1>8 DEF Skip, Decide, Begin, OpenChannels, Touch, Disconnect, VersionSent, Idle, SetState,
       VersionUpdate, TouchVersion, AfterTouch, Where
  <2>3. pc'[p] # "posting"
    BY <1>0, <2>1, <2>2, Moved
  <2> QED
    BY <1>7, <2>1, <2>3
<1>9. CASE Tick \/ UNCHANGED vars
  <2>1. UNCHANGED <<pc, read, post>>
    BY <1>9 DEF Tick, vars, local
  <2> QED
    BY <1>1, <1>2, <2>1
<1> QED
  BY <1>2, <1>3, <1>4, <1>5, <1>6, <1>8, <1>9 DEF Next, Step

LEMMA CalledStep == CheckinTyped /\ EditInv /\ [Next]_vars => Called'
<1> SUFFICES ASSUME CheckinTyped, EditInv, [Next]_vars, NEW p \in Proc, pc'[p] = "touch"
             PROVE  Handled(Channel(p), noticed)'
  BY DEF Called
<1>0. Types /\ Past /\ Places /\ UpToDate /\ Called
  BY DEF CheckinTyped, EditInv
<1>a. noticed \in Nat /\ edition \in Nat /\ noticed <= edition /\ Len(File) \in Nat
  BY <1>0, Numbers DEF Past
<1>1. ASSUME UNCHANGED <<pc[p], next[p]>>, ~Edit PROVE Handled(Channel(p), noticed)'
  <2>1. noticed' = noticed /\ Channel(p)' = Channel(p) /\ Handled(Channel(p), noticed)
    BY <1>0, <1>1, NoEdit DEF Called, Channel
  <2>2. Channel(p) \in Chan /\ noticed <= noticed
    BY <1>0, <1>1, <1>a, ChannelType DEF Places, Calling
  <2>3. sent'[Channel(p)] >= noticed \/ failed'[Channel(p)] >= noticed
    <3>1. PICK c \in Chan : c = Channel(p)
      BY <2>2
    <3>2. Handled(c, noticed) /\ noticed \in Nat
      BY <1>a, <2>1, <3>1
    <3>3. sent'[c] >= noticed \/ failed'[c] >= noticed
      BY <1>0, <2>2, <3>2, StaysHandled
    <3> QED
      BY <3>1, <3>3
  <2> QED
    BY <2>1, <2>3 DEF Handled
<1>2. CASE Edit
  <2>1. UNCHANGED <<pc, next, sent, failed>> /\ (noticed' = noticed \/ ~Reporting(p))
    BY <1>2, EditStep
  <2>2. noticed' = noticed /\ Channel(p)' = Channel(p)
    BY <2>1 DEF Reporting, Channel
  <2> QED
    BY <1>0, <2>1, <2>2 DEF Called, Handled
<1>3. ASSUME NEW q \in Proc, Step(q), q # p PROVE Handled(Channel(p), noticed)'
  BY <1>1, <1>2, <1>3, OthersStay
<1>4. CASE ScriptDone(p)
  <2>1. /\ pc[p] = "posting" /\ post[p] > Len(File) /\ UNCHANGED <<next, sent, failed, noticed>>
    BY <1>4 DEF ScriptDone, ScriptEnds
  <2>2. next[p] \in 1 .. Len(File)
    BY <1>0, <2>1, Numbers DEF Places, Calling
  <2>3. next[p] \in 1 .. post[p] - 1
    BY <1>0, <1>a, <2>1, <2>2, Numbers
  <2>4. sent[Channel(p)] >= noticed
    BY <1>0, <2>1, <2>3 DEF UpToDate, Channel
  <2> QED
    BY <2>1, <2>4 DEF Handled, Channel
<1>5. CASE ScriptFails(p)
  <2>1. /\ pc[p] \in {"script", "posting"} /\ UNCHANGED <<next, sent, noticed>>
    BY <1>5 DEF ScriptFails, ScriptEnds
  <2>2. Channel(p) \in Chan /\ failed \in [Chan -> 0 .. MaxEdits]
    BY <1>0, <2>1, ChannelType DEF Places, Calling, Types
  <2>3. pc[p] = "posting" => read[p] >= noticed
    BY <1>0 DEF UpToDate
  <2>4. failed'[Channel(p)] >= noticed
    BY <1>5, <1>a, <2>2, <2>3 DEF ScriptFails
  <2> QED
    BY <2>1, <2>4 DEF Handled, Channel
\* No other step of p ends at the touch.
<1>6. CASE Skip(p) \/ Post(p) \/ Begin(p) \/ OpenChannels(p) \/ Decide(p) \/ ScriptReads(p)
           \/ Touch(p) \/ Disconnect(p)
           \/ VersionSent(p) \/ Idle(p) \/ VersionUpdate(p) \/ TouchVersion(p)
  <2>1. \/ UNCHANGED pc /\ pc[p] # "touch"
        \/ \E x \in Where : Goto(p, x) /\ x # "touch"
    BY <1>6 DEF Skip, Post, Decide, Begin, OpenChannels, ScriptReads, Touch, Disconnect, VersionSent,
       Idle, SetState, VersionUpdate, TouchVersion, AfterTouch, Where
  <2>2. pc'[p] # "touch"
    BY <1>0, <2>1, Moved
  <2> QED
    BY <2>2
<1>7. CASE Tick \/ UNCHANGED vars
  <2>1. UNCHANGED <<pc, next>>
    BY <1>7 DEF Tick, vars, local
  <2> QED
    BY <1>1, <1>2, <2>1
<1> QED
  BY <1>2, <1>3, <1>4, <1>5, <1>6, <1>7 DEF Next, Step

LEMMA CoveredStep == CheckinTyped /\ EditInv /\ [Next]_vars => Covered'
<1> SUFFICES ASSUME CheckinTyped, EditInv, [Next]_vars, NEW p \in Proc, ~Before(p)',
                    NEW i \in 1 .. next'[p] - 1
             PROVE  \/ i \in skipped'[p]
                    \/ sent'[File[i]] >= expected'[p] \/ failed'[File[i]] >= expected'[p]
  BY DEF Covered, Handled
<1> DEFINE Done(j) == \/ j \in skipped'[p]
                      \/ sent'[File[j]] >= expected'[p] \/ failed'[File[j]] >= expected'[p]
<1>0. Types /\ Past /\ Places /\ UpToDate /\ Called /\ LooksFresh /\ Covered
  BY DEF CheckinTyped, EditInv
<1>a. /\ noticed \in Nat /\ expected[p] \in Nat /\ expected[p] <= noticed /\ Len(File) \in Nat
      /\ next[p] \in Nat /\ next[p] >= 1 /\ next[p] <= Len(File) + 1
  BY <1>0, Numbers DEF Past
\* An entry that has been passed.
<1>1. ASSUME ~Before(p), i \in 1 .. next[p] - 1, expected'[p] = expected[p],
             skipped[p] \subseteq skipped'[p]
      PROVE  Done(i)
  <2>1. i \in skipped[p] \/ Handled(File[i], expected[p])
    BY <1>0, <1>1 DEF Covered
  <2>2. File[i] \in Chan
    <3>1. i \in 1 .. Len(File)
      BY <1>1, <1>a
    <3> QED
      BY <1>0, <3>1, Numbers
  <2>3. Handled(File[i], expected[p]) => sent'[File[i]] >= expected[p] \/ failed'[File[i]] >= expected[p]
    BY <1>0, <1>a, <2>2, StaysHandled
  <2> QED
    BY <1>1, <2>1, <2>3
<1>2. ASSUME UNCHANGED <<pc[p], next[p], expected[p], skipped[p]>> PROVE Done(i)
  BY <1>1, <1>2 DEF Before
<1>3. ASSUME NEW q \in Proc, Step(q), q # p PROVE Done(i)
  BY <1>2, <1>3, OthersStay
<1>4. CASE Begin(p)
  <2>1. pc'[p] = "open"
    BY <1>0, <1>4, Moved DEF Begin, Where
  <2> QED
    BY <2>1 DEF Before
<1>5. CASE OpenChannels(p)
  <2>1. next'[p] = 1
    BY <1>0, <1>5 DEF OpenChannels, Places, Before
  <2> QED
    BY <2>1
\* A run passes the entry next[p].
<1>6. ASSUME ~Before(p), next[p] <= Len(File), NextEntry(p), expected' = expected,
             skipped[p] \subseteq skipped'[p], Done(next[p])
      PROVE  Done(i)
  <2>1. next'[p] = next[p] + 1
    BY <1>0, <1>6, Advanced
  <2>2. i = next[p] \/ i \in 1 .. next[p] - 1
    BY <1>a, <2>1
  <2> QED
    BY <1>1, <1>6, <2>2
<1>7. CASE Skip(p)
  <2>1. /\ pc[p] = "channel" /\ next[p] <= Len(File) /\ NextEntry(p) /\ expected' = expected
        /\ skipped'[p] = skipped[p] \cup {next[p]}
    BY <1>0, <1>7 DEF Skip, Types
  <2> QED
    BY <1>6, <2>1 DEF Before
<1>8. CASE Decide(p)
  <2>1. /\ pc[p] = "channel" /\ next[p] <= Len(File)
        /\ UNCHANGED <<sent, failed, skipped, expected, now>>
    BY <1>8 DEF Decide
  <2>2. CASE ~Due(p, Channel(p)) /\ NextEntry(p)
    <3>1. Channel(p) \in Chan /\ statTime[Channel(p)] \in Nat /\ now \in Nat /\ fileAge[p] \in Int
      <4>1. Channel(p) \in Chan
        BY <1>0, <2>1, ChannelType
      <4>2. statTime[Channel(p)] \in Nat /\ now \in Nat /\ MaxTime \in Nat
        BY <1>0, <4>1, Numbers
      <4>3. fileAge[p] \in 0 .. MaxTime
        BY <1>0 DEF Types
      <4> QED
        BY <4>1, <4>2, <4>3
    <3>2. statTime[Channel(p)] >= now - fileAge[p]
      BY <2>2, <3>1 DEF Due, Younger, Age
    <3>3. Handled(Channel(p), expected[p])
      BY <1>0, <2>1, <3>1, <3>2 DEF LooksFresh, InLoop
    <3>4. Done(next[p])
      BY <2>1, <3>3 DEF Handled, Channel
    <3> QED
      BY <1>6, <2>1, <2>2, <3>4 DEF Before
  <2>3. CASE next' = next
    BY <1>1, <2>1, <2>3 DEF Before
  <2> QED
    BY <1>8, <2>2, <2>3 DEF Decide
<1>9. CASE Touch(p)
  <2>1. /\ pc[p] = "touch" /\ NextEntry(p) /\ UNCHANGED <<sent, failed, skipped, expected>>
        /\ next[p] <= Len(File)
    BY <1>0, <1>9 DEF Touch, Places, Calling
  <2>2. Handled(Channel(p), noticed) /\ Channel(p) \in Chan
    BY <1>0, <1>9, TouchStep
  <2>3. sent[Channel(p)] \in Nat /\ failed[Channel(p)] \in Nat
    BY <1>0, <2>2, Numbers
  <2>4. Done(next[p])
    BY <1>a, <2>1, <2>2, <2>3 DEF Handled, Channel
  <2> QED
    BY <1>6, <2>1, <2>4 DEF Before
<1>10. CASE ScriptReads(p) \/ Post(p) \/ ScriptDone(p) \/ ScriptFails(p) \/ Disconnect(p)
            \/ VersionSent(p) \/ Idle(p) \/ VersionUpdate(p) \/ TouchVersion(p)
  <2>1. ~Before(p) /\ UNCHANGED <<next, expected, skipped>>
    BY <1>10 DEF ScriptReads, Post, ScriptDone, ScriptFails, ScriptEnds, Disconnect, VersionSent, Idle,
       SetState, VersionUpdate, TouchVersion, Before, history
  <2> QED
    BY <1>1, <2>1
<1>11. CASE Tick \/ Edit \/ UNCHANGED vars
  <2>1. UNCHANGED <<pc, next, expected, skipped>>
    BY <1>11 DEF Tick, Edit, vars, local, history
  <2> QED
    BY <1>2, <2>1
<1> QED
  BY <1>3, <1>4, <1>5, <1>7, <1>8, <1>9, <1>10, <1>11 DEF Next, Step

\* What a run that is through with the channels knows to be reported.
LEMMA CoversAll == CheckinTyped /\ Covered => EditReported
<1> SUFFICES ASSUME CheckinTyped, Covered, NEW p \in Proc, Through(p), NEW i \in 1 .. Len(File)
             PROVE  i \in skipped[p] \/ Handled(File[i], expected[p])
  BY DEF EditReported
<1>1. next[p] - 1 = Len(File) /\ ~Before(p)
  <2>1. Len(File) \in Nat
    BY Numbers DEF CheckinTyped
  <2> QED
    BY <2>1 DEF CheckinTyped, Places, Through, Before
<1> QED
  BY <1>1 DEF Covered

\* An edit of channels.xml is reported by the next run, or a script called for
\* the channel has failed, unless it was made while a script that had read
\* channels.xml before was under way or in the second of a touch.
THEOREM EditsReported == Spec => []EditReported
<1>1. Init => EditInv
  <2> SUFFICES ASSUME Init PROVE EditInv
    OBVIOUS
  <2>1. noticed = 0 /\ \A c \in Chan : Handled(c, 0)
    BY DEF Init, Handled
  <2>2. \A p \in Proc : Before(p) /\ pc[p] = "start" /\ post[p] = 1
    BY DEF Init, Before
  <2> QED
    BY <2>1, <2>2 DEF EditInv, Fresh, LooksFresh, InLoop, UpToDate, Called, Covered
<1>2. CheckinTyped /\ EditInv /\ [Next]_vars => EditInv'
  BY FreshStep, LooksFreshStep, UpToDateStep, CalledStep, CoveredStep DEF EditInv
<1>3. CheckinTyped /\ EditInv => EditReported
  BY CoversAll DEF EditInv
<1> QED
  BY <1>1, <1>2, <1>3, CheckinTypedInvariant, PTL DEF Spec

(* ---- the pace of the reports -------------------------------------------- *)

OneAtATime == ~overlapped => \A p, q \in Proc : Live(p) /\ Live(q) => p = q

\* A status file is no older than the last call, unless a run is between the
\* call and the touch.
Marked(c) == reports[c] <= statTime[c] \/ \E p \in Proc : Calling(p) /\ Channel(p) = c
VersionMarked == \/ reports["version"] <= versionTime
                 \/ \E p \in Proc : pc[p] \in {"sendversion", "touchversion"}
LastReport == VersionMarked /\ \A c \in Chan : Marked(c)

LEMMA OneAtATimeStep == CheckinTyped /\ OneAtATime /\ [Next]_vars => OneAtATime'
<1> SUFFICES ASSUME CheckinTyped, OneAtATime, [Next]_vars PROVE OneAtATime'
  OBVIOUS
<1>1. ASSUME overlapped' = overlapped, \A p \in Proc : Live(p)' => Live(p) PROVE OneAtATime'
  BY <1>1 DEF OneAtATime
<1>2. ASSUME NEW p \in Proc, Begin(p) PROVE OneAtATime'
  <2>1. \A q \in Proc : q # p => pc'[q] = pc[q]
    BY <1>2, OthersStay DEF Step
  <2>2. ~overlapped' => \A q \in Proc : ~Live(q)
    BY <1>2 DEF Begin
  <2> QED
    BY <2>1, <2>2 DEF OneAtATime, Live
<1>3. ASSUME NEW p \in Proc, Step(p), ~Begin(p) PROVE OneAtATime'
  <2>1. overlapped' = overlapped
    BY <1>3 DEF Step, OpenChannels, Skip, Decide, ScriptReads, Post, ScriptDone, ScriptFails,
       ScriptEnds, Touch, Disconnect, VersionSent, Idle, SetState, VersionUpdate, TouchVersion,
       history
  <2>2. Live(p)
    BY <1>3 DEF Step, OpenChannels, Skip, Decide, ScriptReads, Post, ScriptDone, ScriptFails,
       ScriptEnds, Touch, Disconnect, VersionSent, Idle, SetState, VersionUpdate, TouchVersion,
       Live
  <2>3. \A q \in Proc : q # p => pc'[q] = pc[q]
    BY <1>3, OthersStay
  <2> QED
    BY <1>1, <2>1, <2>2, <2>3 DEF Live
<1>4. CASE Tick \/ Edit \/ UNCHANGED vars
  BY <1>1, <1>4 DEF Tick, Edit, vars, local, history, Live
<1> QED
  BY <1>2, <1>3, <1>4 DEF Next

\* Reports are kept as long as runs do not overlap.
Unkept == overlapped => reports = Never

LEMMA UnkeptStep == CheckinTyped /\ Unkept /\ [Next]_vars => Unkept'
<1> SUFFICES ASSUME CheckinTyped, Unkept, [Next]_vars PROVE Unkept'
  OBVIOUS
<1>1. CASE UNCHANGED <<overlapped, reports>>
  BY <1>1 DEF Unkept
<1>2. ASSUME NEW p \in Proc, Begin(p) PROVE Unkept'
  BY <1>2 DEF Begin, Unkept, Never
<1>3. ASSUME NEW p \in Proc, Decide(p) \/ Touch(p) \/ VersionUpdate(p) \/ TouchVersion(p)
      PROVE  Unkept'
  <2>1. overlapped' = overlapped /\ (overlapped => reports' = reports)
    BY <1>3 DEF Decide, Touch, VersionUpdate, TouchVersion, Reported
  <2> QED
    BY <2>1 DEF Unkept, Never
<1>4. ASSUME NEW p \in Proc, Step(p), ~Begin(p), ~Decide(p), ~Touch(p), ~VersionUpdate(p),
             ~TouchVersion(p)
      PROVE  UNCHANGED <<overlapped, reports>>
  BY <1>4 DEF Step, OpenChannels, Skip, ScriptReads, Post, ScriptDone, ScriptFails, ScriptEnds,
     Disconnect, VersionSent, Idle, SetState, history
<1>5. CASE Tick \/ Edit \/ UNCHANGED vars
  BY <1>1, <1>5 DEF Tick, Edit, vars, history
<1> QED
  BY <1>1, <1>2, <1>3, <1>4, <1>5 DEF Next

LEMMA LastReportStep == CheckinTyped /\ Unkept /\ LastReport /\ [Next]_vars => LastReport'
<1> SUFFICES ASSUME CheckinTyped, Unkept, LastReport, [Next]_vars PROVE LastReport'
  OBVIOUS
<1>0. Types /\ Past /\ Places
  BY DEF CheckinTyped
<1>a. /\ now \in Nat /\ now \in 0 .. MaxTime /\ 0 \in 0 .. MaxTime
      /\ \A c \in Chan : statTime[c] \in Nat /\ reports[c] \in Nat /\ reports[c] <= now
      /\ reports["version"] \in Nat /\ reports["version"] <= now /\ versionTime \in Nat
      /\ \A c \in Chan : c # "version"
  <2>1. now \in Nat /\ MaxTime \in Nat /\ "version" \in Reportable /\ Chan \subseteq Reportable
    BY <1>0, Numbers
  <2>2. \A k \in Reportable : reports[k] \in Nat /\ reports[k] <= now
    BY <1>0, <2>1 DEF Types, Past
  <2>3. versionTime \in Nat /\ \A c \in Chan : statTime[c] \in Nat
    BY <1>0, Numbers DEF Types
  <2> QED
    BY <1>0, <2>1, <2>2, <2>3, Numbers
<1>b. /\ reports \in [Reportable -> 0 .. MaxTime] /\ statTime \in [Chan -> 0 .. MaxTime]
      /\ Chan \subseteq Reportable /\ "version" \in Reportable
  BY <1>0, Numbers DEF Types
\* Marks for the channel stay while the run that handles it goes on with it.
<1>2. ASSUME NEW c \in Chan, reports'[c] = reports[c] \/ reports'[c] = 0,
             \A p \in Proc : Calling(p) => Calling(p)' /\ Channel(p)' = Channel(p)
      PROVE  Marked(c)'
  <2>1. CASE reports[c] <= statTime[c]
    <3>1. statTime'[c] \in {statTime[c], now}
      BY TimesGrow
    <3> QED
      BY <1>2, <1>a, <2>1, <3>1 DEF Marked
  <2>2. CASE \E p \in Proc : Calling(p) /\ Channel(p) = c
    BY <1>2, <2>2 DEF Marked
  <2> QED
    BY <2>1, <2>2 DEF LastReport, Marked
<1>3. ASSUME reports'["version"] = reports["version"] \/ reports'["version"] = 0,
             versionTime' = versionTime,
             \A p \in Proc : pc[p] \in {"sendversion", "touchversion"}
                               => pc'[p] \in {"sendversion", "touchversion"}
      PROVE  VersionMarked'
  BY <1>3, <1>a DEF LastReport, VersionMarked
<1>4. ASSUME NEW p \in Proc, Decide(p) PROVE LastReport'
  <2>0. /\ pc[p] = "channel" /\ next[p] <= Len(File) /\ Channel(p) \in Chan
        /\ versionTime' = versionTime
    BY <1>0, <1>4, ChannelType DEF Decide
  <2>1. \A q \in Proc : q # p => pc'[q] = pc[q] /\ next'[q] = next[q]
    BY <1>4, OthersStay DEF Step
  <2>c. PICK d \in Chan : d = Channel(p)
    BY <2>0
  <2>a. \A c \in Chan : c # d => reports'[c] = reports[c]
    BY <1>0, <1>4, <1>a, <1>b, <2>c, ReportedType DEF Decide
  <2>2. reports'["version"] = reports["version"]
    BY <1>0, <1>4, <1>a, <1>b, <2>c, ReportedType DEF Decide
  <2>3. VersionMarked'
    BY <1>3, <2>0, <2>1, <2>2
  <2>4. ASSUME NEW c \in Chan PROVE Marked(c)'
    <3>1. CASE UNCHANGED <<pc, reports>> \/ c # d
      <4>1. reports'[c] = reports[c]
        BY <2>a, <3>1
      <4>2. ~Calling(p)
        BY <2>0 DEF Calling
      <4> QED
        BY <1>2, <2>1, <4>1, <4>2 DEF Calling, Channel
    <3>2. CASE Goto(p, "script") /\ next' = next /\ c = d
      <4>1. pc'[p] = "script"
        BY <1>0, <3>2, Moved DEF Where
      <4> QED
        BY <2>c, <3>2, <4>1 DEF Marked, Calling, Channel
    <3> QED
      BY <1>4, <3>1, <3>2 DEF Decide
  <2> QED
    BY <2>3, <2>4 DEF LastReport
<1>5. ASSUME NEW p \in Proc, Touch(p) PROVE LastReport'
  <2>0. /\ pc[p] = "touch" /\ next[p] <= Len(File) /\ Channel(p) \in Chan
        /\ versionTime' = versionTime
    BY <1>0, <1>5, ChannelType DEF Touch, Places, Calling
  <2>1. \A q \in Proc : q # p => pc'[q] = pc[q] /\ next'[q] = next[q]
    BY <1>5, OthersStay DEF Step
  <2>c. PICK d \in Chan : d = Channel(p)
    BY <2>0
  <2>a. \A c \in Chan : c # d => reports'[c] = reports[c]
    BY <1>0, <1>5, <1>a, <1>b, <2>c, ReportedType DEF Touch
  <2>2. reports'["version"] = reports["version"]
    BY <1>0, <1>5, <1>a, <1>b, <2>c, ReportedType DEF Touch
  <2>3. VersionMarked'
    BY <1>3, <2>0, <2>1, <2>2
  <2>5. Marked(d)'
    <3>1. CASE statTime' = [statTime EXCEPT ![d] = Touched(@)] /\ reports' = reports
      <4>1. statTime'[d] = now
        BY <1>b, <3>1 DEF Touched
      <4> QED
        BY <1>a, <3>1, <4>1 DEF Marked
    <3>2. CASE statTime' = statTime /\ Reported(d, 0)
      <4>1. reports'[d] = 0 /\ statTime'[d] \in Nat
        <5>1. CASE overlapped
          <6>1. reports' = Never
            BY <3>2, <5>1 DEF Reported, Unkept
          <6> QED
            BY <1>a, <3>2, <6>1 DEF Never
        <5>2. CASE ~overlapped
          BY <1>a, <1>b, <3>2, <5>2 DEF Reported
        <5> QED
          BY <5>1, <5>2
      <4> QED
        BY <1>a, <3>2, <4>1 DEF Marked
    <3> QED
      BY <1>5, <2>c, <3>1, <3>2 DEF Touch
  <2>6. ASSUME NEW c \in Chan, c # d PROVE Marked(c)'
    <3>1. reports'[c] = reports[c] /\ statTime'[c] \in {statTime[c], now}
      BY <2>a, <2>6, TimesGrow
    <3>2. CASE reports[c] <= statTime[c]
      BY <1>a, <3>1, <3>2 DEF Marked
    <3>3. ASSUME NEW q \in Proc, Calling(q), Channel(q) = c PROVE Marked(c)'
      <4>1. q # p
        BY <2>6, <2>c, <3>3
      <4> QED
        BY <2>1, <3>3, <4>1 DEF Marked, Calling, Channel
    <3> QED
      BY <3>2, <3>3 DEF LastReport, Marked
  <2> QED
    BY <2>3, <2>5, <2>6 DEF LastReport
<1>6. ASSUME NEW p \in Proc, VersionUpdate(p) PROVE LastReport'
  <2>1. \A q \in Proc : q # p => pc'[q] = pc[q] /\ next'[q] = next[q]
    BY <1>6, OthersStay DEF Step
  <2>2. pc[p] = "version" /\ UNCHANGED <<statTime, versionTime, next>>
    BY <1>6 DEF VersionUpdate
  <2>3. \A c \in Chan : reports'[c] = reports[c]
    <3>1. reports' = reports \/ Reported("version", now)
      BY <1>6 DEF VersionUpdate
    <3> QED
      BY <1>0, <1>a, <1>b, <3>1, ReportedType
  <2>4. \A c \in Chan : Marked(c)'
    BY <1>2, <2>1, <2>2, <2>3 DEF Calling, Channel
  <2>5. VersionMarked'
    <3>1. CASE Goto(p, "sendversion")
      <4>1. pc'[p] = "sendversion"
        BY <1>0, <3>1, Moved DEF Where
      <4> QED
        BY <4>1 DEF VersionMarked
    <3>2. CASE reports' = reports
      BY <1>3, <2>1, <2>2, <3>2
    <3> QED
      BY <1>6, <3>1, <3>2 DEF VersionUpdate
  <2> QED
    BY <2>4, <2>5 DEF LastReport
<1>7. ASSUME NEW p \in Proc, TouchVersion(p) PROVE LastReport'
  <2>1. \A q \in Proc : q # p => pc'[q] = pc[q] /\ next'[q] = next[q]
    BY <1>7, OthersStay DEF Step
  <2>2. pc[p] = "touchversion" /\ UNCHANGED <<statTime, next>>
    BY <1>7 DEF TouchVersion
  <2>3. \A c \in Chan : reports'[c] = reports[c]
    <3>1. reports' = reports \/ Reported("version", 0)
      BY <1>7 DEF TouchVersion
    <3> QED
      BY <1>0, <1>a, <1>b, <3>1, ReportedType
  <2>4. \A c \in Chan : Marked(c)'
    BY <1>2, <2>1, <2>2, <2>3 DEF Calling, Channel
  <2>5. reports'["version"] <= versionTime'
    <3>1. CASE versionTime' = Touched(versionTime) /\ reports' = reports
      BY <1>a, <3>1 DEF Touched
    <3>2. CASE versionTime' = versionTime /\ Reported("version", 0)
      <4>1. CASE overlapped
        <5>1. reports' = Never
          BY <3>2, <4>1 DEF Reported, Unkept
        <5> QED
          BY <1>a, <3>2, <5>1 DEF Never
      <4>2. CASE ~overlapped
        BY <1>a, <1>b, <3>2, <4>2 DEF Reported
      <4> QED
        BY <4>1, <4>2
    <3> QED
      BY <1>7, <3>1, <3>2 DEF TouchVersion
  <2> QED
    BY <2>4, <2>5 DEF LastReport, VersionMarked
\* The other steps report nothing, or forget reports.
<1>8. ASSUME NEW p \in Proc, Step(p), reports' \in {reports, Never}, versionTime' = versionTime,
             Calling(p) => Calling(p)' /\ Channel(p)' = Channel(p),
             pc[p] \in {"sendversion", "touchversion"} => pc'[p] \in {"sendversion", "touchversion"}
      PROVE  LastReport'
  <2>1. \A q \in Proc : q # p => pc'[q] = pc[q] /\ next'[q] = next[q]
    BY <1>8, OthersStay
  <2>2. \A k \in Reportable : reports'[k] = reports[k] \/ reports'[k] = 0
    BY <1>8 DEF Never, Reportable
  <2>3. \A c \in Chan : Marked(c)'
    BY <1>2, <1>8, <1>b, <2>1, <2>2 DEF Calling, Channel
  <2>4. VersionMarked'
    BY <1>3, <1>8, <1>b, <2>1, <2>2
  <2> QED
    BY <2>3, <2>4 DEF LastReport
<1>9. ASSUME NEW p \in Proc,
             Begin(p) \/ OpenChannels(p) \/ Skip(p) \/ Disconnect(p) \/ Idle(p)
      PROVE  LastReport'
  <2>1. Step(p) /\ ~Calling(p) /\ pc[p] \notin {"sendversion", "touchversion"}
    BY <1>9 DEF Step, Begin, OpenChannels, Skip, Disconnect, Idle, SetState, Calling
  <2>2. reports' \in {reports, Never} /\ versionTime' = versionTime
    BY <1>9 DEF Begin, OpenChannels, Skip, Disconnect, Idle, SetState, shared, history
  <2> QED
    BY <1>8, <2>1, <2>2
<1>10. ASSUME NEW p \in Proc, ScriptReads(p) \/ Post(p) \/ ScriptDone(p) \/ ScriptFails(p)
       PROVE  LastReport'
  <2>1. pc[p] \in {"script", "posting"} /\ UNCHANGED <<reports, versionTime, next>>
    BY <1>10 DEF ScriptReads, Post, ScriptDone, ScriptFails, ScriptEnds, shared, history
  <2>2. \/ UNCHANGED pc
        \/ \E x \in {"posting", "touch"} : Goto(p, x) /\ x \in Where
    BY <1>10 DEF ScriptReads, Post, ScriptDone, ScriptFails, ScriptEnds, Where
  <2>3. pc'[p] \in {"script", "posting", "touch"}
    BY <1>0, <2>1, <2>2, Moved
  <2>4. Step(p)
    BY <1>10 DEF Step
  <2> QED
    BY <1>8, <2>1, <2>3, <2>4 DEF Calling, Channel
<1>11. ASSUME NEW p \in Proc, VersionSent(p) PROVE LastReport'
  <2>1. pc[p] = "sendversion" /\ Goto(p, "touchversion") /\ UNCHANGED <<reports, versionTime>>
    BY <1>11 DEF VersionSent, SetState, history
  <2>2. pc'[p] = "touchversion"
    BY <1>0, <2>1, Moved DEF Where
  <2> QED
    BY <1>8, <1>11, <2>1, <2>2 DEF Step, Calling
<1>12. CASE Tick \/ Edit \/ UNCHANGED vars
  <2>1. UNCHANGED <<pc, next, reports, statTime, versionTime>>
    BY <1>12 DEF Tick, Edit, vars, shared, local, history
  <2> QED
    BY <2>1 DEF LastReport, VersionMarked, Marked, Calling, Channel
<1> QED
  BY <1>4, <1>5, <1>6, <1>7, <1>9, <1>10, <1>11, <1>12 DEF Next, Step

LEMMA PacedStep ==
  ASSUME CheckinTyped, OneAtATime, LastReport, Next, NEW p \in Proc
  PROVE  ReportPaced(p) /\ VersionPaced(p)
<1>0. Types /\ Past /\ Places
  BY DEF CheckinTyped
<1>a. /\ now \in Nat /\ Interval \in Nat /\ VersionInterval \in Nat
      /\ reports["version"] \in Nat /\ \A c \in Chan : reports[c] \in Nat
  <2>1. now \in Nat /\ MaxTime \in Nat /\ "version" \in Reportable /\ Chan \subseteq Reportable
    BY <1>0, Numbers
  <2>2. \A k \in Reportable : reports[k] \in Nat
    BY <1>0, <2>1 DEF Types
  <2> QED
    BY <1>0, <2>1, <2>2, Numbers, CheckinAssumption
<1>1. ASSUME pc'[p] # pc[p] PROVE Step(p)
  <2>1. ASSUME NEW q \in Proc, Step(q) PROVE q = p
    BY <1>1, <2>1, OthersStay
  <2>2. ~(Tick \/ Edit)
    BY <1>1 DEF Tick, Edit, local
  <2> QED
    BY <2>1, <2>2 DEF Next
\* With one run at a time, no other is between a call and its touch.
<1>2. ASSUME ~overlapped, NEW x \in {"channel", "version"}, pc[p] = x
      PROVE  /\ reports["version"] <= versionTime
             /\ \A c \in Chan : reports[c] <= statTime[c]
  <2>1. ASSUME NEW q \in Proc, Calling(q) \/ pc[q] \in {"sendversion", "touchversion"}
        PROVE  FALSE
    <3>1. Live(p) /\ Live(q)
      BY <1>2, <2>1 DEF Live, Calling
    <3>2. q = p
      BY <1>2, <3>1 DEF OneAtATime
    <3> QED
      BY <1>2, <2>1, <3>2 DEF Calling
  <2> QED
    BY <2>1 DEF LastReport, VersionMarked, Marked
<1>3. ASSUME pc[p] = "channel", pc'[p] = "script", ~overlapped
      PROVE  now - reports[Channel(p)] >= Interval \/ now - reports[Channel(p)] > fileAge[p]
  <2>1. Step(p)
    BY <1>1, <1>3
  <2>2. Decide(p)
    <3>1. ~Disconnect(p)
      BY <1>0, <1>3, Moved DEF Disconnect, Where
    <3>2. ~Skip(p)
      BY <1>3 DEF Skip
    <3> QED
      BY <1>3, <2>1, <3>1, <3>2 DEF Step, Begin, OpenChannels, ScriptReads, Post, ScriptDone,
         ScriptFails, ScriptEnds, Touch, VersionSent, Idle, SetState, VersionUpdate, TouchVersion
  <2>3. Due(p, Channel(p)) /\ next[p] <= Len(File)
    BY <1>3, <2>2 DEF Decide
  <2>4. PICK c \in Chan : c = Channel(p)
    BY <1>0, <2>3, ChannelType
  <2>5. statTime[c] \in Nat /\ reports[c] \in Nat /\ reports[c] <= statTime[c]
    <3>1. statTime[c] \in Nat
      BY <1>0, Numbers DEF Types
    <3>2. reports[c] \in Nat
      BY <1>a, <2>4
    <3> QED
      BY <1>2, <1>3, <3>1, <3>2
  <2>6. fileAge[p] \in Int
    BY <1>0, Numbers DEF Types
  <2>7. now - statTime[c] >= Interval \/ fileAge[p] < now - statTime[c]
    BY <2>3, <2>4 DEF Due, Age, Younger
  <2> QED
    BY <1>a, <2>4, <2>5, <2>6, <2>7
<1>4. ASSUME pc[p] = "version", pc'[p] = "sendversion", ~overlapped
      PROVE  now - reports["version"] >= VersionInterval
  <2>1. Step(p)
    BY <1>1, <1>4
  <2>2. VersionUpdate(p)
    BY <1>4, <2>1 DEF Step, Begin, OpenChannels, Skip, Decide, ScriptReads, Post, ScriptDone,
       ScriptFails, ScriptEnds, Touch, Disconnect, VersionSent, Idle, SetState, TouchVersion
  <2>3. VersionDue
    <3>1. ~VersionDue => pc'[p] = "idle"
      BY <1>0, <2>2, Moved DEF VersionUpdate, Where
    <3> QED
      BY <1>4, <3>1
  <2>4. versionTime \in Nat /\ reports["version"] \in Nat /\ reports["version"] <= versionTime
    <3>1. versionTime \in Nat
      BY <1>0, Numbers DEF Types
    <3>2. reports["version"] \in Nat
      BY <1>a
    <3> QED
      BY <1>2, <1>4, <3>1, <3>2
  <2> QED
    BY <1>a, <2>3, <2>4 DEF VersionDue, Age
<1> QED
  BY <1>3, <1>4 DEF ReportPaced, VersionPaced

\* With one run at a time, two calls of the script for a channel, or for the
\* version, are at least the configured interval apart - but for a channels.xml
\* that was younger when the run began than the last call is.
THEOREM ReportsArePaced == Spec => ReportsPaced
<1> DEFINE Inv == CheckinTyped /\ OneAtATime /\ Unkept /\ LastReport
           A == \A p \in Proc : ReportPaced(p) /\ VersionPaced(p)
<1>1. Init => Inv
  <2>1. Init => OneAtATime /\ Unkept
    BY DEF Init, OneAtATime, Live, Unkept
  <2>2. Init => LastReport
    <3> SUFFICES ASSUME Init PROVE LastReport
      OBVIOUS
    <3>1. /\ reports["version"] = 0 /\ versionTime = 0
          /\ \A c \in Chan : reports[c] = 0 /\ statTime[c] \in {0, Base}
      BY DEF Init, Never
    <3>2. Base \in Nat
      BY CheckinAssumption
    <3> QED
      BY <3>1, <3>2 DEF LastReport, VersionMarked, Marked
  <2> QED
    BY <2>1, <2>2, CheckinTypedInit
<1>2. Inv /\ [Next]_vars => Inv'
  BY CheckinTypedStep, OneAtATimeStep, UnkeptStep, LastReportStep
<1>3. Inv /\ [Next]_vars => [A]_vars
  BY PacedStep
<1> HIDE DEF Inv
<1>4. Spec => []Inv
  BY <1>1, <1>2, PTL DEF Spec
<1> HIDE DEF A
<1>5. Spec => [][A]_vars
  BY <1>3, <1>4, PTL DEF Spec
<1> QED
  BY <1>5 DEF A, ReportsPaced
=============================================================================
