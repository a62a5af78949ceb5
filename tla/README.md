# A verification project for rmsgw

rmsgw is a Linux gateway between AX.25 packet radio and the Winlink 2000 common
message servers (CMS).  This directory holds TLA+ modules that model its core, TLC
configurations that model-check them on small instances, and theorems that TLAPS
proves for every value of the constants.  Every definition is translated from the C
source (and, for the update script, from its Python); `PROJECT.json` maps each one
to its file and lines.

## 1. The system

`ax25d` starts one **rmsgw** process per radio client.  It reads its configuration,
attaches the shared status block, builds a list of CMS hosts, and tries them one
after the other: connect, log in, relay the conversation, report the result.  From
cron, **rmsgw_aci** (the automatic check-in) reports every radio channel and the
software version to Winlink.  **rmsgwmon** shows the status block.  Nothing is
locked anywhere: processes share a System V segment, the times of status files, and
the files a sysop edits.

| part | state it keeps | operations | shares with |
|---|---|---|---|
| status block (`lib/shm.c`, `lib/statblock.c`) | magic; ACI state and check-in statistics; a table of one row per gateway callsign (pid, user, host, state, connects, bytes) | create/attach/initialise, find-or-claim a slot, eleven kinds of update | all processes |
| session control (`rmsgw/rmsgw.c`, `rmsgw/session.c`) | host list and position, exit status | the host loop, refusals, `err()` | status block, status files |
| host rotation (`lib/getcmslist.c`, `cmsnode.c`, `setcmsstat.c`, `statfile.c`) | sorted list; times of the files in the stat directory | build, insert, touch | other rmsgw processes |
| CMS connection (`lib/cmsconnect.c`) | socket, connect in progress | non-blocking connect with select() | the network |
| CMS login (`lib/cmslogin.c`, `readln.c`, `sglchallenge.c`) | login state, last line, count of CRs | prompt, challenge, response | the CMS |
| relay (`rmsgw/gateway.c`) | buffers, FF/FQ flags, pass count, error code | select, peek, two copy loops, keep-alive filter | client and CMS |
| check-in (`rmsgw_aci/*`, `lib/fileage.c`, `admin/updatechannel.py.in`) | ages, statistics | availability, due or not, run script, touch, version | cron overlaps, sysop, status block |
| hosts file (`lib/getcms.c`) | one line buffer, place in the file | next entry | - |
| channel file (`lib/getchan.c`, `symbol.c`, `var.c`) | parsed copy and place in it, one static record, symbol table | next entry, lookup by name, substitution | the sysop who edits it |
| monitor (`rmsgwmon`) | two windows and their attributes | refresh, wait for a key | reads the status block |
| radio output (`lib/sendrf.c`), configuration, hooks, logging, MD5, admin scripts | see `PROJECT.json` | | |

**What is hard here**: processes that race for the segment and for slots; `++` and
`strncpy()` on shared memory; processes that are killed or leave through `err()`
half way; a relay whose ends close, stall and split packets as they like; file times
read at one moment and used at another; check-ins that overlap; answers to a
connect() that come when it is given up; a monitor that reads fields while they are
written; static buffers and records that keep what an earlier call left in them.
**What makes each part correct**: a process writes to its own row, rows describe one
session, counters count connections; every host is tried, the least recently tried
first; no byte of mail is lost, duplicated or reordered, and a session reported good
was finished; the login answers the challenge it was given and ends when the CMS
goes; no CMS but the one in use holds a connection; an edit of channels.xml is
reported, and nothing is reported too often; a lookup finds the channel of the port;
the monitor shows the block once it is left alone.

## 2. Modules

| module | models | proofs |
|---|---|---|
| `GwOps` | the status updates of one rmsgw process in the order of `main()`/`cmsSession()`, and their effect on a row | |
| `StatBlock` | the segment and its table, one shared access per step | `StatBlockProofs` |
| `StatTable` | abstract: one row per callsign, indivisible updates | `StatBlockProofs` |
| `GatewayRelay` | `gateway()` and its two ends | `GatewayRelayProofs` |
| `HostRotation` | host list, touching, host loop | `HostRotationProofs` |
| `SglLogin` | `sglProcess()`, `readln()`, `expectsend()` as used here | `CmsSessionProofs` |
| `CmsConnect` | `cmsConnect()` and the network | |
| `CmsSession` | composition: host loop and `cmsSession()` with `CmsConnect` and `SglLogin` | `CmsSessionProofs` |
| `AciBlock` | the ACI's part of the segment as check-ins write it | `MonitorProofs` |
| `Monitor` | composition: `rmsgwmon` reading what `StatTable` and `AciBlock` write | `MonitorProofs` |
| `ChannelFile` | `getchan.c` with `symbol.c` and `var.c` | |
| `HostsFile` | `getcms.c` and what `getcmslist()` accepts | |
| `Readers` | composition: `rmsgw` and `rmsgw_aci` over the two readers, and the sysop | `ReadersProofs` |
| `AciCheckin` | `rmsgw_aci` runs, the update script, the version report | `AciCheckinProofs` |
| `SendRf` | `sendrf()`: one message of the gateway itself to the client | `SendRfProofs` |
| `MC*` | instances for TLC: model values, tables, symmetry | |

`StatBlock` and `StatTable` share `GwOps`, and `StatBlock` instantiates `StatTable`
as `Table` with the refinement mapping *row of the home slot of the callsign*,
*update under way*, *union of the credited processes*.

### StatBlock
`ShmGet`/`ShmCreate` are the two `shmget()` calls (no `IPC_EXCL`: both racers
succeed); `CheckMagic`, `Wipe`, `Sign`, `InitRow` are `statblock_attach()`, the
`memset()` one slot at a time; `Probe`, `Claim`, `ClaimTail`, `Compare` are
`get_gw_slot()`, run anew by every update; `Assign`, `LoadCounter`, `StoreCounter`
are the stores, `++` and `+=` in two steps.  A callsign is a pair: what the first
store of `strncpy()` writes and the rest; `Matches` is the comparison up to
`strlen(gwcall)`.  `Kill` is a signal at any point, or a failed `shmget()`/`shmat()`.
The states `gateway()` publishes between login and end count as one ("connected"), a
session moves one unit of bytes each way, pid, user and host are named by the process
that wrote them.  The history variable `credit` records whose connection hit a slot.

### GatewayRelay
`pc` follows the code: `Select`, `Peek` (`MSG_PEEK` returning 0), `ReadCms`,
`WriteRf`, `WriteRfAgain` (EAGAIN), `ReadRf`, `WriteCms`, `Pass`, and every return.
The unit is a byte, of which only what the code compares is kept (F, Q, other); the eight
bytes of a keep-alive count as one.  An end sends its text in packets; a read takes any
non-empty prefix of what is queued, a write any prefix up to `Paclen`.  `Look` is the test
at the end of a buffer: FF in the last bytes but one of *any* buffer, FQ or another turn in
exactly three bytes; with one or two bytes it reads in front of the buffer, and either
outcome is possible ("short").  `SelectFails` is the `select()` error that is logged and let
pass.  A broken connection is a close; the error a reset returns on `recv()` leads the same
way as an empty read; a write to an end that closed may fail or kill (SIGPIPE), that of the
last message to the client included.  The CMS always drains its socket in the end (its
full-buffer EAGAIN is a stuttering step).  Two history variables serve the properties:
`read` has what every buffer that was not plain data looked like, and its end, `eaten` the
bytes dropped by the keep-alive filter.

### HostRotation
`AddHost` reads one entry of the hosts file and the time of its status file *at that
moment*; `Insert` is `addcmsnode()`; `Turn` touches the file (which may fail), `Session`
is everything from `cmsConnect()` to its result, `Refuse` the missing port, channel
or password.  `disturbed` records that another process touched a file meanwhile.

### SglLogin
`ReadLine` returns a line or blocks, `ReadNothing` is EOF or an error, after which
the buffer keeps the line before.  `Write` may succeed, fail, or raise SIGPIPE if the
CMS has gone.  A partial line at EOF counts as a line.  A line `challenge` has its code
at the start, where `sscanf()` converts it; in a line `inner` the code is further on, as
in every line but the first of a CMS that ends its lines with CR LF: `strcasestr()` finds
it and `Parsed` converts nothing (see section 6).  The histories are `greeted` (the
callsigns were sent at a prompt), `asked` (the last challenge line read since) and
`answered` (the code the response was computed for).

### CmsConnect and CmsSession
`at` is the place of the process: `turn` and `lookup` in the host loop and
`cmsSession()`, then the steps of `CmsConnect` (`CreateSocket`, `Resolve`, `Connect`,
`Ready` or `TimedOut`, `CheckStatus`, `GiveUp`, `Restore`), `login` (the steps of
`SglLogin`, whose variables are set anew by `BeginLogin`, except the line buffer, which
may hold what the last login left on the stack), `relay`, `close`.  Each host has a
socket and a connection of its own, so that one left behind stays visible; `Accept` and
`Refuse` are the network's answers, at any time.  Every message to the client may raise
SIGPIPE (`ClientGone`, and the `killed` outcomes of `Lookup`, `RelayOver`, `EndSession`).  The relay is its outcome only
(`RelayOver`): `GatewayRelay` models it.

### AciBlock and Monitor
`AciBlock` has one step per store of `sbset_aci_*()`, per comparison of
`get_cms_slot()`, and two per `strncpy()`; its start has any number of host slots with
half a name, what killed runs leave.  `Monitor` is `rmsgwmon`: one step per group of
reads that is drawn together, and one for each time `gw_state` or the host index is read
again.  The title (state and index) is one step.  A row of the gateway window is drawn in
four parts (number, pid, state with counters and callsign, client), each hidden or not, as
A_INVIS is on when it is written.  A curses window
keeps its attributes over `werase()`: `invis` and `pen` are those that writers can make
the code leave on.  The histories are `quiet` (nobody has written since this refresh began)
and `leftOn` (A_INVIS was on when it began).  The gateways are those of `StatTable`, which
`StatBlock` implements.

### ChannelFile, HostsFile and Readers
A text is a sequence of tokens.  `getchanent`, `getchannam` and `endchanent` give what
the functions leave in their static variables; `Filled` is `nextent()`: attributes are
replaced, elements only if the node has them, and the status checker is substituted
(`varsubst`) whatever node it came from.  `Scan` is the loop of `varsubst()`, one token at a
time; `Records` has the record after each node of a lookup.  A null pointer the code
dereferences is the result "crash".  `HostsFile` keeps the line buffer cell by cell: a
short line is followed by the rest of longer ones, and `Entry` parses on into it.  A line is
`Complete` if name, port and password are in it; `OwnLines` leaves out files where a piece of
a line longer than the buffer would pass for an entry of its own (`fgets()` returns it as a
line).  `Readers` calls them as `rmsgw` (hosts, then a lookup per host) or `rmsgw_aci` (one
pass) does.

### AciCheckin
One step per observation or effect: age of channels.xml, availability, age of the status
file and decision, the script, the touch, the version report.  The script, whichever channel
it is called for, reads channels.xml itself (`ScriptReads`), posts every channel in it one by
one (`Post`), and fails at a request, or before it has read anything (`ScriptFails`); touches
may fail too.  `Tick` and `Edit` happen at any time; `edition` counts the edits, so that
`sent` can tell what Winlink has of each channel.  Edits change what is posted, not which
channels there are.  `noticed` is the last edition that
was not written while a script that had read an older one was under way, nor in a second in
which a status file was touched; `expected` is that edition when a run took the file's age.
`overlapped` records that two runs were under way at once, `reports` when the script was
last called.  CHANNELFILE is taken to be set; `Base` is later than any interval, as the
Unix epoch is.  The statistics a run stores are `AciBlock`'s.

### SendRf
`Write` is a `write()` that accepts any non-empty prefix, `WriteAgain` one that returns
EAGAIN, which leaves `nwritten` at -1 when the `for` loop advances; `Advance` is that
third expression.  A byte is its offset from `buf` in memory, so that a repeated or missing
one is visible.  Offsets below 1 are in front of the message; with SRF_ADDEOL the one behind
its length is sent too, which is whatever follows `buf`, as the end of line is only in `sbuf`.

## 3. Runs

| run | instance and bounds | shows |
|---|---|---|
| `statblock_fresh` | 2 processes, one callsign, no segment, 2 slots, kills | domains and indices; `NoOvercount` although initialisers wipe rows in use |
| `statblock_empty` | 2 processes, 2 callsigns, an empty table, kills | `NoHoles`, `DroppedOnlyWhenFull` |
| `statblock_known` | 3 processes, 2 registered callsigns that differ in the last character, kills | `OwnRow`, `IdleAfterExit`, `Accounted`, `OneSessionPerRow`, refinement of `StatTable` |
| `gateway` | five conversations: FF then FQ, FF cancelled by another turn, FF at the end of a longer line (STAFF), FF in two packets, a keep-alive between data; up to 6 bytes in flight, `Paclen` 2, 1 retry, pass limit 2 | `Conserved`, `DeliveredAtEnd`, `GoodMeansFinished`, `CloseEnds`, `HangupEnds` |
| `gateway_eaten` | a keep-alive and a byte of data | data eaten with a keep-alive |
| `hosts` | 2 overlapping processes, 3 hosts and one rejected entry, 3 seconds, failing touches and allocations | `ListOrdered`, `LeastRecentFirst`, `FailedMeansAllTried` |
| `session` | 2 hosts, 2 codes, `LOOP_LIMIT` 3 as in the code, 2 lines in flight | `OneConnection`, `AnswersChallenge`, `ChatterEndsLogin`, `ProcessEnds` |
| `aci` | 2 runs, overlapping or not, 2 active channels that may be down, 3 seconds, intervals of 2, one edit (`MaxEdits`), failing scripts and touches | `EditReported`, `IdleWhenOver`, `ReportsPaced` |
| `monitor` | 2 gateway rows and 2 host slots, one gateway at a time or 2 check-ins, overlapping ones while the monitor waits, writers that stop anywhere | `LastRunShown`, `QuietRefresh`, `CatchesUp` |
| `readers` | files of up to 3 channels out of 12 (7 of them lacking something), one edit; hosts files of 3 lines out of 10, a buffer of 9 cells | `RecordFaithful`, `RightChannel`, `OnePass`, `CompleteEntriesListed` |
| `sendrf` | 4 bytes and an end of line, every split of the writes, 4 EAGAINs, 2 retries | `NothingLeftOut` |
| `sendrf_again` | as above | the count `sendrf()` returns is not the bytes it sent |

**Bounds.**  Two processes already show every race for the segment, a slot or a
counter; three in `statblock_known` let one callsign be served twice while another
one is active.  Two slots give a full and a non-full table.  The numeric limits that
only repeat a step (EAGAIN retries 15, passes 60, intervals in seconds) are
constants and are set to small values, so that both sides of each comparison are reached;
packets of up to four bytes with `Paclen` 2 give split reads, short writes and grouped reads.
Two hosts show what one attempt leaves for the next.  In `monitor` a refresh sees at most
one writer at a time: a second one adds no new kind of torn reading to a row.  Three lines
of hosts suffice for a long line, a short one over its rest, and one after both.
Deadlock is not checked: all processes end, and a conversation or login may wait for
ever for its peer.

**Fairness.**  Liveness is stated under weak fairness of a process's own steps: the kernel
runs a process that is not blocked.  For the relay that is `WF_vars(Gateway)`; nothing is
assumed of the client, the CMS or the network, except that a full CMS socket is drained
or broken some day, and not that `select()` ever fails.  `HangupEnds` therefore has the condition that the CMS falls silent.
For a session it is `WF_svars(Process)`, which includes the time-out of the `select()` in
`cmsConnect()`, and that the relay ends once the CMS has closed: `CloseEnds`, shown in run
`gateway`.  `ProcessEnds` has the condition that a CMS in a dialogue closes it some day;
none is needed for one that hangs in `connect()`.  The monitor's `select()` has a time-out
too, so that its refreshes are fair; writers may stop at any point.

## 4. Proofs

All theorems hold for every value of the constants under the named assumptions of
the modules (finite sets of processes, callsigns of two parts, positive sizes).  Each
invariant was first checked by TLC on the instance of the component's run.

**Status block** (`StatBlockProofs`).  `TypeCorrect` bounds every loop index along with
`TypeOK`; `ConnectsBounded` (`NoOvercount`), `TableHasNoHoles`, `DropMeansFull`.
`NoOvercount` is not inductive: a process between load and store of `++` holds a count in
a register.  `CountInv` adds that this register is not above the number of *other*
processes credited to the slot, and that a process is credited only after its connect.
`NoHoles` needs `HoleInv`: every slot a search has passed, and the slot a claimer holds
apart from its own, is occupied.
`HomeInv` says that with every callsign registered no cell changes and no search passes
its home slot: `WritesOwnRow` (`OwnRow`).  `SoleInv` adds that one process at a time serves
a callsign, so the register still equals the counter when it is stored; with it each step
maps to a step of `StatTable` or a stutter (`AbstractStep`, `ImplementsTable`).
The refinement then carries results down.  `Promise` is stated once, of *any* table: one
process at a time is active in a row, the row shows what that process has written so far,
connects are the number of processes counted, bytes follow their connect.  `PromiseBegin`,
`PromiseUpdate` and `PromiseVanish` show that the abstract steps keep it; `PromiseInv` is
`Promise` of the mapped table, so each step of `StatBlock` keeps it by `AbstractStep` alone.
It gives `ConnectionsAccounted` (`Accounted`), `RowShowsOneSession` (`OneSessionPerRow`) and,
as the row of a process that holds it is its home, `IdleOnceExited` (`IdleAfterExit`).

**Relay** (`GatewayRelayProofs`).  `RelayTypes` (`TypeOK`); its invariant adds that the buffer
is empty except while it is written, and that the pass count is within its limit until
`gateway()` returns.  `BytesConserved` (`Conserved`): `Path` is all an end sent and the
filter did not drop, as one sequence - arrived, in the buffer, unread.  A read and a write
move the borders within it (`ReadKeepsPath`, `WriteKeepsPath`), sending makes it longer
(`SentLast`), and the filter takes a piece out of the middle (`EatenLost`); order and
identity of the bytes are those of the pieces (`JoinOrder`, `JoinIds`).  `EndDelivers`
(`DeliveredAtEnd`): what is conserved while nothing is in hand is delivered or unread
(`ConservedDelivered`), and `gateway()` returns 0 or a time-out only then.  `GoodIsFinished`
(`GoodMeansFinished`): `Sensed` says that an FF flag is up only while an FF read before stands
(`Stands`: no other turn of the other end came since), and the final code only once FQ has
come while it stood.

**Host rotation** (`HostRotationProofs`).  `RotationTyped` (`TypeOK`) and `ListIsOrdered`
(`ListOrdered`): `Insert` is defined with the first later node, which exists because the
numbers are well-ordered (`LeastNumber`); `Inserted` tells where the node comes to stand and
`PutInOrder` that the list stays sorted.  `LeastRecentIsFirst` needs `TimesHold`: until another
process turns to a host, the times in the part of the list not tried yet are those of the
status files - which fails for the part already tried.  `FailureTriesAll`
(`FailedMeansAllTried`) needs `TriedSoFar`: what was tried is the list up to the position.

**Login and session** (`CmsSessionProofs`).  `LoginTypeCorrect` and `LoginAnswers`
(`AnswersChallenge`) of the login alone, for any line ends.  `LoginInv` adds that a challenge in
the buffer, which outlives the pass that read it, is the one read last once the callsigns are
sent, and that lines on the way are well formed.  What is proved of a complete login is the
response that was *computed*; `SGL_LOGINCOMPLETE` is a complete login whose response was not sent.
`SessionLoginTypes` and `SessionAnswers` (`AnswersChallenge`) are about the composition, where
each host's login finds the line buffer of the one before.  `SessionTypeCorrect` and
`SoleConnection` (`OneConnection`), for any number of hosts: `ConnectionInv` adds that an attempt
given up leaves no connection when the loop turns to the next host, and that the steps of
`cmsConnect()` after `socket()` have an open socket; whatever the network answers, and when,
keeps it.

**Check-in** (`AciCheckinProofs`).  `CheckinTypes` (`TypeOK`) and `OverIsIdle`
(`IdleWhenOver`), for any number of overlapping runs.  `EditsReported` (`EditReported`) rests on
`EditInv`, which ties times to editions: a status file as new as channels.xml was touched after
a script for its channel had posted, or failed to post, the edition noticed last (`Fresh`);
one that looks as new by the age a run has taken, the edition this run expects
(`LooksFresh`); what a script has read and posted is no older (`UpToDate`); and when its call is
over the channel it was called for is handled (`Called`).  `Covered` is then the property for
the entries passed so far.  `StaysHandled`: no post takes an edition back below the one
expected, not even that of an overlapping script.  `ReportsArePaced`
(`ReportsPaced`), an action property: `OneAtATime`, `Unkept` (nothing is recorded once two runs
have overlapped), and `LastReport`, which says that a call is not later than the time of its
status file unless a run is between the two.

**Monitor** (`MonitorProofs`).  `LastResultsShown` (`LastRunShown`), beside the monitor and the
gateways: `AciInv` follows an uninterrupted run step by step - the slots its search has
passed hold half names, the slot it has chosen holds the host, the numbers stored are its
own.  `MonitorTypes` (`MonitorTypeOK`): `ScreenInv` has the places of the refresh and the row
that belongs to each, so that no row is drawn beside its table.  `QuietRefreshShows`
(`QuietRefresh`): `QuietInv` says for each place of an undisturbed refresh what is on the
screen so far, in which parts, and which attributes are on; `StillOn` follows an A_INVIS left
on by an earlier refresh down to the first idle row, which clears it (`StillOnNext`).

**Channel and hosts file** (`ReadersProofs`).  `PassIsOneVersion` (`OnePass`): the parsed copy is
kept from the first entry to the end of the pass, and `InPass` says that what was handed out
is that copy up to the current node.  `LookUpFindsPort` (`RightChannel`, an action property):
in a file whose channels have what is compared and in which none only begins like the one
asked for (`Clear`), a node that agrees has the port and the callsign, none before it stops the
lookup, and the record is that of the first one that agrees (`RecordsStep`).  `ReadersTypes` (`ReadersTypeOK`): the service code
fits its array after any number of nodes (`RecordsService`).
`RecordIsFaithful` (`RecordFaithful`): the record is that of the current node filled over an
older one (`RecordInv`), and `Substituted` says that substitution undoes quoting: the node's
words, written with backslashes and dollar signs, scanned token by token, give the words with
each variable's value in its place.  Its induction is over the words of the text; between two
words the scanner has nothing pending (`Settled`) and has put out what they say (`Said`).
`Flattened` ties `FlattenSeq` to the pieces put together so far (`Sums`).
`CompleteAreListed` (`CompleteEntriesListed`): `CompleteRead` says that a complete line means what
it says whatever the buffer holds behind it, and `ListInv` that the complete entries listed so
far are those of the lines read, with perhaps the rest of one long line still unread.
The theorems need their definitions at every length: the recursive functions `Records` and
`Scan` have values, and the inductions over tokens, words and lines go through, by the smallest
number that would fail (`LeastNumber`, `CountUp`), not by an induction schema.

**Radio output** (`SendRfProofs`).  `SendTypeCorrect` and `MessageComplete` (`NothingLeftOut`).
`Behind` says that `buf + nleft` is the message, that every byte before `buf` was written
although EAGAIN moves `buf` back, and that `buf` lags behind the count of bytes written by
exactly the EAGAINs so far; so a byte lies no further behind its place than there were of them.

**Only model-checked.**  Liveness (`CloseEnds`, `HangupEnds`, `ChatterEndsLogin`, `ProcessEnds`,
`CatchesUp`): out of the prover's reach, as they depend on fairness.  The two runs that
expect a violation.  The mutants in `PROJECT.json` show for every property a plausible bug that breaks it.

## 5. Abstractions worth knowing

* A `strncpy()` is two stores, a `memset()` one per slot and one for the header;
  C gives no order, the model takes that of the library.
* Configuration, option parsing, greeting, user texts and logs are left out; the
  configuration is right when a process starts.
* The status file's access time and modification time are one (`utime(f, NULL)`
  sets both); at the start they are absent or at the first second.
* `telnetProcess()`, `getcmsnam()`, `putcmsent()`, `sb_incr_aci_error()` and
  `sb_incr_aci_checkin()` are compiled and never called; so the failure counts and times
  the monitor prints stay what they are at the start, and are left out.
* Four of the thirteen elements of a channel are modelled (callsign, password, service
  code, status checker); the others are stored like the first two.  An edit of channels.xml
  is seen whole or not at all.
* Hooks are compiled to nothing (`HOOKS` is not defined).
* The fixed buffers of `getchan.c` (`cbuf[BIGBUF]`, lines 140, 219, 367) and `var.c`
  (`vbuf[256]`, line 138) are taken as long enough: texts of any length are copied.  The
  memory behind the line buffer of `getcms.c` is taken as zero and writable; in the code it is
  other static data, into which a full line without colons is parsed on (lines 131-150).
* `HostsFile` leaves out that `getcmslist()` skips a host whose `stat()` fails with another
  error than ENOENT, and failed allocations; `HostRotation` has both.
* The last post of a script whose answer is lost counts as not made.

## 6. Known disagreements between comments and code

With a run: CMS data received together with a keep-alive
is dropped (`gateway_eaten`); after EAGAIN `sendrf()` steps back one byte and sends
it again, and returns another number than that of the bytes sent (`sendrf_again`).  Met
while modelling, without a run:

* `lib/statblock.c:480` - a callsign takes the slot of one it is a prefix of (W3SG-1 that
  of W3SG-10); `rmsshm.h:84` says one slot per separate callsign.
* `rmsgw/rmsgw.c:380` - a process that exhausts its hosts leaves its row in a session
  state: `err()` exits before `GW_IDLE` is set; `:86` does the same for a call too long.
* `lib/shm.c:117` - without `IPC_EXCL` two processes may both initialise the segment
  ("only the the first process should", line 93).
* `lib/statblock.c:624` - concurrent processes of one callsign lose connects; this is
  why `Accounted` needs one client per callsign at a time.
* `rmsgw/gateway.c:185`, `:303` - "Uplink sent FF?", "Downlink sent FF?": any buffer whose
  last bytes but one are FF counts (a line ending in STAFF), a buffer of one or two bytes is
  compared with what lies in front of it, and FF split between two reads is missed.  This is
  why `GoodMeansFinished` speaks of an FF at the end of a buffer, not of an FF line.
* `rmsgw/gateway.c:140` - two silent ends are never timed out: `CONV_TIMEOUT` counts
  passes, and `select()` has no timeout; keep-alives restart the count after a hang-up.
* `rmsgw/rmsgw.c:332` - overlapping processes may turn to the host tried last; `:345` -
  a host is marked as tried even if the session is refused before connecting.
* `lib/getcmslist.c:121` - after a failed allocation the list is restarted, not abandoned.
* `lib/cmslogin.c:279` - four CRs for `LOOP_LIMIT` 3; `:311` - a challenge that is not at the
  start of its line (with CR LF line ends: any but that of the first line) is found but not
  converted, the response answers no code, and the login counts as complete; `:326` - as it
  does if the response cannot be sent; `:237` - a silent CMS holds the login for ever.
* `lib/cmsconnect.c:87`, `:142` - the socket stays open when the host is unknown or
  SO_ERROR reports a failure; `rmsgw/gateway.c:366` - `gateway()` closes the socket that
  `session.c:196` closes again; `cmsconnect.c:154` - a `select()` interrupted by a signal
  counts as a time-out.
* `lib/getchan.c:136` - an element a channel lacks is that of the channel read before:
  another channel's password then passes the check of `session.c:130`, and a service
  code left over escapes the default of `wl2k_aci.c:178`; a status checker left over is
  substituted a second time.  A channel without name, callsign or `active`, or a first
  channel without status checker, is a null pointer dereferenced (`getchan.c:367`,
  `:450`, `wl2k_aci.c:157`).  `:450` - a port name and a callsign that are prefixes of
  another channel's may find that one, which is why `RightChannel` asks for `Clear` files.
* `lib/getcms.c:109` - "ignore leading whitespace", but the host name keeps it; `:131` - a
  line without a port or a password takes them from what earlier lines left in the buffer.
* `rmsgwmon/rmsgwmon.c:325` - a gateway that turns active between two readings leaves
  A_INVIS on: from there on, and in the refreshes after, the headings, numbers, pids,
  states, counters and clients of active rows are hidden until an idle row is drawn, whose
  number is hidden with them.  `QuietRefresh` says exactly that, and `CatchesUp` needs an
  idle row; `:558` - the interval keys have no effect.
* `lib/sendrf.c:175` - `write()` is given `buf`, not the translated copy `sbuf`: new lines
  are not translated, and the byte SRF_ADDEOL adds is the one behind the message.  After
  EAGAIN on the first `write()` the bytes in front of the message are sent.
* `admin/updatechannel.py.in:205` - the script posts every channel of the file, also
  those that are inactive or down, which `wl2k_aci.c:227` says not to update, and it does so
  once for every channel that is due; `ReportsPaced` therefore paces calls, not posts.
* `rmsgw_aci/wl2k_aci.c:234` - "if the channels file is younger than the status, send the
  update": an edit made after a script has read channels.xml (`updatechannel.py.in:165`) and
  before the touch (`:266`), or in the second of a touch, makes a file that does not look
  younger, and is reported only when the interval is over.  This is why `EditReported` is
  about the edition *noticed*.  A failed report is touched too and not repeated sooner.
* `rmsgw_aci/wl2k_aci.c:243` - ages measured at two moments are compared, so that a slow
  run may report an edit again that had been reported just after it was made; two overlapping
  runs both report a channel, and the script that read the older edition may be the
  last to post (an edition noticed is not lost: the run that expects it posts it or finds it
  posted).
* `rmsgw_aci/rmsgw_aci.c:304` - the first of two runs to end shows the ACI idle;
  `lib/statblock.c:443` - statistics of two runs may be mixed.

## 7. Plan

1. *Done*: status block with its abstract table and proofs, relay, rotation, login,
   check-in, radio output; connection and session, ACI table and monitor, file readers.
2. *Model next*: a relay with a bounded CMS socket (both sides full); `StatBlock` in place
   of `StatTable` under the monitor.
3. *Proved*: every safety and action property of the passing runs, and the refinement of
   `StatTable`.
4. *Prove next*: what no run states yet - that `cmsConnect()` uses its descriptor only while
   it is open, that a relay which returns has counted what it wrote; and the safety part
   of the two models of item 2.

Not planned: configuration parsing, MD5, logging, hooks, and the web-service
scripts beyond their effect on the check-in (`PROJECT.json`, components).
