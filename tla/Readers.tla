------------------------------- MODULE Readers -------------------------------
(***************************************************************************)
(* What the two programs do with the readers of their files: rmsgw reads   *)
(* the hosts, then looks up the channel of its port anew for each host it  *)
(* tries (getcmslist(), cmsSession()); rmsgw_aci goes through all channels *)
(* once (wl2k_aci()).  The sysop may edit channels.xml at any time.        *)
(***************************************************************************)
EXTENDS ChannelFile, HostsFile

CONSTANTS
    Port, GwCall,    \* the AX.25 port and the gateway's callsign: texts
    MaxEdits,        \* a bound on the edits
    UsualHosts       \* the hosts file that is read before the channels are varied

ASSUME ReadersAssumption ==
    /\ Port \in Seq(Range(Port)) /\ GwCall \in Seq(Range(GwCall))
    /\ MaxEdits \in Nat

VARIABLES
    pc,        \* where the program is
    tried,     \* rmsgw: hosts tried
    edits,     \* edits so far
    hosts0,    \* history: the hosts file
    pass       \* history: the nodes handed out to rmsgw_aci

rvars == <<chanvars, hostvars, pc, tried, edits, hosts0, pass>>

\* The port, channel or password is missing ("fatal"); a null pointer was used
\* ("crashed"); a session was carried out ("served"); all hosts were tried
\* ("failed"); the pass over the channels is over ("over").
Ended == {"fatal", "crashed", "served", "failed", "over"}

RInit == /\ ChanInit /\ HostsInit
         /\ \/ pc = "hosts" /\ (unread = UsualHosts \/ file = Broken)    \* rmsgw
            \/ pc = "pass" /\ unread = UsualHosts                        \* rmsgw_aci
         /\ tried = 0 /\ edits = 0
         /\ hosts0 = unread /\ pass = <<>>
-----------------------------------------------------------------------------
(* rmsgw                                                                   *)

ReadHosts == /\ pc = "hosts"
             /\ ReadLine
             /\ UNCHANGED <<chanvars, pc, tried, edits, hosts0, pass>>

HostsRead == /\ pc = "hosts" /\ unread = <<>>
             /\ pc' = "turn"
             /\ UNCHANGED <<chanvars, hostvars, tried, edits, hosts0, pass>>

LookUp ==
    /\ pc = "turn" /\ tried < Len(listed)
    /\ tried' = tried + 1
    /\ LET s == getchannam(Port, GwCall)
       IN  /\ Becomes(s)
           /\ pc' = CASE s.result = "entry" -> "found"
                      [] s.result = "null" -> "fatal"
                      [] s.result = "crash" -> "crashed"
    /\ UNCHANGED <<hostvars, edits, hosts0, pass>>

NoMoreHosts == /\ pc = "turn" /\ tried = Len(listed)
               /\ pc' = "failed"
               /\ UNCHANGED <<chanvars, hostvars, tried, edits, hosts0, pass>>

\* The password is checked; the session serves the client or not.
Session ==
    /\ pc = "found"
    /\ IF curent.password \in {Null, <<>>} THEN pc' = "fatal"
       ELSE pc' \in {"turn", "served", "fatal"}
    /\ UNCHANGED <<chanvars, hostvars, tried, edits, hosts0, pass>>
-----------------------------------------------------------------------------
(* rmsgw_aci                                                               *)

NextChannel ==
    /\ pc = "pass"
    /\ LET s == getchanent
       IN  /\ Becomes(s)
           /\ pc' = CASE s.result = "entry" -> "entry"
                      [] s.result = "null" -> "done"
                      [] s.result = "crash" -> "crashed"
           /\ pass' = IF s.result = "entry" THEN Append(pass, s.doc[s.node]) ELSE pass
    /\ UNCHANGED <<hostvars, tried, edits, hosts0>>

\* strcasecmp() of the attribute; the default is stored in the static record.
Examine ==
    /\ pc = "entry"
    /\ \/ curent.active = Null /\ pc' = "crashed" /\ UNCHANGED curent
       \/ /\ curent.active \notin {Null, <<"yes">>}
          /\ pc' = "pass" /\ UNCHANGED curent
       \/ /\ curent.active = <<"yes">>
          /\ pc' = "pass"
          /\ curent' = IF curent.servicecode \in {Null, <<>>}
                       THEN [curent EXCEPT !.servicecode = <<"PUBLIC">>] ELSE curent
    /\ UNCHANGED <<file, doc, node, hostvars, tried, edits, hosts0, pass>>

EndPass == /\ pc = "done"
           /\ Becomes(endchanent)
           /\ pc' = "over"
           /\ UNCHANGED <<hostvars, tried, edits, hosts0, pass>>
-----------------------------------------------------------------------------
\* An edit before channels.xml is read for the first time is another start.
Edit == /\ pc \notin Ended \cup {"hosts"} /\ doc # Null
        /\ edits < MaxEdits
        /\ edits' = edits + 1
        /\ file' \in Version \ {file}
        /\ UNCHANGED <<doc, node, curent, hostvars, pc, tried, hosts0, pass>>

RNext == \/ ReadHosts \/ HostsRead \/ LookUp \/ NoMoreHosts \/ Session
         \/ NextChannel \/ Examine \/ EndPass \/ Edit

RSpec == RInit /\ [][RNext]_rvars
-----------------------------------------------------------------------------
(* Properties                                                              *)

ReadersTypeOK ==
    /\ file \in Version
    /\ doc # Null => doc \in Version \ {Broken} /\ node \in 0 .. Len(doc)
    /\ curent.servicecode # Null => \/ Len(curent.servicecode) <= MaxServiceCode
                                    \/ curent.servicecode = <<"PUBLIC">>
    /\ tried \in 0 .. Len(listed) /\ edits \in 0 .. MaxEdits

\* What the status checker of a node says, without the detour over backslashes
\* and dollar signs.
Command(n) ==
    Joined([i \in DOMAIN n.checker |->
              LET w == n.checker[i]
              IN  IF w.var THEN Value(Symbols(n), w.text) ELSE w.text])

\* The record handed out agrees with its node in all that the node has, whatever
\* channels were read before it, and the command of the status checker has the
\* values of this channel in it.
RecordFaithful ==
    pc \in {"entry", "found"} =>
      LET n == doc[node]
      IN  /\ \A f \in Attr : curent[f] = n[f]
          /\ \A f \in Present(n) \cap {"callsign", "password"} : curent[f] = n[f]
          /\ n.servicecode # Null => curent.servicecode = Cut(n.servicecode)
          /\ n.checker # Null => curent.checker = Command(n)

\* A channel of the port and the callsign, and one that a comparison of no more
\* than the length of these takes for it.
Asked(n) == n.name = Port /\ n.callsign = GwCall
Alike(n) == IsPrefix(Port, n.name) /\ IsPrefix(GwCall, n.callsign)

\* No channel lacks what a lookup reads, and none is alike but not asked for.
Clear(v) ==
    /\ v # Broken
    /\ \A i \in 1 .. Len(v) :
         /\ {"name", "callsign", "checker"} \subseteq Present(v[i])
         /\ Alike(v[i]) => Asked(v[i])

\* In such a file a lookup finds the first channel that has both the port and the
\* callsign, and hands out its password, or tells that there is none: past other
\* callsigns on the port and other ports of the callsign, in the file as it is
\* then, and however far the lookup before had read.
RightChannel ==
    [][tried' # tried /\ Clear(file) =>
         LET Mine == {i \in 1 .. Len(file) : Asked(file[i])}
         IN  IF Mine = {} THEN pc' = "fatal"
             ELSE /\ pc' = "found" /\ doc' = file
                  /\ LET n == file[Min(Mine)]
                     IN  \A f \in Present(n) \cap {"name", "callsign", "password"} :
                           curent'[f] = n[f]]_rvars

\* However the file is edited meanwhile, a pass over the channels hands out those
\* of one version of it, all of them, in order.
OnePass == pc = "done" => pass = (IF doc = Null THEN <<>> ELSE doc)

\* Every complete entry of the hosts file is listed, exactly and in order, between
\* whatever comments, malformed lines and rests of longer lines.
CompleteEntriesListed ==
    pc = "turn" /\ OwnLines(hosts0) =>
      FlattenSeq([i \in DOMAIN listed |->
                    IF Complete(listed[i].line) THEN <<listed[i]>> ELSE <<>>])
        = FlattenSeq([i \in DOMAIN hosts0 |->
                        IF Complete(hosts0[i]) THEN <<Meaning(hosts0[i])>> ELSE <<>>])
=============================================================================
