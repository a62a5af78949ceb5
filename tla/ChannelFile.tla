----------------------------- MODULE ChannelFile -----------------------------
(***************************************************************************)
(* The reader of channels.xml: setchanent(), getchanent(), getchannam() of *)
(* lib/getchan.c with the symbol table of lib/symbol.c and the variable    *)
(* substitution of lib/var.c.  One static record is filled again and again *)
(* from the nodes of one parsed copy of the file.                          *)
(*                                                                         *)
(* A text is a sequence of tokens, the parts that matter of it.  A node    *)
(* has some of the attributes and elements; its status checker is a list   *)
(* of words, each a text or the name of a variable.  Letter case and the   *)
(* elements that are handled like the four here are left out.              *)
(***************************************************************************)
EXTENDS Integers, SequencesExt

CONSTANTS
    Version,         \* contents of channels.xml: sequences of nodes, or Broken
    Broken,          \* a file that does not parse, or has another root
    Null,            \* the null pointer, a missing attribute or element
    Token,           \* the tokens texts are made of
    MaxServiceCode   \* MAXSERVICECODE (16)

Nul == "nul"
Backslash == "\\"
NameToken == {"name", "active", "callsign", "password", "servicecode", "checker",
              "hours"}       \* the last one is of no node

Attr == {"name", "active"}
Elem == {"callsign", "password", "servicecode", "checker"}
Field == Attr \cup Elem

Text == Seq(Token)
\* A word of a status checker: a text, or the name of a variable.
Word == [var : BOOLEAN, text : Text]

ASSUME ChannelAssumption ==
    /\ Broken \in Version /\ Null \notin Version
    /\ \A v \in Version \ {Broken} :
         /\ v \in Seq(Range(v))
         /\ \A i \in 1 .. Len(v) : DOMAIN v[i] = Field
    /\ MaxServiceCode \in Nat

ASSUME TextAssumption ==
    \A v \in Version \ {Broken} : \A i \in 1 .. Len(v) :
      /\ \A f \in Field \ {"checker"} : v[i][f] # Null => v[i][f] \in Text
      /\ v[i]["checker"] # Null =>
           /\ v[i]["checker"] \in Seq(Word)
           /\ \A w \in Range(v[i]["checker"]) : w.var => w.text \in Seq(NameToken)

ASSUME TokenAssumption ==
    /\ {" ", "$", Backslash} \cup NameToken \subseteq Token
    /\ Nul \notin Token

VARIABLES
    file,      \* the contents of channels.xml
    doc,       \* the parsed copy, or Null
    node,      \* cur_node: its index in doc, 0 for NULL
    curent     \* the record that is handed out

chanvars == <<file, doc, node, curent>>

NoRecord == [f \in Field |-> Null]

ChanInit == /\ file \in Version
            /\ doc = Null /\ node = 0
            /\ curent = NoRecord
-----------------------------------------------------------------------------
(* The text of a status checker, and what symAdd() makes of a node         *)

\* Texts with a blank between them.
Joined(texts) ==
    FlattenSeq([i \in DOMAIN texts |-> IF i = 1 THEN texts[i] ELSE <<" ">> \o texts[i]])

\* In a text a backslash stands before a dollar sign or a backslash.
Escaped(t) ==
    FlattenSeq([i \in DOMAIN t |-> IF t[i] \in {"$", Backslash} THEN <<Backslash, t[i]>> ELSE <<t[i]>>])

Content(words) ==
    Joined([i \in DOMAIN words |-> IF words[i].var THEN <<"$">> \o words[i].text
                                   ELSE Escaped(words[i].text)])

Present(n) == {f \in Field : n[f] # Null}
Symbols(n) == [f \in Present(n) |-> IF f = "checker" THEN Content(n[f]) ELSE n[f]]

\* symLookup(): an unknown name has no value.
Value(symbols, name) ==
    IF Len(name) = 1 /\ name[1] \in DOMAIN symbols THEN symbols[name[1]] ELSE <<>>

(***************************************************************************)
(* varsubst(), a token at a time: after a backslash the token is copied; a *)
(* dollar sign begins a name, of letters and dollar signs, and whatever    *)
(* ends it is copied after its value.                                      *)
(***************************************************************************)
EndNameLost(s, value, c) == [out |-> s.out \o value, mode |-> "copy", name |-> <<>>]
                                           \* mutant: what ends the name is lost
EndName(s, value, c) == [out |-> s.out \o value \o <<c>>, mode |-> "copy", name |-> <<>>]

Scanned(symbols, s, c) ==
    CASE s.mode = "var" /\ c \in NameToken \cup {"$"} -> [s EXCEPT !.name = Append(@, c)]
      [] s.mode = "var" /\ c \notin NameToken \cup {"$"} ->
           EndName(s, Value(symbols, s.name), c)
      [] s.mode = "copy" /\ c = Backslash -> [s EXCEPT !.mode = "esc"]
      [] s.mode = "copy" /\ c = "$" -> [s EXCEPT !.mode = "var", !.name = <<>>]
      [] OTHER -> [s EXCEPT !.out = Append(@, c), !.mode = "copy"]

\* Where the scan is after each token of text t.
Scan(symbols, t) ==
    LET state[k \in 0 .. Len(t)] ==
          IF k = 0 THEN [out |-> <<>>, mode |-> "copy", name |-> <<>>]
          ELSE Scanned(symbols, state[k - 1], t[k])
    IN  state

varsubst(symbols, text) ==
    LET t == Append(text, Nul)
    IN  Front(Scan(symbols, t)[Len(t)].out)
-----------------------------------------------------------------------------
(* nextent()                                                               *)

CutNot(code) == code                       \* mutant: the length is not limited
Cut(code) == SubSeq(code, 1, IF Len(code) < MaxServiceCode THEN Len(code) ELSE MaxServiceCode)

\* What an element puts in the record; without it the value of an earlier node
\* stays, and a checker that was substituted before is substituted once more.
Element(n, f, old) ==
    CASE n[f] = Null -> old
      [] n[f] # Null /\ f = "servicecode" -> Cut(n[f])
      [] n[f] # Null /\ f = "checker" -> Content(n[f])
      [] OTHER -> n[f]

\* A status checker neither the node nor the record has is dereferenced.
Faulty(old, n) == old.checker = Null /\ n.checker = Null

\* The record after node n.
Filled(old, n) ==
    [f \in Field |->
       IF f \in Attr THEN n[f]
       ELSE LET e == Element(n, f, old[f])
            IN  IF f = "checker" /\ ~Faulty(old, n) THEN varsubst(Symbols(n), e) ELSE e]

FirstSkipped == 2                          \* mutant: the first node is passed by
First == 1

\* The index of the next node, 0 at the end.
NextNode(d, k) == LET i == IF k = 0 THEN First ELSE k + 1
                  IN  IF i <= Len(d) THEN i ELSE 0
-----------------------------------------------------------------------------
(***************************************************************************)
(* The functions of the module: what they leave in its static variables,   *)
(* and their result: "entry", "null", or "crash".                          *)
(***************************************************************************)

Parsed(v) == IF v = Broken THEN Null ELSE v

getchanent ==
    LET d == IF doc = Null THEN Parsed(file) ELSE doc
        k == IF d = Null THEN 0 ELSE NextNode(d, node)
    IN  [doc |-> d, node |-> k,
         curent |-> IF k = 0 THEN curent ELSE Filled(curent, d[k]),
         result |-> IF k = 0 THEN "null" ELSE IF Faulty(curent, d[k]) THEN "crash" ELSE "entry"]

endchanent == [doc |-> Null, node |-> 0, curent |-> curent, result |-> "null"]

\* setchanent(): before the first node
Rewound == 0

\* strncmp() over the length of what is asked for; a null name is dereferenced,
\* and so is a null callsign if the name agrees.
NameAgrees(r, name) == IsPrefix(name, r.name)
NameOnly(r, name, call) == NameAgrees(r, name)       \* mutant: any callsign will do
Agrees(r, name, call) == NameAgrees(r, name) /\ IsPrefix(call, r.callsign)
Unreadable(r, name) == \/ r.name = Null
                       \/ NameAgrees(r, name) /\ r.callsign = Null

\* What the static record is after each node, one filled in over the other.
Records(nodes) ==
    LET record[k \in 0 .. Len(nodes)] ==
          IF k <= Rewound THEN curent ELSE Filled(record[k - 1], nodes[k])
    IN  record

getchannam(name, call) ==
    LET d == Parsed(file)
        nodes == IF d = Null THEN <<>> ELSE d
        record == Records(nodes)
        Crashes(k) == Faulty(record[k - 1], nodes[k]) \/ Unreadable(record[k], name)
        stops == {k \in Rewound + 1 .. Len(nodes) :
                    Crashes(k) \/ Agrees(record[k], name, call)}
        k == IF stops = {} THEN 0 ELSE Min(stops)
    IN  [doc |-> d, node |-> k, curent |-> record[IF k = 0 THEN Len(nodes) ELSE k],
         result |-> IF k = 0 THEN "null" ELSE IF Crashes(k) THEN "crash" ELSE "entry"]

Becomes(s) == /\ doc' = s.doc /\ node' = s.node /\ curent' = s.curent
              /\ UNCHANGED file
=============================================================================
