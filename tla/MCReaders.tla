------------------------------ MODULE MCReaders ------------------------------
(***************************************************************************)
(* Instances of Readers for TLC: files of up to three channels, of which   *)
(* some lack an attribute or an element, and of up to three lines of hosts.*)
(***************************************************************************)
EXTENDS Readers

Lit(t) == [var |-> FALSE, text |-> t]
Var(f) == [var |-> TRUE, text |-> <<f>>]

Radio == <<"radio">>
Radio2 == <<"radio", "2">>           \* Radio is a prefix of it
Call1 == <<"W3SG">>

Tokens == {" ", "$", "\\", "radio", "2", "vhf", "yes", "no", "W3SG", "N0ABC", "secret",
           "other", "a", "b", "c", "chanstat", "name"} \cup NameToken

\* rmschanstat $name $callsign, and the same with a dollar sign and a backslash.
Check == <<Lit(<<"chanstat">>), Var("name"), Var("callsign")>>
Odd == <<Lit(<<"\\", "$">>), Var("name"), Var("hours"), Var("servicecode"), Lit(<<"$", "name">>)>>

Full == [name |-> Radio, active |-> <<"yes">>, callsign |-> Call1,
         password |-> <<"secret">>, servicecode |-> <<"a", "b", "c">>, checker |-> Check]
Second == [Full EXCEPT !.name = Radio2, !.active = <<"no">>, !.servicecode = <<>>,
                       !.checker = Odd]
Foreign == [Full EXCEPT !.name = <<"vhf">>, !.callsign = <<"N0ABC">>, !.password = <<"other">>]

\* Another callsign on the port, and on one whose name begins with the port's.
Beside == [Full EXCEPT !.callsign = <<"N0ABC">>, !.password = <<"other">>]
Near == [Beside EXCEPT !.name = Radio2]

Lacking == {[Full EXCEPT !["servicecode"] = Null],
            [Foreign EXCEPT !["password"] = Null],
            [Full EXCEPT !["password"] = Null],
            [Full EXCEPT !["checker"] = Null],
            [Foreign EXCEPT !["callsign"] = Null],
            [Foreign EXCEPT !["name"] = Null],
            [Second EXCEPT !["active"] = Null]}

Nodes == {Full, Second, Foreign, Beside, Near} \cup Lacking

Files == {Broken, <<>>} \cup {<<a>> : a \in Nodes} \cup (Nodes \X Nodes)
           \cup {<<Foreign, Second, Full>>, <<Second, Foreign, Foreign>>, <<Near, Beside, Full>>}

\* name:port:password, blanks before it, another port, no password, no port, a
\* name alone, a comment, an empty line, and one that does not fit the buffer.
Lines == {<<"cms1", ":", "8772", ":", "CMS", "\n">>,
          <<"cms2", ":", "8773", ":", "PW", ":", "\n">>,
          <<" ", "cms3", ":", "8772", ":", "CMS", "\n">>,
          <<"cms4", ":", "80", ":", "CMS", "\n">>,
          <<"cms5", ":", "8772", ":", "\n">>,
          <<"cms6", ":", "\n">>,
          <<"cms7", "\n">>,
          <<"#", "\n">>,
          <<" ", "\n">>,
          <<"cms8", ":", "8772", ":", "a", "b", "c", "d", "e", "\n">>}

Ports == [t \in {"8772", "8773", "80"} |->
            IF t = "8772" THEN 8772 ELSE IF t = "8773" THEN 8773 ELSE 80]

TwoHosts == <<<<"cms1", ":", "8772", ":", "CMS", "\n">>,
              <<"cms2", ":", "8773", ":", "PW", ":", "\n">>>>
Hosts == {TwoHosts} \cup {<<a, b, c>> : a \in Lines, b \in Lines, c \in Lines}
=============================================================================
