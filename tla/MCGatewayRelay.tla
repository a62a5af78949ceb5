--------------------------- MODULE MCGatewayRelay ---------------------------
(***************************************************************************)
(* Instances of GatewayRelay for TLC.                                      *)
(***************************************************************************)
EXTENDS GatewayRelay

Bytes == {"F", "Q", "keepalive", "other"}
FF == <<"F", "F", "other">>
FQ == <<"F", "Q", "other">>
Turn == <<"other", "other", "other">>

StaffFF == <<"other">> \o FF

\* FF and FQ; FF, a turn of the other end, and FQ; FF at the end of a longer line;
\* a keep-alive between data; an FF in two packets.
Conversations ==
    {[cms |-> <<FF>>, rf |-> <<FQ>>],
     [cms |-> <<FF>>, rf |-> <<Turn, FQ>>],
     [cms |-> <<FQ>>, rf |-> <<StaffFF>>],
     [cms |-> << <<"other">>, <<"keepalive">>, <<"other">> >>, rf |-> << <<"other">> >>],
     [cms |-> << <<"F">>, <<"F", "other">> >>, rf |-> <<FQ>>]}

AfterKeepAlive == {[cms |-> << <<"keepalive">>, <<"other">> >>, rf |-> <<>>]}
=============================================================================
