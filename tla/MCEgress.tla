------------------------------- MODULE MCEgress --------------------------------
(***************************************************************************)
(* EgressProxy with two connections and one slot: what a listed, a foreign  *)
(* and a malformed request do, and what a second connection meets while the *)
(* first is served.                                                         *)
(***************************************************************************)
EXTENDS EgressProxy

CONSTANTS c1, c2, listed, foreign

Line(form, host, port, rest) == [form |-> form, host |-> host, port |-> port, rest |-> rest]

MCRequests ==
    {Line("connect", listed, 443, <<"header", "blank", "data">>),
     Line("connect", foreign, 443, <<"blank">>),
     Line("connect", listed, 0, <<>>),
     Line("malformed", foreign, 0, <<>>)}
================================================================================
