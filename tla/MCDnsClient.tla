---------------------------- MODULE MCDnsClient ----------------------------
(***************************************************************************)
(* Bounds for DnsClient: names of up to three labels around the size of    *)
(* the buffer; one question; up to two records of every kind the parser    *)
(* tells apart, each with its own name or a pointer; datagrams cut at any  *)
(* of their last bytes.                                                    *)
(***************************************************************************)
EXTENDS DnsClient

MCDomains == UNION {[1..n -> 1..3] : n \in 1..3}
Own == [labels |-> <<2, 1>>, pointer |-> FALSE]
Pointed == [labels |-> <<1>>, pointer |-> TRUE]
Address(n) == [name |-> n, type |-> 1, class |-> 1, data |-> <<10, 0, 0, 7>>]
Alias(n) == [name |-> n, type |-> 5, class |-> 1, data |-> <<1, 120, 192, 12>>]
Text(n) == [name |-> n, type |-> 1, class |-> 3, data |-> <<1, 0>>]
Records == {Address(Own), Address(Pointed), Alias(Pointed), Text(Own)}
MCMessages ==
  [ours : BOOLEAN, rcode : {0, 3}, questions : {<<>>, <<Own>>},
   answers : UNION {[1..n -> Records] : n \in 0..2}]
MCCuts == 0..20
MCJunk == {0, 1, 4}
=============================================================================
