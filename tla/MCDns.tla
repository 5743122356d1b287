------------------------------- MODULE MCDns --------------------------------
(* A host that is only tried as it is and one with a search domain. *)
EXTENDS DnsLookup

Four == 1..4
FourHosts == <<"a.", "a.", "c", "c">>
FourWeights == <<1, 1, 1, 1>>
TwoNames == [h \in {"a.", "c"} |-> IF h = "c" THEN 0 ELSE 1]
=============================================================================
