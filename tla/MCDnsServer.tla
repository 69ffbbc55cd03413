---------------------------- MODULE MCDnsServer ----------------------------
(* The instance for TLC: two names, "a" and "bc.a", asked for as A and as   *)
(* AAAA records.                                                            *)
EXTENDS DnsServer

MCQuestions == {[tid |-> <<1, 7>>, qname |-> <<1, 97>>, qtype |-> T_A],
                [tid |-> <<2, 7>>, qname |-> <<2, 98, 99, 1, 97>>, qtype |-> T_A],
                [tid |-> <<1, 7>>, qname |-> <<1, 97>>, qtype |-> 28]}
=============================================================================
