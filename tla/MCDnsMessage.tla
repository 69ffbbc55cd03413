---------------------------- MODULE MCDnsMessage ----------------------------
(* The instance for TLC: labels "a" and "bc", one address.                  *)
EXTENDS DnsMessage

MCLabels == {<<97>>, <<98, 99>>}
MCAddresses == {<<192, 0, 2, 1>>}
=============================================================================
