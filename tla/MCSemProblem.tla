---------------------------- MODULE MCSemProblem ----------------------------
(* The instance for TLC: the six producers and the consumer of the code.    *)
EXTENDS SemProblem

CONSTANTS p1, p2, p3, p4, p5, p6, cons

MCProducers == {p1, p2, p3, p4, p5, p6}
MCThreads == MCProducers \cup {cons}
=============================================================================
