---------------------------- MODULE MCInvocation ----------------------------
(* Instantiates Invocation for TLC: three requests of one function.       *)
EXTENDS Invocation, TLC

CONSTANTS r1, r2, r3

MCRequests == {r1, r2, r3}

\* Requests are interchangeable in every invariant of the safety runs.
MCSymmetry == Permutations(MCRequests)
=============================================================================
