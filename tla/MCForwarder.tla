---------------------------- MODULE MCForwarder -----------------------------
(* Instantiates Forwarder for TLC: three concurrent calls, one address (no property tells addresses apart). *)
EXTENDS Forwarder, TLC

CONSTANTS r1, r2, r3, a1

MCReqs  == {r1, r2, r3}
MCAddrs == {a1}

\* One client disconnects; the others stay: the calls are symmetric.
MCDisconnects == {r3}
=============================================================================
