------------------------------ MODULE MCWasmJob ------------------------------
(* Instantiates WasmJob for TLC: three concurrent creators, one deleter.   *)
EXTENDS WasmJob, TLC

CONSTANTS c1, c2, c3, d1

MCCallers  == {c1, c2, c3}
MCDeleters == {d1}
=============================================================================
