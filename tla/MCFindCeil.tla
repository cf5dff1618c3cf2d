----------------------------- MODULE MCFindCeil -----------------------------
(* Instantiates FindCeil for TLC: lists of up to five variants of weight    *)
(* 1 or 2, every draw of getCanaryBackend.                                  *)
EXTENDS FindCeil, TLC
=============================================================================
