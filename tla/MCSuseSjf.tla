------------------------------ MODULE MCSuseSjf ------------------------------
(* Small instances of SuseSjf for TLC. *)
EXTENDS SuseSjf, TLC

CONSTANTS m, t1, t2

Iguales == Permutations({t1, t2})
==============================================================================
