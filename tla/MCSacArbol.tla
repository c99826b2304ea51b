----------------------------- MODULE MCSacArbol -----------------------------
(* Small instances of SacArbol for TLC. *)
EXTENDS SacArbol, TLC

CONSTANTS n1, n2

Simetria == Permutations(Nombre)
=============================================================================
