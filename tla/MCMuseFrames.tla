---------------------------- MODULE MCMuseFrames ----------------------------
(* Small instances of MuseFrames for TLC. *)
EXTENDS MuseFrames, TLC

CONSTANTS v1, v2

Simetria == Permutations(Valor)

\* Bound: no step follows once more than two pages are damaged.
CasiSanas == Cardinality(danadas) <= 2
=============================================================================
