----------------------------- MODULE MCSacDisco -----------------------------
(* Small instances of SacDisco for TLC. *)
EXTENDS SacDisco

CONSTANTS c1, c2

\* A file that needs a second block of pointers, and one of a single block of data.
TamUnoGrande == [c \in {c1, c2} |-> IF c = c1 THEN 6 ELSE 1]
=============================================================================
