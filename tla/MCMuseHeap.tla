----------------------------- MODULE MCMuseHeap -----------------------------
(* Small instances of MuseHeap for TLC. *)
EXTENDS MuseHeap, TLC

CONSTANTS p1, p2

\* The first program holds enough allocations for a free to join three blocks.
Vivas == [p \in Prog |-> IF p = p1 THEN 3 ELSE 1]

\* Nothing is asked of a program once a block in use has been marked free.
SinPisar == \A p \in Prog : desvio[p] # "pisa"
=============================================================================
