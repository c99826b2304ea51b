----------------------------- MODULE SuseRefina -----------------------------
(* Suse implements the life cycle of SuseCiclo: the refinement mapping is  *)
(* the estado of each ULT.                                                 *)
EXTENDS Suse

Ciclo == INSTANCE SuseCiclo

\* Every step of the server is a step of the state diagram of one process, or none.
ImplementaCiclo == Ciclo!Init /\ [][cruce' \/ Ciclo!Next]_estado
=============================================================================
