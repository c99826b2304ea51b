------------------------------- MODULE MCSuse -------------------------------
(* Small instances of Suse for TLC. *)
EXTENDS SuseRefina, TLC

CONSTANTS p1, p2, A

\* Semaphore A of planificador.config: initial value 0, maximum 1.
InitA == [s \in Sem |-> 0]
MaxA  == [s \in Sem |-> 1]

\* Of what follows a crossing the properties of MCSuse.cfg and MCSuseVivo.cfg say nothing
\* (but CuentaSemaforo, which SuseProofs proves for any clients and any sequence of steps).
AntesDelCruce == ~cruce
\* After one a READY_LIST may get another entry of the same ULT at each next_tid.
CopiasAcotadas == \A u \in ULT : READY_LIST[u] <= 2

Simetria == Permutations(Proc)
=============================================================================
