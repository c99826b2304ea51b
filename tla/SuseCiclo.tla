------------------------------ MODULE SuseCiclo ------------------------------
(***************************************************************************)
(* What SUSE promises about the life of a ULT, without queues, mutexes or  *)
(* handlers: the five-state diagram, at most one ULT executing per process *)
(* and at most MAX_MULTIPROG ULTs of all processes between admission and   *)
(* exit.  Suse implements it (SuseRefina) when clients are orderly.        *)
(***************************************************************************)
EXTENDS Integers, FiniteSets

CONSTANTS Proc, Tid, MAX_MULTIPROG

VARIABLE estado

ULT       == Proc \X Tid
Vivo      == {"E_NEW", "E_READY", "E_EXECUTE", "E_BLOCKED"}
Admitidos == {u \in ULT : estado[u] \in {"E_READY", "E_EXECUTE", "E_BLOCKED"}}
CpuLibre(p) == \A t \in Tid : estado[<<p, t>>] # "E_EXECUTE"

Pasa(u, desde, hasta) ==
  estado[u] \in desde /\ estado' = [estado EXCEPT ![u] = hasta]

Init == estado = [u \in ULT |-> "SinCrear"]

Crear(u)     == Pasa(u, {"SinCrear"}, "E_NEW")
Admitir(u)   == /\ Cardinality(Admitidos) < MAX_MULTIPROG
                /\ \/ Pasa(u, {"E_NEW"}, "E_READY")
                   \/ CpuLibre(u[1]) /\ Pasa(u, {"E_NEW"}, "E_EXECUTE")
Elegir(u)    == CpuLibre(u[1]) /\ Pasa(u, {"E_READY"}, "E_EXECUTE")
Ceder(u)     == Pasa(u, {"E_EXECUTE"}, "E_READY")
Bloquear(u)  == Pasa(u, {"E_EXECUTE"}, "E_BLOCKED")
Despertar(u) == Pasa(u, {"E_BLOCKED"}, "E_READY")
Degradar(u)  == Pasa(u, {"E_BLOCKED"}, "E_NEW")
Terminar(u)  == Pasa(u, Vivo, "E_EXIT")
Morir(p)     == estado' = [u \in ULT |-> IF u[1] = p /\ estado[u] \in Vivo
                                           THEN "Liberado" ELSE estado[u]]

Next ==
  \/ \E u \in ULT : \/ Crear(u) \/ Admitir(u) \/ Elegir(u) \/ Ceder(u) \/ Bloquear(u)
                    \/ Despertar(u) \/ Degradar(u) \/ Terminar(u)
  \/ \E p \in Proc : Morir(p)

Spec == Init /\ [][Next]_estado
=============================================================================
