------------------------------- MODULE SuseSjf -------------------------------
(***************************************************************************)
(* The order in which SUSE runs the ready ULTs of a process: the times and *)
(* estimates of planificador/suse.c (obtener_proximo_ejecutar,             *)
(* estimar_ULTs_listos, ordenar_por_sjf and the moves that measure a       *)
(* burst).  Suse, which has the queues, the semaphores, the degree and the *)
(* mutexes, lets next_tid pick any ready ULT; here is which one.           *)
(*                                                                         *)
(* duracionRafaga is two things: while a ULT executes, the hour at which   *)
(* it began; otherwise, how long its last burst was.                       *)
(*                                                                         *)
(* The handler of the process is one thread.  What other handlers do to    *)
(* its ULTs (a signal, a slot given) happens between any two of its steps, *)
(* and the clock moves between any two.  A closed ULT stays closed and an  *)
(* admission is one step: Suse has the signals that may reach the first    *)
(* and the next_tid that may cross the second.                             *)
(*                                                                         *)
(* Two steps of next_tid spoil the average of a ULT for good, and          *)
(* mezcladas has the ULTs they have spoilt: the time next_tid waited for a *)
(* ready ULT counts as a burst of the one it runs, and a ULT that became   *)
(* ready after the estimation and is run at once loses its last burst.     *)
(***************************************************************************)
EXTENDS Integers, SequencesExt

CONSTANTS
  ULT,               \* the ULTs of the process
  Principal,         \* its main thread
  ALPHA_SJF,         \* the weight of a burst in the estimate, of 100
  Inicio, Fin,       \* the first hour of the clock and, a bound, the last
  Avance,            \* what the clock may move
  Nadie              \* a NULL EXEC_THREAD

ASSUME SjfAssumption ==
  /\ Principal \in ULT /\ Nadie \notin ULT
  /\ ALPHA_SJF \in 0 .. 100
  /\ Inicio \in Nat \ {0} /\ Fin \in Nat /\ Avance \subseteq Nat

VARIABLES
  reloj,
  estado,
  READY_LIST,
  EXEC_THREAD,
  duracionRafaga,
  estimacionUltimaRafaga,
  ejecutado_desde_estimacion,
  tiempoInicialEnExec,
  pc,             \* of the handler: "idle", "sem_wait" or, in next_tid after the
                  \* estimation, "estimada"
  tiempo_actual,  \* of next_tid
  promedio,       \* history: the average of the bursts as they were
  mezcladas       \* history: the ULTs with a burst lost or with idle time in it

tiempoVars == <<duracionRafaga, ejecutado_desde_estimacion, tiempoInicialEnExec>>
llamadaVars == <<pc, tiempo_actual>>
vars == <<reloj, estado, READY_LIST, EXEC_THREAD, tiempoVars, estimacionUltimaRafaga,
          llamadaVars, promedio, mezcladas>>

-----------------------------------------------------------------------------
(* Bursts                                                                  *)

\* estimar_rafaga: of a burst d and the last estimate e. Reals are integers here.
Estimacion(d, e) == (ALPHA_SJF * d + (100 - ALPHA_SJF) * e) \div 100

\* The end of a burst: how long it was, by the clock that next_tid or the block has read.
\* duracionRafaga is 0 if the ULT was never given an hour.
Mide_Nada(t) == duracionRafaga                                             \* mutant
Mide(t) ==
  IF duracionRafaga[t] = 0 THEN duracionRafaga
  ELSE [duracionRafaga EXCEPT ![t] = reloj - @]

\* What tiempoDeCpu counts of it.
Vuelca(t) ==
  promedio' = [promedio EXCEPT ![t] = Estimacion(reloj - tiempoInicialEnExec[t], @)]

\* A ULT is given the processor; its burst is counted from the hour h.
Marca_SinBandera(t) == UNCHANGED ejecutado_desde_estimacion                \* mutant
Marca(t) == ejecutado_desde_estimacion' = [ejecutado_desde_estimacion EXCEPT ![t] = TRUE]
Ejecuta(t, h) ==
  /\ EXEC_THREAD' = t
  /\ estado' = [estado EXCEPT ![t] = "E_EXECUTE"]
  /\ duracionRafaga' = [duracionRafaga EXCEPT ![t] = h]
  /\ tiempoInicialEnExec' = [tiempoInicialEnExec EXCEPT ![t] = reloj]
  /\ Marca(t)

-----------------------------------------------------------------------------
(* The requests of the process                                             *)

\* The main thread executes from its creation if there is room, and waits if not.
handle_main_thread_create ==
  /\ pc = "idle" /\ estado[Principal] = "SinCrear"
  /\ \/ Ejecuta(Principal, reloj)
     \/ /\ estado' = [estado EXCEPT ![Principal] = "E_NEW"]
        /\ UNCHANGED <<EXEC_THREAD, tiempoVars>>
  /\ UNCHANGED <<reloj, READY_LIST, estimacionUltimaRafaga, llamadaVars, promedio, mezcladas>>

\* Its admission is nuevo_a_listo.
handle_ULT_create(t) ==
  /\ pc = "idle" /\ estado[t] = "SinCrear" /\ EXEC_THREAD # Nadie
  /\ estado' = [estado EXCEPT ![t] = "E_NEW"]
  /\ UNCHANGED <<reloj, READY_LIST, EXEC_THREAD, tiempoVars, estimacionUltimaRafaga,
                 llamadaVars, promedio, mezcladas>>

\* obtener_proximo_ejecutar reads the clock, and the ULT that executes goes to ready.
handle_next_tid ==
  LET t == EXEC_THREAD IN
  /\ pc = "idle" /\ estado[Principal] # "SinCrear"
  /\ pc' = "sem_wait"
  /\ tiempo_actual' = reloj
  /\ \/ t = Nadie /\ UNCHANGED <<estado, READY_LIST, EXEC_THREAD, duracionRafaga, promedio>>
     \/ /\ t # Nadie
        /\ duracionRafaga' = Mide(t)
        /\ Vuelca(t)
        /\ EXEC_THREAD' = Nadie
        /\ estado' = [estado EXCEPT ![t] = "E_READY"]
        /\ READY_LIST' = Append(READY_LIST, t)
  /\ UNCHANGED <<reloj, estimacionUltimaRafaga, ejecutado_desde_estimacion,
                 tiempoInicialEnExec, mezcladas>>

\* After sem_wait (semaforoReady counts READY_LIST: ReadyTieneToken of Suse): the ready
\* ULTs that have executed since their last estimation.
estimar_ULTs_listos ==
  LET Suyas == {t \in Range(READY_LIST) : ejecutado_desde_estimacion[t]} IN
  /\ pc = "sem_wait" /\ READY_LIST # <<>>
  /\ estimacionUltimaRafaga' =
       [t \in ULT |-> IF t \in Suyas
                      THEN Estimacion(duracionRafaga[t], estimacionUltimaRafaga[t])
                      ELSE estimacionUltimaRafaga[t]]
  /\ ejecutado_desde_estimacion' =
       [t \in ULT |-> ejecutado_desde_estimacion[t] /\ t \notin Suyas]
  /\ pc' = "estimada"
  /\ UNCHANGED <<reloj, estado, READY_LIST, EXEC_THREAD, duracionRafaga,
                 tiempoInicialEnExec, tiempo_actual, promedio, mezcladas>>

\* list_sort with funcion_SJF: those of one estimate stay as they were.
Ordenada_Nada(r) == r = READY_LIST                                         \* mutant
Ordenada(r) ==
  /\ Range(r) = Range(READY_LIST)
  /\ \A i, j \in DOMAIN r : i < j =>
       \/ estimacionUltimaRafaga[r[i]] < estimacionUltimaRafaga[r[j]]
       \/ /\ estimacionUltimaRafaga[r[i]] = estimacionUltimaRafaga[r[j]]
          /\ \E k, l \in DOMAIN READY_LIST :
               k < l /\ READY_LIST[k] = r[i] /\ READY_LIST[l] = r[j]

\* ordenar_por_sjf and the first of the list, which counts its burst from the clock that
\* next_tid read before it waited.
listo_a_ejecucion ==
  /\ pc = "estimada"
  /\ \E r \in [DOMAIN READY_LIST -> Range(READY_LIST)] :
       /\ Ordenada(r) /\ READY_LIST' = Tail(r) /\ Ejecuta(r[1], tiempo_actual)
       /\ mezcladas' = IF tiempo_actual # reloj \/ ejecutado_desde_estimacion[r[1]]
                       THEN mezcladas \cup {r[1]} ELSE mezcladas
  /\ pc' = "idle"
  /\ UNCHANGED <<reloj, estimacionUltimaRafaga, tiempo_actual, promedio>>

\* join, or wait on a semaphore without a value, of the ULT that executes.
ejecucion_a_bloqueado ==
  LET t == EXEC_THREAD IN
  /\ pc = "idle" /\ t # Nadie
  /\ duracionRafaga' = Mide(t)
  /\ Vuelca(t)
  /\ EXEC_THREAD' = Nadie
  /\ estado' = [estado EXCEPT ![t] = "E_BLOCKED"]
  /\ UNCHANGED <<reloj, READY_LIST, estimacionUltimaRafaga, ejecutado_desde_estimacion,
                 tiempoInicialEnExec, llamadaVars, mezcladas>>

\* The close of the main thread ends the process.
close_tid(t) ==
  /\ pc = "idle" /\ t # Principal /\ estado[t] \notin {"SinCrear", "E_EXIT"}
  /\ estado' = [estado EXCEPT ![t] = "E_EXIT"]
  /\ READY_LIST' = RemoveFirst(READY_LIST, t)
  /\ EXEC_THREAD' = IF EXEC_THREAD = t THEN Nadie ELSE EXEC_THREAD
  /\ UNCHANGED <<reloj, tiempoVars, estimacionUltimaRafaga, llamadaVars, promedio, mezcladas>>

-----------------------------------------------------------------------------
(* What the others do to its ULTs                                          *)

\* bloqueado_a_listo, of a signal or of the close of the ULT it joined, and nuevo_a_listo,
\* of a slot.
a_listo(t) ==
  /\ estado[t] \in {"E_BLOCKED", "E_NEW"}
  /\ estado' = [estado EXCEPT ![t] = "E_READY"]
  /\ READY_LIST' = Append(READY_LIST, t)
  /\ UNCHANGED <<reloj, EXEC_THREAD, tiempoVars, estimacionUltimaRafaga, llamadaVars,
                 promedio, mezcladas>>

\* A joiner that wakes with the degree full.
desjoinear_hilo(t) ==
  /\ estado[t] = "E_BLOCKED"
  /\ estado' = [estado EXCEPT ![t] = "E_NEW"]
  /\ UNCHANGED <<reloj, READY_LIST, EXEC_THREAD, tiempoVars, estimacionUltimaRafaga,
                 llamadaVars, promedio, mezcladas>>

get_time_today ==
  /\ \E a \in Avance : reloj + a <= Fin /\ reloj' = reloj + a
  /\ UNCHANGED <<estado, READY_LIST, EXEC_THREAD, tiempoVars, estimacionUltimaRafaga,
                 llamadaVars, promedio, mezcladas>>

-----------------------------------------------------------------------------
Init ==
  /\ reloj = Inicio
  /\ estado = [t \in ULT |-> "SinCrear"]
  /\ READY_LIST = <<>> /\ EXEC_THREAD = Nadie
  /\ duracionRafaga = [t \in ULT |-> 0] /\ estimacionUltimaRafaga = [t \in ULT |-> 0]
  /\ ejecutado_desde_estimacion = [t \in ULT |-> FALSE]
  /\ tiempoInicialEnExec = [t \in ULT |-> 0]
  /\ pc = "idle" /\ tiempo_actual = 0
  /\ promedio = [t \in ULT |-> 0] /\ mezcladas = {}

Next ==
  \/ handle_main_thread_create \/ handle_next_tid \/ estimar_ULTs_listos
  \/ listo_a_ejecucion \/ ejecucion_a_bloqueado \/ get_time_today
  \/ \E t \in ULT : handle_ULT_create(t) \/ close_tid(t) \/ a_listo(t) \/ desjoinear_hilo(t)

Spec == Init /\ [][Next]_vars

-----------------------------------------------------------------------------
(* Properties                                                              *)

\* The estimate of a ULT is the average of its bursts as they were: each one counts, once,
\* for what it lasted, by whichever of its moves it ended and whenever it is estimated. Only
\* the ULTs of mezcladas are excepted: what happens to one does not reach the others.
EstimacionFiel ==
  \A t \in ULT \ mezcladas : estado[t] # "E_EXIT" =>
    promedio[t] =
      IF estado[t] # "E_EXECUTE" /\ ejecutado_desde_estimacion[t]
      THEN Estimacion(duracionRafaga[t], estimacionUltimaRafaga[t])
      ELSE estimacionUltimaRafaga[t]

\* An hour is never taken for the length of a burst: a ULT that does not execute has a
\* length, and one that does an hour, though it goes through five queues moved by several
\* handlers.
DuracionEsIntervalo ==
  \A t \in ULT :
    /\ estado[t] \notin {"E_EXECUTE", "E_EXIT"} => duracionRafaga[t] \in 0 .. reloj - Inicio
    /\ estado[t] = "E_EXECUTE" => duracionRafaga[t] \in Inicio .. reloj

\* Of the ready ULTs whose bursts are all in their estimates, next_tid never runs one when
\* another has a smaller average: one that has become ready since the estimation and whose
\* last burst is not in its estimate may go before or after its turn, and changes nothing
\* between the rest.
MenorPrimero ==
  [][\A t, u \in {v \in ULT \ mezcladas : estado[v] = "E_READY" /\ ~ejecutado_desde_estimacion[v]} :
       estado'[t] = "E_EXECUTE" => promedio[t] <= promedio[u]]_vars
=============================================================================
