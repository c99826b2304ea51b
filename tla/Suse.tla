-------------------------------- MODULE Suse --------------------------------
(***************************************************************************)
(* SUSE, the user-level-thread scheduler of planificador/suse.c.           *)
(*                                                                         *)
(* Every connected client process has one handler thread in the server     *)
(* (handle_conection_suse) which serves its requests one at a time: create *)
(* a ULT, ask for the next ULT to run, join, wait, signal, close.  The     *)
(* handlers of different processes interleave over the global queues, the  *)
(* semaphores and the degree of multiprogramming.  A step of this module   *)
(* is what a handler does between two points at which it may have to wait  *)
(* for a pthread mutex or for semaforoReady.                               *)
(*                                                                         *)
(* The client library (hilolay) is not in the repository: which requests   *)
(* it may send, and in which order, is the operator group "The client"     *)
(* and the constants EstadosCerrables, MainCierraUltimo and                *)
(* EsperaSinEjecutar.                                                      *)
(***************************************************************************)
EXTENDS Integers, FiniteSets, Sequences, SequencesExt

CONSTANTS
  Proc,              \* client processes (PROCESS_ID, the socket of the connection)
  MaxTid,            \* bound: a process creates the ULTs 0 (its main) to MaxTid
  Sem,               \* the names in SEM_IDS
  SemDesconocido,    \* a name that is not in SEM_IDS
  SemInit, SemMax,   \* SEM_INIT and SEM_MAX, functions on Sem
  MAX_MULTIPROG,     \* the maximal degree of multiprogramming
  Libre,             \* "no owner" of a mutex
  EstadosCerrables,  \* states in which a client may close a ULT other than its main
  MainCierraUltimo,  \* TRUE: a client closes its main running and after all the others
  EsperaSinEjecutar  \* TRUE: a main that SUSE has not admitted may call wait

E_READY   == "E_READY"
E_EXECUTE == "E_EXECUTE"
E_BLOCKED == "E_BLOCKED"
E_EXIT    == "E_EXIT"
E_NEW     == "E_NEW"
SinCrear  == "SinCrear"    \* the tid has not been created
Liberado  == "Liberado"    \* the memory of the ULT has been freed

ASSUME SusAssumption ==
  /\ MaxTid \in Nat
  /\ MAX_MULTIPROG \in Nat
  /\ SemInit \in [Sem -> Nat]
  /\ SemMax \in [Sem -> Nat]
  /\ \A s \in Sem : SemInit[s] <= SemMax[s]
  /\ SemDesconocido \notin Sem
  /\ Libre \notin Proc
  /\ EstadosCerrables \subseteq {E_READY, E_EXECUTE, E_BLOCKED, E_NEW, E_EXIT}
  /\ MainCierraUltimo \in BOOLEAN
  /\ EsperaSinEjecutar \in BOOLEAN

Tid     == 0 .. MaxTid
Main    == 0
SinULT  == -1                       \* a NULL t_suse_thread*, and the -1 of next_tid
ULT     == Proc \X Tid
Estados == {E_READY, E_EXECUTE, E_BLOCKED, E_EXIT, E_NEW, SinCrear, Liberado}

\* The mutexes that are held while another lock is requested. (exit_queue and
\* process_list are only ever held around one list operation.)
Mutexes == {"multiprog", "new_queue", "blocked_queue", "semaforos"}

Pcs == {"idle", "create", "create_admite", "sem_ready", "wait", "wait_sem",
        "signal", "signal_sem", "desjoinear", "desj", "desj_listo", "desj_nuevo",
        "close_new", "close_new_cs", "close_blocked", "close_blocked_2",
        "close_blocked_cs", "close_ready", "close_ready_cs", "close_exec",
        "close_exec_cs", "fifo", "fifo_listo", "metricas", "sin_ult", "fin", "caido"}

VARIABLES
  estado,            \* ULT -> Estados                              (t_suse_thread)
  joinTo,            \* ULT -> set of tids this ULT waits for
  joinedBy,          \* ULT -> sequence of tids that wait for this ULT
  READY_LIST,        \* ULT -> how many times the READY_LIST of its process holds it
  EXEC_THREAD,       \* Proc -> tid or SinULT                       (t_process)
  semaforoReady,     \* Proc -> value of the POSIX semaphore
  new_queue,         \* sequence of ULTs
  blocked_queue,     \* ULT -> how many times blocked_queue holds it
  exit_queue,        \* set of ULTs
  VALUE,             \* Sem -> value                                (t_suse_semaforos)
  BLOCKED_LIST,      \* Sem -> sequence of ULTs
  ACTUAL_MULTIPROG,  \* the degree of multiprogramming in use
  mutex,             \* Mutexes -> owner
  pc,                \* Proc -> where its handler is
  req,               \* Proc -> what the handler works on: tid, semaphore, loop index,
                     \*   and the ULT it admits with the estado it has read of it
  curr,              \* Proc -> the tid the client runs, SinULT when it must ask for one
  cruce              \* history: a next_tid has run a ULT in the middle of its admission

ultVars  == <<estado, joinTo, joinedBy>>
procVars == <<READY_LIST, EXEC_THREAD, semaforoReady>>
colaVars == <<new_queue, blocked_queue, exit_queue>>
semVars  == <<VALUE, BLOCKED_LIST>>
hiloVars == <<mutex, pc, req, curr, cruce>>
vars     == <<ultVars, procVars, colaVars, semVars, ACTUAL_MULTIPROG, hiloVars>>

\* What a handler works on.
Peticion == [tid : Tid \cup {SinULT}, sem : Sem \cup {SemDesconocido}, i : Nat,
             th : ULT \cup {<<>>}, leido : Estados]
SinReq == [tid |-> SinULT, sem |-> SemDesconocido, i |-> 0, th |-> <<>>, leido |-> SinCrear]

\* The ULTs of a process: created, not exited (ejecucion_a_exit and the others
\* move them to exit_queue), not freed.
EnULTS_ConExit(u) == estado[u] \notin {SinCrear, Liberado}          \* mutant
EnULTS(u) == estado[u] \notin {SinCrear, Liberado} /\ u \notin exit_queue
ULTS(p)   == {t \in Tid : EnULTS(<<p, t>>)}
EnLista(p) == {t \in Tid : READY_LIST[<<p, t>>] > 0}

-----------------------------------------------------------------------------
(* Locks and program counters                                              *)

Va(p, l)    == pc' = [pc EXCEPT ![p] = l]
Responde(p) == Va(p, "idle") /\ req' = [req EXCEPT ![p] = SinReq]

Toma(p, m) == mutex[m] = Libre /\ mutex' = [mutex EXCEPT ![m] = p]

\* The mutexes once p has unlocked those it holds.
Suelta_Multiprog(p) == [mutex EXCEPT !["multiprog"] = Libre]           \* mutant
Suelta(p) == [m \in Mutexes |-> IF mutex[m] = p THEN Libre ELSE mutex[m]]

\* sem_wait and sem_post on semaforoReady.
Wait(p) == /\ semaforoReady[p] > 0
           /\ semaforoReady' = [semaforoReady EXCEPT ![p] = @ - 1]
Post_Binario(p) == semaforoReady' = [semaforoReady EXCEPT ![p] = 1]          \* mutant
Post(p) == semaforoReady' = [semaforoReady EXCEPT ![p] = @ + 1]

-----------------------------------------------------------------------------
(* List operations and state transitions                                   *)

\* eliminar_ULT_cola_actual: which queue loses the ULT depends on the estado e
\* that is read of it. Taking it out of new_queue or blocked_queue locks that
\* queue's mutex.
PuedeEliminar(e) ==
  /\ e = E_NEW => mutex["new_queue"] = Libre
  /\ e = E_BLOCKED => mutex["blocked_queue"] = Libre
NewSin_Cabeza(u, e) == IF e = E_NEW THEN Tail(new_queue) ELSE new_queue       \* mutant
NewSin_Nada(u, e)   == new_queue                                              \* mutant
NewSin(u, e) == IF e = E_NEW THEN RemoveFirst(new_queue, u) ELSE new_queue
BlockedSin(u, e) ==
  IF e = E_BLOCKED /\ blocked_queue[u] > 0
    THEN [blocked_queue EXCEPT ![u] = @ - 1] ELSE blocked_queue
ExecSin(u, e) ==
  IF e = E_EXECUTE THEN [EXEC_THREAD EXCEPT ![u[1]] = SinULT] ELSE EXEC_THREAD
ReadyCon(u) == [READY_LIST EXCEPT ![u] = @ + 1]
ReadySin(u, e) ==
  IF e = E_READY /\ READY_LIST[u] > 0
    THEN [READY_LIST EXCEPT ![u] = @ - 1] ELSE READY_LIST

validar_UnoDeMas   == MAX_MULTIPROG >= ACTUAL_MULTIPROG                 \* mutant
validar_UnoDeMenos == MAX_MULTIPROG > ACTUAL_MULTIPROG + 1              \* mutant
validar_grado_multiprogramacion == MAX_MULTIPROG >= ACTUAL_MULTIPROG + 1

\* bloqueado_a_listo, and nuevo_a_listo in the create of the ULT, where nobody else
\* looks at the READY_LIST of the process: out of the queue of its estado, into
\* READY_LIST. (A ULT that has a place there and is READY keeps the one it adds.)
A_listo(u) ==
  /\ PuedeEliminar(estado[u])
  /\ new_queue' = NewSin(u, estado[u])
  /\ blocked_queue' = BlockedSin(u, estado[u])
  /\ EXEC_THREAD' = ExecSin(u, estado[u])
  /\ READY_LIST' = IF estado[u] = E_READY /\ READY_LIST[u] > 0 THEN READY_LIST ELSE ReadyCon(u)
  /\ estado' = [estado EXCEPT ![u] = E_READY]
  /\ Post(u[1])
  /\ UNCHANGED exit_queue
nuevo_a_listo(u)     == A_listo(u) /\ ACTUAL_MULTIPROG' = ACTUAL_MULTIPROG + 1
bloqueado_a_listo(u) == A_listo(u) /\ UNCHANGED ACTUAL_MULTIPROG

nuevo_a_ejecucion(u) ==
  /\ PuedeEliminar(estado[u])
  /\ new_queue' = NewSin(u, estado[u])
  /\ blocked_queue' = BlockedSin(u, estado[u])
  /\ READY_LIST' = ReadySin(u, estado[u])
  /\ EXEC_THREAD' = [EXEC_THREAD EXCEPT ![u[1]] = u[2]]
  /\ estado' = [estado EXCEPT ![u] = E_EXECUTE]
  /\ ACTUAL_MULTIPROG' = ACTUAL_MULTIPROG + 1
  /\ UNCHANGED <<semaforoReady, exit_queue>>

\* What ejecucion_a_bloqueado and ejecucion_a_bloqueado_por_semaforo share.
A_bloqueado(u) ==
  /\ mutex["blocked_queue"] = Libre
  /\ EXEC_THREAD' = [EXEC_THREAD EXCEPT ![u[1]] = SinULT]
  /\ estado' = [estado EXCEPT ![u] = E_BLOCKED]
  /\ blocked_queue' = [blocked_queue EXCEPT ![u] = @ + 1]
  /\ UNCHANGED <<new_queue, exit_queue, READY_LIST, semaforoReady>>

\* nuevo_a_exit, bloqueado_a_exit and listo_a_exit up to its sem_wait.
A_exit(u) ==
  /\ PuedeEliminar(estado[u])
  /\ new_queue' = NewSin(u, estado[u])
  /\ blocked_queue' = BlockedSin(u, estado[u])
  /\ EXEC_THREAD' = ExecSin(u, estado[u])
  /\ READY_LIST' = ReadySin(u, estado[u])
  /\ estado' = [estado EXCEPT ![u] = E_EXIT]
  /\ exit_queue' = exit_queue \cup {u}

-----------------------------------------------------------------------------
(* The client: hilolay, as far as suse.c depends on it                     *)

Conectado(p)     == pc[p] = "idle" /\ estado[<<p, Main>>] # SinCrear
ClienteCorre(p)  == Conectado(p) /\ curr[p] # SinULT
ProximoTid(p, t) == /\ t # Main /\ estado[<<p, t>>] = SinCrear
                    /\ \A t2 \in 1 .. (t - 1) : estado[<<p, t2>>] # SinCrear
PuedeCerrar(p, t) ==
  IF t = Main
    THEN MainCierraUltimo =>
           /\ EXEC_THREAD[p] = Main
           /\ \A t2 \in Tid \ {Main} : estado[<<p, t2>>] \in {SinCrear, E_EXIT}
    ELSE estado[<<p, t>>] \in EstadosCerrables

-----------------------------------------------------------------------------
Init ==
  /\ estado = [u \in ULT |-> SinCrear]
  /\ joinTo = [u \in ULT |-> {}]
  /\ joinedBy = [u \in ULT |-> <<>>]
  /\ READY_LIST = [u \in ULT |-> 0]
  /\ EXEC_THREAD = [p \in Proc |-> SinULT]
  /\ semaforoReady = [p \in Proc |-> 0]
  /\ new_queue = <<>>
  /\ blocked_queue = [u \in ULT |-> 0]
  /\ exit_queue = {}
  /\ VALUE = SemInit
  /\ BLOCKED_LIST = [s \in Sem |-> <<>>]
  /\ ACTUAL_MULTIPROG = 0
  /\ mutex = [m \in Mutexes |-> Libre]
  /\ pc = [p \in Proc |-> "idle"]
  /\ req = [p \in Proc |-> SinReq]
  /\ curr = [p \in Proc |-> SinULT]
  /\ cruce = FALSE

-----------------------------------------------------------------------------
(* suse_create                                                             *)

\* ULT_create: the ULT enters ULTS and new_queue before any lock is taken.
ULT_create(p, t) ==
  /\ estado' = [estado EXCEPT ![<<p, t>>] = E_NEW]
  /\ new_queue' = Append(new_queue, <<p, t>>)
  /\ Va(p, "create")
  /\ req' = [req EXCEPT ![p].tid = t]
  /\ UNCHANGED <<joinTo, joinedBy, procVars, blocked_queue, exit_queue, semVars, ACTUAL_MULTIPROG, mutex>>

handle_main_thread_create(p) ==
  /\ pc[p] = "idle" /\ estado[<<p, Main>>] = SinCrear
  /\ ULT_create(p, Main)
  /\ curr' = [curr EXCEPT ![p] = Main]
  /\ UNCHANGED cruce

handle_ULT_create(p, t) ==
  /\ ClienteCorre(p) /\ ProximoTid(p, t)
  /\ ULT_create(p, t)
  /\ UNCHANGED <<curr, cruce>>

\* Take mutex_multiprog and look at the degree; without room the ULT stays in new_queue.
create_valida(p) ==
  /\ pc[p] = "create"
  /\ mutex["multiprog"] = Libre
  /\ IF validar_grado_multiprogramacion
       THEN Toma(p, "multiprog") /\ Va(p, "create_admite") /\ UNCHANGED req
       ELSE Responde(p) /\ UNCHANGED mutex
  /\ UNCHANGED <<ultVars, procVars, colaVars, semVars, ACTUAL_MULTIPROG, curr, cruce>>

\* The admission acts on the ULT whatever its estado has become meanwhile.
create_admite(p) ==
  /\ pc[p] = "create_admite"
  /\ LET u == <<p, req[p].tid>> IN
       IF req[p].tid = Main THEN nuevo_a_ejecucion(u) ELSE nuevo_a_listo(u)
  /\ mutex' = Suelta(p)
  /\ Responde(p)
  /\ UNCHANGED <<joinTo, joinedBy, semVars, curr, cruce>>

-----------------------------------------------------------------------------
(* next_tid                                                                *)

\* ejecucion_a_listo of the running ULT, if there is one, then sem_wait.
handle_next_tid(p) ==
  /\ Conectado(p)
  /\ LET t == EXEC_THREAD[p] IN
       IF t = SinULT
         THEN UNCHANGED <<estado, procVars>>
         ELSE /\ EXEC_THREAD' = [EXEC_THREAD EXCEPT ![p] = SinULT]
              /\ estado' = [estado EXCEPT ![<<p, t>>] = E_READY]
              /\ READY_LIST' = ReadyCon(<<p, t>>)
              /\ Post(p)
  /\ Va(p, "sem_ready")
  /\ UNCHANGED <<joinTo, joinedBy, colaVars, semVars, ACTUAL_MULTIPROG, mutex, req, curr, cruce>>

\* A nuevo_a_listo of another handler has put u in READY_LIST and has yet to take
\* it out of new_queue, mark it READY and post.
EnAdmision(u) == \E q \in Proc : pc[q] = "fifo_listo" /\ req[q].th = u

\* The end of sem_wait, the sort and listo_a_ejecucion. SJF orders by measured
\* bursts: any ULT of READY_LIST may be the first.
obtener_proximo_ejecutar(p) ==
  /\ pc[p] = "sem_ready"
  /\ Wait(p)
  /\ \/ \E t \in EnLista(p) :
          LET u == <<p, t>> IN
          /\ PuedeEliminar(estado[u])
          /\ new_queue' = NewSin(u, estado[u])
          /\ blocked_queue' = BlockedSin(u, estado[u])
          /\ READY_LIST' = ReadySin(u, estado[u])
          /\ EXEC_THREAD' = [EXEC_THREAD EXCEPT ![p] = t]
          /\ estado' = [estado EXCEPT ![u] = E_EXECUTE]
          /\ curr' = [curr EXCEPT ![p] = t]
          /\ cruce' = (cruce \/ EnAdmision(u))
          /\ Responde(p)
          /\ UNCHANGED exit_queue
     \/ /\ EnLista(p) = {}                    \* "No hay procesos para ejecutar"
        /\ Va(p, "sin_ult")
        /\ UNCHANGED <<estado, EXEC_THREAD, READY_LIST, colaVars, curr, req, cruce>>
  /\ UNCHANGED <<joinTo, joinedBy, semVars, ACTUAL_MULTIPROG, mutex>>

-----------------------------------------------------------------------------
(* suse_join                                                               *)

\* The library asks for the next ULT after a join, whatever SUSE answered.
join(p, t) ==
  /\ ClienteCorre(p)
  /\ LET e == EXEC_THREAD[p] IN
       IF e = SinULT \/ t \notin ULTS(p)
         THEN UNCHANGED <<ultVars, procVars, colaVars>>
         ELSE /\ joinTo' = [joinTo EXCEPT ![<<p, e>>] = @ \cup {t}]
              /\ joinedBy' = [joinedBy EXCEPT ![<<p, t>>] = Append(@, e)]
              /\ A_bloqueado(<<p, e>>)
  /\ curr' = [curr EXCEPT ![p] = SinULT]
  /\ UNCHANGED <<semVars, ACTUAL_MULTIPROG, mutex, pc, req, cruce>>

-----------------------------------------------------------------------------
(* wait and signal                                                         *)

handle_wait_sem(p, s) ==
  /\ ClienteCorre(p)
  /\ EsperaSinEjecutar \/ EXEC_THREAD[p] = curr[p]
  /\ Va(p, "wait") /\ req' = [req EXCEPT ![p].sem = s]
  /\ UNCHANGED <<ultVars, procVars, colaVars, semVars, ACTUAL_MULTIPROG, mutex, curr, cruce>>

handle_signal_sem(p, s) ==
  /\ ClienteCorre(p)
  /\ Va(p, "signal") /\ req' = [req EXCEPT ![p].sem = s]
  /\ UNCHANGED <<ultVars, procVars, colaVars, semVars, ACTUAL_MULTIPROG, mutex, curr, cruce>>

toma_semaforos(p) ==
  /\ Toma(p, "semaforos")
  /\ \/ pc[p] = "wait" /\ Va(p, "wait_sem")
     \/ pc[p] = "signal" /\ Va(p, "signal_sem")
  /\ UNCHANGED <<ultVars, procVars, colaVars, semVars, ACTUAL_MULTIPROG, req, curr, cruce>>

decrementar_semaforo(p) ==
  /\ pc[p] = "wait_sem"
  /\ LET s == req[p].sem
         u == <<p, curr[p]>> IN
       IF s \notin Sem
         THEN UNCHANGED <<estado, procVars, colaVars, semVars>>
         ELSE /\ VALUE' = [VALUE EXCEPT ![s] = @ - 1]
              /\ IF VALUE[s] <= 0
                   THEN /\ A_bloqueado(u)
                        /\ BLOCKED_LIST' = [BLOCKED_LIST EXCEPT ![s] = Append(@, u)]
                   ELSE UNCHANGED <<estado, procVars, colaVars, BLOCKED_LIST>>
  /\ curr' = [curr EXCEPT ![p] = SinULT]
  /\ mutex' = Suelta(p)
  /\ Responde(p)
  /\ UNCHANGED <<joinTo, joinedBy, ACTUAL_MULTIPROG, cruce>>

\* incrementar_semaforo refuses an unknown semaphore and one at its maximum.
signal_SinMaximo(p) == req[p].sem \notin Sem                              \* mutant
signal_rechazado(p) == req[p].sem \notin Sem \/ VALUE[req[p].sem] = SemMax[req[p].sem]

\* The waiter that desbloquear_hilos_semaforo takes.
PrimerEspera_Ultimo(s) == Last(BLOCKED_LIST[s])                           \* mutant
PrimerEspera(s) == Head(BLOCKED_LIST[s])

incrementar_semaforo(p) ==
  /\ pc[p] = "signal_sem"
  /\ LET s == req[p].sem IN
       IF signal_rechazado(p)
         THEN UNCHANGED <<estado, procVars, colaVars, semVars, ACTUAL_MULTIPROG>>
         ELSE /\ VALUE' = [VALUE EXCEPT ![s] = @ + 1]
              /\ IF BLOCKED_LIST[s] = <<>>
                   THEN UNCHANGED <<estado, procVars, colaVars, BLOCKED_LIST, ACTUAL_MULTIPROG>>
                   ELSE \* desbloquear_hilos_semaforo
                        /\ estado[PrimerEspera(s)] # Liberado
                        /\ bloqueado_a_listo(PrimerEspera(s))
                        /\ BLOCKED_LIST' = [BLOCKED_LIST EXCEPT ![s] = Tail(@)]
  /\ mutex' = Suelta(p)
  /\ Responde(p)
  /\ UNCHANGED <<joinTo, joinedBy, curr, cruce>>

-----------------------------------------------------------------------------
(* close                                                                   *)

\* close_tid of the main: every ULT of the process and the process itself are
\* freed; no queue, semaphore or slot is given back.
close_main(p) ==
  /\ ClienteCorre(p) /\ PuedeCerrar(p, Main)
  /\ estado' = [u \in ULT |-> IF u[1] = p /\ EnULTS(u) THEN Liberado ELSE estado[u]]
  /\ READY_LIST' = [u \in ULT |-> IF u[1] = p THEN 0 ELSE READY_LIST[u]]
  /\ EXEC_THREAD' = [EXEC_THREAD EXCEPT ![p] = SinULT]
  /\ semaforoReady' = [semaforoReady EXCEPT ![p] = 0]
  /\ curr' = [curr EXCEPT ![p] = SinULT]
  /\ Va(p, "fin")
  /\ UNCHANGED <<joinTo, joinedBy, colaVars, semVars, ACTUAL_MULTIPROG, mutex, req, cruce>>

close_tid(p, t) ==
  /\ ClienteCorre(p) /\ t # Main /\ PuedeCerrar(p, t) /\ t \in ULTS(p)
  /\ Va(p, "desjoinear") /\ req' = [req EXCEPT ![p] = [@ EXCEPT !.tid = t, !.i = 1]]
  /\ UNCHANGED <<ultVars, procVars, colaVars, semVars, ACTUAL_MULTIPROG, mutex, curr, cruce>>

\* One turn of the loop of desjoinear up to mutex_multiprog.
desjoinear_hilo(p) ==
  LET t == req[p].tid
      i == req[p].i
      j == <<p, joinedBy[<<p, t>>][i]>> IN
  /\ pc[p] = "desjoinear" /\ i <= Len(joinedBy[<<p, t>>])
  /\ joinTo' = [joinTo EXCEPT ![j] = @ \ {t}]
  /\ IF joinTo[j] \subseteq {t}
       THEN Va(p, "desj") /\ UNCHANGED req
       ELSE req' = [req EXCEPT ![p].i = i + 1] /\ UNCHANGED pc
  /\ UNCHANGED <<estado, joinedBy, procVars, colaVars, semVars, ACTUAL_MULTIPROG, mutex, curr, cruce>>

desjoinear_valida(p) ==
  /\ pc[p] = "desj"
  /\ Toma(p, "multiprog")
  /\ Va(p, IF validar_grado_multiprogramacion THEN "desj_listo" ELSE "desj_nuevo")
  /\ UNCHANGED <<ultVars, procVars, colaVars, semVars, ACTUAL_MULTIPROG, req, curr, cruce>>

\* The joiner is woken, or, with the degree full, sent back to new_queue: it
\* stays in blocked_queue and its slot stays counted.
desjoinear_mueve(p) ==
  /\ LET j == <<p, joinedBy[<<p, req[p].tid>>][req[p].i]>> IN
       \/ pc[p] = "desj_listo" /\ bloqueado_a_listo(j)
       \/ /\ pc[p] = "desj_nuevo"
          /\ mutex["new_queue"] = Libre
          /\ estado' = [estado EXCEPT ![j] = E_NEW]
          /\ new_queue' = Append(new_queue, j)
          /\ UNCHANGED <<procVars, blocked_queue, exit_queue, ACTUAL_MULTIPROG>>
  /\ mutex' = Suelta(p)
  /\ Va(p, "desjoinear") /\ req' = [req EXCEPT ![p].i = @ + 1]
  /\ UNCHANGED <<joinTo, joinedBy, semVars, curr, cruce>>

\* switch(thread->estado), read without a lock.
close_segun_estado(p) ==
  /\ pc[p] = "desjoinear" /\ req[p].i > Len(joinedBy[<<p, req[p].tid>>])
  /\ LET e == estado[<<p, req[p].tid>>] IN
       \/ e = E_NEW /\ Va(p, "close_new")
       \/ e = E_BLOCKED /\ Va(p, "close_blocked")
       \/ e = E_READY /\ Va(p, "close_ready")
       \/ e = E_EXECUTE /\ Va(p, "close_exec")
  /\ UNCHANGED <<ultVars, procVars, colaVars, semVars, ACTUAL_MULTIPROG, mutex, req, curr, cruce>>

close_toma(p) ==
  /\ \/ pc[p] = "close_new" /\ Toma(p, "new_queue") /\ Va(p, "close_new_cs")
     \/ pc[p] = "close_blocked" /\ Toma(p, "blocked_queue") /\ Va(p, "close_blocked_2")
     \/ pc[p] = "close_blocked_2" /\ Toma(p, "multiprog") /\ Va(p, "close_blocked_cs")
     \/ pc[p] = "close_ready" /\ Toma(p, "multiprog") /\ Va(p, "close_ready_cs")
     \/ pc[p] = "close_exec" /\ Toma(p, "multiprog") /\ Va(p, "close_exec_cs")
  /\ UNCHANGED <<ultVars, procVars, colaVars, semVars, ACTUAL_MULTIPROG, req, curr, cruce>>

\* nuevo_a_exit takes mutex_new_queue again: if the ULT still is NEW, the
\* handler waits for itself for ever.
close_new(p) ==
  /\ pc[p] = "close_new_cs"
  /\ A_exit(<<p, req[p].tid>>)
  /\ mutex' = Suelta(p)
  /\ Va(p, "metricas")
  /\ UNCHANGED <<joinTo, joinedBy, semaforoReady, semVars, ACTUAL_MULTIPROG, req, curr, cruce>>

\* The three cases that give the slot back. Only READY undoes the sem_post.
close_devuelve(p) ==
  /\ LET u == <<p, req[p].tid>> IN
       \/ pc[p] = "close_blocked_cs" /\ A_exit(u) /\ UNCHANGED semaforoReady
       \/ pc[p] = "close_ready_cs" /\ A_exit(u) /\ Wait(p)
       \/ /\ pc[p] = "close_exec_cs"
          /\ EXEC_THREAD' = [EXEC_THREAD EXCEPT ![p] = SinULT]
          /\ estado' = [estado EXCEPT ![u] = E_EXIT]
          /\ exit_queue' = exit_queue \cup {u}
          /\ UNCHANGED <<READY_LIST, semaforoReady, new_queue, blocked_queue>>
  /\ ACTUAL_MULTIPROG' = ACTUAL_MULTIPROG - 1
  /\ IF validar_grado_multiprogramacion'
       THEN Va(p, "fifo") /\ UNCHANGED mutex
       ELSE Va(p, "metricas") /\ mutex' = Suelta(p)
  /\ UNCHANGED <<joinTo, joinedBy, semVars, req, curr, cruce>>

Proximo_Ultimo == Last(new_queue)                                         \* mutant
Proximo == Head(new_queue)

\* The head of new_queue, and nuevo_a_listo of it up to where it may wait: it is in
\* READY_LIST before it leaves new_queue and before it is READY.
obtener_ULT_ready_FIFO(p) ==
  /\ pc[p] = "fifo"
  /\ \/ /\ new_queue = <<>>
        /\ mutex' = Suelta(p)
        /\ Va(p, "metricas")
        /\ UNCHANGED <<READY_LIST, req>>
     \/ /\ new_queue # <<>> /\ estado[Proximo] # Liberado
        /\ READY_LIST' = ReadyCon(Proximo)
        /\ Va(p, "fifo_listo")
        /\ req' = [req EXCEPT ![p] = [@ EXCEPT !.th = Proximo, !.leido = estado[Proximo]]]
        /\ UNCHANGED mutex
  /\ UNCHANGED <<ultVars, EXEC_THREAD, semaforoReady, colaVars, semVars, ACTUAL_MULTIPROG, curr, cruce>>

\* The rest of nuevo_a_listo, with the estado that the switch of
\* eliminar_ULT_cola_actual has read before waiting, whatever it is by now.
nuevo_a_listo_resto(p) ==
  LET u == req[p].th
      e == req[p].leido IN
  /\ pc[p] = "fifo_listo" /\ estado[u] # Liberado
  /\ PuedeEliminar(e)
  /\ new_queue' = NewSin(u, e)
  /\ blocked_queue' = BlockedSin(u, e)
  /\ EXEC_THREAD' = ExecSin(u, e)
  /\ READY_LIST' = ReadySin(u, e)
  /\ estado' = [estado EXCEPT ![u] = E_READY]
  /\ ACTUAL_MULTIPROG' = ACTUAL_MULTIPROG + 1
  /\ Post(u[1])
  /\ mutex' = Suelta(p)
  /\ Va(p, "metricas")
  /\ UNCHANGED <<joinTo, joinedBy, exit_queue, semVars, req, curr, cruce>>

\* metricas_sistema waits for mutex_semaforos and for mutex_multiprog.
metricas_sistema(p) ==
  /\ pc[p] = "metricas"
  /\ mutex["semaforos"] = Libre /\ mutex["multiprog"] = Libre
  /\ curr' = IF req[p].tid = curr[p] THEN [curr EXCEPT ![p] = SinULT] ELSE curr
  /\ Responde(p)
  /\ UNCHANGED <<ultVars, procVars, colaVars, semVars, ACTUAL_MULTIPROG, mutex, cruce>>

-----------------------------------------------------------------------------
(* The end of a connection and of the server                               *)

\* recibir returns -1: the handler ends and nothing of the process is released.
desconexion(p) ==
  /\ pc[p] = "idle"
  /\ Va(p, "fin")
  /\ curr' = [curr EXCEPT ![p] = SinULT]
  /\ UNCHANGED <<ultVars, procVars, colaVars, semVars, ACTUAL_MULTIPROG, mutex, req, cruce>>

\* NULL dereferences: close of a tid that list_find does not find, and a queue
\* whose head was freed with its process.
desreferencia_nula(p) ==
  /\ \/ /\ ClienteCorre(p)
        /\ \E t \in Tid \ {Main} : PuedeCerrar(p, t) /\ t \notin ULTS(p)
     \/ /\ pc[p] = "signal_sem" /\ ~signal_rechazado(p)
        /\ BLOCKED_LIST[req[p].sem] # <<>>
        /\ estado[PrimerEspera(req[p].sem)] = Liberado
     \/ /\ pc[p] = "fifo" /\ new_queue # <<>>
        /\ estado[Proximo] = Liberado
     \/ pc[p] = "fifo_listo" /\ estado[req[p].th] = Liberado
  /\ pc' = [q \in Proc |-> "caido"]
  /\ UNCHANGED <<ultVars, procVars, colaVars, semVars, ACTUAL_MULTIPROG, mutex, req, curr, cruce>>

Handler(p) ==
  \/ create_valida(p) \/ create_admite(p) \/ obtener_proximo_ejecutar(p)
  \/ toma_semaforos(p) \/ decrementar_semaforo(p) \/ incrementar_semaforo(p)
  \/ desjoinear_hilo(p) \/ desjoinear_valida(p) \/ desjoinear_mueve(p)
  \/ close_segun_estado(p) \/ close_toma(p) \/ close_new(p) \/ close_devuelve(p)
  \/ obtener_ULT_ready_FIFO(p) \/ nuevo_a_listo_resto(p) \/ metricas_sistema(p)

Pedido(p) ==
  \/ handle_main_thread_create(p)
  \/ \E t \in Tid : handle_ULT_create(p, t) \/ join(p, t) \/ close_tid(p, t)
  \/ handle_next_tid(p) \/ close_main(p) \/ desconexion(p)
  \/ \E s \in Sem \cup {SemDesconocido} : handle_wait_sem(p, s) \/ handle_signal_sem(p, s)

Next == \E p \in Proc : Handler(p) \/ Pedido(p) \/ desreferencia_nula(p)

Spec     == Init /\ [][Next]_vars
\* A handler thread that can take its next step is eventually scheduled.
FairSpec == Spec /\ \A p \in Proc : WF_vars(Handler(p))

-----------------------------------------------------------------------------
(* Properties                                                              *)

\* The types; proved in SuseProofs (TypeCorrecta).
TypeOK ==
  /\ estado \in [ULT -> Estados]
  /\ joinTo \in [ULT -> SUBSET Tid]
  /\ joinedBy \in [ULT -> Seq(Tid)]
  /\ READY_LIST \in [ULT -> Nat]
  /\ EXEC_THREAD \in [Proc -> Tid \cup {SinULT}]
  /\ semaforoReady \in [Proc -> Nat]
  /\ new_queue \in Seq(ULT)
  /\ blocked_queue \in [ULT -> Nat]
  /\ exit_queue \in SUBSET ULT
  /\ VALUE \in [Sem -> Int]
  /\ BLOCKED_LIST \in [Sem -> Seq(ULT)]
  /\ ACTUAL_MULTIPROG \in Int
  /\ mutex \in [Mutexes -> Proc \cup {Libre}]
  /\ pc \in [Proc -> Pcs]
  /\ req \in [Proc -> Peticion]
  /\ curr \in [Proc -> Tid \cup {SinULT}]
  /\ cruce \in BOOLEAN

Admitido(u) == estado[u] \in {E_READY, E_EXECUTE, E_BLOCKED}
\* u has been put in new_queue and its own handler has yet to decide about it.
EnAlta(u)   == pc[u[1]] \in {"create", "create_admite"} /\ req[u[1]].tid = u[2]

\* The degree stays within the maximum, whatever handlers race between the check
\* (validar_grado_multiprogramacion) and the increment in the transition, and
\* however clients behave. (That no more ULTs are admitted is in SuseCiclo.)
ContadorAcotado == ACTUAL_MULTIPROG <= MAX_MULTIPROG

\* What follows "cruce \/" is said until a next_tid crosses the admission of the ULT
\* it runs (EnAdmision): the code fails all of it from then on.

\* Every READY ULT has been posted and not consumed: next_tid never waits in
\* sem_wait while the process has one, and listo_a_exit, which waits holding
\* mutex_multiprog, never blocks.
Listos(p) == {t \in Tid : estado[<<p, t>>] = E_READY}
ReadyTieneToken == cruce \/ \A p \in Proc : Cardinality(Listos(p)) <= semaforoReady[p]

\* A negative semaphore counts exactly the ULTs queued on it, a positive one has
\* nobody waiting, and no value exceeds SEM_MAX.
CuentaSemaforo ==
  \A s \in Sem : /\ VALUE[s] <= SemMax[s]
                 /\ Len(BLOCKED_LIST[s]) = (IF VALUE[s] < 0 THEN -VALUE[s] ELSE 0)

\* The estado of a ULT and the queue that holds it never disagree: it is in
\* new_queue exactly once while NEW, in READY_LIST once while READY or while it is
\* being admitted, is EXEC_THREAD while executing, is in blocked_queue and on at
\* most one semaphore while BLOCKED.
Veces(q, u) == Cardinality({i \in 1 .. Len(q) : q[i] = u})
ColasCoherentes ==
  cruce \/ \A u \in ULT :
    /\ Veces(new_queue, u) = (IF estado[u] = E_NEW THEN 1 ELSE 0)
    /\ READY_LIST[u] = (IF estado[u] = E_READY \/ EnAdmision(u) THEN 1 ELSE 0)
    /\ (EXEC_THREAD[u[1]] = u[2]) <=> (estado[u] = E_EXECUTE)
    /\ estado[u] = E_BLOCKED => blocked_queue[u] > 0
    /\ LET en == {s \in Sem : Veces(BLOCKED_LIST[s], u) > 0} IN
         /\ Cardinality(en) <= 1
         /\ \A s \in en : estado[u] = E_BLOCKED /\ Veces(BLOCKED_LIST[s], u) = 1

\* While the server runs, a BLOCKED ULT that has not exited has something left that
\* can wake it: a place in the list of a semaphore, or a join to a ULT that is
\* still alive and knows its joiner. (The exception is the joiner that desjoinear
\* is waking in this very call. A next_tid that crosses an admission may run, and
\* block, a ULT that has exited.)
Despertandose(u) ==
  /\ pc[u[1]] \in {"desj", "desj_listo", "desj_nuevo"}
  /\ joinedBy[<<u[1], req[u[1]].tid>>][req[u[1]].i] = u[2]
BloqueadoTieneDespertador ==
  \A u \in ULT : estado[u] = E_BLOCKED /\ EnULTS(u) /\ pc[u[1]] # "caido" =>
    \/ \E s \in Sem : Veces(BLOCKED_LIST[s], u) > 0
    \/ \E t \in joinTo[u] :
         /\ estado[<<u[1], t>>] \in {E_READY, E_EXECUTE, E_BLOCKED, E_NEW}
         /\ \E i \in 1 .. Len(joinedBy[<<u[1], t>>]) : joinedBy[<<u[1], t>>][i] = u[2]
    \/ Despertandose(u)

\* With the degree not exhausted nobody is left waiting in new_queue, except ULTs
\* whose creation is not finished and the moment in which close is admitting.
SinEsperaConLugar ==
  ~cruce /\ ACTUAL_MULTIPROG < MAX_MULTIPROG /\ (\A p \in Proc : pc[p] \notin {"fifo", "fifo_listo"}) =>
    \A i \in 1 .. Len(new_queue) : EnAlta(new_queue[i])

\* Orderly clients (each closes its main last, while it runs) never make the server
\* take a freed ULT from new_queue or from a semaphore nor dereference NULL, and
\* blocked_queue keeps no freed ULT but a main. It does keep mains: desjoinear
\* leaves there the joiner that it sends back to new_queue (759-765), the close of
\* the main frees it (649), and remover_ULT_bloqueado (1375) reads its tid later.
SinReferenciasColgadas == cruce \/
  /\ \A p \in Proc : pc[p] # "caido"
  /\ \A i \in 1 .. Len(new_queue) : estado[new_queue[i]] # Liberado
  /\ \A s \in Sem : \A i \in 1 .. Len(BLOCKED_LIST[s]) :
       estado[BLOCKED_LIST[s][i]] # Liberado
  /\ \A u \in ULT : blocked_queue[u] > 0 /\ estado[u] = Liberado => u[2] = Main

\* Admission order: a ULT leaves NEW for READY or EXECUTE only when everyone ahead
\* of it in new_queue is still being created.
OrdenDeAdmision ==
  [][cruce' \/ \A u \in ULT : \A i \in 1 .. Len(new_queue) :
       new_queue[i] = u /\ estado[u] = E_NEW /\ Admitido(u)'
         => \A k \in 1 .. (i - 1) : EnAlta(new_queue[k])]_vars

\* A ULT stops being BLOCKED only because of the ULT it joined, which is closing,
\* or because it was the first waiter of a semaphore that was signalled.
DespiertaConCausa ==
  [][cruce' \/ \A u \in ULT :
       estado[u] = E_BLOCKED /\ EnULTS(u)' /\ estado'[u] # E_BLOCKED =>
         \/ Despertandose(u)
         \/ \E s \in Sem : /\ BLOCKED_LIST[s] # <<>> /\ Head(BLOCKED_LIST[s]) = u
                           /\ VALUE'[s] = VALUE[s] + 1]_vars

\* The comment "Esto se soluciona con el semaforo" of obtener_proximo_ejecutar: a
\* next_tid that got past sem_wait finds a ULT in READY_LIST.
SiempreHayULT == \A p \in Proc : pc[p] # "sin_ult"

\* A handler blocked in sem_wait is answered once the READY_LIST of its process
\* holds a ULT (unless a next_tid crosses an admission).
NextTidResponde ==
  \A p \in Proc : pc[p] = "sem_ready" /\ EnLista(p) # {} ~> (pc[p] # "sem_ready" \/ cruce)

\* No handler keeps a mutex for ever: every critical section ends. (After a next_tid
\* crosses an admission listo_a_exit may wait for ever with mutex_multiprog.)
MutexSeLibera ==
  \A p \in Proc, m \in Mutexes : mutex[m] = p ~> (mutex[m] # p \/ pc[p] = "caido" \/ cruce)
=============================================================================
