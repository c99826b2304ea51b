---------------------------- MODULE MuseServidor ----------------------------
(***************************************************************************)
(* The server of MUSE and its clients: libMuse/libmuse.c (one socket per   *)
(* process, s_socket), utils_suse/network.c (the accept loop, packets),    *)
(* memoria/muse.c (a handler thread per connection) and, of                *)
(* memoria/main_memory.c, the order in which every request takes           *)
(* mutex_lock, searches program_list and gives its result.                 *)
(*                                                                         *)
(* What a request does to memory is in MuseHeap, MuseFrames and MuseMmap:  *)
(* here a result is any of those the code can return at that place.  A     *)
(* request waits for mutex_lock ("espera"), is in a critical section       *)
(* ("dentro", the one that pedido.paso names) or is between them.          *)
(*                                                                         *)
(* Extremos: the members of Evitado that do happen.                        *)
(***************************************************************************)
EXTENDS Integers, Sequences

CONSTANTS
  Proceso,   \* processes linked with libMuse
  Hilo,      \* their threads
  de,        \* Hilo -> Proceso
  usa,       \* Proceso -> the calls that it makes
  Extremos,
  Nadie

Evitado == {"cero",           \* muse_alloc of 0 bytes
            "llena_primero",  \* the first muse_alloc of a process finds memory full
            "libera_mal",     \* muse_free of an address without segment
            "get_malo",       \* muse_get of an address without segment, or too long
            "estrenan",       \* two list_add on program_list overlap
            "juntos",         \* a connection is accepted before the last one's thread runs
            \* and those that end the server, with mutex_lock held:
            "se_pasa",        \* muse_get or muse_cpy reaches a page that its segment has not:
                              \* past the last one, or before the first, where a copy to one
                              \* of the first bytes of a heap looks for the metadata
            "libera_con_mapa",  \* the muse_free of a process with a mapped segment, which
                                \* memory_free walks as if it were a heap
            "crece_tras_mapa",  \* a heap behind which there is a segment has to grow: the new
                                \* one writes its metadata at an address that is not its own
            "doble_destroy",  \* the second list_destroy of the table of a file that nobody
                              \* maps any more: it finds what the first one has freed
            "reloj_suelto"}   \* a frame is needed when the clock points past the last
                              \* segment, since an unmap

\* A call of a thread, and what each one may name: the rest of its arguments does not
\* change the way it goes.
Llamada ==
  [tipo : {"malloc"}, en : {"cero", "bytes"}] \cup [tipo : {"free"}, en : {"heap"}] \cup
  [tipo : {"get", "cpy"}, en : {"heap", "mapa"}] \cup
  [tipo : {"map", "sync", "unmap"}, en : {"mapa"}]

ASSUME ServidorAssumption ==
  /\ de \in [Hilo -> Proceso]
  /\ usa \in [Proceso -> SUBSET Llamada]
  /\ Extremos \subseteq Evitado
  /\ Nadie \notin Proceso /\ Nadie \notin Hilo

VARIABLES
  vivo,          \* the server runs
  abierta,       \* history: memory_get has unlocked mutex_lock while another held it
  conexion,      \* socket of each process
  ida, vuelta,   \* what travels on it to the server and back
  s_socket,      \* mutex of libMuse: thread between send_message and receive_message
  estado,        \* of each thread of the clients
  args,          \* args->client_fd, which the accept loop and the new thread share
  pc,            \* of the handler of each connection
  client_fd,     \* the socket that it reads
  pid,           \* its variable pid, or Nadie
  pedido,        \* the request it serves, with the critical section it is in or waits for
  visto,         \* program_list as list_add has read it
  mutex_lock,    \* the handler that holds it
  program_list,  \* processes with an entry
  segmentos,     \* kinds of segment of each program
  perdidos       \* answers sent to each closed connection

clienteVars == <<conexion, ida, vuelta, s_socket, estado, perdidos>>
memoriaVars == <<visto, program_list, segmentos>>
mutexVars == <<mutex_lock, abierta>>
vars == <<vivo, clienteVars, args, pc, client_fd, pid, pedido, mutexVars, memoriaVars>>

Resultado == -4 .. 0      \* 0 stands for every result that is no error
Seccion   == {"valida", "ubica", "agranda", "nuevo", "libera", "revisa", "copia", "mapea"}

Quien(h) == de[pedido[h].hilo]
Tipo(h)  == pedido[h].llamada.tipo
Existe(h) == pedido[h].llamada.en \in segmentos[Quien(h)]

-----------------------------------------------------------------------------
(* libMuse                                                                 *)

\* muse_init; again, with the same identifier, after the handler of the old connection
\* has ended: an identifier has one connection at a time.
muse_init(p) ==
  /\ conexion[p] = "no" \/ (conexion[p] = "cerrada" /\ pc[p] = "fin")
  /\ conexion' = [conexion EXCEPT ![p] = "abierta"]
  /\ ida' = [ida EXCEPT ![p] = <<>>]
  /\ vuelta' = [vuelta EXCEPT ![p] = <<>>]
  /\ perdidos' = [perdidos EXCEPT ![p] = 0]
  /\ estado' = [t \in Hilo |-> IF de[t] = p THEN "libre" ELSE estado[t]]
  /\ pc' = [pc EXCEPT ![p] = "no"]
  /\ UNCHANGED <<vivo, s_socket, args, client_fd, pid, pedido, mutexVars, memoriaVars>>

\* What a program that uses the addresses it was given asks for.
Procede(p, c) ==
  /\ c \in usa[p]
  /\ c.en = "cero" => "cero" \in Extremos
  /\ c.tipo = "free" /\ c.en \notin segmentos[p] => "libera_mal" \in Extremos
  /\ c.tipo = "get" /\ c.en \notin segmentos[p] => "get_malo" \in Extremos

Toma_Suelta(p, t) == UNCHANGED s_socket                                    \* mutant
Toma(p, t) == s_socket' = [s_socket EXCEPT ![p] = t]

\* send_message with s_socket locked; it stays locked until the answer.
call(t, c) ==
  LET p == de[t] IN
  /\ estado[t] = "libre" /\ conexion[p] = "abierta" /\ s_socket[p] = Nadie
  /\ Procede(p, c)
  /\ Toma(p, t)
  /\ ida' = [ida EXCEPT ![p] = Append(@, [hilo |-> t, llamada |-> c])]
  /\ estado' = [estado EXCEPT ![t] = "espera"]
  /\ UNCHANGED <<vivo, conexion, vuelta, perdidos, args, pc, client_fd, pid, pedido,
                 mutexVars, memoriaVars>>

\* The results on which libMuse raises SIGSEGV.
Fatal(c, r) ==
  \/ c.tipo \in {"malloc", "unmap"} /\ r = -1
  \/ c.tipo = "cpy" /\ r \in {-1, -2, -3}
  \/ c.tipo = "get" /\ r \in {-1, -2, -3, -4}

\* The end of a process: its calls under way with it.
Cierra(p) ==
  /\ conexion' = [conexion EXCEPT ![p] = "cerrada"]
  /\ estado' = [t \in Hilo |-> IF de[t] = p THEN "cerrado" ELSE estado[t]]

\* receive_message and the end of the call, or of the process.
vuelve(t) ==
  LET p == de[t]
      m == Head(vuelta[p])
  IN /\ estado[t] = "espera" /\ vuelta[p] # <<>>
     /\ vuelta' = [vuelta EXCEPT ![p] = Tail(@)]
     /\ s_socket' = [s_socket EXCEPT ![p] = Nadie]
     /\ \/ Fatal(m.llamada, m.res) /\ Cierra(p)
        \/ /\ ~Fatal(m.llamada, m.res)
           /\ estado' = [estado EXCEPT ![t] = "libre"]
           /\ UNCHANGED conexion
     /\ UNCHANGED <<vivo, ida, perdidos, args, pc, client_fd, pid, pedido, mutexVars,
                    memoriaVars>>

\* muse_close, when no other thread of the process is in a call.
muse_close(p) ==
  /\ conexion[p] = "abierta" /\ s_socket[p] = Nadie
  /\ Cierra(p)
  /\ UNCHANGED <<vivo, ida, vuelta, s_socket, perdidos, args, pc, client_fd, pid, pedido,
                 mutexVars, memoriaVars>>

\* The process ends without it, and perhaps with a call under way.
termina(p) ==
  /\ conexion[p] = "abierta"
  /\ Cierra(p)
  /\ s_socket' = [s_socket EXCEPT ![p] = Nadie]
  /\ vuelta' = [vuelta EXCEPT ![p] = <<>>]
  /\ UNCHANGED <<vivo, ida, perdidos, args, pc, client_fd, pid, pedido, mutexVars,
                 memoriaVars>>

-----------------------------------------------------------------------------
(* The connections                                                         *)

\* server_listen_connections: args is one record for all the threads.
accept(p) ==
  /\ conexion[p] # "no" /\ pc[p] = "no"
  /\ "juntos" \in Extremos \/ \A q \in Proceso : pc[q] # "nace"
  /\ args' = p
  /\ pc' = [pc EXCEPT ![p] = "nace"]
  /\ UNCHANGED <<vivo, clienteVars, client_fd, pid, pedido, mutexVars, memoriaVars>>

\* The thread begins to run: handler copies args->client_fd.
handler(h) ==
  /\ pc[h] = "nace"
  /\ client_fd' = [client_fd EXCEPT ![h] = args]
  /\ pid' = [pid EXCEPT ![h] = Nadie]
  /\ pc' = [pc EXCEPT ![h] = "recibe"]
  /\ UNCHANGED <<vivo, clienteVars, args, pedido, mutexVars, memoriaVars>>

\* The next place of handler h: waiting for mutex_lock, or with the answer r.
Espera(h, s) ==
  /\ pc' = [pc EXCEPT ![h] = "espera"]
  /\ pedido' = [pedido EXCEPT ![h].paso = s]
Contesta(h, r) ==
  /\ pc' = [pc EXCEPT ![h] = "responde"]
  /\ pedido' = [pedido EXCEPT ![h].res = r]

\* receive_packet, message_decode and muse_invoke_function.
receive_packet(h) ==
  LET s == client_fd[h]
      m == Head(ida[s])
  IN /\ pc[h] = "recibe" /\ ida[s] # <<>>
     /\ ida' = [ida EXCEPT ![s] = Tail(@)]
     /\ pedido' = [pedido EXCEPT ![h] =
                     [hilo |-> m.hilo, llamada |-> m.llamada, res |-> 0,
                      crecio |-> FALSE,
                      paso |-> IF m.llamada.tipo = "malloc" THEN "valida" ELSE "mapea"]]
     /\ pc' = [pc EXCEPT ![h] =
                 IF m.llamada.tipo \in {"free", "get", "cpy"} THEN "busca" ELSE "espera"]
     /\ UNCHANGED <<vivo, conexion, vuelta, s_socket, estado, perdidos, args, client_fd, pid,
                    mutexVars, memoriaVars>>

\* The end of the connection: el_cliente_se_tomo_el_palo reads the program of the last
\* request, found or not.
el_cliente_se_tomo_el_palo(h) ==
  /\ pc[h] = "recibe" /\ ida[client_fd[h]] = <<>> /\ conexion[client_fd[h]] = "cerrada"
  /\ vivo' = (pid[h] = Nadie \/ pid[h] \in program_list)
  /\ pc' = [pc EXCEPT ![h] = "fin"]
  /\ UNCHANGED <<clienteVars, args, client_fd, pid, pedido, mutexVars, memoriaVars>>

\* The answer. The second one sent to a closed connection is a SIGPIPE.
message_handler(h) ==
  LET s == client_fd[h] IN
  /\ pc[h] = "responde"
  /\ \/ /\ conexion[s] = "abierta"
        /\ vuelta' = [vuelta EXCEPT ![s] =
                        Append(@, [hilo |-> pedido[h].hilo, llamada |-> pedido[h].llamada,
                                   res |-> pedido[h].res])]
        /\ UNCHANGED <<vivo, perdidos>>
     \/ /\ conexion[s] # "abierta"
        /\ perdidos' = [perdidos EXCEPT ![s] = @ + 1]
        /\ vivo' = (perdidos[s] = 0)
        /\ UNCHANGED vuelta
  /\ pid' = [pid EXCEPT ![h] = Quien(h)]
  /\ pedido' = [pedido EXCEPT ![h] = Nadie]
  /\ pc' = [pc EXCEPT ![h] = "recibe"]
  /\ UNCHANGED <<conexion, ida, s_socket, estado, args, client_fd, mutexVars, memoriaVars>>

-----------------------------------------------------------------------------
(* The requests                                                            *)

\* list_add on program_list attaches p to the end that it has read: whatever was
\* attached there meanwhile is lost.
list_add(p, leida) == program_list' = leida \cup {p}

\* After the search of the program, outside mutex_lock.
TrasBuscar(h) ==
  \/ /\ \/ Tipo(h) = "malloc" /\ Espera(h, "ubica")
        \/ Tipo(h) = "free" /\ Espera(h, "libera")
        \/ Tipo(h) = "cpy" /\ Existe(h) /\ Espera(h, "revisa")
        \/ /\ Tipo(h) = "get" /\ Existe(h)
           /\ Espera(h, IF pedido[h].llamada.en = "mapa" THEN "revisa" ELSE "copia")
        \/ Tipo(h) = "cpy" /\ ~Existe(h) /\ Contesta(h, -3)
     /\ UNCHANGED mutexVars
  \/ /\ Tipo(h) = "get"
     /\ \/ ~Existe(h) /\ Contesta(h, -3)
        \/ Existe(h) /\ "get_malo" \in Extremos /\ Contesta(h, -4)
     /\ mutex_lock' = Nadie
     /\ abierta' = (abierta \/ mutex_lock # Nadie)

\* memory_free of an address that no segment has dereferences NULL.
search_program(h) ==
  /\ pc[h] = "busca" /\ (Tipo(h) = "free" \/ Quien(h) \in program_list)
  /\ IF Tipo(h) = "free" /\ (Quien(h) \notin program_list \/ ~Existe(h))
     THEN vivo' = FALSE /\ UNCHANGED <<pc, pedido, mutexVars>>
     ELSE TrasBuscar(h) /\ UNCHANGED vivo
  /\ UNCHANGED <<clienteVars, args, client_fd, pid, memoriaVars>>

\* A program that is not there is added, by a list_add that reads the end of the list...
search_program_falla(h) ==
  /\ pc[h] = "busca" /\ Tipo(h) # "free" /\ Quien(h) \notin program_list
  /\ "estrenan" \in Extremos \/ \A g \in Proceso : pc[g] # "agrega"
  /\ visto' = [visto EXCEPT ![h] = program_list]
  /\ pc' = [pc EXCEPT ![h] = "agrega"]
  /\ UNCHANGED <<vivo, clienteVars, args, client_fd, pid, pedido, mutexVars, program_list,
                 segmentos>>

\* ... and then writes it. A program that is lost takes its segments with it.
crea_programa(h) ==
  /\ pc[h] = "agrega"
  /\ list_add(Quien(h), visto[h])
  /\ segmentos' = [p \in Proceso |-> IF p \in visto[h] THEN segmentos[p] ELSE {}]
  /\ visto' = [visto EXCEPT ![h] = {}]
  /\ TrasBuscar(h)
  /\ UNCHANGED <<vivo, clienteVars, args, client_fd, pid>>

Libre_Siempre(m) == TRUE                                                   \* mutant
Libre(m) == m = Nadie
pthread_mutex_lock(h) ==
  /\ pc[h] = "espera" /\ Libre(mutex_lock)
  /\ mutex_lock' = h
  /\ pc' = [pc EXCEPT ![h] = "dentro"]
  /\ UNCHANGED <<vivo, abierta, clienteVars, args, client_fd, pid, pedido, memoriaVars>>

pthread_mutex_unlock_Falta(s) ==                                           \* mutant
  mutex_lock' = IF s = "mapea" THEN mutex_lock ELSE Nadie
pthread_mutex_unlock(s) == mutex_lock' = Nadie

\* Handler h is in the critical section s: its end, and that of the server in it.
Esta(h, s) == pc[h] = "dentro" /\ pedido[h].paso = s
Sale(h, s) ==
  /\ pthread_mutex_unlock(s)
  /\ UNCHANGED <<vivo, abierta, clienteVars, args, client_fd, pid, visto>>
Cae(h, e) ==
  /\ e \in Extremos
  /\ vivo' = FALSE
  /\ UNCHANGED <<clienteVars, args, pc, client_fd, pid, pedido, mutexVars, memoriaVars>>

\* memory_malloc: the size and the free frames. A size of 0 returns with mutex_lock.
malloc_valida(h) ==
  /\ Esta(h, "valida")
  /\ IF pedido[h].llamada.en = "cero"
     THEN Contesta(h, 0) /\ UNCHANGED mutex_lock
     ELSE /\ pthread_mutex_unlock("valida")
          /\ \/ pc' = [pc EXCEPT ![h] = "busca"] /\ UNCHANGED pedido
             \/ /\ Quien(h) \notin program_list => "llena_primero" \in Extremos
                /\ Contesta(h, -1)
  /\ UNCHANGED <<vivo, abierta, clienteVars, args, client_fd, pid, memoriaVars>>

\* A free block is found, the last segment is a heap that can grow, or a new one is added
\* to the table, empty, outside mutex_lock; then the request begins again and finds what it
\* has made (MallocResponde of MuseHeap).
malloc_ubica(h) ==
  LET p == Quien(h)
      suyos == segmentos[p]
  IN /\ Esta(h, "ubica")
     /\ \/ /\ Sale(h, "ubica")
           /\ \/ "heap" \in suyos /\ Contesta(h, 0) /\ UNCHANGED segmentos
              \/ /\ "heap" \in suyos /\ ~pedido[h].crecio
                 /\ Espera(h, "agranda")
                 /\ UNCHANGED segmentos
              \/ /\ ("heap" \notin suyos \/ "mapa" \in suyos) /\ ~pedido[h].crecio
                 /\ Espera(h, "nuevo")
                 /\ segmentos' = [segmentos EXCEPT ![p] = @ \cup {"heap"}]
           /\ UNCHANGED program_list
        \/ Cae(h, "reloj_suelto")

\* memory_malloc calls itself.
Recurre(h) ==
  /\ pc' = [pc EXCEPT ![h] = "espera"]
  /\ pedido' = [pedido EXCEPT ![h].crecio = TRUE, ![h].paso = "valida"]

malloc_agranda(h) ==
  /\ Esta(h, "agranda")
  /\ \/ Sale(h, "agranda") /\ Recurre(h) /\ UNCHANGED <<program_list, segmentos>>
     \/ Cae(h, "reloj_suelto")

\* The pages and the metadata of the new segment. Those of a heap that follows a heap that
\* cannot grow have a critical section each, and the server does not leave the second one.
malloc_nuevo(h) ==
  /\ Esta(h, "nuevo")
  /\ \/ Sale(h, "nuevo") /\ Recurre(h) /\ UNCHANGED <<program_list, segmentos>>
     \/ Cae(h, "reloj_suelto")
     \/ "mapa" \in segmentos[Quien(h)] /\ Cae(h, "crece_tras_mapa")

memory_free(h) ==
  /\ Esta(h, "libera")
  /\ \/ Sale(h, "libera") /\ Contesta(h, 0) /\ UNCHANGED <<program_list, segmentos>>
     \/ Cae(h, "reloj_suelto")
     \/ "mapa" \in segmentos[Quien(h)] /\ Cae(h, "libera_con_mapa")

\* memory_get and memory_cpy: whether the program may use a mapped segment...
revisa_mapa(h) ==
  /\ Esta(h, "revisa")
  /\ Sale(h, "revisa")
  /\ \/ Espera(h, "copia")
     \/ pedido[h].llamada.en = "mapa" /\ \E r \in {-1, -2} : Contesta(h, r)
  /\ UNCHANGED <<program_list, segmentos>>

\* ... and, in another critical section, the copy, whose pages are loaded before memory_cpy
\* looks at the size of the block and refuses one that is free or too small.
copia(h) ==
  /\ Esta(h, "copia")
  /\ \/ /\ Sale(h, "copia")
        /\ Contesta(h, 0) \/ (Tipo(h) = "cpy" /\ Contesta(h, -1))
        /\ UNCHANGED <<program_list, segmentos>>
     \/ Cae(h, "se_pasa") \/ Cae(h, "reloj_suelto")

\* memory_map, memory_sync and memory_unmap: one critical section, search included.
agrega_si_falta_Nada(p) == UNCHANGED program_list                          \* mutant
agrega_si_falta(p) ==
  IF p \in program_list THEN UNCHANGED program_list ELSE list_add(p, program_list)

mapea(h) ==
  LET p == Quien(h)
      pone(S) == segmentos' = [segmentos EXCEPT ![p] = S]
  IN /\ Esta(h, "mapea")
     /\ "estrenan" \in Extremos \/ p \in program_list \/ \A g \in Proceso : pc[g] # "agrega"
     /\ \/ /\ Sale(h, "mapea")
           /\ agrega_si_falta(p)
           /\ \/ /\ Tipo(h) = "map"
                 /\ \/ Contesta(h, 0) /\ pone(segmentos[p] \cup {"mapa"})
                    \/ \E r \in {-1, -2} : Contesta(h, r) /\ UNCHANGED segmentos
              \/ /\ Tipo(h) = "sync"
                 /\ \E r \in {-2, -1, 0} : (r = 0 => Existe(h)) /\ Contesta(h, r)
                 /\ UNCHANGED segmentos
              \/ /\ Tipo(h) = "unmap"
                 /\ \/ Existe(h) /\ Contesta(h, 0) /\ pone(segmentos[p] \ {"mapa"})
                    \/ Contesta(h, -1) /\ UNCHANGED segmentos
        \/ Tipo(h) = "unmap" /\ Existe(h) /\ Cae(h, "doble_destroy")

-----------------------------------------------------------------------------
Init ==
  /\ vivo = TRUE /\ abierta = FALSE
  /\ conexion = [p \in Proceso |-> "no"]
  /\ ida = [p \in Proceso |-> <<>>] /\ vuelta = [p \in Proceso |-> <<>>]
  /\ s_socket = [p \in Proceso |-> Nadie]
  /\ estado = [t \in Hilo |-> "cerrado"]
  /\ args = Nadie
  /\ pc = [h \in Proceso |-> "no"]
  /\ client_fd = [h \in Proceso |-> Nadie]
  /\ pid = [h \in Proceso |-> Nadie]
  /\ pedido = [h \in Proceso |-> Nadie]
  /\ visto = [h \in Proceso |-> {}]
  /\ mutex_lock = Nadie
  /\ program_list = {}
  /\ segmentos = [p \in Proceso |-> {}]
  /\ perdidos = [p \in Proceso |-> 0]

Cliente ==
  \/ \E p \in Proceso : muse_init(p) \/ muse_close(p) \/ termina(p)
  \/ \E t \in Hilo, c \in Llamada : call(t, c)

Servidor(h) ==
  \/ handler(h) \/ receive_packet(h) \/ el_cliente_se_tomo_el_palo(h) \/ message_handler(h)
  \/ search_program(h) \/ search_program_falla(h) \/ crea_programa(h)
  \/ pthread_mutex_lock(h)
  \/ malloc_valida(h) \/ malloc_ubica(h) \/ malloc_agranda(h) \/ malloc_nuevo(h)
  \/ memory_free(h) \/ revisa_mapa(h) \/ copia(h) \/ mapea(h)

\* The model ends when the server does.
Next ==
  /\ vivo
  /\ \/ Cliente
     \/ \E t \in Hilo : vuelve(t)
     \/ \E p \in Proceso : accept(p) \/ Servidor(p)

Spec == Init /\ [][Next]_vars
\* Threads that can run do, and the queue of connections is served in order; a thread
\* that waits for mutex_lock is not promised it.
FairSpec ==
  /\ Spec
  /\ \A t \in Hilo : WF_vars(vuelve(t))
  /\ \A p \in Proceso : SF_vars(accept(p)) /\ WF_vars(Servidor(p))

-----------------------------------------------------------------------------
(* Properties                                                              *)

\* The answer that a thread reads from the socket of its process is that of its own
\* request, though the threads share the socket, and a process may end with a request
\* under way and connect again later.
RespuestaPropia == [][\A t \in Hilo : vuelve(t) => Head(vuelta[de[t]]).hilo = t]_vars

\* No two requests are at once in the critical sections of mutex_lock, and whoever
\* is in one holds it, until a memory_get that fails opens the section of another: in no
\* other way does a request enter where another is.
SeccionExclusiva ==
  ~abierta => \A h \in Proceso : pc[h] = "dentro" => mutex_lock = h

\* The server lives until it is stopped: whatever the clients do and however they end,
\* it never reads a program that is not in program_list nor sends twice to a closed
\* connection.
ServidorVive == vivo

\* Requests go on being answered until no thread waits for one.
SigueContestando ==
  \/ []<>(\A t \in Hilo : estado[t] # "espera")
  \/ []<><<\E h \in Proceso : message_handler(h)>>_vars
=============================================================================
