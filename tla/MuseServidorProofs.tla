------------------------- MODULE MuseServidorProofs -------------------------
(* Theorems about MuseServidor for any processes, threads and calls.       *)
EXTENDS MuseServidor, TLAPS

Mensaje   == [hilo : Hilo, llamada : Llamada]
Respuesta == [hilo : Hilo, llamada : Llamada, res : Resultado]
Pedido    == [hilo : Hilo, llamada : Llamada, res : Resultado, crecio : BOOLEAN, paso : Seccion]
Activo    == {"busca", "agrega", "espera", "dentro", "responde"}
Lugar     == Activo \cup {"no", "nace", "recibe", "fin"}

\* What a socket may hold: no message or one.
HastaUno(S) == {<<>>} \cup {<<m>> : m \in S}

Tipos ==
  /\ conexion \in [Proceso -> {"no", "abierta", "cerrada"}]
  /\ ida \in [Proceso -> HastaUno(Mensaje)] /\ vuelta \in [Proceso -> HastaUno(Respuesta)]
  /\ s_socket \in [Proceso -> Hilo \cup {Nadie}]
  /\ estado \in [Hilo -> {"cerrado", "libre", "espera"}]
  /\ args \in Proceso \cup {Nadie}
  /\ pc \in [Proceso -> Lugar]
  /\ client_fd \in [Proceso -> Proceso \cup {Nadie}] /\ pid \in [Proceso -> Proceso \cup {Nadie}]
  /\ pedido \in [Proceso -> Pedido \cup {Nadie}]

\* Each handler reads the socket of its own connection.
Conexiones ==
  /\ \A p \in Proceso : pc[p] = "nace" => args = p
  /\ \A p \in Proceso : pc[p] \in Activo \cup {"recibe"} => client_fd[p] = p

\* A process has one request under way, at most, and it is in one place: on the way to
\* the server, in its handler or on the way back. While the connection is open it is the
\* request of the thread that has s_socket.
Turno(p) ==
  /\ conexion[p] # "abierta" => s_socket[p] = Nadie /\ vuelta[p] = <<>>
  /\ conexion[p] = "no" => pc[p] = "no"
  /\ pc[p] = "fin" => conexion[p] = "cerrada"
  /\ pc[p] \in Activo => /\ ida[p] = <<>> /\ vuelta[p] = <<>>
                         /\ pedido[p] \in Pedido /\ Quien(p) = p
  /\ ida[p] # <<>> => vuelta[p] = <<>> /\ de[Head(ida[p]).hilo] = p
  /\ conexion[p] = "abierta" =>
       /\ pc[p] \in Activo => pedido[p].hilo = s_socket[p]
       /\ ida[p] # <<>> => Head(ida[p]).hilo = s_socket[p]
       /\ vuelta[p] # <<>> => Head(vuelta[p]).hilo = s_socket[p]

Esperan == \A t \in Hilo : estado[t] = "espera" => s_socket[de[t]] = t

TurnoInv == Tipos /\ Conexiones /\ (\A p \in Proceso : Turno(p)) /\ Esperan

\* A free names an address of a segment that is there when it is searched.
Valida(p, c) == c.en # "cero" /\ (c.tipo = "free" => c.en \in segmentos[p])

\* The list of programs, when each one is added to the list as it is: whoever answers, and
\* whoever has a segment, is in it.
Programa(p) ==
  /\ ida[p] # <<>> => Valida(p, Head(ida[p]).llamada)
  /\ pc[p] \in Activo => pedido[p].llamada.en # "cero"
  /\ pc[p] = "busca" => Valida(p, pedido[p].llamada)
  /\ pc[p] = "agrega" => /\ pedido[p].llamada.tipo # "free"
                         /\ visto[p] = program_list /\ p \notin program_list
                         /\ \A q \in Proceso : pc[q] = "agrega" => q = p
  /\ pc[p] \in {"espera", "dentro"} /\ pedido[p].paso \in {"valida", "ubica", "agranda", "nuevo"} =>
       pedido[p].llamada.tipo = "malloc"
  /\ pc[p] \in {"espera", "dentro"} /\ pedido[p].paso \notin {"valida", "mapea"} =>
       p \in program_list
  /\ pc[p] = "responde" => p \in program_list
  /\ pid[p] # Nadie => pid[p] \in program_list
  /\ segmentos[p] # {} => p \in program_list
  /\ perdidos[p] # 0 => conexion[p] = "cerrada" /\ ida[p] = <<>> /\ pc[p] \notin Activo

TiposLista ==
  /\ visto \in [Proceso -> SUBSET Proceso] /\ program_list \in SUBSET Proceso
  /\ segmentos \in [Proceso -> SUBSET {"heap", "mapa"}]
  /\ perdidos \in [Proceso -> Nat]

IInv ==
  /\ TurnoInv /\ TiposLista
  /\ \A p \in Proceso : Programa(p)
  /\ ServidorVive

-----------------------------------------------------------------------------
(* Sockets of one message, and the request of a handler                    *)

LEMMA Unitaria ==
  ASSUME NEW m
  PROVE  Append(<<>>, m) = <<m>> /\ Head(<<m>>) = m /\ Tail(<<m>>) = <<>> /\ <<m>> # <<>>
OBVIOUS

LEMMA HastaUnoDe ==
  ASSUME NEW S, NEW s \in HastaUno(S), s # <<>>
  PROVE  Head(s) \in S /\ Tail(s) = <<>>
<1>1. PICK m \in S : s = <<m>> BY DEF HastaUno
<1>2. QED BY <1>1, Unitaria

LEMMA EnCamino ==
  ASSUME Tipos, NEW p \in Proceso
  PROVE  /\ ida[p] # <<>> => Head(ida[p]) \in Mensaje /\ Tail(ida[p]) = <<>>
         /\ vuelta[p] # <<>> => Head(vuelta[p]) \in Respuesta /\ Tail(vuelta[p]) = <<>>
<1>1. ida[p] \in HastaUno(Mensaje) /\ vuelta[p] \in HastaUno(Respuesta) BY DEF Tipos
<1>2. ASSUME ida[p] # <<>> PROVE Head(ida[p]) \in Mensaje /\ Tail(ida[p]) = <<>>
  BY <1>1, <1>2, HastaUnoDe
<1>3. ASSUME vuelta[p] # <<>> PROVE Head(vuelta[p]) \in Respuesta /\ Tail(vuelta[p]) = <<>>
  BY <1>1, <1>3, HastaUnoDe
<1>4. QED BY <1>2, <1>3

\* Handler h keeps the request, and goes to another place of it.
Sigue(h) ==
  /\ pedido' \in [Proceso -> Pedido \cup {Nadie}]
  /\ pedido'[h] \in Pedido
  /\ pedido'[h].hilo = pedido[h].hilo /\ pedido'[h].llamada = pedido[h].llamada
  /\ \A q \in Proceso : q # h => pedido'[q] = pedido[q]

Paso(h) ==
  /\ pc[h] \in Activo /\ \E l \in Activo : pc' = [pc EXCEPT ![h] = l]
  /\ Sigue(h)
  /\ UNCHANGED <<clienteVars, args, client_fd, pid>>

LEMMA SigueQuieto ==
  ASSUME Tipos, NEW h \in Proceso, pedido[h] \in Pedido, UNCHANGED pedido
  PROVE  Sigue(h)
BY DEF Tipos, Sigue

LEMMA SigueEspera ==
  ASSUME Tipos, NEW h \in Proceso, pedido[h] \in Pedido, NEW s \in Seccion, Espera(h, s)
  PROVE  Sigue(h) /\ pedido'[h].paso = s /\ pc' = [pc EXCEPT ![h] = "espera"]
BY DEF Tipos, Sigue, Espera, Pedido

LEMMA SigueContesta ==
  ASSUME Tipos, NEW h \in Proceso, pedido[h] \in Pedido, NEW r \in Resultado, Contesta(h, r)
  PROVE  Sigue(h) /\ pc' = [pc EXCEPT ![h] = "responde"]
BY DEF Tipos, Sigue, Contesta, Pedido

LEMMA SigueRecurre ==
  ASSUME Tipos, NEW h \in Proceso, pedido[h] \in Pedido, Recurre(h)
  PROVE  Sigue(h) /\ pedido'[h].paso = "valida" /\ pc' = [pc EXCEPT ![h] = "espera"]
BY DEF Tipos, Sigue, Recurre, Pedido, Seccion

LEMMA SigueCae ==
  ASSUME Tipos, NEW h \in Proceso, pc[h] \in Activo, pedido[h] \in Pedido, NEW e, Cae(h, e)
  PROVE  Sigue(h) /\ \E l \in Activo : pc' = [pc EXCEPT ![h] = l]
<1>1. Sigue(h) BY SigueQuieto DEF Cae
<1>2. pc' = [pc EXCEPT ![h] = pc[h]] BY DEF Tipos, Cae
<1>3. QED BY <1>1, <1>2

\* The actions between receive_packet and message_handler.
Interna(h) ==
  \/ search_program(h) \/ search_program_falla(h) \/ crea_programa(h) \/ pthread_mutex_lock(h)
  \/ malloc_valida(h) \/ malloc_ubica(h) \/ malloc_agranda(h) \/ malloc_nuevo(h)
  \/ memory_free(h) \/ revisa_mapa(h) \/ copia(h) \/ mapea(h)

LEMMA BuscaPaso ==
  ASSUME Tipos, NEW h \in Proceso, pedido[h] \in Pedido, TrasBuscar(h)
  PROVE  Sigue(h) /\ \E l \in Activo : pc' = [pc EXCEPT ![h] = l]
<1>1. (\E s \in Seccion : Espera(h, s)) \/ Contesta(h, -3) \/ Contesta(h, -4)
  BY DEF TrasBuscar, Seccion
<1>2. -3 \in Resultado /\ -4 \in Resultado BY DEF Resultado
<1>3. QED BY <1>1, <1>2, SigueEspera, SigueContesta DEF Activo

LEMMA InternaPaso ==
  ASSUME TurnoInv, NEW h \in Proceso, Interna(h)
  PROVE  Paso(h)
<1>1. pc[h] \in Activo
  BY DEF Interna, Activo, search_program, search_program_falla, crea_programa,
         pthread_mutex_lock, malloc_valida, malloc_ubica, malloc_agranda, malloc_nuevo,
         memory_free, revisa_mapa, copia, mapea, Esta
<1>2. Tipos /\ pedido[h] \in Pedido BY <1>1 DEF TurnoInv, Turno
<1>3. UNCHANGED <<clienteVars, args, client_fd, pid>>
  BY DEF Interna, search_program, search_program_falla, crea_programa,
         pthread_mutex_lock, malloc_valida, malloc_ubica, malloc_agranda, malloc_nuevo,
         memory_free, revisa_mapa, copia, mapea, Sale, Cae
<1>4. Sigue(h) /\ \E l \in Activo : pc' = [pc EXCEPT ![h] = l]
  <2>0. 0 \in Resultado /\ -1 \in Resultado /\ -2 \in Resultado BY DEF Resultado
  <2>1. CASE search_program(h)
    <3>1. CASE UNCHANGED <<pc, pedido>>
      BY <1>1, <1>2, <3>1, SigueQuieto DEF Tipos
    <3>2. CASE TrasBuscar(h) BY <1>2, <3>2, BuscaPaso
    <3>3. QED BY <2>1, <3>1, <3>2 DEF search_program
  <2>2. CASE search_program_falla(h)
    BY <1>2, <2>2, SigueQuieto DEF search_program_falla, Activo
  <2>3. CASE crea_programa(h) BY <1>2, <2>3, BuscaPaso DEF crea_programa
  <2>4. CASE pthread_mutex_lock(h)
    BY <1>2, <2>4, SigueQuieto DEF pthread_mutex_lock, Activo
  <2>5. CASE malloc_valida(h)
    <3>1. \/ Contesta(h, 0) \/ Contesta(h, -1)
          \/ pc' = [pc EXCEPT ![h] = "busca"] /\ UNCHANGED pedido
      BY <2>5 DEF malloc_valida
    <3>2. QED BY <1>2, <2>0, <3>1, SigueContesta, SigueQuieto DEF Activo
  <2>6. CASE malloc_ubica(h)
    <3>1. \/ Contesta(h, 0) \/ Espera(h, "agranda") \/ Espera(h, "nuevo")
          \/ Cae(h, "reloj_suelto")
      BY <2>6 DEF malloc_ubica
    <3>2. "agranda" \in Seccion /\ "nuevo" \in Seccion BY DEF Seccion
    <3>3. QED BY <1>1, <1>2, <2>0, <3>1, <3>2, SigueContesta, SigueEspera, SigueCae DEF Activo
  <2>7. CASE malloc_agranda(h) \/ malloc_nuevo(h)
    <3>1. Recurre(h) \/ (\E e \in {"reloj_suelto", "crece_tras_mapa"} : Cae(h, e))
      BY <2>7 DEF malloc_agranda, malloc_nuevo
    <3>2. QED BY <1>1, <1>2, <3>1, SigueRecurre, SigueCae DEF Activo
  <2>8. CASE memory_free(h)
    <3>1. Contesta(h, 0) \/ (\E e \in {"reloj_suelto", "libera_con_mapa"} : Cae(h, e))
      BY <2>8 DEF memory_free
    <3>2. QED BY <1>1, <1>2, <2>0, <3>1, SigueContesta, SigueCae DEF Activo
  <2>9. CASE revisa_mapa(h)
    <3>1. Espera(h, "copia") \/ Contesta(h, -1) \/ Contesta(h, -2)
      BY <2>9 DEF revisa_mapa
    <3>2. "copia" \in Seccion BY DEF Seccion
    <3>3. QED BY <1>2, <2>0, <3>1, <3>2, SigueContesta, SigueEspera DEF Activo
  <2>10. CASE copia(h)
    <3>1. \/ Contesta(h, 0) \/ Contesta(h, -1)
          \/ (\E e \in {"se_pasa", "reloj_suelto"} : Cae(h, e))
      BY <2>10 DEF copia
    <3>2. QED BY <1>1, <1>2, <2>0, <3>1, SigueContesta, SigueCae DEF Activo
  <2>11. CASE mapea(h)
    <3>1. \/ Contesta(h, 0) \/ Contesta(h, -1) \/ Contesta(h, -2)
          \/ Cae(h, "doble_destroy")
      BY <2>11 DEF mapea
    <3>2. QED BY <1>1, <1>2, <2>0, <3>1, SigueContesta, SigueCae DEF Activo
  <2>12. QED
    BY <2>1, <2>2, <2>3, <2>4, <2>5, <2>6, <2>7, <2>8, <2>9, <2>10, <2>11 DEF Interna
<1>5. QED BY <1>1, <1>3, <1>4 DEF Paso

-----------------------------------------------------------------------------
(* One request of each process                                             *)

LEMMA PasoTurno ==
  ASSUME TurnoInv, NEW h \in Proceso, Paso(h)
  PROVE  TurnoInv'
<1>1. Tipos' BY DEF TurnoInv, Tipos, Paso, Sigue, Lugar, clienteVars
<1>2. pc[h] \in Activo /\ pc'[h] \in Activo /\ \A q \in Proceso : q # h => pc'[q] = pc[q]
  BY DEF TurnoInv, Tipos, Paso
<1>3. Conexiones'
  BY <1>2 DEF TurnoInv, Conexiones, Paso, Activo
<1>4. ASSUME NEW p \in Proceso PROVE Turno(p)'
  <2>1. Turno(p) BY DEF TurnoInv
  <2>2. UNCHANGED <<conexion, ida, vuelta, s_socket>> BY DEF Paso, clienteVars
  <2>3. CASE p = h
    BY <1>2, <2>1, <2>2, <2>3 DEF Turno, Paso, Sigue, Quien, Activo
  <2>4. CASE p # h
    BY <1>2, <2>1, <2>2, <2>4 DEF Turno, Paso, Sigue, Quien
  <2>5. QED BY <2>3, <2>4
<1>5. Esperan' BY DEF TurnoInv, Esperan, Paso, clienteVars
<1>6. QED BY <1>1, <1>3, <1>4, <1>5 DEF TurnoInv

LEMMA TurnoInicial ==
  ASSUME Init
  PROVE  TurnoInv
BY DEF Init, TurnoInv, Tipos, HastaUno, Lugar, Activo, Conexiones, Turno, Esperan

LEMMA InitTurno ==
  ASSUME TurnoInv, NEW p \in Proceso, muse_init(p)
  PROVE  TurnoInv'
<1>1. Tipos' BY ServidorAssumption DEF TurnoInv, Tipos, muse_init, HastaUno, Lugar
<1>2. Conexiones' BY DEF TurnoInv, Tipos, Conexiones, muse_init, Activo
<1>3. ASSUME NEW q \in Proceso PROVE Turno(q)'
  <2>1. Turno(q) BY DEF TurnoInv
  <2>2. CASE q = p
    BY <2>1, <2>2 DEF TurnoInv, Tipos, Turno, muse_init, Activo
  <2>3. CASE q # p
    BY <2>1, <2>3 DEF TurnoInv, Tipos, Turno, muse_init, Quien
  <2>4. QED BY <2>2, <2>3
<1>4. Esperan' BY DEF TurnoInv, Tipos, Esperan, muse_init
<1>5. QED BY <1>1, <1>2, <1>3, <1>4 DEF TurnoInv

\* A thread that takes s_socket finds no request of its process.
LEMMA SinPedido ==
  ASSUME TurnoInv, NEW p \in Proceso, conexion[p] = "abierta", s_socket[p] = Nadie
  PROVE  ida[p] = <<>> /\ vuelta[p] = <<>> /\ pc[p] \notin Activo
<1>1. Turno(p) /\ Nadie \notin Hilo BY ServidorAssumption DEF TurnoInv
<1>2. ida[p] # <<>> => Head(ida[p]).hilo \in Hilo BY EnCamino DEF TurnoInv, Mensaje
<1>3. vuelta[p] # <<>> => Head(vuelta[p]).hilo \in Hilo BY EnCamino DEF TurnoInv, Respuesta
<1>4. pc[p] \in Activo => pedido[p].hilo \in Hilo BY <1>1 DEF Turno, Pedido
<1>5. QED BY <1>1, <1>2, <1>3, <1>4 DEF Turno

LEMMA CallTurno ==
  ASSUME TurnoInv, NEW t \in Hilo, NEW c \in Llamada, call(t, c)
  PROVE  TurnoInv'
<1> DEFINE p == de[t]
           m == [hilo |-> t, llamada |-> c]
<1>1. p \in Proceso /\ Nadie \notin Hilo BY ServidorAssumption
<1>2. ida[p] = <<>> /\ vuelta[p] = <<>> /\ pc[p] \notin Activo
  BY <1>1, SinPedido DEF call
<1>3. m \in Mensaje /\ ida' = [ida EXCEPT ![p] = <<m>>]
  BY <1>2, Unitaria DEF call, Mensaje
<1>4. s_socket' = [s_socket EXCEPT ![p] = t] BY DEF call, Toma
<1>5. Tipos'
  <2>1. <<m>> \in HastaUno(Mensaje) BY <1>3 DEF HastaUno
  <2>2. ida' \in [Proceso -> HastaUno(Mensaje)] BY <1>3, <2>1 DEF TurnoInv, Tipos
  <2>3. s_socket' \in [Proceso -> Hilo \cup {Nadie}] BY <1>4 DEF TurnoInv, Tipos
  <2>4. estado' \in [Hilo -> {"cerrado", "libre", "espera"}] BY DEF TurnoInv, Tipos, call
  <2>5. QED BY <2>2, <2>3, <2>4 DEF TurnoInv, Tipos, call
<1>6. Conexiones' BY DEF TurnoInv, Conexiones, call
<1>7. ASSUME NEW q \in Proceso PROVE Turno(q)'
  <2>1. Turno(q) BY DEF TurnoInv
  <2>2. CASE q = p
    <3>1. ida'[p] = <<m>> /\ Head(ida'[p]) = m BY <1>1, <1>3, Unitaria DEF TurnoInv, Tipos
    <3>2. s_socket'[p] = t BY <1>1, <1>4 DEF TurnoInv, Tipos
    <3>3. QED BY <1>2, <2>1, <2>2, <3>1, <3>2 DEF Turno, call
  <2>3. CASE q # p
    BY <1>3, <1>4, <2>1, <2>3 DEF TurnoInv, Tipos, Turno, call, Quien
  <2>4. QED BY <2>2, <2>3
<1>8. Esperan'
  BY <1>1, <1>4, ServidorAssumption DEF TurnoInv, Tipos, Esperan, call
<1>9. QED BY <1>5, <1>6, <1>7, <1>8 DEF TurnoInv

\* The answer that a thread reads is that of its request.
LEMMA RespuestaDe ==
  ASSUME TurnoInv, NEW t \in Hilo, estado[t] = "espera", vuelta[de[t]] # <<>>
  PROVE  Head(vuelta[de[t]]).hilo = t /\ s_socket[de[t]] = t /\ conexion[de[t]] = "abierta"
<1>1. de[t] \in Proceso /\ t # Nadie BY ServidorAssumption
<1>2. Turno(de[t]) /\ s_socket[de[t]] = t BY <1>1 DEF TurnoInv, Esperan
<1>3. QED BY <1>1, <1>2 DEF TurnoInv, Tipos, Turno

\* The end of a process that leaves s_socket free and takes no answer with it.
LEMMA CierraTurno ==
  ASSUME TurnoInv, NEW p \in Proceso, Cierra(p),
         s_socket'[p] = Nadie, vuelta'[p] = <<>>, vuelta' \in [Proceso -> HastaUno(Respuesta)],
         s_socket' \in [Proceso -> Hilo \cup {Nadie}], conexion[p] = "abierta",
         \A q \in Proceso : q # p => s_socket'[q] = s_socket[q] /\ vuelta'[q] = vuelta[q],
         UNCHANGED <<ida, args, pc, client_fd, pid, pedido>>
  PROVE  TurnoInv'
<1>1. Tipos' BY DEF TurnoInv, Tipos, Cierra
<1>2. Conexiones' BY DEF TurnoInv, Conexiones
<1>3. ASSUME NEW q \in Proceso PROVE Turno(q)'
  <2>1. Turno(q) BY DEF TurnoInv
  <2>2. CASE q = p
    BY <2>1, <2>2 DEF TurnoInv, Tipos, Turno, Cierra, Quien
  <2>3. CASE q # p
    BY <2>1, <2>3 DEF TurnoInv, Tipos, Turno, Cierra, Quien
  <2>4. QED BY <2>2, <2>3
<1>4. Esperan' BY ServidorAssumption DEF TurnoInv, Tipos, Esperan, Cierra
<1>5. QED BY <1>1, <1>2, <1>3, <1>4 DEF TurnoInv

LEMMA VuelveTurno ==
  ASSUME TurnoInv, NEW t \in Hilo, vuelve(t)
  PROVE  TurnoInv'
<1> DEFINE p == de[t]
<1>1. p \in Proceso /\ Nadie \notin Hilo BY ServidorAssumption
<1>2. /\ s_socket[p] = t /\ conexion[p] = "abierta"
      /\ Tail(vuelta[p]) = <<>> /\ vuelta[p] # <<>>
  BY <1>1, RespuestaDe, EnCamino DEF vuelve, TurnoInv
<1>3. vuelta' = [vuelta EXCEPT ![p] = <<>>] /\ s_socket' = [s_socket EXCEPT ![p] = Nadie]
  BY <1>2 DEF vuelve
<1>4. vuelta' \in [Proceso -> HastaUno(Respuesta)]
  BY <1>3 DEF TurnoInv, Tipos, HastaUno
<1>5. /\ s_socket' \in [Proceso -> Hilo \cup {Nadie}] /\ s_socket'[p] = Nadie /\ vuelta'[p] = <<>>
      /\ \A q \in Proceso : q # p => s_socket'[q] = s_socket[q] /\ vuelta'[q] = vuelta[q]
  BY <1>1, <1>3 DEF TurnoInv, Tipos
<1>6. UNCHANGED <<ida, args, pc, client_fd, pid, pedido>> BY DEF vuelve
<1>7. CASE Cierra(p) BY <1>1, <1>2, <1>4, <1>5, <1>6, <1>7, CierraTurno
<1>8. CASE estado' = [estado EXCEPT ![t] = "libre"] /\ UNCHANGED conexion
  <2>1. Tipos' BY <1>4, <1>5, <1>6, <1>8 DEF TurnoInv, Tipos
  <2>2. Conexiones' BY <1>6 DEF TurnoInv, Conexiones
  <2>3. ASSUME NEW q \in Proceso PROVE Turno(q)'
    <3>1. Turno(q) BY DEF TurnoInv
    <3>2. CASE q = p
      BY <1>2, <1>5, <1>6, <1>8, <3>1, <3>2 DEF Turno
    <3>3. CASE q # p
      BY <1>5, <1>6, <1>8, <3>1, <3>3 DEF Turno, Quien
    <3>4. QED BY <3>2, <3>3
  <2>4. Esperan'
    BY <1>1, <1>2, <1>5, <1>8, ServidorAssumption DEF TurnoInv, Tipos, Esperan
  <2>5. QED BY <2>1, <2>2, <2>3, <2>4 DEF TurnoInv
<1>9. QED BY <1>7, <1>8 DEF vuelve

LEMMA TerminaTurno ==
  ASSUME TurnoInv, NEW p \in Proceso, muse_close(p) \/ termina(p)
  PROVE  TurnoInv'
<1>1. CASE muse_close(p)
  <2>1. vuelta[p] = <<>> BY <1>1, SinPedido DEF muse_close
  <2>2. QED BY <1>1, <2>1, CierraTurno DEF muse_close, TurnoInv, Tipos
<1>2. CASE termina(p)
  <2>1. vuelta' \in [Proceso -> HastaUno(Respuesta)]
    BY <1>2 DEF termina, TurnoInv, Tipos, HastaUno
  <2>2. s_socket' \in [Proceso -> Hilo \cup {Nadie}] BY <1>2 DEF termina, TurnoInv, Tipos
  <2>3. QED BY <1>2, <2>1, <2>2, CierraTurno DEF termina, TurnoInv, Tipos
<1>3. QED BY <1>1, <1>2

LEMMA AcceptTurno ==
  ASSUME TurnoInv, "juntos" \notin Extremos, NEW p \in Proceso, accept(p)
  PROVE  TurnoInv'
<1>1. Tipos' BY DEF TurnoInv, Tipos, accept, clienteVars, Lugar
<1>2. Conexiones' BY DEF TurnoInv, Tipos, Conexiones, accept, Activo
<1>3. ASSUME NEW q \in Proceso PROVE Turno(q)'
  BY DEF TurnoInv, Tipos, Turno, accept, clienteVars, Quien, Activo
<1>4. Esperan' BY DEF TurnoInv, Esperan, accept, clienteVars
<1>5. QED BY <1>1, <1>2, <1>3, <1>4 DEF TurnoInv

LEMMA HandlerTurno ==
  ASSUME TurnoInv, NEW h \in Proceso, handler(h)
  PROVE  TurnoInv'
<1>1. Tipos' BY DEF TurnoInv, Tipos, handler, clienteVars, Lugar
<1>2. Conexiones' BY DEF TurnoInv, Tipos, Conexiones, handler, Activo
<1>3. ASSUME NEW q \in Proceso PROVE Turno(q)'
  BY DEF TurnoInv, Tipos, Turno, handler, clienteVars, Quien, Activo
<1>4. Esperan' BY DEF TurnoInv, Esperan, handler, clienteVars
<1>5. QED BY <1>1, <1>2, <1>3, <1>4 DEF TurnoInv

LEMMA PaloTurno ==
  ASSUME TurnoInv, NEW h \in Proceso, el_cliente_se_tomo_el_palo(h)
  PROVE  TurnoInv'
<1>1. client_fd[h] = h BY DEF TurnoInv, Conexiones, el_cliente_se_tomo_el_palo
<1>2. Tipos' BY DEF TurnoInv, Tipos, el_cliente_se_tomo_el_palo, clienteVars, Lugar
<1>3. Conexiones'
  BY DEF TurnoInv, Tipos, Conexiones, el_cliente_se_tomo_el_palo, Activo
<1>4. ASSUME NEW q \in Proceso PROVE Turno(q)'
  BY <1>1 DEF TurnoInv, Tipos, Turno, el_cliente_se_tomo_el_palo, clienteVars, Quien, Activo
<1>5. Esperan' BY DEF TurnoInv, Esperan, el_cliente_se_tomo_el_palo, clienteVars
<1>6. QED BY <1>2, <1>3, <1>4, <1>5 DEF TurnoInv

\* The request that a handler takes from its socket.
LEMMA Recibido ==
  ASSUME TurnoInv, NEW h \in Proceso, receive_packet(h)
  PROVE  /\ client_fd[h] = h /\ ida[h] # <<>> /\ Head(ida[h]) \in Mensaje
         /\ ida' = [ida EXCEPT ![h] = <<>>]
         /\ pedido' \in [Proceso -> Pedido \cup {Nadie}] /\ pedido'[h] \in Pedido
         /\ pedido'[h].hilo = Head(ida[h]).hilo /\ pedido'[h].llamada = Head(ida[h]).llamada
         /\ pedido'[h].paso = IF Head(ida[h]).llamada.tipo = "malloc" THEN "valida" ELSE "mapea"
         /\ \A q \in Proceso : q # h => pedido'[q] = pedido[q]
         /\ pc' = [pc EXCEPT ![h] = IF Head(ida[h]).llamada.tipo \in {"free", "get", "cpy"}
                                    THEN "busca" ELSE "espera"]
<1>1. client_fd[h] = h /\ pc[h] = "recibe" BY DEF TurnoInv, Conexiones, receive_packet
<1>2. ida[h] # <<>> BY <1>1 DEF receive_packet
<1>3. Head(ida[h]) \in Mensaje /\ Tail(ida[h]) = <<>> BY <1>2, EnCamino DEF TurnoInv
<1>4. ida' = [ida EXCEPT ![h] = <<>>] BY <1>1, <1>3 DEF receive_packet
<1> DEFINE r == [hilo |-> Head(ida[h]).hilo, llamada |-> Head(ida[h]).llamada, res |-> 0,
                 crecio |-> FALSE,
                 paso |-> IF Head(ida[h]).llamada.tipo = "malloc" THEN "valida" ELSE "mapea"]
<1>5. pedido' = [pedido EXCEPT ![h] = r] BY <1>1 DEF receive_packet
<1>6. r \in Pedido BY <1>3 DEF Mensaje, Pedido, Resultado, Seccion
<1>7. pc' = [pc EXCEPT ![h] = IF Head(ida[h]).llamada.tipo \in {"free", "get", "cpy"}
                              THEN "busca" ELSE "espera"]
  BY <1>1 DEF receive_packet
<1>8. QED BY <1>1, <1>2, <1>3, <1>4, <1>5, <1>6, <1>7 DEF TurnoInv, Tipos

LEMMA RecibeTurno ==
  ASSUME TurnoInv, NEW h \in Proceso, receive_packet(h)
  PROVE  TurnoInv'
<1>0. UNCHANGED <<conexion, vuelta, s_socket, estado, args, client_fd, pid>>
  BY DEF receive_packet
<1>1. /\ pc'[h] \in Activo /\ pc' \in [Proceso -> Lugar]
      /\ \A q \in Proceso : q # h => pc'[q] = pc[q]
  BY Recibido DEF TurnoInv, Tipos, Activo, Lugar
<1>2. ida' \in [Proceso -> HastaUno(Mensaje)] BY Recibido DEF TurnoInv, Tipos, HastaUno
<1>3. Tipos' BY <1>0, <1>1, <1>2, Recibido DEF TurnoInv, Tipos
<1>4. Conexiones' BY <1>0, <1>1, Recibido DEF TurnoInv, Conexiones, Activo
<1>5. ASSUME NEW q \in Proceso PROVE Turno(q)'
  <2>1. Turno(q) BY DEF TurnoInv
  <2>2. CASE q = h
    <3>1. ida'[h] = <<>> /\ Quien(h)' = h /\ vuelta[h] = <<>>
      BY <1>0, <2>1, <2>2, Recibido DEF TurnoInv, Tipos, Turno, Quien
    <3>2. conexion[h] # "no"
      BY <2>1, <2>2 DEF Turno, receive_packet
    <3>3. QED
      BY <1>0, <1>1, <2>1, <2>2, <3>1, <3>2, Recibido DEF Turno, Activo
  <2>3. CASE q # h
    <3>1. ida'[q] = ida[q] /\ pc'[q] = pc[q] /\ pedido'[q] = pedido[q]
      BY <1>1, <2>3, Recibido DEF TurnoInv, Tipos
    <3>2. QED BY <1>0, <2>1, <3>1 DEF Turno, Quien
  <2>4. QED BY <2>2, <2>3
<1>6. Esperan' BY <1>0 DEF TurnoInv, Esperan
<1>7. QED BY <1>3, <1>4, <1>5, <1>6 DEF TurnoInv

\* What a handler does when it answers.
LEMMA Respondido ==
  ASSUME TurnoInv, NEW h \in Proceso, message_handler(h)
  PROVE  /\ pc[h] \in Activo /\ client_fd[h] = h /\ conexion[h] # "no"
         /\ pedido[h] \in Pedido /\ Quien(h) = h
         /\ ida[h] = <<>> /\ pc' = [pc EXCEPT ![h] = "recibe"] /\ pid' = [pid EXCEPT ![h] = h]
         /\ pedido' = [pedido EXCEPT ![h] = Nadie]
         /\ vuelta' \in [Proceso -> HastaUno(Respuesta)]
         /\ \A q \in Proceso : q # h => vuelta'[q] = vuelta[q]
         /\ conexion[h] = "abierta" => Head(vuelta'[h]).hilo = s_socket[h]
         /\ conexion[h] # "abierta" => vuelta'[h] = <<>>
         /\ UNCHANGED <<conexion, ida, s_socket, estado, args, client_fd, memoriaVars>>
<1>1. pc[h] = "responde" /\ pc[h] \in Activo BY DEF message_handler, Activo
<1>2. Turno(h) /\ client_fd[h] = h BY <1>1 DEF TurnoInv, Conexiones
<1>3. /\ conexion[h] # "no" /\ ida[h] = <<>> /\ vuelta[h] = <<>>
      /\ pedido[h] \in Pedido /\ Quien(h) = h
  BY <1>1, <1>2 DEF Turno
<1> DEFINE r == [hilo |-> pedido[h].hilo, llamada |-> pedido[h].llamada, res |-> pedido[h].res]
<1>4. r \in Respuesta BY <1>3 DEF Pedido, Respuesta
<1>5. CASE conexion[h] = "abierta"
  <2>1. vuelta' = [vuelta EXCEPT ![h] = Append(@, r)]
    BY <1>2, <1>5 DEF message_handler
  <2>2. vuelta' = [vuelta EXCEPT ![h] = <<r>>] BY <1>3, <2>1, Unitaria
  <2>3. <<r>> \in HastaUno(Respuesta) /\ Head(<<r>>) = r BY <1>4 DEF HastaUno
  <2>4. vuelta' \in [Proceso -> HastaUno(Respuesta)] BY <2>2, <2>3 DEF TurnoInv, Tipos
  <2>5. vuelta'[h] = <<r>> BY <2>2 DEF TurnoInv, Tipos
  <2>6. pedido[h].hilo = s_socket[h] BY <1>1, <1>2, <1>5 DEF Turno
  <2>7. Head(vuelta'[h]).hilo = s_socket[h] BY <2>3, <2>5, <2>6
  <2>8. QED
    BY <1>1, <1>2, <1>3, <1>5, <2>2, <2>4, <2>7 DEF message_handler, TurnoInv, Tipos
<1>6. CASE conexion[h] # "abierta"
  BY <1>1, <1>2, <1>3, <1>6 DEF message_handler, TurnoInv, Tipos
<1>7. QED BY <1>5, <1>6

LEMMA RespondeTurno ==
  ASSUME TurnoInv, NEW h \in Proceso, message_handler(h)
  PROVE  TurnoInv'
<1>1. Tipos' BY Respondido DEF TurnoInv, Tipos, Lugar
<1>2. Conexiones' BY Respondido DEF TurnoInv, Tipos, Conexiones, Activo
<1>3. ASSUME NEW q \in Proceso PROVE Turno(q)'
  <2>1. Turno(q) BY DEF TurnoInv
  <2>2. CASE q = h
    <3>1. pc'[h] = "recibe" BY Respondido DEF TurnoInv, Tipos
    <3>2. QED BY <2>1, <2>2, <3>1, Respondido DEF Turno, Activo
  <2>3. CASE q # h
    <3>1. pc'[q] = pc[q] /\ pedido'[q] = pedido[q]
      BY <2>3, Respondido DEF TurnoInv, Tipos
    <3>2. QED BY <2>1, <2>3, <3>1, Respondido DEF Turno, Quien
  <2>4. QED BY <2>2, <2>3
<1>4. Esperan' BY Respondido DEF TurnoInv, Esperan
<1>5. QED BY <1>1, <1>2, <1>3, <1>4 DEF TurnoInv

LEMMA TurnoPaso ==
  ASSUME TurnoInv, "juntos" \notin Extremos, [Next]_vars
  PROVE  TurnoInv'
<1>1. CASE UNCHANGED vars
  BY <1>1 DEF TurnoInv, Tipos, Conexiones, Turno, Esperan, Quien, vars, clienteVars, memoriaVars
<1>2. ASSUME NEW p \in Proceso, muse_init(p) PROVE TurnoInv' BY <1>2, InitTurno
<1>3. ASSUME NEW p \in Proceso, muse_close(p) \/ termina(p) PROVE TurnoInv'
  BY <1>3, TerminaTurno
<1>4. ASSUME NEW t \in Hilo, NEW c \in Llamada, call(t, c) PROVE TurnoInv'
  BY <1>4, CallTurno
<1>5. ASSUME NEW t \in Hilo, vuelve(t) PROVE TurnoInv' BY <1>5, VuelveTurno
<1>6. ASSUME NEW p \in Proceso, accept(p) PROVE TurnoInv' BY <1>6, AcceptTurno
<1>7. ASSUME NEW h \in Proceso, Servidor(h) PROVE TurnoInv'
  <2>1. \/ handler(h) \/ receive_packet(h) \/ el_cliente_se_tomo_el_palo(h)
        \/ message_handler(h) \/ Interna(h)
    BY <1>7 DEF Servidor, Interna
  <2>2. QED
    BY <2>1, HandlerTurno, RecibeTurno, PaloTurno, RespondeTurno, InternaPaso, PasoTurno
<1>8. QED BY <1>1, <1>2, <1>3, <1>4, <1>5, <1>6, <1>7 DEF Next, Cliente

\* The answer that a thread reads from the socket of its process is that of its own
\* request, for any processes and threads, whatever they call and however they end, when no
\* connection is accepted before the thread of the last one has read its socket
\* (server_listen_connections shares args among them).
THEOREM RespuestaCorrecta ==
  ASSUME "juntos" \notin Extremos
  PROVE  Spec => RespuestaPropia
<1>1. Init => TurnoInv BY TurnoInicial
<1>2. TurnoInv /\ [Next]_vars => TurnoInv' BY TurnoPaso
<1>3. TurnoInv => (\A t \in Hilo : vuelve(t) => Head(vuelta[de[t]]).hilo = t)
  BY RespuestaDe DEF vuelve
<1>4. QED BY <1>1, <1>2, <1>3, PTL DEF Spec, RespuestaPropia

-----------------------------------------------------------------------------
(* The list of programs                                                    *)

\* What every step but those of a request leaves as it is, and what it may change.
Afuera ==
  /\ UNCHANGED <<memoriaVars, pedido>>
  /\ \A q \in Proceso :
       /\ pc'[q] = pc[q] \/ pc'[q] \notin Activo
       /\ ida'[q] = <<>> \/ ida'[q] = ida[q] \/ Valida(q, Head(ida'[q]).llamada)
       /\ pid'[q] \in {pid[q], Nadie}
       /\ perdidos'[q] # 0 => /\ conexion'[q] = "cerrada" /\ ida'[q] = <<>>
                              /\ pc'[q] \notin Activo
  /\ perdidos' \in [Proceso -> Nat]

ListaInv == TiposLista /\ (\A p \in Proceso : Programa(p))

LEMMA AfueraLista ==
  ASSUME ListaInv, Afuera
  PROVE  ListaInv'
<1>1. TiposLista' BY DEF ListaInv, TiposLista, Afuera, memoriaVars
<1>2. ASSUME NEW p \in Proceso PROVE Programa(p)'
  <2>1. Programa(p) BY DEF ListaInv
  <2>2. /\ pc'[p] = pc[p] \/ pc'[p] \notin Activo
        /\ ida'[p] = <<>> \/ ida'[p] = ida[p] \/ Valida(p, Head(ida'[p]).llamada)
        /\ pid'[p] \in {pid[p], Nadie}
        /\ perdidos'[p] # 0 => conexion'[p] = "cerrada" /\ ida'[p] = <<>> /\ pc'[p] \notin Activo
        /\ \A q \in Proceso : pc'[q] = "agrega" => pc[q] = "agrega"
    BY DEF Afuera, Activo
  <2>3. UNCHANGED <<pedido, visto, program_list, segmentos>> BY DEF Afuera, memoriaVars
  <2>4. QED BY <2>1, <2>2, <2>3 DEF Programa, Valida, Activo
<1>3. QED BY <1>1, <1>2 DEF ListaInv

LEMMA CallAfuera ==
  ASSUME TurnoInv, ListaInv, Extremos \subseteq {"get_malo"}, NEW t \in Hilo, NEW c \in Llamada, call(t, c)
  PROVE  Afuera
<1> DEFINE p == de[t]
           m == [hilo |-> t, llamada |-> c]
<1>1. p \in Proceso BY ServidorAssumption
<1>2. ida[p] = <<>> BY <1>1, SinPedido DEF call
<1>3. ida' = [ida EXCEPT ![p] = <<m>>] BY <1>2, Unitaria DEF call
<1>4. ida'[p] = <<m>> /\ Head(ida'[p]).llamada = c
  BY <1>1, <1>3, Unitaria DEF TurnoInv, Tipos
<1>5. Valida(p, c) BY DEF call, Procede, Valida
<1>6. perdidos[p] = 0 BY <1>1 DEF call, ListaInv, Programa
<1>7. ASSUME NEW q \in Proceso
      PROVE  /\ ida'[q] = ida[q] \/ Valida(q, Head(ida'[q]).llamada)
             /\ perdidos'[q] # 0 => conexion'[q] = "cerrada" /\ ida'[q] = <<>> /\ pc'[q] \notin Activo
  <2>1. CASE q = p BY <1>4, <1>5, <1>6, <2>1 DEF call
  <2>2. CASE q # p
    <3>1. ida'[q] = ida[q] BY <1>3, <2>2 DEF TurnoInv, Tipos
    <3>2. QED BY <3>1 DEF call, ListaInv, Programa
  <2>3. QED BY <2>1, <2>2
<1>8. QED BY <1>7 DEF Afuera, call, ListaInv, TiposLista

LEMMA ConexionAfuera ==
  ASSUME TurnoInv, ListaInv, NEW p \in Proceso,
         \/ muse_init(p) \/ muse_close(p) \/ termina(p) \/ accept(p) \/ handler(p)
         \/ el_cliente_se_tomo_el_palo(p)
  PROVE  Afuera
<1>1. CASE muse_init(p)
  BY <1>1 DEF muse_init, Afuera, TurnoInv, Tipos, ListaInv, TiposLista, Programa, Activo
<1>2. CASE muse_close(p) \/ termina(p)
  <2>1. perdidos[p] = 0 BY <1>2 DEF muse_close, termina, ListaInv, Programa
  <2>2. QED
    BY <1>2, <2>1 DEF muse_close, termina, Cierra, Afuera, TurnoInv, Tipos, ListaInv,
                      TiposLista, Programa
<1>3. CASE accept(p)
  BY <1>3 DEF accept, Afuera, clienteVars, TurnoInv, Tipos, ListaInv, TiposLista, Programa, Activo
<1>4. CASE handler(p)
  BY <1>4 DEF handler, Afuera, clienteVars, TurnoInv, Tipos, ListaInv, TiposLista, Programa, Activo
<1>5. CASE el_cliente_se_tomo_el_palo(p)
  BY <1>5 DEF el_cliente_se_tomo_el_palo, Afuera, clienteVars, TurnoInv, Tipos, ListaInv,
              TiposLista, Programa, Activo
<1>6. QED BY <1>1, <1>2, <1>3, <1>4, <1>5

LEMMA VuelveAfuera ==
  ASSUME TurnoInv, ListaInv, NEW t \in Hilo, vuelve(t)
  PROVE  Afuera
<1>1. de[t] \in Proceso /\ conexion[de[t]] = "abierta"
  BY RespuestaDe, ServidorAssumption DEF vuelve
<1>2. perdidos[de[t]] = 0 BY <1>1 DEF ListaInv, Programa
<1>3. ASSUME NEW q \in Proceso PROVE perdidos[q] # 0 => conexion'[q] = "cerrada"
  <2>1. perdidos[q] # 0 => conexion[q] = "cerrada" BY DEF ListaInv, Programa
  <2>2. QED BY <1>1, <1>2, <2>1 DEF vuelve, Cierra, TurnoInv, Tipos
<1>4. QED BY <1>3 DEF vuelve, Afuera, ListaInv, TiposLista, Programa

LEMMA RecibeLista ==
  ASSUME TurnoInv, ListaInv, NEW h \in Proceso, receive_packet(h)
  PROVE  ListaInv'
<1>1. UNCHANGED <<conexion, perdidos, pid, visto, program_list, segmentos>>
  BY DEF receive_packet, memoriaVars
<1>2. TiposLista' BY <1>1 DEF ListaInv, TiposLista
<1>3. /\ pc'[h] = IF Head(ida[h]).llamada.tipo \in {"free", "get", "cpy"} THEN "busca" ELSE "espera"
      /\ \A q \in Proceso : q # h => pc'[q] = pc[q] /\ ida'[q] = ida[q] /\ pedido'[q] = pedido[q]
      /\ ida'[h] = <<>>
  BY Recibido DEF TurnoInv, Tipos
<1>4. ASSUME NEW q \in Proceso PROVE Programa(q)'
  <2>1. Programa(q) BY DEF ListaInv
  <2>2. \A r \in Proceso : pc'[r] = "agrega" => pc[r] = "agrega" BY <1>3
  <2>3. CASE q = h
    <3>1. Valida(h, pedido'[h].llamada)
      BY <2>1, <2>3, Recibido DEF Programa
    <3>2. perdidos[h] = 0 BY <2>1, <2>3, Recibido DEF Programa
    <3>3. QED
      BY <1>1, <1>3, <2>1, <2>3, <3>1, <3>2, Recibido DEF Programa, Valida
  <2>4. CASE q # h
    BY <1>1, <1>3, <2>1, <2>2, <2>4 DEF Programa, Valida
  <2>5. QED BY <2>3, <2>4
<1>5. QED BY <1>2, <1>4 DEF ListaInv

\* The answer to a closed connection is the first.
LEMMA RespondeLista ==
  ASSUME TurnoInv, ListaInv, vivo, NEW h \in Proceso, message_handler(h)
  PROVE  ListaInv' /\ vivo'
<1>1. pc[h] = "responde" /\ h \in program_list /\ perdidos[h] = 0
  BY Respondido DEF message_handler, ListaInv, Programa
<1>2. vivo' BY <1>1, Respondido DEF message_handler
<1>3. UNCHANGED <<conexion, ida, visto, program_list, segmentos>>
  BY Respondido DEF memoriaVars
<1>4. /\ pc'[h] = "recibe" /\ pid'[h] = h
      /\ \A q \in Proceso : q # h => pc'[q] = pc[q] /\ pid'[q] = pid[q] /\ pedido'[q] = pedido[q]
  BY Respondido DEF TurnoInv, Tipos
<1>5. /\ perdidos' \in [Proceso -> Nat]
      /\ \A q \in Proceso : q # h => perdidos'[q] = perdidos[q]
      /\ perdidos'[h] # 0 => conexion[h] # "abierta"
  <2>1. client_fd[h] = h /\ perdidos \in [Proceso -> Nat]
    BY Respondido DEF ListaInv, TiposLista
  <2>2. \/ UNCHANGED perdidos
        \/ conexion[h] # "abierta" /\ perdidos' = [perdidos EXCEPT ![h] = @ + 1]
    BY <2>1 DEF message_handler
  <2>3. QED BY <1>1, <2>1, <2>2
<1>6. conexion[h] \in {"abierta", "cerrada"} /\ ida[h] = <<>>
  BY Respondido DEF TurnoInv, Tipos
<1>7. TiposLista' BY <1>3, <1>5 DEF ListaInv, TiposLista
<1>8. ASSUME NEW q \in Proceso PROVE Programa(q)'
  <2>1. Programa(q) BY DEF ListaInv
  <2>2. \A r \in Proceso : pc'[r] = "agrega" => pc[r] = "agrega" BY <1>4
  <2>3. CASE q = h
    BY <1>1, <1>3, <1>4, <1>5, <1>6, <2>1, <2>3 DEF Programa, Activo
  <2>4. CASE q # h
    BY <1>3, <1>4, <1>5, <2>1, <2>2, <2>4 DEF Programa, Valida
  <2>5. QED BY <2>3, <2>4
<1>9. QED BY <1>2, <1>7, <1>8 DEF ListaInv

\* What a step of the request of h does to the list.
Bien(h) ==
  /\ TiposLista'
  /\ UNCHANGED perdidos /\ program_list \subseteq program_list'
  /\ \A q \in Proceso : q # h =>
       /\ segmentos'[q] = segmentos[q] /\ visto'[q] = visto[q]
       /\ program_list' # program_list \/ pc'[h] = "agrega" => pc[q] # "agrega"
  /\ pc'[h] = "busca" => Valida(h, pedido[h].llamada)'
  /\ pc'[h] = "agrega" => /\ pedido[h].llamada.tipo # "free"
                          /\ visto'[h] = program_list' /\ h \notin program_list'
  /\ pc'[h] \in {"espera", "dentro"} =>
       /\ pedido'[h].paso \in {"valida", "ubica", "agranda", "nuevo"} =>
            pedido[h].llamada.tipo = "malloc"
       /\ pedido'[h].paso \notin {"valida", "mapea"} => h \in program_list'
  /\ pc'[h] = "responde" => h \in program_list'
  /\ segmentos'[h] # {} => h \in program_list'

LEMMA BienLista ==
  ASSUME TurnoInv, ListaInv, NEW h \in Proceso, Paso(h), Bien(h)
  PROVE  ListaInv'
<1>1. TiposLista' BY DEF Bien
<1>2. /\ pc[h] \in Activo /\ pc'[h] \in Activo
      /\ \A q \in Proceso : q # h => pc'[q] = pc[q] /\ pedido'[q] = pedido[q]
      /\ UNCHANGED <<conexion, ida, pid, perdidos>>
      /\ pedido'[h].llamada = pedido[h].llamada
  BY DEF Paso, Sigue, TurnoInv, Tipos, clienteVars
<1>3. ASSUME NEW q \in Proceso PROVE Programa(q)'
  <2>1. Programa(q) BY DEF ListaInv
  <2>2. CASE q = h
    <3>1. ida[h] = <<>> /\ perdidos[h] = 0
      BY <1>2, <2>1, <2>2 DEF TurnoInv, Turno, Programa
    <3>2. \A r \in Proceso : pc'[h] = "agrega" /\ pc'[r] = "agrega" => r = h
      BY <1>2 DEF Bien
    <3>3. QED BY <1>2, <2>1, <2>2, <3>1, <3>2 DEF Bien, Programa
  <2>3. CASE q # h
    <3>1. /\ segmentos'[q] = segmentos[q] /\ visto'[q] = visto[q]
          /\ program_list \subseteq program_list'
          /\ program_list' # program_list \/ pc'[h] = "agrega" => pc[q] # "agrega"
      BY <2>3 DEF Bien
    <3>2. \A r \in Proceso : pc[q] = "agrega" /\ pc'[r] = "agrega" => r = q
      BY <1>2, <2>1, <2>3, <3>1 DEF Programa
    <3>3. QED BY <1>2, <2>1, <2>3, <3>1, <3>2 DEF Programa, Valida
  <2>4. QED BY <2>2, <2>3
<1>4. QED BY <1>1, <1>3 DEF ListaInv

\* The state of the request of h, as the two invariants have it.
LEMMA EnCurso ==
  ASSUME TurnoInv, ListaInv, NEW h \in Proceso, pc[h] \in Activo
  PROVE  /\ Tipos /\ TiposLista /\ Programa(h)
         /\ pedido[h] \in Pedido /\ Quien(h) = h /\ pedido[h].llamada.en # "cero"
         /\ \A q \in Proceso : q # h => ~(pc[q] = "agrega" /\ pc[h] = "agrega")
BY DEF TurnoInv, ListaInv, Turno, Programa

LEMMA BuscaBien ==
  ASSUME TurnoInv, ListaInv, NEW h \in Proceso, pc[h] \in {"busca", "agrega"},
         TrasBuscar(h), h \in program_list'
  PROVE  /\ pc'[h] \in {"espera", "responde"}
         /\ pc'[h] = "espera" =>
              /\ pedido'[h].paso \in {"valida", "ubica", "agranda", "nuevo"} =>
                   pedido[h].llamada.tipo = "malloc"
              /\ pedido'[h].paso \notin {"valida", "mapea"} => h \in program_list'
<1>1. Tipos /\ pedido[h] \in Pedido BY EnCurso DEF Activo
<1>2. -3 \in Resultado /\ -4 \in Resultado BY DEF Resultado
<1>3. \/ Tipo(h) = "malloc" /\ Espera(h, "ubica")
      \/ \E s \in {"libera", "revisa", "copia"} : Espera(h, s)
      \/ Contesta(h, -3) \/ Contesta(h, -4)
  BY DEF TrasBuscar
<1>4. CASE Tipo(h) = "malloc" /\ Espera(h, "ubica")
  <2>1. pc' = [pc EXCEPT ![h] = "espera"]
    BY <1>1, <1>4, SigueEspera DEF Seccion
  <2>2. QED BY <1>1, <1>4, <2>1 DEF Tipos, Tipo
<1>5. CASE \E s \in {"libera", "revisa", "copia"} : Espera(h, s)
  <2>1. PICK s \in {"libera", "revisa", "copia"} : Espera(h, s) BY <1>5
  <2>2. pc' = [pc EXCEPT ![h] = "espera"] /\ pedido'[h].paso = s
    BY <1>1, <2>1, SigueEspera DEF Seccion
  <2>3. QED BY <1>1, <2>2 DEF Tipos
<1>6. CASE Contesta(h, -3) \/ Contesta(h, -4)
  <2>1. pc' = [pc EXCEPT ![h] = "responde"] BY <1>1, <1>2, <1>6, SigueContesta
  <2>2. QED BY <1>1, <2>1 DEF Tipos
<1>7. QED BY <1>3, <1>4, <1>5, <1>6

LEMMA SearchBien ==
  ASSUME TurnoInv, ListaInv, vivo, Extremos \subseteq {"get_malo"}, NEW h \in Proceso, search_program(h)
  PROVE  Bien(h) /\ vivo'
<1>1. pc[h] = "busca" /\ pc[h] \in Activo BY DEF search_program, Activo
<1>2. Programa(h) /\ Quien(h) = h /\ TiposLista BY <1>1, EnCurso
<1>3. Tipo(h) = "free" => Existe(h)
  BY <1>1, <1>2 DEF Programa, Valida, Tipo, Existe
<1>4. h \in program_list
  <2>1. CASE Tipo(h) = "free" BY <1>2, <1>3, <2>1 DEF Programa, Existe
  <2>2. CASE Tipo(h) # "free" BY <1>2, <2>2 DEF search_program
  <2>3. QED BY <2>1, <2>2
<1>5. TrasBuscar(h) /\ vivo' BY <1>2, <1>3, <1>4 DEF search_program
<1>6. UNCHANGED <<visto, program_list, segmentos, perdidos>>
  BY DEF search_program, clienteVars, memoriaVars
<1>7. /\ pc'[h] \in {"espera", "responde"}
      /\ pc'[h] = "espera" =>
              /\ pedido'[h].paso \in {"valida", "ubica", "agranda", "nuevo"} =>
                   pedido[h].llamada.tipo = "malloc"
              /\ pedido'[h].paso \notin {"valida", "mapea"} => h \in program_list'
  BY <1>1, <1>4, <1>5, <1>6, BuscaBien
<1>8. QED BY <1>2, <1>4, <1>5, <1>6, <1>7 DEF Bien, TiposLista

LEMMA FallaBien ==
  ASSUME TurnoInv, ListaInv, vivo, Extremos \subseteq {"get_malo"}, NEW h \in Proceso, search_program_falla(h)
  PROVE  Bien(h) /\ vivo'
<1>1. pc[h] = "busca" /\ pc[h] \in Activo BY DEF search_program_falla, Activo
<1>2. Programa(h) /\ Quien(h) = h /\ TiposLista /\ Tipos BY <1>1, EnCurso
<1>3. h \notin program_list /\ Tipo(h) # "free" BY <1>2 DEF search_program_falla
<1>4. pedido[h].llamada.tipo # "free" BY <1>3 DEF Tipo
<1>5. /\ UNCHANGED <<vivo, perdidos, program_list, segmentos>>
      /\ visto' = [visto EXCEPT ![h] = program_list] /\ pc' = [pc EXCEPT ![h] = "agrega"]
      /\ \A g \in Proceso : pc[g] # "agrega"
  BY DEF search_program_falla, clienteVars
<1>6. QED BY <1>2, <1>3, <1>4, <1>5 DEF Bien, TiposLista, Tipos, Programa

LEMMA CreaBien ==
  ASSUME TurnoInv, ListaInv, vivo, Extremos \subseteq {"get_malo"}, NEW h \in Proceso, crea_programa(h)
  PROVE  Bien(h) /\ vivo'
<1>1. pc[h] = "agrega" /\ pc[h] \in Activo BY DEF crea_programa, Activo
<1>2. /\ Programa(h) /\ Quien(h) = h /\ TiposLista /\ Tipos
      /\ \A q \in Proceso : q # h => pc[q] # "agrega"
  BY <1>1, EnCurso
<1>3. visto[h] = program_list BY <1>1, <1>2 DEF Programa
<1>4. program_list' = program_list \cup {h} BY <1>2, <1>3 DEF crea_programa, list_add
<1>5. \A q \in Proceso : segmentos'[q] = segmentos[q]
  BY <1>3 DEF crea_programa, ListaInv, Programa
<1>6. segmentos' \in [Proceso -> SUBSET {"heap", "mapa"}]
  BY <1>2 DEF crea_programa, TiposLista
<1>7. /\ UNCHANGED <<vivo, perdidos>> /\ visto' = [visto EXCEPT ![h] = {}]
      /\ TrasBuscar(h)
  BY DEF crea_programa, clienteVars
<1>8. /\ pc'[h] \in {"espera", "responde"}
      /\ pc'[h] = "espera" =>
              /\ pedido'[h].paso \in {"valida", "ubica", "agranda", "nuevo"} =>
                   pedido[h].llamada.tipo = "malloc"
              /\ pedido'[h].paso \notin {"valida", "mapea"} => h \in program_list'
  BY <1>1, <1>4, <1>7, BuscaBien
<1>9. QED BY <1>2, <1>4, <1>5, <1>6, <1>7, <1>8 DEF Bien, TiposLista

LEMMA LockBien ==
  ASSUME TurnoInv, ListaInv, vivo, NEW h \in Proceso, pthread_mutex_lock(h)
  PROVE  Bien(h) /\ vivo'
<1>1. pc[h] = "espera" /\ pc[h] \in Activo BY DEF pthread_mutex_lock, Activo
<1>2. Programa(h) /\ TiposLista /\ Tipos BY <1>1, EnCurso
<1>3. /\ UNCHANGED <<vivo, perdidos, pedido, visto, program_list, segmentos>>
      /\ pc' = [pc EXCEPT ![h] = "dentro"]
  BY DEF pthread_mutex_lock, clienteVars, memoriaVars
<1>4. QED BY <1>1, <1>2, <1>3 DEF Bien, TiposLista, Tipos, Programa

\* What is left to say of a step that begins in a critical section and leaves the list
\* as it is.
LEMMA DentroBien ==
  ASSUME TurnoInv, ListaInv, NEW h \in Proceso, pc[h] = "dentro",
         NEW l \in {"busca", "espera", "responde"}, pc' = [pc EXCEPT ![h] = l],
         UNCHANGED <<perdidos, visto, program_list>>,
         segmentos' \in [Proceso -> SUBSET {"heap", "mapa"}],
         \A q \in Proceso : q # h => segmentos'[q] = segmentos[q],
         segmentos'[h] # {} => h \in program_list,
         l = "busca" => Valida(h, pedido[h].llamada)',
         l = "responde" => h \in program_list,
         l = "espera" =>
           /\ pedido'[h].paso \in {"valida", "ubica", "agranda", "nuevo"} =>
                pedido[h].llamada.tipo = "malloc"
           /\ pedido'[h].paso \notin {"valida", "mapea"} => h \in program_list
  PROVE  Bien(h)
<1>1. Tipos /\ TiposLista BY DEF TurnoInv, ListaInv
<1>2. pc'[h] = l BY <1>1 DEF Tipos
<1>3. TiposLista' BY <1>1 DEF TiposLista
<1>4. QED BY <1>1, <1>2, <1>3 DEF Bien

\* The same of the actions that change no segment.
LEMMA SaleBien ==
  ASSUME TurnoInv, ListaInv, NEW h \in Proceso,
         NEW s \in {"ubica", "agranda", "nuevo", "libera", "revisa", "copia"},
         Esta(h, s), Sale(h, s), UNCHANGED <<program_list, segmentos>>,
         \/ \E r \in Resultado : Contesta(h, r)
         \/ s = "revisa" /\ Espera(h, "copia")
         \/ s = "ubica" /\ Espera(h, "agranda")
         \/ s \in {"agranda", "nuevo"} /\ Recurre(h)
  PROVE  Bien(h) /\ UNCHANGED vivo
<1>1. pc[h] = "dentro" /\ pedido[h].paso = s /\ pc[h] \in Activo BY DEF Esta, Activo
<1>2. Tipos /\ TiposLista /\ Programa(h) /\ pedido[h] \in Pedido BY <1>1, EnCurso
<1>3. /\ h \in program_list
      /\ s \in {"ubica", "agranda", "nuevo"} => pedido[h].llamada.tipo = "malloc"
  BY <1>1, <1>2 DEF Programa
<1>4. UNCHANGED <<vivo, perdidos, visto>> BY DEF Sale, clienteVars
<1>5. segmentos' \in [Proceso -> SUBSET {"heap", "mapa"}] BY <1>2 DEF TiposLista
<1>6. CASE \E r \in Resultado : Contesta(h, r)
  <2>1. pc' = [pc EXCEPT ![h] = "responde"] BY <1>2, <1>6, SigueContesta
  <2>2. QED BY <1>1, <1>3, <1>4, <1>5, <2>1, DentroBien
<1>7. CASE s = "revisa" /\ Espera(h, "copia")
  <2>1. pc' = [pc EXCEPT ![h] = "espera"] /\ pedido'[h].paso = "copia"
    BY <1>2, <1>7, SigueEspera DEF Seccion
  <2>2. QED BY <1>1, <1>3, <1>4, <1>5, <2>1, DentroBien
<1>8. CASE s = "ubica" /\ Espera(h, "agranda")
  <2>1. pc' = [pc EXCEPT ![h] = "espera"] /\ pedido'[h].paso = "agranda"
    BY <1>2, <1>8, SigueEspera DEF Seccion
  <2>2. QED BY <1>1, <1>3, <1>4, <1>5, <1>8, <2>1, DentroBien
<1>9. CASE s \in {"agranda", "nuevo"} /\ Recurre(h)
  <2>1. pc' = [pc EXCEPT ![h] = "espera"] /\ pedido'[h].paso = "valida"
    BY <1>2, <1>9, SigueRecurre
  <2>2. QED BY <1>1, <1>3, <1>4, <1>5, <1>9, <2>1, DentroBien
<1>10. QED BY <1>4, <1>6, <1>7, <1>8, <1>9

LEMMA ValidaBien ==
  ASSUME TurnoInv, ListaInv, vivo, Extremos \subseteq {"get_malo"}, NEW h \in Proceso, malloc_valida(h)
  PROVE  Bien(h) /\ vivo'
<1>1. pc[h] = "dentro" /\ pedido[h].paso = "valida" /\ pc[h] \in Activo
  BY DEF malloc_valida, Esta, Activo
<1>2. /\ Tipos /\ TiposLista /\ Programa(h) /\ pedido[h] \in Pedido /\ Quien(h) = h
      /\ pedido[h].llamada.en # "cero"
  BY <1>1, EnCurso
<1>3. pedido[h].llamada.tipo = "malloc" BY <1>1, <1>2 DEF Programa
<1>4. UNCHANGED <<vivo, perdidos, visto, program_list, segmentos>>
  BY DEF malloc_valida, clienteVars, memoriaVars
<1>5. /\ segmentos' \in [Proceso -> SUBSET {"heap", "mapa"}]
      /\ segmentos'[h] # {} => h \in program_list
  BY <1>2, <1>4 DEF TiposLista, Programa
<1>6. \/ pc' = [pc EXCEPT ![h] = "busca"] /\ UNCHANGED pedido
      \/ h \in program_list /\ Contesta(h, -1)
  BY <1>2 DEF malloc_valida
<1>7. CASE pc' = [pc EXCEPT ![h] = "busca"] /\ UNCHANGED pedido
  <2>1. Valida(h, pedido[h].llamada)' BY <1>2, <1>3, <1>7 DEF Valida
  <2>2. QED BY <1>1, <1>4, <1>5, <1>7, <2>1, DentroBien
<1>8. CASE h \in program_list /\ Contesta(h, -1)
  <2>1. -1 \in Resultado BY DEF Resultado
  <2>2. pc' = [pc EXCEPT ![h] = "responde"] BY <1>2, <1>8, <2>1, SigueContesta
  <2>3. QED BY <1>1, <1>4, <1>5, <1>8, <2>2, DentroBien
<1>9. QED BY <1>4, <1>6, <1>7, <1>8

\* The new segment is added before the section that fills it.
LEMMA UbicaBien ==
  ASSUME TurnoInv, ListaInv, vivo, "reloj_suelto" \notin Extremos,
         NEW h \in Proceso, malloc_ubica(h)
  PROVE  Bien(h) /\ vivo'
<1>1. pc[h] = "dentro" /\ pedido[h].paso = "ubica" /\ pc[h] \in Activo
  BY DEF malloc_ubica, Esta, Activo
<1>2. Tipos /\ TiposLista /\ Programa(h) /\ pedido[h] \in Pedido /\ Quien(h) = h
  BY <1>1, EnCurso
<1>3. h \in program_list /\ pedido[h].llamada.tipo = "malloc" BY <1>1, <1>2 DEF Programa
<1>4. Esta(h, "ubica") /\ Sale(h, "ubica") /\ UNCHANGED program_list
  BY DEF malloc_ubica, Cae
<1>5. UNCHANGED <<vivo, perdidos, visto>> BY <1>4 DEF Sale, clienteVars
<1>6. \/ UNCHANGED segmentos /\ (Contesta(h, 0) \/ Espera(h, "agranda"))
      \/ Espera(h, "nuevo") /\ segmentos' = [segmentos EXCEPT ![h] = @ \cup {"heap"}]
  BY <1>2 DEF malloc_ubica, Cae
<1>7. CASE UNCHANGED segmentos /\ (Contesta(h, 0) \/ Espera(h, "agranda"))
  <2>1. 0 \in Resultado BY DEF Resultado
  <2>2. QED BY <1>4, <1>5, <1>7, <2>1, SaleBien
<1>8. CASE Espera(h, "nuevo") /\ segmentos' = [segmentos EXCEPT ![h] = @ \cup {"heap"}]
  <2>1. /\ segmentos' \in [Proceso -> SUBSET {"heap", "mapa"}]
        /\ \A q \in Proceso : q # h => segmentos'[q] = segmentos[q]
    BY <1>2, <1>8 DEF TiposLista
  <2>2. pc' = [pc EXCEPT ![h] = "espera"] /\ pedido'[h].paso = "nuevo"
    BY <1>2, <1>8, SigueEspera DEF Seccion
  <2>3. QED BY <1>1, <1>3, <1>4, <1>5, <2>1, <2>2, DentroBien
<1>9. QED BY <1>6, <1>7, <1>8

LEMMA MapeaBien ==
  ASSUME TurnoInv, ListaInv, vivo, Extremos \subseteq {"get_malo"}, NEW h \in Proceso, mapea(h)
  PROVE  Bien(h) /\ vivo'
<1>0. ~Cae(h, "doble_destroy") BY DEF Cae
<1>1. pc[h] = "dentro" /\ pc[h] \in Activo BY DEF mapea, Esta, Activo
<1>2. Tipos /\ TiposLista /\ pedido[h] \in Pedido /\ Quien(h) = h BY <1>1, EnCurso
<1>3. UNCHANGED <<vivo, perdidos, visto>>
  BY <1>0 DEF mapea, Sale, clienteVars
<1>4. program_list' = program_list \cup {h}
  BY <1>0, <1>2 DEF mapea, agrega_si_falta, list_add
<1>5. program_list' # program_list => \A q \in Proceso : pc[q] # "agrega"
  BY <1>2, <1>4 DEF mapea
<1>6. pc' = [pc EXCEPT ![h] = "responde"]
  <2>1. Contesta(h, 0) \/ Contesta(h, -1) \/ Contesta(h, -2) BY <1>0 DEF mapea
  <2>2. 0 \in Resultado /\ -1 \in Resultado /\ -2 \in Resultado BY DEF Resultado
  <2>3. QED BY <1>2, <2>1, <2>2, SigueContesta
<1>7. /\ segmentos' \in [Proceso -> SUBSET {"heap", "mapa"}]
      /\ \A q \in Proceso : q # h => segmentos'[q] = segmentos[q]
  <2>1. \/ segmentos' = segmentos
        \/ segmentos' = [segmentos EXCEPT ![h] = segmentos[h] \cup {"mapa"}]
        \/ segmentos' = [segmentos EXCEPT ![h] = segmentos[h] \ {"mapa"}]
    BY <1>0, <1>2 DEF mapea
  <2>2. QED BY <1>2, <2>1 DEF TiposLista
<1>8. TiposLista' BY <1>2, <1>3, <1>4, <1>7 DEF TiposLista
<1>9. pc'[h] = "responde" BY <1>2, <1>6 DEF Tipos
<1>10. QED BY <1>3, <1>4, <1>5, <1>7, <1>8, <1>9 DEF Bien

LEMMA InternaBien ==
  ASSUME TurnoInv, ListaInv, vivo, Extremos \subseteq {"get_malo"}, NEW h \in Proceso, Interna(h)
  PROVE  Bien(h) /\ vivo'
<1>1. CASE search_program(h) BY <1>1, SearchBien
<1>2. CASE search_program_falla(h) BY <1>2, FallaBien
<1>3. CASE crea_programa(h) BY <1>3, CreaBien
<1>4. CASE pthread_mutex_lock(h) BY <1>4, LockBien
<1>5. CASE malloc_valida(h) BY <1>5, ValidaBien
<1>6. CASE malloc_ubica(h) BY <1>6, UbicaBien
<1>7. CASE mapea(h) BY <1>7, MapeaBien
<1>8. 0 \in Resultado /\ -1 \in Resultado /\ -2 \in Resultado BY DEF Resultado
<1>9. \A e : Cae(h, e) => e = "get_malo" BY DEF Cae
<1>10. CASE malloc_agranda(h) BY <1>9, <1>10, SaleBien DEF malloc_agranda
<1>11. CASE malloc_nuevo(h) BY <1>9, <1>11, SaleBien DEF malloc_nuevo
<1>12. CASE memory_free(h) BY <1>8, <1>9, <1>12, SaleBien DEF memory_free
<1>13. CASE revisa_mapa(h) BY <1>8, <1>13, SaleBien DEF revisa_mapa
<1>14. CASE copia(h) BY <1>8, <1>9, <1>14, SaleBien DEF copia
<1>15. QED
  BY <1>1, <1>2, <1>3, <1>4, <1>5, <1>6, <1>7, <1>10, <1>11, <1>12, <1>13, <1>14 DEF Interna

-----------------------------------------------------------------------------
(* The server lives                                                        *)

LEMMA IInvInicial ==
  ASSUME Init
  PROVE  IInv
<1>1. TiposLista BY DEF Init, TiposLista
<1>2. \A p \in Proceso : Programa(p)
  BY DEF Init, Programa, Activo
<1>3. ServidorVive BY DEF Init, ServidorVive
<1>4. QED BY <1>1, <1>2, <1>3, TurnoInicial DEF IInv

\* The program of the last request is in the list when its connection ends.
LEMMA PaloVive ==
  ASSUME ListaInv, NEW h \in Proceso, el_cliente_se_tomo_el_palo(h)
  PROVE  vivo'
BY DEF el_cliente_se_tomo_el_palo, ListaInv, Programa

LEMMA IInvPaso ==
  ASSUME IInv, Extremos \subseteq {"get_malo"}, [Next]_vars
  PROVE  IInv'
<1>1. TurnoInv /\ ListaInv /\ vivo BY DEF IInv, ListaInv, ServidorVive
<1>2. TurnoInv' BY <1>1, TurnoPaso
<1>3. CASE UNCHANGED vars
  <2>1. UNCHANGED <<vivo, conexion, ida, pc, pid, pedido, perdidos, visto, program_list,
                    segmentos>>
    BY <1>3 DEF vars, clienteVars, memoriaVars
  <2>2. ASSUME NEW p \in Proceso PROVE Programa(p)'
    BY <1>1, <2>1 DEF ListaInv, Programa, Valida
  <2>3. (TiposLista /\ ServidorVive)'
    BY <1>1, <2>1 DEF ListaInv, TiposLista, ServidorVive
  <2>4. QED BY <1>2, <2>2, <2>3 DEF IInv
<1>4. ASSUME NEW t \in Hilo, NEW c \in Llamada, call(t, c) PROVE ListaInv' /\ vivo'
  BY <1>1, <1>4, CallAfuera, AfueraLista DEF call
<1>5. ASSUME NEW t \in Hilo, vuelve(t) PROVE ListaInv' /\ vivo'
  BY <1>1, <1>5, VuelveAfuera, AfueraLista DEF vuelve
<1>6. ASSUME NEW p \in Proceso,
             \/ muse_init(p) \/ muse_close(p) \/ termina(p) \/ accept(p) \/ handler(p)
             \/ el_cliente_se_tomo_el_palo(p)
      PROVE  ListaInv' /\ vivo'
  <2>1. ListaInv' BY <1>1, <1>6, ConexionAfuera, AfueraLista
  <2>2. vivo'
    BY <1>1, <1>6, PaloVive DEF muse_init, muse_close, termina, accept, handler
  <2>3. QED BY <2>1, <2>2
<1>7. ASSUME NEW h \in Proceso, receive_packet(h) PROVE ListaInv' /\ vivo'
  BY <1>1, <1>7, RecibeLista DEF receive_packet
<1>8. ASSUME NEW h \in Proceso, message_handler(h) PROVE ListaInv' /\ vivo'
  BY <1>1, <1>8, RespondeLista
<1>9. ASSUME NEW h \in Proceso, Interna(h) PROVE ListaInv' /\ vivo'
  BY <1>1, <1>9, InternaPaso, InternaBien, BienLista
<1>10. CASE Next
  <2>1. ListaInv' /\ vivo'
    BY <1>4, <1>5, <1>6, <1>7, <1>8, <1>9, <1>10 DEF Next, Cliente, Servidor, Interna
  <2>2. QED BY <1>2, <2>1 DEF IInv, ListaInv, ServidorVive
<1>11. QED BY <1>3, <1>2, <1>10 DEF IInv

LEMMA Inductiva ==
  ASSUME Extremos \subseteq {"get_malo"}
  PROVE  Spec => []IInv
<1>1. Init => IInv BY IInvInicial
<1>2. IInv /\ [Next]_vars => IInv' BY IInvPaso
<1>3. QED BY <1>1, <1>2, PTL DEF Spec

\* The server never reads a program that is not in program_list, nor an address without
\* segment, nor sends twice to a closed connection, for any processes and threads and
\* however they end, when no two list_add overlap, no process frees what it was not given
\* nor begins with memory full, and the places of Evitado where the code ends the server are
\* not reached. A memory_get of an address without segment may happen (get_malo).
THEOREM ServidorCorrecto ==
  ASSUME Extremos \subseteq {"get_malo"}
  PROVE  Spec => []ServidorVive
<1>1. IInv => ServidorVive BY DEF IInv
<1>2. QED BY <1>1, Inductiva, PTL

-----------------------------------------------------------------------------
(* mutex_lock, whatever happens                                            *)

SeccionInv == pc \in [Proceso -> Lugar] /\ SeccionExclusiva

\* No handler enters a section in the step, and mutex_lock and its history stay.
LEMMA NadieEntra ==
  ASSUME SeccionInv, pc' \in [Proceso -> Lugar], UNCHANGED mutexVars,
         \A q \in Proceso : pc'[q] = "dentro" => pc[q] = "dentro"
  PROVE  SeccionInv'
BY DEF SeccionInv, SeccionExclusiva, mutexVars

\* Handler h goes to another place, outside the sections.
LEMMA SigueFuera ==
  ASSUME SeccionInv, UNCHANGED mutexVars, NEW h \in Proceso,
         NEW l \in Lugar \ {"dentro"}, pc' = [pc EXCEPT ![h] = l]
  PROVE  SeccionInv'
<1>1. pc' \in [Proceso -> Lugar] /\ \A q \in Proceso : pc'[q] = "dentro" => pc[q] = "dentro"
  BY DEF SeccionInv
<1>2. QED BY <1>1, NadieEntra

\* Handler h leaves its section: nobody is left in one.
LEMMA SaleSeccion ==
  ASSUME SeccionInv, NEW h \in Proceso, pc[h] = "dentro", UNCHANGED abierta,
         NEW l \in Lugar \ {"dentro"}, pc' = [pc EXCEPT ![h] = l]
  PROVE  SeccionInv'
<1>1. pc' \in [Proceso -> Lugar] /\ pc'[h] = l
      /\ \A q \in Proceso : q # h => pc'[q] = pc[q]
  BY DEF SeccionInv
<1>2. ~abierta => \A q \in Proceso : pc[q] = "dentro" => q = h
  BY DEF SeccionInv, SeccionExclusiva
<1>3. QED BY <1>1, <1>2 DEF SeccionInv, SeccionExclusiva

\* The memory_get that fails unlocks mutex_lock: if somebody held it, abierta says so.
LEMMA BuscarSeccion ==
  ASSUME SeccionInv, NEW h \in Proceso, TrasBuscar(h)
  PROVE  SeccionInv'
<1>1. PICK l \in {"espera", "responde"} : pc' = [pc EXCEPT ![h] = l]
  BY DEF TrasBuscar, Espera, Contesta
<1>2. l \in Lugar \ {"dentro"} BY DEF Lugar, Activo
<1>3. CASE UNCHANGED mutexVars BY <1>1, <1>2, <1>3, SigueFuera
<1>4. CASE mutex_lock' = Nadie /\ abierta' = (abierta \/ mutex_lock # Nadie)
  <2>1. ~abierta' => \A q \in Proceso : pc[q] # "dentro"
    BY <1>4, ServidorAssumption DEF SeccionInv, SeccionExclusiva
  <2>2. pc' \in [Proceso -> Lugar] /\ \A q \in Proceso : pc'[q] = "dentro" => pc[q] = "dentro"
    BY <1>1, <1>2 DEF SeccionInv
  <2>3. QED BY <2>1, <2>2 DEF SeccionInv, SeccionExclusiva
<1>5. QED BY <1>3, <1>4 DEF TrasBuscar

LEMMA SeccionServidor ==
  ASSUME SeccionInv, NEW h \in Proceso, Servidor(h)
  PROVE  SeccionInv'
<1>1. CASE handler(h) \/ receive_packet(h) \/ el_cliente_se_tomo_el_palo(h) \/ message_handler(h)
  <2>1. UNCHANGED mutexVars
    BY <1>1 DEF handler, receive_packet, el_cliente_se_tomo_el_palo, message_handler
  <2>2. \E l \in {"recibe", "busca", "espera", "fin"} : pc' = [pc EXCEPT ![h] = l]
    BY <1>1 DEF handler, receive_packet, el_cliente_se_tomo_el_palo, message_handler
  <2>3. QED BY <2>1, <2>2, SigueFuera DEF Lugar, Activo
<1>2. CASE search_program(h) \/ search_program_falla(h) \/ crea_programa(h)
  <2>1. CASE TrasBuscar(h) BY <2>1, BuscarSeccion
  <2>2. CASE UNCHANGED <<pc, mutexVars>> BY <2>2, NadieEntra DEF SeccionInv
  <2>3. CASE pc' = [pc EXCEPT ![h] = "agrega"] /\ UNCHANGED mutexVars
    BY <2>3, SigueFuera DEF Lugar, Activo
  <2>4. QED
    BY <1>2, <2>1, <2>2, <2>3 DEF search_program, search_program_falla, crea_programa
<1>3. CASE pthread_mutex_lock(h)
  <2>1. mutex_lock = Nadie /\ mutex_lock' = h /\ UNCHANGED abierta
        /\ pc' = [pc EXCEPT ![h] = "dentro"]
    BY <1>3 DEF pthread_mutex_lock, Libre
  <2>2. ~abierta => \A q \in Proceso : pc[q] # "dentro"
    BY <2>1, ServidorAssumption DEF SeccionInv, SeccionExclusiva
  <2>3. pc' \in [Proceso -> Lugar] /\ \A q \in Proceso : q # h => pc'[q] = pc[q]
    BY <2>1 DEF SeccionInv, Lugar, Activo
  <2>4. QED BY <2>1, <2>2, <2>3 DEF SeccionInv, SeccionExclusiva
<1>4. CASE \/ malloc_valida(h) \/ malloc_ubica(h) \/ malloc_agranda(h) \/ malloc_nuevo(h)
           \/ memory_free(h) \/ revisa_mapa(h) \/ copia(h) \/ mapea(h)
  <2>1. pc[h] = "dentro"
    BY <1>4 DEF malloc_valida, malloc_ubica, malloc_agranda, malloc_nuevo, memory_free,
                revisa_mapa, copia, mapea, Esta
  <2>2. \/ UNCHANGED <<pc, mutexVars>>
        \/ /\ UNCHANGED abierta
           /\ \E l \in {"busca", "espera", "responde"} : pc' = [pc EXCEPT ![h] = l]
    <3>1. CASE malloc_valida(h) \/ malloc_ubica(h)
      BY <3>1 DEF malloc_valida, malloc_ubica, Sale, Cae, Contesta, Espera, mutexVars
    <3>2. CASE malloc_agranda(h) \/ malloc_nuevo(h) \/ memory_free(h)
      BY <3>2 DEF malloc_agranda, malloc_nuevo, memory_free, Sale, Cae, Contesta, Recurre, mutexVars
    <3>3. CASE revisa_mapa(h) \/ copia(h)
      BY <3>3 DEF revisa_mapa, copia, Sale, Cae, Contesta, Espera, mutexVars
    <3>4. CASE mapea(h) BY <3>4 DEF mapea, Sale, Cae, Contesta, mutexVars
    <3>5. QED BY <1>4, <3>1, <3>2, <3>3, <3>4
  <2>3. CASE UNCHANGED <<pc, mutexVars>> BY <2>3, NadieEntra DEF SeccionInv
  <2>4. QED BY <2>1, <2>2, <2>3, SaleSeccion DEF Lugar, Activo
<1>5. QED BY <1>1, <1>2, <1>3, <1>4 DEF Servidor

\* No two requests are at once in the critical sections of mutex_lock, for any processes
\* and threads and whatever happens, all of Evitado included, until a memory_get that fails
\* unlocks it under whoever holds it.
THEOREM SeccionesExcluyentes == Spec => []SeccionExclusiva
<1>1. Init => SeccionInv
  BY DEF Init, SeccionInv, SeccionExclusiva, Lugar
<1>2. SeccionInv /\ [Next]_vars => SeccionInv'
  <2> SUFFICES ASSUME SeccionInv, [Next]_vars PROVE SeccionInv'
    OBVIOUS
  <2>1. CASE UNCHANGED vars BY <2>1, NadieEntra DEF vars, SeccionInv
  <2>2. ASSUME NEW p \in Proceso, muse_init(p) \/ accept(p) PROVE SeccionInv'
    <3>1. /\ UNCHANGED mutexVars
          /\ \E l \in {"no", "nace"} : pc' = [pc EXCEPT ![p] = l]
      BY <2>2 DEF muse_init, accept
    <3>2. QED BY <3>1, SigueFuera DEF Lugar
  <2>3. ASSUME UNCHANGED <<pc, mutexVars>> PROVE SeccionInv'
    BY <2>3, NadieEntra DEF SeccionInv
  <2>4. ASSUME NEW h \in Proceso, Servidor(h) PROVE SeccionInv' BY <2>4, SeccionServidor
  <2>5. CASE Next
    BY <2>2, <2>3, <2>4, <2>5 DEF Next, Cliente, muse_close, termina, call, vuelve
  <2>6. QED BY <2>1, <2>5
<1>3. SeccionInv => SeccionExclusiva BY DEF SeccionInv
<1>4. QED BY <1>1, <1>2, <1>3, PTL DEF Spec
=============================================================================
