------------------------------ MODULE SacArbol ------------------------------
(***************************************************************************)
(* The names of the SAC file system: the table of nodes of                 *)
(* filesystem/sac_handlers.c and the calls of sac_servidor.c that change   *)
(* it, for one mounted client.                                             *)
(*                                                                         *)
(* sac_cliente.c keeps s_socket locked from a request to its answer, so    *)
(* the server has one request at a time; the kernel resolves a path, with  *)
(* sac_getattr, before it asks for anything else about it.  A node knows   *)
(* its directory by the number of that directory's block in the disk; the  *)
(* root has no node and counts as block 0.  The blocks of the contents of  *)
(* files are the subject of SacDisco.                                      *)
(***************************************************************************)
EXTENDS Integers, Sequences, SequencesExt, FiniteSetsExt

CONSTANTS
  Nombre,                    \* names of files and directories
  MaxProf,                   \* bound: the depth of the paths
  MAX_NUMBER_OF_FILES,
  bloqueInicioTablaDeNodos,  \* 1 + the blocks of the bitmap
  Extremos,                  \* the calls clients make out of those listed in Evitado
  NULL,                      \* fname of a node never used
  Ninguno                    \* no request is being served

ASSUME ArbolAssumption ==
  /\ MaxProf \in Nat \ {0}
  /\ MAX_NUMBER_OF_FILES \in Nat \ {0}
  /\ bloqueInicioTablaDeNodos \in Nat \ {0, 1}
  /\ Extremos \subseteq {"recrea", "llena", "pisa", "nodo_cero"}
  /\ NULL \notin Nombre

Nodo   == 0 .. (MAX_NUMBER_OF_FILES - 1)
Camino == UNION {[1 .. k -> Nombre] : k \in 1 .. MaxProf}
Pedido ==
  [op : {"mknod", "mkdir", "unlink", "rmdir"}, path : Camino]
    \cup [op : {"rename"}, path : Camino, nuevo : Camino]

VARIABLES
  tablaDeNodos,   \* Nodo -> [state, fname, parent_dir_block]
  s_tablaDeNodos, \* whether the mutex is locked
  pedido          \* the request being served

vars == <<tablaDeNodos, s_tablaDeNodos, pedido>>

-----------------------------------------------------------------------------
(* Looking up                                                              *)

Vivo(i) == tablaDeNodos[i].state # 0

\* The first node with that name in that directory, or -1.
buscar_nodo_por_nombre(nombre, bloque) ==
  LET C == {i \in Nodo : /\ Vivo(i) /\ tablaDeNodos[i].fname = nombre
                         /\ tablaDeNodos[i].parent_dir_block = bloque}
  IN  IF C = {} THEN -1 ELSE Min(C)

\* The node of a path, or -1. The root gives 0, as node 0 does. Only from the second
\* name on does a name that is not found end the search.
determine_nodo(path) ==
  IF path = <<>> THEN 0
  ELSE LET bloque[k \in 0 .. Len(path)] ==
             IF k = 0 THEN 0
             ELSE LET b == bloque[k - 1]
                      i == buscar_nodo_por_nombre(path[k], b)
                  IN  IF k > 1 /\ (b = -1 \/ i = -1) THEN -1
                      ELSE i + bloqueInicioTablaDeNodos
           ultimo == bloque[Len(path)]
       IN  IF ultimo = -1 THEN -1 ELSE ultimo - bloqueInicioTablaDeNodos

\* The nodes that were deleted count, and those of the root do not: as its path gives
\* 0, the children of node 0 are compared instead.
nunca_existe(path) == FALSE                                                \* mutant
validar_si_ya_existe_otro(path) ==
  \E i \in Nodo :
    /\ tablaDeNodos[i].parent_dir_block = determine_nodo(Front(path)) + bloqueInicioTablaDeNodos
    /\ tablaDeNodos[i].fname = Last(path)

Carpeta(path) ==
  path = <<>> \/ (determine_nodo(path) # -1 /\ tablaDeNodos[determine_nodo(path)].state = 2)

-----------------------------------------------------------------------------
(* Requests                                                                *)

Init ==
  /\ tablaDeNodos = [i \in Nodo |-> [state |-> 0, fname |-> NULL, parent_dir_block |-> 0]]
  /\ s_tablaDeNodos = FALSE
  /\ pedido = Ninguno

\* What the kernel has checked, through sac_getattr, before it makes the call.
Procede(r) ==
  LET n == determine_nodo(r.path)
  IN  CASE r.op \in {"mknod", "mkdir"} -> n = -1 /\ Carpeta(Front(r.path))
        [] r.op = "unlink" -> n # -1 /\ tablaDeNodos[n].state = 1
        [] r.op = "rmdir"  -> n # -1 /\ tablaDeNodos[n].state = 2
        [] r.op = "rename" ->
             /\ n # -1 /\ Carpeta(Front(r.nuevo))
             /\ ~IsPrefix(r.path, r.nuevo) /\ ~IsPrefix(r.nuevo, r.path)
             /\ determine_nodo(r.nuevo) # -1 =>
                  tablaDeNodos[determine_nodo(r.nuevo)].state = tablaDeNodos[n].state

\* The legal calls that the server does not serve well, by what is wrong with them.
Evitado(r) ==
  CASE r.op \in {"mknod", "mkdir"} ->
         \* a name that a deleted node of the directory had, or for the root a node of node 0
         {x \in {"recrea"} : validar_si_ya_existe_otro(r.path)}
           \cup {x \in {"llena"} : \A i \in Nodo : Vivo(i)}
    [] r.op = "rename" ->
         \* a destination in the root that exists, or in the directory that is node 0
         {x \in {"pisa"} : Len(r.nuevo) = 1 /\ determine_nodo(r.nuevo) # -1}
           \cup {x \in {"nodo_cero"} : Len(r.nuevo) > 1 /\ determine_nodo(Front(r.nuevo)) = 0}
    [] OTHER -> {}

pide ==
  /\ pedido = Ninguno
  /\ \E r \in Pedido : Procede(r) /\ Evitado(r) \subseteq Extremos /\ pedido' = r
  /\ UNCHANGED <<tablaDeNodos, s_tablaDeNodos>>

\* crear_nuevo_nodo answers that the table is full, or that the name exists, with
\* s_tablaDeNodos locked.
crear_nuevo_nodo(path, tipo) ==
  /\ ~s_tablaDeNodos
  /\ LET L == {i \in Nodo : ~Vivo(i)}
         padre == IF Len(path) = 1 THEN 0
                  ELSE determine_nodo(Front(path)) + bloqueInicioTablaDeNodos
     IN IF L = {} \/ validar_si_ya_existe_otro(path)
          THEN s_tablaDeNodos' = TRUE /\ UNCHANGED tablaDeNodos
          ELSE /\ tablaDeNodos' = [tablaDeNodos EXCEPT ![Min(L)] =
                    [state |-> tipo, fname |-> Last(path), parent_dir_block |-> padre]]
               /\ UNCHANGED s_tablaDeNodos

\* A directory of number 0 is taken for the root.
Renombrado(path, nuevo, padre) ==
  [tablaDeNodos EXCEPT
     ![determine_nodo(path)].fname = Last(nuevo),
     ![determine_nodo(path)].parent_dir_block =
        IF padre = 0 THEN 0 ELSE padre + bloqueInicioTablaDeNodos]

renombra_en_su_carpeta(path, nuevo) ==                                     \* mutant
  /\ ~s_tablaDeNodos
  /\ tablaDeNodos' = [tablaDeNodos EXCEPT ![determine_nodo(path)].fname = Last(nuevo)]
  /\ UNCHANGED s_tablaDeNodos
renombra_sin_soltar(path, nuevo) ==                                        \* mutant
  LET padre == determine_nodo(Front(nuevo))
  IN  \/ validar_si_ya_existe_otro(nuevo) /\ UNCHANGED <<tablaDeNodos, s_tablaDeNodos>>
      \/ /\ ~validar_si_ya_existe_otro(nuevo) /\ ~s_tablaDeNodos
         /\ tablaDeNodos' = Renombrado(path, nuevo, padre)
         /\ s_tablaDeNodos' = (padre = 0)
renombrar_archivo(path, nuevo) ==
  LET padre  == determine_nodo(Front(nuevo))
      seNiega == validar_si_ya_existe_otro(nuevo) \/ padre = -1
  IN  /\ \/ seNiega /\ UNCHANGED tablaDeNodos
         \/ ~seNiega /\ ~s_tablaDeNodos /\ tablaDeNodos' = Renombrado(path, nuevo, padre)
      /\ UNCHANGED s_tablaDeNodos

\* A deleted node keeps its name and its directory.
borrar(S) == tablaDeNodos' = [i \in Nodo |->
               IF i \in S THEN [tablaDeNodos[i] EXCEPT !.state = 0] ELSE tablaDeNodos[i]]

\* borrar_directorio goes down from each child that is alive; it has the first block of
\* the table as a literal 2.
Cerrado(S) ==
  \A j \in S : \A i \in Nodo : Vivo(i) /\ tablaDeNodos[i].parent_dir_block = j + 2 => i \in S
Descendencia(n) ==
  {i \in Nodo : \A S \in SUBSET Nodo : n \in S /\ Cerrado(S) => i \in S}

borrar_archivo(path) == borrar({determine_nodo(path)}) /\ UNCHANGED s_tablaDeNodos
borrar_directorio(path) ==
  borrar(Descendencia(determine_nodo(path))) /\ UNCHANGED s_tablaDeNodos

sac_server_mknod  == pedido.op = "mknod"  /\ crear_nuevo_nodo(pedido.path, 1)
sac_server_mkdir  == pedido.op = "mkdir"  /\ crear_nuevo_nodo(pedido.path, 2)
sac_server_unlink == pedido.op = "unlink" /\ borrar_archivo(pedido.path)
sac_server_rmdir  == pedido.op = "rmdir"  /\ borrar_directorio(pedido.path)
sac_server_rename == pedido.op = "rename" /\ renombrar_archivo(pedido.path, pedido.nuevo)

fuse_invoke_function ==
  /\ pedido # Ninguno
  /\ \/ sac_server_mknod \/ sac_server_mkdir \/ sac_server_unlink
     \/ sac_server_rmdir \/ sac_server_rename
  /\ pedido' = Ninguno

Next == pide \/ fuse_invoke_function

Spec == Init /\ [][Next]_vars

\* The request needs no mutex, or finds it free: then the thread of the connection
\* goes on and answers. No other step ends a request.
Atendible ==
  pedido # Ninguno /\ (pedido.op \in {"mknod", "mkdir", "rename"} => ~s_tablaDeNodos)
FairSpec == Spec /\ WF_pedido(Atendible /\ pedido' = Ninguno)

-----------------------------------------------------------------------------
(* Properties                                                              *)

\* The ways down from the root through directories in use, one more node each time.
Hijos(b) == {i \in Nodo : Vivo(i) /\ tablaDeNodos[i].parent_dir_block = b}
Rastros ==
  LET baja[k \in 1 .. MAX_NUMBER_OF_FILES] ==
        IF k = 1 THEN {<<i>> : i \in Hijos(0)}
        ELSE UNION {{Append(s, i) : i \in Hijos(s[k - 1] + bloqueInicioTablaDeNodos)} :
                     s \in {r \in baja[k - 1] : tablaDeNodos[r[k - 1]].state = 2}}
  IN  UNION {baja[k] : k \in 1 .. MAX_NUMBER_OF_FILES}

\* Every node that is in use hangs from the root through directories in use.
SinHuerfanos ==
  LET R == Rastros IN \A i \in Nodo : Vivo(i) => \E s \in R : s[Len(s)] = i

\* The paths of the nodes in use.
Ubicados == {<<[k \in DOMAIN s |-> tablaDeNodos[s[k]].fname], s[Len(s)]>> : s \in Rastros}

\* The table is a tree and the lookup its inverse: no sequence of creations, moves and
\* recursive deletions, with slots of the table used again, leaves a node that no path
\* reaches, and the path of every node leads to it, so no two nodes have the same one.
CaminoFiel == SinHuerfanos /\ \A u \in Ubicados : determine_nodo(u[1]) = u[2]

\* The tree that the table of nodes stands for.
Arbol ==
  LET U == Ubicados
      A == {<<u[1], IF tablaDeNodos[u[2]].state = 1 THEN "archivo" ELSE "directorio">> : u \in U}
  IN  [p \in {x[1] : x \in A} |-> (CHOOSE x \in A : x[1] = p)[2]]

\* A call of the file system is all or nothing, and does what was asked for.
Promesa == INSTANCE SacPromesa WITH arbol <- Arbol
ImplementaPromesa == Promesa!Spec

\* Every call is answered.
TodaLlamadaResponde == pedido # Ninguno ~> pedido = Ninguno
=============================================================================
