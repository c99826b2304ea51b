------------------------------ MODULE SacDisco ------------------------------
(***************************************************************************)
(* The contents of the files of SAC: the bitmap, the blocks of pointers    *)
(* and of data, and the mutexes that the requests of filesystem/           *)
(* sac_handlers.c take, for several mounted clients.                       *)
(*                                                                         *)
(* Each connection has a thread that serves one request at a time.  Each   *)
(* client works on a file of its own, so a client stands for its file; the *)
(* threads meet in s_bitmap, in s_tablaDeNodos and in the free blocks.  A  *)
(* step goes from one point where a mutex is taken to the next.  A byte of *)
(* a block is the pair of the file and the offset that it was written for; *)
(* <<>> is any byte that no file still has, and a block of pointers that   *)
(* is given up is not told from one that never was in use.                 *)
(*                                                                         *)
(* setear_posicion takes its offset as an int, so that from 2 GiB on, which *)
(* is half of the blocks of pointers, positions are wrong: files stay      *)
(* below the last block of pointers.  The 0 that agregar_nodo writes after *)
(* a new block of pointers is then within the array of the node.           *)
(***************************************************************************)
EXTENDS Integers, Sequences, FiniteSets, FiniteSetsExt

CONSTANTS
  Cliente,      \* mounted clients, each with its file
  Bloques,      \* how many blocks of data the disk has
  BLOQUE_SIZE,
  PUNTEROS_A_BLOQUES_DATOS,
  BLKINDIRECT,
  MaxTam,       \* bound: the size of the file of each client, short of the last block of
                \* pointers
  Extremos,     \* the calls clients make out of those that the server fails
  Nadie         \* "no owner" of a mutex

ASSUME DiscoAssumption ==
  /\ Bloques \in Nat
  /\ BLOQUE_SIZE \in Nat \ {0}
  /\ PUNTEROS_A_BLOQUES_DATOS \in Nat \ {0}
  /\ BLKINDIRECT \in Nat \ {0} /\ BLKINDIRECT > 1
  /\ MaxTam \in [Cliente -> Nat]
  /\ \A c \in Cliente :
       MaxTam[c] <= (BLKINDIRECT - 1) * (BLOQUE_SIZE * PUNTEROS_A_BLOQUES_DATOS)
  /\ Extremos \subseteq {"vacio", "sobre", "completa", "alineado", "extiende", "igual",
                        "otro_puntero"}
  /\ Nadie \notin Cliente

Bloque    == 1 .. Bloques
SinBloque == -1                                    \* what get_bloque_vacio answers on error
Entrada   == 0 .. (PUNTEROS_A_BLOQUES_DATOS - 1)
Direccionable == BLOQUE_SIZE * PUNTEROS_A_BLOQUES_DATOS   \* bytes behind a block of pointers
Byte      == UNION {{c} \X (0 .. MaxTam[c]) : c \in Cliente} \cup {<<>>}
SinPunteros == [x \in Entrada |-> 0]
Vacio     == [x \in 0 .. (BLOQUE_SIZE - 1) |-> <<>>]

VARIABLES
  bitmap,         \* the blocks marked as used
  punteros,       \* Bloque -> punteros_a_bloques, for the blocks used as such
  datos,          \* Bloque -> its bytes, for the blocks used as such
  nodo,           \* Cliente -> [state, file_size, indirect_blocks_array] of its file
  s_bitmap, s_tablaDeNodos,   \* who holds the mutex
  mutex,          \* Cliente -> whether the mutex of its file is locked
  hilo,           \* Cliente -> where its request is, and the locals of the handlers
  escrito,        \* Cliente -> the offsets of its file that have been written
  sin_lugar       \* bound: whether a request has found no room; then clients stop asking

tabla  == <<nodo, escrito>>
disco  == <<punteros, datos>>
vars   == <<bitmap, disco, tabla, s_bitmap, s_tablaDeNodos, mutex, hilo, sin_lugar>>

-----------------------------------------------------------------------------
(* Positions                                                               *)

setear_posicion(off) == [puntero |-> off \div Direccionable,
                         dato    |-> (off % Direccionable) \div BLOQUE_SIZE]

\* Room left in the last block; an empty file has a block already.
espacio_siempre(size) == BLOQUE_SIZE - (size % BLOQUE_SIZE)                  \* mutant
space_in_block(size) ==
  IF size = 0 THEN BLOQUE_SIZE ELSE (BLOQUE_SIZE - (size % BLOQUE_SIZE)) % BLOQUE_SIZE

Techo(a, b) == (a + b - 1) \div b
file_size(c) == nodo[c].file_size

\* The block of data of an offset; 0 where there is none.
BloqueDe(c, off) ==
  LET p == setear_posicion(off)
      b == nodo[c].indirect_blocks_array[p.puntero]
  IN  IF b = 0 THEN 0 ELSE punteros[b][p.dato]

\* What borrar_contenido marks as free: blocks of pointers that are full, then the last
\* one with as many blocks of data as the size still needs.
borrado_sin_punteros(c) ==                                                 \* mutant
  {BloqueDe(c, k * BLOQUE_SIZE) : k \in 0 .. (Techo(file_size(c), BLOQUE_SIZE) - 1)}
Borrado(c) ==
  {nodo[c].indirect_blocks_array[i] : i \in 0 .. (file_size(c) \div Direccionable)}
    \cup {BloqueDe(c, k * BLOQUE_SIZE) : k \in 0 .. (Techo(file_size(c), BLOQUE_SIZE) - 1)}

-----------------------------------------------------------------------------
(* The threads                                                             *)

Reposo == [pc |-> "listo", op |-> "ninguna", off |-> 0, tam |-> 0, en_bloque |-> 0,
           size |-> 0, resto |-> 0, espacio |-> 0, nuevo |-> 0]

Init ==
  /\ bitmap = {}
  /\ punteros = [b \in Bloque |-> SinPunteros]
  /\ datos = [b \in Bloque |-> Vacio]
  /\ nodo = [c \in Cliente |-> [state |-> 0, file_size |-> 0,
               indirect_blocks_array |-> [i \in 0 .. (BLKINDIRECT - 1) |-> 0]]]
  /\ s_bitmap = Nadie /\ s_tablaDeNodos = Nadie
  /\ mutex = [c \in Cliente |-> FALSE]
  /\ hilo = [c \in Cliente |-> Reposo]
  /\ escrito = [c \in Cliente |-> {}]
  /\ sin_lugar = FALSE

En(c, lugar) == hilo[c].pc = lugar
Va(c, lugar) == hilo' = [hilo EXCEPT ![c].pc = lugar]
Termina(c)   == hilo' = [hilo EXCEPT ![c] = Reposo]
\* The server ends, and no thread goes on.
Cae          == hilo' = [d \in Cliente |-> [Reposo EXCEPT !.pc = "caido"]]

\* The file of c loses the bytes from an offset on.
Pierde(c, desde) ==
  /\ escrito' = [escrito EXCEPT ![c] = {x \in @ : x < desde}]
  /\ datos' = [b \in Bloque |-> [x \in DOMAIN datos[b] |->
                 IF datos[b][x] # <<>> /\ datos[b][x][1] = c /\ datos[b][x][2] >= desde
                   THEN <<>> ELSE datos[b][x]]]

\* The first free block; without one the answer is -1 with s_bitmap locked.
Libres == Bloque \ bitmap
get_bloque_vacio(c, b) ==
  /\ s_bitmap = Nadie
  /\ \/ /\ Libres # {} /\ b = Min(Libres)
        /\ bitmap' = bitmap \cup {b}
        /\ UNCHANGED <<s_bitmap, sin_lugar>>
     \/ /\ Libres = {} /\ b = SinBloque
        /\ s_bitmap' = c /\ sin_lugar' = TRUE
        /\ UNCHANGED bitmap

\* The legal calls that the server does not serve well, by what is wrong with them.
EscrituraEvitada(off, tam, size) ==
  \* the room is that of the last block, whatever the block written, and once it is 0 the
  \* loop copies nothing for ever; a whole block over the last one does not make the file
  \* grow
     {x \in {"sobre"} : off < size /\ tam < BLOQUE_SIZE /\ tam > space_in_block(size)}
  \cup {x \in {"completa"} : off < size /\ tam = BLOQUE_SIZE /\ off + tam > size}
CorteEvitado(nuevo, size) ==
  \* the loop of get_new_space misses its end, or counts a block too many or too few;
  \* delete_nodes_upto keeps a block more when the file ends where a block does, and misses
  \* its end when that is the size it has or is in another block of pointers
  LET mas == nuevo - size
      room == space_in_block(size)
  IN  {x \in {"extiende"} : nuevo > size /\
         ~ \/ size = 0 /\ (mas = BLOQUE_SIZE \/ mas % BLOQUE_SIZE # 0)
           \/ size # 0 /\ (mas = room \/ mas % BLOQUE_SIZE < room)}
      \cup {x \in {"alineado"} : nuevo \in 1 .. (size - 1) /\ nuevo % BLOQUE_SIZE = 0}
      \cup {x \in {"igual"} : nuevo = size /\ size # 0 /\ size % BLOQUE_SIZE = 0}
      \cup {x \in {"otro_puntero"} :
              nuevo < size /\ nuevo \div Direccionable # setear_posicion(size - 1).puntero}

\* crear_nuevo_nodo, for a file: SacArbol has what it does to the names.
mknod(c) ==
  /\ En(c, "listo") /\ ~sin_lugar /\ nodo[c].state = 0
  /\ hilo' = [hilo EXCEPT ![c] = [Reposo EXCEPT !.op = "mknod", !.pc = "crea"]]
  /\ UNCHANGED <<bitmap, disco, tabla, s_bitmap, s_tablaDeNodos, mutex, sin_lugar>>

crear_nuevo_nodo(c) ==
  /\ En(c, "crea") /\ s_tablaDeNodos = Nadie
  /\ nodo' = [nodo EXCEPT ![c].state = 1, ![c].file_size = 0]
  /\ Va(c, "toma")
  /\ UNCHANGED <<bitmap, disco, escrito, s_bitmap, s_tablaDeNodos, mutex, sin_lugar>>

\* A block for the data, asked for by any of the operations. Only escribir_archivo looks
\* at the answer.
toma_bloque(c) ==
  /\ En(c, "toma")
  /\ \E b \in Bloque \cup {SinBloque} :
       /\ get_bloque_vacio(c, b)
       /\ IF b = SinBloque /\ hilo[c].op = "write"
            THEN Termina(c) /\ mutex' = [mutex EXCEPT ![c] = FALSE]
            ELSE /\ hilo' = [hilo EXCEPT ![c].nuevo = b, ![c].pc = "agrega"]
                 /\ UNCHANGED mutex
  /\ UNCHANGED <<disco, tabla, s_tablaDeNodos>>

\* agregar_nodo puts the new block at the end of the file. A file as large as can be
\* gets an error, with s_tablaDeNodos locked; only escribir_archivo looks at it.
agregar_nodo(c) ==
  /\ En(c, "agrega") /\ s_tablaDeNodos = Nadie
  /\ LET p == setear_posicion(file_size(c))
         tope == /\ p.puntero = BLKINDIRECT - 1
                 /\ p.dato = PUNTEROS_A_BLOQUES_DATOS - 1
         b == nodo[c].indirect_blocks_array[p.puntero]
     IN /\ s_tablaDeNodos' = IF tope \/ p.dato = 0 THEN c ELSE Nadie
        /\ punteros' = IF tope \/ p.dato = 0 THEN punteros
                       ELSE [punteros EXCEPT ![b][p.dato] = hilo[c].nuevo]
        /\ sin_lugar' = (sin_lugar \/ tope)
        /\ IF tope /\ hilo[c].op = "write"
             THEN Termina(c) /\ mutex' = [mutex EXCEPT ![c] = FALSE]
             ELSE /\ Va(c, IF p.dato = 0 /\ ~tope THEN "puntero" ELSE "sigue")
                  /\ UNCHANGED mutex
  /\ UNCHANGED <<bitmap, datos, tabla, s_bitmap>>

\* A block of pointers too, which agregar_nodo asks for with s_tablaDeNodos locked. It
\* returns without unlocking if there is none; of its callers only escribir_archivo sees.
puntero_sin_soltar(c) ==                                                   \* mutant
  /\ En(c, "puntero") /\ s_bitmap = Nadie /\ Libres # {}
  /\ LET b == Min(Libres)
     IN /\ bitmap' = bitmap \cup {b}
        /\ punteros' = [punteros EXCEPT ![b] = [SinPunteros EXCEPT ![0] = hilo[c].nuevo]]
        /\ nodo' = [nodo EXCEPT ![c].indirect_blocks_array[setear_posicion(file_size(c)).puntero] = b]
  /\ Va(c, "sigue")
  /\ UNCHANGED <<datos, escrito, s_bitmap, s_tablaDeNodos, mutex, sin_lugar>>
agregar_nodo_puntero(c) ==
  /\ En(c, "puntero")
  /\ \E b \in Bloque \cup {SinBloque} :
       /\ get_bloque_vacio(c, b)
       /\ \/ /\ b # SinBloque
             /\ LET i == setear_posicion(file_size(c)).puntero
                IN nodo' = [nodo EXCEPT ![c].indirect_blocks_array =
                              [j \in DOMAIN @ |-> IF j = i THEN b
                                                  ELSE IF j = i + 1 THEN 0 ELSE @[j]]]
             /\ punteros' = [punteros EXCEPT ![b] = [SinPunteros EXCEPT ![0] = hilo[c].nuevo]]
             /\ s_tablaDeNodos' = Nadie
             /\ Va(c, "sigue")
             /\ UNCHANGED mutex
          \/ /\ b = SinBloque
             /\ IF hilo[c].op = "write"
                  THEN Termina(c) /\ mutex' = [mutex EXCEPT ![c] = FALSE]
                  ELSE Va(c, "sigue") /\ UNCHANGED mutex
             /\ UNCHANGED <<nodo, punteros, s_tablaDeNodos>>
  /\ UNCHANGED <<datos, escrito>>

\* crear_nuevo_nodo clears the block and answers.
crear_nuevo_nodo_fin(c) ==
  /\ En(c, "sigue") /\ hilo[c].op = "mknod"
  /\ datos' = [b \in Bloque |-> IF b = hilo[c].nuevo THEN Vacio ELSE datos[b]]
  /\ Termina(c)
  /\ UNCHANGED <<bitmap, punteros, tabla, s_bitmap, s_tablaDeNodos, mutex, sin_lugar>>

-----------------------------------------------------------------------------
(* escribir_archivo                                                        *)

\* One turn of the loop copies n bytes into the block b, which has that much room.
crece(size, off, n) == IF size <= off THEN size + n ELSE Max({size, off + n})
Escribe(c, h, b, room) ==
  LET size == file_size(c)
      n == IF h.tam >= BLOQUE_SIZE THEN BLOQUE_SIZE ELSE Min({h.tam, room})
      desde == IF h.tam >= BLOQUE_SIZE THEN 0 ELSE h.en_bloque
      nuevoSize == CASE h.tam >= BLOQUE_SIZE -> IF size <= h.off THEN size + n ELSE size
                     [] h.tam < BLOQUE_SIZE /\ h.tam <= room -> crece(size, h.off, n)
                     [] OTHER -> size + n
  IN  /\ datos' = [datos EXCEPT ![b] = [x \in DOMAIN @ |->
                     IF x \in desde .. (desde + n - 1) THEN <<c, h.off + x - desde>> ELSE @[x]]]
      /\ nodo' = [nodo EXCEPT ![c].file_size = nuevoSize]
      /\ escrito' = [escrito EXCEPT ![c] = @ \cup (h.off .. (h.off + n - 1))]
      /\ IF n = h.tam
           THEN Termina(c) /\ mutex' = [mutex EXCEPT ![c] = FALSE]
           ELSE /\ hilo' = [hilo EXCEPT ![c] = [h EXCEPT !.pc = "bucle", !.off = @ + n,
                                                         !.tam = @ - n, !.en_bloque = 0]]
                /\ mutex' = [mutex EXCEPT ![c] = TRUE]

NecesitaBloque(c, off) ==
  file_size(c) # 0 /\ off >= file_size(c) + space_in_block(file_size(c))

\* A file that would be too large gets an error, with its mutex locked. A write stays
\* within a page and within the file or at its end, or else adds whole pages.
escribir_archivo(c) ==
  /\ En(c, "listo") /\ ~sin_lugar /\ nodo[c].state = 1 /\ ~mutex[c]
  /\ \E off \in 0 .. file_size(c), tam \in 1 .. (2 * BLOQUE_SIZE) :
       LET h == [Reposo EXCEPT !.op = "write", !.pc = "bucle", !.off = off, !.tam = tam,
                               !.en_bloque = off % BLOQUE_SIZE]
       IN /\ off + tam <= MaxTam[c]
          /\ \/ h.en_bloque + tam <= BLOQUE_SIZE
             \/ h.en_bloque = 0 /\ off = file_size(c)
          /\ EscrituraEvitada(off, tam, file_size(c)) \subseteq Extremos
          /\ \/ /\ file_size(c) + tam >= BLKINDIRECT * Direccionable
                /\ mutex' = [mutex EXCEPT ![c] = TRUE] /\ sin_lugar' = TRUE
                /\ UNCHANGED <<disco, tabla, hilo>>
             \/ /\ file_size(c) + tam < BLKINDIRECT * Direccionable
                /\ NecesitaBloque(c, off)
                /\ mutex' = [mutex EXCEPT ![c] = TRUE]
                /\ hilo' = [hilo EXCEPT ![c] = h]
                /\ UNCHANGED <<disco, tabla, sin_lugar>>
             \/ /\ file_size(c) + tam < BLKINDIRECT * Direccionable
                /\ ~NecesitaBloque(c, off)
                /\ Escribe(c, h, BloqueDe(c, off), space_in_block(file_size(c)))
                /\ UNCHANGED <<punteros, sin_lugar>>
  /\ UNCHANGED <<bitmap, s_bitmap, s_tablaDeNodos>>

\* Each turn after the first. At the end of the file, where its last block is full, it
\* takes a block: without free ones the answer is -ENOSPC, with the mutex of the file
\* locked. Elsewhere it writes in place, with the room that the last block has: 0 bytes
\* when that is full, and so on for ever.
escribir_archivo_mide(c) ==
  /\ En(c, "bucle")
  /\ \/ /\ NecesitaBloque(c, hilo[c].off) /\ s_bitmap = Nadie
        /\ \/ Libres = {} /\ Termina(c) /\ sin_lugar' = TRUE
           \/ Libres # {} /\ Va(c, "toma") /\ UNCHANGED sin_lugar
        /\ UNCHANGED <<datos, tabla, mutex>>
     \/ /\ ~NecesitaBloque(c, hilo[c].off)
        /\ Escribe(c, hilo[c], BloqueDe(c, hilo[c].off), space_in_block(file_size(c)))
        /\ UNCHANGED sin_lugar
  /\ UNCHANGED <<bitmap, punteros, s_bitmap, s_tablaDeNodos>>

escribir_archivo_en_nuevo(c) ==
  /\ En(c, "sigue") /\ hilo[c].op = "write"
  /\ Escribe(c, hilo[c], hilo[c].nuevo, BLOQUE_SIZE)
  /\ UNCHANGED <<bitmap, punteros, s_bitmap, s_tablaDeNodos, sin_lugar>>

\* The byte that is read at an offset. The walk leaves out a block of pointers only when
\* the offset is beyond its end; at its very end it goes over all of its blocks of data.
leer_archivo(c, off) ==
  LET saltados == IF off = 0 THEN 0 ELSE (off - 1) \div Direccionable
      resto == off - saltados * Direccionable
      i == IF resto = Direccionable THEN saltados + 1 ELSE saltados
      b == nodo[c].indirect_blocks_array[i]
      d == IF b = 0 THEN 0 ELSE punteros[b][(resto % Direccionable) \div BLOQUE_SIZE]
  IN  IF d \in Bloque THEN datos[d][resto % BLOQUE_SIZE] ELSE <<>>

-----------------------------------------------------------------------------
(* borrar_archivo                                                          *)

BorraNodo(c) ==
  /\ nodo' = [nodo EXCEPT ![c].state = 0, ![c].file_size = 0]
  /\ Pierde(c, 0)

borrar_archivo(c) ==
  /\ En(c, "listo") /\ ~sin_lugar /\ nodo[c].state = 1
  /\ \/ /\ file_size(c) = 0 /\ "vacio" \in Extremos
        /\ BorraNodo(c)
        /\ UNCHANGED hilo
     \/ /\ file_size(c) # 0
        /\ hilo' = [hilo EXCEPT ![c] = [Reposo EXCEPT !.op = "unlink", !.pc = "borra"]]
        /\ UNCHANGED <<nodo, escrito, datos>>
  /\ UNCHANGED <<bitmap, punteros, s_bitmap, s_tablaDeNodos, mutex, sin_lugar>>

borrar_contenido(c) ==
  /\ En(c, "borra") /\ s_bitmap = Nadie
  /\ bitmap' = bitmap \ Borrado(c)
  /\ punteros' = [b \in Bloque |-> IF b \in Borrado(c) THEN SinPunteros ELSE punteros[b]]
  /\ BorraNodo(c)
  /\ Termina(c)
  /\ UNCHANGED <<s_bitmap, s_tablaDeNodos, mutex, sin_lugar>>

-----------------------------------------------------------------------------
(* truncar_archivo                                                         *)

\* Number of the last block of data of a file of that size, within its block of pointers.
UltimoDato(size) == setear_posicion(size - 1).dato

\* delete_nodes_upto towards an end that it misses. If that is not the first entry of a
\* block of pointers it counts down below 0, over whatever comes before in memory, until
\* the server ends. If it is, the blocks of pointers on the way are given up, down to the
\* first one if the size is the same, and those of data of the last one but for its first.
\* (One step here: in the code s_bitmap and s_tablaDeNodos are taken for each block.)
delete_nodes_upto_lejos(c, h) ==
  LET u == setear_posicion(file_size(c) - 1)
      hasta == setear_posicion(h.size)
      a == nodo[c].indirect_blocks_array
      pasados == (IF hasta.puntero < u.puntero THEN hasta.puntero + 1 ELSE 0) .. u.puntero
  IN \/ hasta.dato # 0 /\ Cae /\ UNCHANGED <<bitmap, nodo>>
     \/ /\ hasta.dato = 0 /\ s_bitmap = Nadie /\ s_tablaDeNodos = Nadie
        /\ bitmap' = bitmap \ ({a[i] : i \in pasados}
                                 \cup {punteros[a[u.puntero]][x] : x \in 1 .. u.dato})
        /\ nodo' = [nodo EXCEPT ![c].indirect_blocks_array =
                       [i \in DOMAIN @ |-> IF i \in pasados THEN 0 ELSE @[i]]]
        /\ hilo' = [hilo EXCEPT ![c] = [h EXCEPT !.pc = "talla"]]

truncar_archivo(c) ==
  /\ En(c, "listo") /\ ~sin_lugar /\ nodo[c].state = 1
  /\ \E nuevo \in 0 .. MaxTam[c] :
       LET size == file_size(c)
           h == [Reposo EXCEPT !.op = "truncate", !.size = nuevo]
       IN /\ CorteEvitado(nuevo, size) \subseteq Extremos
          /\ \/ /\ nuevo > size
                /\ hilo' = [hilo EXCEPT ![c] = [h EXCEPT !.pc = "mide"]]
                /\ UNCHANGED <<bitmap, nodo>>
             \/ /\ nuevo = size /\ (size = 0 \/ size % BLOQUE_SIZE # 0)
                /\ hilo' = [hilo EXCEPT ![c] = [h EXCEPT !.pc = "talla"]]
                /\ UNCHANGED <<bitmap, nodo>>
             \/ /\ nuevo < size
                /\ nuevo \div Direccionable = setear_posicion(size - 1).puntero
                /\ hilo' = [hilo EXCEPT ![c] = [h EXCEPT !.resto = UltimoDato(size), !.pc =
                     IF UltimoDato(size) = setear_posicion(nuevo).dato
                       THEN "talla" ELSE "recorta"]]
                /\ UNCHANGED <<bitmap, nodo>>
             \/ /\ CorteEvitado(nuevo, size) \cap {"igual", "otro_puntero"} # {}
                /\ delete_nodes_upto_lejos(c, h)
  /\ UNCHANGED <<disco, escrito, s_bitmap, s_tablaDeNodos, mutex, sin_lugar>>

\* get_new_space compares as unsigned: what fits in the room left looks like too much. When
\* the disk has no room truncar_archivo gives the file its new size all the same, with no
\* blocks behind it: sin_lugar, though no mutex stays locked.
get_new_space(c) ==
  /\ En(c, "mide") /\ s_bitmap = Nadie
  /\ LET pide_mas == hilo[c].size - file_size(c)
         room == BLOQUE_SIZE - (file_size(c) % BLOQUE_SIZE)
         falta == \/ pide_mas < room
                  \/ Cardinality(Libres) * BLOQUE_SIZE < pide_mas - room
     IN /\ hilo' = [hilo EXCEPT ![c].resto = pide_mas, ![c].espacio = room,
                                ![c].pc = IF falta THEN "talla" ELSE "suma"]
        /\ sin_lugar' = (sin_lugar \/ (falta /\ pide_mas >= room))
  /\ UNCHANGED <<bitmap, disco, tabla, s_bitmap, s_tablaDeNodos, mutex>>

\* The loop goes on while the rest, as unsigned, is no less than the room there was.
Bucle(room, resto) == IF resto < 0 \/ resto >= room THEN "toma" ELSE "talla"

get_new_space_suma(c) ==
  /\ En(c, "suma") /\ s_tablaDeNodos = Nadie
  /\ LET h == hilo[c] IN
       /\ nodo' = [nodo EXCEPT ![c].file_size = @ + Min({h.espacio, h.resto})]
       /\ Va(c, IF h.espacio >= h.resto THEN "talla" ELSE Bucle(h.espacio, h.resto))
  /\ UNCHANGED <<bitmap, disco, escrito, s_bitmap, s_tablaDeNodos, mutex, sin_lugar>>

get_new_space_bloque(c) ==
  /\ En(c, "sigue") /\ hilo[c].op = "truncate" /\ s_tablaDeNodos = Nadie
  /\ nodo' = [nodo EXCEPT ![c].file_size = @ + BLOQUE_SIZE]
  /\ hilo' = [hilo EXCEPT ![c].resto = @ - BLOQUE_SIZE,
                          ![c].pc = Bucle(hilo[c].espacio, hilo[c].resto - BLOQUE_SIZE)]
  /\ UNCHANGED <<bitmap, disco, escrito, s_bitmap, s_tablaDeNodos, mutex, sin_lugar>>

\* delete_nodes_upto takes out one block of data, then marks it as free.
delete_nodes_upto(c) ==
  /\ En(c, "recorta") /\ s_tablaDeNodos = Nadie
  /\ LET b == nodo[c].indirect_blocks_array[setear_posicion(file_size(c) - 1).puntero]
     IN /\ punteros' = [punteros EXCEPT ![b][hilo[c].resto] = 0]
        /\ hilo' = [hilo EXCEPT ![c].nuevo = punteros[b][hilo[c].resto], ![c].pc = "marca"]
  /\ UNCHANGED <<bitmap, datos, tabla, s_bitmap, s_tablaDeNodos, mutex, sin_lugar>>

recorta_uno_mas(c) ==                                                      \* mutant
  /\ En(c, "marca") /\ s_bitmap = Nadie
  /\ bitmap' = bitmap \ {hilo[c].nuevo}
  /\ hilo' = [hilo EXCEPT ![c].resto = @ - 1, ![c].nuevo = 0, ![c].pc =
                IF hilo[c].resto = setear_posicion(hilo[c].size).dato THEN "talla" ELSE "recorta"]
  /\ UNCHANGED <<disco, tabla, s_bitmap, s_tablaDeNodos, mutex, sin_lugar>>
delete_nodes_upto_bitmap(c) ==
  /\ En(c, "marca") /\ s_bitmap = Nadie
  /\ bitmap' = bitmap \ {hilo[c].nuevo}
  /\ hilo' = [hilo EXCEPT ![c].resto = @ - 1, ![c].nuevo = 0, ![c].pc =
                IF hilo[c].resto - 1 = setear_posicion(hilo[c].size).dato
                  THEN "talla" ELSE "recorta"]
  /\ UNCHANGED <<disco, tabla, s_bitmap, s_tablaDeNodos, mutex, sin_lugar>>

truncar_archivo_fin(c) ==
  /\ En(c, "talla") /\ s_tablaDeNodos = Nadie
  /\ nodo' = [nodo EXCEPT ![c].file_size = hilo[c].size]
  /\ Pierde(c, hilo[c].size)
  /\ Termina(c)
  /\ UNCHANGED <<bitmap, punteros, s_bitmap, s_tablaDeNodos, mutex, sin_lugar>>

-----------------------------------------------------------------------------
\* The call of a client, with the steps of its thread up to the first mutex.
pide(c) == mknod(c) \/ escribir_archivo(c) \/ borrar_archivo(c) \/ truncar_archivo(c)

fuse_invoke_function(c) ==
  \/ crear_nuevo_nodo(c) \/ crear_nuevo_nodo_fin(c)
  \/ toma_bloque(c) \/ agregar_nodo(c) \/ agregar_nodo_puntero(c)
  \/ escribir_archivo_mide(c) \/ escribir_archivo_en_nuevo(c)
  \/ borrar_contenido(c) \/ truncar_archivo_fin(c)
  \/ get_new_space(c) \/ get_new_space_suma(c) \/ get_new_space_bloque(c)
  \/ delete_nodes_upto(c) \/ delete_nodes_upto_bitmap(c)

Next == \E c \in Cliente : pide(c) \/ fuse_invoke_function(c)

Spec     == Init /\ [][Next]_vars
\* The thread of a connection that can go on is eventually scheduled.
FairSpec == Spec /\ \A c \in Cliente : WF_vars(fuse_invoke_function(c))

-----------------------------------------------------------------------------
(* Properties                                                              *)

Listo(c) == En(c, "listo") /\ nodo[c].state = 1

\* The blocks that hold a file: at least one of data, and those of pointers.
Datos(c) ==
  {setear_posicion(k * BLOQUE_SIZE) : k \in 0 .. (Max({Techo(file_size(c), BLOQUE_SIZE), 1}) - 1)}
DeDatos(c)    == {BloqueDe(c, k * BLOQUE_SIZE) :
                    k \in 0 .. (Max({Techo(file_size(c), BLOQUE_SIZE), 1}) - 1)}
DePunteros(c) == {nodo[c].indirect_blocks_array[p.puntero] : p \in Datos(c)}
Usa(c)        == DeDatos(c) \cup DePunteros(c)

\* However requests interleave, a block belongs to one file, once, and is marked.
BloquesPropios ==
  ~sin_lugar =>
    \A c \in Cliente : Listo(c) =>
      /\ Usa(c) \subseteq bitmap
      /\ Cardinality(Usa(c)) = Cardinality(Datos(c)) + Cardinality({p.puntero : p \in Datos(c)})
      /\ \A d \in Cliente \ {c} : Listo(d) => Usa(c) \cap Usa(d) = {}

\* When nothing is under way the blocks marked are those of the files: none is lost.
SinFugas ==
  ~sin_lugar /\ (\A c \in Cliente : En(c, "listo")) =>
    bitmap = UNION {Usa(c) : c \in {d \in Cliente : nodo[d].state = 1}}

\* What has been written to a file and not cut off is read back from its place, whatever
\* blocks other files take and give up meanwhile.
LecturaFiel ==
  ~sin_lugar =>
    \A c \in Cliente : Listo(c) =>
      \A x \in escrito[c] :
        x < file_size(c) /\ leer_archivo(c, x) = <<c, x>>

\* Requests go on being answered until none is left, unless one has found the disk full
\* and kept a mutex: none stays with any other request that is over, that of a truncate
\* without room included, and no two requests wait for each other. (One that always comes
\* last to a mutex may wait: pthread mutexes are not fair.)
Retenido ==
  s_bitmap # Nadie \/ (s_tablaDeNodos # Nadie /\ ~En(s_tablaDeNodos, "puntero"))
SigueRespondiendo ==
  \/ []<>((\A c \in Cliente : En(c, "listo")) \/ (sin_lugar /\ Retenido))
  \/ []<><<\E c \in Cliente : ~En(c, "listo") /\ En(c, "listo")'>>_hilo
=============================================================================
