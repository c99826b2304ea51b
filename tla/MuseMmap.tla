------------------------------ MODULE MuseMmap ------------------------------
(***************************************************************************)
(* The mapped files of MUSE: memory_map, memory_get, memory_cpy,           *)
(* memory_sync and memory_unmap of memoria/main_memory.c, the table of     *)
(* segments of each program and the pages that the programs of a file      *)
(* share.                                                                  *)
(*                                                                         *)
(* A step is a request: all of it, or all that changes anything, is in a   *)
(* critical section of mutex_lock (MuseServidor).  A page holds one value  *)
(* and files are mapped whole, in pages.  Of the heap there is here what   *)
(* it takes from the others: addresses and frames, given while some are    *)
(* free; its blocks are in MuseHeap and its swapping in MuseFrames.        *)
(*                                                                         *)
(* Extremos: the members of Evitado that do happen.                        *)
(***************************************************************************)
EXTENDS Integers, FiniteSets, SequencesExt

CONSTANTS
  Prog,
  Archivo,
  Paginas,         \* Archivo -> its pages
  PAGE_SIZE,
  TOTAL_FRAME_NUM,
  MaxSeg,          \* bound: segments of a program
  MaxDir,          \* bound: addresses of a program, that are not used again
  Valor,           \* contents of a page
  Cero,            \* the one of zeros
  Extremos

Evitado == {"repite",          \* MAP_PRIVATE of a file that the program has mapped
            "heap_tras_mapa",  \* a new heap segment after a mapped one: it hides the others
            "ajeno",           \* a sync that is given the segment of another program
            "parcial",         \* a sync of some pages of the file
            "reemplazo"}       \* a mapped page is loaded with no frame free

ASSUME MmapAssumption ==
  /\ Paginas \in [Archivo -> Nat \ {0}] /\ "heap" \notin Archivo
  /\ PAGE_SIZE \in Nat \ {0} /\ TOTAL_FRAME_NUM \in Nat /\ MaxSeg \in Nat /\ MaxDir \in Nat
  /\ Cero \in Valor
  /\ Extremos \subseteq Evitado

Pag   == UNION {{f} \X (0 .. Paginas[f] - 1) : f \in Archivo}
Marco == 0 .. (TOTAL_FRAME_NUM - 1)
Flag  == {"MAP_SHARED", "MAP_PRIVATE"}

VARIABLES
  vivo,           \* the server runs
  program_list,   \* the programs, in the order of their first request
  segment_table,  \* of each program
  abierto,        \* files in lista_archivos_mmap
  flag,           \* with which each one was opened
  programas,      \* <<file, program>> -> how many times it is in archivo->programas
  presente,       \* is_present of each page of tabla_paginas
  fr,             \* its frame
  BITMAP,         \* Marco -> free
  MAIN_MEMORY,    \* Marco -> content
  archivo,        \* what the mmap of the server shows of each page
  disco,          \* the file itself
  valor,          \* history: what was last written to each page, or was in the file
  guardado        \* history: what the last sync that answered 0 found, of a file opened
                  \* with MAP_SHARED

tablaVars == <<program_list, segment_table, abierto, flag, programas>>
marcoVars == <<presente, fr, BITMAP, MAIN_MEMORY>>
vars == <<vivo, tablaVars, marcoVars, archivo, disco, valor, guardado>>

De(f) == {q \in Pag : q[1] = f}
Presentes    == {q \in Pag : presente[q]}
MarcosLibres == {m \in Marco : BITMAP[m]}
Primero(x, S) == x \in S /\ \A y \in S : x <= y
EnLista(p) == \E i \in DOMAIN program_list : program_list[i] = p
Entra(p) == program_list' = IF EnLista(p) THEN program_list ELSE Append(program_list, p)

-----------------------------------------------------------------------------
(* The tables of segments                                                  *)

\* busca_segmento takes the first segment whose limits, both included, hold the address.
busca_segmento(p, dir) ==
  LET hallados == {i \in DOMAIN segment_table[p] :
                     segment_table[p][i].base <= dir /\ dir <= segment_table[p][i].limit}
  IN  IF hallados = {} THEN 0 ELSE CHOOSE i \in hallados : \A j \in hallados : i <= j

Ultimo(p) == segment_table[p][Len(segment_table[p])]

BaseNueva_Pegada(p) == IF segment_table[p] = <<>> THEN 0 ELSE Ultimo(p).limit   \* mutant
BaseNueva(p) == IF segment_table[p] = <<>> THEN 0 ELSE Ultimo(p).limit + 1

\* A segment of n pages: es is its file, or "heap".
Segmento(es, base, n, m) ==
  [es |-> es, base |-> base, limit |-> base + n * PAGE_SIZE, marcos |-> m]

\* list_add, and list_remove of the i-th.
ConSegmento(p, s) == segment_table' = [segment_table EXCEPT ![p] = Append(@, s)]
SinSegmento(p, i) == segment_table' = [segment_table EXCEPT ![p] = RemoveAt(@, i)]

\* memory_malloc with no segment, or the last one not a heap: a heap segment that
\* begins at 0. Its only page takes a frame.
memory_malloc_nuevo(p) ==
  /\ Len(segment_table[p]) < MaxSeg
  /\ segment_table[p] # <<>> => "heap_tras_mapa" \in Extremos /\ Ultimo(p).es # "heap"
  /\ \E m \in Marco : /\ Primero(m, MarcosLibres)
                      /\ BITMAP' = [BITMAP EXCEPT ![m] = FALSE]
                      /\ ConSegmento(p, Segmento("heap", 0, 1, {m}))
  /\ Entra(p)
  /\ UNCHANGED <<vivo, abierto, flag, programas, presente, fr, MAIN_MEMORY, archivo, disco,
                 valor, guardado>>

\* The last segment takes one more page.
CreceUltimo(p) ==
  /\ \E m \in Marco :
       /\ Primero(m, MarcosLibres)
       /\ BITMAP' = [BITMAP EXCEPT ![m] = FALSE]
       /\ segment_table' = [segment_table EXCEPT
                              ![p][Len(segment_table[p])].limit = @ + PAGE_SIZE,
                              ![p][Len(segment_table[p])].marcos = @ \cup {m}]
  /\ UNCHANGED <<vivo, program_list, abierto, flag, programas, presente, fr, MAIN_MEMORY,
                 archivo, disco, valor, guardado>>

\* memory_malloc when the last segment is a heap without room. If another segment holds
\* the next address, as one may when heap_tras_mapa, it makes a segment that begins there
\* and writes the metadata of the address 0 in it, which ends the server.
memory_malloc_agranda(p) ==
  /\ segment_table[p] # <<>> /\ Ultimo(p).es = "heap"
  /\ Ultimo(p).limit < MaxDir /\ MarcosLibres # {}
  /\ \/ busca_segmento(p, Ultimo(p).limit + 1) = 0 /\ CreceUltimo(p)
     \/ /\ busca_segmento(p, Ultimo(p).limit + 1) # 0
        /\ vivo' = FALSE
        /\ UNCHANGED <<tablaVars, marcoVars, archivo, disco, valor, guardado>>

-----------------------------------------------------------------------------
(* The pages                                                               *)

\* obtener_data_marco_mmap, of the pages S of a file one after the other: each absent
\* one takes the first free frame and what the file has for it.
Faltan(S) == {q \in S : ~presente[q]}
EnOrden(S, g) ==
  /\ \A q, r \in Faltan(S) : q[2] < r[2] => g[q] < g[r]
  /\ \A q \in Faltan(S), m \in MarcosLibres : m < g[q] => \E r \in Faltan(S) : g[r] = m

Leida_Primera(q) == archivo[<<q[1], 0>>]                                   \* mutant
Leida(q) == archivo[q]

\* They end in the frames g; main memory becomes Traida(S, g).
Traida(S, g) ==
  [m \in Marco |-> IF \E q \in Faltan(S) : g[q] = m
                   THEN Leida(CHOOSE q \in Faltan(S) : g[q] = m) ELSE MAIN_MEMORY[m]]
Trae(S, g) ==
  /\ EnOrden(S, g)
  /\ BITMAP' = [m \in Marco |-> BITMAP[m] /\ \A q \in Faltan(S) : g[q] # m]
  /\ presente' = [q \in Pag |-> presente[q] \/ q \in S]
  /\ fr' = [q \in Pag |-> IF q \in Faltan(S) THEN g[q] ELSE fr[q]]

\* The page at the address dir, if p may use it: memory_get and memory_cpy fail on an
\* unmapped file and on one whose list does not have the program.
Accede(p, dir, q) ==
  LET i == busca_segmento(p, dir)
      s == segment_table[p][i]
  IN /\ i # 0 /\ s.es # "heap" /\ s.es \in abierto /\ programas[<<s.es, p>>] > 0
     /\ q = <<s.es, (dir - s.base) \div PAGE_SIZE>>

\* The pages of the i-th segment, and the addresses that a program has been given.
PagsDe(p, i) == 0 .. (segment_table[p][i].limit - segment_table[p][i].base) \div PAGE_SIZE - 1
Mapeos(p) == {i \in DOMAIN segment_table[p] : segment_table[p][i].es # "heap"}
Dirs(p) ==
  UNION {{segment_table[p][i].base + k * PAGE_SIZE : k \in PagsDe(p, i)} : i \in Mapeos(p)}

\* An absent page and no frame free, the same in the three that load pages. The count of
\* bytes to copy, (nro_pagina + 1) * PAGE_SIZE - limit, is 0 for the last page of a segment
\* at 0, which is filled with zeros, and negative for any other, and the memcpy ends the
\* server. The victim may be mapped or of the heap, and its content goes to the swap file.
obtener_data_marco_mmap_sin_marco(p, dir, q) ==
  IF segment_table[p][busca_segmento(p, dir)].limit = (q[2] + 1) * PAGE_SIZE
  THEN /\ \E m \in Marco :
            /\ presente' = [r \in Pag |-> r = q \/ (presente[r] /\ fr[r] # m)]
            /\ fr' = [fr EXCEPT ![q] = m]
            /\ MAIN_MEMORY' = [MAIN_MEMORY EXCEPT ![m] = Cero]
            /\ segment_table' = [x \in Prog |-> [i \in DOMAIN segment_table[x] |->
                                   [segment_table[x][i] EXCEPT !.marcos = @ \ {m}]]]
       /\ UNCHANGED <<vivo, BITMAP>>
  ELSE vivo' = FALSE /\ UNCHANGED <<segment_table, marcoVars>>

memory_get(p, dir) ==
  /\ \E q \in Pag :
       /\ Accede(p, dir, q)
       /\ IF Faltan({q}) # {} /\ MarcosLibres = {}
          THEN "reemplazo" \in Extremos /\ obtener_data_marco_mmap_sin_marco(p, dir, q)
          ELSE /\ \E g \in [Faltan({q}) -> MarcosLibres] :
                    Trae({q}, g) /\ MAIN_MEMORY' = Traida({q}, g)
               /\ UNCHANGED <<vivo, segment_table>>
  /\ UNCHANGED <<program_list, abierto, flag, programas, archivo, disco, valor, guardado>>

memory_cpy(p, dir, v) ==
  /\ \E q \in Pag :
       /\ Accede(p, dir, q)
       /\ \E g \in [Faltan({q}) -> MarcosLibres] :
            Trae({q}, g) /\ MAIN_MEMORY' = [Traida({q}, g) EXCEPT ![fr'[q]] = v]
       /\ valor' = [valor EXCEPT ![q] = v]
  /\ UNCHANGED <<vivo, tablaVars, archivo, disco, guardado>>

-----------------------------------------------------------------------------
(* Maps                                                                    *)

Usos(f) == {p \in Prog : programas[<<f, p>>] > 0}
Mapeada(f, p) == IF Usos(f) = {} THEN 1 ELSE 0
Nuevas(f, v, w) == [q \in Pag |-> IF q[1] = f THEN w[q] ELSE v[q]]

\* What is asked with MAP_PRIVATE of a file that others have mapped is refused.
Rechaza_Nunca(p, f, fl) == FALSE                                           \* mutant
Rechaza(p, f, fl) == f \in abierto /\ fl = "MAP_PRIVATE" /\ programas[<<f, p>>] = 0

\* With MAP_PRIVATE the program enters the list of the file only if it is empty.
Anota(f, p, fl) ==
  programas' =
    [programas EXCEPT ![<<f, p>>] = @ + IF fl = "MAP_SHARED" THEN 1 ELSE Mapeada(f, p)]

\* A file that is not in the list is opened, with its pages absent. The segment is found
\* again by its base. When heap_tras_mapa another one may hold the base and its fields are
\* set instead: nothing of a program is known from there on, and it is not modelled.
memory_map(p, f, fl) ==
  /\ "heap_tras_mapa" \in Extremos => busca_segmento(p, BaseNueva(p)) = 0
  /\ Len(segment_table[p]) < MaxSeg /\ BaseNueva(p) + Paginas[f] * PAGE_SIZE <= MaxDir
  /\ ~Rechaza(p, f, fl)
  /\ fl = "MAP_PRIVATE" /\ programas[<<f, p>>] > 0 => "repite" \in Extremos
  /\ Entra(p)
  /\ ConSegmento(p, Segmento(f, BaseNueva(p), Paginas[f], {}))
  /\ Anota(f, p, fl)
  /\ IF f \in abierto
     THEN UNCHANGED <<abierto, flag, archivo, valor>>
     ELSE /\ abierto' = abierto \cup {f}
          /\ flag' = [flag EXCEPT ![f] = fl]
          /\ archivo' = Nuevas(f, archivo, disco)
          /\ valor' = Nuevas(f, valor, disco)
  /\ UNCHANGED <<vivo, marcoVars, disco, guardado>>

\* A refused map, a file that does not open, and any request of a program with no segment
\* at the address: the program enters the list and that is all.
falla(p) ==
  /\ ~EnLista(p) /\ Entra(p)
  /\ UNCHANGED <<vivo, segment_table, abierto, flag, programas, marcoVars, archivo, disco,
                 valor, guardado>>

\* The segments of all the programs, in the order of program_list. A sync works out its
\* index in the table of the program and takes that one of this list.
lista_de_segmentos == FlattenSeq([i \in DOMAIN program_list |-> segment_table[program_list[i]]])
Desde(s, dir, k) == (dir - s.base) \div PAGE_SIZE .. (dir - s.base) \div PAGE_SIZE + k - 1

\* What the mmap of f is left with: the frames of its pages K over what it had, and zeros
\* after them when the sync is not of all the bytes of the file.
Volcada_SinMarcos(f, K, mm, fra) == archivo                                \* mutant
Volcada(f, K, mm, fra) ==
  [q \in Pag |->
     CASE q[1] = f /\ q[2] \in K -> mm[fra[q]]
       [] q[1] = f /\ Cardinality(K) < Paginas[f] /\ \A k \in K : k < q[2] -> Cero
       [] OTHER -> archivo[q]]

\* A sync takes multiples of PAGE_SIZE. The bases are not, but for the first: it can be
\* asked for a page by an address inside it.
Alineadas(p) ==
  {PAGE_SIZE * j :
     j \in 0 .. IF segment_table[p] = <<>> THEN 0 ELSE Ultimo(p).limit \div PAGE_SIZE}

\* A sync of k pages from dir, of a map of the program, that answers 0. It reaches the file
\* if it was opened with MAP_SHARED. One that fails changes nothing (falla, if it is the
\* first request).
memory_sync(p, dir, k) ==
  /\ busca_segmento(p, dir) # 0
  /\ LET n == busca_segmento(p, dir)
         pedido == segment_table[p][n]
         s == lista_de_segmentos[n]
         f == s.es
         S == {q \in De(f) : q[2] \in Desde(s, dir, k)}
     IN /\ pedido.es # "heap" /\ Desde(pedido, dir, k) \subseteq PagsDe(p, n)
        /\ f # "heap" /\ programas[<<f, p>>] > 0
        /\ dir + k * PAGE_SIZE <= s.base + s.limit
        /\ Cardinality(S) = k
        /\ s # pedido => "ajeno" \in Extremos
        /\ k < Paginas[f] => "parcial" \in Extremos
        /\ \E g \in [Faltan(S) -> MarcosLibres] :
             /\ Trae(S, g) /\ MAIN_MEMORY' = Traida(S, g)
             /\ archivo' = Volcada(f, Desde(s, dir, k), MAIN_MEMORY', fr')
        /\ disco' = IF flag[f] = "MAP_SHARED" THEN Nuevas(f, disco, archivo') ELSE disco
        /\ guardado' = [q \in Pag |->
             IF q[1] = pedido.es /\ q[2] \in Desde(pedido, dir, k) /\ flag[q[1]] = "MAP_SHARED"
             THEN valor[q] ELSE guardado[q]]
  /\ UNCHANGED <<vivo, tablaVars, valor>>

\* The frames of a file that is closed: those of its present pages.
eliminar_archivo_mmap_Nada(f) == BITMAP                                    \* mutant
eliminar_archivo_mmap(f) ==
  [m \in Marco |-> BITMAP[m] \/ \E q \in De(f) : presente[q] /\ fr[q] = m]

\* The last program of the list closes the file. Its table of pages is destroyed twice,
\* and what that does to the server is up to the C library. What no step reads of a closed
\* file or a free frame goes back to its first value here, to have fewer states.
memory_unmap(p, dir) ==
  LET i == busca_segmento(p, dir)
      f == segment_table[p][i].es
  IN /\ i # 0 /\ f \in abierto /\ programas[<<f, p>>] > 0
     /\ programas' = [programas EXCEPT ![<<f, p>>] = @ - 1]
     /\ SinSegmento(p, i)
     /\ IF \E x \in Prog : programas'[<<f, x>>] > 0
        THEN UNCHANGED <<vivo, abierto, flag, marcoVars, archivo, valor>>
        ELSE /\ abierto' = abierto \ {f}
             /\ BITMAP' = eliminar_archivo_mmap(f)
             /\ presente' = [q \in Pag |-> presente[q] /\ q[1] # f]
             /\ fr' = [q \in Pag |-> IF q[1] = f THEN 0 ELSE fr[q]]
             /\ MAIN_MEMORY' = [m \in Marco |-> IF BITMAP'[m] THEN Cero ELSE MAIN_MEMORY[m]]
             /\ flag' = [flag EXCEPT ![f] = "MAP_SHARED"]
             /\ archivo' = Nuevas(f, archivo, disco)
             /\ valor' = Nuevas(f, valor, disco)
             /\ vivo' \in BOOLEAN
     /\ UNCHANGED <<program_list, disco, guardado>>

-----------------------------------------------------------------------------
Init ==
  /\ vivo = TRUE
  /\ program_list = <<>> /\ segment_table = [p \in Prog |-> <<>>]
  /\ abierto = {} /\ flag = [f \in Archivo |-> "MAP_SHARED"]
  /\ programas = [x \in Archivo \X Prog |-> 0]
  /\ presente = [q \in Pag |-> FALSE] /\ fr = [q \in Pag |-> 0]
  /\ BITMAP = [m \in Marco |-> TRUE] /\ MAIN_MEMORY = [m \in Marco |-> Cero]
  /\ disco = [q \in Pag |-> Cero]
  /\ archivo = disco /\ valor = disco /\ guardado = disco

Next ==
  /\ vivo
  /\ \E p \in Prog :
       \/ falla(p)
       \/ memory_malloc_nuevo(p)
       \/ memory_malloc_agranda(p)
       \/ \E f \in Archivo, fl \in Flag : memory_map(p, f, fl)
       \/ \E dir \in Dirs(p) : \/ memory_get(p, dir)
                               \/ \E v \in Valor : memory_cpy(p, dir, v)
                               \/ memory_unmap(p, dir)
       \/ \E dir \in Alineadas(p), k \in 1 .. Cardinality(Pag) : memory_sync(p, dir, k)

Spec == Init /\ [][Next]_vars

-----------------------------------------------------------------------------
(* Properties                                                              *)

\* Every page of a program is reached: the address of a page of a segment is found in that
\* segment, whatever was mapped, unmapped and allocated before. The base of a segment is
\* worked out from the last one of the table and busca_segmento takes the first that
\* holds the address.
DireccionPropia ==
  \A p \in Prog : \A i \in DOMAIN segment_table[p] : \A k \in PagsDe(p, i) :
    busca_segmento(p, segment_table[p][i].base + k * PAGE_SIZE) = i

\* A file is open while it has maps that were not undone, as many as each program made and
\* no other, so that it closes with the last one (libmuse.h, the note of muse_unmap).
CuentaMapeos ==
  \A f \in Archivo :
    /\ \A p \in Prog :
         Cardinality({i \in Mapeos(p) : segment_table[p][i].es = f}) = programas[<<f, p>>]
    /\ f \in abierto <=> Usos(f) # {}

\* A frame that is not free has one owner, a page of an open file or a heap segment, and a
\* free one has none: closing a file gives back its frames and only them.
Duenios(m) == {q \in Presentes : fr[q] = m /\ q[1] \in abierto}
              \cup {o \in Prog \X (1 .. MaxSeg) :
                      /\ o[2] \in DOMAIN segment_table[o[1]]
                      /\ m \in segment_table[o[1]][o[2]].marcos}
MarcosCoherentes ==
  \A m \in Marco : Cardinality(Duenios(m)) = IF BITMAP[m] THEN 0 ELSE 1

\* A page of a mapped file reads as it was last written by any program that maps it, or as
\* the file had it: whoever brought it to a frame, whoever maps it since, and after syncs.
LecturaMapeada ==
  \A q \in Pag : q[1] \in abierto =>
    (IF presente[q] THEN MAIN_MEMORY[fr[q]] ELSE archivo[q]) = valor[q]

\* The file has what its map had in the last muse_sync that answered 0, if it was opened
\* with MAP_SHARED: with no sync it does not change, and to unmap it and to map it again
\* loses nothing that was synced.
SincronizadoDura == \A q \in Pag : disco[q] = guardado[q]
=============================================================================
