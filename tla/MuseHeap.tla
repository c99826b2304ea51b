------------------------------ MODULE MuseHeap ------------------------------
(***************************************************************************)
(* The heap of MUSE: memory_malloc and memory_free of                      *)
(* memoria/main_memory.c for programs that map no files.                   *)
(*                                                                         *)
(* Such a program has at most one segment, of base 0.  The segment is a    *)
(* chain of blocks; each block begins with a HeapMetadata (its size and    *)
(* is_free) and the next one begins where it ends, so the chain is a       *)
(* sequence and the address of a block follows from the sizes before it.   *)
(*                                                                         *)
(* memory_malloc gives mutex_lock up between its check of the free frames  *)
(* and the search for a block, and calls itself again after it has created *)
(* or grown the segment: the requests of different programs interleave     *)
(* there.  SWAP_SIZE is 0: the traffic of pages is the subject of          *)
(* MuseFrames.                                                             *)
(***************************************************************************)
EXTENDS Integers, Sequences, SequencesExt, FiniteSetsExt

CONSTANTS
  Prog,       \* client programs
  Tams,       \* the sizes that clients ask for
  PAGE_SIZE,
  MARCOS,     \* TOTAL_FRAME_NUM
  UINT32,     \* 2^32, where the unsigned using_memory wraps around
  MaxVivas,   \* bound: how many allocations each client holds at once
  Nadie       \* "no owner" of mutex_lock

ASSUME HeapAssumption ==
  /\ Tams \subseteq Nat
  /\ PAGE_SIZE \in Nat \ {0}
  /\ MARCOS \in Nat
  /\ UINT32 \in Nat \ {0}
  /\ MaxVivas \in [Prog -> Nat]
  /\ Nadie \notin Prog

METADATA_SIZE == 5
Bloque == [tam : Nat, libre : BOOLEAN]

VARIABLES
  bloques,       \* Prog -> the chain of its segment, <<>> without a segment
  limite,        \* Prog -> limit of its segment, 0 without a segment
  libres,        \* number_of_free_frames
  using_memory,  \* Prog -> bytes in use by its own count
  mutex_lock,    \* who holds mutex_lock between two steps
  pc,            \* Prog -> where its handler is: "listo", "valida", "ubica" or "fin"
  pedido,        \* Prog -> the size asked for
  vivas,         \* Prog -> the allocations its client holds, oldest first
  desvio,        \* history: what has befallen the blocks in use of a program
  dano           \* why the contents of memory are no longer known, if they are not

vars == <<bloques, limite, libres, using_memory, mutex_lock, pc, pedido, vivas, desvio, dano>>

-----------------------------------------------------------------------------
(* The chain of blocks                                                     *)

\* Bytes of the first n blocks, or allocations, without their metadata.
Bytes(s, n) ==
  LET suma[k \in 0 .. n] == IF k = 0 THEN 0 ELSE suma[k - 1] + s[k].tam
  IN  suma[n]

\* Logical address of the i-th HeapMetadata of the chain.
Dir(b, i) == Bytes(b, i - 1) + (i - 1) * METADATA_SIZE

paginas(bytes) == -((-bytes) \div PAGE_SIZE)       \* ceil, also of a negative number

\* proxima_metadata_libre_con_size: the block that will hold total bytes, 0 if none.
\* The walk looks one block ahead of the last but one, which it never considers;
\* a block alone in its segment is returned without a look at is_free.
con_size_Cualquiera(b, total) ==                                           \* mutant
  LET C == {i \in 1 .. Len(b) : b[i].tam >= total} IN IF C = {} THEN 0 ELSE Min(C)
con_size_Estricto(b, total) ==                                             \* mutant
  IF b # <<>> /\ Last(b).libre /\ Last(b).tam > total THEN Len(b) ELSE 0
proxima_metadata_libre_con_size(b, total) ==
  LET n == Len(b)
      cabe(i) == b[i].tam >= total
      C == {i \in 1 .. (n - 2) : b[i].libre /\ cabe(i)}
  IN  IF n = 1 THEN (IF cabe(1) THEN 1 ELSE 0)
      ELSE IF C # {} THEN Min(C)
      ELSE IF n > 0 /\ b[n].libre /\ cabe(n) THEN n ELSE 0

\* proxima_metadata_libre from the i-th block on: the walk stops at the last but
\* one and answers with it, free or not, when the last one is free.
proxima_metadata_libre(b, i) ==
  LET n == Len(b)
      C == {j \in i .. (n - 2) : b[j].libre}
  IN  IF i = n THEN (IF b[n].libre THEN n ELSE 0)
      ELSE IF C # {} THEN Min(C)
      ELSE IF b[n].libre THEN n - 1 ELSE 0

\* The i-th block takes in the next one and keeps its own is_free.
Unidos(b, i) ==
  SubSeq(b, 1, i - 1)
    \o <<[b[i] EXCEPT !.tam = @ + b[i + 1].tam + METADATA_SIZE]>>
    \o SubSeq(b, i + 2, Len(b))

\* A chain and one of its blocks, not the last, from which the walk goes on.
Cadenas == {y \in Seq(Bloque) \X Nat : y[2] \in 1 .. (Len(y[1]) - 1)}
compactar_en_segmento[x \in Cadenas] ==
  LET b == x[1]
      i == x[2]
      n == Len(b)
      j == proxima_metadata_libre(b, i + 1)
  IN  IF b[i + 1].libre
        THEN IF i + 1 = n THEN Unidos(b, i) ELSE compactar_en_segmento[<<Unidos(b, i), i>>]
        ELSE IF i + 1 = n \/ j = 0 THEN b ELSE compactar_en_segmento[<<b, j>>]

compactar_UnaVez(b) ==                                                     \* mutant
  LET j == proxima_metadata_libre(b, 1)
  IN  IF j \notin {0, Len(b)} /\ b[j + 1].libre THEN Unidos(b, j) ELSE b
compactar_espacios_libres(b) ==
  LET j == proxima_metadata_libre(b, 1)
  IN  IF j \in {0, Len(b)} THEN b ELSE compactar_en_segmento[<<b, j>>]

\* The last block is free and the one before it in use: the walk answers with the
\* latter, and compacting adds the free block to the one in use.
Absorbe(b) ==
  LET n == Len(b) IN n > 1 /\ b[n].libre /\ ~b[n - 1].libre

\* The found block is cut in two; the rest, which may be empty, is a free block.
Cortado_SinMetadata(b, i, size) ==                                         \* mutant
  SubSeq(b, 1, i - 1)
    \o <<[tam |-> size, libre |-> FALSE], [tam |-> b[i].tam - size, libre |-> TRUE]>>
    \o SubSeq(b, i + 1, Len(b))
Cortado_SiSobra(b, i, size) ==                                             \* mutant
  LET resto == b[i].tam - (size + METADATA_SIZE)
  IN  IF resto = 0 THEN [b EXCEPT ![i].libre = FALSE]
      ELSE SubSeq(b, 1, i - 1)
             \o <<[tam |-> size, libre |-> FALSE], [tam |-> resto, libre |-> TRUE]>>
             \o SubSeq(b, i + 1, Len(b))
Cortado(b, i, size) ==
  SubSeq(b, 1, i - 1)
    \o <<[tam |-> size, libre |-> FALSE],
         [tam |-> b[i].tam - (size + METADATA_SIZE), libre |-> TRUE]>>
    \o SubSeq(b, i + 1, Len(b))

\* Growing marks the last block free, whatever it was.
Crecido(b, pags) ==
  [b EXCEPT ![Len(b)] = [tam |-> @.tam + pags * PAGE_SIZE, libre |-> TRUE]]

-----------------------------------------------------------------------------
Init ==
  /\ bloques = [p \in Prog |-> <<>>]
  /\ limite = [p \in Prog |-> 0]
  /\ libres = MARCOS
  /\ using_memory = [p \in Prog |-> 0]
  /\ mutex_lock = Nadie
  /\ pc = [p \in Prog |-> "listo"]
  /\ pedido = [p \in Prog |-> 0]
  /\ vivas = [p \in Prog |-> <<>>]
  /\ desvio = [p \in Prog |-> "nada"]
  /\ dano = "ninguno"

\* muse_alloc sends its request.
muse_alloc(p, size) ==
  /\ pc[p] = "listo" /\ Len(vivas[p]) < MaxVivas[p]
  /\ pc' = [pc EXCEPT ![p] = "valida"]
  /\ pedido' = [pedido EXCEPT ![p] = size]
  /\ UNCHANGED <<bloques, limite, libres, using_memory, mutex_lock, vivas, desvio, dano>>

\* The first critical section of memory_malloc. A size of 0 is answered with
\* mutex_lock held; without memory the answer is -1, on which muse_alloc raises
\* SIGSEGV.
memory_malloc_valida(p) ==
  /\ pc[p] = "valida" /\ mutex_lock = Nadie
  /\ \/ /\ pedido[p] = 0
        /\ mutex_lock' = p
        /\ pc' = [pc EXCEPT ![p] = "listo"]
     \/ /\ pedido[p] > 0
        /\ pc' = [pc EXCEPT ![p] =
                    IF pedido[p] + METADATA_SIZE > libres * PAGE_SIZE
                      THEN "fin" ELSE "ubica"]
        /\ UNCHANGED mutex_lock
  /\ UNCHANGED <<bloques, limite, libres, using_memory, pedido, vivas, desvio, dano>>

\* The pages of a new or grown segment. Nothing looks at the free frames again:
\* with too few, page_with_free_size gives a frame that another page still uses.
TomaPaginas(p, pags) ==
  /\ limite' = [limite EXCEPT ![p] = @ + Max({pags, 0}) * PAGE_SIZE]
  /\ libres' = Max({libres - Max({pags, 0}), 0})
  /\ dano' = IF pags < 0 THEN "cadena"
             ELSE IF pags > libres THEN "marcos" ELSE dano
  /\ pc' = [pc EXCEPT ![p] = "valida"]
  /\ UNCHANGED <<using_memory, vivas>>

memory_malloc_ubica(p) ==
  /\ pc[p] = "ubica" /\ mutex_lock = Nadie
  /\ LET b == bloques[p]
         size == pedido[p]
         total == size + METADATA_SIZE
         i == proxima_metadata_libre_con_size(b, total)
     IN \/ \* There is room in the segment.
           /\ i # 0
           /\ bloques' = [bloques EXCEPT ![p] = Cortado(b, i, size)]
           /\ vivas' = [vivas EXCEPT ![p] =
                          Append(@, [dir |-> Dir(b, i) + METADATA_SIZE, tam |-> size])]
           /\ using_memory' = [using_memory EXCEPT ![p] = (@ + size) % UINT32]
           /\ pc' = [pc EXCEPT ![p] = "listo"]
           /\ UNCHANGED <<limite, libres, desvio, dano>>
        \/ \* The segment grows.
           /\ i = 0 /\ b # <<>>
           /\ LET pags == paginas(total - Last(b).tam)
              IN bloques' = [bloques EXCEPT ![p] = Crecido(b, pags)] /\ TomaPaginas(p, pags)
           /\ desvio' = [desvio EXCEPT ![p] = IF Last(b).libre THEN @ ELSE "pisa"]
        \/ \* The first segment.
           /\ b = <<>>
           /\ LET pags == paginas(size + 2 * METADATA_SIZE)
              IN /\ bloques' = [bloques EXCEPT ![p] =
                       <<[tam |-> pags * PAGE_SIZE - METADATA_SIZE, libre |-> TRUE]>>]
                 /\ TomaPaginas(p, pags)
           /\ UNCHANGED desvio
  /\ UNCHANGED <<mutex_lock, pedido>>

\* memory_free of an allocation that the client holds.
memory_free(p, k) ==
  /\ pc[p] = "listo" /\ mutex_lock = Nadie
  /\ LET b == bloques[p]
         I == {i \in 1 .. Len(b) : Dir(b, i) = vivas[p][k].dir - METADATA_SIZE}
     IN \/ \E i \in I :
             /\ LET c == [b EXCEPT ![i].libre = TRUE]
                IN /\ bloques' = [bloques EXCEPT ![p] = compactar_espacios_libres(c)]
                   /\ desvio' = [desvio EXCEPT ![p] =
                                    IF @ = "nada" /\ Absorbe(c) THEN "absorbe" ELSE @]
             /\ using_memory' = [using_memory EXCEPT ![p] = (@ - b[i].tam) % UINT32]
             /\ UNCHANGED dano
        \/ \* No block begins there any more.
           /\ I = {}
           /\ dano' = "cadena"
           /\ UNCHANGED <<bloques, using_memory, desvio>>
  /\ vivas' = [vivas EXCEPT ![p] = RemoveAt(@, k)]
  /\ UNCHANGED <<limite, libres, mutex_lock, pc, pedido>>

\* The client ends: el_cliente_se_tomo_el_palo reports the leak and frees nothing.
desconexion(p) ==
  /\ pc[p] = "listo"
  /\ pc' = [pc EXCEPT ![p] = "fin"]
  /\ UNCHANGED <<bloques, limite, libres, using_memory, mutex_lock, pedido, vivas, desvio, dano>>

memory_malloc(p) == memory_malloc_valida(p) \/ memory_malloc_ubica(p)

Next ==
  /\ dano = "ninguno"
  /\ \E p \in Prog : \/ \E size \in Tams : muse_alloc(p, size)
                     \/ memory_malloc(p)
                     \/ \E k \in 1 .. Len(vivas[p]) : memory_free(p, k)
                     \/ desconexion(p)

Spec     == Init /\ [][Next]_vars
\* A handler that can go on is eventually scheduled.
FairSpec == Spec /\ \A p \in Prog : WF_vars(dano = "ninguno" /\ memory_malloc(p))

-----------------------------------------------------------------------------
(* Properties                                                              *)

\* The pages of the segments.
Paginas == UNION {{p} \X (1 .. (limite[p] \div PAGE_SIZE)) : p \in Prog}

\* The chain of every segment ends exactly at its limit, after any sequence of cuts,
\* merges and growths, and every frame is either free or holds one page of a segment.
CadenaCubreSegmento ==
  dano = "ninguno" =>
    /\ \A p \in Prog : Dir(bloques[p], Len(bloques[p]) + 1) = limite[p]
    /\ libres + Cardinality(Paginas) = MARCOS

\* What muse_alloc promises: the memory an allocation was given belongs to it until
\* it is freed. Two allocations of a program never overlap, and the block of each is
\* in use and large enough (memory_cpy refuses to write it otherwise).
Rango(a) == a.dir .. (a.dir + a.tam - 1)
Separadas(p) ==
  /\ \A k \in 1 .. Len(vivas[p]) :
       \E i \in 1 .. Len(bloques[p]) :
         /\ Dir(bloques[p], i) = vivas[p][k].dir - METADATA_SIZE
         /\ ~bloques[p][i].libre /\ bloques[p][i].tam >= vivas[p][k].tam
  /\ \A k1, k2 \in 1 .. Len(vivas[p]) :
       k1 # k2 => Rango(vivas[p][k1]) \cap Rango(vivas[p][k2]) = {}
VivasSeparadas == \A p \in Prog : Separadas(p)

\* The same up to the first growth that marks a block in use free (line 846), which
\* is the only step of any order of requests and frees that breaks it: not the
\* choice of a block alone in its segment without a look at is_free, nor a merge
\* that adds the free last block to one in use.
SeparadasHastaPisar == \A p \in Prog : desvio[p] # "pisa" => Separadas(p)

\* The leak that is reported when a client ends is what it did not free, until the
\* free of a block leaves the last block free after one in use: that block takes the
\* free one in, and its own free subtracts both.
FugaExacta ==
  \A p \in Prog : desvio[p] = "nada" =>
    using_memory[p] = Bytes(vivas[p], Len(vivas[p])) % UINT32

\* A program that has freed everything, in whatever order, has its heap back in one
\* free block: the walk of the merges skips no two free blocks in a row.
TodoLibreEsUnBloque ==
  \A p \in Prog : desvio[p] # "pisa" /\ vivas[p] = <<>> /\ bloques[p] # <<>> =>
    Len(bloques[p]) = 1 /\ bloques[p][1].libre

\* memory_malloc, which calls itself after each growth, ends and answers.
MallocResponde ==
  \A p \in Prog :
    pc[p] \in {"valida", "ubica"} ~> (pc[p] \in {"listo", "fin"} \/ dano # "ninguno")
=============================================================================
