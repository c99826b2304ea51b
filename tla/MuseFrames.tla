----------------------------- MODULE MuseFrames -----------------------------
(***************************************************************************)
(* The frames of MUSE: the page tables of the heap segments, the frames of *)
(* main memory and of the swap file, and the clock-M replacement of        *)
(* memoria/main_memory.c.                                                  *)
(*                                                                         *)
(* Every access to a page (buscar_metadata, modificar_metadata, memory_get *)
(* and memory_cpy) goes through obtener_data_marco_heap, which brings an   *)
(* absent page in and may send another one to swap.  A step is one access  *)
(* of a critical section of mutex_lock.  Segments are numbered in the      *)
(* order of lista_de_segmentos; the content of a page is one value.        *)
(***************************************************************************)
EXTENDS Integers, FiniteSets

CONSTANTS
  NSeg,      \* heap segments
  MaxPag,    \* bound: pages of a segment
  TOTAL_FRAME_NUM,
  TOTAL_FRAME_NUM_SWAP,
  Valor      \* contents of a page

ASSUME FramesAssumption ==
  /\ NSeg \in Nat
  /\ MaxPag \in Nat
  /\ TOTAL_FRAME_NUM \in Nat \ {0}
  /\ TOTAL_FRAME_NUM_SWAP \in Nat
  /\ Valor # {}

Seg   == 1 .. NSeg
Pag   == Seg \X (1 .. MaxPag)
Marco == 0 .. (TOTAL_FRAME_NUM - 1)
Slot  == 0 .. (TOTAL_FRAME_NUM_SWAP - 1)

VARIABLES
  tabla,             \* Seg -> pages in its page_table
  presente,          \* is_present
  usado,             \* is_used
  modif,             \* is_modify
  fr,                \* frame of a present page, slot of the swap file of an absent one
  BITMAP,            \* Marco -> free
  BITMAP_SWAP_FILE,  \* Slot -> free
  MAIN_MEMORY,       \* Marco -> content
  swapfile,          \* Slot -> content
  clock,             \* <<segmentoClock, paginaClock>>
  puntero,           \* modificar_metadata between its two pages
  valor,             \* history: what was last written to each page
  danadas            \* history: pages that shared a frame or were torn in two

marcoVars == <<presente, usado, fr, BITMAP, BITMAP_SWAP_FILE, swapfile, clock>>
vars == <<tabla, modif, marcoVars, MAIN_MEMORY, puntero, valor, danadas>>

Paginas      == {q \in Pag : q[2] <= tabla[q[1]]}
Presentes    == {q \in Paginas : presente[q]}
MarcosLibres == {f \in Marco : BITMAP[f]}
SwapLibres   == {s \in Slot : BITMAP_SWAP_FILE[s]}
Primero(x, S) == x \in S /\ \A y \in S : x <= y
NoPuntero    == [en |-> -1]

-----------------------------------------------------------------------------
(* dame_nro_frame_reemplazado                                              *)

\* The order of the scan, and the first page of a set in it.
Antes(q, r)   == q[1] < r[1] \/ (q[1] = r[1] /\ q[2] < r[2])
Primera(q, C) == q \in C /\ \A r \in C \ {q} : Antes(q, r)

\* The first round looks for (U,M) = (0,0) from the pointer to the end of the list;
\* the others begin at the start of the list. The second looks for (0,1) and clears
\* U on its way, the third for (0,0) again and the fourth for (0,1) again.
Ronda1 == {q \in Presentes : ~usado[q] /\ ~modif[q] /\ Antes(clock, q)}
Ronda2 == {q \in Presentes : ~usado[q] /\ modif[q]}
Ronda3 == {q \in Presentes : ~modif[q]}

Victima_Fifo(v) == Primera(v, Presentes)                                   \* mutant
Victima(v) ==
  Primera(v, IF Ronda1 # {} THEN Ronda1 ELSE IF Ronda2 # {} THEN Ronda2
             ELSE IF Ronda3 # {} THEN Ronda3 ELSE Presentes)
UsadoTras(v) ==
  IF Ronda1 # {} THEN usado
  ELSE IF Ronda2 # {} THEN [q \in Pag |-> usado[q] /\ ~(q \in Presentes /\ Antes(q, v))]
  ELSE [q \in Pag |-> usado[q] /\ q \notin Presentes]

-----------------------------------------------------------------------------
(* Bringing a page into a frame                                            *)

\* liberar_frame_swap of the slot of q, if q had one.
Liberar_Nada(b, q) == b                                                    \* mutant
Liberar(b, q) ==
  IF q \in Paginas /\ ~presente[q] THEN [b EXCEPT ![fr[q]] = TRUE] ELSE b

EnMarco(p, q) == [p EXCEPT ![q] = TRUE]

CargaEnLibre(q, f) ==
  /\ Primero(f, MarcosLibres)
  /\ BITMAP' = [BITMAP EXCEPT ![f] = FALSE]
  /\ BITMAP_SWAP_FILE' = Liberar(BITMAP_SWAP_FILE, q)
  /\ presente' = EnMarco(presente, q)
  /\ fr' = [fr EXCEPT ![q] = f]
  /\ usado' = [usado EXCEPT ![q] = TRUE]
  /\ UNCHANGED <<swapfile, clock>>

\* se_hace_la_vistima with a free slot in the swap file: the victim goes there.
CargaPorVictima(q, f) ==
  \E v \in Paginas, s \in Slot :
    /\ MarcosLibres = {} /\ Victima(v) /\ f = fr[v] /\ Primero(s, SwapLibres)
    /\ swapfile' = [swapfile EXCEPT ![s] = MAIN_MEMORY[f]]
    /\ BITMAP_SWAP_FILE' = Liberar([BITMAP_SWAP_FILE EXCEPT ![s] = FALSE], q)
    /\ presente' = EnMarco([presente EXCEPT ![v] = FALSE], q)
    /\ fr' = [fr EXCEPT ![v] = s, ![q] = f]
    /\ usado' = [UsadoTras(v) EXCEPT ![q] = TRUE]
    /\ clock' = v
    /\ UNCHANGED BITMAP

\* Without one the error is logged and the frame is taken anyway: the victim goes on
\* believing that it is its own.
CargaSinSwap(q, f) ==
  \E v \in Paginas :
    /\ MarcosLibres = {} /\ Victima(v) /\ f = fr[v] /\ SwapLibres = {}
    /\ BITMAP_SWAP_FILE' = Liberar(BITMAP_SWAP_FILE, q)
    /\ presente' = EnMarco(presente, q)
    /\ fr' = [fr EXCEPT ![q] = f]
    /\ usado' = [UsadoTras(v) EXCEPT ![q] = TRUE]
    /\ clock' = v
    /\ UNCHANGED <<BITMAP, swapfile>>

\* obtener_data_marco_heap of an absent page, or page_with_free_size of a new one: q
\* enters the frame f.
Carga(q, f) == CargaEnLibre(q, f) \/ CargaPorVictima(q, f) \/ CargaSinSwap(q, f)

\* The pages that the load of q leaves in one frame, if there are two.
Comparten(q, f) ==
  LET otras == {r \in Presentes \ {q} : presente'[r] /\ fr'[r] = f}
  IN  IF otras = {} THEN {} ELSE otras \cup {q}

-----------------------------------------------------------------------------
Init ==
  /\ tabla = [s \in Seg |-> 0]
  /\ presente = [q \in Pag |-> FALSE]
  /\ usado = [q \in Pag |-> FALSE]
  /\ modif = [q \in Pag |-> FALSE]
  /\ fr = [q \in Pag |-> 0]
  /\ BITMAP = [f \in Marco |-> TRUE]
  /\ BITMAP_SWAP_FILE = [s \in Slot |-> TRUE]
  /\ \E v \in Valor : /\ MAIN_MEMORY = [f \in Marco |-> v]
                      /\ swapfile = [s \in Slot |-> v]
                      /\ valor = [q \in Pag |-> v]
  /\ clock = <<1, 1>>
  /\ puntero = NoPuntero
  /\ danadas = {}

\* page_with_free_size for the next page of a segment that memory_malloc creates or
\* grows. Its check of the free frames was made in an earlier critical section: there
\* may be none left. The new page keeps what the frame held.
page_with_free_size(s) ==
  LET q == <<s, tabla[s] + 1>> IN
  /\ puntero = NoPuntero /\ tabla[s] < MaxPag
  /\ tabla' = [tabla EXCEPT ![s] = @ + 1]
  /\ modif' = [modif EXCEPT ![q] = FALSE]
  /\ \E f \in Marco : /\ Carga(q, f)
                      /\ valor' = [valor EXCEPT ![q] = MAIN_MEMORY[f]]
                      /\ danadas' = danadas \cup Comparten(q, f)
  /\ UNCHANGED <<MAIN_MEMORY, puntero>>

\* What the swap file keeps of q, read before its frame f is overwritten.
Guardado_SinLeer(q, f) == MAIN_MEMORY[f]                                   \* mutant
Guardado(q, f) == swapfile[fr[q]]

\* q comes back from the swap file.
Trae(q, f) ==
  /\ q \in Paginas /\ ~presente[q]
  /\ Carga(q, f)
  /\ MAIN_MEMORY' = [MAIN_MEMORY EXCEPT ![f] = Guardado(q, f)]
  /\ danadas' = danadas \cup Comparten(q, f)

\* memory_get and buscar_metadata_por_direccion of an absent page; of a present one
\* they change nothing, not even is_used.
memory_get(q) ==
  /\ puntero = NoPuntero
  /\ \E f \in Marco : Trae(q, f)
  /\ UNCHANGED <<tabla, modif, puntero, valor>>

\* A write of v through the result of obtener_data_marco_heap.
Escribe(q, v) ==
  /\ puntero = NoPuntero /\ q \in Paginas
  /\ \/ /\ presente[q]
        /\ MAIN_MEMORY' = [MAIN_MEMORY EXCEPT ![fr[q]] = v]
        /\ UNCHANGED <<marcoVars, danadas>>
     \/ /\ ~presente[q]
        /\ \E f \in Marco : /\ Carga(q, f)
                            /\ MAIN_MEMORY' = [MAIN_MEMORY EXCEPT ![f] = v]
                            /\ danadas' = danadas \cup Comparten(q, f)
  /\ valor' = [valor EXCEPT ![q] = v]
  /\ UNCHANGED <<tabla, puntero>>

memory_cpy(q, v) == Escribe(q, v) /\ modif' = [modif EXCEPT ![q] = TRUE]

\* Of a HeapMetadata within one page; is_modify is not set.
modificar_metadata(q, v) == Escribe(q, v) /\ UNCHANGED modif

Sigue(q) == <<q[1], q[2] + 1>>

\* modificar_metadata of one that continues in the next page keeps a pointer to the
\* frame of the first page...
metadata_cortada(q, v) ==
  /\ puntero = NoPuntero /\ q \in Paginas /\ Sigue(q) \in Paginas
  /\ \E f \in Marco :
       /\ puntero' = [en |-> f, pag |-> q, v |-> v]
       /\ \/ presente[q] /\ f = fr[q] /\ UNCHANGED <<marcoVars, MAIN_MEMORY, danadas>>
          \/ Trae(q, f)
  /\ UNCHANGED <<tabla, modif, valor>>

\* ... while it obtains the second one, which may take that very frame, and then
\* writes through both pointers.
metadata_cortada_2 ==
  /\ puntero # NoPuntero
  /\ LET q == puntero.pag
         r == Sigue(q)
         v == puntero.v
     IN /\ \E f \in Marco :
             /\ MAIN_MEMORY' = [MAIN_MEMORY EXCEPT ![puntero.en] = v, ![f] = v]
             /\ \/ presente[r] /\ f = fr[r] /\ UNCHANGED <<marcoVars, danadas>>
                \/ /\ ~presente[r]
                   /\ Carga(r, f)
                   /\ danadas' = danadas \cup Comparten(r, f)
                                   \cup (IF f = puntero.en THEN {q, r} ELSE {})
        /\ valor' = [valor EXCEPT ![q] = v, ![r] = v]
  /\ puntero' = NoPuntero
  /\ UNCHANGED <<tabla, modif>>

Next ==
  \/ \E s \in Seg : page_with_free_size(s)
  \/ \E q \in Pag : memory_get(q)
  \/ \E q \in Pag, v \in Valor :
       memory_cpy(q, v) \/ modificar_metadata(q, v) \/ metadata_cortada(q, v)
  \/ metadata_cortada_2

Spec == Init /\ [][Next]_vars

-----------------------------------------------------------------------------
(* Properties                                                              *)

TypeOK ==
  /\ tabla \in [Seg -> 0 .. MaxPag]
  /\ presente \in [Pag -> BOOLEAN] /\ usado \in [Pag -> BOOLEAN] /\ modif \in [Pag -> BOOLEAN]
  /\ fr \in [Pag -> Nat]
  /\ \A q \in Paginas : fr[q] \in (IF presente[q] THEN Marco ELSE Slot)
  /\ BITMAP \in [Marco -> BOOLEAN] /\ BITMAP_SWAP_FILE \in [Slot -> BOOLEAN]
  /\ MAIN_MEMORY \in [Marco -> Valor] /\ swapfile \in [Slot -> Valor]
  /\ clock \in Paginas \cup {<<1, 1>>}
  /\ \/ puntero = NoPuntero
     \/ /\ puntero \in [en : Marco, pag : Paginas, v : Valor]
        /\ Sigue(puntero.pag) \in Paginas
  /\ valor \in [Pag -> Valor]
  /\ danadas \subseteq Paginas

\* The bitmaps and the page tables agree: the used frames are those of the present
\* pages, the used slots those of the absent ones, and no slot holds two pages.
BitmapsCoherentes ==
  /\ \A f \in Marco : BITMAP[f] <=> \A q \in Presentes : fr[q] # f
  /\ \A s \in Slot : BITMAP_SWAP_FILE[s] <=> \A q \in Paginas \ Presentes : fr[q] # s
  /\ \A q, r \in Paginas \ Presentes : q # r => fr[q] # fr[r]

\* As long as the pages are fewer than the frames and slots together, no two present
\* pages have the same frame.
UnMarcoPorPagina ==
  Cardinality(Paginas) < TOTAL_FRAME_NUM + TOTAL_FRAME_NUM_SWAP =>
    \A q, r \in Presentes : q # r => fr[q] # fr[r]

Contenido(q) == IF presente[q] THEN MAIN_MEMORY[fr[q]] ELSE swapfile[fr[q]]

\* A page that never shared its frame and was never written through a stale pointer
\* holds what was last written to it, wherever the replacement has put it.
LecturaFiel == \A q \in Paginas \ danadas : Contenido(q) = valor[q]

\* A page in use and modified is sent to swap only when every present page is both.
VictimaUsadaYModificada ==
  [][\A v \in Presentes :
       usado[v] /\ modif[v] /\ ~presente'[v] => \A q \in Presentes : usado[q] /\ modif[q]]_vars
=============================================================================
