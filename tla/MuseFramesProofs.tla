-------------------------- MODULE MuseFramesProofs --------------------------
(* Theorems about MuseFrames for every number of segments, pages, frames   *)
(* and slots.                                                              *)
EXTENDS MuseFrames, TLAPS, FiniteSetTheorems

\* Two present pages have one frame only if both are counted as damaged.
CompartidasDanadas ==
  \A q, r \in Presentes : q # r /\ fr[q] = fr[r] => q \in danadas /\ r \in danadas

\* Between the halves of modificar_metadata the pointer kept is the frame of its page.
PunteroFresco ==
  puntero # NoPuntero => puntero.pag \in Presentes /\ fr[puntero.pag] = puntero.en

IInv == TypeOK /\ BitmapsCoherentes /\ CompartidasDanadas /\ PunteroFresco /\ LecturaFiel

-----------------------------------------------------------------------------
(* What bringing a page in does                                            *)

LEMMA VictimaPresente ==
  ASSUME NEW v, Victima(v)
  PROVE  v \in Presentes
BY DEF Victima, Primera, Ronda1, Ronda2, Ronda3

LEMMA PaginaEnPag == Paginas \subseteq Pag /\ Presentes \subseteq Paginas
BY DEF Paginas, Presentes

\* A page r other than the one that enters f stays where it was, or was in f and goes
\* to a slot with the content of f.
Queda(r, f) ==
  \/ /\ presente'[r] = presente[r] /\ fr'[r] = fr[r]
     /\ ~presente[r] => swapfile'[fr[r]] = swapfile[fr[r]]
  \/ /\ presente[r] /\ ~presente'[r]
     /\ fr[r] = f /\ fr'[r] \in Slot /\ swapfile'[fr'[r]] = MAIN_MEMORY[f]

Tipos ==
  /\ presente \in [Pag -> BOOLEAN] /\ usado \in [Pag -> BOOLEAN] /\ fr \in [Pag -> Nat]
  /\ BITMAP \in [Marco -> BOOLEAN] /\ BITMAP_SWAP_FILE \in [Slot -> BOOLEAN]
  /\ swapfile \in [Slot -> Valor]

LEMMA TiposDeTypeOK ==
  ASSUME TypeOK
  PROVE  /\ Tipos
         /\ MAIN_MEMORY \in [Marco -> Valor]
         /\ \A r \in Paginas : fr[r] \in (IF presente[r] THEN Marco ELSE Slot)
         /\ Marco \subseteq Nat /\ Slot \subseteq Nat
BY DEF TypeOK, Tipos, Marco, Slot

LEMMA LiberarTipo ==
  ASSUME Tipos, NEW b \in [Slot -> BOOLEAN], NEW q
  PROVE  Liberar(b, q) \in [Slot -> BOOLEAN]
BY DEF Liberar, Tipos

LEMMA UsadoTipo ==
  ASSUME Tipos, NEW v, NEW q
  PROVE  [UsadoTras(v) EXCEPT ![q] = TRUE] \in [Pag -> BOOLEAN]
<1>1. UsadoTras(v) \in [Pag -> BOOLEAN] BY DEF UsadoTras, Tipos
<1>2. QED BY <1>1

\* Entering a free frame.
LEMMA EnLibreEfecto ==
  ASSUME TypeOK, BitmapsCoherentes, NEW q \in Pag, NEW f \in Marco, CargaEnLibre(q, f),
         q \notin Presentes, Paginas' = Paginas \cup {q}
  PROVE  /\ Tipos' /\ BitmapsCoherentes' /\ clock' = clock
         /\ presente'[q] /\ fr'[q] = f
         /\ \A r \in Paginas \ {q} : Queda(r, f)
<1> USE PaginaEnPag, TiposDeTypeOK
<1>1. /\ BITMAP[f] /\ BITMAP' = [BITMAP EXCEPT ![f] = FALSE]
      /\ BITMAP_SWAP_FILE' = Liberar(BITMAP_SWAP_FILE, q)
      /\ presente' = [presente EXCEPT ![q] = TRUE] /\ fr' = [fr EXCEPT ![q] = f]
      /\ usado' = [usado EXCEPT ![q] = TRUE]
      /\ swapfile' = swapfile /\ clock' = clock
  BY DEF CargaEnLibre, EnMarco, Primero, MarcosLibres
<1>2. Tipos' BY <1>1, LiberarTipo DEF Tipos
<1>3. /\ presente'[q] /\ fr'[q] = f
      /\ \A r \in Paginas \ {q} : presente'[r] = presente[r] /\ fr'[r] = fr[r]
  BY <1>1 DEF Tipos
<1>4. /\ Presentes' = Presentes \cup {q}
      /\ (Paginas \ Presentes)' = (Paginas \ Presentes) \ {q}
  BY <1>3 DEF Presentes
<1>5. BitmapsCoherentes'
  <2>1. \A g \in Marco : BITMAP'[g] <=> \A r \in Presentes' : fr'[r] # g
    BY <1>1, <1>3, <1>4 DEF BitmapsCoherentes, Tipos
  <2>2. \A s \in Slot : BITMAP_SWAP_FILE'[s] <=> \A r \in (Paginas \ Presentes)' : fr'[r] # s
    BY <1>1, <1>3, <1>4 DEF BitmapsCoherentes, Tipos, Liberar, Presentes
  <2>3. \A r1, r2 \in (Paginas \ Presentes)' : r1 # r2 => fr'[r1] # fr'[r2]
    BY <1>3, <1>4 DEF BitmapsCoherentes
  <2>4. QED BY <2>1, <2>2, <2>3 DEF BitmapsCoherentes
<1>6. QED BY <1>1, <1>2, <1>3, <1>5 DEF Queda

\* Taking the frame of a victim that goes to the swap file.
LEMMA PorVictimaEfecto ==
  ASSUME TypeOK, BitmapsCoherentes, NEW q \in Pag, NEW f \in Marco, CargaPorVictima(q, f),
         q \notin Presentes, Paginas' = Paginas \cup {q}
  PROVE  /\ Tipos' /\ BitmapsCoherentes' /\ clock' \in Paginas
         /\ presente'[q] /\ fr'[q] = f
         /\ \A r \in Paginas \ {q} : Queda(r, f)
<1> USE PaginaEnPag, TiposDeTypeOK
<1>1. PICK v \in Presentes, s \in Slot :
        /\ f = fr[v] /\ BITMAP_SWAP_FILE[s]
        /\ swapfile' = [swapfile EXCEPT ![s] = MAIN_MEMORY[f]]
        /\ BITMAP_SWAP_FILE' = Liberar([BITMAP_SWAP_FILE EXCEPT ![s] = FALSE], q)
        /\ presente' = [presente EXCEPT ![v] = FALSE, ![q] = TRUE]
        /\ fr' = [fr EXCEPT ![v] = s, ![q] = f]
        /\ usado' = [UsadoTras(v) EXCEPT ![q] = TRUE]
        /\ clock' = v /\ BITMAP' = BITMAP
  BY VictimaPresente DEF CargaPorVictima, EnMarco, Primero, SwapLibres
<1>2. Tipos'
  <2>1. [BITMAP_SWAP_FILE EXCEPT ![s] = FALSE] \in [Slot -> BOOLEAN] BY DEF Tipos
  <2>2. BITMAP_SWAP_FILE' \in [Slot -> BOOLEAN] BY <1>1, <2>1, LiberarTipo
  <2>3. usado' \in [Pag -> BOOLEAN] BY <1>1, UsadoTipo
  <2>4. QED BY <1>1, <2>2, <2>3 DEF Tipos
<1>3. v # q /\ v \in Paginas OBVIOUS
<1>4. /\ presente'[q] /\ fr'[q] = f /\ ~presente'[v] /\ fr'[v] = s
      /\ \A r \in Paginas \ {q, v} : presente'[r] = presente[r] /\ fr'[r] = fr[r]
  BY <1>1, <1>3 DEF Tipos
<1>5. /\ Presentes' = (Presentes \ {v}) \cup {q}
      /\ (Paginas \ Presentes)' = ((Paginas \ Presentes) \ {q}) \cup {v}
  BY <1>3, <1>4 DEF Presentes
<1>6. \A r \in Paginas \ Presentes : fr[r] # s /\ fr[r] \in Slot
  BY <1>1 DEF BitmapsCoherentes, Presentes
<1>7. BitmapsCoherentes'
  <2>1. ASSUME NEW g \in Marco
        PROVE  BITMAP'[g] <=> \A r \in Presentes' : fr'[r] # g
    <3>1. BITMAP'[g] <=> \A r \in Presentes : fr[r] # g BY <1>1 DEF BitmapsCoherentes
    <3>2. CASE g = f
      <4>1. ~BITMAP'[g] BY <1>1, <3>1, <3>2
      <4>2. q \in Presentes' /\ fr'[q] = g BY <1>4, <1>5, <3>2
      <4>3. QED BY <4>1, <4>2
    <3>3. CASE g # f
      BY <1>1, <1>4, <1>5, <3>1, <3>3
    <3>4. QED BY <3>2, <3>3
  <2>2. \A t \in Slot : BITMAP_SWAP_FILE'[t] <=> \A r \in (Paginas \ Presentes)' : fr'[r] # t
    <3>1. CASE q \in Paginas
      <4>1. BITMAP_SWAP_FILE' = [BITMAP_SWAP_FILE EXCEPT ![s] = FALSE, ![fr[q]] = TRUE]
        BY <1>1, <3>1 DEF Liberar, Presentes
      <4>2. fr[q] \in Slot /\ fr[q] # s /\ q \in Paginas \ Presentes BY <1>6, <3>1
      <4>3. QED BY <1>3, <1>4, <1>5, <1>6, <4>1, <4>2 DEF BitmapsCoherentes, Tipos
    <3>2. CASE q \notin Paginas
      <4>1. BITMAP_SWAP_FILE' = [BITMAP_SWAP_FILE EXCEPT ![s] = FALSE]
        BY <1>1, <3>2 DEF Liberar
      <4>2. QED BY <1>3, <1>4, <1>5, <1>6, <3>2, <4>1 DEF BitmapsCoherentes, Tipos
    <3>3. QED BY <3>1, <3>2
  <2>3. \A r1, r2 \in (Paginas \ Presentes)' : r1 # r2 => fr'[r1] # fr'[r2]
    BY <1>3, <1>4, <1>5, <1>6 DEF BitmapsCoherentes
  <2>4. QED BY <2>1, <2>2, <2>3 DEF BitmapsCoherentes
<1>8. ASSUME NEW r \in Paginas \ {q} PROVE Queda(r, f)
  <2>1. CASE r = v
    BY <1>1, <1>3, <1>4, <2>1 DEF Queda, Tipos, Presentes
  <2>2. CASE r # v
    BY <1>1, <1>4, <1>6, <2>2 DEF Queda, Tipos, Presentes
  <2>3. QED BY <2>1, <2>2
<1>9. QED BY <1>1, <1>2, <1>4, <1>7, <1>8

\* Taking it when the swap file is full.
LEMMA SinSwapEfecto ==
  ASSUME TypeOK, BitmapsCoherentes, NEW q \in Pag, NEW f \in Marco, CargaSinSwap(q, f),
         q \notin Presentes, Paginas' = Paginas \cup {q}
  PROVE  /\ Tipos' /\ BitmapsCoherentes' /\ clock' \in Paginas
         /\ presente'[q] /\ fr'[q] = f
         /\ \A r \in Paginas \ {q} : Queda(r, f)
<1> USE PaginaEnPag, TiposDeTypeOK
<1>1. PICK v \in Presentes :
        /\ f = fr[v] /\ BITMAP_SWAP_FILE' = Liberar(BITMAP_SWAP_FILE, q)
        /\ presente' = [presente EXCEPT ![q] = TRUE] /\ fr' = [fr EXCEPT ![q] = f]
        /\ usado' = [UsadoTras(v) EXCEPT ![q] = TRUE]
        /\ clock' = v /\ BITMAP' = BITMAP /\ swapfile' = swapfile
  BY VictimaPresente DEF CargaSinSwap, EnMarco
<1>2. Tipos'
  BY <1>1, LiberarTipo, UsadoTipo DEF Tipos
<1>3. /\ presente'[q] /\ fr'[q] = f
      /\ \A r \in Paginas \ {q} : presente'[r] = presente[r] /\ fr'[r] = fr[r]
  BY <1>1 DEF Tipos
<1>4. /\ Presentes' = Presentes \cup {q}
      /\ (Paginas \ Presentes)' = (Paginas \ Presentes) \ {q}
  BY <1>3 DEF Presentes
<1>5. BitmapsCoherentes'
  <2>1. \A g \in Marco : BITMAP'[g] <=> \A r \in Presentes' : fr'[r] # g
    BY <1>1, <1>3, <1>4 DEF BitmapsCoherentes
  <2>2. \A s \in Slot : BITMAP_SWAP_FILE'[s] <=> \A r \in (Paginas \ Presentes)' : fr'[r] # s
    BY <1>1, <1>3, <1>4 DEF BitmapsCoherentes, Tipos, Liberar, Presentes
  <2>3. \A r1, r2 \in (Paginas \ Presentes)' : r1 # r2 => fr'[r1] # fr'[r2]
    BY <1>3, <1>4 DEF BitmapsCoherentes
  <2>4. QED BY <2>1, <2>2, <2>3 DEF BitmapsCoherentes
<1>6. QED BY <1>1, <1>2, <1>3, <1>5 DEF Queda

\* The frame of a page that enters: at most one page left it.
LEMMA CargaEfecto ==
  ASSUME TypeOK, BitmapsCoherentes, NEW q \in Pag, NEW f \in Marco, Carga(q, f),
         q \notin Presentes, Paginas' = Paginas \cup {q}
  PROVE  /\ Tipos' /\ BitmapsCoherentes' /\ clock' \in Paginas \cup {clock}
         /\ presente'[q] /\ fr'[q] = f
         /\ \A r \in Paginas \ {q} : Queda(r, f)
BY EnLibreEfecto, PorVictimaEfecto, SinSwapEfecto DEF Carga

-----------------------------------------------------------------------------
(* What it preserves                                                       *)

\* The context of the lemmas below: q enters f and who shares f is noted.
Entrada(q, f) ==
  /\ Carga(q, f) /\ q \notin Presentes
  /\ Paginas' = Paginas \cup {q}
  /\ danadas \cup Comparten(q, f) \subseteq danadas'

LEMMA EntradaCompartidas ==
  ASSUME TypeOK, BitmapsCoherentes, CompartidasDanadas,
         NEW q \in Pag, NEW f \in Marco, Entrada(q, f)
  PROVE  CompartidasDanadas'
<1>1. /\ presente'[q] /\ fr'[q] = f
      /\ \A r \in Paginas \ {q} : Queda(r, f)
  BY CargaEfecto DEF Entrada
<1>2. ASSUME NEW r \in Presentes', r # q
      PROVE  r \in Presentes /\ presente'[r] /\ fr'[r] = fr[r]
  BY <1>1, <1>2 DEF Presentes, Queda, Entrada
<1>3. ASSUME NEW r \in Presentes', r # q, fr'[r] = f
      PROVE  r \in danadas' /\ q \in danadas'
  BY <1>2, <1>3 DEF Comparten, Entrada
<1>4. SUFFICES ASSUME NEW r1 \in Presentes', NEW r2 \in Presentes', r1 # r2, fr'[r1] = fr'[r2]
               PROVE  r1 \in danadas' /\ r2 \in danadas'
  BY DEF CompartidasDanadas
<1>5. CASE r1 = q \/ r2 = q BY <1>1, <1>3, <1>4, <1>5
<1>6. CASE r1 # q /\ r2 # q
  BY <1>2, <1>4, <1>6 DEF CompartidasDanadas, Entrada
<1>7. QED BY <1>5, <1>6

\* A page that is not noted keeps its content when nothing is written to its frame.
LEMMA EntradaFiel ==
  ASSUME TypeOK, BitmapsCoherentes,
         NEW q \in Pag, NEW f \in Marco, Entrada(q, f),
         NEW r \in Paginas \ {q}, r \notin danadas',
         presente[r] /\ fr[r] # f => MAIN_MEMORY'[fr[r]] = MAIN_MEMORY[fr[r]]
  PROVE  Contenido(r)' = Contenido(r)
<1>1. presente'[q] /\ fr'[q] = f /\ Queda(r, f) BY CargaEfecto DEF Entrada
<1>2. CASE presente[r] /\ ~presente'[r]
  BY <1>1, <1>2 DEF Queda, Contenido
<1>3. CASE presente'[r] = presente[r] /\ fr'[r] = fr[r] /\ presente[r]
  <2>1. fr[r] # f
    BY <1>3 DEF Comparten, Entrada, Presentes
  <2>2. QED BY <1>3, <2>1 DEF Contenido
<1>4. CASE presente'[r] = presente[r] /\ fr'[r] = fr[r] /\ ~presente[r]
  BY <1>1, <1>4 DEF Queda, Contenido
<1>5. QED
  <2>1. \/ presente'[r] = presente[r] /\ fr'[r] = fr[r]
        \/ presente[r] /\ ~presente'[r]
    BY <1>1 DEF Queda
  <2>2. QED BY <1>2, <1>3, <1>4, <2>1

\* The part of TypeOK that a load changes.
LEMMA EntradaTipo ==
  ASSUME TypeOK, BitmapsCoherentes, NEW q \in Pag, NEW f \in Marco, Entrada(q, f)
  PROVE  /\ Tipos' /\ clock' \in Paginas' \cup {<<1, 1>>}
         /\ \A r \in Paginas' : fr'[r] \in (IF presente'[r] THEN Marco ELSE Slot)
         /\ Comparten(q, f) \subseteq Paginas'
<1> USE PaginaEnPag, TiposDeTypeOK
<1>1. /\ Tipos' /\ clock' \in Paginas \cup {clock} /\ Paginas' = Paginas \cup {q}
      /\ presente'[q] /\ fr'[q] = f
      /\ \A r \in Paginas \ {q} : Queda(r, f)
  BY CargaEfecto DEF Entrada
<1>2. clock' \in Paginas' \cup {<<1, 1>>} BY <1>1 DEF TypeOK
<1>3. ASSUME NEW r \in Paginas'
      PROVE  fr'[r] \in (IF presente'[r] THEN Marco ELSE Slot)
  <2>1. CASE r = q BY <1>1, <2>1
  <2>2. CASE r # q
    <3>1. r \in Paginas /\ Queda(r, f) BY <1>1, <2>2
    <3>2. fr[r] \in (IF presente[r] THEN Marco ELSE Slot) BY <3>1
    <3>3. QED BY <3>1, <3>2 DEF Queda
  <2>3. QED BY <2>1, <2>2
<1>4. Comparten(q, f) \subseteq Paginas' BY <1>1 DEF Comparten
<1>5. QED BY <1>1, <1>2, <1>3, <1>4

\* If the page that enters holds what was written to it, so do all.
LEMMA EntradaLectura ==
  ASSUME TypeOK, BitmapsCoherentes, LecturaFiel,
         NEW q \in Pag, NEW f \in Marco, Entrada(q, f),
         q \notin danadas' => MAIN_MEMORY'[f] = valor'[q],
         \A g \in Marco \ {f} : MAIN_MEMORY'[g] = MAIN_MEMORY[g],
         \A r \in Paginas \ {q} : valor'[r] = valor[r]
  PROVE  LecturaFiel'
<1>1. /\ presente'[q] /\ fr'[q] = f /\ Paginas' = Paginas \cup {q}
      /\ danadas \subseteq danadas'
  BY CargaEfecto DEF Entrada
<1>2. SUFFICES ASSUME NEW r \in Paginas', r \notin danadas'
               PROVE  Contenido(r)' = valor'[r]
  BY DEF LecturaFiel
<1>3. CASE r = q BY <1>1, <1>2, <1>3 DEF Contenido
<1>4. CASE r # q
  <2>1. r \in Paginas \ {q} /\ r \notin danadas BY <1>1, <1>2, <1>4
  <2>2. presente[r] /\ fr[r] # f => MAIN_MEMORY'[fr[r]] = MAIN_MEMORY[fr[r]]
    BY <2>1, TiposDeTypeOK
  <2>3. Contenido(r)' = Contenido(r) BY <1>2, <2>1, <2>2, EntradaFiel
  <2>4. QED BY <2>1, <2>3 DEF LecturaFiel
<1>5. QED BY <1>3, <1>4

\* Nothing moves: the bitmaps and the sharing stay as they are.
LEMMA Quietos ==
  ASSUME BitmapsCoherentes, CompartidasDanadas, UNCHANGED <<tabla, marcoVars>>,
         danadas' = danadas
  PROVE  /\ BitmapsCoherentes' /\ CompartidasDanadas'
         /\ Paginas' = Paginas /\ Presentes' = Presentes
BY DEF BitmapsCoherentes, CompartidasDanadas, marcoVars, Paginas, Presentes

LEMMA PaginasIgual == ASSUME tabla' = tabla PROVE Paginas' = Paginas
BY DEF Paginas

-----------------------------------------------------------------------------
(* The invariant, action by action                                         *)

LEMMA InitInv == ASSUME Init PROVE IInv
<1>1. Paginas = {} /\ Presentes = {}
  BY DEF Init, Paginas, Presentes, Pag, Seg
<1>2. TypeOK
  <2>1. \A v \in Valor : /\ [f \in Marco |-> v] \in [Marco -> Valor]
                         /\ [s \in Slot |-> v] \in [Slot -> Valor]
                         /\ [q \in Pag |-> v] \in [Pag -> Valor]
    OBVIOUS
  <2>2. 0 \in 0 .. MaxPag BY FramesAssumption DEF FramesAssumption
  <2>3. QED BY <1>1, <2>1, <2>2 DEF Init, TypeOK
<1>3. BitmapsCoherentes BY <1>1 DEF Init, BitmapsCoherentes
<1>4. QED BY <1>1, <1>2, <1>3 DEF IInv, CompartidasDanadas, PunteroFresco, LecturaFiel, Init

\* The page that memory_malloc adds to a segment.
LEMMA PaginaNueva ==
  ASSUME IInv, NEW s \in Seg, page_with_free_size(s)
  PROVE  LET q == <<s, tabla[s] + 1>> IN
         q \in Pag /\ q \notin Paginas /\ q \notin Presentes /\ Paginas' = Paginas \cup {q}
<1> DEFINE q == <<s, tabla[s] + 1>>
<1> USE DEF IInv
<1>1. tabla \in [Seg -> 0 .. MaxPag] /\ tabla[s] < MaxPag /\ tabla' = [tabla EXCEPT ![s] = @ + 1]
  BY DEF TypeOK, page_with_free_size
<1>2. q \in Pag /\ q \notin Paginas /\ q \notin Presentes
  <2>1. tabla[s] + 1 \in 1 .. MaxPag BY <1>1, FramesAssumption DEF FramesAssumption
  <2>2. q \in Pag BY <2>1 DEF Pag
  <2>3. q \notin Paginas BY <1>1 DEF Paginas
  <2>4. QED BY <2>2, <2>3 DEF Presentes
<1>3. Paginas' = Paginas \cup {q}
  <2>1. ASSUME NEW r \in Pag
        PROVE  r[2] <= tabla'[r[1]] <=> r[2] <= tabla[r[1]] \/ r = q
    <3>1. r = <<r[1], r[2]>> /\ r[1] \in Seg /\ r[2] \in Nat BY DEF Pag
    <3>2. CASE r[1] = s BY <1>1, <3>1, <3>2
    <3>3. CASE r[1] # s BY <1>1, <3>1, <3>3
    <3>4. QED BY <3>2, <3>3
  <2>2. QED BY <1>2, <2>1 DEF Paginas
<1>4. QED BY <1>2, <1>3

LEMMA MallocInv ==
  ASSUME IInv, NEW s \in Seg, page_with_free_size(s)
  PROVE  IInv'
<1> DEFINE q == <<s, tabla[s] + 1>>
<1> USE DEF IInv
<1>1. tabla \in [Seg -> 0 .. MaxPag] /\ tabla[s] < MaxPag /\ tabla' = [tabla EXCEPT ![s] = @ + 1]
  BY DEF TypeOK, page_with_free_size
<1>2. q \in Pag /\ q \notin Paginas /\ q \notin Presentes BY PaginaNueva
<1>3. Paginas' = Paginas \cup {q} BY PaginaNueva
<1>4. PICK f \in Marco : /\ Carga(q, f) /\ valor' = [valor EXCEPT ![q] = MAIN_MEMORY[f]]
                         /\ danadas' = danadas \cup Comparten(q, f)
  BY DEF page_with_free_size
<1>5. /\ modif' = [modif EXCEPT ![q] = FALSE] /\ MAIN_MEMORY' = MAIN_MEMORY
      /\ puntero' = puntero /\ puntero = NoPuntero
  BY DEF page_with_free_size
<1>6. Entrada(q, f) BY <1>2, <1>3, <1>4 DEF Entrada
<1>7. TypeOK'
  <2>1. /\ Tipos' /\ clock' \in Paginas' \cup {<<1, 1>>}
        /\ \A r \in Paginas' : fr'[r] \in (IF presente'[r] THEN Marco ELSE Slot)
        /\ danadas' \subseteq Paginas'
    BY <1>2, <1>3, <1>4, <1>6, EntradaTipo DEF TypeOK
  <2>2. tabla' \in [Seg -> 0 .. MaxPag] BY <1>1, FramesAssumption DEF FramesAssumption
  <2>3. valor' \in [Pag -> Valor] /\ modif' \in [Pag -> BOOLEAN] /\ MAIN_MEMORY' \in [Marco -> Valor]
    BY <1>4, <1>5 DEF TypeOK
  <2>4. QED BY <1>5, <2>1, <2>2, <2>3 DEF TypeOK, Tipos, NoPuntero
<1>8. BitmapsCoherentes' BY <1>2, <1>6, CargaEfecto DEF Entrada
<1>9. CompartidasDanadas' BY <1>2, <1>6, EntradaCompartidas
<1>10. PunteroFresco' BY <1>5 DEF PunteroFresco, NoPuntero
<1>11. LecturaFiel'
  <2>1. /\ \A g \in Marco \ {f} : MAIN_MEMORY'[g] = MAIN_MEMORY[g]
        /\ \A r \in Paginas \ {q} : valor'[r] = valor[r]
        /\ MAIN_MEMORY'[f] = valor'[q]
    BY <1>2, <1>4, <1>5, PaginaEnPag DEF TypeOK
  <2>2. QED BY <1>2, <1>6, <2>1, EntradaLectura
<1>12. QED BY <1>7, <1>8, <1>9, <1>10, <1>11

\* A page that comes back, as far as the pointer of modificar_metadata is not concerned.
LEMMA TraeInv ==
  ASSUME IInv, NEW q \in Pag, NEW f \in Marco, Trae(q, f),
         UNCHANGED <<tabla, modif, valor>>
  PROVE  /\ BitmapsCoherentes' /\ CompartidasDanadas' /\ LecturaFiel'
         /\ Tipos' /\ clock' \in Paginas' \cup {<<1, 1>>} /\ Paginas' = Paginas
         /\ \A r \in Paginas' : fr'[r] \in (IF presente'[r] THEN Marco ELSE Slot)
         /\ danadas' \subseteq Paginas' /\ MAIN_MEMORY' \in [Marco -> Valor]
         /\ q \in Presentes' /\ fr'[q] = f
<1> USE DEF IInv
<1>1. /\ q \in Paginas /\ ~presente[q] /\ Carga(q, f)
      /\ MAIN_MEMORY' = [MAIN_MEMORY EXCEPT ![f] = swapfile[fr[q]]]
      /\ danadas' = danadas \cup Comparten(q, f)
  BY DEF Trae, Guardado
<1>2. Paginas' = Paginas BY PaginasIgual
<1>3. Entrada(q, f) BY <1>1, <1>2 DEF Entrada, Presentes
<1>4. /\ BitmapsCoherentes' /\ CompartidasDanadas' /\ presente'[q] /\ fr'[q] = f
      /\ Tipos' /\ clock' \in Paginas' \cup {<<1, 1>>}
      /\ \A r \in Paginas' : fr'[r] \in (IF presente'[r] THEN Marco ELSE Slot)
      /\ Comparten(q, f) \subseteq Paginas'
  BY <1>3, EntradaCompartidas, EntradaTipo, CargaEfecto DEF Entrada
<1>5. MAIN_MEMORY' \in [Marco -> Valor]
  <2>1. fr[q] \in Slot BY <1>1, TiposDeTypeOK
  <2>2. QED BY <1>1, <2>1 DEF TypeOK
<1>6. LecturaFiel'
  <2>1. q \notin danadas' => MAIN_MEMORY'[f] = valor'[q]
    BY <1>1 DEF LecturaFiel, Contenido, TypeOK
  <2>2. \A g \in Marco \ {f} : MAIN_MEMORY'[g] = MAIN_MEMORY[g]
    BY <1>1 DEF TypeOK
  <2>3. QED BY <1>3, <2>1, <2>2, EntradaLectura
<1>7. danadas' \subseteq Paginas' BY <1>1, <1>2, <1>4 DEF TypeOK
<1>8. q \in Presentes' BY <1>1, <1>2, <1>4 DEF Presentes
<1>9. QED BY <1>2, <1>4, <1>5, <1>6, <1>7, <1>8

LEMMA GetInv ==
  ASSUME IInv, NEW q \in Pag, memory_get(q)
  PROVE  IInv'
<1>1. PICK f \in Marco : Trae(q, f) BY DEF memory_get
<1>2. /\ UNCHANGED <<tabla, modif, valor>> /\ puntero' = puntero /\ puntero = NoPuntero
  BY DEF memory_get
<1>3. PunteroFresco' BY <1>2 DEF PunteroFresco, NoPuntero
<1>4. TypeOK'
  BY <1>1, <1>2, TraeInv DEF TypeOK, Tipos, IInv, NoPuntero
<1>5. QED BY <1>1, <1>2, <1>3, <1>4, TraeInv DEF IInv

LEMMA EscribeInv ==
  ASSUME IInv, NEW q \in Pag, NEW v \in Valor, Escribe(q, v),
         modif' \in [Pag -> BOOLEAN]
  PROVE  IInv'
<1> USE DEF IInv
<1>1. /\ q \in Paginas /\ puntero = NoPuntero /\ puntero' = puntero /\ tabla' = tabla
      /\ valor' = [valor EXCEPT ![q] = v] /\ Paginas' = Paginas
  BY PaginasIgual DEF Escribe
<1>2. PunteroFresco' BY <1>1 DEF PunteroFresco, NoPuntero
<1>3. valor' \in [Pag -> Valor] /\ valor'[q] = v /\ \A r \in Paginas \ {q} : valor'[r] = valor[r]
  BY <1>1, PaginaEnPag DEF TypeOK
<1>4. CASE presente[q]
  <2>1. /\ MAIN_MEMORY' = [MAIN_MEMORY EXCEPT ![fr[q]] = v]
        /\ UNCHANGED marcoVars /\ danadas' = danadas
    BY <1>4 DEF Escribe
  <2>2. /\ BitmapsCoherentes' /\ CompartidasDanadas' /\ Presentes' = Presentes
    BY <1>1, <2>1, Quietos
  <2>3. TypeOK' BY <1>1, <1>3, <2>1 DEF TypeOK, marcoVars, NoPuntero
  <2>4. LecturaFiel'
    <3>1. fr[q] \in Marco BY <1>1, <1>4, TiposDeTypeOK
    <3>2. SUFFICES ASSUME NEW r \in Paginas, r \notin danadas
                   PROVE  Contenido(r)' = valor'[r]
      BY <1>1, <2>1 DEF LecturaFiel
    <3>3. CASE r = q
      BY <1>3, <1>4, <2>1, <3>1, <3>3 DEF Contenido, marcoVars, TypeOK
    <3>4. CASE r # q
      <4>1. presente[r] => fr[r] # fr[q]
        BY <1>1, <1>4, <3>2, <3>4 DEF CompartidasDanadas, Presentes
      <4>2. Contenido(r)' = Contenido(r)
        BY <2>1, <4>1, <3>1 DEF Contenido, marcoVars, TypeOK
      <4>3. QED BY <1>3, <3>2, <3>4, <4>2 DEF LecturaFiel
    <3>5. QED BY <3>3, <3>4
  <2>5. QED BY <1>2, <2>2, <2>3, <2>4
<1>5. CASE ~presente[q]
  <2>1. PICK f \in Marco : /\ Carga(q, f) /\ MAIN_MEMORY' = [MAIN_MEMORY EXCEPT ![f] = v]
                           /\ danadas' = danadas \cup Comparten(q, f)
    BY <1>5 DEF Escribe
  <2>2. Entrada(q, f) BY <1>1, <1>5, <2>1 DEF Entrada, Presentes
  <2>3. BitmapsCoherentes' /\ CompartidasDanadas'
    BY <2>2, EntradaCompartidas, CargaEfecto DEF Entrada
  <2>4. MAIN_MEMORY' \in [Marco -> Valor] /\ MAIN_MEMORY'[f] = v
        /\ \A g \in Marco \ {f} : MAIN_MEMORY'[g] = MAIN_MEMORY[g]
    BY <2>1 DEF TypeOK
  <2>5. LecturaFiel' BY <1>3, <2>2, <2>4, EntradaLectura
  <2>6. TypeOK'
    <3>1. /\ Tipos' /\ clock' \in Paginas' \cup {<<1, 1>>}
          /\ \A r \in Paginas' : fr'[r] \in (IF presente'[r] THEN Marco ELSE Slot)
          /\ danadas' \subseteq Paginas'
      BY <1>1, <2>1, <2>2, EntradaTipo DEF TypeOK
    <3>2. QED BY <1>1, <1>3, <2>4, <3>1 DEF TypeOK, Tipos, NoPuntero
  <2>7. QED BY <1>2, <2>3, <2>5, <2>6
<1>6. QED BY <1>4, <1>5

LEMMA CortadaInv ==
  ASSUME IInv, NEW q \in Pag, NEW v \in Valor, metadata_cortada(q, v)
  PROVE  IInv'
<1> USE DEF IInv
<1>1. PICK f \in Marco :
        /\ puntero' = [en |-> f, pag |-> q, v |-> v]
        /\ \/ presente[q] /\ f = fr[q] /\ UNCHANGED <<marcoVars, MAIN_MEMORY, danadas>>
           \/ Trae(q, f)
  BY DEF metadata_cortada
<1>2. /\ q \in Paginas /\ Sigue(q) \in Paginas /\ UNCHANGED <<tabla, modif, valor>>
      /\ Paginas' = Paginas
  BY PaginasIgual DEF metadata_cortada
<1>3. /\ puntero' \in [en : Marco, pag : Paginas', v : Valor] /\ Sigue(puntero'.pag) \in Paginas'
      /\ puntero'.pag = q /\ puntero'.en = f
  BY <1>1, <1>2
<1>4. CASE presente[q] /\ f = fr[q] /\ UNCHANGED <<marcoVars, MAIN_MEMORY, danadas>>
  <2>1. BitmapsCoherentes' /\ CompartidasDanadas' /\ Presentes' = Presentes
    BY <1>2, <1>4, Quietos
  <2>2. TypeOK' BY <1>2, <1>3, <1>4 DEF TypeOK, marcoVars, Sigue
  <2>3. PunteroFresco' BY <1>2, <1>3, <1>4, <2>1 DEF PunteroFresco, Presentes, marcoVars
  <2>4. LecturaFiel' BY <1>2, <1>4 DEF LecturaFiel, Contenido, marcoVars
  <2>5. QED BY <2>1, <2>2, <2>3, <2>4
<1>5. CASE Trae(q, f)
  <2>1. /\ BitmapsCoherentes' /\ CompartidasDanadas' /\ LecturaFiel'
        /\ Tipos' /\ clock' \in Paginas' \cup {<<1, 1>>}
        /\ \A r \in Paginas' : fr'[r] \in (IF presente'[r] THEN Marco ELSE Slot)
        /\ danadas' \subseteq Paginas' /\ MAIN_MEMORY' \in [Marco -> Valor]
        /\ q \in Presentes' /\ fr'[q] = f
    BY <1>2, <1>5, TraeInv
  <2>2. TypeOK' BY <1>2, <1>3, <2>1 DEF TypeOK, Tipos, Sigue
  <2>3. PunteroFresco' BY <1>3, <2>1 DEF PunteroFresco
  <2>4. QED BY <2>1, <2>2, <2>3
<1>6. QED BY <1>1, <1>4, <1>5

LEMMA Cortada2Inv ==
  ASSUME IInv, metadata_cortada_2
  PROVE  IInv'
<1> DEFINE q == puntero.pag
           r == Sigue(q)
           v == puntero.v
           e == puntero.en
<1> USE DEF IInv
<1>1. /\ q \in Paginas /\ r \in Paginas /\ v \in Valor /\ e \in Marco
      /\ q \in Presentes /\ fr[q] = e
  BY DEF metadata_cortada_2, TypeOK, PunteroFresco
<1>2. q \in Pag /\ r \in Pag /\ r # q
  <2>1. q \in Pag /\ r \in Pag BY <1>1, PaginaEnPag
  <2>2. q[2] \in Nat /\ r[2] = q[2] + 1 BY <2>1 DEF Pag, Sigue
  <2>3. QED BY <2>1, <2>2
<1>3. PICK f \in Marco :
        /\ MAIN_MEMORY' = [MAIN_MEMORY EXCEPT ![e] = v, ![f] = v]
        /\ \/ presente[r] /\ f = fr[r] /\ UNCHANGED <<marcoVars, danadas>>
           \/ /\ ~presente[r]
              /\ Carga(r, f)
              /\ danadas' = danadas \cup Comparten(r, f)
                              \cup (IF f = e THEN {q, r} ELSE {})
  BY DEF metadata_cortada_2
<1>4. /\ valor' = [valor EXCEPT ![q] = v, ![r] = v]
      /\ puntero' = NoPuntero /\ UNCHANGED <<tabla, modif>> /\ Paginas' = Paginas
  BY PaginasIgual DEF metadata_cortada_2
<1>5. PunteroFresco' BY <1>4 DEF PunteroFresco
<1>6. /\ MAIN_MEMORY' \in [Marco -> Valor] /\ MAIN_MEMORY'[e] = v /\ MAIN_MEMORY'[f] = v
      /\ \A g \in Marco \ {e, f} : MAIN_MEMORY'[g] = MAIN_MEMORY[g]
  BY <1>1, <1>3 DEF TypeOK
<1>7. /\ valor' \in [Pag -> Valor] /\ valor'[q] = v /\ valor'[r] = v
      /\ \A x \in Paginas \ {q, r} : valor'[x] = valor[x]
  BY <1>1, <1>2, <1>4, PaginaEnPag DEF TypeOK
<1>8. ASSUME NEW x \in Paginas \ {q, r}, x \notin danadas, presente[x]
      PROVE  fr[x] # e /\ (presente[r] => fr[x] # fr[r])
  BY <1>1, <1>8 DEF CompartidasDanadas, Presentes
<1>9. CASE presente[r] /\ f = fr[r] /\ UNCHANGED <<marcoVars, danadas>>
  <2>1. BitmapsCoherentes' /\ CompartidasDanadas' /\ Presentes' = Presentes
    BY <1>4, <1>9, Quietos
  <2>2. TypeOK' BY <1>4, <1>6, <1>7, <1>9 DEF TypeOK, marcoVars, NoPuntero
  <2>3. LecturaFiel'
    <3>1. SUFFICES ASSUME NEW x \in Paginas, x \notin danadas
                   PROVE  Contenido(x)' = valor'[x]
      BY <1>4, <1>9 DEF LecturaFiel
    <3>2. CASE x \in {q, r}
      BY <1>1, <1>6, <1>7, <1>9, <3>2 DEF Contenido, Presentes, marcoVars
    <3>3. CASE x \notin {q, r}
      <4>1. presente[x] => fr[x] \in Marco \ {e, f}
        BY <1>8, <1>9, <3>1, <3>3, TiposDeTypeOK
      <4>2. Contenido(x)' = Contenido(x) BY <1>6, <1>9, <4>1 DEF Contenido, marcoVars
      <4>3. QED BY <1>7, <3>1, <3>3, <4>2 DEF LecturaFiel
    <3>4. QED BY <3>2, <3>3
  <2>4. QED BY <1>5, <2>1, <2>2, <2>3
<1>10. CASE /\ ~presente[r] /\ Carga(r, f)
            /\ danadas' = danadas \cup Comparten(r, f) \cup (IF f = e THEN {q, r} ELSE {})
  <2>1. Entrada(r, f) BY <1>1, <1>4, <1>10 DEF Entrada, Presentes
  <2>2. /\ BitmapsCoherentes' /\ CompartidasDanadas'
        /\ presente'[r] /\ fr'[r] = f /\ \A x \in Paginas \ {r} : Queda(x, f)
    BY <1>2, <2>1, EntradaCompartidas, CargaEfecto DEF Entrada
  <2>3. TypeOK'
    <3>1. /\ Tipos' /\ clock' \in Paginas' \cup {<<1, 1>>}
          /\ \A x \in Paginas' : fr'[x] \in (IF presente'[x] THEN Marco ELSE Slot)
          /\ danadas' \subseteq Paginas'
      BY <1>1, <1>2, <1>4, <1>10, <2>1, EntradaTipo DEF TypeOK
    <3>2. QED BY <1>4, <1>6, <1>7, <3>1 DEF TypeOK, Tipos, NoPuntero
  <2>4. LecturaFiel'
    <3>1. SUFFICES ASSUME NEW x \in Paginas, x \notin danadas'
                   PROVE  Contenido(x)' = valor'[x]
      BY <1>4 DEF LecturaFiel
    <3>2. CASE x = r BY <1>6, <1>7, <2>2, <3>2 DEF Contenido
    <3>3. CASE x = q
      <4>1. f # e BY <1>10, <3>1, <3>3
      <4>2. presente'[q] /\ fr'[q] = e
        BY <1>1, <1>2, <2>2, <4>1 DEF Queda, Presentes
      <4>3. QED BY <1>6, <1>7, <3>3, <4>2 DEF Contenido
    <3>4. CASE x \notin {q, r}
      <4>1. x \in Paginas \ {r} /\ x \notin danadas BY <1>10, <3>1, <3>4
      <4>2. presente[x] /\ fr[x] # f => MAIN_MEMORY'[fr[x]] = MAIN_MEMORY[fr[x]]
        BY <1>6, <1>8, <3>4, <4>1, TiposDeTypeOK
      <4>3. Contenido(x)' = Contenido(x) BY <1>2, <2>1, <3>1, <4>1, <4>2, EntradaFiel
      <4>4. QED BY <1>7, <3>4, <4>1, <4>3 DEF LecturaFiel
    <3>5. QED BY <3>2, <3>3, <3>4
  <2>5. QED BY <1>5, <2>2, <2>3, <2>4
<1>11. QED BY <1>3, <1>9, <1>10

LEMMA PasoInv ==
  ASSUME IInv, [Next]_vars
  PROVE  IInv'
<1>1. CASE \E s \in Seg : page_with_free_size(s) BY <1>1, MallocInv
<1>2. CASE \E q \in Pag : memory_get(q) BY <1>2, GetInv
<1>3. ASSUME NEW q \in Pag, NEW v \in Valor, memory_cpy(q, v)
      PROVE  IInv'
  <2>1. modif' \in [Pag -> BOOLEAN] BY <1>3 DEF memory_cpy, IInv, TypeOK
  <2>2. QED BY <1>3, <2>1, EscribeInv DEF memory_cpy
<1>4. ASSUME NEW q \in Pag, NEW v \in Valor, modificar_metadata(q, v)
      PROVE  IInv'
  <2>1. modif' \in [Pag -> BOOLEAN] BY <1>4 DEF modificar_metadata, IInv, TypeOK
  <2>2. QED BY <1>4, <2>1, EscribeInv DEF modificar_metadata
<1>5. ASSUME NEW q \in Pag, NEW v \in Valor, metadata_cortada(q, v)
      PROVE  IInv'
  BY <1>5, CortadaInv
<1>6. CASE metadata_cortada_2 BY <1>6, Cortada2Inv
<1>7. CASE UNCHANGED vars
  <2>1. UNCHANGED <<tabla, marcoVars>> /\ danadas' = danadas BY <1>7 DEF vars
  <2>2. BitmapsCoherentes' /\ CompartidasDanadas' /\ Paginas' = Paginas /\ Presentes' = Presentes
    BY <2>1, Quietos DEF IInv
  <2>3. TypeOK' BY <1>7, <2>2 DEF IInv, TypeOK, vars, marcoVars, NoPuntero, Sigue
  <2>4. PunteroFresco' BY <1>7, <2>2 DEF IInv, PunteroFresco, vars, marcoVars, NoPuntero
  <2>5. LecturaFiel' BY <1>7, <2>2 DEF IInv, LecturaFiel, Contenido, vars, marcoVars
  <2>6. QED BY <2>2, <2>3, <2>4, <2>5 DEF IInv
<1>8. QED BY <1>1, <1>2, <1>3, <1>4, <1>5, <1>6, <1>7 DEF Next

-----------------------------------------------------------------------------
(* Theorems                                                                *)

LEMMA Invariante == Spec => []IInv
<1>1. Init => IInv BY InitInv
<1>2. IInv /\ [Next]_vars => IInv' BY PasoInv
<1>3. QED BY <1>1, <1>2, PTL DEF Spec

\* The page tables, the bitmaps and the clock keep their types; in particular a
\* present page is always in a frame and an absent one in a slot.
THEOREM FramesTipos == Spec => []TypeOK
<1>1. IInv => TypeOK BY DEF IInv
<1>2. QED BY <1>1, Invariante, PTL

\* No frame and no slot is ever lost or given twice by the bitmaps, whatever the
\* number of segments, frames and slots, also after the swap file has filled up.
THEOREM BitmapsCorrectos == Spec => []BitmapsCoherentes
<1>1. IInv => BitmapsCoherentes BY DEF IInv
<1>2. QED BY <1>1, Invariante, PTL

\* A page that never shared its frame and was not torn reads back what was written.
THEOREM LecturaCorrecta == Spec => []LecturaFiel
<1>1. IInv => LecturaFiel BY DEF IInv
<1>2. QED BY <1>1, Invariante, PTL

\* A step loads a page that was not present, or no page moves.
LEMMA EsCarga ==
  ASSUME IInv, Next
  PROVE  \/ UNCHANGED <<tabla, presente, fr>>
         \/ \E q \in Pag, f \in Marco :
              Carga(q, f) /\ q \notin Presentes /\ Paginas' = Paginas \cup {q}
<1> DEFINE Meta == \/ UNCHANGED <<tabla, presente, fr>>
                   \/ \E q \in Pag, f \in Marco :
                        Carga(q, f) /\ q \notin Presentes /\ Paginas' = Paginas \cup {q}
<1>1. ASSUME NEW s \in Seg, page_with_free_size(s) PROVE Meta
  <2>1. /\ <<s, tabla[s] + 1>> \in Pag /\ <<s, tabla[s] + 1>> \notin Presentes
        /\ Paginas' = Paginas \cup {<<s, tabla[s] + 1>>}
    BY <1>1, PaginaNueva
  <2>2. QED BY <1>1, <2>1 DEF page_with_free_size
<1>2. ASSUME NEW q \in Paginas, NEW f \in Marco, ~presente[q], Carga(q, f), tabla' = tabla
      PROVE  Meta
  BY <1>2, PaginaEnPag, PaginasIgual DEF Presentes
<1>3. ASSUME NEW q \in Pag, memory_get(q) PROVE Meta
  BY <1>2, <1>3 DEF memory_get, Trae
<1>4. ASSUME NEW q \in Pag, NEW w \in Valor, Escribe(q, w) PROVE Meta
  BY <1>2, <1>4 DEF Escribe, marcoVars
<1>5. ASSUME NEW q \in Pag, NEW w \in Valor, metadata_cortada(q, w) PROVE Meta
  BY <1>2, <1>5 DEF metadata_cortada, Trae, marcoVars
<1>6. ASSUME metadata_cortada_2 PROVE Meta
  <2>1. Sigue(puntero.pag) \in Paginas BY <1>6 DEF metadata_cortada_2, IInv, TypeOK
  <2>2. QED BY <1>2, <1>6, <2>1 DEF metadata_cortada_2, marcoVars
<1>7. QED
  BY <1>1, <1>3, <1>4, <1>5, <1>6 DEF Next, memory_cpy, modificar_metadata

\* A page in use and modified leaves only when every present page is both.
LEMMA CargaVictima ==
  ASSUME NEW q, NEW f, Carga(q, f), NEW v \in Presentes, usado[v], modif[v], ~presente'[v],
         presente \in [Pag -> BOOLEAN], q \in Pag
  PROVE  \A r \in Presentes : usado[r] /\ modif[r]
<1> USE PaginaEnPag
<1>1. Victima(v)
  <2>1. CASE CargaEnLibre(q, f) BY <2>1 DEF CargaEnLibre, EnMarco, Presentes
  <2>2. CASE CargaSinSwap(q, f) BY <2>2 DEF CargaSinSwap, EnMarco, Presentes
  <2>3. CASE CargaPorVictima(q, f) BY <2>3 DEF CargaPorVictima, EnMarco, Presentes
  <2>4. QED BY <2>1, <2>2, <2>3 DEF Carga
<1>2. v \notin Ronda1 /\ v \notin Ronda2 /\ v \notin Ronda3 BY DEF Ronda1, Ronda2, Ronda3
<1>3. Ronda1 = {} /\ Ronda2 = {} /\ Ronda3 = {} BY <1>1, <1>2 DEF Victima, Primera
<1>4. QED BY <1>3 DEF Ronda2, Ronda3

\* The class that clock-M replaces last, for any number of pages and frames.
THEOREM VictimaCorrecta == Spec => VictimaUsadaYModificada
<1> DEFINE Paso == \A v \in Presentes :
                     usado[v] /\ modif[v] /\ ~presente'[v]
                       => \A q \in Presentes : usado[q] /\ modif[q]
<1>1. IInv /\ [Next]_vars => [Paso]_vars
  <2> SUFFICES ASSUME IInv, Next, NEW v \in Presentes, usado[v], modif[v], ~presente'[v]
               PROVE  \A q \in Presentes : usado[q] /\ modif[q]
    OBVIOUS
  <2>1. presente \in [Pag -> BOOLEAN] BY DEF IInv, TypeOK
  <2>2. presente[v] BY DEF Presentes
  <2>3. \E q \in Pag, f \in Marco : Carga(q, f) BY <2>2, EsCarga
  <2>4. QED BY <2>1, <2>3, CargaVictima
<1>2. QED BY <1>1, Invariante, PTL DEF Spec, VictimaUsadaYModificada
-----------------------------------------------------------------------------
(* One page per frame                                                      *)

LEMMA PaginasFinitas == IsFiniteSet(Paginas) /\ IsFiniteSet(Paginas')
<1>1. IsFiniteSet(Seg) /\ IsFiniteSet(1 .. MaxPag)
  BY FS_Interval, FramesAssumption DEF Seg, FramesAssumption
<1>2. IsFiniteSet(Pag) BY <1>1, FS_Product DEF Pag
<1>3. Paginas \in SUBSET Pag /\ Paginas' \in SUBSET Pag BY DEF Paginas
<1>4. QED BY <1>2, <1>3, FS_Subset

\* With no frame and no slot free there are as many pages as frames and slots.
LEMMA TodoOcupado ==
  ASSUME TypeOK, BitmapsCoherentes, MarcosLibres = {}, SwapLibres = {}
  PROVE  TOTAL_FRAME_NUM + TOTAL_FRAME_NUM_SWAP <= Cardinality(Paginas)
<1> DEFINE N == TOTAL_FRAME_NUM
           M == TOTAL_FRAME_NUM_SWAP
           T == 0 .. (N + M - 1)
           donde == [q \in Paginas |-> IF presente[q] THEN fr[q] ELSE N + fr[q]]
<1>1. N \in Nat /\ M \in Nat BY FramesAssumption DEF FramesAssumption
<1>2. ASSUME NEW q \in Paginas PROVE donde[q] \in T
  <2>1. fr[q] \in (IF presente[q] THEN 0 .. N - 1 ELSE 0 .. M - 1)
    BY TiposDeTypeOK DEF Marco, Slot
  <2>2. QED BY <1>1, <2>1
<1>3. ASSUME NEW t \in T PROVE \E q \in Paginas : donde[q] = t
  <2>1. CASE t < N
    <3>1. t \in Marco /\ ~BITMAP[t] BY <1>1, <2>1 DEF Marco, MarcosLibres
    <3>2. PICK q \in Presentes : fr[q] = t BY <3>1 DEF BitmapsCoherentes
    <3>3. QED BY <3>2 DEF Presentes
  <2>2. CASE t >= N
    <3>1. t - N \in Slot /\ ~BITMAP_SWAP_FILE[t - N] BY <1>1, <2>2 DEF Slot, SwapLibres
    <3>2. PICK q \in Paginas \ Presentes : fr[q] = t - N BY <3>1 DEF BitmapsCoherentes
    <3>3. q \in Paginas /\ donde[q] = N + (t - N) BY <3>2 DEF Presentes
    <3>4. QED BY <1>1, <3>3
  <2>3. QED BY <1>1, <2>1, <2>2
<1>4. donde \in Surjection(Paginas, T) BY <1>2, <1>3 DEF Surjection
<1>5. IsFiniteSet(T) /\ Cardinality(T) = N + M BY <1>1, FS_Interval
<1>6. Cardinality(T) <= Cardinality(Paginas) BY <1>4, PaginasFinitas, FS_Surjection
<1>7. QED BY <1>5, <1>6

\* A load that finds a frame or a slot free shares no frame.
LEMMA CargaSinCompartir ==
  ASSUME TypeOK, BitmapsCoherentes, NEW q \in Pag, NEW f \in Marco, Carga(q, f),
         q \notin Presentes, Paginas' = Paginas \cup {q},
         \A r, s \in Presentes : r # s => fr[r] # fr[s],
         Cardinality(Paginas) < TOTAL_FRAME_NUM + TOTAL_FRAME_NUM_SWAP
  PROVE  \A r, s \in Presentes' : r # s => fr'[r] # fr'[s]
<1> USE PaginaEnPag, TiposDeTypeOK
<1>0. Cardinality(Paginas) \in Nat BY PaginasFinitas, FS_CardinalityType
<1>1. SwapLibres # {} \/ MarcosLibres # {}
  BY <1>0, TodoOcupado, FramesAssumption DEF FramesAssumption
<1>2. CASE CargaEnLibre(q, f)
  <2>1. /\ BITMAP[f] /\ presente' = [presente EXCEPT ![q] = TRUE] /\ fr' = [fr EXCEPT ![q] = f]
    BY <1>2 DEF CargaEnLibre, EnMarco, Primero, MarcosLibres
  <2>2. \A r \in Presentes : fr[r] # f BY <2>1 DEF BitmapsCoherentes
  <2>3. /\ Presentes' = Presentes \cup {q} /\ fr'[q] = f
        /\ \A r \in Presentes : fr'[r] = fr[r]
    BY <2>1 DEF Presentes, Tipos
  <2>4. QED BY <2>2, <2>3
<1>3. CASE CargaPorVictima(q, f)
  <2>1. PICK v \in Presentes, s \in Slot :
          /\ f = fr[v]
          /\ presente' = [presente EXCEPT ![v] = FALSE, ![q] = TRUE]
          /\ fr' = [fr EXCEPT ![v] = s, ![q] = f]
    BY <1>3, VictimaPresente DEF CargaPorVictima, EnMarco, Primero, SwapLibres
  <2>2. /\ Presentes' = (Presentes \ {v}) \cup {q} /\ fr'[q] = f
        /\ \A r \in Presentes \ {v} : fr'[r] = fr[r]
    BY <2>1 DEF Presentes, Tipos
  <2>3. \A r \in Presentes \ {v} : fr[r] # f BY <2>1
  <2>4. QED BY <2>2, <2>3
<1>4. CASE CargaSinSwap(q, f)
  BY <1>1, <1>4 DEF CargaSinSwap
<1>5. QED BY <1>2, <1>3, <1>4 DEF Carga

\* The swap file fills up only when there are as many pages as frames and slots: with one
\* less no load ever gives the frame of a page that stays present, which is what the
\* error path of se_hace_la_vistima does.
THEOREM UnMarcoCorrecto == Spec => []UnMarcoPorPagina
<1>1. Init => UnMarcoPorPagina
  BY DEF Init, UnMarcoPorPagina, Presentes, Paginas
<1>2. IInv /\ UnMarcoPorPagina /\ [Next]_vars => UnMarcoPorPagina'
  <2> SUFFICES ASSUME IInv, UnMarcoPorPagina, [Next]_vars,
                      Cardinality(Paginas') < TOTAL_FRAME_NUM + TOTAL_FRAME_NUM_SWAP
               PROVE  \A r, s \in Presentes' : r # s => fr'[r] # fr'[s]
    BY DEF UnMarcoPorPagina
  <2>1. CASE UNCHANGED <<tabla, presente, fr>>
    BY <2>1 DEF UnMarcoPorPagina, Presentes, Paginas
  <2>2. ASSUME NEW q \in Pag, NEW f \in Marco, Carga(q, f),
               q \notin Presentes, Paginas' = Paginas \cup {q}
        PROVE  \A r, s \in Presentes' : r # s => fr'[r] # fr'[s]
    <3>1. /\ Cardinality(Paginas) \in Nat /\ Cardinality(Paginas') \in Nat
          /\ Cardinality(Paginas) <= Cardinality(Paginas')
      BY <2>2, PaginasFinitas, FS_CardinalityType, FS_Subset
    <3>2. Cardinality(Paginas) < TOTAL_FRAME_NUM + TOTAL_FRAME_NUM_SWAP
      BY <3>1, FramesAssumption DEF FramesAssumption
    <3>3. \A r, s \in Presentes : r # s => fr[r] # fr[s] BY <3>2 DEF UnMarcoPorPagina
    <3>4. QED BY <2>2, <3>2, <3>3, CargaSinCompartir DEF IInv
  <2>3. QED BY <2>1, <2>2, EsCarga DEF vars, marcoVars
<1>3. QED BY <1>1, <1>2, Invariante, PTL DEF Spec
=============================================================================
