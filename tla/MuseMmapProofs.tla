--------------------------- MODULE MuseMmapProofs ---------------------------
(* Theorems about MuseMmap for every number of programs, files, pages,     *)
(* frames and segments.  Each assumes away only the members of Evitado     *)
(* that it is false with.                                                  *)
EXTENDS MuseMmap, TLAPS, SequenceTheorems, WellFoundedInduction, FiniteSetTheorems

-----------------------------------------------------------------------------
(* Lists                                                                   *)

\* Every non-empty set of naturals has a least element.
LEMMA MinExiste ==
  ASSUME NEW S \in SUBSET Nat, S # {}
  PROVE  \E x \in S : \A y \in S : x <= y
<1> DEFINE R == OpToRel(<, Nat)
<1>0. S \subseteq Nat OBVIOUS
<1>1. \A x, y \in Nat : y < x => <<y, x>> \in R BY DEF OpToRel
<1>2. IsWellFoundedOn(R, Nat) BY NatLessThanWellFounded
<1> HIDE DEF R
<1>3. PICK x \in S : \A y \in S : ~ (<<y, x>> \in R) BY <1>0, <1>2, WFMin
<1>4. ASSUME NEW y \in S PROVE x <= y
  <2>1. x \in Nat /\ y \in Nat BY <1>0
  <2>2. ~ (y < x) BY <1>1, <1>3, <2>1
  <2>3. QED BY <2>1, <2>2
<1>5. QED BY <1>4

\* Taking out position k keeps the order of the others.
LEMMA RemoveAtProps ==
  ASSUME NEW S, NEW q \in Seq(S), NEW k \in 1 .. Len(q)
  PROVE  /\ RemoveAt(q, k) \in Seq(S)
         /\ Len(RemoveAt(q, k)) = Len(q) - 1
         /\ \A i \in 1 .. (Len(q) - 1) :
              RemoveAt(q, k)[i] = IF i < k THEN q[i] ELSE q[i + 1]
<1> DEFINE a == SubSeq(q, 1, k - 1)
           b == SubSeq(q, k + 1, Len(q))
<1>1. /\ Len(q) \in Nat /\ k \in Nat /\ k >= 1 /\ k <= Len(q)
      /\ \A i \in 1 .. Len(q) : q[i] \in S
  BY LenProperties, ElementOfSeq
<1>2. /\ a \in Seq(S) /\ Len(a) = k - 1
      /\ \A i \in 1 .. (k - 1) : a[i] = q[i]
  <2>1. \A i \in 1 .. (k - 1) : q[i] \in S BY <1>1
  <2>2. /\ SubSeq(q, 1, k - 1) \in Seq(S)
        /\ Len(SubSeq(q, 1, k - 1)) = IF 1 <= k - 1 THEN (k - 1) - 1 + 1 ELSE 0
        /\ \A i \in 1 .. ((k - 1) - 1 + 1) : SubSeq(q, 1, k - 1)[i] = q[1 + i - 1]
    BY <1>1, <2>1, SubSeqProperties
  <2>3. QED BY <2>2, <1>1
<1>3. /\ b \in Seq(S) /\ Len(b) = Len(q) - k
      /\ \A i \in 1 .. (Len(q) - k) : b[i] = q[k + i]
  <2>1. \A i \in (k + 1) .. Len(q) : q[i] \in S BY <1>1
  <2>2. /\ SubSeq(q, k + 1, Len(q)) \in Seq(S)
        /\ Len(SubSeq(q, k + 1, Len(q))) =
             IF k + 1 <= Len(q) THEN Len(q) - (k + 1) + 1 ELSE 0
        /\ \A i \in 1 .. (Len(q) - (k + 1) + 1) :
             SubSeq(q, k + 1, Len(q))[i] = q[(k + 1) + i - 1]
    BY <1>1, <2>1, SubSeqProperties
  <2>3. QED BY <2>2, <1>1
<1> HIDE DEF a, b
<1>4. /\ a \o b \in Seq(S)
      /\ Len(a \o b) = Len(a) + Len(b)
      /\ \A i \in 1 .. (Len(a) + Len(b)) :
           (a \o b)[i] = IF i <= Len(a) THEN a[i] ELSE b[i - Len(a)]
  BY <1>2, <1>3, ConcatProperties
<1>5. RemoveAt(q, k) = a \o b BY DEF RemoveAt, a, b
<1>6. ASSUME NEW i \in 1 .. (Len(q) - 1)
      PROVE  (a \o b)[i] = IF i < k THEN q[i] ELSE q[i + 1]
  <2>1. CASE i < k BY <1>1, <1>2, <1>3, <1>4, <2>1
  <2>2. CASE ~ (i < k)
    <3>1. (a \o b)[i] = b[i - (k - 1)] BY SMTT(60), <1>1, <1>2, <1>3, <1>4, <2>2
    <3>2. i - (k - 1) \in 1 .. (Len(q) - k) BY <1>1, <2>2
    <3>3. b[i - (k - 1)] = q[k + (i - (k - 1))] BY <1>3, <3>2
    <3>4. k + (i - (k - 1)) = i + 1 BY <1>1
    <3>5. QED BY <3>1, <3>3, <3>4, <2>2, <1>1
  <2>3. QED BY <2>1, <2>2
<1>7. Len(a \o b) = Len(q) - 1 BY <1>1, <1>2, <1>3, <1>4
<1>8. QED BY ONLY <1>4, <1>5, <1>6, <1>7

-----------------------------------------------------------------------------

Segs == [es : Archivo \cup {"heap"}, base : Nat, limit : Nat, marcos : SUBSET Marco]

\* The types, apart so that a step only looks at what it changes.
TipoTabla ==
  /\ segment_table \in [Prog -> Seq(Segs)]
  /\ \A p \in Prog : Len(segment_table[p]) <= MaxSeg
TipoUso ==
  /\ abierto \subseteq Archivo /\ flag \in [Archivo -> Flag]
  /\ programas \in [Archivo \X Prog -> Nat]
TipoMarco ==
  /\ presente \in [Pag -> BOOLEAN] /\ fr \in [Pag -> Nat]
  /\ BITMAP \in [Marco -> BOOLEAN] /\ MAIN_MEMORY \in [Marco -> Valor]
TipoDato ==
  /\ archivo \in [Pag -> Valor] /\ disco \in [Pag -> Valor]
  /\ valor \in [Pag -> Valor] /\ guardado \in [Pag -> Valor]

\* A segment of a file has no frames of its own.
MapasSinMarcos ==
  \A p \in Prog : \A i \in DOMAIN segment_table[p] :
    segment_table[p][i].es # "heap" => segment_table[p][i].marcos = {}

\* A file is open exactly while some program is in its list, and only the pages of an
\* open file are in frames.
AbiertosEnUso == \A f \in Archivo : f \in abierto <=> Usos(f) # {}
PresentesAbiertas == \A q \in Presentes : fr[q] \in Marco /\ q[1] \in abierto

BaseInv == /\ TipoTabla /\ TipoUso /\ TipoMarco /\ TipoDato
           /\ MapasSinMarcos /\ AbiertosEnUso /\ PresentesAbiertas

-----------------------------------------------------------------------------
(* What the operators do                                                   *)

LEMMA PagEs ==
  ASSUME NEW q \in Pag
  PROVE  q[1] \in Archivo /\ q[2] \in 0 .. Paginas[q[1]] - 1 /\ q = <<q[1], q[2]>>
BY DEF Pag

LEMMA DeEs ==
  ASSUME NEW f \in Archivo
  PROVE  De(f) = {f} \X (0 .. Paginas[f] - 1) /\ De(f) \subseteq Pag
BY DEF De, Pag

\* The segment found holds the address.
LEMMA BuscaProps ==
  ASSUME NEW p, NEW dir, segment_table[p] \in Seq(Segs), busca_segmento(p, dir) # 0
  PROVE  LET i == busca_segmento(p, dir) IN
         /\ i \in DOMAIN segment_table[p] /\ i \in 1 .. Len(segment_table[p])
         /\ segment_table[p][i] \in Segs
         /\ segment_table[p][i].base <= dir /\ dir <= segment_table[p][i].limit
<1> DEFINE t == segment_table[p]
           H == {i \in DOMAIN t : t[i].base <= dir /\ dir <= t[i].limit}
           b == busca_segmento(p, dir)
<1>1. DOMAIN t = 1 .. Len(t) /\ Len(t) \in Nat BY LenProperties
<1>2. b = IF H = {} THEN 0 ELSE CHOOSE i \in H : \A j \in H : i <= j
  BY DEF busca_segmento
<1>3. H # {} /\ H \in SUBSET Nat BY <1>1, <1>2
<1>4. \E i \in H : \A j \in H : i <= j
  <2> HIDE DEF H
  <2>1. QED BY <1>3, MinExiste
<1>5. b \in H BY <1>2, <1>3, <1>4
<1>6. t[b] \in Segs BY <1>1, <1>5, ElementOfSeq
<1>7. QED BY <1>1, <1>5, <1>6

\* Taking out the i-th segment of p: the others keep their order.
Antiguo(i, j) == IF j < i THEN j ELSE j + 1

LEMMA SinSegmentoProps ==
  ASSUME TipoTabla, NEW p \in Prog, NEW i \in 1 .. Len(segment_table[p]), SinSegmento(p, i)
  PROVE  /\ TipoTabla'
         /\ Len(segment_table'[p]) = Len(segment_table[p]) - 1
         /\ \A j \in 1 .. Len(segment_table'[p]) :
              /\ Antiguo(i, j) \in 1 .. Len(segment_table[p])
              /\ segment_table'[p][j] = segment_table[p][Antiguo(i, j)]
         /\ \A x \in Prog \ {p} : segment_table'[x] = segment_table[x]
<1> DEFINE t == segment_table[p]
<1>1. t \in Seq(Segs) /\ Len(t) \in Nat /\ Len(t) <= MaxSeg BY LenProperties DEF TipoTabla
<1>2. /\ RemoveAt(t, i) \in Seq(Segs) /\ Len(RemoveAt(t, i)) = Len(t) - 1
      /\ \A j \in 1 .. (Len(t) - 1) : RemoveAt(t, i)[j] = IF j < i THEN t[j] ELSE t[j + 1]
  BY <1>1, RemoveAtProps
<1>3. segment_table' = [segment_table EXCEPT ![p] = RemoveAt(t, i)] BY DEF SinSegmento
<1>4. segment_table'[p] = RemoveAt(t, i) /\ \A x \in Prog \ {p} : segment_table'[x] = segment_table[x]
  BY <1>3 DEF TipoTabla
<1>5. segment_table' \in [Prog -> Seq(Segs)] BY <1>2, <1>3 DEF TipoTabla
<1>6. Len(RemoveAt(t, i)) <= MaxSeg BY <1>1, <1>2, MmapAssumption DEF MmapAssumption
<1>7. TipoTabla' BY <1>4, <1>5, <1>6 DEF TipoTabla
<1>8. \A j \in 1 .. (Len(t) - 1) : Antiguo(i, j) \in 1 .. Len(t) BY <1>1 DEF Antiguo
<1>9. QED BY <1>2, <1>4, <1>7, <1>8 DEF Antiguo

\* A segment added at the end.
LEMMA ConSegmentoProps ==
  ASSUME TipoTabla, NEW p \in Prog, NEW s \in Segs, Len(segment_table[p]) < MaxSeg,
         ConSegmento(p, s)
  PROVE  LET n == Len(segment_table[p]) IN
         /\ TipoTabla'
         /\ n \in Nat /\ Len(segment_table'[p]) = n + 1
         /\ segment_table'[p][n + 1] = s
         /\ \A j \in 1 .. n : segment_table'[p][j] = segment_table[p][j]
         /\ \A x \in Prog \ {p} : segment_table'[x] = segment_table[x]
<1> DEFINE t == segment_table[p]
           n == Len(segment_table[p])
           u == Append(t, s)
<1>1. t \in Seq(Segs) /\ n \in Nat BY LenProperties DEF TipoTabla
<1>2. /\ u \in Seq(Segs) /\ Len(u) = n + 1 /\ u[n + 1] = s
      /\ \A j \in 1 .. n : u[j] = t[j]
  BY <1>1, AppendProperties
<1>3. segment_table' = [segment_table EXCEPT ![p] = u] BY DEF ConSegmento
<1> HIDE DEF u
<1>4. segment_table'[p] = u /\ \A x \in Prog \ {p} : segment_table'[x] = segment_table[x]
  BY <1>3 DEF TipoTabla
<1>5. segment_table' \in [Prog -> Seq(Segs)] BY <1>2, <1>3 DEF TipoTabla
<1>6. n + 1 <= MaxSeg BY <1>1, MmapAssumption DEF MmapAssumption
<1>7. TipoTabla' BY <1>2, <1>4, <1>5, <1>6 DEF TipoTabla
<1>8. QED BY <1>1, <1>2, <1>4, <1>7

\* The last segment of p, a heap, grown by a page in the frame m.
Agranda(p, m) ==
  segment_table' = [segment_table EXCEPT
                      ![p][Len(segment_table[p])].limit = @ + PAGE_SIZE,
                      ![p][Len(segment_table[p])].marcos = @ \cup {m}]

LEMMA AgrandaProps ==
  ASSUME TipoTabla, NEW p \in Prog, segment_table[p] # <<>>, NEW m \in Marco, Agranda(p, m)
  PROVE  LET n == Len(segment_table[p]) IN
         /\ TipoTabla'
         /\ n \in Nat \ {0} /\ Len(segment_table'[p]) = n
         /\ segment_table'[p][n] =
              [segment_table[p][n] EXCEPT !.limit = @ + PAGE_SIZE, !.marcos = @ \cup {m}]
         /\ \A j \in 1 .. n - 1 : segment_table'[p][j] = segment_table[p][j]
         /\ \A x \in Prog \ {p} : segment_table'[x] = segment_table[x]
<1> DEFINE t == segment_table[p]
           n == Len(segment_table[p])
           s == [t[n] EXCEPT !.limit = @ + PAGE_SIZE, !.marcos = @ \cup {m}]
           u == [t EXCEPT ![n] = s]
<1>1. t \in Seq(Segs) /\ n \in Nat \ {0} /\ n <= MaxSeg
  BY EmptySeq, LenProperties DEF TipoTabla
<1>2. t[n] \in Segs BY <1>1, ElementOfSeq
<1>3. s \in Segs
  <2>1. t[n].limit + PAGE_SIZE \in Nat /\ t[n].marcos \cup {m} \in SUBSET Marco
    BY <1>2, MmapAssumption DEF Segs, MmapAssumption
  <2>2. QED BY <1>2, <2>1 DEF Segs
<1>4. segment_table' = [segment_table EXCEPT ![p] = u] BY DEF Agranda
<1> HIDE DEF s
<1>5. /\ u \in Seq(Segs) /\ Len(u) = n /\ u[n] = s
      /\ \A j \in 1 .. n - 1 : u[j] = t[j]
  BY <1>1, <1>3, ExceptSeq
<1> HIDE DEF u
<1>6. segment_table'[p] = u /\ \A x \in Prog \ {p} : segment_table'[x] = segment_table[x]
  BY <1>4 DEF TipoTabla
<1>7. segment_table' \in [Prog -> Seq(Segs)] BY <1>4, <1>5 DEF TipoTabla
<1>8. TipoTabla' BY <1>1, <1>5, <1>6, <1>7 DEF TipoTabla
<1>9. QED BY <1>1, <1>5, <1>6, <1>8 DEF s

\* All the segments lose the frame m.
Pierden(m) ==
  segment_table' = [x \in Prog |-> [i \in DOMAIN segment_table[x] |->
                      [segment_table[x][i] EXCEPT !.marcos = @ \ {m}]]]

LEMMA PierdenProps ==
  ASSUME TipoTabla, NEW m, Pierden(m)
  PROVE  /\ TipoTabla'
         /\ \A x \in Prog :
              /\ DOMAIN segment_table'[x] = DOMAIN segment_table[x]
              /\ \A i \in DOMAIN segment_table[x] :
                   LET r == segment_table[x][i]
                       s == segment_table'[x][i]
                   IN s.es = r.es /\ s.base = r.base /\ s.limit = r.limit /\ s.marcos = r.marcos \ {m}
<1>1. ASSUME NEW x \in Prog
      PROVE  /\ segment_table'[x] \in Seq(Segs)
             /\ Len(segment_table'[x]) = Len(segment_table[x])
             /\ DOMAIN segment_table'[x] = DOMAIN segment_table[x]
             /\ \A i \in DOMAIN segment_table[x] :
                  LET r == segment_table[x][i]
                      s == segment_table'[x][i]
                  IN s.es = r.es /\ s.base = r.base /\ s.limit = r.limit /\ s.marcos = r.marcos \ {m}
  <2> DEFINE t == segment_table[x]
             u == [i \in DOMAIN t |-> [t[i] EXCEPT !.marcos = @ \ {m}]]
  <2>1. t \in Seq(Segs) /\ Len(t) \in Nat /\ DOMAIN t = 1 .. Len(t)
    BY LenProperties DEF TipoTabla
  <2>2. \A i \in 1 .. Len(t) : t[i] \in Segs BY <2>1, ElementOfSeq
  <2>3. \A i \in 1 .. Len(t) :
          /\ u[i] \in Segs
          /\ u[i].es = t[i].es /\ u[i].base = t[i].base /\ u[i].limit = t[i].limit
          /\ u[i].marcos = t[i].marcos \ {m}
    <3>1. ASSUME NEW i \in 1 .. Len(t)
          PROVE  /\ u[i] \in Segs
                 /\ u[i].es = t[i].es /\ u[i].base = t[i].base /\ u[i].limit = t[i].limit
                 /\ u[i].marcos = t[i].marcos \ {m}
      <4> DEFINE r == t[i]
      <4>1. r \in Segs /\ i \in DOMAIN t BY <2>1, <2>2
      <4>2. u[i] = [r EXCEPT !.marcos = @ \ {m}] BY <4>1
      <4> HIDE DEF u, r
      <4>3. QED BY <4>1, <4>2 DEF Segs, r
    <3>2. QED BY <3>1
  <2>4. segment_table'[x] = u /\ DOMAIN u = DOMAIN t BY DEF Pierden
  <2>5. u = [i \in 1 .. Len(t) |-> u[i]] BY <2>1
  <2> HIDE DEF u
  <2>6. u \in Seq(Segs) /\ Len(u) = Len(t)
    <3>1. u \in [1 .. Len(t) -> Segs] BY <2>3, <2>5
    <3>2. u \in Seq(Segs) BY <2>1, <3>1, SeqDef
    <3>3. QED BY <2>1, <3>1, <3>2, LenProperties
  <2>7. QED BY <2>1, <2>3, <2>4, <2>6
<1>2. segment_table' \in [Prog -> Seq(Segs)] BY <1>1 DEF Pierden
<1>3. TipoTabla' BY <1>1, <1>2 DEF TipoTabla
<1>4. QED BY <1>1, <1>3

\* The pages S of a file come to the frames g: each absent one to a frame that was free,
\* no two to the same, with what the file has for it.
LEMMA TraeEfecto ==
  ASSUME TipoMarco, TipoDato, PresentesAbiertas, NEW f \in Archivo, NEW S \in SUBSET De(f),
         NEW g \in [Faltan(S) -> MarcosLibres], Trae(S, g)
  PROVE  /\ presente' \in [Pag -> BOOLEAN] /\ fr' \in [Pag -> Nat]
         /\ BITMAP' \in [Marco -> BOOLEAN] /\ Traida(S, g) \in [Marco -> Valor]
         /\ Presentes' = Presentes \cup S /\ Faltan(S) = S \ Presentes
         /\ \A q \in Presentes : fr'[q] = fr[q]
         /\ \A q \in S : fr'[q] \in Marco
         /\ \A q \in Faltan(S) :
              /\ fr'[q] \in Marco /\ BITMAP[fr'[q]]
              /\ Traida(S, g)[fr'[q]] = archivo[q]
         /\ \A q, r \in Faltan(S) : q # r => fr'[q] # fr'[r]
         /\ \A m \in Marco :
              (\A q \in Faltan(S) : fr'[q] # m) => Traida(S, g)[m] = MAIN_MEMORY[m]
         /\ \A m \in Marco : BITMAP'[m] <=> BITMAP[m] /\ \A q \in Faltan(S) : fr'[q] # m
<1> DEFINE A == Faltan(S)
           T == Traida(S, g)
<1>1. /\ EnOrden(S, g)
      /\ BITMAP' = [m \in Marco |-> BITMAP[m] /\ \A q \in A : g[q] # m]
      /\ presente' = [q \in Pag |-> presente[q] \/ q \in S]
      /\ fr' = [q \in Pag |-> IF q \in A THEN g[q] ELSE fr[q]]
  BY DEF Trae
<1>2. /\ S \subseteq Pag /\ A = S \ Presentes /\ A \subseteq Pag
      /\ \A q \in S : q[1] = f /\ q[2] \in Nat /\ q = <<q[1], q[2]>>
  <2>1. S \subseteq Pag BY DeEs
  <2>2. \A q \in S : q[1] = f BY DEF De
  <2>3. \A q \in S : q[2] \in Nat /\ q = <<q[1], q[2]>> BY <2>1, PagEs
  <2>4. QED BY <2>1, <2>2, <2>3 DEF Faltan, Presentes
<1>3. MarcosLibres \subseteq Marco /\ Marco \subseteq Nat /\ \A m \in MarcosLibres : BITMAP[m]
  BY DEF MarcosLibres, Marco
<1>4. \A q \in A : g[q] \in MarcosLibres OBVIOUS
<1>5. \A q, r \in A : q # r => g[q] # g[r]
  <2>1. SUFFICES ASSUME NEW q \in A, NEW r \in A, q # r PROVE g[q] # g[r]
    OBVIOUS
  <2>2. q[2] \in Nat /\ r[2] \in Nat /\ q[2] # r[2] BY <1>2, <2>1
  <2>3. g[q] \in Nat /\ g[r] \in Nat BY <1>3, <1>4
  <2>4. q[2] < r[2] => g[q] < g[r] BY <1>1 DEF EnOrden
  <2>5. r[2] < q[2] => g[r] < g[q] BY <1>1 DEF EnOrden
  <2>6. QED BY <2>2, <2>3, <2>4, <2>5
<1>6. \A q \in Pag : fr'[q] = IF q \in A THEN g[q] ELSE fr[q] BY <1>1
<1>7. Presentes' = Presentes \cup S BY <1>1, <1>2 DEF Presentes
<1>8. T \in [Marco -> Valor]
  <2>1. \A m \in Marco : (\E q \in A : g[q] = m) =>
          Leida(CHOOSE q \in A : g[q] = m) \in Valor
    BY <1>2 DEF Leida, TipoDato
  <2>2. QED BY <2>1 DEF Traida, TipoMarco
<1>9. \A q \in A : T[g[q]] = archivo[q]
  <2>1. SUFFICES ASSUME NEW q \in A PROVE T[g[q]] = archivo[q]
    OBVIOUS
  <2>2. (CHOOSE r \in A : g[r] = g[q]) = q BY <1>5
  <2>3. g[q] \in Marco BY <1>3, <1>4
  <2>4. T[g[q]] = Leida(CHOOSE r \in A : g[r] = g[q]) BY <2>1, <2>3 DEF Traida
  <2>5. QED BY <2>2, <2>4 DEF Leida
<1>10. \A m \in Marco : (\A q \in A : g[q] # m) => T[m] = MAIN_MEMORY[m]
  BY DEF Traida
<1>11. fr' \in [Pag -> Nat] BY <1>1, <1>3, <1>4 DEF TipoMarco
<1>12. presente' \in [Pag -> BOOLEAN] BY <1>1 DEF TipoMarco
<1>13. BITMAP' \in [Marco -> BOOLEAN] BY <1>1 DEF TipoMarco
<1>14. \A q \in S : fr'[q] \in Marco
  BY <1>2, <1>3, <1>4, <1>6 DEF PresentesAbiertas
<1>15. \A q \in Presentes : fr'[q] = fr[q] BY <1>2, <1>6 DEF Presentes
<1> HIDE DEF T
<1>16. \A q \in A : fr'[q] = g[q] BY <1>2, <1>6
<1>17. \A m \in Marco : BITMAP'[m] <=> BITMAP[m] /\ \A q \in A : g[q] # m BY <1>1
<1> HIDE DEF A
<1>18. \A q \in A : fr'[q] \in Marco /\ BITMAP[fr'[q]] /\ T[fr'[q]] = archivo[q]
  <2>1. \A q \in A : g[q] \in Marco /\ BITMAP[g[q]] /\ T[g[q]] = archivo[q]
    BY <1>3, <1>4, <1>9 DEF A
  <2>2. QED BY <1>16, <2>1
<1>19. \A q, r \in A : q # r => fr'[q] # fr'[r] BY <1>5, <1>16 DEF A
<1>20. \A m \in Marco : (\A q \in A : fr'[q] # m) => T[m] = MAIN_MEMORY[m]
  BY <1>10, <1>16 DEF A
<1>21. \A m \in Marco : BITMAP'[m] <=> BITMAP[m] /\ \A q \in A : fr'[q] # m
  BY <1>16, <1>17
<1>22. QED
  BY <1>2, <1>7, <1>8, <1>11, <1>12, <1>13, <1>14, <1>15, <1>18, <1>19, <1>20, <1>21 DEF A, T

-----------------------------------------------------------------------------
(* The base invariant, action by action                                    *)

LEMMA TablaQuieta ==
  ASSUME TipoTabla, MapasSinMarcos, UNCHANGED segment_table
  PROVE  TipoTabla' /\ MapasSinMarcos'
BY DEF TipoTabla, MapasSinMarcos

LEMMA UsoQuieto ==
  ASSUME TipoUso, AbiertosEnUso, UNCHANGED <<abierto, flag, programas>>
  PROVE  TipoUso' /\ AbiertosEnUso'
BY DEF TipoUso, AbiertosEnUso, Usos

LEMMA PaginasQuietas ==
  ASSUME PresentesAbiertas, UNCHANGED <<presente, fr, abierto>>
  PROVE  PresentesAbiertas' /\ Presentes' = Presentes
BY DEF PresentesAbiertas, Presentes

\* A table with one more segment, that has no frames or is a heap.
LEMMA MapasTrasAgregar ==
  ASSUME TipoTabla, TipoTabla', MapasSinMarcos, NEW p \in Prog, NEW s,
         s.es = "heap" \/ s.marcos = {},
         LET n == Len(segment_table[p]) IN
         /\ Len(segment_table'[p]) = n + 1
         /\ segment_table'[p][n + 1] = s
         /\ \A j \in 1 .. n : segment_table'[p][j] = segment_table[p][j]
         /\ \A x \in Prog \ {p} : segment_table'[x] = segment_table[x]
  PROVE  MapasSinMarcos'
<1> DEFINE n == Len(segment_table[p])
<1>1. \A x \in Prog : /\ Len(segment_table[x]) \in Nat
                      /\ DOMAIN segment_table[x] = 1 .. Len(segment_table[x])
                      /\ DOMAIN segment_table'[x] = 1 .. Len(segment_table'[x])
  BY LenProperties DEF TipoTabla
<1>2. SUFFICES ASSUME NEW x \in Prog, NEW j \in DOMAIN segment_table'[x],
                      segment_table'[x][j].es # "heap"
               PROVE  segment_table'[x][j].marcos = {}
  BY DEF MapasSinMarcos
<1>3. CASE x # p BY <1>2, <1>3 DEF MapasSinMarcos
<1>4. CASE x = p
  <2>1. j \in 1 .. n \/ j = n + 1 BY <1>1, <1>4
  <2>2. CASE j = n + 1 BY <1>2, <1>4, <2>2
  <2>3. CASE j \in 1 .. n BY <1>1, <1>2, <1>4, <2>3 DEF MapasSinMarcos
  <2>4. QED BY <2>1, <2>2, <2>3
<1>5. QED BY <1>3, <1>4

LEMMA MallocNuevoBase ==
  ASSUME BaseInv, NEW p \in Prog, memory_malloc_nuevo(p)
  PROVE  BaseInv'
<1> USE DEF BaseInv
<1>1. PICK m \in Marco : /\ BITMAP[m] /\ BITMAP' = [BITMAP EXCEPT ![m] = FALSE]
                         /\ ConSegmento(p, Segmento("heap", 0, 1, {m}))
  BY DEF memory_malloc_nuevo, Primero, MarcosLibres
<1> DEFINE s == Segmento("heap", 0, 1, {m})
<1>2. s \in Segs /\ s.es = "heap" BY MmapAssumption DEF Segmento, Segs, MmapAssumption
<1>3. Len(segment_table[p]) < MaxSeg BY DEF memory_malloc_nuevo
<1> HIDE DEF s
<1>4. LET n == Len(segment_table[p]) IN
      /\ TipoTabla'
      /\ n \in Nat /\ Len(segment_table'[p]) = n + 1
      /\ segment_table'[p][n + 1] = s
      /\ \A j \in 1 .. n : segment_table'[p][j] = segment_table[p][j]
      /\ \A x \in Prog \ {p} : segment_table'[x] = segment_table[x]
  BY <1>1, <1>2, <1>3, ConSegmentoProps DEF s
<1>5. MapasSinMarcos' BY <1>2, <1>4, MapasTrasAgregar
<1>6. TipoUso' /\ AbiertosEnUso' BY UsoQuieto DEF memory_malloc_nuevo
<1>7. PresentesAbiertas' BY PaginasQuietas DEF memory_malloc_nuevo
<1>8. TipoMarco' BY <1>1 DEF TipoMarco, memory_malloc_nuevo
<1>9. TipoDato' BY DEF TipoDato, memory_malloc_nuevo
<1>10. QED BY <1>4, <1>5, <1>6, <1>7, <1>8, <1>9

\* memory_malloc_agranda, when it does grow the segment.
Creciendo(p) ==
  /\ segment_table[p] # <<>> /\ Ultimo(p).es = "heap"
  /\ Ultimo(p).limit < MaxDir /\ busca_segmento(p, Ultimo(p).limit + 1) = 0
  /\ CreceUltimo(p)

LEMMA MallocAgrandaBase ==
  ASSUME BaseInv, NEW p \in Prog, Creciendo(p)
  PROVE  BaseInv'
<1> USE DEF BaseInv
<1>1. PICK m \in Marco : /\ BITMAP[m] /\ BITMAP' = [BITMAP EXCEPT ![m] = FALSE]
                         /\ Agranda(p, m)
  BY DEF Creciendo, CreceUltimo, Primero, MarcosLibres, Agranda
<1>2. segment_table[p] # <<>> /\ Ultimo(p).es = "heap" BY DEF Creciendo, CreceUltimo
<1> DEFINE n == Len(segment_table[p])
<1>3. /\ TipoTabla'
      /\ n \in Nat \ {0} /\ Len(segment_table'[p]) = n
      /\ segment_table'[p][n] =
           [segment_table[p][n] EXCEPT !.limit = @ + PAGE_SIZE, !.marcos = @ \cup {m}]
      /\ \A j \in 1 .. n - 1 : segment_table'[p][j] = segment_table[p][j]
      /\ \A x \in Prog \ {p} : segment_table'[x] = segment_table[x]
  BY <1>1, <1>2, AgrandaProps
<1>4. segment_table'[p][n].es = "heap"
  <2>1. segment_table[p][n].es = "heap" BY <1>2 DEF Ultimo
  <2>2. segment_table[p][n] \in Segs BY <1>3, ElementOfSeq DEF TipoTabla
  <2>3. QED BY <1>3, <2>1, <2>2 DEF Segs
<1>5. MapasSinMarcos'
  <2>1. SUFFICES ASSUME NEW x \in Prog, NEW j \in DOMAIN segment_table'[x],
                        segment_table'[x][j].es # "heap"
                 PROVE  segment_table'[x][j].marcos = {}
    BY DEF MapasSinMarcos
  <2>2. CASE x # p BY <1>3, <2>1, <2>2 DEF MapasSinMarcos
  <2>3. CASE x = p
    <3>1. j \in 1 .. n BY <1>3, <2>1, <2>3, LenProperties DEF TipoTabla
    <3>2. j # n BY <1>4, <2>1, <2>3
    <3>3. j \in 1 .. n - 1 BY <1>3, <3>1, <3>2
    <3>4. j \in DOMAIN segment_table[p] BY <1>3, <3>1, LenProperties DEF TipoTabla
    <3>5. QED BY <1>3, <2>1, <2>3, <3>3, <3>4 DEF MapasSinMarcos
  <2>4. QED BY <2>2, <2>3
<1>6. TipoUso' /\ AbiertosEnUso' BY UsoQuieto DEF Creciendo, CreceUltimo
<1>7. PresentesAbiertas' BY PaginasQuietas DEF Creciendo, CreceUltimo
<1>8. TipoMarco' BY <1>1 DEF TipoMarco, Creciendo, CreceUltimo
<1>9. TipoDato' BY DEF TipoDato, Creciendo, CreceUltimo
<1>10. QED BY <1>3, <1>5, <1>6, <1>7, <1>8, <1>9

\* The page of an access is of an open file.
LEMMA AccedeProps ==
  ASSUME BaseInv, NEW p, NEW dir, NEW q, Accede(p, dir, q)
  PROVE  q[1] \in abierto /\ q[1] \in Archivo /\ (q \in Pag => {q} \in SUBSET De(q[1]))
BY DEF Accede, BaseInv, TipoUso, De

\* The pages S of an open file are brought, and then main memory is written or not.
LEMMA TraeBase ==
  ASSUME BaseInv, NEW f \in abierto, NEW S \in SUBSET De(f),
         NEW g \in [Faltan(S) -> MarcosLibres], Trae(S, g),
         MAIN_MEMORY' \in [Marco -> Valor], UNCHANGED tablaVars, TipoDato'
  PROVE  BaseInv'
<1> USE DEF BaseInv
<1>1. f \in Archivo BY DEF TipoUso
<1>2. /\ presente' \in [Pag -> BOOLEAN] /\ fr' \in [Pag -> Nat] /\ BITMAP' \in [Marco -> BOOLEAN]
      /\ Presentes' = Presentes \cup S
      /\ \A q \in Presentes : fr'[q] = fr[q]
      /\ \A q \in S : fr'[q] \in Marco
  BY <1>1, TraeEfecto
<1>3. TipoMarco' BY <1>2 DEF TipoMarco
<1>4. TipoTabla' /\ MapasSinMarcos' BY TablaQuieta DEF tablaVars
<1>5. TipoUso' /\ AbiertosEnUso' /\ abierto' = abierto BY UsoQuieto DEF tablaVars
<1>6. PresentesAbiertas'
  <2>1. \A q \in S : q[1] = f BY DEF De
  <2>2. QED BY <1>2, <1>5, <2>1 DEF PresentesAbiertas
<1>7. QED BY <1>3, <1>4, <1>5, <1>6

LEMMA GetBase ==
  ASSUME BaseInv, NEW p \in Prog, NEW dir, memory_get(p, dir)
  PROVE  BaseInv'
<1> USE DEF BaseInv
<1>1. PICK q \in Pag :
        /\ Accede(p, dir, q)
        /\ IF Faltan({q}) # {} /\ MarcosLibres = {}
           THEN obtener_data_marco_mmap_sin_marco(p, dir, q)
           ELSE /\ \E g \in [Faltan({q}) -> MarcosLibres] :
                     Trae({q}, g) /\ MAIN_MEMORY' = Traida({q}, g)
                /\ UNCHANGED <<vivo, segment_table>>
  BY DEF memory_get
<1>2. /\ UNCHANGED <<program_list, abierto, flag, programas, archivo, disco, valor, guardado>>
      /\ q[1] \in abierto /\ q[1] \in Archivo /\ {q} \in SUBSET De(q[1])
  BY <1>1, AccedeProps DEF memory_get
<1>3. TipoDato' BY <1>2 DEF TipoDato
<1>4. ASSUME NEW g \in [Faltan({q}) -> MarcosLibres], Trae({q}, g), MAIN_MEMORY' = Traida({q}, g),
             UNCHANGED segment_table
      PROVE  BaseInv'
  <2>1. MAIN_MEMORY' \in [Marco -> Valor] BY <1>2, <1>4, TraeEfecto
  <2>2. UNCHANGED tablaVars BY <1>2, <1>4 DEF tablaVars
  <2>3. QED BY <1>2, <1>3, <1>4, <2>1, <2>2, TraeBase
<1>5. ASSUME NEW m \in Marco,
             presente' = [r \in Pag |-> r = q \/ (presente[r] /\ fr[r] # m)],
             fr' = [fr EXCEPT ![q] = m], MAIN_MEMORY' = [MAIN_MEMORY EXCEPT ![m] = Cero],
             Pierden(m), UNCHANGED BITMAP
      PROVE  BaseInv'
  <2>1. /\ TipoTabla'
        /\ \A x \in Prog : /\ DOMAIN segment_table'[x] = DOMAIN segment_table[x]
                           /\ \A i \in DOMAIN segment_table[x] :
                                /\ segment_table'[x][i].es = segment_table[x][i].es
                                /\ segment_table'[x][i].marcos = segment_table[x][i].marcos \ {m}
    BY <1>5, PierdenProps
  <2>2. MapasSinMarcos' BY <2>1 DEF MapasSinMarcos
  <2>3. TipoUso' /\ AbiertosEnUso' BY <1>2, UsoQuieto
  <2>4. m \in Nat BY DEF Marco
  <2>5. TipoMarco' BY <1>5, <2>4, MmapAssumption DEF TipoMarco, MmapAssumption
  <2>6. PresentesAbiertas'
    <3>1. SUFFICES ASSUME NEW r \in Presentes' PROVE fr'[r] \in Marco /\ r[1] \in abierto'
      BY DEF PresentesAbiertas
    <3>2. r \in Pag /\ (r = q \/ r \in Presentes) BY <1>5 DEF Presentes
    <3>3. fr'[r] = IF r = q THEN m ELSE fr[r] BY <1>5, <3>2 DEF TipoMarco
    <3>4. QED BY <1>2, <3>2, <3>3 DEF PresentesAbiertas
  <2>7. QED BY <1>3, <2>1, <2>2, <2>3, <2>5, <2>6
<1>6. CASE UNCHANGED <<segment_table, marcoVars>>
  <2>1. TipoTabla' /\ MapasSinMarcos' BY <1>6, TablaQuieta
  <2>2. TipoUso' /\ AbiertosEnUso' BY <1>2, UsoQuieto
  <2>3. TipoMarco' BY <1>6 DEF TipoMarco, marcoVars
  <2>4. PresentesAbiertas' BY <1>2, <1>6, PaginasQuietas DEF marcoVars
  <2>5. QED BY <1>3, <2>1, <2>2, <2>3, <2>4
<1>7. QED BY <1>1, <1>4, <1>5, <1>6 DEF obtener_data_marco_mmap_sin_marco, Pierden

LEMMA CpyBase ==
  ASSUME BaseInv, NEW p \in Prog, NEW dir, NEW v \in Valor, memory_cpy(p, dir, v)
  PROVE  BaseInv'
<1> USE DEF BaseInv
<1>0. PICK q \in Pag :
        /\ Accede(p, dir, q) /\ valor' = [valor EXCEPT ![q] = v]
        /\ \E g \in [Faltan({q}) -> MarcosLibres] :
             Trae({q}, g) /\ MAIN_MEMORY' = [Traida({q}, g) EXCEPT ![fr'[q]] = v]
  BY DEF memory_cpy
<1>1. PICK g \in [Faltan({q}) -> MarcosLibres] :
        Trae({q}, g) /\ MAIN_MEMORY' = [Traida({q}, g) EXCEPT ![fr'[q]] = v]
  BY <1>0
<1>2. /\ UNCHANGED <<vivo, tablaVars, archivo, disco, guardado>>
      /\ q[1] \in abierto /\ q[1] \in Archivo /\ {q} \in SUBSET De(q[1])
  BY <1>0, AccedeProps DEF memory_cpy
<1>3. Traida({q}, g) \in [Marco -> Valor] BY <1>1, <1>2, TraeEfecto
<1>4. MAIN_MEMORY' \in [Marco -> Valor] BY <1>1, <1>3
<1>5. TipoDato' BY <1>0, <1>2 DEF TipoDato
<1>6. QED BY <1>1, <1>2, <1>4, <1>5, TraeBase

\* What memory_map does to the list of a file.
LEMMA AnotaProps ==
  ASSUME BaseInv, NEW p \in Prog, NEW f \in Archivo, NEW fl \in Flag, Anota(f, p, fl)
  PROVE  /\ programas' \in [Archivo \X Prog -> Nat]
         /\ \E x \in Prog : programas'[<<f, x>>] > 0
         /\ \A y \in (Archivo \X Prog) \ {<<f, p>>} : programas'[y] = programas[y]
         /\ programas'[<<f, p>>] = programas[<<f, p>>] +
              IF fl = "MAP_SHARED" \/ f \notin abierto THEN 1 ELSE 0
<1> USE DEF BaseInv
<1>1. programas \in [Archivo \X Prog -> Nat] /\ <<f, p>> \in Archivo \X Prog BY DEF TipoUso
<1>2. Mapeada(f, p) = IF f \in abierto THEN 0 ELSE 1 BY DEF Mapeada, AbiertosEnUso
<1>3. programas' = [programas EXCEPT ![<<f, p>>] =
                      @ + IF fl = "MAP_SHARED" \/ f \notin abierto THEN 1 ELSE 0]
  BY <1>2 DEF Anota
<1>4. programas' \in [Archivo \X Prog -> Nat] BY <1>1, <1>3
<1>5. /\ \A y \in (Archivo \X Prog) \ {<<f, p>>} : programas'[y] = programas[y]
      /\ programas'[<<f, p>>] = programas[<<f, p>>] +
              IF fl = "MAP_SHARED" \/ f \notin abierto THEN 1 ELSE 0
  BY <1>1, <1>3
<1>6. \E x \in Prog : programas'[<<f, x>>] > 0
  <2>1. programas[<<f, p>>] \in Nat BY <1>1
  <2>2. CASE fl = "MAP_SHARED" \/ f \notin abierto BY <1>5, <2>1, <2>2
  <2>3. CASE ~ (fl = "MAP_SHARED" \/ f \notin abierto)
    <3>1. PICK x \in Prog : programas[<<f, x>>] > 0 BY <2>3 DEF AbiertosEnUso, Usos
    <3>2. programas'[<<f, x>>] = programas[<<f, x>>] BY <1>5, <2>1, <2>3, <3>1
    <3>3. QED BY <3>1, <3>2
  <2>4. QED BY <2>2, <2>3
<1>7. QED BY <1>4, <1>5, <1>6

LEMMA BaseNuevaNat ==
  ASSUME TipoTabla, NEW p \in Prog
  PROVE  BaseNueva(p) \in Nat
<1>1. CASE segment_table[p] = <<>> BY <1>1 DEF BaseNueva
<1>2. CASE segment_table[p] # <<>>
  <2>1. Ultimo(p) \in Segs BY <1>2, EmptySeq, ElementOfSeq DEF TipoTabla, Ultimo
  <2>2. QED BY <1>2, <2>1 DEF BaseNueva, Segs
<1>3. QED BY <1>1, <1>2

LEMMA MapBase ==
  ASSUME BaseInv, NEW p \in Prog, NEW f \in Archivo, NEW fl \in Flag, memory_map(p, f, fl)
  PROVE  BaseInv'
<1> USE DEF BaseInv
<1> DEFINE s == Segmento(f, BaseNueva(p), Paginas[f], {})
<1>1. s \in Segs /\ s.marcos = {}
  <2>1. BaseNueva(p) \in Nat BY BaseNuevaNat
  <2>2. Paginas[f] \in Nat /\ PAGE_SIZE \in Nat BY MmapAssumption DEF MmapAssumption
  <2>3. BaseNueva(p) + Paginas[f] * PAGE_SIZE \in Nat BY <2>1, <2>2
  <2>4. QED BY <2>1, <2>3 DEF Segmento, Segs
<1>2. Len(segment_table[p]) < MaxSeg /\ ConSegmento(p, s) BY DEF memory_map
<1> HIDE DEF s
<1>3. LET n == Len(segment_table[p]) IN
      /\ TipoTabla'
      /\ n \in Nat /\ Len(segment_table'[p]) = n + 1
      /\ segment_table'[p][n + 1] = s
      /\ \A j \in 1 .. n : segment_table'[p][j] = segment_table[p][j]
      /\ \A x \in Prog \ {p} : segment_table'[x] = segment_table[x]
  BY <1>1, <1>2, ConSegmentoProps
<1>4. MapasSinMarcos' BY <1>1, <1>3, MapasTrasAgregar
<1>5. /\ programas' \in [Archivo \X Prog -> Nat]
      /\ \E x \in Prog : programas'[<<f, x>>] > 0
      /\ \A y \in (Archivo \X Prog) \ {<<f, p>>} : programas'[y] = programas[y]
  BY AnotaProps DEF memory_map
<1>6. abierto' = abierto \cup {f} /\ flag' \in [Archivo -> Flag] /\ UNCHANGED <<marcoVars, disco, guardado>>
  BY DEF memory_map, TipoUso
<1>7. TipoUso' BY <1>5, <1>6 DEF TipoUso
<1>8. AbiertosEnUso'
  <2>1. SUFFICES ASSUME NEW h \in Archivo PROVE h \in abierto' <=> \E x \in Prog : programas'[<<h, x>>] > 0
    BY DEF AbiertosEnUso, Usos
  <2>2. CASE h = f BY <1>5, <1>6, <2>2
  <2>3. CASE h # f
    <3>1. \A x \in Prog : programas'[<<h, x>>] = programas[<<h, x>>] BY <1>5, <2>3
    <3>2. QED BY <1>6, <2>3, <3>1 DEF AbiertosEnUso, Usos
  <2>4. QED BY <2>2, <2>3
<1>9. TipoMarco' BY <1>6 DEF TipoMarco, marcoVars
<1>10. PresentesAbiertas' BY <1>6 DEF PresentesAbiertas, Presentes, marcoVars
<1>11. TipoDato'
  <2>1. CASE f \in abierto BY <2>1 DEF memory_map, TipoDato
  <2>2. CASE f \notin abierto
    <3>1. archivo' = Nuevas(f, archivo, disco) /\ valor' = Nuevas(f, valor, disco)
      BY <2>2 DEF memory_map
    <3>2. QED BY <1>6, <3>1 DEF TipoDato, Nuevas
  <2>3. QED BY <2>1, <2>2
<1>12. QED BY <1>3, <1>4, <1>7, <1>8, <1>9, <1>10, <1>11

LEMMA FallaBase ==
  ASSUME BaseInv, NEW p \in Prog, falla(p)
  PROVE  BaseInv'
<1> USE DEF BaseInv
<1>1. UNCHANGED <<segment_table, abierto, flag, programas, marcoVars, archivo, disco, valor, guardado>>
  BY DEF falla
<1>2. TipoTabla' /\ MapasSinMarcos' BY <1>1, TablaQuieta
<1>3. TipoUso' /\ AbiertosEnUso' BY <1>1, UsoQuieto
<1>4. TipoMarco' /\ TipoDato' BY <1>1 DEF TipoMarco, TipoDato, marcoVars
<1>5. PresentesAbiertas' BY <1>1, PaginasQuietas DEF marcoVars
<1>6. QED BY <1>2, <1>3, <1>4, <1>5

\* The pages K of a file.
DelArchivo(f, K) == {q \in De(f) : q[2] \in K}

\* A sync brings to frames the pages K of an open file f and writes f from them.
Sincroniza(f, K, k) ==
  /\ Cardinality(DelArchivo(f, K)) = k
  /\ k < Paginas[f] => "parcial" \in Extremos
  /\ \E g \in [Faltan(DelArchivo(f, K)) -> MarcosLibres] :
       Trae(DelArchivo(f, K), g) /\ MAIN_MEMORY' = Traida(DelArchivo(f, K), g)
  /\ archivo' = Volcada(f, K, MAIN_MEMORY', fr')
  /\ disco' = IF flag[f] = "MAP_SHARED" THEN Nuevas(f, disco, archivo') ELSE disco
  /\ \E h, L : /\ guardado' = [q \in Pag |-> IF q[1] = h /\ q[2] \in L /\ flag[q[1]] = "MAP_SHARED"
                                             THEN valor[q] ELSE guardado[q]]
               /\ (h = f /\ L = K) \/ "ajeno" \in Extremos
  /\ UNCHANGED <<vivo, tablaVars, valor>>

LEMMA SyncProps ==
  ASSUME BaseInv, NEW p \in Prog, NEW dir, NEW k \in Nat \ {0}, memory_sync(p, dir, k)
  PROVE  \E f \in abierto : \E K : Sincroniza(f, K, k)
<1> DEFINE n == busca_segmento(p, dir)
           pedido == segment_table[p][n]
           s == lista_de_segmentos[n]
           f == s.es
           K == Desde(s, dir, k)
<1>1. Sincroniza(f, K, k)
  <2>1. /\ Cardinality(DelArchivo(f, K)) = k
        /\ k < Paginas[f] => "parcial" \in Extremos
        /\ \E g \in [Faltan(DelArchivo(f, K)) -> MarcosLibres] :
             Trae(DelArchivo(f, K), g) /\ MAIN_MEMORY' = Traida(DelArchivo(f, K), g)
        /\ archivo' = Volcada(f, K, MAIN_MEMORY', fr')
    BY DEF memory_sync, DelArchivo
  <2>2. /\ disco' = IF flag[f] = "MAP_SHARED" THEN Nuevas(f, disco, archivo') ELSE disco
        /\ UNCHANGED <<vivo, tablaVars, valor>>
    BY DEF memory_sync
  <2>3. /\ guardado' = [q \in Pag |->
             IF q[1] = pedido.es /\ q[2] \in Desde(pedido, dir, k) /\ flag[q[1]] = "MAP_SHARED"
             THEN valor[q] ELSE guardado[q]]
        /\ s # pedido => "ajeno" \in Extremos
    BY DEF memory_sync
  <2>4. (pedido.es = f /\ Desde(pedido, dir, k) = K) \/ "ajeno" \in Extremos BY <2>3
  <2> HIDE DEF n, pedido, s, f, K
  <2>5. QED BY <2>1, <2>2, <2>3, <2>4 DEF Sincroniza
<1>2. f \in abierto
  <2>1. programas[<<f, p>>] > 0 BY DEF memory_sync
  <2>2. DelArchivo(f, K) # {}
    <3> HIDE DEF f, K
    <3>1. QED BY <1>1, FS_EmptySet DEF Sincroniza
  <2>3. f \in Archivo BY <2>2, PagEs DEF DelArchivo, De
  <2>4. QED BY <2>1, <2>3 DEF BaseInv, AbiertosEnUso, Usos
<1> HIDE DEF f, K
<1>3. QED BY <1>1, <1>2

\* What a sync leaves in the mmap of the server.
LEMMA VolcadaProps ==
  ASSUME NEW f, NEW K, NEW mm, NEW fra, NEW q \in Pag
  PROVE  /\ q[1] # f => Volcada(f, K, mm, fra)[q] = archivo[q]
         /\ q \in DelArchivo(f, K) => Volcada(f, K, mm, fra)[q] = mm[fra[q]]
         /\ Volcada(f, K, mm, fra)[q] \in {mm[fra[q]], Cero, archivo[q]}
         /\ (Volcada(f, K, mm, fra)[q] = mm[fra[q]] /\ q \in DelArchivo(f, K))
              \/ Volcada(f, K, mm, fra)[q] \in {Cero, archivo[q]}
<1> DEFINE x == Volcada(f, K, mm, fra)[q]
           A == q[1] = f /\ q[2] \in K
           B == q[1] = f /\ Cardinality(K) < Paginas[f] /\ \A k \in K : k < q[2]
<1>1. x = CASE A -> mm[fra[q]] [] B -> Cero [] OTHER -> archivo[q]
  BY DEF Volcada
<1>2. A => ~B BY PagEs
<1>3. A <=> q \in DelArchivo(f, K) BY DEF DelArchivo, De
<1>4. B => q[1] = f OBVIOUS
<1> HIDE DEF A, B
<1>5. A => x = mm[fra[q]] BY <1>1, <1>2
<1>6. ~A => x \in {Cero, archivo[q]} BY <1>1
<1>7. ~A /\ ~B => x = archivo[q] BY <1>1
<1>8. q[1] # f => ~A /\ ~B BY DEF A, B
<1>9. QED BY <1>3, <1>5, <1>6, <1>7, <1>8

LEMMA SyncBase ==
  ASSUME BaseInv, NEW f \in abierto, NEW K, NEW k, Sincroniza(f, K, k)
  PROVE  BaseInv'
<1> USE DEF BaseInv
<1> DEFINE S == DelArchivo(f, K)
<1>1. PICK g \in [Faltan(S) -> MarcosLibres] : Trae(S, g) /\ MAIN_MEMORY' = Traida(S, g)
  BY DEF Sincroniza
<1>2. S \in SUBSET De(f) /\ f \in Archivo BY DEF DelArchivo, TipoUso
<1>3. MAIN_MEMORY' \in [Marco -> Valor] /\ \A q \in S : fr'[q] \in Marco
  BY <1>1, <1>2, TraeEfecto
<1>4. archivo' = Volcada(f, K, MAIN_MEMORY', fr') BY DEF Sincroniza
<1>5. archivo' \in [Pag -> Valor]
  <2>1. ASSUME NEW q \in Pag PROVE archivo'[q] \in Valor
    <3>1. \/ archivo'[q] = MAIN_MEMORY'[fr'[q]] /\ q \in S
          \/ archivo'[q] \in {Cero, archivo[q]}
      BY <1>4, VolcadaProps
    <3>2. QED BY <1>3, <3>1, MmapAssumption DEF TipoDato, MmapAssumption
  <2>2. archivo' = [q \in Pag |-> archivo'[q]] BY <1>4 DEF Volcada
  <2>3. QED BY <2>1, <2>2
<1>6. disco' \in [Pag -> Valor]
  <2>1. disco' = IF flag[f] = "MAP_SHARED" THEN Nuevas(f, disco, archivo') ELSE disco
    BY DEF Sincroniza
  <2>2. Nuevas(f, disco, archivo') \in [Pag -> Valor] BY <1>5 DEF Nuevas, TipoDato
  <2>3. QED BY <2>1, <2>2 DEF TipoDato
<1>7. guardado' \in [Pag -> Valor]
  <2>1. PICK h, L :
          /\ guardado' = [q \in Pag |-> IF q[1] = h /\ q[2] \in L /\ flag[q[1]] = "MAP_SHARED"
                                        THEN valor[q] ELSE guardado[q]]
          /\ (h = f /\ L = K) \/ "ajeno" \in Extremos
    BY Zenon DEF Sincroniza
  <2>2. QED BY <2>1 DEF TipoDato
<1>8. UNCHANGED tablaVars /\ valor' = valor BY DEF Sincroniza
<1>9. TipoDato' BY <1>5, <1>6, <1>7, <1>8 DEF TipoDato
<1>10. QED BY <1>1, <1>2, <1>3, <1>8, <1>9, TraeBase

\* An unmap, by the segment that it takes out.
Desmapea(p, i, f) ==
  /\ i \in 1 .. Len(segment_table[p]) /\ segment_table[p][i].es = f
  /\ f \in abierto /\ programas[<<f, p>>] > 0
  /\ programas' = [programas EXCEPT ![<<f, p>>] = @ - 1]
  /\ SinSegmento(p, i)

Cierra(f) ==
  /\ \A x \in Prog : programas'[<<f, x>>] <= 0
  /\ abierto' = abierto \ {f}
  /\ BITMAP' = eliminar_archivo_mmap(f)
  /\ presente' = [q \in Pag |-> presente[q] /\ q[1] # f]
  /\ fr' = [q \in Pag |-> IF q[1] = f THEN 0 ELSE fr[q]]
  /\ MAIN_MEMORY' = [m \in Marco |-> IF BITMAP'[m] THEN Cero ELSE MAIN_MEMORY[m]]
  /\ flag' = [flag EXCEPT ![f] = "MAP_SHARED"]
  /\ archivo' = Nuevas(f, archivo, disco)
  /\ valor' = Nuevas(f, valor, disco)

SigueAbierto(f) ==
  /\ \E x \in Prog : programas'[<<f, x>>] > 0
  /\ UNCHANGED <<abierto, flag, marcoVars, archivo, valor>>

LEMMA UnmapProps ==
  ASSUME BaseInv, NEW p \in Prog, NEW dir, memory_unmap(p, dir)
  PROVE  /\ \E i, f : Desmapea(p, i, f) /\ (Cierra(f) \/ SigueAbierto(f))
         /\ UNCHANGED <<program_list, disco, guardado>>
<1> DEFINE i == busca_segmento(p, dir)
           f == segment_table[p][i].es
<1>1. i \in 1 .. Len(segment_table[p])
  BY BuscaProps DEF memory_unmap, BaseInv, TipoTabla
<1>2. Desmapea(p, i, f) BY <1>1 DEF memory_unmap, Desmapea
<1>3. f \in Archivo BY <1>2 DEF Desmapea, BaseInv, TipoUso
<1>4. \A x \in Prog : programas'[<<f, x>>] \in Int
  <2>1. programas \in [Archivo \X Prog -> Nat] BY DEF BaseInv, TipoUso
  <2>2. programas' = [programas EXCEPT ![<<f, p>>] = @ - 1] BY DEF memory_unmap
  <2> HIDE DEF f
  <2>3. QED BY <1>3, <2>1, <2>2
<1>5. Cierra(f) \/ SigueAbierto(f)
  <2>1. CASE \E x \in Prog : programas'[<<f, x>>] > 0
    BY <2>1 DEF memory_unmap, SigueAbierto
  <2>2. CASE ~ \E x \in Prog : programas'[<<f, x>>] > 0
    <3>1. \A x \in Prog : programas'[<<f, x>>] <= 0
      <4> HIDE DEF f
      <4>1. QED BY <1>4, <2>2
    <3>2. QED BY <2>2, <3>1 DEF memory_unmap, Cierra
  <2>3. QED BY <2>1, <2>2
<1> HIDE DEF i, f
<1>6. UNCHANGED <<program_list, disco, guardado>> BY DEF memory_unmap
<1>7. QED BY <1>2, <1>5, <1>6

LEMMA UnmapBase ==
  ASSUME BaseInv, NEW p \in Prog, NEW i, NEW f, Desmapea(p, i, f), Cierra(f) \/ SigueAbierto(f),
         UNCHANGED <<disco, guardado>>
  PROVE  BaseInv'
<1> USE DEF BaseInv
<1>1. /\ i \in 1 .. Len(segment_table[p]) /\ f \in abierto /\ f \in Archivo
      /\ programas[<<f, p>>] > 0 /\ SinSegmento(p, i)
      /\ programas' = [programas EXCEPT ![<<f, p>>] = @ - 1]
  BY DEF Desmapea, TipoUso
<1>2. /\ TipoTabla'
      /\ \A j \in 1 .. Len(segment_table'[p]) :
           /\ Antiguo(i, j) \in 1 .. Len(segment_table[p])
           /\ segment_table'[p][j] = segment_table[p][Antiguo(i, j)]
      /\ \A x \in Prog \ {p} : segment_table'[x] = segment_table[x]
  BY <1>1, SinSegmentoProps
<1>3. \A x \in Prog : /\ DOMAIN segment_table[x] = 1 .. Len(segment_table[x])
                      /\ DOMAIN segment_table'[x] = 1 .. Len(segment_table'[x])
  BY <1>2, LenProperties DEF TipoTabla
<1>4. MapasSinMarcos'
  <2>1. SUFFICES ASSUME NEW x \in Prog, NEW j \in DOMAIN segment_table'[x],
                        segment_table'[x][j].es # "heap"
                 PROVE  segment_table'[x][j].marcos = {}
    BY DEF MapasSinMarcos
  <2>2. \E y \in DOMAIN segment_table[x] : segment_table'[x][j] = segment_table[x][y]
    BY <1>2, <1>3
  <2>3. QED BY <2>1, <2>2 DEF MapasSinMarcos
<1>5. programas' \in [Archivo \X Prog -> Nat]
  <2>1. programas[<<f, p>>] \in Nat /\ programas[<<f, p>>] > 0 BY <1>1 DEF TipoUso
  <2>2. QED BY <1>1, <2>1 DEF TipoUso
<1>6. \A h \in Archivo \ {f} : \A x \in Prog : programas'[<<h, x>>] = programas[<<h, x>>]
  BY <1>1 DEF TipoUso
<1>7. CASE SigueAbierto(f)
  <2>1. UNCHANGED <<abierto, flag, marcoVars, archivo, valor>> BY <1>7 DEF SigueAbierto
  <2>2. AbiertosEnUso'
    <3>1. SUFFICES ASSUME NEW h \in Archivo PROVE h \in abierto <=> \E x \in Prog : programas'[<<h, x>>] > 0
      BY <2>1 DEF AbiertosEnUso, Usos
    <3>2. CASE h = f BY <1>1, <1>7, <3>2 DEF SigueAbierto
    <3>3. CASE h # f BY <1>6, <3>3 DEF AbiertosEnUso, Usos
    <3>4. QED BY <3>2, <3>3
  <2>3. TipoUso' BY <1>5, <2>1 DEF TipoUso
  <2>4. TipoMarco' /\ TipoDato' BY <2>1 DEF TipoMarco, TipoDato, marcoVars
  <2>5. PresentesAbiertas' BY <2>1, PaginasQuietas DEF marcoVars
  <2>6. QED BY <1>2, <1>4, <2>2, <2>3, <2>4, <2>5
<1>8. CASE Cierra(f)
  <2>1. AbiertosEnUso'
    <3>1. SUFFICES ASSUME NEW h \in Archivo PROVE h \in abierto' <=> \E x \in Prog : programas'[<<h, x>>] > 0
      BY DEF AbiertosEnUso, Usos
    <3>2. CASE h = f
      <4>1. \A x \in Prog : programas'[<<f, x>>] \in Nat BY <1>1, <1>5
      <4>2. \A x \in Prog : ~ (programas'[<<f, x>>] > 0) BY <1>8, <4>1 DEF Cierra
      <4>3. f \notin abierto' BY <1>8 DEF Cierra
      <4>4. QED BY <3>2, <4>2, <4>3
    <3>3. CASE h # f BY <1>6, <1>8, <3>3 DEF AbiertosEnUso, Usos, Cierra
    <3>4. QED BY <3>2, <3>3
  <2>2. TipoUso' BY <1>5, <1>8 DEF TipoUso, Cierra, Flag
  <2>3. TipoMarco'
    <3>1. BITMAP' \in [Marco -> BOOLEAN] /\ presente' \in [Pag -> BOOLEAN] /\ fr' \in [Pag -> Nat]
      BY <1>8 DEF Cierra, TipoMarco, eliminar_archivo_mmap
    <3>2. MAIN_MEMORY' \in [Marco -> Valor]
      BY <1>8, MmapAssumption DEF Cierra, TipoMarco, MmapAssumption
    <3>3. QED BY <3>1, <3>2 DEF TipoMarco
  <2>4. TipoDato' BY <1>8 DEF Cierra, TipoDato, Nuevas
  <2>5. PresentesAbiertas' BY <1>8 DEF Cierra, PresentesAbiertas, Presentes
  <2>6. QED BY <1>2, <1>4, <2>1, <2>2, <2>3, <2>4, <2>5
<1>9. QED BY <1>7, <1>8

LEMMA InicialBase == Init => BaseInv
<1> SUFFICES ASSUME Init PROVE BaseInv
  OBVIOUS
<1>1. Cero \in Valor /\ MaxSeg \in Nat BY MmapAssumption DEF MmapAssumption
<1>2. TipoTabla
  <2>1. segment_table = [p \in Prog |-> <<>>] BY DEF Init
  <2>2. <<>> \in Seq(Segs) /\ Len(<<>>) = 0 BY EmptySeq
  <2>3. QED BY <1>1, <2>1, <2>2 DEF TipoTabla
<1>3. MapasSinMarcos BY DEF Init, MapasSinMarcos
<1>4. TipoUso /\ TipoMarco /\ TipoDato
  <2>1. TipoUso BY DEF Init, TipoUso, Flag
  <2>2. TipoMarco BY <1>1 DEF Init, TipoMarco
  <2>3. TipoDato
    <3>1. disco \in [Pag -> Valor] BY <1>1 DEF Init
    <3>2. archivo = disco /\ valor = disco /\ guardado = disco BY DEF Init
    <3>3. QED BY <3>1, <3>2 DEF TipoDato
  <2>4. QED BY <2>1, <2>2, <2>3
<1>5. AbiertosEnUso
  <2>1. \A f \in Archivo, p \in Prog : programas[<<f, p>>] = 0 BY DEF Init
  <2>2. abierto = {} BY DEF Init
  <2>3. \A f \in Archivo : Usos(f) = {} BY <2>1 DEF Usos
  <2>4. QED BY <2>2, <2>3 DEF AbiertosEnUso
<1>6. PresentesAbiertas BY DEF Init, PresentesAbiertas, Presentes
<1>7. QED BY <1>2, <1>3, <1>4, <1>5, <1>6 DEF BaseInv

\* The steps, one by one: what the other invariants are proved from.
Pasos ==
  \E p \in Prog :
    \/ falla(p) \/ memory_malloc_nuevo(p) \/ Creciendo(p)
    \/ \E f \in Archivo, fl \in Flag : memory_map(p, f, fl)
    \/ \E dir : memory_get(p, dir)
    \/ \E dir : \E v \in Valor : memory_cpy(p, dir, v)
    \/ \E i, f : /\ Desmapea(p, i, f) /\ (Cierra(f) \/ SigueAbierto(f))
                 /\ UNCHANGED <<program_list, disco, guardado>>
    \/ \E f \in abierto : \E K : \E k \in Nat \ {0} : Sincroniza(f, K, k)

\* The server may end and leave all as it was.
Quieto == UNCHANGED <<tablaVars, marcoVars, archivo, disco, valor, guardado>>

LEMMA NextPasos ==
  ASSUME BaseInv, [Next]_vars
  PROVE  Pasos \/ Quieto
<1>0. CASE UNCHANGED vars BY <1>0 DEF vars, Quieto
<1> SUFFICES ASSUME Next PROVE Pasos \/ Quieto BY <1>0
<1>1. \A k \in 1 .. Cardinality(Pag) : k \in Nat \ {0} OBVIOUS
<1>2. PICK p \in Prog :
       \/ falla(p)
       \/ memory_malloc_nuevo(p)
       \/ memory_malloc_agranda(p)
       \/ \E f \in Archivo, fl \in Flag : memory_map(p, f, fl)
       \/ \E dir \in Dirs(p) : \/ memory_get(p, dir)
                               \/ \E v \in Valor : memory_cpy(p, dir, v)
                               \/ memory_unmap(p, dir)
       \/ \E dir \in Alineadas(p), k \in 1 .. Cardinality(Pag) : memory_sync(p, dir, k)
  BY DEF Next
<1>3. ASSUME NEW dir, memory_unmap(p, dir) PROVE Pasos
  BY <1>3, UnmapProps DEF Pasos
<1>4. ASSUME NEW dir, NEW k \in 1 .. Cardinality(Pag), memory_sync(p, dir, k) PROVE Pasos
  BY <1>1, <1>4, SyncProps DEF Pasos
<1>5. ASSUME memory_malloc_agranda(p) PROVE Creciendo(p) \/ Quieto
  BY <1>5 DEF memory_malloc_agranda, Creciendo, Quieto
<1>6. QED BY <1>2, <1>3, <1>4, <1>5 DEF Pasos

LEMMA PasoBase ==
  ASSUME BaseInv, [Next]_vars
  PROVE  BaseInv'
<1>1. CASE Pasos
  BY <1>1, FallaBase, MallocNuevoBase, MallocAgrandaBase, MapBase, GetBase, CpyBase,
     UnmapBase, SyncBase DEF Pasos
<1>2. CASE Quieto
  <2>1. TipoTabla' /\ MapasSinMarcos' BY <1>2, TablaQuieta DEF Quieto, tablaVars, BaseInv
  <2>2. TipoUso' /\ AbiertosEnUso' BY <1>2, UsoQuieto DEF Quieto, tablaVars, BaseInv
  <2>3. TipoMarco' /\ TipoDato' BY <1>2 DEF Quieto, TipoMarco, TipoDato, marcoVars, BaseInv
  <2>4. PresentesAbiertas' BY <1>2, PaginasQuietas DEF Quieto, tablaVars, marcoVars, BaseInv
  <2>5. QED BY <2>1, <2>2, <2>3, <2>4 DEF BaseInv
<1>3. QED BY <1>1, <1>2, NextPasos

LEMMA Base == Spec => []BaseInv
BY InicialBase, PasoBase, PTL DEF Spec

-----------------------------------------------------------------------------
(* Addresses                                                               *)

\* The segments of a program are in the order of their addresses and do not overlap.
OrdenDir ==
  \A p \in Prog : \A i \in DOMAIN segment_table[p] :
    /\ segment_table[p][i].base <= segment_table[p][i].limit
    /\ \A j \in DOMAIN segment_table[p] :
         j < i => segment_table[p][j].limit < segment_table[p][i].base

LEMMA Multiplo ==
  ASSUME NEW d \in Nat, NEW P \in Nat \ {0}, NEW k \in 0 .. (d \div P - 1)
  PROVE  k * P \in Nat /\ k * P <= d
<1>1. (d \div P) * P <= d /\ d \div P \in Int OBVIOUS
<1>2. k \in Nat /\ k < d \div P BY <1>1
<1>3. k * P \in Nat /\ k * P <= (d \div P) * P BY <1>1, <1>2
<1>4. QED BY <1>1, <1>3

LEMMA TablaTipos ==
  ASSUME TipoTabla, NEW p \in Prog
  PROVE  /\ segment_table[p] \in Seq(Segs) /\ Len(segment_table[p]) \in Nat
         /\ DOMAIN segment_table[p] = 1 .. Len(segment_table[p])
         /\ \A i \in DOMAIN segment_table[p] :
              /\ segment_table[p][i] \in Segs
              /\ segment_table[p][i].base \in Nat /\ segment_table[p][i].limit \in Nat
<1>1. segment_table[p] \in Seq(Segs) BY DEF TipoTabla
<1>2. /\ Len(segment_table[p]) \in Nat /\ DOMAIN segment_table[p] = 1 .. Len(segment_table[p])
  BY <1>1, LenProperties
<1>3. \A i \in DOMAIN segment_table[p] : segment_table[p][i] \in Segs
  BY <1>1, <1>2, ElementOfSeq
<1>4. QED BY <1>1, <1>2, <1>3 DEF Segs

LEMMA OrdenDaDireccion ==
  ASSUME TipoTabla, OrdenDir
  PROVE  DireccionPropia
<1>1. SUFFICES ASSUME NEW p \in Prog, NEW i \in DOMAIN segment_table[p], NEW k \in PagsDe(p, i)
               PROVE  busca_segmento(p, segment_table[p][i].base + k * PAGE_SIZE) = i
  BY DEF DireccionPropia
<1> DEFINE t == segment_table[p]
           dir == t[i].base + k * PAGE_SIZE
           H == {j \in DOMAIN t : t[j].base <= dir /\ dir <= t[j].limit}
<1>2. /\ DOMAIN t = 1 .. Len(t) /\ Len(t) \in Nat
      /\ \A j \in DOMAIN t : t[j].base \in Nat /\ t[j].limit \in Nat
  BY TablaTipos
<1>3. t[i].base <= t[i].limit /\ \A j \in DOMAIN t : j < i => t[j].limit < t[i].base
  BY DEF OrdenDir
<1>4. k * PAGE_SIZE \in Nat /\ k * PAGE_SIZE <= t[i].limit - t[i].base
  <2>1. t[i].limit - t[i].base \in Nat /\ PAGE_SIZE \in Nat \ {0}
    BY <1>2, <1>3, MmapAssumption DEF MmapAssumption
  <2>2. k \in 0 .. ((t[i].limit - t[i].base) \div PAGE_SIZE - 1) BY DEF PagsDe
  <2>3. QED BY <2>1, <2>2, Multiplo
<1>5. i \in H BY <1>2, <1>3, <1>4
<1>6. \A j \in H : i <= j
  <2>1. SUFFICES ASSUME NEW j \in DOMAIN t, dir <= t[j].limit, j < i PROVE FALSE
    BY <1>2
  <2>2. t[j].limit < t[i].base BY <1>3, <2>1
  <2>3. QED BY SMTT(60), <1>2, <1>4, <2>1, <2>2
<1>7. busca_segmento(p, dir) = CHOOSE j \in H : \A l \in H : j <= l
  BY <1>5 DEF busca_segmento
<1>8. \A j \in H : j \in Nat BY <1>2
<1> HIDE DEF H
<1>9. (CHOOSE j \in H : \A l \in H : j <= l) = i BY <1>5, <1>6, <1>8
<1>10. QED BY <1>7, <1>9

LEMMA OrdenTrasAgregar ==
  ASSUME TipoTabla, TipoTabla', OrdenDir, NEW p \in Prog, NEW s \in Segs, s.base <= s.limit,
         \A j \in DOMAIN segment_table[p] : segment_table[p][j].limit < s.base,
         LET n == Len(segment_table[p]) IN
         /\ Len(segment_table'[p]) = n + 1
         /\ segment_table'[p][n + 1] = s
         /\ \A j \in 1 .. n : segment_table'[p][j] = segment_table[p][j]
         /\ \A x \in Prog \ {p} : segment_table'[x] = segment_table[x]
  PROVE  OrdenDir'
<1> DEFINE n == Len(segment_table[p])
<1>1. /\ n \in Nat /\ DOMAIN segment_table[p] = 1 .. n
      /\ DOMAIN segment_table'[p] = 1 .. n + 1
  BY TablaTipos, LenProperties DEF TipoTabla
<1>2. SUFFICES ASSUME NEW x \in Prog, NEW i \in DOMAIN segment_table'[x]
               PROVE  /\ segment_table'[x][i].base <= segment_table'[x][i].limit
                      /\ \A j \in DOMAIN segment_table'[x] :
                           j < i => segment_table'[x][j].limit < segment_table'[x][i].base
  BY DEF OrdenDir
<1>3. CASE x # p BY <1>2, <1>3 DEF OrdenDir
<1>4. CASE x = p
  <2>1. CASE i = n + 1
    <3>1. \A j \in 1 .. n + 1 : j < i => j \in 1 .. n BY <1>1, <2>1
    <3>2. \A j \in 1 .. n + 1 : j < i => segment_table'[p][j].limit < s.base
      BY <1>1, <3>1
    <3>3. QED BY <1>1, <1>4, <2>1, <3>2
  <2>2. CASE i # n + 1
    <3>1. i \in 1 .. n BY <1>1, <1>4, <2>2
    <3>2. \A j \in 1 .. n + 1 : j < i => j \in 1 .. n BY <1>1, <3>1
    <3>3. QED BY <1>1, <1>4, <3>1, <3>2 DEF OrdenDir
  <2>3. QED BY <2>1, <2>2
<1>5. QED BY <1>3, <1>4

LEMMA OrdenIgual ==
  ASSUME OrdenDir,
         \A x \in Prog : /\ DOMAIN segment_table'[x] = DOMAIN segment_table[x]
                         /\ \A i \in DOMAIN segment_table[x] :
                              /\ segment_table'[x][i].base = segment_table[x][i].base
                              /\ segment_table'[x][i].limit = segment_table[x][i].limit
  PROVE  OrdenDir'
BY DEF OrdenDir

LEMMA OrdenPaso ==
  ASSUME "heap_tras_mapa" \notin Extremos, BaseInv, BaseInv', OrdenDir, [Next]_vars
  PROVE  OrdenDir'
<1> USE DEF BaseInv
<1>1. ASSUME UNCHANGED segment_table PROVE OrdenDir' BY <1>1 DEF OrdenDir
<1>2. ASSUME NEW p \in Prog, memory_malloc_nuevo(p) PROVE OrdenDir'
  <2>1. PICK m \in Marco : ConSegmento(p, Segmento("heap", 0, 1, {m}))
    BY <1>2 DEF memory_malloc_nuevo
  <2> DEFINE s == Segmento("heap", 0, 1, {m})
  <2>2. s \in Segs /\ s.base <= s.limit
    BY MmapAssumption DEF Segmento, Segs, MmapAssumption
  <2>3. segment_table[p] = <<>> /\ Len(segment_table[p]) < MaxSeg
    BY <1>2 DEF memory_malloc_nuevo
  <2> HIDE DEF s
  <2>4. LET n == Len(segment_table[p]) IN
        /\ Len(segment_table'[p]) = n + 1
        /\ segment_table'[p][n + 1] = s
        /\ \A j \in 1 .. n : segment_table'[p][j] = segment_table[p][j]
        /\ \A x \in Prog \ {p} : segment_table'[x] = segment_table[x]
    BY <2>1, <2>2, <2>3, ConSegmentoProps DEF s
  <2>5. DOMAIN segment_table[p] = {} BY <2>3
  <2>6. QED BY <2>2, <2>4, <2>5, OrdenTrasAgregar
<1>3. ASSUME NEW p \in Prog, Creciendo(p) PROVE OrdenDir'
  <2> DEFINE n == Len(segment_table[p])
             r == segment_table[p][n]
             r2 == segment_table'[p][n]
  <2>1. PICK m \in Marco : Agranda(p, m)
    BY <1>3 DEF Creciendo, CreceUltimo, Agranda
  <2>2. /\ n \in Nat \ {0} /\ Len(segment_table'[p]) = n
        /\ r2 = [r EXCEPT !.limit = @ + PAGE_SIZE, !.marcos = @ \cup {m}]
        /\ \A j \in 1 .. n - 1 : segment_table'[p][j] = segment_table[p][j]
        /\ \A x \in Prog \ {p} : segment_table'[x] = segment_table[x]
    BY <1>3, <2>1, AgrandaProps DEF Creciendo, CreceUltimo
  <2>3. /\ DOMAIN segment_table[p] = 1 .. n /\ DOMAIN segment_table'[p] = 1 .. n
        /\ r \in Segs /\ r.base \in Nat /\ r.limit \in Nat
    BY <2>2, TablaTipos, LenProperties DEF TipoTabla
  <2>4. r2.base = r.base /\ r2.limit = r.limit + PAGE_SIZE
    <3> HIDE DEF r, r2
    <3>1. QED BY <2>2, <2>3 DEF Segs
  <2>5. r.limit <= r2.limit /\ r2.limit \in Nat
    <3> HIDE DEF r, r2
    <3>1. QED BY <2>3, <2>4, MmapAssumption DEF MmapAssumption
  <2>6. SUFFICES ASSUME NEW x \in Prog, NEW i \in DOMAIN segment_table'[x]
                 PROVE  /\ segment_table'[x][i].base <= segment_table'[x][i].limit
                        /\ \A j \in DOMAIN segment_table'[x] :
                             j < i => segment_table'[x][j].limit < segment_table'[x][i].base
    BY DEF OrdenDir
  <2>7. CASE x # p BY <2>2, <2>7 DEF OrdenDir
  <2>8. CASE x = p
    <3>1. r.base <= r.limit BY <2>2, <2>3 DEF OrdenDir
    <3>2. segment_table'[p][i].base = segment_table[p][i].base
      <4>1. CASE i = n BY <2>4, <4>1
      <4>2. CASE i # n
        <5>1. i \in 1 .. n - 1 BY <2>2, <2>3, <2>6, <2>8, <4>2
        <5>2. QED BY <2>2, <5>1
      <4>3. QED BY <4>1, <4>2
    <3>3. segment_table'[p][i].base <= segment_table'[p][i].limit
      <4>1. CASE i = n BY <2>3, <2>4, <2>5, <3>1, <4>1
      <4>2. CASE i # n
        <5>1. i \in 1 .. n - 1 BY <2>2, <2>3, <2>6, <2>8, <4>2
        <5>2. QED BY <2>2, <2>3, <2>6, <2>8, <5>1 DEF OrdenDir
      <4>3. QED BY <4>1, <4>2
    <3>4. ASSUME NEW j \in 1 .. n, j < i
          PROVE  segment_table'[p][j].limit < segment_table'[p][i].base
      <4>1. j \in 1 .. n - 1 BY <2>2, <2>3, <2>6, <2>8, <3>4
      <4>2. segment_table'[p][j] = segment_table[p][j] BY <2>2, <4>1
      <4>3. segment_table[p][j].limit < segment_table[p][i].base
        BY <2>3, <2>6, <2>8, <3>4 DEF OrdenDir
      <4>4. QED BY <3>2, <4>2, <4>3
    <3>5. QED BY <2>3, <2>8, <3>3, <3>4
  <2>9. QED BY <2>7, <2>8
<1>4. ASSUME NEW p \in Prog, NEW f \in Archivo, NEW fl \in Flag, memory_map(p, f, fl) PROVE OrdenDir'
  <2> DEFINE s == Segmento(f, BaseNueva(p), Paginas[f], {})
             n == Len(segment_table[p])
  <2>1. s \in Segs /\ s.base = BaseNueva(p) /\ s.base <= s.limit
    <3>1. BaseNueva(p) \in Nat BY BaseNuevaNat
    <3>2. Paginas[f] \in Nat /\ PAGE_SIZE \in Nat BY MmapAssumption DEF MmapAssumption
    <3>3. Paginas[f] * PAGE_SIZE \in Nat BY <3>2
    <3>4. QED BY <3>1, <3>3 DEF Segmento, Segs
  <2>2. Len(segment_table[p]) < MaxSeg /\ ConSegmento(p, s) BY <1>4 DEF memory_map
  <2> HIDE DEF s
  <2>3. /\ Len(segment_table'[p]) = n + 1
        /\ segment_table'[p][n + 1] = s
        /\ \A j \in 1 .. n : segment_table'[p][j] = segment_table[p][j]
        /\ \A x \in Prog \ {p} : segment_table'[x] = segment_table[x]
    BY <2>1, <2>2, ConSegmentoProps
  <2>4. ASSUME NEW j \in DOMAIN segment_table[p]
        PROVE  segment_table[p][j].limit < s.base
    <3>1. DOMAIN segment_table[p] = 1 .. n /\ n \in Nat /\ n \in DOMAIN segment_table[p]
      BY TablaTipos
    <3>2. segment_table[p] # <<>> BY <3>1
    <3>3. s.base = segment_table[p][n].limit + 1 BY <2>1, <3>2 DEF BaseNueva, Ultimo
    <3>4. /\ segment_table[p][n].limit \in Nat /\ segment_table[p][n].base \in Nat
          /\ segment_table[p][j].limit \in Nat
      BY <3>1, TablaTipos
    <3>5. CASE j = n BY <3>3, <3>4, <3>5
    <3>6. CASE j < n
      <4>1. segment_table[p][j].limit < segment_table[p][n].base
            /\ segment_table[p][n].base <= segment_table[p][n].limit
        BY <3>1, <3>6 DEF OrdenDir
      <4>2. QED BY <3>3, <3>4, <4>1
    <3>7. QED BY <3>1, <3>5, <3>6
  <2>5. QED BY <2>1, <2>3, <2>4, OrdenTrasAgregar
<1>5. ASSUME NEW p \in Prog, NEW i, NEW f, Desmapea(p, i, f) PROVE OrdenDir'
  <2>1. i \in 1 .. Len(segment_table[p]) /\ SinSegmento(p, i) BY <1>5 DEF Desmapea
  <2>2. /\ \A j \in 1 .. Len(segment_table'[p]) :
              /\ Antiguo(i, j) \in 1 .. Len(segment_table[p])
              /\ segment_table'[p][j] = segment_table[p][Antiguo(i, j)]
        /\ \A x \in Prog \ {p} : segment_table'[x] = segment_table[x]
    BY <2>1, SinSegmentoProps
  <2>3. /\ DOMAIN segment_table[p] = 1 .. Len(segment_table[p]) /\ Len(segment_table[p]) \in Nat
        /\ DOMAIN segment_table'[p] = 1 .. Len(segment_table'[p])
    BY TablaTipos, LenProperties DEF TipoTabla
  <2>4. \A j, l \in 1 .. Len(segment_table'[p]) : j < l => Antiguo(i, j) < Antiguo(i, l)
    BY <2>1, <2>3 DEF Antiguo
  <2>5. SUFFICES ASSUME NEW x \in Prog, NEW l \in DOMAIN segment_table'[x]
                 PROVE  /\ segment_table'[x][l].base <= segment_table'[x][l].limit
                        /\ \A j \in DOMAIN segment_table'[x] :
                             j < l => segment_table'[x][j].limit < segment_table'[x][l].base
    BY DEF OrdenDir
  <2>6. CASE x # p BY <2>2, <2>6 DEF OrdenDir
  <2>7. CASE x = p
    <3>1. l \in 1 .. Len(segment_table'[p]) BY <2>3, <2>5, <2>7
    <3>2. segment_table'[p][l].base <= segment_table'[p][l].limit
      BY <2>2, <2>3, <3>1 DEF OrdenDir
    <3>3. ASSUME NEW j \in 1 .. Len(segment_table'[p]), j < l
          PROVE  segment_table'[p][j].limit < segment_table'[p][l].base
      <4>1. Antiguo(i, j) < Antiguo(i, l) BY <2>4, <3>1, <3>3
      <4>2. /\ Antiguo(i, j) \in DOMAIN segment_table[p] /\ Antiguo(i, l) \in DOMAIN segment_table[p]
            /\ segment_table'[p][j] = segment_table[p][Antiguo(i, j)]
            /\ segment_table'[p][l] = segment_table[p][Antiguo(i, l)]
        BY <2>2, <2>3, <3>1, <3>3
      <4>3. QED BY <4>1, <4>2 DEF OrdenDir
    <3>4. QED BY <2>3, <2>7, <3>2, <3>3
  <2>8. QED BY <2>6, <2>7
<1>6. ASSUME NEW p \in Prog, NEW dir, memory_get(p, dir) PROVE OrdenDir'
  <2>1. UNCHANGED segment_table \/ \E m : Pierden(m)
    BY <1>6 DEF memory_get, obtener_data_marco_mmap_sin_marco, Pierden
  <2>2. ASSUME NEW m, Pierden(m) PROVE OrdenDir' BY <2>2, PierdenProps, OrdenIgual
  <2>3. QED BY <1>1, <2>1, <2>2
<1>7. ASSUME NEW p, falla(p) PROVE OrdenDir' BY <1>1, <1>7 DEF falla
<1>8. ASSUME NEW p, NEW dir, NEW v, memory_cpy(p, dir, v) PROVE OrdenDir'
  BY <1>1, <1>8 DEF memory_cpy, tablaVars
<1>9. ASSUME NEW f, NEW K, NEW k, Sincroniza(f, K, k) PROVE OrdenDir'
  BY <1>1, <1>9 DEF Sincroniza, tablaVars
<1>10. CASE Quieto BY <1>1, <1>10 DEF Quieto, tablaVars
<1>11. CASE Pasos
  BY <1>2, <1>3, <1>4, <1>5, <1>6, <1>7, <1>8, <1>9, <1>11 DEF Pasos
<1>12. QED BY <1>10, <1>11, NextPasos

\* As long as memory_malloc makes no heap segment after a mapped one, every address that
\* memory_map and memory_malloc give out is found by busca_segmento in its own segment.
THEOREM DireccionCorrecta ==
  ASSUME "heap_tras_mapa" \notin Extremos PROVE Spec => []DireccionPropia
<1>1. Init => OrdenDir BY DEF Init, OrdenDir
<1>2. BaseInv /\ BaseInv' /\ OrdenDir /\ [Next]_vars => OrdenDir' BY OrdenPaso
<1>3. BaseInv /\ OrdenDir => DireccionPropia BY OrdenDaDireccion DEF BaseInv
<1>4. QED BY <1>1, <1>2, <1>3, Base, PTL DEF Spec

-----------------------------------------------------------------------------
(* Counts of maps                                                          *)

\* The segments of a program that are maps of f.
Ixs(p, f) == {i \in Mapeos(p) : segment_table[p][i].es = f}
CuentaInv ==
  \A f \in Archivo, p \in Prog : Cardinality(Ixs(p, f)) = programas[<<f, p>>]

LEMMA IxsFinito ==
  ASSUME TipoTabla, NEW p \in Prog, NEW f \in Archivo
  PROVE  /\ IsFiniteSet(Ixs(p, f)) /\ Cardinality(Ixs(p, f)) \in Nat
         /\ Ixs(p, f) = {i \in 1 .. Len(segment_table[p]) : segment_table[p][i].es = f}
<1>1. DOMAIN segment_table[p] = 1 .. Len(segment_table[p]) /\ Len(segment_table[p]) \in Nat
  BY TablaTipos
<1>2. f # "heap" BY MmapAssumption DEF MmapAssumption
<1>3. Ixs(p, f) = {i \in 1 .. Len(segment_table[p]) : segment_table[p][i].es = f}
  BY <1>1, <1>2 DEF Ixs, Mapeos
<1>4. IsFiniteSet(1 .. Len(segment_table[p])) BY <1>1, FS_Interval
<1>5. Ixs(p, f) \in SUBSET (1 .. Len(segment_table[p])) BY <1>3
<1>6. IsFiniteSet(Ixs(p, f)) BY <1>4, <1>5, FS_Subset
<1>7. QED BY <1>3, <1>6, FS_CardinalityType

LEMMA IxsIgual ==
  ASSUME TipoTabla, TipoTabla', NEW p \in Prog, NEW f \in Archivo,
         DOMAIN segment_table'[p] = DOMAIN segment_table[p],
         \A i \in DOMAIN segment_table[p] : segment_table'[p][i].es = segment_table[p][i].es
  PROVE  Ixs(p, f)' = Ixs(p, f)
BY DEF Ixs, Mapeos

LEMMA IxsTrasAgregar ==
  ASSUME TipoTabla, TipoTabla', NEW p \in Prog, NEW f \in Archivo, NEW s,
         LET n == Len(segment_table[p]) IN
         /\ Len(segment_table'[p]) = n + 1
         /\ segment_table'[p][n + 1] = s
         /\ \A j \in 1 .. n : segment_table'[p][j] = segment_table[p][j]
  PROVE  Cardinality(Ixs(p, f))' = Cardinality(Ixs(p, f)) + IF s.es = f THEN 1 ELSE 0
<1> DEFINE n == Len(segment_table[p])
           I == Ixs(p, f)
<1>1. /\ n \in Nat /\ DOMAIN segment_table[p] = 1 .. n /\ DOMAIN segment_table'[p] = 1 .. n + 1
  BY TablaTipos, LenProperties DEF TipoTabla
<1>2. /\ IsFiniteSet(I) /\ Cardinality(I) \in Nat
      /\ I = {i \in 1 .. n : segment_table[p][i].es = f}
  BY IxsFinito
<1>3. f # "heap" BY MmapAssumption DEF MmapAssumption
<1>4. I' = {i \in 1 .. n + 1 : segment_table'[p][i].es = f}
  BY <1>1, <1>3 DEF Ixs, Mapeos
<1> HIDE DEF I
<1>5. CASE s.es = f
  <2>0. /\ n + 1 \notin 1 .. n /\ n + 1 \in 1 .. n + 1
        /\ \A i \in 1 .. n + 1 : i \in 1 .. n \/ i = n + 1
        /\ 1 .. n \subseteq 1 .. n + 1
    BY <1>1
  <2>1. I' = I \cup {n + 1} /\ n + 1 \notin I
    <3>1. n + 1 \notin I BY <1>2, <2>0
    <3>2. n + 1 \in I' BY <1>4, <1>5, <2>0
    <3>3. ASSUME NEW i \in 1 .. n PROVE i \in I' <=> i \in I BY <1>2, <1>4, <2>0
    <3>4. I \subseteq 1 .. n /\ I' \subseteq 1 .. n + 1 BY <1>2, <1>4
    <3>5. QED BY ONLY <2>0, <3>1, <3>2, <3>3, <3>4
  <2>2. Cardinality(I') = Cardinality(I) + 1 BY <1>2, <2>1, FS_AddElement
  <2>3. QED BY <1>5, <2>2 DEF I
<1>6. CASE s.es # f
  <2>1. I' = I BY SMTT(60), <1>1, <1>2, <1>4, <1>6
  <2>2. QED BY <1>2, <1>6, <2>1 DEF I
<1>7. QED BY <1>5, <1>6

LEMMA IxsTrasQuitar ==
  ASSUME TipoTabla, TipoTabla', NEW p \in Prog, NEW f \in Archivo,
         NEW i \in 1 .. Len(segment_table[p]), SinSegmento(p, i)
  PROVE  Cardinality(Ixs(p, f))' =
           Cardinality(Ixs(p, f)) - IF segment_table[p][i].es = f THEN 1 ELSE 0
<1> DEFINE n == Len(segment_table[p])
           I == Ixs(p, f)
           J == I \ {i}
           I2 == {j \in 1 .. n - 1 : segment_table'[p][j].es = f}
           b == [j \in I2 |-> Antiguo(i, j)]
<1>1. /\ n \in Nat /\ Len(segment_table'[p]) = n - 1 /\ DOMAIN segment_table'[p] = 1 .. n - 1
      /\ \A j \in 1 .. n - 1 : segment_table'[p][j] = segment_table[p][Antiguo(i, j)]
  BY SMTT(60), TablaTipos, SinSegmentoProps, LenProperties DEF TipoTabla
<1>2. /\ IsFiniteSet(I) /\ Cardinality(I) \in Nat
      /\ I = {j \in 1 .. n : segment_table[p][j].es = f}
  BY IxsFinito
<1>3. f # "heap" BY MmapAssumption DEF MmapAssumption
<1>4. I' = I2 BY <1>1, <1>3 DEF Ixs, Mapeos
<1> HIDE DEF I
<1>5. \A j \in I2 : b[j] \in J
  <2>1. SUFFICES ASSUME NEW j \in 1 .. n - 1, segment_table'[p][j].es = f
                 PROVE  Antiguo(i, j) \in J
    OBVIOUS
  <2>2. Antiguo(i, j) \in 1 .. n /\ Antiguo(i, j) # i BY <1>1 DEF Antiguo
  <2>3. QED BY <1>1, <1>2, <2>1, <2>2
<1>6. \A j, l \in I2 : j # l => b[j] # b[l]
  <2>1. \A j, l \in 1 .. n - 1 : j # l => Antiguo(i, j) # Antiguo(i, l)
    BY <1>1 DEF Antiguo
  <2>2. QED BY <2>1
<1>7. \A y \in J : \E j \in I2 : b[j] = y
  <2>1. SUFFICES ASSUME NEW y \in J PROVE \E j \in 1 .. n - 1 : segment_table'[p][j].es = f /\ Antiguo(i, j) = y
    OBVIOUS
  <2>2. y \in 1 .. n /\ y # i /\ segment_table[p][y].es = f BY <1>2
  <2>3. CASE y < i
    <3>1. y \in 1 .. n - 1 /\ Antiguo(i, y) = y BY <1>1, <2>2, <2>3 DEF Antiguo
    <3>2. QED BY <1>1, <2>2, <3>1
  <2>4. CASE ~ (y < i)
    <3>1. y - 1 \in 1 .. n - 1 /\ Antiguo(i, y - 1) = y BY <1>1, <2>2, <2>4 DEF Antiguo
    <3>2. QED BY <1>1, <2>2, <3>1
  <2>5. QED BY <2>3, <2>4
<1> HIDE DEF J, I2
<1>8. b \in Bijection(I2, J)
  <2>1. b \in [I2 -> J] BY <1>5
  <2>2. DOMAIN b = I2 OBVIOUS
  <2> HIDE DEF b
  <2>3. IsInjective(b) BY <1>6, <2>2 DEF IsInjective
  <2>4. b \in Injection(I2, J) BY <2>1, <2>3 DEF Injection
  <2>5. b \in Surjection(I2, J) BY <1>7, <2>1 DEF Surjection
  <2>6. QED BY <2>4, <2>5 DEF Bijection
<1> HIDE DEF b
<1>9. IsFiniteSet(I2)
  <2>1. n - 1 \in Int BY <1>1
  <2>2. IsFiniteSet(1 .. n - 1) BY <2>1, FS_Interval
  <2>3. I2 \in SUBSET (1 .. n - 1) BY DEF I2
  <2>4. QED BY <2>2, <2>3, FS_Subset
<1>10. Cardinality(J) = Cardinality(I2)
  <2>1. ExistsBijection(I2, J) BY <1>8 DEF ExistsBijection
  <2>2. QED BY <1>9, <2>1, FS_Bijection
<1>11. Cardinality(J) = Cardinality(I) - IF i \in I THEN 1 ELSE 0
  <2>1. J = I \ {i} BY DEF J
  <2> HIDE DEF J
  <2>2. Cardinality(I \ {i}) = IF i \in I THEN Cardinality(I) - 1 ELSE Cardinality(I)
    BY <1>2, FS_RemoveElement
  <2>3. QED BY <1>2, <2>1, <2>2
<1>12. i \in I <=> segment_table[p][i].es = f BY <1>2
<1>13. Cardinality(I)' = Cardinality(I2) BY <1>4
<1>14. QED BY <1>10, <1>11, <1>12, <1>13 DEF I

LEMMA CuentaMapeosPaso ==
  ASSUME "repite" \notin Extremos, BaseInv, BaseInv', CuentaInv, [Next]_vars
  PROVE  CuentaInv'
<1> USE DEF BaseInv
<1>1. ASSUME UNCHANGED programas,
             \A p \in Prog, f \in Archivo : Cardinality(Ixs(p, f))' = Cardinality(Ixs(p, f))
      PROVE  CuentaInv'
  BY <1>1 DEF CuentaInv
<1>2. ASSUME UNCHANGED <<programas, segment_table>> PROVE CuentaInv'
  BY <1>1, <1>2 DEF Ixs, Mapeos
<1>3. ASSUME NEW p \in Prog, NEW x \in Prog \ {p}, NEW f \in Archivo,
             segment_table'[x] = segment_table[x]
      PROVE  Cardinality(Ixs(x, f))' = Cardinality(Ixs(x, f))
  BY <1>3 DEF Ixs, Mapeos
<1>4. ASSUME NEW p \in Prog, memory_malloc_nuevo(p) PROVE CuentaInv'
  <2>1. PICK m \in Marco : ConSegmento(p, Segmento("heap", 0, 1, {m}))
    BY <1>4 DEF memory_malloc_nuevo
  <2> DEFINE s == Segmento("heap", 0, 1, {m})
             n == Len(segment_table[p])
  <2>2. s \in Segs /\ s.es = "heap"
    BY MmapAssumption DEF Segmento, Segs, MmapAssumption
  <2>3. Len(segment_table[p]) < MaxSeg /\ programas' = programas
    BY <1>4 DEF memory_malloc_nuevo
  <2> HIDE DEF s
  <2>4. /\ Len(segment_table'[p]) = n + 1
        /\ segment_table'[p][n + 1] = s
        /\ \A j \in 1 .. n : segment_table'[p][j] = segment_table[p][j]
        /\ \A x \in Prog \ {p} : segment_table'[x] = segment_table[x]
    BY <2>1, <2>2, <2>3, ConSegmentoProps DEF s
  <2>5. \A f \in Archivo : s.es # f BY <2>2, MmapAssumption DEF MmapAssumption
  <2>6. ASSUME NEW f \in Archivo PROVE Cardinality(Ixs(p, f))' = Cardinality(Ixs(p, f))
    <3>1. Cardinality(Ixs(p, f))' = Cardinality(Ixs(p, f)) + IF s.es = f THEN 1 ELSE 0
      BY <2>4, IxsTrasAgregar
    <3>2. QED BY <2>5, <3>1, IxsFinito
  <2>7. QED BY <1>1, <1>3, <2>3, <2>4, <2>6
<1>5. ASSUME NEW p \in Prog, Creciendo(p) PROVE CuentaInv'
  <2> DEFINE n == Len(segment_table[p])
             r == segment_table[p][n]
             r2 == segment_table'[p][n]
  <2>1. PICK m \in Marco : Agranda(p, m)
    BY <1>5 DEF Creciendo, CreceUltimo, Agranda
  <2>2. /\ n \in Nat \ {0} /\ Len(segment_table'[p]) = n
        /\ r2 = [r EXCEPT !.limit = @ + PAGE_SIZE, !.marcos = @ \cup {m}]
        /\ \A j \in 1 .. n - 1 : segment_table'[p][j] = segment_table[p][j]
        /\ \A x \in Prog \ {p} : segment_table'[x] = segment_table[x]
    BY <1>5, <2>1, AgrandaProps DEF Creciendo, CreceUltimo
  <2>3. /\ DOMAIN segment_table[p] = 1 .. n /\ DOMAIN segment_table'[p] = 1 .. n
        /\ r \in Segs
    BY <2>2, TablaTipos, LenProperties DEF TipoTabla
  <2>4. r2.es = r.es
    <3> HIDE DEF r, r2
    <3>1. QED BY <2>2, <2>3 DEF Segs
  <2>5. \A j \in 1 .. n : segment_table'[p][j].es = segment_table[p][j].es
    <3>1. \A j \in 1 .. n : j = n \/ j \in 1 .. n - 1 BY <2>2
    <3>2. QED BY <2>2, <2>4, <3>1
  <2>6. \A f \in Archivo : Ixs(p, f)' = Ixs(p, f) BY <2>3, <2>5, IxsIgual
  <2>7. programas' = programas BY <1>5 DEF Creciendo, CreceUltimo
  <2>8. QED BY <1>1, <1>3, <2>2, <2>6, <2>7
<1>6. ASSUME NEW p \in Prog, NEW f \in Archivo, NEW fl \in Flag, memory_map(p, f, fl) PROVE CuentaInv'
  <2> DEFINE s == Segmento(f, BaseNueva(p), Paginas[f], {})
             n == Len(segment_table[p])
  <2>1. s \in Segs /\ s.es = f
    <3>1. BaseNueva(p) \in Nat BY BaseNuevaNat
    <3>2. Paginas[f] \in Nat /\ PAGE_SIZE \in Nat BY MmapAssumption DEF MmapAssumption
    <3>3. Paginas[f] * PAGE_SIZE \in Nat BY <3>2
    <3>4. QED BY <3>1, <3>3 DEF Segmento, Segs
  <2>2. Len(segment_table[p]) < MaxSeg /\ ConSegmento(p, s) BY <1>6 DEF memory_map
  <2> HIDE DEF s
  <2>3. /\ Len(segment_table'[p]) = n + 1
        /\ segment_table'[p][n + 1] = s
        /\ \A j \in 1 .. n : segment_table'[p][j] = segment_table[p][j]
        /\ \A x \in Prog \ {p} : segment_table'[x] = segment_table[x]
    BY <2>1, <2>2, ConSegmentoProps
  <2>4. fl = "MAP_SHARED" \/ f \notin abierto
    <3>1. programas[<<f, p>>] \in Nat BY DEF TipoUso
    <3>2. fl = "MAP_SHARED" \/ fl = "MAP_PRIVATE" BY DEF Flag
    <3>3. /\ ~ (f \in abierto /\ fl = "MAP_PRIVATE" /\ programas[<<f, p>>] = 0)
          /\ ~ (fl = "MAP_PRIVATE" /\ programas[<<f, p>>] > 0)
      BY <1>6 DEF memory_map, Rechaza
    <3>4. QED BY <3>1, <3>2, <3>3
  <2>5. /\ \A y \in (Archivo \X Prog) \ {<<f, p>>} : programas'[y] = programas[y]
        /\ programas'[<<f, p>>] = programas[<<f, p>>] + 1
    BY <1>6, <2>4, AnotaProps DEF memory_map
  <2>6. SUFFICES ASSUME NEW h \in Archivo, NEW x \in Prog
                 PROVE  Cardinality(Ixs(x, h))' = programas'[<<h, x>>]
    BY DEF CuentaInv
  <2>7. Cardinality(Ixs(x, h)) = programas[<<h, x>>] BY DEF CuentaInv
  <2>8. CASE x # p
    <3>1. programas'[<<h, x>>] = programas[<<h, x>>] BY <2>5, <2>8
    <3>2. QED BY <1>3, <2>3, <2>7, <2>8, <3>1
  <2>9. CASE x = p
    <3>1. Cardinality(Ixs(p, h))' = Cardinality(Ixs(p, h)) + IF s.es = h THEN 1 ELSE 0
      BY <2>3, IxsTrasAgregar
    <3>2. CASE h = f BY <2>1, <2>5, <2>7, <2>9, <3>1, <3>2
    <3>3. CASE h # f
      <4>1. programas'[<<h, p>>] = programas[<<h, p>>] BY <2>5, <3>3
      <4>2. Cardinality(Ixs(p, h))' = Cardinality(Ixs(p, h)) BY <2>1, <3>1, <3>3, IxsFinito
      <4>3. QED BY <2>7, <2>9, <4>1, <4>2
    <3>4. QED BY <3>2, <3>3
  <2>10. QED BY <2>8, <2>9
<1>7. ASSUME NEW p \in Prog, NEW i, NEW f, Desmapea(p, i, f) PROVE CuentaInv'
  <2>1. /\ i \in 1 .. Len(segment_table[p]) /\ SinSegmento(p, i)
        /\ f \in Archivo /\ segment_table[p][i].es = f
        /\ programas' = [programas EXCEPT ![<<f, p>>] = @ - 1]
    BY <1>7 DEF Desmapea, TipoUso
  <2>2. \A x \in Prog \ {p} : segment_table'[x] = segment_table[x]
    BY <2>1, SinSegmentoProps
  <2>3. /\ \A y \in (Archivo \X Prog) \ {<<f, p>>} : programas'[y] = programas[y]
        /\ programas'[<<f, p>>] = programas[<<f, p>>] - 1
    BY <2>1 DEF TipoUso
  <2>4. SUFFICES ASSUME NEW h \in Archivo, NEW x \in Prog
                 PROVE  Cardinality(Ixs(x, h))' = programas'[<<h, x>>]
    BY DEF CuentaInv
  <2>5. Cardinality(Ixs(x, h)) = programas[<<h, x>>] BY DEF CuentaInv
  <2>6. CASE x # p
    <3>1. programas'[<<h, x>>] = programas[<<h, x>>] BY <2>3, <2>6
    <3>2. QED BY <1>3, <2>2, <2>5, <2>6, <3>1
  <2>7. CASE x = p
    <3>1. Cardinality(Ixs(p, h))' =
            Cardinality(Ixs(p, h)) - IF segment_table[p][i].es = h THEN 1 ELSE 0
      BY <2>1, IxsTrasQuitar
    <3>2. CASE h = f BY <2>1, <2>3, <2>5, <2>7, <3>1, <3>2
    <3>3. CASE h # f
      <4>1. programas'[<<h, p>>] = programas[<<h, p>>] BY <2>3, <3>3
      <4>2. Cardinality(Ixs(p, h))' = Cardinality(Ixs(p, h)) BY <2>1, <3>1, <3>3, IxsFinito
      <4>3. QED BY <2>5, <2>7, <4>1, <4>2
    <3>4. QED BY <3>2, <3>3
  <2>8. QED BY <2>6, <2>7
<1>8. ASSUME NEW p \in Prog, NEW dir, memory_get(p, dir) PROVE CuentaInv'
  <2>1. /\ UNCHANGED segment_table \/ \E m : Pierden(m)
        /\ programas' = programas
    BY <1>8 DEF memory_get, obtener_data_marco_mmap_sin_marco, Pierden
  <2>2. ASSUME NEW m, Pierden(m) PROVE CuentaInv'
    <3>1. \A x \in Prog : /\ DOMAIN segment_table'[x] = DOMAIN segment_table[x]
                          /\ \A i \in DOMAIN segment_table[x] :
                               segment_table'[x][i].es = segment_table[x][i].es
      BY <2>2, PierdenProps
    <3>2. \A x \in Prog, f \in Archivo : Ixs(x, f)' = Ixs(x, f) BY <3>1, IxsIgual
    <3>3. QED BY <1>1, <2>1, <3>2
  <2>3. QED BY <1>2, <2>1, <2>2
<1>9. ASSUME NEW p, falla(p) PROVE CuentaInv' BY <1>2, <1>9 DEF falla
<1>10. ASSUME NEW p, NEW dir, NEW v, memory_cpy(p, dir, v) PROVE CuentaInv'
  BY <1>2, <1>10 DEF memory_cpy, tablaVars
<1>11. ASSUME NEW f, NEW K, NEW k, Sincroniza(f, K, k) PROVE CuentaInv'
  BY <1>2, <1>11 DEF Sincroniza, tablaVars
<1>12. CASE Quieto BY <1>2, <1>12 DEF Quieto, tablaVars
<1>13. CASE Pasos
  BY <1>4, <1>5, <1>6, <1>7, <1>8, <1>9, <1>10, <1>11, <1>13 DEF Pasos
<1>14. QED BY <1>12, <1>13, NextPasos

\* A file closes with the last unmap of its maps and not before, if no program maps with
\* MAP_PRIVATE a file that it has mapped nor makes a heap segment after a mapped one: the
\* list of the file counts the maps.
THEOREM CuentaCorrecta ==
  ASSUME "heap_tras_mapa" \notin Extremos, "repite" \notin Extremos
  PROVE  Spec => []CuentaMapeos
<1>1. Init => CuentaInv
  <2> SUFFICES ASSUME Init, NEW f \in Archivo, NEW p \in Prog
               PROVE  Cardinality(Ixs(p, f)) = programas[<<f, p>>]
    BY DEF CuentaInv
  <2>1. segment_table[p] = <<>> /\ programas[<<f, p>>] = 0 BY DEF Init
  <2>2. Ixs(p, f) = {} BY <2>1 DEF Ixs, Mapeos
  <2>3. QED BY <2>1, <2>2, FS_EmptySet
<1>2. BaseInv /\ BaseInv' /\ CuentaInv /\ [Next]_vars => CuentaInv' BY CuentaMapeosPaso
<1>3. BaseInv /\ CuentaInv => CuentaMapeos
  BY DEF BaseInv, CuentaInv, CuentaMapeos, AbiertosEnUso, Ixs
<1>4. QED BY <1>1, <1>2, <1>3, Base, PTL DEF Spec

-----------------------------------------------------------------------------
(* Frames                                                                  *)

\* The owners of a frame: pages that are present, segments of the heap.
DuenioPag(m) == {q \in Presentes : fr[q] = m}
DuenioSeg(m) == {o \in Prog \X (1 .. MaxSeg) :
                   /\ o[2] \in DOMAIN segment_table[o[1]]
                   /\ m \in segment_table[o[1]][o[2]].marcos}

\* At most one owner, and none exactly when the frame is free.
UnDuenio ==
  \A m \in Marco :
    /\ \A q, r \in DuenioPag(m) : q = r
    /\ \A o, u \in DuenioSeg(m) : o = u
    /\ DuenioPag(m) = {} \/ DuenioSeg(m) = {}
    /\ BITMAP[m] <=> DuenioPag(m) = {} /\ DuenioSeg(m) = {}

LEMMA DuenioSegEs ==
  ASSUME TipoTabla, NEW m
  PROVE  /\ \A p \in Prog, i \in 1 .. MaxSeg :
              <<p, i>> \in DuenioSeg(m)
                <=> i \in DOMAIN segment_table[p] /\ m \in segment_table[p][i].marcos
         /\ \A p \in Prog : \A i \in DOMAIN segment_table[p] : i \in 1 .. MaxSeg
         /\ \A o \in DuenioSeg(m) : o[1] \in Prog /\ o[2] \in 1 .. MaxSeg /\ o = <<o[1], o[2]>>
<1>1. \A p \in Prog : \A i \in DOMAIN segment_table[p] : i \in 1 .. MaxSeg
  <2>1. SUFFICES ASSUME NEW p \in Prog, NEW i \in DOMAIN segment_table[p] PROVE i \in 1 .. MaxSeg
    OBVIOUS
  <2>2. Len(segment_table[p]) \in Nat /\ i \in 1 .. Len(segment_table[p])
        /\ Len(segment_table[p]) <= MaxSeg
    BY TablaTipos DEF TipoTabla
  <2>3. QED BY <2>2, MmapAssumption DEF MmapAssumption
<1>2. QED BY <1>1 DEF DuenioSeg

\* The same owners and the same frames free.
LEMMA DuenioIgual ==
  ASSUME UnDuenio, UNCHANGED <<presente, fr, BITMAP>>,
         \A m \in Marco : DuenioSeg(m)' = DuenioSeg(m)
  PROVE  UnDuenio'
<1>1. \A m \in Marco : DuenioPag(m)' = DuenioPag(m) BY DEF DuenioPag, Presentes
<1>2. QED BY <1>1 DEF UnDuenio

\* A free frame m is given to the segment o.
LEMMA DuenioTrasMalloc ==
  ASSUME UnDuenio, BITMAP \in [Marco -> BOOLEAN], UNCHANGED <<presente, fr>>, NEW o,
         NEW m \in Marco, BITMAP[m], BITMAP' = [BITMAP EXCEPT ![m] = FALSE],
         DuenioSeg(m)' = DuenioSeg(m) \cup {o},
         \A w \in Marco \ {m} : DuenioSeg(w)' = DuenioSeg(w)
  PROVE  UnDuenio'
<1>1. \A w \in Marco : DuenioPag(w)' = DuenioPag(w) BY DEF DuenioPag, Presentes
<1>2. DuenioPag(m) = {} /\ DuenioSeg(m) = {} BY DEF UnDuenio
<1>3. SUFFICES ASSUME NEW w \in Marco
               PROVE  /\ \A q, r \in DuenioPag(w)' : q = r
                      /\ \A u, v \in DuenioSeg(w)' : u = v
                      /\ DuenioPag(w)' = {} \/ DuenioSeg(w)' = {}
                      /\ BITMAP'[w] <=> DuenioPag(w)' = {} /\ DuenioSeg(w)' = {}
  BY DEF UnDuenio
<1>4. CASE w = m
  <2>1. DuenioSeg(w)' = {o} /\ DuenioPag(w)' = {} /\ ~ BITMAP'[w] BY <1>1, <1>2, <1>4
  <2>2. QED BY <2>1
<1>5. CASE w # m
  <2>1. DuenioSeg(w)' = DuenioSeg(w) /\ DuenioPag(w)' = DuenioPag(w) /\ BITMAP'[w] = BITMAP[w]
    BY <1>1, <1>5
  <2>2. QED BY <2>1 DEF UnDuenio
<1>6. QED BY <1>4, <1>5

\* Pages of a file are brought, and the tables are as they were.
LEMMA DuenioTrasTraer ==
  ASSUME BaseInv, UnDuenio, NEW f \in Archivo, NEW S \in SUBSET De(f),
         NEW g \in [Faltan(S) -> MarcosLibres], Trae(S, g), UNCHANGED segment_table
  PROVE  UnDuenio'
<1>1. \A m \in Marco : DuenioSeg(m)' = DuenioSeg(m) BY DEF DuenioSeg
<1>2. /\ Presentes' = Presentes \cup S /\ Faltan(S) = S \ Presentes
      /\ \A q \in Presentes : fr'[q] = fr[q]
      /\ \A q \in Faltan(S) : fr'[q] \in Marco /\ BITMAP[fr'[q]]
      /\ \A q, r \in Faltan(S) : q # r => fr'[q] # fr'[r]
      /\ \A m \in Marco : BITMAP'[m] <=> BITMAP[m] /\ \A q \in Faltan(S) : fr'[q] # m
  BY TraeEfecto DEF BaseInv
<1>3. SUFFICES ASSUME NEW m \in Marco
               PROVE  /\ \A q, r \in DuenioPag(m)' : q = r
                      /\ \A u, v \in DuenioSeg(m)' : u = v
                      /\ DuenioPag(m)' = {} \/ DuenioSeg(m)' = {}
                      /\ BITMAP'[m] <=> DuenioPag(m)' = {} /\ DuenioSeg(m)' = {}
  BY DEF UnDuenio
<1> DEFINE T == {q \in Faltan(S) : fr'[q] = m}
<1>4. DuenioPag(m)' = DuenioPag(m) \cup T BY <1>2 DEF DuenioPag
<1>5. T # {} => BITMAP[m] /\ ~ BITMAP'[m] BY <1>2
<1>6. \A q, r \in T : q = r BY <1>2
<1>7. T = {} => (BITMAP'[m] <=> BITMAP[m]) BY <1>2
<1> HIDE DEF T
<1>8. CASE T = {} BY <1>1, <1>4, <1>7, <1>8 DEF UnDuenio
<1>9. CASE T # {}
  <2>1. DuenioPag(m) = {} /\ DuenioSeg(m) = {} BY <1>5, <1>9 DEF UnDuenio
  <2>2. DuenioPag(m)' = T /\ DuenioSeg(m)' = {} BY <1>1, <1>4, <2>1
  <2>3. QED BY <1>5, <1>6, <1>9, <2>2
<1>10. QED BY <1>8, <1>9

\* Without the segment i of p, that has no frames, the others keep theirs.
LEMMA DuenioTrasQuitar ==
  ASSUME TipoTabla, TipoTabla', NEW p \in Prog, NEW i \in 1 .. Len(segment_table[p]),
         segment_table[p][i].marcos = {}, SinSegmento(p, i), NEW m \in Marco,
         \A o, u \in DuenioSeg(m) : o = u
  PROVE  /\ \A o, u \in DuenioSeg(m)' : o = u
         /\ DuenioSeg(m)' = {} <=> DuenioSeg(m) = {}
<1> DEFINE n == Len(segment_table[p])
           V(o) == IF o[1] = p THEN <<p, Antiguo(i, o[2])>> ELSE o
<1>1. /\ n \in Nat /\ Len(segment_table'[p]) = n - 1
      /\ DOMAIN segment_table[p] = 1 .. n /\ DOMAIN segment_table'[p] = 1 .. n - 1
      /\ \A j \in 1 .. n - 1 : /\ Antiguo(i, j) \in 1 .. n
                               /\ segment_table'[p][j] = segment_table[p][Antiguo(i, j)]
      /\ \A x \in Prog \ {p} : segment_table'[x] = segment_table[x]
  BY TablaTipos, SinSegmentoProps, LenProperties DEF TipoTabla
<1>2. /\ \A x \in Prog, j \in 1 .. MaxSeg :
           <<x, j>> \in DuenioSeg(m)
             <=> j \in DOMAIN segment_table[x] /\ m \in segment_table[x][j].marcos
      /\ \A x \in Prog : \A j \in DOMAIN segment_table[x] : j \in 1 .. MaxSeg
      /\ \A o \in DuenioSeg(m) : o[1] \in Prog /\ o[2] \in 1 .. MaxSeg /\ o = <<o[1], o[2]>>
  BY DuenioSegEs
<1>3. /\ \A x \in Prog, j \in 1 .. MaxSeg :
           <<x, j>> \in DuenioSeg(m)'
             <=> j \in DOMAIN segment_table'[x] /\ m \in segment_table'[x][j].marcos
      /\ \A x \in Prog : \A j \in DOMAIN segment_table'[x] : j \in 1 .. MaxSeg
      /\ \A o \in DuenioSeg(m)' : o[1] \in Prog /\ o[2] \in 1 .. MaxSeg /\ o = <<o[1], o[2]>>
  <2>1. DuenioSeg(m)' = {o \in Prog \X (1 .. MaxSeg) :
                           /\ o[2] \in DOMAIN segment_table'[o[1]]
                           /\ m \in segment_table'[o[1]][o[2]].marcos}
    BY DEF DuenioSeg
  <2>2. \A x \in Prog : \A j \in DOMAIN segment_table'[x] : j \in 1 .. MaxSeg
    <3>1. SUFFICES ASSUME NEW x \in Prog, NEW j \in DOMAIN segment_table'[x] PROVE j \in 1 .. MaxSeg
      OBVIOUS
    <3>2. Len(segment_table'[x]) \in Nat /\ j \in 1 .. Len(segment_table'[x])
          /\ Len(segment_table'[x]) <= MaxSeg
      BY LenProperties DEF TipoTabla
    <3>3. QED BY <3>2, MmapAssumption DEF MmapAssumption
  <2>3. QED BY <2>1, <2>2
<1>4. ASSUME NEW o \in DuenioSeg(m)' PROVE V(o) \in DuenioSeg(m)
  <2>1. /\ o[1] \in Prog /\ o = <<o[1], o[2]>>
        /\ o[2] \in DOMAIN segment_table'[o[1]] /\ m \in segment_table'[o[1]][o[2]].marcos
    BY <1>3, <1>4
  <2>2. CASE o[1] = p
    <3>1. /\ o[2] \in 1 .. n - 1 /\ m \in segment_table'[p][o[2]].marcos
      BY <1>1, <2>1, <2>2
    <3>2. /\ Antiguo(i, o[2]) \in DOMAIN segment_table[p]
          /\ m \in segment_table[p][Antiguo(i, o[2])].marcos
      BY <1>1, <3>1
    <3>3. QED BY <1>2, <2>2, <3>2
  <2>3. CASE o[1] # p
    <3>1. segment_table'[o[1]] = segment_table[o[1]] BY <1>1, <2>1, <2>3
    <3>2. <<o[1], o[2]>> \in DuenioSeg(m) BY <1>2, <2>1, <3>1
    <3>3. QED BY <2>1, <2>3, <3>2
  <2>4. QED BY <2>2, <2>3
<1>5. ASSUME NEW o \in DuenioSeg(m)', NEW u \in DuenioSeg(m)', V(o) = V(u) PROVE o = u
  <2>1. o[2] \in 1 .. MaxSeg /\ u[2] \in 1 .. MaxSeg /\ o = <<o[1], o[2]>> /\ u = <<u[1], u[2]>>
    BY <1>3
  <2>2. CASE o[1] = p /\ u[1] = p
    <3>1. Antiguo(i, o[2]) = Antiguo(i, u[2]) BY <1>5, <2>2
    <3>2. o[2] = u[2] BY SMTT(60), <2>1, <3>1, <1>1, MmapAssumption DEF Antiguo, MmapAssumption
    <3>3. QED BY <2>1, <2>2, <3>2
  <2>3. CASE o[1] = p /\ u[1] # p BY <1>5, <2>3
  <2>4. CASE o[1] # p /\ u[1] = p BY <1>5, <2>4
  <2>5. CASE o[1] # p /\ u[1] # p BY <1>5, <2>5
  <2>6. QED BY <2>2, <2>3, <2>4, <2>5
<1>6. ASSUME NEW o \in DuenioSeg(m) PROVE DuenioSeg(m)' # {}
  <2>1. /\ o[1] \in Prog /\ o[2] \in DOMAIN segment_table[o[1]]
        /\ m \in segment_table[o[1]][o[2]].marcos
    BY <1>2, <1>6
  <2>2. CASE o[1] # p
    <3>1. segment_table'[o[1]] = segment_table[o[1]] BY <1>1, <2>1, <2>2
    <3>2. <<o[1], o[2]>> \in DuenioSeg(m)' BY <1>3, <2>1, <3>1
    <3>3. QED BY <3>2
  <2>3. CASE o[1] = p
    <3>1. o[2] \in 1 .. n /\ o[2] # i /\ m \in segment_table[p][o[2]].marcos BY <1>1, <2>1, <2>3
    <3>2. PICK j \in 1 .. n - 1 : Antiguo(i, j) = o[2]
      <4>1. CASE o[2] < i
        <5>1. o[2] \in 1 .. n - 1 /\ Antiguo(i, o[2]) = o[2] BY <1>1, <3>1, <4>1 DEF Antiguo
        <5>2. QED BY <5>1
      <4>2. CASE ~ (o[2] < i)
        <5>1. o[2] - 1 \in 1 .. n - 1 /\ Antiguo(i, o[2] - 1) = o[2]
          BY <1>1, <3>1, <4>2 DEF Antiguo
        <5>2. QED BY <5>1
      <4>3. QED BY <4>1, <4>2
    <3>3. j \in DOMAIN segment_table'[p] /\ m \in segment_table'[p][j].marcos
      BY <1>1, <3>1, <3>2
    <3>4. <<p, j>> \in DuenioSeg(m)' BY <1>3, <3>3
    <3>5. QED BY <3>4
  <2>4. QED BY <2>2, <2>3
<1> HIDE DEF V
<1>7. \A o, u \in DuenioSeg(m)' : o = u BY <1>4, <1>5
<1>8. QED BY <1>4, <1>6, <1>7

\* An unmap, whether it closes the file or not.
LEMMA DuenioTrasUnmap ==
  ASSUME BaseInv, BaseInv', UnDuenio, NEW p \in Prog, NEW i, NEW f, Desmapea(p, i, f),
         Cierra(f) \/ SigueAbierto(f)
  PROVE  UnDuenio'
<1>1. /\ i \in 1 .. Len(segment_table[p]) /\ SinSegmento(p, i)
      /\ f \in Archivo /\ segment_table[p][i].es = f
  BY DEF Desmapea, BaseInv, TipoUso
<1>2. segment_table[p][i].marcos = {}
  <2>1. i \in DOMAIN segment_table[p] BY <1>1, TablaTipos DEF BaseInv
  <2>2. f # "heap" BY <1>1, MmapAssumption DEF MmapAssumption
  <2>3. QED BY <1>1, <2>1, <2>2 DEF BaseInv, MapasSinMarcos
<1>3. \A m \in Marco : /\ \A o, u \in DuenioSeg(m)' : o = u
                       /\ DuenioSeg(m)' = {} <=> DuenioSeg(m) = {}
  <2>1. \A m \in Marco : \A o, u \in DuenioSeg(m) : o = u BY DEF UnDuenio
  <2>2. QED BY <1>1, <1>2, <2>1, DuenioTrasQuitar DEF BaseInv
<1>4. CASE SigueAbierto(f)
  <2>1. \A m \in Marco : DuenioPag(m)' = DuenioPag(m) /\ BITMAP'[m] = BITMAP[m]
    BY <1>4 DEF SigueAbierto, marcoVars, DuenioPag, Presentes
  <2>2. QED BY <1>3, <2>1 DEF UnDuenio
<1>5. CASE Cierra(f)
  <2>1. SUFFICES ASSUME NEW m \in Marco
                 PROVE  /\ \A q, r \in DuenioPag(m)' : q = r
                        /\ DuenioPag(m)' = {} \/ DuenioSeg(m)' = {}
                        /\ BITMAP'[m] <=> DuenioPag(m)' = {} /\ DuenioSeg(m)' = {}
    BY <1>3 DEF UnDuenio
  <2>2. DuenioPag(m)' = {q \in DuenioPag(m) : q[1] # f}
    <3>1. \A q \in Pag : presente'[q] <=> presente[q] /\ q[1] # f BY <1>5 DEF Cierra
    <3>2. \A q \in Pag : q[1] # f => fr'[q] = fr[q] BY <1>5 DEF Cierra
    <3>3. QED BY <3>1, <3>2 DEF DuenioPag, Presentes
  <2>3. BITMAP'[m] <=> BITMAP[m] \/ \E q \in DuenioPag(m) : q[1] = f
    <3>1. BITMAP'[m] <=> BITMAP[m] \/ \E q \in De(f) : presente[q] /\ fr[q] = m
      BY <1>5 DEF Cierra, eliminar_archivo_mmap
    <3>2. QED BY <3>1 DEF De, DuenioPag, Presentes
  <2>4. QED BY <1>3, <2>2, <2>3 DEF UnDuenio
<1>6. QED BY <1>4, <1>5

\* With no replacement, a memory_get brings a page at most.
LEMMA GetTrae ==
  ASSUME "reemplazo" \notin Extremos, BaseInv, NEW p, NEW dir, memory_get(p, dir)
  PROVE  \E f \in abierto : \E S \in SUBSET De(f) : \E g \in [Faltan(S) -> MarcosLibres] :
           /\ Trae(S, g) /\ MAIN_MEMORY' = Traida(S, g)
           /\ UNCHANGED <<vivo, tablaVars, archivo, disco, valor, guardado>>
<1>1. PICK q \in Pag :
        /\ Accede(p, dir, q)
        /\ \E g \in [Faltan({q}) -> MarcosLibres] : Trae({q}, g) /\ MAIN_MEMORY' = Traida({q}, g)
        /\ UNCHANGED <<vivo, segment_table>>
  BY DEF memory_get
<1>2. q[1] \in abierto /\ {q} \in SUBSET De(q[1]) BY <1>1, AccedeProps
<1>3. UNCHANGED <<vivo, tablaVars, archivo, disco, valor, guardado>>
  BY <1>1 DEF memory_get, tablaVars
<1>4. QED BY <1>1, <1>2, <1>3

LEMMA UnDuenioPaso ==
  ASSUME "reemplazo" \notin Extremos, BaseInv, BaseInv', UnDuenio, [Next]_vars
  PROVE  UnDuenio'
<1> USE DEF BaseInv
<1>1. ASSUME UNCHANGED <<segment_table, presente, fr, BITMAP>> PROVE UnDuenio'
  BY <1>1, DuenioIgual DEF DuenioSeg
<1>2. ASSUME NEW p \in Prog, NEW m \in Marco, NEW s,
             LET n == Len(segment_table[p]) IN
             /\ Len(segment_table'[p]) = n + 1
             /\ segment_table'[p][n + 1] = s
             /\ \A j \in 1 .. n : segment_table'[p][j] = segment_table[p][j]
             /\ \A x \in Prog \ {p} : segment_table'[x] = segment_table[x]
      PROVE  /\ m \notin s.marcos => DuenioSeg(m)' = DuenioSeg(m)
             /\ m \in s.marcos =>
                  DuenioSeg(m)' = DuenioSeg(m) \cup {<<p, Len(segment_table[p]) + 1>>}
  <2> DEFINE n == Len(segment_table[p])
  <2>1. /\ n \in Nat /\ DOMAIN segment_table[p] = 1 .. n /\ DOMAIN segment_table'[p] = 1 .. n + 1
        /\ n + 1 \in 1 .. MaxSeg
    BY <1>2, TablaTipos, LenProperties, MmapAssumption DEF TipoTabla, MmapAssumption
  <2>2. DuenioSeg(m)' = {o \in Prog \X (1 .. MaxSeg) :
                           /\ o[2] \in DOMAIN segment_table'[o[1]]
                           /\ m \in segment_table'[o[1]][o[2]].marcos}
    BY DEF DuenioSeg
  <2>3. ASSUME NEW o \in Prog \X (1 .. MaxSeg), o # <<p, n + 1>>
        PROVE  o \in DuenioSeg(m)' <=> o \in DuenioSeg(m)
    <3>1. CASE o[1] # p BY <1>2, <2>2, <2>3, <3>1 DEF DuenioSeg
    <3>2. CASE o[1] = p
      <4>1. o[2] # n + 1 BY <2>3, <3>2
      <4>2. o[2] \in 1 .. n + 1 <=> o[2] \in 1 .. n BY <2>1, <4>1
      <4>3. o[2] \in 1 .. n => segment_table'[p][o[2]] = segment_table[p][o[2]] BY <1>2
      <4>4. QED BY <2>1, <2>2, <2>3, <3>2, <4>2, <4>3 DEF DuenioSeg
    <3>3. QED BY <3>1, <3>2
  <2>4. <<p, n + 1>> \notin DuenioSeg(m) BY <2>1 DEF DuenioSeg
  <2>5. <<p, n + 1>> \in DuenioSeg(m)' <=> m \in s.marcos
    BY <1>2, <2>1, <2>2
  <2>6. DuenioSeg(m) \subseteq Prog \X (1 .. MaxSeg) BY DEF DuenioSeg
  <2>7. DuenioSeg(m)' \subseteq Prog \X (1 .. MaxSeg) BY <2>2
  <2> DEFINE D == DuenioSeg(m)
             D2 == DuenioSeg(m)'
             e == <<p, n + 1>>
  <2>8. e \in Prog \X (1 .. MaxSeg) BY <2>1
  <2>9. /\ D \subseteq Prog \X (1 .. MaxSeg) /\ D2 \subseteq Prog \X (1 .. MaxSeg)
        /\ \A o \in Prog \X (1 .. MaxSeg) : o # e => (o \in D2 <=> o \in D)
        /\ e \notin D
        /\ e \in D2 <=> m \in s.marcos
    BY <2>3, <2>4, <2>5, <2>6, <2>7
  <2> HIDE DEF D, D2, e
  <2>10. m \notin s.marcos => D2 = D BY <2>9
  <2>11. m \in s.marcos => D2 = D \cup {e} BY <2>8, <2>9
  <2>12. QED BY <2>10, <2>11 DEF D, D2, e
<1>3. ASSUME NEW p \in Prog, memory_malloc_nuevo(p) PROVE UnDuenio'
  <2>1. PICK m \in Marco : /\ BITMAP[m] /\ BITMAP' = [BITMAP EXCEPT ![m] = FALSE]
                           /\ ConSegmento(p, Segmento("heap", 0, 1, {m}))
    BY <1>3 DEF memory_malloc_nuevo, Primero, MarcosLibres
  <2> DEFINE s == Segmento("heap", 0, 1, {m})
             n == Len(segment_table[p])
  <2>2. s \in Segs /\ s.marcos = {m}
    BY MmapAssumption DEF Segmento, Segs, MmapAssumption
  <2>3. Len(segment_table[p]) < MaxSeg /\ UNCHANGED <<presente, fr>>
    BY <1>3 DEF memory_malloc_nuevo
  <2> HIDE DEF s
  <2>4. /\ Len(segment_table'[p]) = n + 1
        /\ segment_table'[p][n + 1] = s
        /\ \A j \in 1 .. n : segment_table'[p][j] = segment_table[p][j]
        /\ \A x \in Prog \ {p} : segment_table'[x] = segment_table[x]
    BY <2>1, <2>2, <2>3, ConSegmentoProps DEF s
  <2>5. /\ DuenioSeg(m)' = DuenioSeg(m) \cup {<<p, n + 1>>}
        /\ \A w \in Marco \ {m} : DuenioSeg(w)' = DuenioSeg(w)
    BY <1>2, <2>2, <2>4
  <2>6. QED BY <2>1, <2>3, <2>5, DuenioTrasMalloc DEF TipoMarco
<1>4. ASSUME NEW p \in Prog, Creciendo(p) PROVE UnDuenio'
  <2> DEFINE n == Len(segment_table[p])
             r == segment_table[p][n]
             r2 == segment_table'[p][n]
  <2>1. PICK m \in Marco : /\ BITMAP[m] /\ BITMAP' = [BITMAP EXCEPT ![m] = FALSE]
                           /\ Agranda(p, m)
    BY <1>4 DEF Creciendo, CreceUltimo, Agranda, Primero, MarcosLibres
  <2>2. UNCHANGED <<presente, fr>> BY <1>4 DEF Creciendo, CreceUltimo
  <2>3. /\ n \in Nat \ {0} /\ Len(segment_table'[p]) = n
        /\ r2 = [r EXCEPT !.limit = @ + PAGE_SIZE, !.marcos = @ \cup {m}]
        /\ \A j \in 1 .. n - 1 : segment_table'[p][j] = segment_table[p][j]
        /\ \A x \in Prog \ {p} : segment_table'[x] = segment_table[x]
    BY <1>4, <2>1, AgrandaProps DEF Creciendo, CreceUltimo
  <2>4. /\ DOMAIN segment_table[p] = 1 .. n /\ DOMAIN segment_table'[p] = 1 .. n
        /\ r \in Segs
    BY <2>3, TablaTipos, LenProperties DEF TipoTabla
  <2>5. r2.marcos = r.marcos \cup {m}
    <3> HIDE DEF r, r2
    <3>1. QED BY <2>3, <2>4 DEF Segs
  <2>6. ASSUME NEW w \in Marco, NEW o \in Prog \X (1 .. MaxSeg)
        PROVE  o \in DuenioSeg(w)' <=> o \in DuenioSeg(w) \/ (w = m /\ o = <<p, n>>)
    <3>1. o \in DuenioSeg(w)' <=> o[2] \in DOMAIN segment_table'[o[1]]
                                  /\ w \in segment_table'[o[1]][o[2]].marcos
      BY DEF DuenioSeg
    <3>2. o \in DuenioSeg(w) <=> o[2] \in DOMAIN segment_table[o[1]]
                                 /\ w \in segment_table[o[1]][o[2]].marcos
      BY DEF DuenioSeg
    <3>3. CASE o[1] # p BY <2>3, <3>1, <3>2, <3>3
    <3>4. CASE o[1] = p /\ o[2] # n
      <4>1. o[2] \in 1 .. n <=> o[2] \in 1 .. n - 1 BY <2>3, <3>4
      <4>2. QED BY <2>3, <2>4, <3>1, <3>2, <3>4, <4>1
    <3>5. CASE o[1] = p /\ o[2] = n
      <4>1. o = <<p, n>> /\ n \in 1 .. n BY <2>3, <3>5
      <4>2. o \in DuenioSeg(w)' <=> w \in r2.marcos BY <2>4, <3>1, <3>5, <4>1
      <4>3. o \in DuenioSeg(w) <=> w \in r.marcos BY <2>4, <3>2, <3>5, <4>1
      <4>4. QED BY <2>5, <4>1, <4>2, <4>3
    <3>6. QED BY <3>3, <3>4, <3>5
  <2>7. /\ DuenioSeg(m)' = DuenioSeg(m) \cup {<<p, n>>}
        /\ \A w \in Marco \ {m} : DuenioSeg(w)' = DuenioSeg(w)
    <3>1. \A w \in Marco : /\ DuenioSeg(w) \subseteq Prog \X (1 .. MaxSeg)
                           /\ DuenioSeg(w)' \subseteq Prog \X (1 .. MaxSeg)
      BY DEF DuenioSeg
    <3>2. <<p, n>> \in Prog \X (1 .. MaxSeg)
      <4>1. n <= MaxSeg BY DEF TipoTabla
      <4>2. QED BY <2>3, <4>1, MmapAssumption DEF MmapAssumption
    <3>3. QED BY <2>6, <3>1, <3>2
  <2>8. QED BY <2>1, <2>2, <2>7, DuenioTrasMalloc DEF TipoMarco
<1>5. ASSUME NEW p \in Prog, NEW f \in Archivo, NEW fl \in Flag, memory_map(p, f, fl)
      PROVE  UnDuenio'
  <2> DEFINE s == Segmento(f, BaseNueva(p), Paginas[f], {})
             n == Len(segment_table[p])
  <2>1. s \in Segs /\ s.marcos = {}
    <3>1. BaseNueva(p) \in Nat BY BaseNuevaNat
    <3>2. Paginas[f] * PAGE_SIZE \in Nat BY MmapAssumption DEF MmapAssumption
    <3>3. QED BY <3>1, <3>2 DEF Segmento, Segs
  <2>2. ConSegmento(p, s) /\ n < MaxSeg /\ UNCHANGED <<presente, fr, BITMAP>>
    BY <1>5 DEF memory_map, marcoVars
  <2> HIDE DEF s
  <2>3. /\ Len(segment_table'[p]) = n + 1
        /\ segment_table'[p][n + 1] = s
        /\ \A j \in 1 .. n : segment_table'[p][j] = segment_table[p][j]
        /\ \A x \in Prog \ {p} : segment_table'[x] = segment_table[x]
    BY <2>1, <2>2, ConSegmentoProps
  <2>4. \A m \in Marco : DuenioSeg(m)' = DuenioSeg(m) BY <1>2, <2>1, <2>3
  <2>5. QED BY <2>2, <2>4, DuenioIgual
<1>6. ASSUME NEW p \in Prog, NEW dir, memory_get(p, dir) PROVE UnDuenio'
  <2>1. PICK f \in abierto : \E S \in SUBSET De(f) : \E g \in [Faltan(S) -> MarcosLibres] :
          Trae(S, g) /\ UNCHANGED tablaVars
    BY <1>6, GetTrae
  <2>2. f \in Archivo BY DEF TipoUso
  <2>3. PICK S \in SUBSET De(f) : \E g \in [Faltan(S) -> MarcosLibres] :
          Trae(S, g) /\ UNCHANGED tablaVars
    BY <2>1
  <2>4. PICK g \in [Faltan(S) -> MarcosLibres] : Trae(S, g) /\ UNCHANGED tablaVars BY <2>3
  <2>5. UNCHANGED segment_table BY <2>4 DEF tablaVars
  <2>6. QED BY <2>2, <2>4, <2>5, DuenioTrasTraer
<1>7. ASSUME NEW p \in Prog, NEW dir, NEW v, memory_cpy(p, dir, v) PROVE UnDuenio'
  <2>1. PICK q \in Pag :
          /\ Accede(p, dir, q)
          /\ \E g \in [Faltan({q}) -> MarcosLibres] : Trae({q}, g)
    BY <1>7 DEF memory_cpy
  <2>2. q[1] \in Archivo /\ {q} \in SUBSET De(q[1]) BY <2>1, AccedeProps
  <2>3. PICK g \in [Faltan({q}) -> MarcosLibres] : Trae({q}, g) BY <2>1
  <2>4. UNCHANGED segment_table BY <1>7 DEF memory_cpy, tablaVars
  <2>5. QED BY <2>2, <2>3, <2>4, DuenioTrasTraer
<1>8. ASSUME NEW f \in abierto, NEW K, NEW k, Sincroniza(f, K, k) PROVE UnDuenio'
  <2> DEFINE S == DelArchivo(f, K)
  <2>1. f \in Archivo /\ S \in SUBSET De(f) BY DEF TipoUso, DelArchivo
  <2>2. UNCHANGED segment_table BY <1>8 DEF Sincroniza, tablaVars
  <2>3. PICK g \in [Faltan(S) -> MarcosLibres] : Trae(S, g) BY <1>8 DEF Sincroniza
  <2> HIDE DEF S
  <2>4. QED BY <2>1, <2>2, <2>3, DuenioTrasTraer
<1>9. ASSUME NEW p, falla(p) PROVE UnDuenio' BY <1>1, <1>9 DEF falla, marcoVars
<1>10. CASE Quieto BY <1>1, <1>10 DEF Quieto, tablaVars, marcoVars
<1>11. CASE Pasos
  <2>1. ASSUME NEW p \in Prog, NEW i, NEW f, Desmapea(p, i, f), Cierra(f) \/ SigueAbierto(f)
        PROVE  UnDuenio'
    BY <2>1, DuenioTrasUnmap
  <2> HIDE DEF BaseInv
  <2>2. QED BY <1>3, <1>4, <1>5, <1>6, <1>7, <1>8, <1>9, <1>11, <2>1 DEF Pasos
<1>12. QED BY <1>10, <1>11, NextPasos

LEMMA UnDuenioSiempre ==
  ASSUME "reemplazo" \notin Extremos PROVE Spec => []UnDuenio
<1>1. Init => UnDuenio
  <2> SUFFICES ASSUME Init, NEW m \in Marco
               PROVE  DuenioPag(m) = {} /\ DuenioSeg(m) = {} /\ BITMAP[m]
    BY DEF UnDuenio
  <2>1. DuenioPag(m) = {} BY DEF Init, DuenioPag, Presentes
  <2>2. \A p \in Prog : segment_table[p] = <<>> BY DEF Init
  <2>3. \A p \in Prog : DOMAIN segment_table[p] = {} BY <2>2
  <2>4. DuenioSeg(m) = {} BY <2>3 DEF DuenioSeg
  <2>5. BITMAP[m] BY DEF Init
  <2>6. QED BY <2>1, <2>4, <2>5
<1>2. BaseInv /\ BaseInv' /\ UnDuenio /\ [Next]_vars => UnDuenio' BY UnDuenioPaso
<1>3. QED BY <1>1, <1>2, Base, PTL DEF Spec

\* Closing a file gives back its frames and only them: a frame is free or has one owner,
\* a page of an open file or a segment of the heap, if no page was ever brought with no
\* frame free and no heap segment made after a mapped one.
THEOREM MarcosCorrectos ==
  ASSUME "heap_tras_mapa" \notin Extremos, "reemplazo" \notin Extremos
  PROVE  Spec => []MarcosCoherentes
<1>1. BaseInv /\ UnDuenio => MarcosCoherentes
  <2> SUFFICES ASSUME BaseInv, UnDuenio, NEW m \in Marco
               PROVE  Cardinality(Duenios(m)) = IF BITMAP[m] THEN 0 ELSE 1
    BY DEF MarcosCoherentes
  <2>1. Duenios(m) = DuenioPag(m) \cup DuenioSeg(m)
    BY DEF Duenios, DuenioPag, DuenioSeg, BaseInv, PresentesAbiertas
  <2>2. CASE BITMAP[m]
    <3>1. Duenios(m) = {} BY <2>1, <2>2 DEF UnDuenio
    <3>2. QED BY <2>2, <3>1, FS_EmptySet
  <2>3. CASE ~ BITMAP[m]
    <3>1. PICK o : o \in Duenios(m) BY <2>1, <2>3 DEF UnDuenio
    <3>2. Duenios(m) = {o} BY <2>1, <3>1 DEF UnDuenio
    <3>3. QED BY <2>3, <3>2, FS_Singleton
  <2>4. QED BY <2>2, <2>3
<1>2. QED BY <1>1, Base, UnDuenioSiempre, PTL

-----------------------------------------------------------------------------
(* Contents                                                                *)

\* What a program that maps the page q reads.
Contenido(q) == IF presente[q] THEN MAIN_MEMORY[fr[q]] ELSE archivo[q]

\* To bring pages changes what no page reads as.
LEMMA TraeContenido ==
  ASSUME BaseInv, UnDuenio, NEW f \in Archivo, NEW S \in SUBSET De(f),
         NEW g \in [Faltan(S) -> MarcosLibres], Trae(S, g), NEW q \in Pag
  PROVE  /\ (IF presente'[q] THEN Traida(S, g)[fr'[q]] ELSE archivo[q]) = Contenido(q)
         /\ q \in S => presente'[q] /\ fr'[q] \in Marco
<1>1. /\ presente' \in [Pag -> BOOLEAN]
      /\ Presentes' = Presentes \cup S /\ Faltan(S) = S \ Presentes
      /\ \A r \in Presentes : fr'[r] = fr[r]
      /\ \A r \in S : fr'[r] \in Marco
      /\ \A r \in Faltan(S) : /\ fr'[r] \in Marco /\ BITMAP[fr'[r]]
                              /\ Traida(S, g)[fr'[r]] = archivo[r]
      /\ \A m \in Marco :
           (\A r \in Faltan(S) : fr'[r] # m) => Traida(S, g)[m] = MAIN_MEMORY[m]
  BY TraeEfecto DEF BaseInv
<1>2. presente'[q] <=> q \in Presentes \cup S BY <1>1 DEF Presentes
<1>3. CASE q \in Presentes
  <2>1. fr[q] \in Marco BY <1>3 DEF BaseInv, PresentesAbiertas
  <2>2. ~ BITMAP[fr[q]] BY <1>3, <2>1 DEF UnDuenio, DuenioPag
  <2>3. Traida(S, g)[fr[q]] = MAIN_MEMORY[fr[q]] BY <1>1, <2>1, <2>2
  <2>4. QED BY <1>1, <1>2, <1>3, <2>3 DEF Contenido, Presentes
<1>4. CASE q \in S \ Presentes BY <1>1, <1>2, <1>4 DEF Contenido, Presentes
<1>5. CASE q \notin S \cup Presentes BY <1>2, <1>5 DEF Contenido, Presentes
<1>6. QED BY <1>1, <1>2, <1>3, <1>4, <1>5

\* The number of pages of a file.
LEMMA PaginasDe ==
  ASSUME NEW f \in Archivo
  PROVE  IsFiniteSet(De(f)) /\ Cardinality(De(f)) = Paginas[f]
<1>1. Paginas[f] \in Nat \ {0} BY MmapAssumption DEF MmapAssumption
<1> DEFINE N == Paginas[f]
           I == 0 .. N - 1
<1>2. De(f) = {f} \X I BY DeEs
<1>3. IsFiniteSet(I) /\ Cardinality(I) = N
  <2>1. 0 \in Int /\ N - 1 \in Int BY <1>1
  <2> HIDE DEF N
  <2>2. /\ IsFiniteSet(0 .. N - 1)
        /\ Cardinality(0 .. N - 1) = IF 0 > N - 1 THEN 0 ELSE (N - 1) - 0 + 1
    BY <2>1, FS_Interval
  <2>3. N \in Nat \ {0} BY <1>1 DEF N
  <2>4. QED BY <2>2, <2>3
<1>4. IsFiniteSet({f}) /\ Cardinality({f}) = 1 BY FS_Singleton
<1> HIDE DEF I, N
<1>5. IsFiniteSet({f} \X I) /\ Cardinality({f} \X I) = 1 * N BY <1>3, <1>4, FS_Product
<1>6. QED BY <1>1, <1>2, <1>5 DEF N

\* A sync that is not of some pages is of them all.
LEMMA SincronizaTodo ==
  ASSUME "parcial" \notin Extremos, BaseInv, NEW f \in abierto, NEW K, NEW k \in Nat,
         Sincroniza(f, K, k)
  PROVE  DelArchivo(f, K) = De(f)
<1>1. f \in Archivo BY DEF BaseInv, TipoUso
<1>2. Paginas[f] \in Nat /\ Cardinality(De(f)) = Paginas[f] /\ IsFiniteSet(De(f))
  BY <1>1, PaginasDe, MmapAssumption DEF MmapAssumption
<1>3. Cardinality(DelArchivo(f, K)) = k /\ ~ (k < Paginas[f]) BY DEF Sincroniza
<1>4. DelArchivo(f, K) \in SUBSET De(f) BY DEF DelArchivo
<1> DEFINE D == De(f)
           S == DelArchivo(f, K)
<1> HIDE DEF D, S
<1>5. /\ S \in SUBSET D /\ IsFiniteSet(D)
      /\ Cardinality(S) = k /\ Cardinality(D) \in Nat /\ ~ (k < Cardinality(D))
  BY <1>2, <1>3, <1>4 DEF D, S
<1>6. Cardinality(S) <= Cardinality(D) /\ (Cardinality(S) = Cardinality(D) => S = D)
  BY <1>5, FS_Subset
<1>7. S = D BY <1>5, <1>6
<1>8. QED BY <1>7 DEF D, S

\* What a sync of all the pages of f leaves: every page reads as before, the mmap of f has
\* what its pages have.
LEMMA SincronizaContenido ==
  ASSUME "parcial" \notin Extremos, BaseInv, UnDuenio, NEW f \in abierto, NEW K,
         NEW k \in Nat, Sincroniza(f, K, k), NEW q \in Pag
  PROVE  /\ Contenido(q)' = Contenido(q)
         /\ q[1] = f => archivo'[q] = Contenido(q)
         /\ q[1] # f => archivo'[q] = archivo[q]
<1> DEFINE S == DelArchivo(f, K)
<1>1. f \in Archivo /\ S = De(f) /\ S \in SUBSET De(f)
  BY SincronizaTodo DEF BaseInv, TipoUso
<1>2. PICK g \in [Faltan(S) -> MarcosLibres] : Trae(S, g) /\ MAIN_MEMORY' = Traida(S, g)
  BY DEF Sincroniza
<1>3. archivo' = Volcada(f, K, MAIN_MEMORY', fr') BY DEF Sincroniza
<1>4. q[1] = f <=> q \in S BY <1>1 DEF De
<1>5. /\ q[1] # f => archivo'[q] = archivo[q]
      /\ q \in S => archivo'[q] = MAIN_MEMORY'[fr'[q]]
  BY <1>3, VolcadaProps
<1> HIDE DEF S
<1>6. /\ (IF presente'[q] THEN MAIN_MEMORY'[fr'[q]] ELSE archivo[q]) = Contenido(q)
      /\ q \in S => presente'[q]
  BY <1>1, <1>2, TraeContenido
<1>7. CASE q \in S BY <1>4, <1>5, <1>6, <1>7 DEF Contenido
<1>8. CASE q \notin S BY <1>4, <1>5, <1>6, <1>8 DEF Contenido
<1>9. QED BY <1>7, <1>8

LEMMA LecturaPaso ==
  ASSUME "reemplazo" \notin Extremos, "parcial" \notin Extremos, BaseInv, BaseInv',
         UnDuenio, UnDuenio', LecturaMapeada, [Next]_vars
  PROVE  LecturaMapeada'
<1> SUFFICES ASSUME NEW q \in Pag, q[1] \in abierto'
             PROVE  Contenido(q)' = valor'[q]
  BY DEF LecturaMapeada, Contenido
<1>1. q[1] \in abierto => Contenido(q) = valor[q] BY DEF LecturaMapeada, Contenido
<1>2. ASSUME UNCHANGED <<abierto, presente, fr, MAIN_MEMORY, archivo, valor>>
      PROVE  Contenido(q)' = valor'[q]
  BY <1>1, <1>2 DEF Contenido
<1>3. ASSUME NEW p \in Prog, memory_malloc_nuevo(p) PROVE Contenido(q)' = valor'[q]
  BY <1>2, <1>3 DEF memory_malloc_nuevo
<1>4. ASSUME NEW p \in Prog, Creciendo(p) PROVE Contenido(q)' = valor'[q]
  BY <1>2, <1>4 DEF Creciendo, CreceUltimo
<1>5. ASSUME NEW p \in Prog, NEW f \in Archivo, NEW fl \in Flag, memory_map(p, f, fl)
      PROVE  Contenido(q)' = valor'[q]
  <2>1. UNCHANGED marcoVars BY <1>5 DEF memory_map
  <2>2. CASE f \in abierto
    <3>1. UNCHANGED <<abierto, archivo, valor>> BY <1>5, <2>2 DEF memory_map
    <3>2. QED BY <1>2, <2>1, <3>1 DEF marcoVars
  <2>3. CASE f \notin abierto
    <3>1. /\ abierto' = abierto \cup {f}
          /\ archivo' = Nuevas(f, archivo, disco) /\ valor' = Nuevas(f, valor, disco)
      BY <1>5, <2>3 DEF memory_map
    <3>2. CASE q[1] = f
      <4>1. ~ presente[q] BY <2>3, <3>2 DEF BaseInv, PresentesAbiertas, Presentes
      <4>2. archivo'[q] = disco[q] /\ valor'[q] = disco[q] BY <3>1, <3>2 DEF Nuevas
      <4>3. QED BY <2>1, <4>1, <4>2 DEF Contenido, marcoVars
    <3>3. CASE q[1] # f
      <4>1. archivo'[q] = archivo[q] /\ valor'[q] = valor[q] BY <3>1, <3>3 DEF Nuevas
      <4>2. q[1] \in abierto BY <3>1, <3>3
      <4>3. QED BY <1>1, <2>1, <4>1, <4>2 DEF Contenido, marcoVars
    <3>4. QED BY <3>2, <3>3
  <2>4. QED BY <2>2, <2>3
<1>6. ASSUME NEW p \in Prog, NEW dir, memory_get(p, dir) PROVE Contenido(q)' = valor'[q]
  <2>1. PICK f \in abierto : \E S \in SUBSET De(f) : \E g \in [Faltan(S) -> MarcosLibres] :
          /\ Trae(S, g) /\ MAIN_MEMORY' = Traida(S, g)
          /\ UNCHANGED <<tablaVars, archivo, valor>>
    BY <1>6, GetTrae
  <2>2. f \in Archivo BY DEF BaseInv, TipoUso
  <2>3. PICK S \in SUBSET De(f) : \E g \in [Faltan(S) -> MarcosLibres] :
          /\ Trae(S, g) /\ MAIN_MEMORY' = Traida(S, g)
          /\ UNCHANGED <<tablaVars, archivo, valor>>
    BY <2>1
  <2>4. PICK g \in [Faltan(S) -> MarcosLibres] :
          /\ Trae(S, g) /\ MAIN_MEMORY' = Traida(S, g)
          /\ UNCHANGED <<tablaVars, archivo, valor>>
    BY <2>3
  <2>5. (IF presente'[q] THEN Traida(S, g)[fr'[q]] ELSE archivo[q]) = Contenido(q)
    BY <2>2, <2>4, TraeContenido
  <2>6. abierto' = abierto BY <2>4 DEF tablaVars
  <2>7. QED BY <1>1, <2>4, <2>5, <2>6 DEF Contenido
<1>7. ASSUME NEW p \in Prog, NEW dir, NEW v \in Valor, memory_cpy(p, dir, v)
      PROVE  Contenido(q)' = valor'[q]
  <2>1. PICK r \in Pag :
          /\ Accede(p, dir, r)
          /\ \E g \in [Faltan({r}) -> MarcosLibres] :
               Trae({r}, g) /\ MAIN_MEMORY' = [Traida({r}, g) EXCEPT ![fr'[r]] = v]
          /\ valor' = [valor EXCEPT ![r] = v]
    BY <1>7 DEF memory_cpy
  <2>2. r[1] \in Archivo /\ {r} \in SUBSET De(r[1]) BY <2>1, AccedeProps
  <2>3. PICK g \in [Faltan({r}) -> MarcosLibres] :
          Trae({r}, g) /\ MAIN_MEMORY' = [Traida({r}, g) EXCEPT ![fr'[r]] = v]
    BY <2>1
  <2>4. UNCHANGED <<abierto, archivo>> BY <1>7 DEF memory_cpy, tablaVars
  <2>5. /\ (IF presente'[q] THEN Traida({r}, g)[fr'[q]] ELSE archivo[q]) = Contenido(q)
        /\ presente'[r] /\ fr'[r] \in Marco
    BY <2>2, <2>3, TraeContenido
  <2>6. Traida({r}, g) \in [Marco -> Valor] BY <2>2, <2>3, TraeEfecto DEF BaseInv
  <2>7. valor \in [Pag -> Valor] BY DEF BaseInv, TipoDato
  <2>8. CASE q = r
    <3>1. MAIN_MEMORY'[fr'[q]] = v BY <2>3, <2>5, <2>6, <2>8
    <3>2. QED BY <2>1, <2>5, <2>7, <2>8, <3>1 DEF Contenido
  <2>9. CASE q # r
    <3>1. presente'[q] => fr'[q] # fr'[r]
      <4>1. ASSUME presente'[q], fr'[q] = fr'[r] PROVE FALSE
        <5>1. PICK m \in Marco : m = fr'[r] BY <2>5
        <5>2. q \in DuenioPag(m)' /\ r \in DuenioPag(m)'
          BY <2>5, <4>1, <5>1 DEF DuenioPag, Presentes
        <5>3. QED BY <2>9, <5>2 DEF UnDuenio
      <4>2. QED BY <4>1
    <3>2. presente'[q] => fr'[q] \in Marco
      BY DEF BaseInv, PresentesAbiertas, Presentes
    <3>3. presente'[q] => MAIN_MEMORY'[fr'[q]] = Traida({r}, g)[fr'[q]]
      BY <2>3, <2>6, <3>1, <3>2
    <3>4. valor'[q] = valor[q] BY <2>1, <2>7, <2>9
    <3>5. QED BY <1>1, <2>4, <2>5, <3>3, <3>4 DEF Contenido
  <2>10. QED BY <2>8, <2>9
<1>8. ASSUME NEW p \in Prog, NEW i, NEW f, Desmapea(p, i, f), Cierra(f) \/ SigueAbierto(f)
      PROVE  Contenido(q)' = valor'[q]
  <2>1. CASE SigueAbierto(f) BY <1>2, <2>1 DEF SigueAbierto, marcoVars
  <2>2. CASE Cierra(f)
    <3>1. q[1] # f /\ q[1] \in abierto BY <2>2 DEF Cierra
    <3>2. /\ archivo'[q] = archivo[q] /\ valor'[q] = valor[q]
          /\ presente'[q] = presente[q] /\ fr'[q] = fr[q]
      BY <2>2, <3>1 DEF Cierra, Nuevas, BaseInv, TipoMarco
    <3>3. ASSUME presente[q] PROVE MAIN_MEMORY'[fr[q]] = MAIN_MEMORY[fr[q]]
      <4>1. fr[q] \in Marco BY <3>3 DEF BaseInv, PresentesAbiertas, Presentes
      <4>2. PICK m \in Marco : m = fr[q] BY <4>1
      <4>3. q \in DuenioPag(m)' BY <3>2, <3>3, <4>2 DEF DuenioPag, Presentes
      <4>4. ~ BITMAP'[m] BY <4>3 DEF UnDuenio
      <4>5. QED BY <2>2, <4>2, <4>4 DEF Cierra
    <3>4. QED BY <1>1, <3>1, <3>2, <3>3 DEF Contenido
  <2>3. QED BY <1>8, <2>1, <2>2
<1>9. ASSUME NEW f \in abierto, NEW K, NEW k \in Nat \ {0}, Sincroniza(f, K, k)
      PROVE  Contenido(q)' = valor'[q]
  <2>1. UNCHANGED <<abierto, valor>> BY <1>9 DEF Sincroniza, tablaVars
  <2>2. Contenido(q)' = Contenido(q) BY <1>9, SincronizaContenido
  <2>3. QED BY <1>1, <2>1, <2>2
<1>10. ASSUME NEW p, falla(p) PROVE Contenido(q)' = valor'[q]
  BY <1>2, <1>10 DEF falla, marcoVars
<1>11. CASE Quieto BY <1>2, <1>11 DEF Quieto, tablaVars, marcoVars
<1>12. CASE Pasos
  <2> HIDE DEF Contenido
  <2>1. QED BY <1>3, <1>4, <1>5, <1>6, <1>7, <1>8, <1>9, <1>10, <1>12 DEF Pasos
<1>13. QED BY <1>11, <1>12, NextPasos

\* A page of a mapped file reads as it was last written by any program, if no page was
\* brought with no frame free, no sync was of some of the pages of a file and no heap
\* segment was made after a mapped one.
THEOREM LecturaCorrecta ==
  ASSUME "heap_tras_mapa" \notin Extremos, "reemplazo" \notin Extremos,
         "parcial" \notin Extremos
  PROVE  Spec => []LecturaMapeada
<1>1. Init => LecturaMapeada BY DEF Init, LecturaMapeada
<1>2. BaseInv /\ BaseInv' /\ UnDuenio /\ UnDuenio' /\ LecturaMapeada /\ [Next]_vars
        => LecturaMapeada'
  BY LecturaPaso
<1>3. QED BY <1>1, <1>2, Base, UnDuenioSiempre, PTL DEF Spec

LEMMA DuraPaso ==
  ASSUME "parcial" \notin Extremos, "ajeno" \notin Extremos, BaseInv, UnDuenio,
         LecturaMapeada, SincronizadoDura, [Next]_vars
  PROVE  SincronizadoDura'
<1>1. ASSUME UNCHANGED <<disco, guardado>> PROVE SincronizadoDura'
  BY <1>1 DEF SincronizadoDura
<1>2. ASSUME NEW f \in abierto, NEW K, NEW k \in Nat \ {0}, Sincroniza(f, K, k)
      PROVE  SincronizadoDura'
  <2>1. SUFFICES ASSUME NEW q \in Pag PROVE disco'[q] = guardado'[q]
    BY DEF SincronizadoDura
  <2>2. /\ disco' = IF flag[f] = "MAP_SHARED" THEN Nuevas(f, disco, archivo') ELSE disco
        /\ guardado' = [r \in Pag |-> IF r[1] = f /\ r[2] \in K /\ flag[r[1]] = "MAP_SHARED"
                                      THEN valor[r] ELSE guardado[r]]
    BY <1>2, Zenon DEF Sincroniza
  <2>3. disco[q] = guardado[q] BY DEF SincronizadoDura
  <2>4. CASE q[1] = f /\ flag[f] = "MAP_SHARED"
    <3>1. q[2] \in K
      <4>1. q \in De(f) BY <2>4 DEF De
      <4>2. q \in DelArchivo(f, K) BY <1>2, <4>1, SincronizaTodo
      <4>3. QED BY <4>2 DEF DelArchivo
    <3>2. guardado'[q] = valor[q] BY <2>2, <2>4, <3>1
    <3>3. disco'[q] = archivo'[q] BY <2>2, <2>4 DEF Nuevas
    <3>4. archivo'[q] = Contenido(q) BY <1>2, <2>4, SincronizaContenido
    <3>5. Contenido(q) = valor[q] BY <2>4 DEF LecturaMapeada, Contenido
    <3>6. QED BY <3>2, <3>3, <3>4, <3>5
  <2>5. CASE ~ (q[1] = f /\ flag[f] = "MAP_SHARED")
    <3>1. guardado'[q] = guardado[q] BY <2>2, <2>5
    <3>2. disco'[q] = disco[q] BY <2>2, <2>5 DEF Nuevas, BaseInv, TipoDato
    <3>3. QED BY <2>3, <3>1, <3>2
  <2>6. QED BY <2>4, <2>5
<1>3. CASE Quieto BY <1>1, <1>3 DEF Quieto
<1>4. CASE Pasos
  <2>1. ASSUME NEW p, memory_malloc_nuevo(p) PROVE SincronizadoDura'
    BY <1>1, <2>1 DEF memory_malloc_nuevo
  <2>2. ASSUME NEW p, Creciendo(p) PROVE SincronizadoDura'
    BY <1>1, <2>2 DEF Creciendo, CreceUltimo
  <2>3. ASSUME NEW p, NEW f, NEW fl, memory_map(p, f, fl) PROVE SincronizadoDura'
    BY <1>1, <2>3 DEF memory_map
  <2>4. ASSUME NEW p, NEW dir, memory_get(p, dir) PROVE SincronizadoDura'
    BY <1>1, <2>4 DEF memory_get
  <2>5. ASSUME NEW p, NEW dir, NEW v, memory_cpy(p, dir, v) PROVE SincronizadoDura'
    BY <1>1, <2>5 DEF memory_cpy
  <2>6. ASSUME NEW p, falla(p) PROVE SincronizadoDura' BY <1>1, <2>6 DEF falla
  <2>7. QED BY <1>1, <1>2, <1>4, <2>1, <2>2, <2>3, <2>4, <2>5, <2>6 DEF Pasos
<1>5. QED BY <1>3, <1>4, NextPasos

\* The file has what its map had in the last sync that answered 0, and no unmap nor any
\* other request changes it, if as well no sync was given the segment of another program.
THEOREM SincronizadoDurable ==
  ASSUME "heap_tras_mapa" \notin Extremos, "reemplazo" \notin Extremos,
         "parcial" \notin Extremos, "ajeno" \notin Extremos
  PROVE  Spec => []SincronizadoDura
<1>1. Init => SincronizadoDura BY DEF Init, SincronizadoDura
<1>2. BaseInv /\ UnDuenio /\ LecturaMapeada /\ SincronizadoDura /\ [Next]_vars
        => SincronizadoDura'
  BY DuraPaso
<1>3. QED BY <1>1, <1>2, Base, UnDuenioSiempre, LecturaCorrecta, PTL DEF Spec
=============================================================================
