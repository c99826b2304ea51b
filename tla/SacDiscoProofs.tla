--------------------------- MODULE SacDiscoProofs ---------------------------
(* Theorems about SacDisco, for any number of clients and blocks and any   *)
(* sizes of block: the files never share a block, none is lost and what    *)
(* was written is read back.                                               *)
EXTENDS SacDisco, TLAPS, SequenceTheorems, WellFoundedInduction, FiniteSetTheorems

-----------------------------------------------------------------------------
(* Sets of naturals                                                        *)

\* Every non-empty set of naturals has a least element.
LEMMA MinExiste ==
  ASSUME NEW S \in SUBSET Nat, S # {}
  PROVE  \E x \in S : \A y \in S : x <= y
<1> DEFINE R == OpToRel(<, Nat)
<1>0. S \subseteq Nat OBVIOUS
<1>1. \A x, y \in Nat : y < x => <<y, x>> \in R BY DEF OpToRel
<1>2. IsWellFoundedOn(R, Nat) BY NatLessThanWellFounded
<1> HIDE DEF R
<1>3. PICK x \in S : \A y \in S : ~ (<<y, x>> \in R) BY <1>0, <1>2, WFMin
<1>4. ASSUME NEW y \in S PROVE x <= y
  <2>1. x \in Nat /\ y \in Nat BY <1>0
  <2>2. ~ (y < x) BY <1>1, <1>3, <2>1
  <2>3. QED BY <2>1, <2>2
<1>5. QED BY <1>4

-----------------------------------------------------------------------------
(* The invariant                                                           *)

\* The block of pointers that has the k-th block of data of a file, and where.
Pun(k) == k \div PUNTEROS_A_BLOQUES_DATOS
Dat(k) == k % PUNTEROS_A_BLOQUES_DATOS

\* Blocks of data of a file of that size, and its last one.
Hacen(size)  == Max({Techo(size, BLOQUE_SIZE), 1})
Ultimo(size) == (size - 1) \div BLOQUE_SIZE

\* How many the file has at this point of the request that is under way.
Cuantos(c) ==
  LET size  == file_size(c)
      corte == Ultimo(size) - Dat(Ultimo(size)) + hilo[c].resto
  IN  CASE nodo[c].state = 0 -> 0
        [] nodo[c].state = 1 /\ hilo[c].pc \in {"toma", "agrega", "puntero", "bucle"} ->
             size \div BLOQUE_SIZE
        [] nodo[c].state = 1 /\ hilo[c].pc = "sigue"   -> (size \div BLOQUE_SIZE) + 1
        [] nodo[c].state = 1 /\ hilo[c].pc = "recorta" -> corte + 1
        [] nodo[c].state = 1 /\ hilo[c].pc = "marca"   -> corte
        [] nodo[c].state = 1 /\ hilo[c].pc = "talla"   -> Hacen(hilo[c].size)
        [] nodo[c].state = 1 /\ hilo[c].pc \in {"listo", "crea", "borra", "mide", "suma"} -> Hacen(size)

Ind(c)      == 0 .. (Cuantos(c) - 1)
PunB(c, k)  == nodo[c].indirect_blocks_array[Pun(k)]
DatB(c, k)  == punteros[PunB(c, k)][Dat(k)]
\* The block that the request has taken and not put in the file, or taken out of it.
EnMano(c)   == IF hilo[c].pc \in {"agrega", "puntero", "marca"} THEN {hilo[c].nuevo} ELSE {}
Suyos(c)    == {PunB(c, k) : k \in Ind(c)} \cup {DatB(c, k) : k \in Ind(c)} \cup EnMano(c)

Octeto == (Cliente \X Nat) \cup {<<>>}
Nodos  == [state : {0, 1}, file_size : Nat,
           indirect_blocks_array : [0 .. (BLKINDIRECT - 1) -> Bloque \cup {0}]]
Hilos  == [pc : {"listo", "crea", "toma", "agrega", "puntero", "sigue", "bucle", "borra",
                 "mide", "suma", "recorta", "marca", "talla"},
           op : {"ninguna", "mknod", "write", "unlink", "truncate"},
           off : Nat, tam : Nat, en_bloque : Nat, size : Nat, resto : Int, espacio : Nat,
           nuevo : Int]
TipoDisco ==
  /\ bitmap \subseteq Bloque
  /\ punteros \in [Bloque -> [Entrada -> Int]]
  /\ datos \in [Bloque -> [0 .. (BLOQUE_SIZE - 1) -> Octeto]]
  /\ nodo \in [Cliente -> Nodos]
  /\ hilo \in [Cliente -> Hilos]
  /\ escrito \in [Cliente -> SUBSET Nat]

\* A file has its blocks, each once, and after its last block of pointers there is a 0.
Entero(c) ==
  /\ \A k \in Ind(c) : Pun(k + 1) < BLKINDIRECT /\ PunB(c, k) \in Bloque /\ DatB(c, k) \in Bloque
  /\ \A k, l \in Ind(c) : /\ PunB(c, k) = PunB(c, l) => Pun(k) = Pun(l)
                          /\ DatB(c, k) = DatB(c, l) => k = l
                          /\ PunB(c, k) # DatB(c, l)
  /\ EnMano(c) \subseteq Bloque
  /\ \A k \in Ind(c) : PunB(c, k) \notin EnMano(c) /\ DatB(c, k) \notin EnMano(c)
  /\ \A k \in Ind(c) : k = Cuantos(c) - 1 /\ Pun(k) + 1 < BLKINDIRECT =>
       nodo[c].indirect_blocks_array[Pun(k) + 1] = 0

\* What a request knows at each point where it may wait for a mutex.
Alineado(c) == file_size(c) # 0 /\ file_size(c) % BLOQUE_SIZE = 0
AlFinal(c)  == Alineado(c) /\ hilo[c].off = file_size(c) /\ hilo[c].tam > 0 /\ hilo[c].en_bloque = 0
\* The loop of get_new_space ends with the blocks that the new size needs.
Falta(c) ==
  /\ hilo[c].size + hilo[c].espacio = file_size(c) + hilo[c].resto
  /\ hilo[c].espacio \in 1 .. BLOQUE_SIZE /\ hilo[c].resto >= hilo[c].espacio
  /\ hilo[c].resto % BLOQUE_SIZE < hilo[c].espacio
  /\ hilo[c].espacio = BLOQUE_SIZE => hilo[c].resto % BLOQUE_SIZE # 0
\* delete_nodes_upto goes down to the block of the new end.
Baja(c) ==
  LET s == hilo[c].size
      u == Ultimo(file_size(c))
  IN  /\ s < file_size(c) /\ (s = 0 \/ s % BLOQUE_SIZE # 0)
      /\ Pun(s \div BLOQUE_SIZE) = Pun(u)
      /\ Dat(s \div BLOQUE_SIZE) < hilo[c].resto /\ hilo[c].resto <= Dat(u)

HiloBien(c) ==
  LET pc == hilo[c].pc
      op == hilo[c].op
  IN  /\ nodo[c].state = 0 => pc \in {"listo", "crea"} /\ file_size(c) = 0 /\ escrito[c] = {}
      /\ pc = "listo" => hilo[c] = Reposo
      /\ pc = "crea" => op = "mknod" /\ nodo[c].state = 0
      /\ pc \in {"toma", "agrega", "puntero", "sigue"} =>
           \/ op = "mknod" /\ file_size(c) = 0 /\ escrito[c] = {}
           \/ op = "write" /\ AlFinal(c)
           \/ op = "truncate" /\ Alineado(c) /\ Falta(c)
      /\ pc = "puntero" => Dat(Cuantos(c)) = 0 /\ Pun(Cuantos(c) + 1) < BLKINDIRECT
      /\ pc = "sigue" => hilo[c].nuevo = DatB(c, Cuantos(c) - 1)
      /\ pc = "bucle" => op = "write" /\ AlFinal(c)
      /\ pc = "borra" => file_size(c) # 0
      /\ pc \in {"mide", "suma", "recorta", "marca", "talla"} => op = "truncate"
      /\ pc \in {"mide", "suma"} =>
           hilo[c].size > file_size(c) /\ CorteEvitado(hilo[c].size, file_size(c)) = {}
      /\ pc = "suma" => /\ hilo[c].resto = hilo[c].size - file_size(c)
                        /\ hilo[c].espacio = BLOQUE_SIZE - (file_size(c) % BLOQUE_SIZE)
                        /\ hilo[c].resto >= hilo[c].espacio
      /\ pc \in {"recorta", "marca"} => Baja(c)
      /\ escrito[c] \subseteq 0 .. (file_size(c) - 1)

\* What is in the blocks of the file is what was written at its place.
Fiel(c) ==
  \A x \in escrito[c] : x \div BLOQUE_SIZE \in Ind(c) =>
    datos[DatB(c, x \div BLOQUE_SIZE)][x % BLOQUE_SIZE] = <<c, x>>

Bueno ==
  /\ TipoDisco
  /\ \A c \in Cliente : HiloBien(c) /\ Entero(c) /\ Fiel(c) /\ Suyos(c) \subseteq bitmap
  /\ \A c, d \in Cliente : c # d => Suyos(c) \cap Suyos(d) = {}
DiscoInv    == sin_lugar \/ Bueno
TodoMarcado == sin_lugar \/ bitmap \subseteq UNION {Suyos(c) : c \in Cliente}

-----------------------------------------------------------------------------
(* Divisions                                                               *)

LEMMA DivProps ==
  ASSUME NEW n \in Nat, NEW d \in Nat \ {0}
  PROVE  /\ n \div d \in Nat /\ n % d \in Nat /\ n % d < d
         /\ n = d * (n \div d) + (n % d)
<1>1. n \div d \in Nat OBVIOUS
<1>2. n % d \in 0 .. (d - 1) OBVIOUS
<1>3. n = d * (n \div d) + (n % d) OBVIOUS
<1>4. QED BY <1>1, <1>2, <1>3

LEMMA DivUnico ==
  ASSUME NEW d \in Nat \ {0}, NEW q \in Nat, NEW r \in Nat, r < d
  PROVE  (d * q + r) \div d = q /\ (d * q + r) % d = r
OBVIOUS

LEMMA DivDoble ==
  ASSUME NEW d \in Nat \ {0}, NEW e \in Nat \ {0}, NEW n \in Nat
  PROVE  n \div (d * e) = (n \div d) \div e /\ (n % (d * e)) \div d = (n \div d) % e
<1> DEFINE q == n \div d
           r == n % d
           a == q \div e
           b == q % e
<1>1. q \in Nat /\ r \in Nat /\ r < d /\ n = d * q + r BY DivProps
<1>2. a \in Nat /\ b \in Nat /\ b < e /\ q = e * a + b BY <1>1, DivProps
<1> HIDE DEF q, r, a, b
<1>3. d * b + r \in Nat /\ d * b + r < d * e
  <2>1. b <= e - 1 BY <1>2
  <2>2. d * b <= d * (e - 1) BY <1>2, <2>1
  <2>3. d * (e - 1) = d * e - d OBVIOUS
  <2>4. QED BY <1>1, <1>2, <2>2, <2>3
<1>4. n = (d * e) * a + (d * b + r)
  <2>1. d * q = d * (e * a) + d * b BY <1>2
  <2>2. d * (e * a) = (d * e) * a BY <1>2
  <2>3. QED BY <1>1, <1>2, <2>1, <2>2
<1>5. d * e \in Nat \ {0} OBVIOUS
<1>6. n \div (d * e) = a /\ n % (d * e) = d * b + r
  <2> DEFINE m == d * e
             s == d * b + r
  <2>1. m \in Nat \ {0} /\ s \in Nat /\ s < m /\ n = m * a + s BY <1>3, <1>4, <1>5
  <2> HIDE DEF m, s
  <2>2. n \div m = a /\ n % m = s BY <1>2, <2>1, DivUnico
  <2>3. QED BY <2>2 DEF m, s
<1>7. (d * b + r) \div d = b BY <1>1, <1>2, DivUnico
<1>8. QED BY <1>6, <1>7 DEF q, a, b

LEMMA MaxDos ==
  ASSUME NEW a \in Int, NEW b \in Int
  PROVE  /\ Max({a, b}) = (IF a >= b THEN a ELSE b)
         /\ Min({a, b}) = (IF a <= b THEN a ELSE b)
BY DEF Max, Min

\* setear_posicion finds the block of data by its number in the file.
LEMMA Posicion ==
  ASSUME NEW off \in Nat
  PROVE  setear_posicion(off) = [puntero |-> Pun(off \div BLOQUE_SIZE),
                                 dato    |-> Dat(off \div BLOQUE_SIZE)]
<1>1. BLOQUE_SIZE \in Nat \ {0} /\ PUNTEROS_A_BLOQUES_DATOS \in Nat \ {0}
  BY DiscoAssumption DEF DiscoAssumption
<1>2. QED BY <1>1, DivDoble DEF setear_posicion, Pun, Dat, Direccionable

LEMMA Lugares ==
  ASSUME NEW k \in Nat
  PROVE  /\ Pun(k) \in Nat /\ Dat(k) \in Entrada /\ Dat(k) \in Nat
         /\ k = PUNTEROS_A_BLOQUES_DATOS * Pun(k) + Dat(k)
         /\ Dat(k + 1) = 0 => Pun(k + 1) = Pun(k) + 1
         /\ Dat(k + 1) # 0 => Pun(k + 1) = Pun(k) /\ Dat(k + 1) = Dat(k) + 1
<1> DEFINE P == PUNTEROS_A_BLOQUES_DATOS
<1>1. P \in Nat \ {0} BY DiscoAssumption DEF DiscoAssumption
<1>2. /\ Pun(k) \in Nat /\ Dat(k) \in Nat /\ Dat(k) < P /\ k = P * Pun(k) + Dat(k)
  BY <1>1, DivProps DEF Pun, Dat
<1>3. Dat(k) \in Entrada BY <1>1, <1>2 DEF Entrada
<1> DEFINE i == Pun(k)
           j == Dat(k)
<1>4. i \in Nat /\ j \in Nat /\ j < P /\ k = P * i + j BY <1>2
<1> HIDE DEF i, j, P
<1>5. CASE j + 1 < P
  <2>1. k + 1 = P * i + (j + 1) BY <1>1, <1>4
  <2>2. (P * i + (j + 1)) \div P = i /\ (P * i + (j + 1)) % P = j + 1
    BY <1>1, <1>4, <1>5, DivUnico
  <2>3. Pun(k + 1) = i /\ Dat(k + 1) = j + 1 BY <2>1, <2>2 DEF Pun, Dat, P
  <2>4. j + 1 # 0 BY <1>4
  <2>5. QED BY <1>2, <1>3, <2>3, <2>4 DEF i, j, P
<1>6. CASE j + 1 = P
  <2>1. k + 1 = P * (i + 1) + 0 BY <1>1, <1>4, <1>6
  <2>2. i + 1 \in Nat /\ 0 < P BY <1>1, <1>4
  <2>3. (P * (i + 1) + 0) \div P = i + 1 /\ (P * (i + 1) + 0) % P = 0
    BY <1>1, <2>2, DivUnico
  <2>4. Pun(k + 1) = i + 1 /\ Dat(k + 1) = 0 BY <2>1, <2>3 DEF Pun, Dat, P
  <2>5. QED BY <1>2, <1>3, <2>4 DEF i, j, P
<1>7. QED BY <1>1, <1>4, <1>5, <1>6

LEMMA LugarUnico ==
  ASSUME NEW k \in Nat, NEW l \in Nat, Pun(k) = Pun(l), Dat(k) = Dat(l)
  PROVE  k = l
BY Lugares

LEMMA LugarOrden ==
  ASSUME NEW k \in Nat, NEW l \in Nat, k <= l
  PROVE  /\ Pun(k) <= Pun(l)
         /\ Pun(k) = Pun(l) => Dat(k) <= Dat(l) /\ l - k = Dat(l) - Dat(k)
<1>1. PUNTEROS_A_BLOQUES_DATOS \in Nat \ {0} BY DiscoAssumption DEF DiscoAssumption
<1>2. Pun(k) <= Pun(l) BY <1>1 DEF Pun
<1>3. Pun(k) = Pun(l) => l - k = Dat(l) - Dat(k)
  <2>1. ASSUME Pun(k) = Pun(l) PROVE l - k = Dat(l) - Dat(k)
    <3> DEFINE x == PUNTEROS_A_BLOQUES_DATOS * Pun(k)
               a == Dat(k)
               b == Dat(l)
    <3>1. k = x + a /\ l = x + b BY <2>1, Lugares
    <3>2. Pun(k) \in Int /\ a \in Int /\ b \in Int BY Lugares
    <3>3. x \in Int BY <1>1, <3>2
    <3> HIDE DEF x, a, b
    <3>4. l - k = b - a BY <3>1, <3>2, <3>3
    <3>5. QED BY <3>4 DEF a, b
  <2>2. QED BY <2>1
<1>4. QED BY <1>2, <1>3, Lugares

-----------------------------------------------------------------------------
(* A step of one client                                                    *)

\* What a step of c may change: what is not of another file.
Efecto(c) ==
  /\ \A d \in Cliente \ {c} : nodo'[d] = nodo[d] /\ hilo'[d] = hilo[d] /\ escrito'[d] = escrito[d]
  /\ \A b \in bitmap \ Suyos(c) : punteros'[b] = punteros[b]
  /\ \A b \in bitmap \ Suyos(c) : \A x \in 0 .. (BLOQUE_SIZE - 1) :
       datos[b][x] # <<>> /\ datos[b][x][1] # c => datos'[b][x] = datos[b][x]
  /\ Suyos(c)' \subseteq Suyos(c) \cup (Bloque \ bitmap)
  /\ Suyos(c)' \subseteq bitmap'
  /\ bitmap \ Suyos(c) \subseteq bitmap'
EfectoBien(c) == Efecto(c) /\ TipoDisco' /\ HiloBien(c)' /\ Entero(c)' /\ Fiel(c)'
\* Nothing is marked that the file of c does not have.
NadaDeMas(c) == bitmap' \subseteq (bitmap \ Suyos(c)) \cup Suyos(c)'

LEMMA IndProps ==
  ASSUME NEW c \in Cliente, NEW k \in Ind(c), Cuantos(c) \in Nat
  PROVE  k \in Nat /\ PunB(c, k) \in Suyos(c) /\ DatB(c, k) \in Suyos(c)
BY DEF Ind, Suyos

LEMMA HacenProps ==
  ASSUME NEW size \in Nat
  PROVE  /\ Hacen(size) \in Nat \ {0}
         /\ Hacen(size) = (IF size = 0 THEN 1
                           ELSE IF size % BLOQUE_SIZE = 0 THEN size \div BLOQUE_SIZE
                           ELSE (size \div BLOQUE_SIZE) + 1)
         /\ size # 0 => Hacen(size) = Ultimo(size) + 1 /\ Ultimo(size) \in Nat
<1> DEFINE B == BLOQUE_SIZE
           q == size \div B
           r == size % B
<1>0. B \in Nat \ {0} BY DiscoAssumption DEF DiscoAssumption
<1>1. q \in Nat /\ r \in Nat /\ r < B /\ size = B * q + r BY <1>0, DivProps
<1> HIDE DEF B, q, r
<1>2. Techo(size, B) = IF r = 0 THEN q ELSE q + 1
  <2>1. CASE r = 0
    <3>1. size + B - 1 = B * q + (B - 1) /\ B - 1 \in Nat /\ B - 1 < B BY <1>0, <1>1, <2>1
    <3>2. (B * q + (B - 1)) \div B = q BY <1>0, <1>1, <3>1, DivUnico
    <3>3. QED BY <2>1, <3>1, <3>2 DEF Techo
  <2>2. CASE r # 0
    <3>1. size + B - 1 = B * (q + 1) + (r - 1) /\ r - 1 \in Nat /\ r - 1 < B
      BY <1>0, <1>1, <2>2
    <3>2. (B * (q + 1) + (r - 1)) \div B = q + 1 BY <1>0, <1>1, <3>1, DivUnico
    <3>3. QED BY <2>2, <3>1, <3>2 DEF Techo
  <2>3. QED BY <2>1, <2>2
<1>3. r = 0 /\ size # 0 => q > 0
  <2>1. q = 0 /\ r = 0 => size = 0 BY <1>0, <1>1
  <2>2. QED BY <1>1, <2>1
<1>4. size = 0 => q = 0 /\ r = 0 BY <1>0 DEF q, r
<1>5. Hacen(size) = (IF size = 0 THEN 1 ELSE IF r = 0 THEN q ELSE q + 1)
  <2>1. Techo(size, B) \in Int BY <1>1, <1>2
  <2>2. Hacen(size) = IF Techo(size, B) >= 1 THEN Techo(size, B) ELSE 1
    BY <2>1, MaxDos DEF Hacen, B
  <2>3. QED BY <1>1, <1>2, <1>3, <1>4, <2>2
<1>6. size # 0 => Ultimo(size) = (IF r = 0 THEN q - 1 ELSE q)
  <2>1. CASE size # 0 /\ r = 0
    <3>1. size - 1 = B * (q - 1) + (B - 1) /\ q - 1 \in Nat /\ B - 1 \in Nat /\ B - 1 < B
      BY <1>0, <1>1, <1>3, <2>1
    <3>2. (B * (q - 1) + (B - 1)) \div B = q - 1 BY <1>0, <3>1, DivUnico
    <3>3. QED BY <2>1, <3>1, <3>2 DEF Ultimo, B
  <2>2. CASE r # 0
    <3>1. size - 1 = B * q + (r - 1) /\ r - 1 \in Nat /\ r - 1 < B BY <1>0, <1>1, <2>2
    <3>2. (B * q + (r - 1)) \div B = q BY <1>0, <1>1, <3>1, DivUnico
    <3>3. QED BY <2>2, <3>1, <3>2 DEF Ultimo, B
  <2>3. QED BY <2>1, <2>2
<1>7. QED BY <1>1, <1>3, <1>5, <1>6 DEF q, r, B

LEMMA CuantosTipo ==
  ASSUME TipoDisco, NEW c \in Cliente, HiloBien(c)
  PROVE  Cuantos(c) \in Nat
<1>0. BLOQUE_SIZE \in Nat \ {0} BY DiscoAssumption DEF DiscoAssumption
<1>1. /\ nodo[c].state \in {0, 1} /\ file_size(c) \in Nat
      /\ hilo[c].resto \in Int /\ hilo[c].size \in Nat
      /\ hilo[c].pc \in {"listo", "crea", "toma", "agrega", "puntero", "sigue", "bucle", "borra",
                         "mide", "suma", "recorta", "marca", "talla"}
  BY DEF TipoDisco, Nodos, Hilos, file_size
<1>2. file_size(c) \div BLOQUE_SIZE \in Nat BY <1>0, <1>1
<1>3. Hacen(file_size(c)) \in Nat /\ Hacen(hilo[c].size) \in Nat BY <1>1, HacenProps
<1>4. CASE hilo[c].pc \in {"recorta", "marca"}
  <2> DEFINE u == Ultimo(file_size(c))
  <2>1. Dat(hilo[c].size \div BLOQUE_SIZE) < hilo[c].resto /\ file_size(c) # 0
    BY <1>1, <1>4 DEF HiloBien, Baja
  <2>2. hilo[c].size \div BLOQUE_SIZE \in Nat BY <1>0, <1>1
  <2>3. Dat(hilo[c].size \div BLOQUE_SIZE) \in Nat BY <2>2, Lugares
  <2>4. u \in Nat BY <1>1, <2>1, HacenProps
  <2>5. Dat(u) \in Nat /\ Dat(u) <= u
    <3>1. PUNTEROS_A_BLOQUES_DATOS \in Nat \ {0} BY DiscoAssumption DEF DiscoAssumption
    <3> HIDE DEF u
    <3>2. QED BY <2>4, <3>1 DEF Dat
  <2> HIDE DEF u
  <2>6. u - Dat(u) + hilo[c].resto \in Nat BY <1>1, <2>1, <2>3, <2>4, <2>5
  <2>7. u - Dat(u) + hilo[c].resto + 1 \in Nat BY <2>6
  <2>8. QED BY <1>1, <1>4, <2>6, <2>7 DEF Cuantos, u
<1>5. CASE hilo[c].pc \notin {"recorta", "marca"}
  BY <1>1, <1>2, <1>3, <1>5 DEF Cuantos
<1>6. QED BY <1>4, <1>5

LEMMA AjenoSigue ==
  ASSUME Bueno, NEW c \in Cliente, Efecto(c), NEW d \in Cliente, d # c
  PROVE  HiloBien(d)' /\ Entero(d)' /\ Fiel(d)' /\ Suyos(d)' = Suyos(d)
<1>0. BLOQUE_SIZE \in Nat \ {0} BY DiscoAssumption DEF DiscoAssumption
<1>1. /\ nodo'[d] = nodo[d] /\ hilo'[d] = hilo[d] /\ escrito'[d] = escrito[d]
      /\ TipoDisco /\ HiloBien(d) /\ Entero(d) /\ Fiel(d)
      /\ Suyos(d) \subseteq bitmap \ Suyos(c)
  BY DEF Bueno, Efecto
<1>2. Cuantos(d)' = Cuantos(d) /\ EnMano(d)' = EnMano(d) /\ Cuantos(d) \in Nat
  BY <1>1, CuantosTipo DEF Cuantos, EnMano, file_size
<1>3. Ind(d)' = Ind(d) BY <1>2 DEF Ind
<1>4. \A k : PunB(d, k)' = PunB(d, k) BY <1>1 DEF PunB
<1>5. \A k \in Ind(d) : DatB(d, k)' = DatB(d, k)
  <2>1. ASSUME NEW k \in Ind(d) PROVE DatB(d, k)' = DatB(d, k)
    <3>1. PunB(d, k) \in bitmap \ Suyos(c) BY <1>1, <1>2, IndProps
    <3>2. punteros'[PunB(d, k)] = punteros[PunB(d, k)] BY <3>1 DEF Efecto
    <3>3. PunB(d, k)' = PunB(d, k) BY <1>4
    <3>4. QED BY <3>2, <3>3 DEF DatB
  <2>2. QED BY <2>1
<1>6. Suyos(d)' = Suyos(d)
  BY <1>2, <1>3, <1>4, <1>5 DEF Suyos
<1>7. Entero(d)'
  BY <1>1, <1>2, <1>3, <1>4, <1>5 DEF Entero
<1>8. HiloBien(d)'
  <2>1. nodo'[d].state = 0 => hilo[d].pc # "sigue" BY <1>1 DEF HiloBien
  <2>2. hilo[d].pc = "sigue" => Cuantos(d) - 1 \in Ind(d)
    <3>1. ASSUME hilo[d].pc = "sigue" PROVE Cuantos(d) - 1 \in Ind(d)
      <4>1. nodo[d].state = 1 /\ file_size(d) \in Nat
        BY <1>1, <2>1, <3>1 DEF TipoDisco, Nodos, file_size
      <4>2. Cuantos(d) = (file_size(d) \div BLOQUE_SIZE) + 1 BY <3>1, <4>1 DEF Cuantos
      <4>3. file_size(d) \div BLOQUE_SIZE \in Nat BY <1>0, <4>1
      <4>4. QED BY <4>2, <4>3 DEF Ind
    <3>2. QED BY <3>1
  <2>3. hilo[d].pc = "sigue" => DatB(d, Cuantos(d) - 1)' = DatB(d, Cuantos(d) - 1)
    <3>1. PICK n : n = Cuantos(d) OBVIOUS
    <3>2. hilo[d].pc = "sigue" => DatB(d, n - 1)' = DatB(d, n - 1) BY <1>5, <2>2, <3>1
    <3>3. QED BY <1>2, <3>1, <3>2
  <2>4. file_size(d)' = file_size(d) BY <1>1 DEF file_size
  <2>5. /\ AlFinal(d)' <=> AlFinal(d)
        /\ Falta(d)' <=> Falta(d)
        /\ Baja(d)' <=> Baja(d)
        /\ Alineado(d)' <=> Alineado(d)
    BY <1>1, <2>4 DEF AlFinal, Alineado, Falta, Baja
  <2>6. QED BY <1>1, <1>2, <2>3, <2>4, <2>5 DEF HiloBien
<1>9. Fiel(d)'
  <2>1. SUFFICES ASSUME NEW x \in escrito[d], x \div BLOQUE_SIZE \in Ind(d)
                 PROVE  datos'[DatB(d, x \div BLOQUE_SIZE)][x % BLOQUE_SIZE] = <<d, x>>
    BY <1>1, <1>3, <1>5 DEF Fiel
  <2>2. datos[DatB(d, x \div BLOQUE_SIZE)][x % BLOQUE_SIZE] = <<d, x>> BY <1>1, <2>1 DEF Fiel
  <2>3. DatB(d, x \div BLOQUE_SIZE) \in bitmap \ Suyos(c) BY <1>1, <1>2, <2>1, IndProps
  <2>4. x \in Nat BY <1>1, <2>1 DEF TipoDisco
  <2>5. x % BLOQUE_SIZE \in 0 .. (BLOQUE_SIZE - 1) BY <1>0, <2>4
  <2>6. <<d, x>> # <<>> /\ <<d, x>>[1] = d OBVIOUS
  <2> DEFINE b == DatB(d, x \div BLOQUE_SIZE)
             y == x % BLOQUE_SIZE
  <2> HIDE DEF b, y
  <2>7. datos[b][y] = <<d, x>> /\ b \in bitmap \ Suyos(c) /\ y \in 0 .. (BLOQUE_SIZE - 1)
    BY <2>2, <2>3, <2>5 DEF b, y
  <2>8. datos'[b][y] = datos[b][y] BY <2>6, <2>7 DEF Efecto
  <2>9. QED BY <2>7, <2>8 DEF b, y
<1>10. QED BY <1>6, <1>7, <1>8, <1>9

LEMMA EfectoBasta ==
  ASSUME Bueno, NEW c \in Cliente, EfectoBien(c)
  PROVE  Bueno' /\ (TodoMarcado /\ ~ sin_lugar /\ NadaDeMas(c) => TodoMarcado')
<1>1. Efecto(c) /\ TipoDisco' /\ HiloBien(c)' /\ Entero(c)' /\ Fiel(c)' BY DEF EfectoBien
<1>2. \A d \in Cliente \ {c} : HiloBien(d)' /\ Entero(d)' /\ Fiel(d)' /\ Suyos(d)' = Suyos(d)
  BY <1>1, AjenoSigue
<1>3. \A d \in Cliente : HiloBien(d)' /\ Entero(d)' /\ Fiel(d)' BY <1>1, <1>2
<1>4. \A d \in Cliente \ {c} : Suyos(d) \subseteq bitmap \ Suyos(c) BY DEF Bueno
<1>5. Suyos(c)' \subseteq bitmap' /\ bitmap \ Suyos(c) \subseteq bitmap'
      /\ Suyos(c)' \subseteq Suyos(c) \cup (Bloque \ bitmap)
  BY <1>1 DEF Efecto
<1>6. \A d \in Cliente : Suyos(d)' \subseteq bitmap' BY <1>2, <1>4, <1>5
<1>7. \A d \in Cliente \ {c} : Suyos(d)' \cap Suyos(c)' = {} BY <1>2, <1>4, <1>5
<1>8. \A d, e \in Cliente : d # e => Suyos(d)' \cap Suyos(e)' = {}
  <2>1. SUFFICES ASSUME NEW d \in Cliente, NEW e \in Cliente, d # e
                 PROVE  Suyos(d)' \cap Suyos(e)' = {}
    OBVIOUS
  <2>2. CASE d = c BY <1>7, <2>1, <2>2
  <2>3. CASE e = c BY <1>7, <2>1, <2>3
  <2>4. CASE d # c /\ e # c
    <3>1. Suyos(d)' = Suyos(d) /\ Suyos(e)' = Suyos(e) BY <1>2, <2>4
    <3>2. Suyos(d) \cap Suyos(e) = {} BY <2>1 DEF Bueno
    <3>3. QED BY <3>1, <3>2
  <2>5. QED BY <2>2, <2>3, <2>4
<1>9. Bueno' BY <1>1, <1>3, <1>6, <1>8 DEF Bueno
<1>10. ASSUME TodoMarcado, ~ sin_lugar, NadaDeMas(c) PROVE TodoMarcado'
  <2>1. SUFFICES ASSUME NEW b \in bitmap' PROVE \E d \in Cliente : b \in Suyos(d)'
    BY DEF TodoMarcado
  <2>2. CASE b \in Suyos(c)' BY <2>2
  <2>3. CASE b \in bitmap \ Suyos(c)
    <3>1. PICK d \in Cliente : b \in Suyos(d) BY <1>10, <2>3 DEF TodoMarcado
    <3>2. d # c BY <2>3, <3>1
    <3>3. QED BY <1>2, <3>1, <3>2
  <2>4. QED BY <1>10, <2>1, <2>2, <2>3 DEF NadaDeMas
<1>11. QED BY <1>9, <1>10

-----------------------------------------------------------------------------
(* Steps that leave the blocks of the file as they are                     *)

SoloDe(c) ==
  \A d \in Cliente \ {c} : nodo'[d] = nodo[d] /\ hilo'[d] = hilo[d] /\ escrito'[d] = escrito[d]
DatosAjenos(c) ==
  \A b \in bitmap \ Suyos(c) : \A x \in 0 .. (BLOQUE_SIZE - 1) :
    datos[b][x] # <<>> /\ datos[b][x][1] # c => datos'[b][x] = datos[b][x]
Quieta(c) ==
  /\ nodo'[c].indirect_blocks_array = nodo[c].indirect_blocks_array
  /\ punteros' = punteros /\ bitmap' = bitmap
  /\ EnMano(c) = {} /\ EnMano(c)' = {} /\ Cuantos(c)' = Cuantos(c)

LEMMA QuietaProps ==
  ASSUME NEW c \in Cliente, Quieta(c)
  PROVE  /\ Ind(c)' = Ind(c) /\ Suyos(c)' = Suyos(c)
         /\ \A k : PunB(c, k)' = PunB(c, k) /\ DatB(c, k)' = DatB(c, k)
<1>1. Ind(c)' = Ind(c) BY DEF Quieta, Ind
<1>2. \A k : PunB(c, k)' = PunB(c, k) BY DEF Quieta, PunB
<1>3. \A k : DatB(c, k)' = DatB(c, k) BY <1>2 DEF Quieta, DatB
<1>4. Suyos(c)' = Suyos(c) BY <1>1, <1>2, <1>3 DEF Quieta, Suyos
<1>5. QED BY <1>1, <1>2, <1>3, <1>4

LEMMA QuietaBasta ==
  ASSUME Bueno, NEW c \in Cliente, Quieta(c), SoloDe(c), TipoDisco', HiloBien(c)',
         DatosAjenos(c), Fiel(c)'
  PROVE  EfectoBien(c) /\ NadaDeMas(c)
<1>1. Entero(c) /\ TipoDisco /\ Suyos(c) \subseteq bitmap BY DEF Bueno
<1>2. /\ Ind(c)' = Ind(c) /\ Suyos(c)' = Suyos(c)
      /\ \A k : PunB(c, k)' = PunB(c, k) /\ DatB(c, k)' = DatB(c, k)
  BY QuietaProps
<1>3. Entero(c)' BY <1>1, <1>2 DEF Quieta, Entero
<1>4. Efecto(c)
  BY <1>1, <1>2 DEF Efecto, SoloDe, DatosAjenos, Quieta
<1>5. NadaDeMas(c) BY <1>1, <1>2 DEF NadaDeMas, Quieta
<1>6. QED BY <1>3, <1>4, <1>5 DEF EfectoBien

LEMMA QuietaDatos ==
  ASSUME Bueno, NEW c \in Cliente, Quieta(c), datos' = datos, escrito' = escrito
  PROVE  DatosAjenos(c) /\ Fiel(c)'
<1>1. Fiel(c) BY DEF Bueno
<1>2. /\ Ind(c)' = Ind(c)
      /\ \A k : PunB(c, k)' = PunB(c, k) /\ DatB(c, k)' = DatB(c, k)
  BY QuietaProps
<1>3. Fiel(c)' BY <1>1, <1>2 DEF Fiel
<1>4. QED BY <1>3 DEF DatosAjenos

\* The facts about the file of c that its steps start from.
Partida(c) ==
  /\ TipoDisco /\ HiloBien(c) /\ Entero(c) /\ Fiel(c) /\ Suyos(c) \subseteq bitmap
  /\ Cuantos(c) \in Nat /\ file_size(c) \in Nat /\ file_size(c) = nodo[c].file_size
  /\ nodo[c] \in Nodos /\ hilo[c] \in Hilos
LEMMA Parte ==
  ASSUME Bueno, NEW c \in Cliente
  PROVE  Partida(c)
<1>1. TipoDisco /\ HiloBien(c) /\ Entero(c) /\ Fiel(c) /\ Suyos(c) \subseteq bitmap BY DEF Bueno
<1>2. Cuantos(c) \in Nat BY <1>1, CuantosTipo
<1>3. nodo[c] \in Nodos /\ hilo[c] \in Hilos BY <1>1 DEF TipoDisco
<1>4. file_size(c) \in Nat BY <1>3 DEF Nodos, file_size
<1>5. QED BY <1>1, <1>2, <1>3, <1>4 DEF Partida, file_size

LEMMA Tamanos ==
  /\ BLOQUE_SIZE \in Nat \ {0} /\ PUNTEROS_A_BLOQUES_DATOS \in Nat \ {0}
  /\ BLKINDIRECT \in Nat \ {0} /\ 0 \div BLOQUE_SIZE = 0 /\ 0 % BLOQUE_SIZE = 0
  /\ Hacen(0) = 1 /\ Pun(0) = 0 /\ Dat(0) = 0
<1>1. /\ BLOQUE_SIZE \in Nat \ {0} /\ PUNTEROS_A_BLOQUES_DATOS \in Nat \ {0}
      /\ BLKINDIRECT \in Nat \ {0}
  BY DiscoAssumption DEF DiscoAssumption
<1>2. 0 \div BLOQUE_SIZE = 0 /\ 0 % BLOQUE_SIZE = 0 BY <1>1
<1>3. Pun(0) = 0 /\ Dat(0) = 0 BY <1>1 DEF Pun, Dat
<1>4. Hacen(0) = 1 BY HacenProps
<1>5. QED BY <1>1, <1>2, <1>3, <1>4

LEMMA ReposoTipo ==
  /\ Reposo \in Hilos
  /\ Reposo.pc = "listo" /\ Reposo.op = "ninguna" /\ Reposo.off = 0 /\ Reposo.tam = 0
  /\ Reposo.en_bloque = 0 /\ Reposo.size = 0 /\ Reposo.resto = 0 /\ Reposo.espacio = 0
  /\ Reposo.nuevo = 0
BY DEF Reposo, Hilos

LEMMA Paso_mknod ==
  ASSUME Bueno, NEW c \in Cliente, mknod(c)
  PROVE  EfectoBien(c) /\ NadaDeMas(c)
<1>1. Partida(c) BY Parte
<1> DEFINE h == [Reposo EXCEPT !.op = "mknod", !.pc = "crea"]
<1>2. /\ hilo[c].pc = "listo" /\ nodo[c].state = 0 /\ hilo' = [hilo EXCEPT ![c] = h]
      /\ UNCHANGED <<bitmap, punteros, datos, nodo, escrito>>
  BY DEF mknod, En, tabla, disco
<1>3. h \in Hilos /\ h.pc = "crea" /\ h.op = "mknod"
  BY ReposoTipo DEF Hilos
<1> HIDE DEF h
<1>4. hilo'[c] = h /\ SoloDe(c) /\ TipoDisco'
  BY <1>1, <1>2, <1>3 DEF Partida, TipoDisco, SoloDe
<1>5. Quieta(c) BY <1>1, <1>2, <1>3, <1>4 DEF Quieta, EnMano, Cuantos, file_size
<1>6. HiloBien(c)'
  BY <1>1, <1>2, <1>3, <1>4 DEF HiloBien, Partida, file_size
<1>7. QED BY <1>2, <1>4, <1>5, <1>6, QuietaDatos, QuietaBasta

LEMMA Paso_crear_nuevo_nodo ==
  ASSUME Bueno, NEW c \in Cliente, crear_nuevo_nodo(c)
  PROVE  EfectoBien(c) /\ NadaDeMas(c)
<1>1. Partida(c) BY Parte
<1> DEFINE h == [hilo[c] EXCEPT !.pc = "toma"]
           n == [nodo[c] EXCEPT !.state = 1, !.file_size = 0]
<1>2. /\ hilo[c].pc = "crea" /\ hilo' = [hilo EXCEPT ![c] = h]
      /\ nodo' = [nodo EXCEPT ![c] = n]
      /\ UNCHANGED <<bitmap, punteros, datos, escrito>>
  BY DEF crear_nuevo_nodo, En, Va, disco
<1>3. /\ h \in Hilos /\ h.pc = "toma" /\ h.op = hilo[c].op
      /\ n \in Nodos /\ n.state = 1 /\ n.file_size = 0
      /\ n.indirect_blocks_array = nodo[c].indirect_blocks_array
  BY <1>1 DEF Hilos, Nodos, Partida
<1>4. nodo[c].state = 0 /\ escrito[c] = {} /\ hilo[c].op = "mknod"
  BY <1>1, <1>2 DEF Partida, HiloBien
<1> HIDE DEF h, n
<1>5. hilo'[c] = h /\ nodo'[c] = n /\ SoloDe(c) /\ TipoDisco'
  BY <1>1, <1>2, <1>3 DEF Partida, TipoDisco, SoloDe
<1>6. Quieta(c)
  BY <1>1, <1>2, <1>3, <1>4, <1>5, Tamanos DEF Quieta, EnMano, Cuantos, file_size
<1>7. HiloBien(c)'
  BY <1>1, <1>2, <1>3, <1>4, <1>5 DEF HiloBien, Partida, file_size
<1>8. QED BY <1>2, <1>5, <1>6, <1>7, QuietaDatos, QuietaBasta

LEMMA Paso_escribir_archivo_mide ==
  ASSUME Bueno, NEW c \in Cliente, escribir_archivo_mide(c), ~ sin_lugar'
  PROVE  EfectoBien(c) /\ NadaDeMas(c)
<1>1. Partida(c) BY Parte
<1> DEFINE h == [hilo[c] EXCEPT !.pc = "toma"]
<1>2. /\ hilo[c].pc = "bucle" /\ hilo' = [hilo EXCEPT ![c] = h]
      /\ UNCHANGED <<bitmap, punteros, datos, nodo, escrito>>
  <2>1. En(c, "bucle") BY DEF escribir_archivo_mide
  <2>2. AlFinal(c) BY <1>1, <2>1 DEF Partida, HiloBien, En
  <2>3. NecesitaBloque(c, hilo[c].off)
    <3>1. file_size(c) # 0 /\ file_size(c) % BLOQUE_SIZE = 0 /\ hilo[c].off = file_size(c)
      BY <2>2 DEF AlFinal, Alineado
    <3>2. space_in_block(file_size(c)) = 0
      <4>1. BLOQUE_SIZE \in Nat \ {0} BY Tamanos
      <4>2. (BLOQUE_SIZE - 0) % BLOQUE_SIZE = 0 BY <4>1
      <4>3. QED BY <3>1, <4>2 DEF space_in_block
    <3>3. file_size(c) \in Nat BY <1>1 DEF Partida
    <3>4. QED BY <3>1, <3>2, <3>3 DEF NecesitaBloque
  <2>4. QED BY <2>1, <2>3 DEF escribir_archivo_mide, En, Va, tabla
<1>3. /\ h \in Hilos /\ h.pc = "toma" /\ h.op = hilo[c].op /\ h.off = hilo[c].off
      /\ h.tam = hilo[c].tam /\ h.en_bloque = hilo[c].en_bloque
  BY <1>1 DEF Hilos, Partida
<1>4. nodo[c].state # 0 /\ hilo[c].op = "write" /\ AlFinal(c)
  BY <1>1, <1>2 DEF Partida, HiloBien
<1> HIDE DEF h
<1>5. hilo'[c] = h /\ SoloDe(c) /\ TipoDisco'
  BY <1>1, <1>2, <1>3 DEF Partida, TipoDisco, SoloDe
<1>6. Quieta(c)
  BY <1>1, <1>2, <1>3, <1>4, <1>5 DEF Quieta, EnMano, Cuantos, file_size
<1>7. AlFinal(c)' BY <1>2, <1>3, <1>4, <1>5 DEF AlFinal, Alineado, file_size
<1>8. HiloBien(c)'
  BY <1>1, <1>2, <1>3, <1>4, <1>5, <1>7 DEF HiloBien, Partida, file_size
<1>9. QED BY <1>2, <1>5, <1>6, <1>8, QuietaDatos, QuietaBasta

-----------------------------------------------------------------------------
(* truncar_archivo and get_new_space                                       *)

\* No client makes a call that the server serves badly, except to delete an empty file.
SinExtremos == Extremos \subseteq {"vacio"}

LEMMA CorteNada ==
  ASSUME SinExtremos, NEW s, NEW size, CorteEvitado(s, size) \subseteq Extremos
  PROVE  CorteEvitado(s, size) = {}
BY DEF SinExtremos, CorteEvitado

LEMMA CorteProps ==
  ASSUME NEW s \in Nat, NEW size \in Nat, CorteEvitado(s, size) = {}
  PROVE  /\ s > size =>
              \/ size = 0 /\ (s = BLOQUE_SIZE \/ s % BLOQUE_SIZE # 0)
              \/ /\ size % BLOQUE_SIZE # 0
                 /\ \/ s - size = BLOQUE_SIZE - (size % BLOQUE_SIZE)
                    \/ (s - size) % BLOQUE_SIZE < BLOQUE_SIZE - (size % BLOQUE_SIZE)
         /\ s < size => s = 0 \/ s % BLOQUE_SIZE # 0
<1> DEFINE B == BLOQUE_SIZE
           room == space_in_block(size)
           mas == s - size
<1>1. B \in Nat \ {0} BY Tamanos
<1>2. s > size => \/ size = 0 /\ (mas = B \/ mas % B # 0)
                  \/ size # 0 /\ (mas = room \/ mas % B < room)
  BY DEF CorteEvitado
<1>3. s < size => s = 0 \/ s % B # 0
  <2>1. ASSUME s < size, s # 0 PROVE s % B # 0
    <3>1. s \in 1 .. (size - 1) BY <2>1
    <3>2. QED BY <3>1 DEF CorteEvitado
  <2>2. QED BY <2>1
<1>4. size % B \in 0 .. (B - 1) BY <1>1
<1>5. CASE size = 0 /\ s > size
  <2>1. mas = s BY <1>5
  <2>2. QED BY <1>2, <1>3, <1>5, <2>1
<1>6. CASE size # 0 /\ s > size
  <2>1. room = (B - (size % B)) % B BY <1>6 DEF space_in_block
  <2>2. mas % B \in Nat /\ mas > 0 BY <1>1, <1>6
  <2>3. size % B = 0 => room = 0 BY <1>1, <2>1
  <2>4. size % B # 0
    <3>1. SUFFICES ASSUME size % B = 0 PROVE FALSE OBVIOUS
    <3>2. QED BY <1>2, <1>6, <2>2, <2>3, <3>1
  <2>5. room = B - (size % B)
    <3>1. B - (size % B) \in 1 .. (B - 1) BY <1>1, <1>4, <2>4
    <3>2. QED BY <1>1, <2>1, <3>1
  <2>6. QED BY <1>2, <1>3, <1>6, <2>4, <2>5
<1>7. QED BY <1>3, <1>5, <1>6

\* A size by the number of its whole blocks.
LEMMA HacenDe ==
  ASSUME NEW q \in Nat, NEW r \in Nat, r < BLOQUE_SIZE
  PROVE  /\ (BLOQUE_SIZE * q + r) \div BLOQUE_SIZE = q /\ (BLOQUE_SIZE * q + r) % BLOQUE_SIZE = r
         /\ BLOQUE_SIZE * q + r \in Nat
         /\ Hacen(BLOQUE_SIZE * q + r) = (IF r # 0 THEN q + 1 ELSE IF q = 0 THEN 1 ELSE q)
<1> DEFINE n == BLOQUE_SIZE * q + r
<1>1. BLOQUE_SIZE \in Nat \ {0} BY Tamanos
<1>2. n \div BLOQUE_SIZE = q /\ n % BLOQUE_SIZE = r /\ n \in Nat BY <1>1, DivUnico
<1>3. q = 0 /\ r = 0 => n = 0 BY <1>1
<1>4. r # 0 \/ q # 0 => n # 0 BY <1>2, Tamanos
<1> HIDE DEF n
<1>5. Hacen(n) = (IF r # 0 THEN q + 1 ELSE IF q = 0 THEN 1 ELSE q)
  BY <1>2, <1>3, <1>4, HacenProps
<1>6. QED BY <1>2, <1>5 DEF n

LEMMA Paso_truncar_archivo ==
  ASSUME Bueno, SinExtremos, NEW c \in Cliente, truncar_archivo(c)
  PROVE  EfectoBien(c) /\ NadaDeMas(c)
<1> DEFINE size == file_size(c)
           u == Ultimo(size)
<1>1. Partida(c) BY SMTT(60), Parte
<1>2. PICK s \in 0 .. MaxTam[c] :
         LET h == [Reposo EXCEPT !.op = "truncate", !.size = s]
         IN /\ CorteEvitado(s, size) \subseteq Extremos
            /\ UNCHANGED <<bitmap, nodo>>
            /\ \/ /\ s > size
                  /\ hilo' = [hilo EXCEPT ![c] = [h EXCEPT !.pc = "mide"]]
               \/ /\ s = size
                  /\ hilo' = [hilo EXCEPT ![c] = [h EXCEPT !.pc = "talla"]]
               \/ /\ s < size
                  /\ s \div Direccionable = setear_posicion(size - 1).puntero
                  /\ hilo' = [hilo EXCEPT ![c] = [h EXCEPT !.resto = UltimoDato(size), !.pc =
                       IF UltimoDato(size) = setear_posicion(s).dato
                         THEN "talla" ELSE "recorta"]]
  <2>1. \A s : CorteEvitado(s, size) \subseteq Extremos =>
               CorteEvitado(s, size) \cap {"igual", "otro_puntero"} = {}
    <3>1. \A s : CorteEvitado(s, size) \subseteq Extremos => CorteEvitado(s, size) = {}
      BY CorteNada
    <3>2. QED BY <3>1
  <2>2. QED BY <2>1 DEF truncar_archivo
<1>3. /\ hilo[c].pc = "listo" /\ nodo[c].state = 1
      /\ UNCHANGED <<bitmap, punteros, datos, nodo, escrito>>
  BY <1>2 DEF truncar_archivo, En, disco
<1>4. s \in Nat /\ CorteEvitado(s, size) = {} /\ size \in Nat
  <2>1. MaxTam[c] \in Nat BY DiscoAssumption DEF DiscoAssumption
  <2>2. QED BY <1>1, <1>2, <2>1, CorteNada DEF Partida
<1>5. Cuantos(c) = Hacen(size) BY <1>3 DEF Cuantos
<1>6. ASSUME NEW h \in Hilos, hilo' = [hilo EXCEPT ![c] = h], h.op = "truncate", h.size = s,
             h.pc \in {"mide", "talla", "recorta"},
             h.pc = "mide" => s > size,
             h.pc = "talla" => Hacen(s) = Hacen(size),
             h.pc = "recorta" => /\ h.resto = Dat(u) /\ u - Dat(u) + Dat(u) + 1 = Hacen(size)
                                 /\ s < size /\ (s = 0 \/ s % BLOQUE_SIZE # 0)
                                 /\ Pun(s \div BLOQUE_SIZE) = Pun(u)
                                 /\ Dat(s \div BLOQUE_SIZE) < Dat(u)
      PROVE  EfectoBien(c) /\ NadaDeMas(c)
  <2>1. hilo'[c] = h /\ SoloDe(c) /\ TipoDisco'
    BY <1>1, <1>3, <1>6 DEF Partida, TipoDisco, SoloDe
  <2>2. file_size(c)' = size BY <1>3 DEF file_size
  <2>3. Cuantos(c)' = Hacen(size)
    BY <1>3, <1>6, <2>1, <2>2 DEF Cuantos
  <2>4. Quieta(c) BY <1>3, <1>5, <1>6, <2>1, <2>3 DEF Quieta, EnMano
  <2>5. h.pc = "recorta" => Baja(c)'
    <3>1. h.pc = "recorta" => Dat(u) \in Nat
      <4>1. h.pc = "recorta" => u \in Nat BY <1>4, <1>6, HacenProps
      <4>2. QED BY <4>1, Lugares
    <3>2. QED BY <1>6, <2>1, <2>2, <3>1 DEF Baja
  <2>6. HiloBien(c)'
    BY <1>1, <1>3, <1>4, <1>6, <2>1, <2>2, <2>5 DEF HiloBien, Partida
  <2>7. QED BY <1>3, <2>1, <2>4, <2>6, QuietaDatos, QuietaBasta
<1> DEFINE r == [Reposo EXCEPT !.op = "truncate", !.size = s]
<1>7. r \in Hilos /\ r.op = "truncate" /\ r.size = s
  BY <1>4, ReposoTipo DEF Hilos
<1>8. CASE s > size /\ hilo' = [hilo EXCEPT ![c] = [r EXCEPT !.pc = "mide"]]
  <2> DEFINE h == [r EXCEPT !.pc = "mide"]
  <2> HIDE DEF r
  <2>1. h \in Hilos /\ h.pc = "mide" /\ h.op = "truncate" /\ h.size = s BY <1>7 DEF Hilos
  <2> HIDE DEF h
  <2>2. hilo' = [hilo EXCEPT ![c] = h] BY <1>8 DEF h
  <2>3. QED BY <1>6, <1>8, <2>1, <2>2
<1>11. CASE s = size /\ hilo' = [hilo EXCEPT ![c] = [r EXCEPT !.pc = "talla"]]
  <2> DEFINE h == [r EXCEPT !.pc = "talla"]
  <2> HIDE DEF r
  <2>1. h \in Hilos /\ h.pc = "talla" /\ h.op = "truncate" /\ h.size = s BY <1>7 DEF Hilos
  <2> HIDE DEF h
  <2>2. hilo' = [hilo EXCEPT ![c] = h] BY <1>11 DEF h
  <2>3. QED BY <1>6, <1>11, <2>1, <2>2
<1>9. CASE /\ s < size
           /\ s \div Direccionable = setear_posicion(size - 1).puntero
           /\ hilo' = [hilo EXCEPT ![c] = [r EXCEPT !.resto = UltimoDato(size), !.pc =
                IF UltimoDato(size) = setear_posicion(s).dato THEN "talla" ELSE "recorta"]]
  <2> DEFINE k == s \div BLOQUE_SIZE
             y == IF Dat(u) = Dat(k) THEN "talla" ELSE "recorta"
             h == [r EXCEPT !.resto = Dat(u), !.pc = y]
  <2>1. size - 1 \in Nat /\ size # 0 BY <1>4, <1>9
  <2>2. /\ u \in Nat /\ k \in Nat /\ k <= u /\ Hacen(size) = u + 1
        /\ s = 0 \/ s % BLOQUE_SIZE # 0
    <3>1. u \in Nat /\ Hacen(size) = u + 1 BY <1>4, <2>1, HacenProps
    <3>2. s = 0 \/ s % BLOQUE_SIZE # 0 BY <1>4, <1>9, CorteProps
    <3>3. s <= size - 1 BY <1>4, <1>9
    <3>4. k \in Nat /\ k <= u BY <1>4, <2>1, <3>3, Tamanos DEF Ultimo
    <3>5. QED BY <3>1, <3>2, <3>4
  <2>3. UltimoDato(size) = Dat(u) /\ setear_posicion(s).dato = Dat(k) /\ Pun(k) = Pun(u)
    <3>1. /\ setear_posicion(size - 1) = [puntero |-> Pun(u), dato |-> Dat(u)]
          /\ setear_posicion(s) = [puntero |-> Pun(k), dato |-> Dat(k)]
      BY <1>4, <2>1, Posicion DEF Ultimo
    <3>2. setear_posicion(s).puntero = s \div Direccionable BY DEF setear_posicion
    <3>3. QED BY <1>9, <3>1, <3>2 DEF UltimoDato
  <2>4. hilo' = [hilo EXCEPT ![c] = h] BY <1>9, <2>3
  <2>5. Dat(u) \in Nat /\ Dat(k) \in Nat /\ Dat(k) <= Dat(u) BY <2>2, <2>3, Lugares, LugarOrden
  <2>15. y \in {"talla", "recorta"} OBVIOUS
  <2> HIDE DEF r, u, k, y
  <2>6. /\ h \in Hilos /\ h.op = "truncate" /\ h.size = s /\ h.resto = Dat(u)
        /\ h.pc = y
    <3> DEFINE v == Dat(u)
               g == [r EXCEPT !.resto = v]
    <3>1. v \in Int BY <2>5
    <3> HIDE DEF v
    <3>2. g \in Hilos /\ g.op = "truncate" /\ g.size = s /\ g.resto = v
      BY <1>7, <3>1 DEF Hilos
    <3>3. h = [g EXCEPT !.pc = y] BY DEF v
    <3> HIDE DEF g
    <3>4. [g EXCEPT !.pc = y] \in Hilos BY <2>15, <3>2 DEF Hilos
    <3>5. /\ [g EXCEPT !.pc = y].op = "truncate" /\ [g EXCEPT !.pc = y].size = s
          /\ [g EXCEPT !.pc = y].resto = v /\ [g EXCEPT !.pc = y].pc = y
      BY <3>2 DEF Hilos
    <3> HIDE DEF h
    <3>6. QED BY <3>3, <3>4, <3>5 DEF v
  <2> HIDE DEF h
  <2>7. Dat(u) = Dat(k) => Hacen(s) = Hacen(size)
    <3>1. ASSUME Dat(u) = Dat(k) PROVE Hacen(s) = Hacen(size)
      <4>1. k = u BY <2>2, <2>3, <3>1, LugarUnico
      <4>2. Hacen(s) = k + 1
        <5>1. s = 0 => k = 0 BY Tamanos DEF k
        <5>2. QED BY <1>4, <2>2, <5>1, HacenProps DEF k
      <4>3. QED BY <2>2, <4>1, <4>2
    <3>2. QED BY <3>1
  <2>8. Dat(u) # Dat(k) => Dat(k) < Dat(u) BY <2>5
  <2>9. u - Dat(u) + Dat(u) + 1 = Hacen(size) BY <2>2, <2>5
  <2>10. k = s \div BLOQUE_SIZE /\ u = Ultimo(size) BY DEF k, u
  <2>11. h.pc # "mide" /\ h.pc \in {"mide", "talla", "recorta"} BY <2>6, <2>15
  <2>12. h.pc = "talla" => Hacen(s) = Hacen(size) BY <2>6, <2>7 DEF y
  <2>13. h.pc = "recorta" => Dat(k) < Dat(u) BY <2>6, <2>8 DEF y
  <2>14. QED
    BY <1>6, <1>9, <2>2, <2>3, <2>4, <2>6, <2>9, <2>10, <2>11, <2>12, <2>13
<1>10. QED BY <1>2, <1>8, <1>9, <1>11

\* The facts about the file of a request of truncate that is not cutting.
LEMMA ParteTruncar ==
  ASSUME Bueno, NEW c \in Cliente, hilo[c].pc \in {"mide", "suma", "talla"}
  PROVE  nodo[c].state = 1 /\ hilo[c].op = "truncate"
BY Parte DEF Partida, HiloBien, Nodos

LEMMA Paso_get_new_space ==
  ASSUME Bueno, NEW c \in Cliente, get_new_space(c), ~ sin_lugar'
  PROVE  EfectoBien(c) /\ NadaDeMas(c)
<1> DEFINE size == file_size(c)
           s == hilo[c].size
           mas == s - size
           room == BLOQUE_SIZE - (size % BLOQUE_SIZE)
           falta == \/ mas < room
                    \/ Cardinality(Libres) * BLOQUE_SIZE < mas - room
           y == IF falta THEN "talla" ELSE "suma"
           h == [hilo[c] EXCEPT !.resto = mas, !.espacio = room, !.pc = y]
<1>1. Partida(c) BY Parte
<1>2. /\ hilo[c].pc = "mide" /\ hilo' = [hilo EXCEPT ![c] = h]
      /\ ~ (falta /\ mas >= room)
      /\ UNCHANGED <<bitmap, punteros, datos, nodo, escrito>>
  BY DEF get_new_space, En, disco, tabla
<1>3. /\ nodo[c].state = 1 /\ hilo[c].op = "truncate" /\ s > size /\ CorteEvitado(s, size) = {}
      /\ s \in Nat /\ size \in Nat /\ mas \in Nat
  BY <1>1, <1>2, ParteTruncar DEF Partida, HiloBien, Hilos
<1>4. BLOQUE_SIZE \in Nat \ {0} /\ room \in 1 .. BLOQUE_SIZE BY <1>3, Tamanos
<1>5. y = (IF mas < room THEN "talla" ELSE "suma") BY <1>2, <1>3, <1>4
<1>6. y \in {"talla", "suma"} BY <1>5
<1> HIDE DEF mas, room, falta, y
<1>7. /\ h \in Hilos /\ h.pc = y /\ h.op = "truncate" /\ h.size = s /\ h.resto = mas
      /\ h.espacio = room
  <2> DEFINE f == [hilo[c] EXCEPT !.resto = mas]
             g == [f EXCEPT !.espacio = room]
  <2>1. hilo[c] \in Hilos /\ mas \in Int /\ room \in Nat BY <1>1, <1>3, <1>4 DEF Partida
  <2>2. f \in Hilos /\ f.op = "truncate" /\ f.size = s /\ f.resto = mas
    BY <1>3, <2>1 DEF Hilos
  <2>3. h = [g EXCEPT !.pc = y] BY <2>1 DEF Hilos
  <2> HIDE DEF f, h
  <2>4. g \in Hilos /\ g.op = "truncate" /\ g.size = s /\ g.resto = mas /\ g.espacio = room
    BY <2>1, <2>2 DEF Hilos
  <2> HIDE DEF g
  <2>5. QED BY <1>6, <2>3, <2>4 DEF Hilos
<1> HIDE DEF h
<1>8. hilo'[c] = h /\ SoloDe(c) /\ TipoDisco'
  BY <1>1, <1>2, <1>7 DEF Partida, TipoDisco, SoloDe
<1>9. y = "talla" => Hacen(s) = Hacen(size)
  <2>1. SUFFICES ASSUME mas < room PROVE Hacen(s) = Hacen(size) BY <1>5
  <2> DEFINE q == size \div BLOQUE_SIZE
             r == size % BLOQUE_SIZE
  <2>2. q \in Nat /\ r \in Nat /\ r < BLOQUE_SIZE /\ size = BLOQUE_SIZE * q + r
    BY <1>3, <1>4, DivProps
  <2>3. s = size + mas /\ mas > 0 /\ room = BLOQUE_SIZE - r BY <1>3 DEF mas, room
  <2>4. \/ size = 0 \/ r # 0
    BY <1>3, CorteProps
  <2>5. size = 0 => q = 0 /\ r = 0 BY Tamanos
  <2> DEFINE x == BLOQUE_SIZE * q
  <2>6. x \in Int BY <1>4, <2>2
  <2> HIDE DEF q, r
  <2>7. s = BLOQUE_SIZE * q + (r + mas) /\ r + mas \in Nat /\ r + mas < BLOQUE_SIZE /\ r + mas # 0
    <3>1. s = x + (r + mas) /\ r + mas \in Nat /\ r + mas < BLOQUE_SIZE /\ r + mas # 0
      <4>1. size = x + r BY <2>2
      <4> HIDE DEF x
      <4>2. QED BY <1>3, <1>4, <2>1, <2>2, <2>3, <2>6, <4>1
    <3>2. QED BY <3>1
  <2>8. Hacen(s) = q + 1 BY <2>2, <2>7, HacenDe
  <2>9. Hacen(size) = q + 1 BY <2>2, <2>4, <2>5, HacenDe
  <2>10. QED BY <2>8, <2>9
<1>10. Cuantos(c)' = Hacen(size) /\ Cuantos(c) = Hacen(size)
  BY <1>2, <1>3, <1>6, <1>7, <1>8, <1>9 DEF Cuantos, file_size
<1>11. Quieta(c) BY <1>2, <1>6, <1>7, <1>8, <1>10 DEF Quieta, EnMano
<1>12. file_size(c)' = size BY <1>2 DEF file_size
<1>13. y = "suma" => mas >= room BY <1>3, <1>4, <1>5
<1>14. HiloBien(c)'
  <2>1. mas = s - size /\ room = BLOQUE_SIZE - (size % BLOQUE_SIZE) BY DEF mas, room
  <2> HIDE DEF size, s
  <2>2. QED
    <3>1. /\ hilo'[c] = h /\ nodo'[c] = nodo[c] /\ escrito'[c] = escrito[c]
          /\ file_size(c)' = file_size(c) /\ escrito[c] \subseteq 0 .. (file_size(c) - 1)
      BY <1>1, <1>2, <1>8, <1>12 DEF HiloBien, Partida, size
    <3>2. h.pc \in {"talla", "suma"} BY <1>6, <1>7
    <3>3. h.pc = "suma" => h.resto >= h.espacio BY <1>7, <1>13
    <3>4. h.resto = h.size - file_size(c) /\ h.espacio = BLOQUE_SIZE - (file_size(c) % BLOQUE_SIZE)
      BY <1>7, <2>1 DEF size, s
    <3>5. h.op = "truncate" /\ nodo[c].state = 1 /\ h.size > file_size(c)
          /\ CorteEvitado(h.size, file_size(c)) = {}
      BY <1>3, <1>7 DEF size, s
    <3>6. QED BY <3>1, <3>2, <3>3, <3>4, <3>5 DEF HiloBien
<1>15. QED BY <1>2, <1>8, <1>11, <1>14, QuietaDatos, QuietaBasta

LEMMA Paso_get_new_space_suma ==
  ASSUME Bueno, NEW c \in Cliente, get_new_space_suma(c)
  PROVE  EfectoBien(c) /\ NadaDeMas(c)
<1> DEFINE size == file_size(c)
           s == hilo[c].size
           e == hilo[c].espacio
           mas == hilo[c].resto
           y == IF e >= mas THEN "talla" ELSE Bucle(e, mas)
           h == [hilo[c] EXCEPT !.pc = y]
           n == [nodo[c] EXCEPT !.file_size = @ + Min({e, mas})]
<1>1. Partida(c) BY Parte
<1>2. /\ hilo[c].pc = "suma" /\ hilo' = [hilo EXCEPT ![c] = h]
      /\ nodo' = [nodo EXCEPT ![c] = n]
      /\ UNCHANGED <<bitmap, punteros, datos, escrito>>
  BY DEF get_new_space_suma, En, Va, disco
<1>3. /\ nodo[c].state = 1 /\ hilo[c].op = "truncate" /\ s > size /\ CorteEvitado(s, size) = {}
      /\ s \in Nat /\ size \in Nat /\ mas = s - size /\ mas \in Nat /\ mas >= e
      /\ e = BLOQUE_SIZE - (size % BLOQUE_SIZE) /\ nodo[c].file_size = size
  BY <1>1, <1>2, ParteTruncar DEF Partida, HiloBien, Hilos
<1>4. BLOQUE_SIZE \in Nat \ {0} /\ e \in 1 .. BLOQUE_SIZE /\ e \in Nat BY <1>3, Tamanos
<1>5. Min({e, mas}) = e
  <2>1. e \in Int /\ mas \in Int /\ e <= mas BY <1>3, <1>4
  <2> HIDE DEF e, mas
  <2>2. QED BY <2>1, MaxDos
<1>6. y = (IF mas = e THEN "talla" ELSE "toma") /\ y \in {"talla", "toma"}
  <2> HIDE DEF mas, e
  <2>1. QED BY <1>3, <1>4 DEF Bucle
<1> HIDE DEF y
<1>7. /\ h \in Hilos /\ h.pc = y /\ h.op = "truncate" /\ h.size = s /\ h.resto = mas
      /\ h.espacio = e
      /\ n \in Nodos /\ n.state = 1 /\ n.file_size = size + e
      /\ n.indirect_blocks_array = nodo[c].indirect_blocks_array
  <2>1. /\ h \in Hilos /\ h.pc = y /\ h.op = "truncate" /\ h.size = s /\ h.resto = mas
        /\ h.espacio = e
    BY <1>1, <1>3, <1>6 DEF Hilos, Partida
  <2> DEFINE v == Min({e, mas})
  <2>2. v = e /\ v \in Nat BY <1>4, <1>5
  <2> HIDE DEF v
  <2>3. /\ n \in Nodos /\ n.state = 1 /\ n.file_size = size + v
        /\ n.indirect_blocks_array = nodo[c].indirect_blocks_array
    <3>1. n = [nodo[c] EXCEPT !.file_size = @ + v] BY DEF v
    <3>2. nodo[c] \in Nodos BY <1>1 DEF Partida
    <3> HIDE DEF n
    <3>3. QED BY <1>3, <2>2, <3>1, <3>2 DEF Nodos
  <2>4. QED BY <2>1, <2>2, <2>3
<1> HIDE DEF h, n
<1>8. hilo'[c] = h /\ nodo'[c] = n /\ SoloDe(c) /\ TipoDisco'
  BY <1>1, <1>2, <1>7 DEF Partida, TipoDisco, SoloDe
<1>9. file_size(c)' = size + e BY <1>7, <1>8 DEF file_size
<1> DEFINE q == size \div BLOQUE_SIZE
           r == size % BLOQUE_SIZE
<1>10. q \in Nat /\ r \in Nat /\ r < BLOQUE_SIZE /\ size = BLOQUE_SIZE * q + r
  BY <1>3, <1>4, DivProps
<1>11. size = 0 \/ r # 0 BY <1>3, CorteProps
<1>12. size = 0 => q = 0 /\ r = 0 BY Tamanos
<1>13. Hacen(size) = q + 1 BY <1>10, <1>11, <1>12, HacenDe
<1>14. /\ size + e = BLOQUE_SIZE * (q + 1) + 0 /\ q + 1 \in Nat /\ 0 \in Nat /\ 0 < BLOQUE_SIZE
       /\ size + e # 0
  <2>1. e = BLOQUE_SIZE - r BY <1>3
  <2>2. BLOQUE_SIZE * (q + 1) = BLOQUE_SIZE * q + BLOQUE_SIZE BY <1>4, <1>10
  <2>3. size + e = BLOQUE_SIZE * q + BLOQUE_SIZE
    <3> DEFINE x == BLOQUE_SIZE * q
    <3>1. x \in Int /\ size = x + r BY <1>4, <1>10
    <3> HIDE DEF x, q, r, e, size
    <3>2. size + e = x + BLOQUE_SIZE BY <1>4, <1>10, <2>1, <3>1
    <3>3. QED BY <3>2 DEF x
  <2>4. size + e # 0 BY <1>3, <1>4
  <2>5. QED BY <1>4, <1>10, <2>2, <2>3, <2>4
<1>15. /\ (size + e) \div BLOQUE_SIZE = q + 1 /\ (size + e) % BLOQUE_SIZE = 0
       /\ Hacen(size + e) = q + 1
  BY <1>10, <1>14, HacenDe
<1>16. mas = e => s = size + e BY <1>3
<1>17. Cuantos(c) = q + 1 BY <1>2, <1>3, <1>13 DEF Cuantos
<1>18. Cuantos(c)' = q + 1
  <2>1. n.state = 1 /\ h.pc = y /\ h.size = s BY <1>7
  <2>2. CASE y = "talla"
    <3>1. s = size + e BY <1>6, <1>16, <2>2
    <3>2. QED BY <1>8, <1>15, <2>1, <2>2, <3>1 DEF Cuantos
  <2>3. CASE y = "toma"
    BY <1>8, <1>9, <1>15, <2>1, <2>3 DEF Cuantos
  <2>4. QED BY <1>6, <2>2, <2>3
<1>19. Quieta(c) BY <1>2, <1>6, <1>7, <1>8, <1>17, <1>18 DEF Quieta, EnMano
<1>20. y = "toma" => Alineado(c)' /\ Falta(c)'
  <2>1. SUFFICES ASSUME y = "toma" PROVE Alineado(c)' /\ Falta(c)' OBVIOUS
  <2>2. mas # e BY <1>6, <2>1
  <2>3. /\ mas % BLOQUE_SIZE < e
        /\ e = BLOQUE_SIZE => mas % BLOQUE_SIZE # 0
    <3>1. CASE size = 0
      <4>1. e = BLOQUE_SIZE /\ mas = s
        <5>1. r = 0 /\ e = BLOQUE_SIZE - r /\ mas = s - size BY <1>3, <1>12, <3>1
        <5> HIDE DEF r, e, mas, size, s
        <5>2. QED BY <1>3, <1>4, <3>1, <5>1
      <4>2. s % BLOQUE_SIZE # 0
        <5>1. r = 0 BY <1>12, <3>1
        <5>2. s # BLOQUE_SIZE BY <2>2, <4>1
        <5>3. s = BLOQUE_SIZE \/ s % BLOQUE_SIZE # 0 \/ size % BLOQUE_SIZE # 0
          BY <1>3, CorteProps
        <5>4. QED BY <5>1, <5>2, <5>3
      <4>3. s % BLOQUE_SIZE < BLOQUE_SIZE BY <1>3, <1>4
      <4>4. QED BY <4>1, <4>2, <4>3
    <3>2. CASE size # 0
      <4>1. r # 0 /\ (s - size = e \/ (s - size) % BLOQUE_SIZE < e)
        BY <1>3, <1>11, <3>2, CorteProps
      <4>2. e # BLOQUE_SIZE BY <1>3, <1>4, <1>10, <4>1
      <4>3. QED BY <1>3, <2>2, <4>1, <4>2
    <3>3. QED BY <3>1, <3>2
  <2>4. s + e = (size + e) + mas BY <1>3, <1>4
  <2>5. Alineado(c)' BY <1>9, <1>14, <1>15 DEF Alineado
  <2>6. Falta(c)'
    <3>1. h.size + h.espacio = (size + e) + h.resto BY <1>7, <2>4
    <3>2. /\ h.espacio \in 1 .. BLOQUE_SIZE /\ h.resto >= h.espacio
          /\ h.resto % BLOQUE_SIZE < h.espacio
          /\ h.espacio = BLOQUE_SIZE => h.resto % BLOQUE_SIZE # 0
      <4>1. /\ h.espacio = e /\ h.resto = mas /\ e \in 1 .. BLOQUE_SIZE /\ mas >= e
        BY <1>3, <1>4, <1>7
      <4> HIDE DEF e, mas
      <4>2. QED BY <2>3, <4>1
    <3>3. QED BY <1>8, <1>9, <3>1, <3>2 DEF Falta
  <2>7. QED BY <2>5, <2>6
<1>21. escrito'[c] \subseteq 0 .. (size + e - 1)
  <2>1. escrito[c] \subseteq 0 .. (size - 1) BY <1>1 DEF Partida, HiloBien
  <2>2. QED BY <1>2, <1>3, <1>4, <2>1
<1>22. HiloBien(c)'
  <2>1. h.pc \in {"talla", "toma"} /\ h.op = "truncate" /\ n.state = 1 BY <1>6, <1>7
  <2>2. h.pc = "toma" => Alineado(c)' /\ Falta(c)' BY <1>7, <1>20
  <2>3. escrito'[c] \subseteq 0 .. (file_size(c)' - 1)
    <3>1. size \in Int /\ e \in Int BY <1>3, <1>4
    <3> HIDE DEF size, e
    <3>2. QED BY <1>9, <1>21, <3>1
  <2>4. QED BY <1>8, <2>1, <2>2, <2>3 DEF HiloBien
<1>23. QED BY <1>2, <1>8, <1>19, <1>22, QuietaDatos, QuietaBasta

LEMMA Paso_get_new_space_bloque ==
  ASSUME Bueno, NEW c \in Cliente, get_new_space_bloque(c)
  PROVE  EfectoBien(c) /\ NadaDeMas(c)
<1> DEFINE B == BLOQUE_SIZE
           size == file_size(c)
           s == hilo[c].size
           e == hilo[c].espacio
           mas == hilo[c].resto
           y == Bucle(e, mas - B)
           f == [hilo[c] EXCEPT !.resto = @ - B]
           h == [f EXCEPT !.pc = y]
           n == [nodo[c] EXCEPT !.file_size = @ + B]
           q == size \div B
<1>1. Partida(c) BY Parte
<1>2. /\ hilo[c].pc = "sigue" /\ hilo[c].op = "truncate"
      /\ nodo' = [nodo EXCEPT ![c] = n]
      /\ UNCHANGED <<bitmap, punteros, datos, escrito>>
  BY DEF get_new_space_bloque, En, disco
<1>3. hilo' = [hilo EXCEPT ![c] = h]
  <2>1. hilo' = [hilo EXCEPT ![c] = [hilo[c] EXCEPT !.resto = @ - B, !.pc = y]]
    BY DEF get_new_space_bloque
  <2>2. [hilo[c] EXCEPT !.resto = @ - B, !.pc = y] = h BY <1>1 DEF Partida, Hilos
  <2>3. QED BY <2>1, <2>2
<1>4. /\ s \in Nat /\ e \in Nat /\ mas \in Int /\ size \in Nat /\ nodo[c].file_size = size
      /\ nodo[c].state = 1 /\ B \in Nat \ {0}
      /\ hilo[c] \in Hilos /\ nodo[c] \in Nodos
  <2>1. nodo[c].state \in {0, 1} /\ nodo[c].state # 0
    BY <1>1, <1>2 DEF Partida, Nodos, HiloBien
  <2>2. QED BY <1>1, <2>1, Tamanos DEF Partida, Hilos
<1>5. Alineado(c) /\ Falta(c) BY <1>1, <1>2 DEF Partida, HiloBien
<1>6. /\ s + e = size + mas /\ e \in 1 .. B /\ mas >= e /\ mas % B < e
      /\ size # 0 /\ size % B = 0
  BY <1>5 DEF Alineado, Falta
<1>7. e = B => mas % B # 0 BY <1>5 DEF Falta
<1>8. q \in Nat /\ size = B * q /\ q # 0
  <2>1. q \in Nat /\ size = B * q + (size % B) BY <1>4, DivProps
  <2>2. size = B * q BY <1>4, <1>6, <2>1
  <2>3. q = 0 => size = 0 BY <1>4, <2>2
  <2>4. QED BY <1>6, <2>1, <2>2, <2>3
<1>9. Cuantos(c) = q + 1 BY <1>2, <1>4 DEF Cuantos
<1> HIDE DEF B, size, s, e, mas, q
<1>10. mas \in Nat /\ mas >= B /\ (mas - B) % B = mas % B /\ mas # e
  <2> DEFINE a == mas \div B
             b == mas % B
  <2>1. mas \in Nat BY <1>4, <1>6
  <2>2. a \in Nat /\ b \in Nat /\ b < B /\ mas = B * a + b BY <1>4, <2>1, DivProps
  <2> HIDE DEF a, b
  <2>3. b < e /\ b < mas /\ (e = B => b # 0) BY <1>4, <1>6, <1>7, <2>2 DEF b
  <2>4. a # 0
    <3>1. a = 0 => mas = b BY <1>4, <2>2
    <3>2. QED BY <2>1, <2>2, <2>3, <3>1
  <2>5. a - 1 \in Nat /\ mas = B * (a - 1) + (B + b)
    <3>1. B * (a - 1) = B * a - B BY <1>4, <2>2
    <3> DEFINE x == B * a
               z == B * (a - 1)
    <3>2. x \in Int BY <1>4, <2>2
    <3>3. mas = x + b /\ z = x - B BY <2>2, <3>1
    <3> HIDE DEF x, z
    <3>4. mas = z + (B + b) BY <1>4, <2>2, <3>2, <3>3
    <3>5. QED BY <2>2, <2>4, <3>4 DEF z
  <2>6. mas - B = B * (a - 1) + b
    <3> DEFINE z == B * (a - 1)
    <3>1. z \in Nat /\ mas = z + (B + b) BY <1>4, <2>5
    <3> HIDE DEF z
    <3>2. mas - B = z + b BY <1>4, <2>2, <3>1
    <3>3. QED BY <3>2 DEF z
  <2>7. (B * (a - 1) + b) % B = b BY <1>4, <2>2, <2>5, DivUnico
  <2>8. B * (a - 1) \in Nat BY <1>4, <2>5
  <2>9. mas >= B BY <1>4, <2>1, <2>2, <2>6, <2>8
  <2>10. mas = e => e = B /\ b = 0
    <3>1. ASSUME mas = e PROVE e = B /\ b = 0
      <4>1. mas = B BY <1>4, <1>6, <2>1, <2>9, <3>1
      <4>2. B = B * 1 + 0 /\ 1 \in Nat /\ 0 \in Nat /\ 0 < B BY <1>4
      <4>3. (B * 1 + 0) % B = 0 BY <1>4, <4>2, DivUnico
      <4>4. QED BY <3>1, <4>1, <4>2, <4>3 DEF b
    <3>2. QED BY <3>1
  <2>11. QED BY <2>1, <2>2, <2>3, <2>6, <2>7, <2>9, <2>10 DEF b
<1>11. y = (IF mas - B >= e THEN "toma" ELSE "talla") /\ y \in {"talla", "toma"}
  BY <1>4, <1>10 DEF Bucle
<1> HIDE DEF y
<1>12. /\ h \in Hilos /\ h.pc = y /\ h.op = "truncate" /\ h.size = s /\ h.resto = mas - B
       /\ h.espacio = e
  <2>1. f = [hilo[c] EXCEPT !.resto = mas - B] BY DEF mas
  <2> HIDE DEF f
  <2>2. f \in Hilos /\ f.op = "truncate" /\ f.size = s /\ f.resto = mas - B /\ f.espacio = e
    BY <1>2, <1>4, <2>1 DEF Hilos, s, e
  <2>3. QED BY <1>11, <2>2 DEF Hilos
<1>13. /\ n \in Nodos /\ n.state = 1 /\ n.file_size = size + B
       /\ n.indirect_blocks_array = nodo[c].indirect_blocks_array
  BY <1>4 DEF Nodos
<1> HIDE DEF f, h, n
<1>14. hilo'[c] = h /\ nodo'[c] = n /\ SoloDe(c) /\ TipoDisco'
  BY <1>1, <1>2, <1>3, <1>12, <1>13 DEF Partida, TipoDisco, SoloDe
<1>15. file_size(c)' = size + B BY <1>13, <1>14 DEF file_size
<1>16. /\ size + B = B * (q + 1) + 0 /\ q + 1 \in Nat /\ 0 \in Nat /\ 0 < B
       /\ (size + B) \div B = q + 1 /\ (size + B) % B = 0 /\ size + B # 0
  <2>1. B * (q + 1) = B * q + B BY <1>4, <1>8
  <2>2. size + B = B * (q + 1) + 0 /\ q + 1 \in Nat /\ 0 \in Nat /\ 0 < B
    BY <1>4, <1>8, <2>1
  <2>3. (B * (q + 1) + 0) \div B = q + 1 /\ (B * (q + 1) + 0) % B = 0
    BY <1>4, <2>2, DivUnico
  <2>4. size + B # 0 BY <1>4
  <2> DEFINE z == B * (q + 1) + 0
  <2>5. size + B = z /\ z \div B = q + 1 /\ z % B = 0 BY <2>2, <2>3
  <2> HIDE DEF z
  <2>6. (size + B) \div B = q + 1 /\ (size + B) % B = 0 BY <2>5
  <2>7. QED BY <2>2, <2>4, <2>6
<1>17. mas - B < e => Hacen(s) = q + 1
  <2>1. SUFFICES ASSUME mas - B < e PROVE Hacen(s) = q + 1 OBVIOUS
  <2>2. s = B * q + (mas - e) /\ mas - e \in Nat /\ mas - e < B /\ mas - e # 0
    BY <1>4, <1>6, <1>8, <1>10, <2>1
  <2>3. QED BY <1>8, <2>2, HacenDe DEF B
<1>18. Cuantos(c)' = q + 1
  <2>1. n.state = 1 /\ h.pc = y /\ h.size = s BY <1>12, <1>13
  <2>2. CASE y = "talla"
    <3>1. mas - B < e BY <1>4, <1>10, <1>11, <2>2
    <3>2. QED BY <1>14, <1>17, <2>1, <2>2, <3>1 DEF Cuantos
  <2>3. CASE y = "toma"
    BY <1>14, <1>15, <1>16, <2>1, <2>3 DEF Cuantos, B
  <2>4. QED BY <1>11, <2>2, <2>3
<1>19. Quieta(c) BY <1>2, <1>9, <1>11, <1>12, <1>13, <1>14, <1>18 DEF Quieta, EnMano
<1>20. y = "toma" => Alineado(c)' /\ Falta(c)'
  <2>1. SUFFICES ASSUME y = "toma" PROVE Alineado(c)' /\ Falta(c)' OBVIOUS
  <2>2. mas - B >= e BY <1>11, <2>1
  <2>3. Alineado(c)' BY <1>15, <1>16 DEF Alineado, B
  <2>4. h.size + h.espacio = (size + B) + h.resto BY <1>4, <1>6, <1>12
  <2>5. /\ h.espacio \in 1 .. B /\ h.resto >= h.espacio
        /\ h.resto % B < h.espacio
        /\ (h.espacio = B => h.resto % B # 0)
    BY <1>6, <1>7, <1>10, <1>12, <2>2
  <2>6. Falta(c)' BY <1>14, <1>15, <2>4, <2>5 DEF Falta, B
  <2>7. QED BY <2>3, <2>6
<1>21. escrito'[c] \subseteq 0 .. (size + B - 1)
  <2>1. escrito[c] \subseteq 0 .. (size - 1) BY <1>1 DEF Partida, HiloBien, size
  <2>2. QED BY <1>2, <1>4, <2>1
<1>22. HiloBien(c)'
  <2>1. h.pc \in {"talla", "toma"} /\ h.op = "truncate" /\ n.state = 1
    BY <1>11, <1>12, <1>13
  <2>2. h.pc = "toma" => Alineado(c)' /\ Falta(c)' BY <1>12, <1>20
  <2>3. escrito'[c] \subseteq 0 .. (file_size(c)' - 1) BY <1>4, <1>15, <1>21
  <2>4. QED BY <1>14, <2>1, <2>2, <2>3 DEF HiloBien
<1>23. QED BY <1>2, <1>14, <1>19, <1>22, QuietaDatos, QuietaBasta

LEMMA PierdeProps ==
  ASSUME TipoDisco, NEW c \in Cliente, NEW s \in Nat, Pierde(c, s)
  PROVE  /\ datos' \in [Bloque -> [0 .. (BLOQUE_SIZE - 1) -> Octeto]]
         /\ escrito' \in [Cliente -> SUBSET Nat] /\ escrito'[c] = {x \in escrito[c] : x < s}
         /\ \A d \in Cliente \ {c} : escrito'[d] = escrito[d]
         /\ \A b \in Bloque : \A y \in 0 .. (BLOQUE_SIZE - 1) :
              datos[b][y] # <<>> /\ datos[b][y][1] # c => datos'[b][y] = datos[b][y]
         /\ \A b \in Bloque : \A y \in 0 .. (BLOQUE_SIZE - 1) : \A x \in Nat :
              datos[b][y] = <<c, x>> /\ x < s => datos'[b][y] = <<c, x>>
<1> DEFINE Y == 0 .. (BLOQUE_SIZE - 1)
<1>1. /\ escrito' = [escrito EXCEPT ![c] = {x \in @ : x < s}]
      /\ datos' = [b \in Bloque |-> [x \in DOMAIN datos[b] |->
                    IF datos[b][x] # <<>> /\ datos[b][x][1] = c /\ datos[b][x][2] >= s
                      THEN <<>> ELSE datos[b][x]]]
  BY DEF Pierde
<1> HIDE DEF Y
<1>2. datos \in [Bloque -> [Y -> Octeto]] /\ escrito \in [Cliente -> SUBSET Nat]
  BY DEF TipoDisco, Y
<1>3. \A b \in Bloque : DOMAIN datos[b] = Y /\ \A y \in Y : datos[b][y] \in Octeto BY <1>2
<1>4. \A b \in Bloque : datos'[b] = [x \in Y |->
                    IF datos[b][x] # <<>> /\ datos[b][x][1] = c /\ datos[b][x][2] >= s
                      THEN <<>> ELSE datos[b][x]]
  BY <1>1, <1>3
<1>5. \A b \in Bloque : \A y \in Y : datos'[b][y] =
        IF datos[b][y] # <<>> /\ datos[b][y][1] = c /\ datos[b][y][2] >= s
          THEN <<>> ELSE datos[b][y]
  BY ZenonT(60), <1>4
<1>6. <<>> \in Octeto BY DEF Octeto
<1>7. \A b \in Bloque : datos'[b] \in [Y -> Octeto]
  <2>1. SUFFICES ASSUME NEW b \in Bloque PROVE datos'[b] \in [Y -> Octeto] OBVIOUS
  <2>2. \A y \in Y : datos'[b][y] \in Octeto BY <1>3, <1>5, <1>6
  <2>3. datos'[b] = [y \in Y |-> datos'[b][y]] BY <1>4
  <2>4. QED BY <2>2, <2>3
<1>8. datos' = [b \in Bloque |-> datos'[b]] BY <1>1
<1>9. datos' \in [Bloque -> [Y -> Octeto]] BY <1>7, <1>8
<1>10. \A b \in Bloque : \A y \in Y : \A x \in Nat :
         datos[b][y] = <<c, x>> /\ x < s => datos'[b][y] = <<c, x>>
  <2>1. SUFFICES ASSUME NEW b \in Bloque, NEW y \in Y, NEW x \in Nat,
                        datos[b][y] = <<c, x>>, x < s
                 PROVE  datos'[b][y] = <<c, x>>
    OBVIOUS
  <2>2. datos[b][y][2] = x /\ ~ (x >= s) BY <2>1
  <2>3. QED BY <1>5, <2>1, <2>2
<1>11. /\ escrito'[c] = {x \in escrito[c] : x < s} /\ escrito' \in [Cliente -> SUBSET Nat]
       /\ \A d \in Cliente \ {c} : escrito'[d] = escrito[d]
  BY <1>1, <1>2
<1>12. \A b \in Bloque : \A y \in Y :
         datos[b][y] # <<>> /\ datos[b][y][1] # c => datos'[b][y] = datos[b][y]
  BY <1>5
<1>13. QED BY <1>9, <1>10, <1>11, <1>12 DEF Y

LEMMA Paso_truncar_archivo_fin ==
  ASSUME Bueno, NEW c \in Cliente, truncar_archivo_fin(c)
  PROVE  EfectoBien(c) /\ NadaDeMas(c)
<1> DEFINE s == hilo[c].size
           n == [nodo[c] EXCEPT !.file_size = s]
<1>1. Partida(c) BY Parte
<1>2. /\ hilo[c].pc = "talla" /\ nodo' = [nodo EXCEPT ![c] = n]
      /\ Pierde(c, s) /\ hilo' = [hilo EXCEPT ![c] = Reposo]
      /\ UNCHANGED <<bitmap, punteros>>
  BY DEF truncar_archivo_fin, En, Termina
<1>3. nodo[c].state = 1 BY <1>2, ParteTruncar
<1>4. s \in Nat /\ nodo[c] \in Nodos BY <1>1 DEF Partida, Hilos
<1> HIDE DEF s
<1>5. /\ n \in Nodos /\ n.state = 1 /\ n.file_size = s
      /\ n.indirect_blocks_array = nodo[c].indirect_blocks_array
  BY <1>3, <1>4 DEF Nodos
<1> HIDE DEF n
<1>6. /\ datos' \in [Bloque -> [0 .. (BLOQUE_SIZE - 1) -> Octeto]]
      /\ escrito' \in [Cliente -> SUBSET Nat] /\ escrito'[c] = {x \in escrito[c] : x < s}
      /\ \A d \in Cliente \ {c} : escrito'[d] = escrito[d]
      /\ \A b \in Bloque : \A y \in 0 .. (BLOQUE_SIZE - 1) :
           datos[b][y] # <<>> /\ datos[b][y][1] # c => datos'[b][y] = datos[b][y]
      /\ \A b \in Bloque : \A y \in 0 .. (BLOQUE_SIZE - 1) : \A x \in Nat :
           datos[b][y] = <<c, x>> /\ x < s => datos'[b][y] = <<c, x>>
  <2>1. TipoDisco BY <1>1 DEF Partida
  <2>2. QED BY <1>2, <1>4, <2>1, PierdeProps
<1>7. hilo'[c] = Reposo /\ nodo'[c] = n /\ SoloDe(c) /\ TipoDisco'
  BY <1>1, <1>2, <1>5, <1>6, ReposoTipo DEF Partida, TipoDisco, SoloDe
<1>8. file_size(c)' = s BY <1>5, <1>7 DEF file_size
<1>9. Cuantos(c) = Hacen(s) /\ Cuantos(c)' = Hacen(s)
  <2>1. Cuantos(c) = Hacen(s) BY <1>2, <1>3 DEF Cuantos, s
  <2>2. Cuantos(c)' = Hacen(s) BY <1>5, <1>7, <1>8, ReposoTipo DEF Cuantos
  <2>3. QED BY <2>1, <2>2
<1>10. Quieta(c) BY <1>2, <1>5, <1>7, <1>9, ReposoTipo DEF Quieta, EnMano
<1>11. DatosAjenos(c) BY <1>1, <1>6 DEF DatosAjenos, Partida, TipoDisco
<1>12. Fiel(c)'
  <2>1. /\ Ind(c)' = Ind(c)
        /\ \A k : PunB(c, k)' = PunB(c, k) /\ DatB(c, k)' = DatB(c, k)
    BY <1>10, QuietaProps
  <2>2. SUFFICES ASSUME NEW x \in escrito'[c], x \div BLOQUE_SIZE \in Ind(c)
                 PROVE  datos'[DatB(c, x \div BLOQUE_SIZE)][x % BLOQUE_SIZE] = <<c, x>>
    BY <2>1 DEF Fiel
  <2>3. x \in escrito[c] /\ x < s BY <1>6
  <2>4. x \in Nat BY <1>1, <2>3 DEF Partida, TipoDisco
  <2>5. datos[DatB(c, x \div BLOQUE_SIZE)][x % BLOQUE_SIZE] = <<c, x>>
    BY <1>1, <2>2, <2>3 DEF Partida, Fiel
  <2>6. DatB(c, x \div BLOQUE_SIZE) \in Bloque BY <1>1, <2>2 DEF Partida, Entero
  <2>7. x % BLOQUE_SIZE \in 0 .. (BLOQUE_SIZE - 1) BY <2>4, Tamanos
  <2>8. QED BY <1>6, <2>3, <2>4, <2>5, <2>6, <2>7
<1>13. HiloBien(c)'
  <2>1. escrito'[c] \subseteq 0 .. (s - 1)
    <3>1. escrito[c] \subseteq Nat BY <1>1 DEF Partida, TipoDisco
    <3>2. QED BY <1>4, <1>6, <3>1
  <2>2. escrito'[c] \subseteq 0 .. (file_size(c)' - 1) BY <1>4, <1>8, <2>1
  <2>3. QED BY <1>5, <1>7, <2>2, ReposoTipo DEF HiloBien
<1>14. QED BY <1>7, <1>10, <1>11, <1>12, <1>13, QuietaBasta

\* A file without blocks.
LEMMA SinBloques ==
  ASSUME NEW c \in Cliente, nodo'[c].state = 0, hilo'[c].pc \in {"listo", "crea"}
  PROVE  Suyos(c)' = {} /\ Entero(c)' /\ Fiel(c)'
<1>1. Cuantos(c)' = 0 BY DEF Cuantos
<1>2. Ind(c)' = {} BY <1>1 DEF Ind
<1>3. EnMano(c)' = {} BY DEF EnMano
<1>4. QED BY <1>2, <1>3 DEF Suyos, Entero, Fiel

LEMMA Paso_borrar_archivo ==
  ASSUME Bueno, NEW c \in Cliente, borrar_archivo(c)
  PROVE  EfectoBien(c) /\ ("vacio" \notin Extremos => NadaDeMas(c))
<1>1. Partida(c) BY Parte
<1>2. /\ hilo[c].pc = "listo" /\ nodo[c].state = 1 /\ UNCHANGED <<bitmap, punteros>>
      /\ hilo[c] = Reposo /\ nodo[c] \in Nodos
  BY <1>1 DEF borrar_archivo, En, Partida, HiloBien
<1>3. CASE /\ file_size(c) = 0 /\ "vacio" \in Extremos
           /\ BorraNodo(c) /\ UNCHANGED hilo
  <2> DEFINE n == [nodo[c] EXCEPT !.state = 0, !.file_size = 0]
  <2>1. nodo' = [nodo EXCEPT ![c] = n] /\ Pierde(c, 0) BY <1>3 DEF BorraNodo
  <2>2. n \in Nodos /\ n.state = 0 /\ n.file_size = 0 BY <1>2 DEF Nodos
  <2> HIDE DEF n
  <2>3. /\ datos' \in [Bloque -> [0 .. (BLOQUE_SIZE - 1) -> Octeto]]
        /\ escrito' \in [Cliente -> SUBSET Nat] /\ escrito'[c] = {x \in escrito[c] : x < 0}
        /\ \A d \in Cliente \ {c} : escrito'[d] = escrito[d]
        /\ \A b \in Bloque : \A y \in 0 .. (BLOQUE_SIZE - 1) :
             datos[b][y] # <<>> /\ datos[b][y][1] # c => datos'[b][y] = datos[b][y]
    <3>1. TipoDisco /\ 0 \in Nat BY <1>1 DEF Partida
    <3>2. QED BY <2>1, <3>1, PierdeProps
  <2>4. hilo'[c] = Reposo /\ nodo'[c] = n /\ SoloDe(c) /\ TipoDisco'
    BY <1>1, <1>2, <1>3, <2>1, <2>2, <2>3 DEF Partida, TipoDisco, SoloDe
  <2>5. escrito'[c] = {}
    <3>1. escrito[c] \subseteq Nat BY <1>1 DEF Partida, TipoDisco
    <3>2. QED BY <2>3, <3>1
  <2>6. HiloBien(c)' BY <2>2, <2>4, <2>5, ReposoTipo DEF HiloBien, file_size
  <2>7. Suyos(c)' = {} /\ Entero(c)' /\ Fiel(c)' BY <2>2, <2>4, ReposoTipo, SinBloques
  <2>8. DatosAjenos(c) BY <1>1, <2>3 DEF DatosAjenos, Partida, TipoDisco
  <2>9. Efecto(c) BY <1>2, <2>4, <2>7, <2>8 DEF Efecto, SoloDe, DatosAjenos
  <2>10. QED BY <1>3, <2>4, <2>6, <2>7, <2>9 DEF EfectoBien
<1>4. CASE /\ file_size(c) # 0
           /\ hilo' = [hilo EXCEPT ![c] = [Reposo EXCEPT !.op = "unlink", !.pc = "borra"]]
           /\ UNCHANGED <<nodo, escrito, datos>>
  <2> DEFINE h == [Reposo EXCEPT !.op = "unlink", !.pc = "borra"]
  <2>1. hilo' = [hilo EXCEPT ![c] = h] BY <1>4
  <2>2. h \in Hilos /\ h.pc = "borra" BY ReposoTipo DEF Hilos
  <2> HIDE DEF h
  <2>3. hilo'[c] = h /\ SoloDe(c) /\ TipoDisco'
    BY <1>1, <1>2, <1>4, <2>1, <2>2 DEF Partida, TipoDisco, SoloDe
  <2>4. Quieta(c) BY <1>2, <1>4, <2>2, <2>3 DEF Quieta, EnMano, Cuantos, file_size
  <2>5. HiloBien(c)'
    BY <1>1, <1>2, <1>4, <2>2, <2>3 DEF HiloBien, Partida, file_size
  <2>6. QED BY <1>4, <2>3, <2>4, <2>5, QuietaDatos, QuietaBasta
<1>5. QED BY <1>3, <1>4 DEF borrar_archivo

-----------------------------------------------------------------------------
(* escribir_archivo                                                        *)

\* The bytes of a turn of the loop, when they fit in the block of their offset.
Copia(c, b, desde, off, n) ==
  /\ datos' = [datos EXCEPT ![b] = [x \in DOMAIN @ |->
                 IF x \in desde .. (desde + n - 1) THEN <<c, off + x - desde>> ELSE @[x]]]
  /\ escrito' = [escrito EXCEPT ![c] = @ \cup (off .. (off + n - 1))]
LEMMA EscribeDatos ==
  ASSUME Bueno, NEW c \in Cliente, NEW off \in Nat, NEW n \in Nat \ {0}, NEW b \in Bloque,
         off \div BLOQUE_SIZE \in Ind(c), b = DatB(c, off \div BLOQUE_SIZE),
         (off % BLOQUE_SIZE) + n <= BLOQUE_SIZE,
         NEW desde \in Nat, desde = off % BLOQUE_SIZE, Quieta(c),
         Copia(c, b, desde, off, n)
  PROVE  /\ datos' \in [Bloque -> [0 .. (BLOQUE_SIZE - 1) -> Octeto]]
         /\ escrito' \in [Cliente -> SUBSET Nat]
         /\ DatosAjenos(c) /\ Fiel(c)'
<1> DEFINE B == BLOQUE_SIZE
           Y == 0 .. (B - 1)
           k == off \div B
<1>0. B \in Nat \ {0} BY Tamanos
<1>1. k \in Nat /\ desde < B /\ off = B * k + desde /\ k \in Ind(c) /\ b = DatB(c, k)
      /\ desde + n <= B
  BY <1>0, DivProps
<1>2. Partida(c) BY Parte
<1>3. /\ datos \in [Bloque -> [Y -> Octeto]] /\ escrito \in [Cliente -> SUBSET Nat]
  BY <1>2 DEF Partida, TipoDisco
<1> HIDE DEF k
<1>4. datos[b] \in [Y -> Octeto] /\ DOMAIN datos[b] = Y BY <1>3
<1> DEFINE nuevo == [x \in Y |-> IF x \in desde .. (desde + n - 1) THEN <<c, off + x - desde>>
                                 ELSE datos[b][x]]
<1>5. datos' = [datos EXCEPT ![b] = nuevo] BY <1>3, <1>4 DEF Copia
<1>6. /\ \A x \in Y : x \in desde .. (desde + n - 1) => nuevo[x] = <<c, off + x - desde>>
      /\ \A x \in Y : x \notin desde .. (desde + n - 1) => nuevo[x] = datos[b][x]
  OBVIOUS
<1>7. nuevo \in [Y -> Octeto]
  <2>1. SUFFICES ASSUME NEW x \in Y PROVE nuevo[x] \in Octeto OBVIOUS
  <2>2. CASE x \in desde .. (desde + n - 1)
    <3>1. off + x - desde \in Nat BY <1>0, <2>2
    <3> DEFINE v == off + x - desde
    <3>2. nuevo[x] = <<c, v>> /\ v \in Nat BY <1>6, <2>2, <3>1
    <3> HIDE DEF v, nuevo
    <3>3. QED BY <3>2 DEF Octeto
  <2>3. CASE x \notin desde .. (desde + n - 1)
    BY <1>4, <1>6, <2>3
  <2>4. QED BY <2>2, <2>3
<1> HIDE DEF nuevo
<1>8. datos'[b] = nuevo /\ \A d \in Bloque : d # b => datos'[d] = datos[d] BY <1>3, <1>5
<1>9. datos' \in [Bloque -> [Y -> Octeto]] BY <1>3, <1>5, <1>7
<1>10. /\ escrito'[c] = escrito[c] \cup (off .. (off + n - 1))
       /\ escrito' \in [Cliente -> SUBSET Nat]
  <2>1. off .. (off + n - 1) \subseteq Nat OBVIOUS
  <2>2. QED BY <1>3, <2>1 DEF Copia
<1>11. DatosAjenos(c)
  <2>1. Cuantos(c) \in Nat /\ bitmap \subseteq Bloque BY <1>2 DEF Partida, TipoDisco
  <2>2. b \in Suyos(c) BY <1>1, <2>1, IndProps
  <2>3. QED BY <1>8, <2>1, <2>2 DEF DatosAjenos
<1>12. Fiel(c)'
  <2>1. /\ Ind(c)' = Ind(c)
        /\ \A i : PunB(c, i)' = PunB(c, i) /\ DatB(c, i)' = DatB(c, i)
    BY QuietaProps
  <2>2. SUFFICES ASSUME NEW x \in escrito'[c], x \div B \in Ind(c)
                 PROVE  datos'[DatB(c, x \div B)][x % B] = <<c, x>>
    BY <2>1 DEF Fiel
  <2>3. x \in Nat BY <1>10
  <2> DEFINE j == x \div B
             y == x % B
  <2>4. j \in Nat /\ y \in Y /\ y \in Nat /\ y < B /\ x = B * j + y
    BY <1>0, <2>3, DivProps
  <2>5. CASE x \in off .. (off + n - 1)
    <3> DEFINE t == x - off
               z == B * k
    <3>1. t \in Nat /\ t < n /\ x = off + t BY <2>3, <2>5
    <3>2. z \in Nat /\ off = z + desde BY <1>0, <1>1
    <3> HIDE DEF t, z
    <3>3. x = z + (desde + t) /\ desde + t \in Nat /\ desde + t < B
      BY <1>0, <1>1, <3>1, <3>2
    <3>4. (B * k + (desde + t)) \div B = k /\ (B * k + (desde + t)) % B = desde + t
      BY <1>0, <1>1, <3>3, DivUnico
    <3>5. x = B * k + (desde + t) BY <3>3 DEF z
    <3>6. j = k /\ y = desde + t BY <3>4, <3>5
    <3>7. desde + t \in desde .. (desde + n - 1) /\ off + (desde + t) - desde = x
      BY <3>1
    <3> HIDE DEF j, y
    <3>8. datos'[b][y] = <<c, off + y - desde>> BY <1>6, <1>8, <2>4, <3>6, <3>7
    <3>9. datos'[DatB(c, j)][y] = <<c, x>> BY <1>1, <3>6, <3>7, <3>8
    <3>10. QED BY <3>9 DEF j, y
  <2>6. CASE x \notin off .. (off + n - 1)
    <3>1. x \in escrito[c] BY <1>10, <2>6
    <3>2. datos[DatB(c, j)][y] = <<c, x>> BY <1>2, <2>2, <3>1 DEF Partida, Fiel
    <3>3. j \in Ind(c) BY <2>2
    <3>4. CASE j = k
      <4>1. y \notin desde .. (desde + n - 1)
        <5> DEFINE z == B * k
        <5> HIDE DEF y, j
        <5>1. z \in Nat /\ off = z + desde /\ x = z + y BY <1>0, <1>1, <2>4, <3>4
        <5> HIDE DEF z
        <5>2. QED BY <2>3, <2>4, <2>6, <5>1
      <4> HIDE DEF j, y
      <4>2. datos'[b][y] = <<c, x>> BY <1>1, <1>6, <1>8, <2>4, <3>2, <3>4, <4>1
      <4>3. datos'[DatB(c, j)][y] = <<c, x>> BY <1>1, <3>4, <4>2
      <4>4. QED BY <4>3 DEF j, y
    <3>5. CASE j # k
      <4> HIDE DEF j, y
      <4>1. DatB(c, j) # b /\ DatB(c, j) \in Bloque
        BY <1>1, <1>2, <3>3, <3>5 DEF Partida, Entero
      <4>2. datos'[DatB(c, j)][y] = <<c, x>> BY <1>8, <3>2, <4>1
      <4>3. QED BY <4>2 DEF j, y
    <3>6. QED BY <3>4, <3>5
  <2>7. QED BY <2>5, <2>6
<1>13. QED BY <1>9, <1>10, <1>11, <1>12

\* A turn of the loop that does not change the number of blocks of the file.
LEMMA EscribeBien ==
  ASSUME Bueno, NEW c \in Cliente, NEW h \in Hilos, NEW b \in Bloque, NEW room \in Nat,
         Escribe(c, h, b, room), UNCHANGED <<bitmap, punteros>>,
         nodo[c].state = 1, hilo[c].pc \in {"listo", "sigue"}, h.op = "write",
         NEW n \in Nat \ {0}, NEW z \in Nat,
         n = (IF h.tam >= BLOQUE_SIZE THEN BLOQUE_SIZE ELSE Min({h.tam, room})), n <= h.tam,
         z = (CASE h.tam >= BLOQUE_SIZE -> IF file_size(c) <= h.off THEN file_size(c) + n ELSE file_size(c)
                [] h.tam < BLOQUE_SIZE /\ h.tam <= room -> crece(file_size(c), h.off, n)
                [] OTHER -> file_size(c) + n),
         h.en_bloque = h.off % BLOQUE_SIZE, h.tam >= BLOQUE_SIZE => h.en_bloque = 0,
         h.off \div BLOQUE_SIZE \in Ind(c), b = DatB(c, h.off \div BLOQUE_SIZE),
         h.en_bloque + n <= BLOQUE_SIZE, file_size(c) <= z, h.off + n <= z,
         n = h.tam => Cuantos(c) = Hacen(z),
         n # h.tam => z # 0 /\ z % BLOQUE_SIZE = 0 /\ z = h.off + n /\ Cuantos(c) = z \div BLOQUE_SIZE
  PROVE  EfectoBien(c) /\ NadaDeMas(c)
<1> DEFINE size == file_size(c)
           B == BLOQUE_SIZE
           desde == IF h.tam >= BLOQUE_SIZE THEN 0 ELSE h.en_bloque
           v == [nodo[c] EXCEPT !.file_size = z]
           g == IF n = h.tam THEN Reposo
                ELSE [h EXCEPT !.pc = "bucle", !.off = @ + n, !.tam = @ - n, !.en_bloque = 0]
<1>1. Partida(c) /\ h.off \in Nat /\ h.tam \in Nat /\ h.en_bloque \in Nat BY Parte DEF Hilos
<1>2. desde = h.off % BLOQUE_SIZE /\ desde \in Nat BY <1>1
<1>3. Copia(c, b, desde, h.off, n) /\ nodo' = [nodo EXCEPT ![c] = v] /\ hilo' = [hilo EXCEPT ![c] = g]
  <2> DEFINE m == IF h.tam >= BLOQUE_SIZE THEN BLOQUE_SIZE ELSE Min({h.tam, room})
             w == CASE h.tam >= BLOQUE_SIZE -> IF size <= h.off THEN size + m ELSE size
                    [] h.tam < BLOQUE_SIZE /\ h.tam <= room -> crece(size, h.off, m)
                    [] OTHER -> size + m
  <2>1. /\ datos' = [datos EXCEPT ![b] = [x \in DOMAIN @ |->
                 IF x \in desde .. (desde + m - 1) THEN <<c, h.off + x - desde>> ELSE @[x]]]
        /\ nodo' = [nodo EXCEPT ![c].file_size = w]
        /\ escrito' = [escrito EXCEPT ![c] = @ \cup (h.off .. (h.off + m - 1))]
    BY ZenonT(20) DEF Escribe
  <2>2. m = n OBVIOUS
  <2>3. w = z OBVIOUS
  <2>4. IF m = h.tam THEN Termina(c)
        ELSE hilo' = [hilo EXCEPT ![c] = [h EXCEPT !.pc = "bucle", !.off = @ + m,
                                                   !.tam = @ - m, !.en_bloque = 0]]
    BY ZenonT(20) DEF Escribe
  <2> HIDE DEF m, w, desde
  <2>5. hilo' = [hilo EXCEPT ![c] = g] BY <2>2, <2>4 DEF Termina
  <2>6. QED BY <2>1, <2>2, <2>3, <2>5 DEF Copia
<1> HIDE DEF desde
<1>4. /\ v \in Nodos /\ v.state = 1 /\ v.file_size = z
      /\ v.indirect_blocks_array = nodo[c].indirect_blocks_array
  BY <1>1 DEF Partida, Nodos
<1>5. /\ g \in Hilos
      /\ n = h.tam => g = Reposo
      /\ n # h.tam => /\ g.pc = "bucle" /\ g.op = "write" /\ g.off = h.off + n
                      /\ g.tam > 0 /\ g.en_bloque = 0
  <2>1. CASE n = h.tam BY <2>1, ReposoTipo
  <2>2. CASE n # h.tam
    <3> DEFINE o == h.off + n
               t == h.tam - n
               f == [h EXCEPT !.pc = "bucle", !.off = o, !.tam = t, !.en_bloque = 0]
    <3>1. o \in Nat /\ t \in Nat /\ t > 0
      <4> DEFINE a == h.tam
      <4>1. a \in Nat /\ n <= a /\ n # a /\ h.off \in Nat BY <1>1, <2>2
      <4>2. t = a - n /\ o = h.off + n OBVIOUS
      <4> DEFINE x == h.off
      <4>3. o = x + n /\ x \in Nat BY <4>1, <4>2
      <4> HIDE DEF a, t, o, x
      <4>4. t \in Nat /\ t > 0 BY <4>1, <4>2
      <4>5. o \in Nat BY <4>3
      <4>6. QED BY <4>4, <4>5
    <3>2. g = f BY <2>2
    <3> HIDE DEF o, t, g
    <3>3. f \in Hilos /\ f.pc = "bucle" /\ f.op = "write" /\ f.off = o /\ f.tam = t /\ f.en_bloque = 0
      BY <3>1 DEF Hilos
    <3> HIDE DEF f
    <3>4. QED BY <2>2, <3>1, <3>2, <3>3 DEF o
  <2>3. QED BY <2>1, <2>2
<1> HIDE DEF v, g
<1>6. hilo'[c] = g /\ nodo'[c] = v BY <1>1, <1>3 DEF Partida, TipoDisco
<1>7. file_size(c)' = z BY <1>4, <1>6 DEF file_size
<1>8. Cuantos(c)' = Cuantos(c)
  <2>1. CASE n = h.tam BY <1>4, <1>5, <1>6, <1>7, <2>1, ReposoTipo DEF Cuantos
  <2>2. CASE n # h.tam
    <3>1. Cuantos(c)' = z \div BLOQUE_SIZE BY <1>4, <1>5, <1>6, <1>7, <2>2 DEF Cuantos
    <3>2. QED BY <2>2, <3>1
  <2>3. QED BY <2>1, <2>2
<1>9. g.pc \in {"listo", "bucle"} BY <1>5, ReposoTipo
<1>10. Quieta(c) BY <1>4, <1>6, <1>8, <1>9 DEF Quieta, EnMano
<1>11. /\ datos' \in [Bloque -> [0 .. (BLOQUE_SIZE - 1) -> Octeto]]
       /\ escrito' \in [Cliente -> SUBSET Nat]
       /\ DatosAjenos(c) /\ Fiel(c)'
  <2> DEFINE o == h.off
  <2>1. o \in Nat /\ desde = o % BLOQUE_SIZE /\ (o % BLOQUE_SIZE) + n <= BLOQUE_SIZE
        /\ o \div BLOQUE_SIZE \in Ind(c) /\ b = DatB(c, o \div BLOQUE_SIZE)
    BY <1>1, <1>2
  <2>2. Copia(c, b, desde, o, n) BY <1>3
  <2> HIDE DEF o
  <2>3. QED BY <1>2, <1>10, <2>1, <2>2, EscribeDatos
<1>12. SoloDe(c) /\ TipoDisco'
  <2>1. SoloDe(c) BY <1>3 DEF SoloDe, Copia
  <2>2. nodo' \in [Cliente -> Nodos] /\ hilo' \in [Cliente -> Hilos]
    BY <1>1, <1>3, <1>4, <1>5 DEF Partida, TipoDisco
  <2>3. bitmap' \subseteq Bloque /\ punteros' \in [Bloque -> [Entrada -> Int]]
    BY <1>1 DEF Partida, TipoDisco
  <2>4. QED BY <1>11, <2>1, <2>2, <2>3 DEF TipoDisco
<1>13. HiloBien(c)'
  <2>1. escrito'[c] \subseteq 0 .. (z - 1)
    <3>1. escrito[c] \subseteq 0 .. (size - 1) BY <1>1 DEF Partida, HiloBien
    <3>2. escrito'[c] = escrito[c] \cup (h.off .. (h.off + n - 1))
      BY <1>1, <1>3 DEF Partida, TipoDisco, Copia
    <3>3. size \in Nat BY <1>1 DEF Partida
    <3> DEFINE o == h.off
    <3>4. o \in Nat /\ o + n <= z BY <1>1
    <3> HIDE DEF size, o
    <3>5. 0 .. (size - 1) \subseteq 0 .. (z - 1)
      <4>1. size <= z BY DEF size
      <4>2. QED BY <3>3, <4>1
    <3>6. o .. (o + n - 1) \subseteq 0 .. (z - 1) BY <3>4
    <3>7. QED BY <3>1, <3>2, <3>5, <3>6 DEF o
  <2>2. escrito'[c] \subseteq 0 .. (file_size(c)' - 1) BY <1>7, <2>1
  <2>3. CASE n = h.tam
    BY <1>4, <1>5, <1>6, <2>2, <2>3, ReposoTipo DEF HiloBien
  <2>4. CASE n # h.tam
    <3>1. AlFinal(c)' BY <1>1, <1>5, <1>6, <1>7, <2>4 DEF AlFinal, Alineado
    <3>2. QED BY <1>4, <1>5, <1>6, <2>2, <2>4, <3>1 DEF HiloBien
  <2>5. QED BY <2>3, <2>4
<1>14. QED BY <1>10, <1>11, <1>12, <1>13, QuietaBasta

\* The turn that a write begins with fits in the block of its offset.
Vuelta(size, tam) == IF tam >= BLOQUE_SIZE THEN BLOQUE_SIZE ELSE Min({tam, space_in_block(size)})
Queda(size, off, tam) ==
  LET n == Vuelta(size, tam)
  IN  CASE tam >= BLOQUE_SIZE -> IF size <= off THEN size + n ELSE size
        [] tam < BLOQUE_SIZE /\ tam <= space_in_block(size) -> crece(size, off, n)
        [] OTHER -> size + n
LEMMA EscribeMide ==
  ASSUME NEW size \in Nat, NEW off \in Nat, off <= size, NEW tam \in Nat \ {0},
         EscrituraEvitada(off, tam, size) = {},
         (off % BLOQUE_SIZE) + tam <= BLOQUE_SIZE \/ (off % BLOQUE_SIZE = 0 /\ off = size),
         size = 0 \/ off < size + space_in_block(size),
         NEW n, n = Vuelta(size, tam), NEW z, z = Queda(size, off, tam)
  PROVE  /\ n \in Nat \ {0} /\ n <= tam /\ z \in Nat /\ space_in_block(size) \in Nat
         /\ off \div BLOQUE_SIZE \in Nat /\ off \div BLOQUE_SIZE < Hacen(size)
         /\ (off % BLOQUE_SIZE) + n <= BLOQUE_SIZE
         /\ tam >= BLOQUE_SIZE => off % BLOQUE_SIZE = 0
         /\ size <= z /\ off + n <= z
         /\ n = tam => Hacen(size) = Hacen(z)
         /\ n # tam => size = 0 /\ off = 0 /\ n = BLOQUE_SIZE /\ z = BLOQUE_SIZE
<1> DEFINE B == BLOQUE_SIZE
           room == space_in_block(size)
           q == size \div B
           r == size % B
           k == off \div B
           d == off % B
<1> SUFFICES /\ n \in Nat \ {0} /\ n <= tam /\ z \in Nat /\ room \in Nat
             /\ k \in Nat /\ k < Hacen(size) /\ d + n <= B
             /\ tam >= B => d = 0
             /\ size <= z /\ off + n <= z
             /\ n = tam => Hacen(size) = Hacen(z)
             /\ n # tam => size = 0 /\ off = 0 /\ n = B /\ z = B
  OBVIOUS
<1>0. B \in Nat \ {0} BY Tamanos
<1>1. /\ q \in Nat /\ r \in Nat /\ r < B /\ size = B * q + r
      /\ k \in Nat /\ d \in Nat /\ d < B /\ off = B * k + d
  BY <1>0, DivProps
<1>2. Hacen(size) = (IF size = 0 THEN 1 ELSE IF r = 0 THEN q ELSE q + 1)
  BY HacenProps
<1>3. /\ d + tam <= B \/ (d = 0 /\ off = size)
      /\ size = 0 \/ off < size + room
      /\ n = (IF tam >= B THEN B ELSE Min({tam, room}))
      /\ z = (CASE tam >= B -> IF size <= off THEN size + n ELSE size
                [] tam < B /\ tam <= room -> crece(size, off, n)
                [] OTHER -> size + n)
  BY DEF Vuelta, Queda
<1>4. /\ ~ (off < size /\ tam < B /\ tam > room)
      /\ ~ (off < size /\ tam = B /\ off + tam > size)
  BY DEF EscrituraEvitada
<1>5. room = (IF size = 0 THEN B ELSE IF r = 0 THEN 0 ELSE B - r)
  <2>1. room = (IF size = 0 THEN B ELSE (B - r) % B) BY DEF space_in_block
  <2>2. r = 0 => (B - r) % B = 0 BY <1>0
  <2>3. r # 0 => (B - r) % B = B - r
    <3> HIDE DEF r, B, q, k, d, room
    <3>1. r # 0 => B - r \in 1 .. (B - 1) BY <1>0, <1>1
    <3> DEFINE x == B - r
    <3> HIDE DEF x
    <3>2. \A y \in 1 .. (B - 1) : y % B = y
      <4>1. B \in Nat \ {0} BY <1>0
      <4>2. QED BY <4>1
    <3>3. QED BY <3>1, <3>2
  <2>4. QED BY <2>1, <2>2, <2>3
<1>6. k <= q BY <1>0 DEF k, q
<1>7. size = 0 => q = 0 /\ r = 0 /\ k = 0 /\ d = 0 /\ off = 0 BY Tamanos
<1>8. room \in Nat
  <2>1. B - r \in Nat
    <3>1. r \in Nat /\ r < B BY <1>1
    <3> HIDE DEF r, B, q, k, d, room
    <3>2. QED BY <1>0, <3>1
  <2> HIDE DEF room, q, r, B
  <2>2. QED BY <1>0, <1>5, <2>1
<1> HIDE DEF B, room, q, r, k, d
\* The new end of a file whose last block has room.
<1>9. ASSUME NEW x \in Nat, size <= x, x <= size + room, r # 0
      PROVE  Hacen(x) = q + 1
  <2> DEFINE y == B * q
             t == x - size
  <2>1. y \in Nat /\ size = y + r BY <1>0, <1>1
  <2>2. t \in Nat /\ t <= room /\ x = size + t BY <1>8, <1>9
  <2> HIDE DEF y, t
  <2>10. size # 0 BY <1>1, <1>9, <2>1
  <2>11. room = B - r BY <1>5, <1>9, <2>10
  <2>3. x = y + (r + t) /\ r + t \in Nat /\ r + t <= B /\ r + t # 0
    BY <1>0, <1>1, <1>9, <2>1, <2>2, <2>11
  <2>4. CASE r + t < B
    <3>1. x = B * q + (r + t) BY <2>3 DEF y
    <3>2. Hacen(B * q + (r + t)) = q + 1 BY <1>1, <2>3, <2>4, HacenDe DEF B
    <3>3. QED BY <3>1, <3>2
  <2>5. CASE r + t = B
    <3>1. x = B * (q + 1) + 0
      <4>1. B * (q + 1) = B * q + B BY <1>0, <1>1
      <4>2. x = y + B BY <2>3, <2>5
      <4>3. QED BY <1>0, <1>1, <4>1, <4>2 DEF y
    <3>2. q + 1 \in Nat /\ 0 \in Nat /\ 0 < B /\ q + 1 # 0 BY <1>0, <1>1
    <3>3. Hacen(B * (q + 1) + 0) = q + 1 BY <3>2, HacenDe DEF B
    <3>4. QED BY <3>1, <3>3
  <2>6. QED BY <1>0, <1>1, <2>3, <2>4, <2>5
<1>10. CASE size = 0
  <2>1. room = B /\ q = 0 /\ r = 0 /\ k = 0 /\ d = 0 /\ off = 0 /\ Hacen(size) = 1
    BY <1>2, <1>5, <1>7, <1>10
  <2>2. n = (IF tam >= B THEN B ELSE tam)
    <3> DEFINE m == Min({tam, room})
    <3>0. tam \in Int /\ room \in Int /\ (tam < B => tam <= room) BY <1>0, <2>1
    <3>3. m = IF tam <= room THEN tam ELSE room BY <3>0, MaxDos
    <3> HIDE DEF m
    <3>1. tam < B => m = tam BY <3>0, <3>3
    <3> USE DEF m
    <3>2. QED BY <1>0, <1>3, <3>1
  <2>3. z = n
    <3>1. n \in Nat BY <1>0, <2>2
    <3>2. crece(size, off, n) = n BY <1>10, <2>1, <3>1 DEF crece
    <3>3. tam < B => tam <= room BY <1>0, <2>1
    <3>4. size <= off /\ size + n = n BY <1>10, <2>1, <3>1
    <3>5. QED BY <1>0, <1>3, <3>2, <3>3, <3>4
  <2>4. n \in Nat \ {0} /\ n <= tam /\ n <= B BY <1>0, <2>2
  <2>5. Hacen(n) = 1
    <3>1. CASE n < B
      <4>1. n = B * 0 + n /\ 0 \in Nat BY <1>0, <2>4
      <4>2. Hacen(B * 0 + n) = 1 BY <2>4, <3>1, <4>1, HacenDe DEF B
      <4>3. QED BY <4>1, <4>2
    <3>2. CASE n = B
      <4>1. n = B * 1 + 0 /\ 1 \in Nat /\ 0 \in Nat /\ 0 < B BY <1>0, <3>2
      <4>2. Hacen(B * 1 + 0) = 1 BY <4>1, HacenDe DEF B
      <4>3. QED BY <4>1, <4>2
    <3>3. QED BY <1>0, <2>4, <3>1, <3>2
  <2>6. n # tam => n = B BY <2>2
  <2>7. off + n <= z /\ d + n <= B /\ size <= z /\ k < Hacen(size)
    BY <1>0, <1>10, <2>1, <2>3, <2>4
  <2>8. QED BY <1>1, <1>8, <1>10, <2>1, <2>3, <2>4, <2>5, <2>6, <2>7
<1>11. CASE size # 0 /\ r = 0
  <2>1. room = 0 /\ off < size BY <1>3, <1>5, <1>11
  <2>2. d + tam <= B BY <1>3, <2>1
  <2>3. tam = B /\ d = 0 /\ off + B <= size
    <3>1. tam >= B BY <1>0, <1>4, <2>1
    <3>2. tam = B /\ d = 0 BY <1>0, <1>1, <2>2, <3>1
    <3>3. QED BY <1>4, <2>1, <3>2
  <2>4. n = B /\ z = size BY <1>0, <1>3, <2>1, <2>3
  <2>5. k < q
    <3> DEFINE x == B * k
               y == B * q
    <3>1. x + B <= y
      <4>1. x \in Nat /\ y \in Nat /\ off = x + d /\ size = y + r BY <1>0, <1>1
      <4> HIDE DEF x, y
      <4>2. QED BY <1>0, <1>11, <2>3, <4>1
    <3>2. k = q => x = y OBVIOUS
    <3>3. x \in Nat /\ y \in Nat BY <1>0, <1>1
    <3> HIDE DEF x, y
    <3>4. k # q BY <1>0, <3>1, <3>2, <3>3
    <3>5. QED BY <1>1, <1>6, <3>4
  <2>6. QED BY <1>0, <1>1, <1>2, <1>8, <1>11, <2>3, <2>4, <2>5
<1>12. CASE size # 0 /\ r # 0
  <2>1. Hacen(size) = q + 1 /\ k < q + 1 BY <1>1, <1>2, <1>6, <1>12
  <2>9. off = size => d = r BY DEF d, r
  <2>2. d + tam <= B BY <1>3, <1>12, <2>9
  <2>3. CASE tam >= B
    <3>1. tam = B /\ d = 0 BY <1>0, <1>1, <2>2, <2>3
    <3>2. off # size BY <1>12, <2>9, <3>1
    <3>3. off < size /\ off + B <= size BY <1>4, <3>1, <3>2
    <3>4. n = B /\ z = size BY <1>0, <1>3, <3>1, <3>3
    <3>5. QED BY <1>0, <1>1, <1>8, <1>12, <2>1, <3>1, <3>3, <3>4
  <2>4. CASE tam < B
    <3>1. tam <= room /\ off + tam <= size + room
      <4>1. CASE off < size
        <5>1. tam <= room BY <1>4, <1>8, <2>4, <4>1
        <5>2. QED BY <1>8, <4>1, <5>1
      <4>2. CASE off = size
        <5>1. room = B - r /\ d = r BY <1>5, <1>12, <2>9, <4>2
        <5>2. tam <= room BY <1>0, <1>1, <2>2, <5>1
        <5>3. QED BY <1>8, <4>2, <5>2
      <4>3. QED BY <4>1, <4>2
    <3>2. n = tam
      <4> DEFINE m == Min({tam, room})
      <4>0. tam \in Int /\ room \in Int /\ tam <= room BY <1>8, <3>1
      <4>1. m = tam
        <5>1. m = IF tam <= room THEN tam ELSE room BY <4>0, MaxDos
        <5> HIDE DEF m
        <5>2. QED BY <4>0, <5>1
      <4>2. ~ (tam >= B) BY <1>0, <2>4
      <4>3. QED BY <1>3, <4>1, <4>2
    <3>3. z = (IF size <= off THEN size + tam ELSE Max({size, off + tam}))
      <4>1. ~ (tam >= B) BY <1>0, <2>4
      <4>2. z = crece(size, off, n) BY <1>3, <2>4, <3>1, <4>1
      <4>3. QED BY <3>2, <4>2 DEF crece
    <3>4. z \in Nat /\ size <= z /\ off + tam <= z /\ z <= size + room
      <4>1. CASE size <= off BY <3>1, <3>3, <4>1
      <4>2. CASE ~ (size <= off)
        <5>1. z = IF size >= off + tam THEN size ELSE off + tam BY <3>3, <4>2, MaxDos
        <5>2. QED BY <1>8, <3>1, <5>1
      <4>3. QED BY <4>1, <4>2
    <3>5. Hacen(z) = q + 1 BY <1>9, <1>12, <3>4
    <3>6. d + n <= B /\ ~ (tam >= B) BY <1>0, <2>2, <2>4, <3>2
    <3>7. QED BY <1>1, <1>8, <2>1, <3>2, <3>4, <3>5, <3>6
  <2>5. QED BY <1>0, <2>3, <2>4
<1>13. QED BY <1>10, <1>11, <1>12

LEMMA EscrituraNada ==
  ASSUME SinExtremos, NEW off, NEW tam, NEW size,
         EscrituraEvitada(off, tam, size) \subseteq Extremos
  PROVE  EscrituraEvitada(off, tam, size) = {}
BY DEF SinExtremos, EscrituraEvitada

LEMMA Paso_escribir_archivo ==
  ASSUME Bueno, SinExtremos, NEW c \in Cliente, escribir_archivo(c), ~ sin_lugar'
  PROVE  EfectoBien(c) /\ NadaDeMas(c)
<1> DEFINE size == file_size(c)
           room == space_in_block(size)
<1>1. Partida(c) BY Parte
<1>2. /\ hilo[c].pc = "listo" /\ nodo[c].state = 1 /\ UNCHANGED bitmap /\ size \in Nat
  BY <1>1 DEF escribir_archivo, En, Partida
<1>3. PICK off \in 0 .. size, tam \in 1 .. (2 * BLOQUE_SIZE) :
       LET h == [Reposo EXCEPT !.op = "write", !.pc = "bucle", !.off = off, !.tam = tam,
                               !.en_bloque = off % BLOQUE_SIZE]
       IN /\ off + tam <= MaxTam[c]
          /\ \/ h.en_bloque + tam <= BLOQUE_SIZE
             \/ h.en_bloque = 0 /\ off = size
          /\ EscrituraEvitada(off, tam, size) \subseteq Extremos
          /\ \/ sin_lugar' = TRUE
             \/ /\ NecesitaBloque(c, off)
                /\ hilo' = [hilo EXCEPT ![c] = h]
                /\ UNCHANGED <<disco, tabla>>
             \/ /\ ~ NecesitaBloque(c, off)
                /\ Escribe(c, h, BloqueDe(c, off), room)
                /\ UNCHANGED punteros
  BY DEF escribir_archivo
<1> DEFINE d == off % BLOQUE_SIZE
           k == off \div BLOQUE_SIZE
           h == [Reposo EXCEPT !.op = "write", !.pc = "bucle", !.off = off, !.tam = tam,
                               !.en_bloque = d]
<1>4. off \in Nat /\ off <= size /\ tam \in Nat \ {0} /\ BLOQUE_SIZE \in Nat \ {0}
  BY <1>2, Tamanos
<1>5. d \in Nat /\ k \in Nat BY <1>4
<1> HIDE DEF size, room, d, k
<1>6. /\ h \in Hilos /\ h.pc = "bucle" /\ h.op = "write" /\ h.off = off /\ h.tam = tam
      /\ h.en_bloque = d
  BY <1>4, <1>5, ReposoTipo DEF Hilos, Reposo
<1> HIDE DEF h
<1>7. /\ d + tam <= BLOQUE_SIZE \/ (d = 0 /\ off = size)
      /\ EscrituraEvitada(off, tam, size) = {}
  <2>1. d + tam <= BLOQUE_SIZE \/ (d = 0 /\ off = size) BY <1>3, <1>6 DEF d, h, size
  <2>2. EscrituraEvitada(off, tam, size) \subseteq Extremos BY <1>3 DEF size
  <2>3. QED BY <2>1, <2>2, EscrituraNada
<1>8. CASE NecesitaBloque(c, off) /\ hilo' = [hilo EXCEPT ![c] = h] /\ UNCHANGED <<disco, tabla>>
  <2>1. size # 0 /\ off >= size + room BY <1>8 DEF NecesitaBloque, size, room
  <2>2. size % BLOQUE_SIZE = 0 /\ off = size
    <3>1. room = (BLOQUE_SIZE - (size % BLOQUE_SIZE)) % BLOQUE_SIZE
      BY <2>1 DEF room, space_in_block
    <3> DEFINE r == size % BLOQUE_SIZE
               x == BLOQUE_SIZE - r
    <3>2. r \in Nat /\ r < BLOQUE_SIZE BY <1>2, <1>4 DEF size
    <3> HIDE DEF r
    <3>3. x \in Nat /\ x > 0 /\ room = x % BLOQUE_SIZE BY <1>4, <3>1, <3>2 DEF r
    <3>4. x = BLOQUE_SIZE <=> r = 0 BY <1>4, <3>2
    <3>5. x <= BLOQUE_SIZE BY <1>4, <3>2
    <3> HIDE DEF x
    <3>6. x < BLOQUE_SIZE => x % BLOQUE_SIZE = x BY <1>4, <3>3
    <3>7. room \in Nat BY <1>4, <3>3
    <3>8. size \in Nat BY <1>2 DEF size
    <3>9. room = 0 /\ off = size BY <1>4, <2>1, <3>7, <3>8
    <3>10. r = 0 BY <1>4, <3>3, <3>4, <3>5, <3>6, <3>9
    <3>11. QED BY <3>9, <3>10 DEF r
  <2>3. hilo'[c] = h /\ SoloDe(c) /\ TipoDisco'
    BY <1>1, <1>2, <1>6, <1>8 DEF Partida, TipoDisco, SoloDe, disco, tabla
  <2>4. file_size(c)' = size BY <1>8 DEF file_size, tabla, size
  <2>5. Cuantos(c)' = Cuantos(c)
    <3>1. Cuantos(c) = Hacen(size) BY <1>2 DEF Cuantos, size
    <3>2. Cuantos(c)' = size \div BLOQUE_SIZE
      BY <1>2, <1>6, <1>8, <2>3, <2>4 DEF Cuantos, tabla
    <3>3. Hacen(size) = size \div BLOQUE_SIZE BY <1>2, <2>1, <2>2, HacenProps DEF size
    <3>4. QED BY <3>1, <3>2, <3>3
  <2>6. Quieta(c) BY <1>2, <1>6, <1>8, <2>3, <2>5 DEF Quieta, EnMano, disco, tabla
  <2>7. d = 0 BY <2>2 DEF d
  <2>8. AlFinal(c)' BY <1>4, <1>6, <2>1, <2>2, <2>3, <2>4, <2>7 DEF AlFinal, Alineado
  <2>9. HiloBien(c)'
    <3>1. escrito'[c] \subseteq 0 .. (file_size(c)' - 1)
      BY <1>1, <1>8, <2>4 DEF Partida, HiloBien, tabla, size
    <3>2. nodo'[c].state = 1 BY <1>2, <1>8 DEF tabla
    <3>3. QED BY <1>6, <2>3, <2>8, <3>1, <3>2 DEF HiloBien
  <2>10. QED BY <1>8, <2>3, <2>6, <2>9, QuietaDatos, QuietaBasta DEF disco, tabla
<1>9. CASE ~ NecesitaBloque(c, off) /\ Escribe(c, h, BloqueDe(c, off), room) /\ UNCHANGED punteros
  <2> DEFINE n == IF tam >= BLOQUE_SIZE THEN BLOQUE_SIZE ELSE Min({tam, room})
             z == CASE tam >= BLOQUE_SIZE -> IF size <= off THEN size + n ELSE size
                    [] tam < BLOQUE_SIZE /\ tam <= room -> crece(size, off, n)
                    [] OTHER -> size + n
             b == BloqueDe(c, off)
  <2>1. size = 0 \/ off < size + room
    <3>1. size = 0 \/ ~ (off >= size + room) BY <1>9 DEF NecesitaBloque, size, room
    <3>2. room \in Int
      <4>1. size % BLOQUE_SIZE \in Int /\ size \in Nat BY <1>2, <1>4 DEF size
      <4> DEFINE x == BLOQUE_SIZE - (size % BLOQUE_SIZE)
      <4>2. x \in Int BY <1>4, <4>1
      <4> HIDE DEF x
      <4>3. x % BLOQUE_SIZE \in Int BY <1>4, <4>2
      <4>4. room = IF size = 0 THEN BLOQUE_SIZE ELSE x % BLOQUE_SIZE
        BY DEF room, space_in_block, x
      <4>5. QED BY <1>4, <4>3, <4>4
    <3>3. size \in Nat BY <1>2 DEF size
    <3>4. QED BY <1>4, <3>1, <3>2, <3>3
  <2> HIDE DEF n, z, b
  <2>2. /\ n \in Nat \ {0} /\ n <= tam /\ z \in Nat /\ room \in Nat
        /\ k \in Nat /\ k < Hacen(size)
        /\ d + n <= BLOQUE_SIZE
        /\ tam >= BLOQUE_SIZE => d = 0
        /\ size <= z /\ off + n <= z
        /\ n = tam => Hacen(size) = Hacen(z)
        /\ n # tam => size = 0 /\ off = 0 /\ n = BLOQUE_SIZE /\ z = BLOQUE_SIZE
    <3>1. size \in Nat BY <1>2 DEF size
    <3>2. n = Vuelta(size, tam) BY DEF n, room, Vuelta
    <3>3. z = Queda(size, off, tam) BY <3>2 DEF z, room, Queda
    <3>4. size = 0 \/ off < size + space_in_block(size) BY <2>1 DEF room
    <3>5. (off % BLOQUE_SIZE) + tam <= BLOQUE_SIZE \/ (off % BLOQUE_SIZE = 0 /\ off = size)
      BY <1>7 DEF d
    <3>6. EscrituraEvitada(off, tam, size) = {} /\ off \in Nat /\ off <= size /\ tam \in Nat \ {0}
      BY <1>4, <1>7
    <3>7. /\ n \in Nat \ {0} /\ n <= tam /\ z \in Nat /\ space_in_block(size) \in Nat
          /\ off \div BLOQUE_SIZE \in Nat /\ off \div BLOQUE_SIZE < Hacen(size)
          /\ (off % BLOQUE_SIZE) + n <= BLOQUE_SIZE
          /\ tam >= BLOQUE_SIZE => off % BLOQUE_SIZE = 0
          /\ size <= z /\ off + n <= z
          /\ n = tam => Hacen(size) = Hacen(z)
          /\ n # tam => size = 0 /\ off = 0 /\ n = BLOQUE_SIZE /\ z = BLOQUE_SIZE
      BY ONLY <3>1, <3>2, <3>3, <3>4, <3>5, <3>6, EscribeMide
    <3>8. QED BY <3>7 DEF d, k, room
  <2>3. Cuantos(c) = Hacen(size) BY <1>2 DEF Cuantos, size
  <2>4. k \in Ind(c)
    <3>1. Hacen(size) \in Nat BY <1>2, HacenProps DEF size
    <3>2. QED BY <2>2, <2>3, <3>1 DEF Ind
  <2>5. b = DatB(c, k) /\ b \in Bloque
    <3>1. setear_posicion(off) = [puntero |-> Pun(k), dato |-> Dat(k)]
      BY <1>4, Posicion DEF k
    <3>2. PunB(c, k) \in Bloque /\ DatB(c, k) \in Bloque BY <1>1, <2>4 DEF Partida, Entero
    <3>3. PunB(c, k) # 0 BY <3>2 DEF Bloque
    <3>4. b = DatB(c, k) BY <3>1, <3>3 DEF b, BloqueDe, PunB, DatB
    <3>5. QED BY <3>2, <3>4
  <2>6. n # tam => z # 0 /\ z % BLOQUE_SIZE = 0 /\ z = off + n /\ Hacen(size) = z \div BLOQUE_SIZE
    <3>1. SUFFICES ASSUME n # tam
                   PROVE  z # 0 /\ z % BLOQUE_SIZE = 0 /\ z = off + n /\ Hacen(size) = z \div BLOQUE_SIZE
      OBVIOUS
    <3>2. z = BLOQUE_SIZE /\ n = BLOQUE_SIZE /\ off = 0 /\ size = 0 BY <2>2, <3>1
    <3>3. BLOQUE_SIZE % BLOQUE_SIZE = 0 /\ BLOQUE_SIZE \div BLOQUE_SIZE = 1 /\ BLOQUE_SIZE # 0
      <4>1. BLOQUE_SIZE * 1 + 0 = BLOQUE_SIZE /\ 1 \in Nat /\ 0 \in Nat /\ 0 < BLOQUE_SIZE BY <1>4
      <4>2. (BLOQUE_SIZE * 1 + 0) \div BLOQUE_SIZE = 1 /\ (BLOQUE_SIZE * 1 + 0) % BLOQUE_SIZE = 0
        BY <1>4, <4>1, DivUnico
      <4>3. QED BY <1>4, <4>1, <4>2
    <3>4. QED BY <1>4, <3>2, <3>3, Tamanos
  <2>7. QED
    <3>1. Escribe(c, h, b, room) /\ UNCHANGED <<bitmap, punteros>> /\ hilo[c].pc \in {"listo", "sigue"}
      BY <1>2, <1>9 DEF b
    <3>2. n = (IF h.tam >= BLOQUE_SIZE THEN BLOQUE_SIZE ELSE Min({h.tam, room}))
      BY <1>6 DEF n
    <3>3. z = (CASE h.tam >= BLOQUE_SIZE -> IF file_size(c) <= h.off THEN file_size(c) + n ELSE file_size(c)
                 [] h.tam < BLOQUE_SIZE /\ h.tam <= room -> crece(file_size(c), h.off, n)
                 [] OTHER -> file_size(c) + n)
      BY <1>6 DEF z, size
    <3>4. h.en_bloque = h.off % BLOQUE_SIZE /\ h.off \div BLOQUE_SIZE = k
      BY <1>6 DEF d, k
    <3>5. file_size(c) = size BY DEF size
    <3>6. n <= h.tam /\ (h.tam >= BLOQUE_SIZE => h.en_bloque = 0) /\ h.en_bloque + n <= BLOQUE_SIZE
          /\ h.off + n <= z /\ (n = h.tam => Cuantos(c) = Hacen(z))
      BY <1>6, <2>2, <2>3
    <3>7. n # h.tam => z # 0 /\ z % BLOQUE_SIZE = 0 /\ z = h.off + n /\ Cuantos(c) = z \div BLOQUE_SIZE
      BY <1>6, <2>3, <2>6
    <3>8. QED
      BY ZenonT(60), <1>2, <1>6, <2>2, <2>4, <2>5, <3>1, <3>2, <3>3, <3>4, <3>5, <3>6, <3>7, EscribeBien
<1>10. QED
  <2>1. \/ sin_lugar' = TRUE
        \/ /\ NecesitaBloque(c, off)
           /\ hilo' = [hilo EXCEPT ![c] = h]
           /\ UNCHANGED <<disco, tabla>>
        \/ /\ ~ NecesitaBloque(c, off)
           /\ Escribe(c, h, BloqueDe(c, off), room)
           /\ UNCHANGED punteros
    BY <1>3 DEF h, d
  <2>2. QED BY <1>8, <1>9, <2>1

LEMMA Paso_escribir_archivo_en_nuevo ==
  ASSUME Bueno, NEW c \in Cliente, escribir_archivo_en_nuevo(c)
  PROVE  EfectoBien(c) /\ NadaDeMas(c)
<1> DEFINE size == file_size(c)
           h == hilo[c]
           tam == h.tam
           q == size \div BLOQUE_SIZE
           n == IF tam >= BLOQUE_SIZE THEN BLOQUE_SIZE ELSE Min({tam, BLOQUE_SIZE})
           z == size + n
           b == hilo[c].nuevo
<1>1. Partida(c) BY Parte
<1>2. /\ hilo[c].pc = "sigue" /\ h.op = "write"
      /\ Escribe(c, h, b, BLOQUE_SIZE) /\ UNCHANGED <<bitmap, punteros>>
  BY DEF escribir_archivo_en_nuevo, En
<1>3. /\ h \in Hilos /\ size \in Nat /\ tam \in Nat /\ BLOQUE_SIZE \in Nat \ {0}
      /\ nodo[c].state = 1 /\ AlFinal(c) /\ b = DatB(c, Cuantos(c) - 1)
  <2>1. nodo[c].state \in {0, 1} /\ nodo[c].state # 0
    BY <1>1, <1>2 DEF Partida, Nodos, HiloBien
  <2>2. h \in Hilos /\ size \in Nat /\ tam \in Nat BY <1>1 DEF Partida, Hilos
  <2>3. AlFinal(c) /\ b = DatB(c, Cuantos(c) - 1) BY <1>1, <1>2 DEF Partida, HiloBien
  <2>4. QED BY <2>1, <2>2, <2>3, Tamanos
<1>4. /\ size # 0 /\ size % BLOQUE_SIZE = 0 /\ h.off = size /\ tam > 0 /\ h.en_bloque = 0
  BY <1>3 DEF AlFinal, Alineado
<1>5. q \in Nat /\ size = BLOQUE_SIZE * q + 0
  BY <1>3, <1>4, DivProps
<1>6. Cuantos(c) = q + 1 BY <1>2, <1>3 DEF Cuantos
<1> HIDE DEF size, h, tam, q, b
<1>7. n = (IF tam >= BLOQUE_SIZE THEN BLOQUE_SIZE ELSE tam)
  <2>1. tam < BLOQUE_SIZE => Min({tam, BLOQUE_SIZE}) = tam
    <3>1. tam \in Int /\ BLOQUE_SIZE \in Int /\ (tam < BLOQUE_SIZE => tam <= BLOQUE_SIZE) BY <1>3
    <3> DEFINE m == Min({tam, BLOQUE_SIZE})
    <3>2. m = IF tam <= BLOQUE_SIZE THEN tam ELSE BLOQUE_SIZE BY <3>1, MaxDos
    <3> HIDE DEF m
    <3>3. tam < BLOQUE_SIZE => m = tam BY <3>1, <3>2
    <3>4. QED BY <3>3 DEF m
  <2>2. QED BY <1>3, <2>1
<1> HIDE DEF n
<1>8. n \in Nat \ {0} /\ n <= tam /\ n <= BLOQUE_SIZE /\ (n # tam => n = BLOQUE_SIZE)
  BY <1>3, <1>4, <1>7
<1>9. z \in Nat /\ size <= z BY <1>3, <1>8
<1> DEFINE Fin == /\ n = tam => q + 1 = Hacen(z)
                  /\ n # tam => /\ z # 0 /\ z % BLOQUE_SIZE = 0 /\ z = size + n
                                /\ q + 1 = z \div BLOQUE_SIZE
<1>11. Fin
  <2>1. CASE n < BLOQUE_SIZE
    <3>1. z = BLOQUE_SIZE * q + n BY <1>3, <1>5, <1>8
    <3>2. Hacen(BLOQUE_SIZE * q + n) = q + 1 BY <1>5, <1>8, <2>1, HacenDe
    <3>3. Hacen(z) = q + 1 /\ n = tam BY <1>3, <1>8, <2>1, <3>1, <3>2
    <3> HIDE DEF z
    <3>4. QED BY <3>3
  <2>2. CASE n = BLOQUE_SIZE
    <3>1. z = BLOQUE_SIZE * (q + 1) + 0
      <4>1. BLOQUE_SIZE * (q + 1) = BLOQUE_SIZE * q + BLOQUE_SIZE BY <1>3, <1>5
      <4>2. QED BY <1>3, <1>5, <2>2, <4>1
    <3> DEFINE w == BLOQUE_SIZE * (q + 1) + 0
    <3>2. q + 1 \in Nat /\ 0 \in Nat /\ 0 < BLOQUE_SIZE /\ q + 1 # 0 BY <1>3, <1>5
    <3>3. Hacen(w) = q + 1 /\ w \div BLOQUE_SIZE = q + 1 /\ w % BLOQUE_SIZE = 0
      BY <3>2, HacenDe
    <3>4. z = w /\ z # 0 /\ z = size + n BY <1>3, <1>8, <3>1
    <3> HIDE DEF w, z
    <3>5. QED BY <3>3, <3>4
  <2>3. QED BY <1>3, <1>8, <2>1, <2>2
<1>12. z = (CASE h.tam >= BLOQUE_SIZE -> IF file_size(c) <= h.off THEN file_size(c) + n ELSE file_size(c)
              [] h.tam < BLOQUE_SIZE /\ h.tam <= BLOQUE_SIZE -> crece(file_size(c), h.off, n)
              [] OTHER -> file_size(c) + n)
  <2>1. h.tam = tam /\ file_size(c) = size /\ h.off = size BY <1>4 DEF tam, size
  <2>2. size <= size /\ crece(size, size, n) = size + n BY <1>3 DEF crece
  <2>3. QED BY <2>1, <2>2
<1>13. h.off \div BLOQUE_SIZE = q /\ q \in Ind(c) /\ b = DatB(c, q) /\ b \in Bloque
  <2>1. h.off \div BLOQUE_SIZE = q BY <1>4 DEF q, size
  <2>2. q \in Ind(c) BY <1>5, <1>6 DEF Ind
  <2>3. Cuantos(c) - 1 = q BY <1>5, <1>6
  <2>4. b = DatB(c, q) BY <1>3, <2>3 DEF b
  <2>5. DatB(c, q) \in Bloque BY <1>1, <2>2 DEF Partida, Entero
  <2>6. QED BY <2>1, <2>2, <2>4, <2>5
<1>14. n = (IF h.tam >= BLOQUE_SIZE THEN BLOQUE_SIZE ELSE Min({h.tam, BLOQUE_SIZE}))
  BY DEF n, tam
<1>15. h.en_bloque = h.off % BLOQUE_SIZE BY <1>4
<1>16. h.off + n <= z /\ h.en_bloque + n <= BLOQUE_SIZE
  BY <1>3, <1>4, <1>8
<1>17. /\ n <= h.tam
       /\ n = h.tam => Cuantos(c) = Hacen(z)
       /\ n # h.tam => z # 0 /\ z % BLOQUE_SIZE = 0 /\ z = h.off + n /\ Cuantos(c) = z \div BLOQUE_SIZE
  <2> HIDE DEF z
  <2>1. QED BY <1>4, <1>6, <1>8, <1>11 DEF tam
<1>18. hilo[c].pc \in {"listo", "sigue"} /\ h.op = "write" /\ file_size(c) <= z /\ h \in Hilos
       /\ Escribe(c, h, b, BLOQUE_SIZE) /\ nodo[c].state = 1 /\ BLOQUE_SIZE \in Nat
  BY <1>2, <1>3, <1>9 DEF h, size, b
<1> HIDE DEF z
<1>19. QED
  BY <1>2, <1>4, <1>8, <1>9, <1>12, <1>13, <1>14, <1>15, <1>16, <1>17, <1>18, EscribeBien

-----------------------------------------------------------------------------
(* Steps that give the file a block                                        *)

\* What a request that asks for a block knows.
PideBloque(c) ==
  \/ hilo[c].op = "mknod" /\ file_size(c) = 0 /\ escrito[c] = {}
  \/ hilo[c].op = "write" /\ AlFinal(c)
  \/ hilo[c].op = "truncate" /\ Alineado(c) /\ Falta(c)

LEMMA PartePide ==
  ASSUME Bueno, NEW c \in Cliente, hilo[c].pc \in {"toma", "agrega", "puntero", "sigue"}
  PROVE  nodo[c].state = 1 /\ PideBloque(c)
BY Parte DEF Partida, HiloBien, Nodos, PideBloque

\* The request goes on with the same locals and the file with the same size.
SiguePidiendo(c) ==
  /\ nodo'[c].state = 1 /\ nodo'[c].file_size = nodo[c].file_size /\ escrito'[c] = escrito[c]
  /\ hilo'[c].pc \in {"toma", "agrega", "puntero", "sigue"}
  /\ hilo'[c].op = hilo[c].op /\ hilo'[c].off = hilo[c].off /\ hilo'[c].tam = hilo[c].tam
  /\ hilo'[c].en_bloque = hilo[c].en_bloque /\ hilo'[c].size = hilo[c].size
  /\ hilo'[c].resto = hilo[c].resto /\ hilo'[c].espacio = hilo[c].espacio

LEMMA SigueBien ==
  ASSUME Bueno, NEW c \in Cliente, hilo[c].pc \in {"toma", "agrega", "puntero"}, SiguePidiendo(c),
         hilo'[c].pc = "puntero" => Dat(Cuantos(c)') = 0 /\ Pun(Cuantos(c)' + 1) < BLKINDIRECT,
         hilo'[c].pc = "sigue" => hilo'[c].nuevo = DatB(c, Cuantos(c) - 1)'
  PROVE  HiloBien(c)'
<1>1. Partida(c) BY Parte
<1>2. file_size(c)' = file_size(c) BY DEF SiguePidiendo, file_size
<1>3. PideBloque(c) BY PartePide
<1>4. PideBloque(c)'
  <2>1. AlFinal(c)' <=> AlFinal(c) BY <1>2 DEF SiguePidiendo, AlFinal, Alineado
  <2>2. Alineado(c)' <=> Alineado(c) BY <1>2 DEF Alineado
  <2>3. Falta(c)' <=> Falta(c) BY <1>2 DEF SiguePidiendo, Falta
  <2>4. QED BY <1>2, <1>3, <2>1, <2>2, <2>3 DEF PideBloque, SiguePidiendo
<1>5. escrito'[c] \subseteq 0 .. (file_size(c)' - 1)
  BY <1>1, <1>2 DEF SiguePidiendo, Partida, HiloBien
<1>6. QED BY <1>4, <1>5 DEF SiguePidiendo, PideBloque, HiloBien

\* The block is the last one of the file.
LEMMA CuantosSigue ==
  ASSUME NEW c \in Cliente, SiguePidiendo(c), hilo[c].pc \in {"toma", "agrega", "puntero"},
         nodo[c].state = 1
  PROVE  /\ Cuantos(c) = file_size(c) \div BLOQUE_SIZE
         /\ Cuantos(c)' = (IF hilo'[c].pc = "sigue" THEN Cuantos(c) + 1 ELSE Cuantos(c))
<1>1. file_size(c)' = file_size(c) BY DEF SiguePidiendo, file_size
<1>2. Cuantos(c) = file_size(c) \div BLOQUE_SIZE BY DEF Cuantos
<1>3. Cuantos(c)' = (IF hilo'[c].pc = "sigue" THEN Cuantos(c) + 1 ELSE Cuantos(c))
  BY <1>1, <1>2 DEF Cuantos, SiguePidiendo
<1>4. QED BY <1>2, <1>3

\* The first free block.
LEMMA Tomado ==
  ASSUME NEW c, NEW b, get_bloque_vacio(c, b), ~ sin_lugar'
  PROVE  b \in Bloque \ bitmap /\ b # SinBloque /\ bitmap' = bitmap \cup {b}
<1>1. Libres # {} /\ b = Min(Libres) /\ bitmap' = bitmap \cup {b} BY DEF get_bloque_vacio
<1>2. Bloques \in Nat BY DiscoAssumption DEF DiscoAssumption
<1>3. Libres \in SUBSET Nat BY <1>2 DEF Libres, Bloque
<1>4. \E x \in Libres : \A y \in Libres : x <= y BY <1>1, <1>3, MinExiste
<1>5. Min(Libres) \in Libres BY <1>4 DEF Min
<1>6. b \in Bloque \ bitmap BY <1>1, <1>5 DEF Libres
<1>7. b # SinBloque BY <1>2, <1>6 DEF SinBloque, Bloque
<1>8. QED BY <1>1, <1>6, <1>7

LEMMA Paso_toma_bloque ==
  ASSUME Bueno, NEW c \in Cliente, toma_bloque(c), ~ sin_lugar'
  PROVE  EfectoBien(c) /\ NadaDeMas(c)
<1>1. Partida(c) BY Parte
<1>2. PICK b \in Bloque \cup {SinBloque} :
        /\ get_bloque_vacio(c, b)
        /\ b # SinBloque => hilo' = [hilo EXCEPT ![c].nuevo = b, ![c].pc = "agrega"]
  BY DEF toma_bloque
<1>3. b \in Bloque \ bitmap /\ b # SinBloque /\ bitmap' = bitmap \cup {b} BY <1>2, Tomado
<1> DEFINE h == [hilo[c] EXCEPT !.nuevo = b, !.pc = "agrega"]
<1>4. /\ hilo[c].pc = "toma" /\ UNCHANGED <<punteros, datos, nodo, escrito>>
      /\ hilo' = [hilo EXCEPT ![c] = h]
  BY <1>2, <1>3 DEF toma_bloque, En, disco, tabla
<1>5. b \in Int BY <1>3, DiscoAssumption DEF DiscoAssumption, Bloque
<1>6. /\ h \in Hilos /\ h.pc = "agrega" /\ h.nuevo = b /\ h.op = hilo[c].op /\ h.off = hilo[c].off
      /\ h.tam = hilo[c].tam /\ h.en_bloque = hilo[c].en_bloque /\ h.size = hilo[c].size
      /\ h.resto = hilo[c].resto /\ h.espacio = hilo[c].espacio
  BY <1>1, <1>5 DEF Partida, Hilos
<1> HIDE DEF h
<1>7. hilo'[c] = h /\ SoloDe(c) /\ TipoDisco'
  BY <1>1, <1>3, <1>4, <1>6 DEF Partida, TipoDisco, SoloDe
<1>8. nodo[c].state = 1 BY <1>4, PartePide
<1>9. SiguePidiendo(c) BY <1>4, <1>6, <1>7, <1>8 DEF SiguePidiendo
<1>10. Cuantos(c)' = Cuantos(c) BY <1>4, <1>6, <1>7, <1>8, <1>9, CuantosSigue
<1>11. HiloBien(c)' BY <1>4, <1>6, <1>7, <1>9, SigueBien
<1>12. /\ Ind(c)' = Ind(c) /\ \A k : PunB(c, k)' = PunB(c, k) /\ DatB(c, k)' = DatB(c, k)
  BY <1>4, <1>10 DEF Ind, PunB, DatB
<1>13. EnMano(c) = {} /\ EnMano(c)' = {b} BY <1>4, <1>6, <1>7 DEF EnMano
<1>14. Suyos(c)' = Suyos(c) \cup {b} BY <1>12, <1>13 DEF Suyos
<1>15. \A k \in Ind(c) : PunB(c, k) \in bitmap /\ DatB(c, k) \in bitmap
  BY <1>1, IndProps DEF Partida
<1>16. Entero(c)'
  <2>1. Entero(c) BY <1>1 DEF Partida
  <2>2. \A k \in Ind(c) : PunB(c, k) # b /\ DatB(c, k) # b BY <1>3, <1>15
  <2>3. QED BY <1>3, <1>4, <1>10, <1>12, <1>13, <2>1, <2>2 DEF Entero
<1>17. Fiel(c)'
  <2>1. Fiel(c) BY <1>1 DEF Partida
  <2>2. QED BY <1>4, <1>12, <2>1 DEF Fiel
<1>18. Suyos(c) \subseteq bitmap BY <1>1 DEF Partida
<1>19. Efecto(c)
  BY <1>3, <1>4, <1>7, <1>14, <1>18 DEF Efecto, SoloDe
<1>20. NadaDeMas(c) BY <1>3, <1>14 DEF NadaDeMas
<1>21. QED BY <1>7, <1>11, <1>16, <1>17, <1>19, <1>20 DEF EfectoBien

LEMMA Paso_crear_nuevo_nodo_fin ==
  ASSUME Bueno, NEW c \in Cliente, crear_nuevo_nodo_fin(c)
  PROVE  EfectoBien(c) /\ NadaDeMas(c)
<1> DEFINE b == hilo[c].nuevo
<1>1. Partida(c) BY Parte
<1>2. /\ hilo[c].pc = "sigue" /\ hilo[c].op = "mknod" /\ hilo' = [hilo EXCEPT ![c] = Reposo]
      /\ datos' = [d \in Bloque |-> IF d = b THEN Vacio ELSE datos[d]]
      /\ UNCHANGED <<bitmap, punteros, nodo, escrito>>
  BY DEF crear_nuevo_nodo_fin, En, Termina, tabla
<1>3. nodo[c].state = 1 /\ file_size(c) = 0 /\ escrito[c] = {}
  BY <1>2, PartePide DEF PideBloque
<1>4. Cuantos(c) = 1 BY <1>2, <1>3, Tamanos DEF Cuantos
<1>5. 0 \in Ind(c) /\ b = DatB(c, 0) /\ b \in Suyos(c)
  <2>1. 0 \in Ind(c) BY <1>4 DEF Ind
  <2>2. b = DatB(c, Cuantos(c) - 1) BY <1>1, <1>2 DEF Partida, HiloBien
  <2>3. Cuantos(c) - 1 = 0 BY <1>4
  <2>4. b = DatB(c, 0) BY <2>2, <2>3
  <2>5. QED BY <1>1, <2>1, <2>4, IndProps DEF Partida
<1> HIDE DEF b
<1>6. Vacio \in [0 .. (BLOQUE_SIZE - 1) -> Octeto] BY DEF Vacio, Octeto
<1>7. hilo'[c] = Reposo /\ SoloDe(c) /\ TipoDisco'
  BY <1>1, <1>2, <1>6, ReposoTipo DEF Partida, TipoDisco, SoloDe
<1>8. Cuantos(c)' = 1
  <2>1. file_size(c)' = 0 BY <1>2, <1>3 DEF file_size
  <2>2. QED BY <1>2, <1>3, <1>7, <2>1, ReposoTipo, Tamanos DEF Cuantos
<1>9. Quieta(c) BY <1>2, <1>4, <1>7, <1>8, ReposoTipo DEF Quieta, EnMano
<1>10. DatosAjenos(c) BY <1>1, <1>2, <1>5 DEF DatosAjenos, Partida, TipoDisco
<1>11. Fiel(c)' BY <1>2, <1>3 DEF Fiel
<1>12. HiloBien(c)' BY <1>2, <1>3, <1>7, ReposoTipo DEF HiloBien, file_size
<1>13. QED BY <1>7, <1>9, <1>10, <1>11, <1>12, QuietaBasta

\* The place of the block that follows, when the file can have it.
LEMMA SinTope ==
  ASSUME NEW n \in Nat, Pun(n) < BLKINDIRECT,
         ~ (Pun(n) = BLKINDIRECT - 1 /\ Dat(n) = PUNTEROS_A_BLOQUES_DATOS - 1)
  PROVE  Pun(n + 1) < BLKINDIRECT
<1> DEFINE P == PUNTEROS_A_BLOQUES_DATOS
           i == Pun(n)
           j == Dat(n)
           x == P * i
<1>1. P \in Nat \ {0} /\ BLKINDIRECT \in Nat \ {0} BY Tamanos
<1>2. i \in Nat /\ j \in Nat /\ n = x + j BY Lugares
<1>3. Dat(n + 1) = 0 => Pun(n + 1) = i + 1 BY Lugares
<1>4. Dat(n + 1) # 0 => Pun(n + 1) = i BY Lugares
<1>5. Dat(n + 1) = 0 => j = P - 1
  <2>1. SUFFICES ASSUME Dat(n + 1) = 0 PROVE j = P - 1 OBVIOUS
  <2>2. n + 1 = P * (i + 1) + 0
    <3>1. n + 1 \in Nat OBVIOUS
    <3>2. n + 1 = P * Pun(n + 1) + Dat(n + 1) BY <3>1, Lugares
    <3>3. QED BY <1>3, <2>1, <3>2
  <2>3. P * (i + 1) = x + P BY <1>1, <1>2
  <2>4. x \in Nat BY <1>1, <1>2
  <2> HIDE DEF x, i, j, P
  <2>5. QED BY <1>1, <1>2, <2>2, <2>3, <2>4
<1>6. ~ (i = BLKINDIRECT - 1 /\ j = P - 1) /\ i < BLKINDIRECT OBVIOUS
<1> HIDE DEF i, j, P, x
<1>7. QED BY <1>1, <1>2, <1>3, <1>4, <1>5, <1>6

\* What agregar_nodo and agregar_nodo_puntero start from.
LEMMA ParteAgrega ==
  ASSUME Bueno, NEW c \in Cliente, hilo[c].pc \in {"agrega", "puntero"}
  PROVE  LET n == Cuantos(c)
         IN  /\ n \in Nat /\ n = file_size(c) \div BLOQUE_SIZE /\ nodo[c].state = 1
             /\ setear_posicion(file_size(c)) = [puntero |-> Pun(n), dato |-> Dat(n)]
             /\ hilo[c].nuevo \in Bloque /\ EnMano(c) = {hilo[c].nuevo}
             /\ Pun(n) < BLKINDIRECT
             /\ n # 0 => n - 1 \in Ind(c) /\ n - 1 \in Nat
             /\ Dat(n) # 0 => n # 0 /\ Pun(n) = Pun(n - 1)
<1>1. Partida(c) BY Parte
<1> DEFINE n == Cuantos(c)
<1>2. nodo[c].state = 1 BY PartePide
<1>3. n = file_size(c) \div BLOQUE_SIZE BY <1>2 DEF Cuantos
<1>4. n \in Nat /\ file_size(c) \in Nat BY <1>1 DEF Partida
<1>5. setear_posicion(file_size(c)) = [puntero |-> Pun(n), dato |-> Dat(n)]
  BY <1>3, <1>4, Posicion
<1>6. EnMano(c) = {hilo[c].nuevo} BY DEF EnMano
<1>7. hilo[c].nuevo \in Bloque BY <1>1, <1>6 DEF Partida, Entero
<1> HIDE DEF n
<1>8. n # 0 => n - 1 \in Ind(c) /\ n - 1 \in Nat BY <1>4 DEF Ind, n
<1>9. Pun(n) < BLKINDIRECT
  <2>1. CASE n = 0 BY <2>1, Tamanos
  <2>2. CASE n # 0
    <3>1. \A k \in Ind(c) : Pun(k + 1) < BLKINDIRECT BY <1>1 DEF Partida, Entero
    <3>2. Pun((n - 1) + 1) < BLKINDIRECT BY <1>8, <2>2, <3>1
    <3>3. (n - 1) + 1 = n BY <1>4
    <3>4. QED BY <3>2, <3>3
  <2>3. QED BY <2>1, <2>2
<1>10. Dat(n) # 0 => n # 0 /\ Pun(n) = Pun(n - 1)
  <2>1. SUFFICES ASSUME Dat(n) # 0 PROVE n # 0 /\ Pun(n) = Pun(n - 1) OBVIOUS
  <2>2. n # 0 BY <2>1, Tamanos
  <2>3. n - 1 \in Nat /\ (n - 1) + 1 = n BY <1>4, <2>2
  <2>4. Dat((n - 1) + 1) # 0 => Pun((n - 1) + 1) = Pun(n - 1) BY <2>3, Lugares
  <2>5. QED BY <2>1, <2>2, <2>3, <2>4
<1>11. QED BY <1>2, <1>3, <1>4, <1>5, <1>6, <1>7, <1>8, <1>9, <1>10 DEF n

\* The block in hand goes to the end of a file that keeps the others.
LEMMA AgregaEntero ==
  ASSUME Bueno, NEW c \in Cliente, hilo[c].pc \in {"agrega", "puntero"},
         NEW n, n = Cuantos(c), Cuantos(c)' = n + 1, EnMano(c)' = {},
         \A k \in Ind(c) : PunB(c, k)' = PunB(c, k) /\ DatB(c, k)' = DatB(c, k),
         DatB(c, n)' = hilo[c].nuevo, Pun(n + 1) < BLKINDIRECT,
         \/ n # 0 /\ Pun(n) = Pun(n - 1) /\ PunB(c, n)' = PunB(c, n - 1)
         \/ Dat(n) = 0 /\ PunB(c, n)' \in Bloque \ bitmap,
         Pun(n) + 1 < BLKINDIRECT => nodo'[c].indirect_blocks_array[Pun(n) + 1] = 0
  PROVE  /\ Entero(c)' /\ Ind(c)' = Ind(c) \cup {n} /\ n \notin Ind(c)
         /\ Suyos(c)' = Suyos(c) \cup {PunB(c, n)'}
<1>1. Partida(c) BY Parte
<1>2. /\ n \in Nat /\ hilo[c].nuevo \in Bloque /\ EnMano(c) = {hilo[c].nuevo}
      /\ n # 0 => n - 1 \in Ind(c)
  BY ParteAgrega
<1>3. Ind(c)' = Ind(c) \cup {n} /\ n \notin Ind(c) /\ \A k \in Ind(c) : k \in Nat /\ k < n
  BY <1>2 DEF Ind
<1> DEFINE e == hilo[c].nuevo
           p == PunB(c, n)'
<1>4. /\ \A k \in Ind(c) : Pun(k + 1) < BLKINDIRECT /\ PunB(c, k) \in Bloque /\ DatB(c, k) \in Bloque
      /\ \A k, l \in Ind(c) : /\ PunB(c, k) = PunB(c, l) => Pun(k) = Pun(l)
                              /\ DatB(c, k) = DatB(c, l) => k = l
                              /\ PunB(c, k) # DatB(c, l)
      /\ \A k \in Ind(c) : PunB(c, k) # e /\ DatB(c, k) # e
  BY <1>1, <1>2 DEF Partida, Entero
<1>5. /\ \A k \in Ind(c) : PunB(c, k) \in bitmap /\ DatB(c, k) \in bitmap
      /\ e \in bitmap
  BY <1>1, <1>2, IndProps DEF Partida, Suyos
<1> HIDE DEF e
<1>6. /\ p \in Bloque /\ p # e
      /\ \A k \in Ind(c) : /\ PunB(c, k) = p => Pun(k) = Pun(n)
                           /\ DatB(c, k) # p
  <2>1. CASE n # 0 /\ Pun(n) = Pun(n - 1) /\ p = PunB(c, n - 1)
    BY <1>2, <1>4, <2>1
  <2>2. CASE p \in Bloque \ bitmap
    <3> HIDE DEF p
    <3>1. QED BY <1>5, <2>2
  <2>3. QED BY <2>1, <2>2
<1>7. DatB(c, n)' = e BY DEF e
<1>8. \A k \in Ind(c)' : Pun(k + 1) < BLKINDIRECT /\ PunB(c, k)' \in Bloque /\ DatB(c, k)' \in Bloque
  <2>1. ASSUME NEW k \in Ind(c) \cup {n}
        PROVE  Pun(k + 1) < BLKINDIRECT /\ PunB(c, k)' \in Bloque /\ DatB(c, k)' \in Bloque
    <3>1. CASE k = n BY <1>2, <1>6, <3>1
    <3>2. CASE k \in Ind(c) BY <1>4, <3>2
    <3>3. QED BY <2>1, <3>1, <3>2
  <2>2. QED BY <1>3, <2>1
<1>9. \A k, l \in Ind(c)' : /\ PunB(c, k)' = PunB(c, l)' => Pun(k) = Pun(l)
                            /\ DatB(c, k)' = DatB(c, l)' => k = l
                            /\ PunB(c, k)' # DatB(c, l)'
  <2>1. ASSUME NEW k \in Ind(c) \cup {n}, NEW l \in Ind(c) \cup {n}
        PROVE  /\ PunB(c, k)' = PunB(c, l)' => Pun(k) = Pun(l)
               /\ DatB(c, k)' = DatB(c, l)' => k = l
               /\ PunB(c, k)' # DatB(c, l)'
    <3>1. CASE k \in Ind(c) /\ l \in Ind(c) BY <1>4, <3>1
    <3>2. CASE k = n /\ l \in Ind(c)
      <4>1. PunB(c, l)' = PunB(c, l) /\ DatB(c, l)' = DatB(c, l) BY <3>2
      <4>2. PunB(c, k)' = p /\ DatB(c, k)' = e BY <1>7, <3>2
      <4> HIDE DEF p
      <4>3. QED BY <1>4, <1>6, <3>2, <4>1, <4>2
    <3>3. CASE k \in Ind(c) /\ l = n
      <4>1. PunB(c, k)' = PunB(c, k) /\ DatB(c, k)' = DatB(c, k) BY <3>3
      <4>2. PunB(c, l)' = p /\ DatB(c, l)' = e BY <1>7, <3>3
      <4> HIDE DEF p
      <4>3. QED BY <1>4, <1>6, <3>3, <4>1, <4>2
    <3>4. CASE k = n /\ l = n
      <4>1. PunB(c, k)' = p /\ DatB(c, l)' = e BY <1>7, <3>4
      <4> HIDE DEF p
      <4>2. QED BY <1>6, <3>4, <4>1
    <3>5. QED BY <2>1, <3>1, <3>2, <3>3, <3>4
  <2>2. QED BY <1>3, <2>1
<1>10. \A k \in Ind(c)' : k = Cuantos(c)' - 1 /\ Pun(k) + 1 < BLKINDIRECT =>
         nodo'[c].indirect_blocks_array[Pun(k) + 1] = 0
  <2>1. Cuantos(c)' - 1 = n BY <1>2
  <2>2. QED BY <2>1
<1>11. Entero(c)'
  <2>1. EnMano(c)' = {} OBVIOUS
  <2>2. QED BY <1>8, <1>9, <1>10, <2>1 DEF Entero
<1>12. Suyos(c)' = Suyos(c) \cup {p}
  <2>1. Suyos(c)' = {PunB(c, k)' : k \in Ind(c)'} \cup {DatB(c, k)' : k \in Ind(c)'}
    BY DEF Suyos
  <2>2. {PunB(c, k)' : k \in Ind(c)'} = {PunB(c, k) : k \in Ind(c)} \cup {p} BY <1>3
  <2>3. {DatB(c, k)' : k \in Ind(c)'} = {DatB(c, k) : k \in Ind(c)} \cup {e} BY <1>3, <1>7
  <2>4. EnMano(c) = {e} BY <1>2 DEF e
  <2> HIDE DEF p
  <2>5. QED BY <2>1, <2>2, <2>3, <2>4 DEF Suyos
<1>13. QED BY <1>3, <1>11, <1>12

\* Nothing has been written yet to the new block.
LEMMA AgregaFiel ==
  ASSUME Bueno, NEW c \in Cliente, hilo[c].pc \in {"agrega", "puntero"},
         NEW n, n = Cuantos(c), Ind(c)' = Ind(c) \cup {n},
         \A k \in Ind(c) : DatB(c, k)' = DatB(c, k), UNCHANGED <<datos, escrito>>
  PROVE  Fiel(c)'
<1>1. Partida(c) BY Parte
<1>2. n \in Nat /\ n = file_size(c) \div BLOQUE_SIZE BY ParteAgrega
<1>3. SUFFICES ASSUME NEW x \in escrito[c], x \div BLOQUE_SIZE \in Ind(c)'
               PROVE  datos[DatB(c, x \div BLOQUE_SIZE)'][x % BLOQUE_SIZE] = <<c, x>>
  BY DEF Fiel
<1> DEFINE q == x \div BLOQUE_SIZE
           r == x % BLOQUE_SIZE
           z == BLOQUE_SIZE * n
<1>4. file_size(c) \in Nat /\ file_size(c) = z
  <2>1. file_size(c) % BLOQUE_SIZE = 0
    <3>1. PideBloque(c) BY PartePide
    <3>2. QED BY <3>1, Tamanos DEF PideBloque, AlFinal, Alineado
  <2>2. file_size(c) \in Nat BY <1>1 DEF Partida
  <2>3. file_size(c) = BLOQUE_SIZE * n + 0 BY <1>2, <2>1, <2>2, Tamanos, DivProps
  <2>4. QED BY <1>2, <2>2, <2>3, Tamanos
<1>5. x \in Nat /\ x < file_size(c)
  <2>1. escrito[c] \subseteq 0 .. (file_size(c) - 1) BY <1>1 DEF Partida, HiloBien
  <2>2. QED BY <1>4, <2>1
<1>6. q # n
  <2>1. x = BLOQUE_SIZE * q + r /\ r \in Nat BY <1>5, Tamanos, DivProps
  <2>2. z \in Nat BY <1>2, Tamanos
  <2>3. q = n => x = z + r BY <2>1
  <2>4. file_size(c) = z BY <1>4
  <2> HIDE DEF z, r, q
  <2>5. QED BY <1>5, <2>1, <2>2, <2>3, <2>4
<1>7. q \in Ind(c) BY <1>3, <1>6
<1>8. datos[DatB(c, q)][r] = <<c, x>> BY <1>1, <1>3, <1>7 DEF Partida, Fiel
<1>9. DatB(c, q)' = DatB(c, q)
  <2> HIDE DEF q
  <2>1. QED BY <1>7
<1>10. QED BY <1>8, <1>9

LEMMA Paso_agregar_nodo ==
  ASSUME Bueno, NEW c \in Cliente, agregar_nodo(c), ~ sin_lugar'
  PROVE  EfectoBien(c) /\ NadaDeMas(c)
<1>0. PICK n : n = Cuantos(c) OBVIOUS
<1> DEFINE e == hilo[c].nuevo
           b == nodo[c].indirect_blocks_array[Pun(n)]
           y == IF Dat(n) = 0 THEN "puntero" ELSE "sigue"
           h == [hilo[c] EXCEPT !.pc = y]
<1>1. Partida(c) BY Parte
<1>2. /\ hilo[c].pc = "agrega" /\ UNCHANGED <<bitmap, datos, nodo, escrito>>
  BY DEF agregar_nodo, En, tabla
<1>3. /\ n \in Nat /\ n = file_size(c) \div BLOQUE_SIZE /\ nodo[c].state = 1
      /\ setear_posicion(file_size(c)) = [puntero |-> Pun(n), dato |-> Dat(n)]
      /\ e \in Bloque /\ EnMano(c) = {e}
      /\ Pun(n) < BLKINDIRECT
      /\ n # 0 => n - 1 \in Ind(c) /\ n - 1 \in Nat
      /\ Dat(n) # 0 => n # 0 /\ Pun(n) = Pun(n - 1)
  BY <1>0, <1>2, ParteAgrega
<1>4. /\ ~ (Pun(n) = BLKINDIRECT - 1 /\ Dat(n) = PUNTEROS_A_BLOQUES_DATOS - 1)
      /\ punteros' = IF Dat(n) = 0 THEN punteros ELSE [punteros EXCEPT ![b][Dat(n)] = e]
      /\ hilo' = [hilo EXCEPT ![c] = h]
  <2>1. LET p == [puntero |-> Pun(n), dato |-> Dat(n)]
            tope == /\ p.puntero = BLKINDIRECT - 1
                    /\ p.dato = PUNTEROS_A_BLOQUES_DATOS - 1
            d == nodo[c].indirect_blocks_array[p.puntero]
        IN /\ punteros' = IF tope \/ p.dato = 0 THEN punteros
                          ELSE [punteros EXCEPT ![d][p.dato] = e]
           /\ sin_lugar' = (sin_lugar \/ tope)
           /\ hilo' = [hilo EXCEPT ![c].pc = IF p.dato = 0 /\ ~ tope THEN "puntero" ELSE "sigue"]
    BY <1>3 DEF agregar_nodo, Va
  <2>2. ~ (Pun(n) = BLKINDIRECT - 1 /\ Dat(n) = PUNTEROS_A_BLOQUES_DATOS - 1) BY <2>1
  <2>3. QED BY <2>1, <2>2
<1>5. Pun(n + 1) < BLKINDIRECT
  <2>1. QED BY <1>3, <1>4, SinTope
<1>6. y \in {"puntero", "sigue"} OBVIOUS
<1> HIDE DEF y
<1>7. /\ h \in Hilos /\ h.pc = y /\ h.nuevo = e /\ h.op = hilo[c].op /\ h.off = hilo[c].off
      /\ h.tam = hilo[c].tam /\ h.en_bloque = hilo[c].en_bloque /\ h.size = hilo[c].size
      /\ h.resto = hilo[c].resto /\ h.espacio = hilo[c].espacio
  BY <1>1, <1>6 DEF Partida, Hilos
<1> HIDE DEF h
<1>8. hilo'[c] = h BY <1>1, <1>4 DEF Partida, TipoDisco
<1>9. SiguePidiendo(c) BY <1>2, <1>3, <1>6, <1>7, <1>8 DEF SiguePidiendo
<1>10. Cuantos(c)' = IF y = "sigue" THEN n + 1 ELSE n
  BY <1>0, <1>2, <1>3, <1>7, <1>8, <1>9, CuantosSigue
<1>11. \A k : PunB(c, k)' = PunB(c, k) BY <1>2 DEF PunB
<1>12. \A k \in Ind(c) : PunB(c, k) \in bitmap /\ DatB(c, k) \in bitmap /\ k \in Nat
  BY <1>1, IndProps DEF Partida
<1>13. SoloDe(c) /\ hilo' \in [Cliente -> Hilos]
  BY <1>1, <1>2, <1>4, <1>7 DEF SoloDe, Partida, TipoDisco
<1>14. CASE Dat(n) = 0
  <2>1. y = "puntero" /\ punteros' = punteros BY <1>4, <1>14 DEF y
  <2>2. Cuantos(c)' = n /\ EnMano(c)' = {e}
    BY <1>7, <1>8, <1>10, <2>1 DEF EnMano
  <2>3. /\ Ind(c)' = Ind(c) /\ \A k : DatB(c, k)' = DatB(c, k)
    BY <1>0, <1>11, <2>1, <2>2 DEF Ind, DatB
  <2>4. Suyos(c)' = Suyos(c) BY <1>3, <1>11, <2>2, <2>3 DEF Suyos
  <2>5. Entero(c)'
    <3>1. Entero(c) BY <1>1 DEF Partida
    <3>2. QED BY <1>0, <1>2, <1>3, <1>11, <2>2, <2>3, <3>1 DEF Entero
  <2>6. Fiel(c)'
    <3>1. Fiel(c) BY <1>1 DEF Partida
    <3>2. QED BY <1>2, <2>3, <3>1 DEF Fiel
  <2>7. TipoDisco' BY <1>1, <1>2, <1>13, <2>1 DEF Partida, TipoDisco
  <2>8. HiloBien(c)'
    <3>1. Dat(Cuantos(c)') = 0 /\ Pun(Cuantos(c)' + 1) < BLKINDIRECT BY <1>5, <1>14, <2>2
    <3>2. hilo'[c].pc = "puntero" BY <1>7, <1>8, <2>1
    <3>3. QED BY <1>2, <1>9, <3>1, <3>2, SigueBien
  <2>9. Efecto(c) /\ NadaDeMas(c)
    <3>1. Suyos(c) \subseteq bitmap BY <1>1 DEF Partida
    <3>2. QED BY <1>2, <1>13, <2>1, <2>4, <3>1 DEF Efecto, NadaDeMas, SoloDe
  <2>10. QED BY <2>5, <2>6, <2>7, <2>8, <2>9 DEF EfectoBien
<1>15. CASE Dat(n) # 0
  <2>1. y = "sigue" /\ punteros' = [punteros EXCEPT ![b][Dat(n)] = e] BY <1>4, <1>15 DEF y
  <2>2. n # 0 /\ Pun(n) = Pun(n - 1) /\ n - 1 \in Ind(c) /\ n - 1 \in Nat BY <1>3, <1>15
  <2>3. b = PunB(c, n - 1) /\ b \in Bloque /\ b \in Suyos(c)
    <3>1. b = PunB(c, n - 1) BY <2>2 DEF PunB
    <3>2. PunB(c, n - 1) \in Bloque BY <1>1, <2>2 DEF Partida, Entero
    <3>3. PunB(c, n - 1) \in Suyos(c) BY <2>2 DEF Suyos
    <3>4. QED BY <3>1, <3>2, <3>3
  <2>4. Cuantos(c)' = n + 1 /\ EnMano(c)' = {}
    BY <1>7, <1>8, <1>10, <2>1 DEF EnMano
  <2> HIDE DEF b, e
  <2>5. Dat(n) \in Entrada /\ e \in Int
    BY <1>3, Lugares, DiscoAssumption DEF DiscoAssumption, Bloque
  <2>6. /\ punteros' \in [Bloque -> [Entrada -> Int]]
        /\ \A d \in Bloque : d # b => punteros'[d] = punteros[d]
        /\ punteros'[b][Dat(n)] = e
        /\ \A j \in Entrada : j # Dat(n) => punteros'[b][j] = punteros[b][j]
    BY <1>1, <2>1, <2>3, <2>5 DEF Partida, TipoDisco
  <2>7. \A k \in Ind(c) : DatB(c, k)' = DatB(c, k)
    <3>1. SUFFICES ASSUME NEW k \in Ind(c) PROVE DatB(c, k)' = DatB(c, k) OBVIOUS
    <3>2. k \in Nat /\ Dat(k) \in Entrada /\ PunB(c, k) \in Bloque
      BY <1>1, <1>12, Lugares DEF Partida, Entero
    <3>3. PunB(c, k) = b => Pun(k) = Pun(n)
      BY <1>1, <2>2, <2>3 DEF Partida, Entero
    <3>4. k # n BY <1>0, <1>3 DEF Ind
    <3>5. PunB(c, k) = b => Dat(k) # Dat(n) BY <1>3, <3>2, <3>3, <3>4, LugarUnico
    <3>6. punteros'[PunB(c, k)][Dat(k)] = punteros[PunB(c, k)][Dat(k)]
      BY <2>6, <3>2, <3>5
    <3>7. QED BY <1>11, <3>6 DEF DatB
  <2>8. PunB(c, n)' = b /\ DatB(c, n)' = e
    <3>1. PunB(c, n)' = b BY <1>2 DEF PunB, b
    <3>2. QED BY <2>6, <3>1 DEF DatB
  <2>9. Pun(n) + 1 < BLKINDIRECT => nodo'[c].indirect_blocks_array[Pun(n) + 1] = 0
    <3>1. \A k \in Ind(c) : k = Cuantos(c) - 1 /\ Pun(k) + 1 < BLKINDIRECT =>
            nodo[c].indirect_blocks_array[Pun(k) + 1] = 0
      BY <1>1 DEF Partida, Entero
    <3>2. n - 1 = Cuantos(c) - 1 BY <1>0
    <3>3. QED BY <1>2, <2>2, <3>1, <3>2
  <2>10. /\ Entero(c)' /\ Ind(c)' = Ind(c) \cup {n} /\ n \notin Ind(c)
         /\ Suyos(c)' = Suyos(c) \cup {PunB(c, n)'}
    <3>1. n = Cuantos(c) /\ e = hilo[c].nuevo BY <1>0 DEF e
    <3>2. PunB(c, n)' = PunB(c, n - 1) BY <2>3, <2>8
    <3>3. DatB(c, n)' = hilo[c].nuevo BY <2>8, <3>1
    <3>4. hilo[c].pc \in {"agrega", "puntero"} BY <1>2
    <3>5. \A k \in Ind(c) : PunB(c, k)' = PunB(c, k) /\ DatB(c, k)' = DatB(c, k)
      BY <1>11, <2>7
    <3>6. QED BY <1>5, <2>2, <2>4, <2>9, <3>1, <3>2, <3>3, <3>4, <3>5, AgregaEntero
  <2>11. Suyos(c)' = Suyos(c) BY <2>3, <2>8, <2>10
  <2>12. Fiel(c)' BY <1>0, <1>2, <2>7, <2>10, AgregaFiel
  <2>13. TipoDisco' BY <1>1, <1>2, <1>13, <2>6 DEF Partida, TipoDisco
  <2>14. HiloBien(c)'
    <3>1. hilo'[c].pc = "sigue" /\ hilo'[c].nuevo = e BY <1>7, <1>8, <2>1
    <3>2. DatB(c, n)' = e BY <2>8
    <3>3. hilo'[c].nuevo = DatB(c, Cuantos(c) - 1)'
      <4>1. (Cuantos(c) - 1)' = n BY <1>3, <2>4
      <4>2. DatB(c, Cuantos(c) - 1)' = DatB(c, n)'
        <5>1. nodo'[c].indirect_blocks_array[Pun((Cuantos(c) - 1)')] = nodo'[c].indirect_blocks_array[Pun(n)]
          BY <4>1
        <5>2. Dat((Cuantos(c) - 1)') = Dat(n) BY <4>1
        <5>3. QED BY <5>1, <5>2 DEF DatB, PunB
      <4>3. QED BY <3>1, <3>2, <4>2
    <3>4. QED BY <1>2, <1>9, <3>1, <3>3, SigueBien
  <2>15. Efecto(c) /\ NadaDeMas(c)
    <3>1. Suyos(c) \subseteq bitmap /\ bitmap \subseteq Bloque BY <1>1 DEF Partida, TipoDisco
    <3>2. \A d \in bitmap \ Suyos(c) : punteros'[d] = punteros[d] BY <2>3, <2>6, <3>1
    <3>3. QED BY <1>2, <1>13, <2>11, <3>1, <3>2 DEF Efecto, NadaDeMas, SoloDe
  <2>16. QED BY <2>10, <2>12, <2>13, <2>14, <2>15 DEF EfectoBien
<1>16. QED BY <1>14, <1>15

LEMMA Paso_agregar_nodo_puntero ==
  ASSUME Bueno, NEW c \in Cliente, agregar_nodo_puntero(c), ~ sin_lugar'
  PROVE  EfectoBien(c) /\ NadaDeMas(c)
<1>0. PICK n : n = Cuantos(c) OBVIOUS
<1>1. Partida(c) BY Parte
<1>2. hilo[c].pc = "puntero" /\ UNCHANGED <<datos, escrito>> BY DEF agregar_nodo_puntero, En
<1>3. /\ n \in Nat /\ n = file_size(c) \div BLOQUE_SIZE /\ nodo[c].state = 1
      /\ setear_posicion(file_size(c)) = [puntero |-> Pun(n), dato |-> Dat(n)]
      /\ hilo[c].nuevo \in Bloque /\ EnMano(c) = {hilo[c].nuevo}
      /\ Pun(n) < BLKINDIRECT
  BY <1>0, <1>2, ParteAgrega
<1>4. Dat(n) = 0 /\ Pun(n + 1) < BLKINDIRECT BY <1>0, <1>1, <1>2 DEF Partida, HiloBien
<1>5. PICK b \in Bloque \cup {SinBloque} :
        /\ get_bloque_vacio(c, b)
        /\ b # SinBloque =>
             /\ nodo' = [nodo EXCEPT ![c].indirect_blocks_array =
                              [j \in DOMAIN @ |-> IF j = Pun(n) THEN b
                                                  ELSE IF j = Pun(n) + 1 THEN 0 ELSE @[j]]]
             /\ punteros' = [punteros EXCEPT ![b] = [SinPunteros EXCEPT ![0] = hilo[c].nuevo]]
             /\ hilo' = [hilo EXCEPT ![c].pc = "sigue"]
  BY <1>3 DEF agregar_nodo_puntero, Va
<1>6. b \in Bloque \ bitmap /\ b # SinBloque /\ bitmap' = bitmap \cup {b} BY <1>5, Tomado
<1>7. 0 \in Entrada /\ Pun(n) \in 0 .. (BLKINDIRECT - 1) /\ Pun(n) \in Nat
  BY <1>3, Tamanos, Lugares DEF Entrada
<1> DEFINE e == hilo[c].nuevo
           a == nodo[c].indirect_blocks_array
           w == [j \in 0 .. (BLKINDIRECT - 1) |->
                   IF j = Pun(n) THEN b ELSE IF j = Pun(n) + 1 THEN 0 ELSE a[j]]
           v == [nodo[c] EXCEPT !.indirect_blocks_array = w]
           h == [hilo[c] EXCEPT !.pc = "sigue"]
           t == [SinPunteros EXCEPT ![0] = e]
<1>8. a \in [0 .. (BLKINDIRECT - 1) -> Bloque \cup {0}] BY <1>1 DEF Partida, Nodos
<1>9. nodo' = [nodo EXCEPT ![c] = v] /\ hilo' = [hilo EXCEPT ![c] = h]
      /\ punteros' = [punteros EXCEPT ![b] = t]
  BY <1>5, <1>6, <1>8
<1>10. /\ w \in [0 .. (BLKINDIRECT - 1) -> Bloque \cup {0}] /\ w[Pun(n)] = b
       /\ \A j \in 0 .. (BLKINDIRECT - 1) : j # Pun(n) /\ j # Pun(n) + 1 => w[j] = a[j]
       /\ Pun(n) + 1 < BLKINDIRECT => w[Pun(n) + 1] = 0
  <2>1. Pun(n) + 1 < BLKINDIRECT => Pun(n) + 1 \in 0 .. (BLKINDIRECT - 1) /\ Pun(n) + 1 # Pun(n)
    BY <1>7, Tamanos
  <2> HIDE DEF a
  <2>2. QED BY <1>6, <1>7, <1>8, <2>1
<1> HIDE DEF w
<1>11. v \in Nodos /\ v.state = nodo[c].state /\ v.file_size = nodo[c].file_size
       /\ v.indirect_blocks_array = w
  BY <1>1, <1>10 DEF Partida, Nodos
<1>12. /\ h \in Hilos /\ h.pc = "sigue" /\ h.nuevo = e /\ h.op = hilo[c].op /\ h.off = hilo[c].off
       /\ h.tam = hilo[c].tam /\ h.en_bloque = hilo[c].en_bloque /\ h.size = hilo[c].size
       /\ h.resto = hilo[c].resto /\ h.espacio = hilo[c].espacio
  BY <1>1 DEF Partida, Hilos
<1>13. t \in [Entrada -> Int] /\ t[0] = e
  <2>1. e \in Int BY <1>3, DiscoAssumption DEF DiscoAssumption, Bloque
  <2> HIDE DEF e
  <2>2. QED BY <1>7, <2>1 DEF SinPunteros
<1> HIDE DEF v, h, t
<1>14. /\ hilo'[c] = h /\ nodo'[c] = v /\ SoloDe(c) /\ TipoDisco'
       /\ punteros'[b] = t /\ \A d \in Bloque : d # b => punteros'[d] = punteros[d]
  BY <1>1, <1>2, <1>6, <1>9, <1>11, <1>12, <1>13 DEF Partida, TipoDisco, SoloDe
<1>15. SiguePidiendo(c) BY <1>2, <1>3, <1>11, <1>12, <1>14 DEF SiguePidiendo
<1>16. Cuantos(c)' = n + 1 /\ EnMano(c)' = {}
  <2>1. Cuantos(c)' = n + 1 BY <1>0, <1>2, <1>3, <1>12, <1>14, <1>15, CuantosSigue
  <2>2. EnMano(c)' = {} BY <1>12, <1>14 DEF EnMano
  <2>3. QED BY <2>1, <2>2
<1>17. \A k \in Ind(c) : /\ k \in Nat /\ k < n /\ Pun(k) \in 0 .. (BLKINDIRECT - 1)
                         /\ Pun(k) # Pun(n) /\ Pun(k) # Pun(n) + 1
                         /\ PunB(c, k) \in bitmap /\ PunB(c, k) \in Bloque
  <2>1. SUFFICES ASSUME NEW k \in Ind(c)
                 PROVE  /\ k \in Nat /\ k < n /\ Pun(k) \in 0 .. (BLKINDIRECT - 1)
                        /\ Pun(k) # Pun(n) /\ Pun(k) # Pun(n) + 1
                        /\ PunB(c, k) \in bitmap /\ PunB(c, k) \in Bloque
    OBVIOUS
  <2>2. k \in Nat /\ k < n BY <1>0, <1>3 DEF Ind
  <2>3. Pun(k) \in Nat /\ Dat(k) \in Nat BY <2>2, Lugares
  <2>4. Pun(k) <= Pun(n) /\ (Pun(k) = Pun(n) => Dat(k) <= Dat(n) /\ n - k = Dat(n) - Dat(k))
    BY <1>3, <2>2, LugarOrden
  <2>5. Pun(k) # Pun(n) BY <1>3, <1>4, <2>2, <2>3, <2>4
  <2>6. PunB(c, k) \in bitmap BY <1>1, IndProps DEF Partida
  <2>7. bitmap \subseteq Bloque BY <1>1 DEF Partida, TipoDisco
  <2>8. QED BY <1>3, <1>7, <2>2, <2>3, <2>4, <2>5, <2>6, <2>7, Tamanos
<1>18. \A k \in Ind(c) : PunB(c, k)' = PunB(c, k)
  BY <1>10, <1>11, <1>14, <1>17 DEF PunB
<1>19. \A k \in Ind(c) : DatB(c, k)' = DatB(c, k)
  BY <1>6, <1>14, <1>17, <1>18 DEF DatB
<1>20. PunB(c, n)' = b /\ DatB(c, n)' = e
  <2>1. PunB(c, n)' = b BY <1>10, <1>11, <1>14 DEF PunB
  <2>2. QED BY <1>4, <1>13, <1>14, <2>1 DEF DatB
<1>21. /\ Entero(c)' /\ Ind(c)' = Ind(c) \cup {n} /\ n \notin Ind(c)
       /\ Suyos(c)' = Suyos(c) \cup {PunB(c, n)'}
  <2>1. Pun(n) + 1 < BLKINDIRECT => nodo'[c].indirect_blocks_array[Pun(n) + 1] = 0
    BY <1>10, <1>11, <1>14
  <2>2. DatB(c, n)' = hilo[c].nuevo BY <1>20
  <2>3. Dat(n) = 0 /\ PunB(c, n)' \in Bloque \ bitmap BY <1>4, <1>6, <1>20
  <2>4. \A k \in Ind(c) : PunB(c, k)' = PunB(c, k) /\ DatB(c, k)' = DatB(c, k) BY <1>18, <1>19
  <2>5. hilo[c].pc \in {"agrega", "puntero"} BY <1>2
  <2>6. QED BY <1>0, <1>4, <1>16, <2>1, <2>2, <2>3, <2>4, <2>5, AgregaEntero
<1>22. Fiel(c)' BY <1>0, <1>2, <1>19, <1>21, AgregaFiel
<1>23. HiloBien(c)'
  <2>1. hilo'[c].nuevo = DatB(c, Cuantos(c) - 1)'
    <3>1. (Cuantos(c) - 1)' = n BY <1>3, <1>16
    <3>2. nodo'[c].indirect_blocks_array[Pun((Cuantos(c) - 1)')] = nodo'[c].indirect_blocks_array[Pun(n)]
      BY <3>1
    <3>3. Dat((Cuantos(c) - 1)') = Dat(n) BY <3>1
    <3>4. DatB(c, Cuantos(c) - 1)' = DatB(c, n)' BY <3>2, <3>3 DEF DatB, PunB
    <3>5. QED BY <1>12, <1>14, <1>20, <3>4
  <2>2. hilo'[c].pc = "sigue" BY <1>12, <1>14
  <2>3. QED BY <1>2, <1>15, <2>1, <2>2, SigueBien
<1>24. Efecto(c) /\ NadaDeMas(c)
  <2>1. Suyos(c)' = Suyos(c) \cup {b} BY <1>20, <1>21
  <2>2. Suyos(c) \subseteq bitmap /\ bitmap \subseteq Bloque BY <1>1 DEF Partida, TipoDisco
  <2>3. \A d \in bitmap \ Suyos(c) : punteros'[d] = punteros[d] BY <1>6, <1>14, <2>2
  <2>4. QED BY <1>2, <1>6, <1>14, <2>1, <2>2, <2>3 DEF Efecto, NadaDeMas, SoloDe
<1>25. QED BY <1>14, <1>21, <1>22, <1>23, <1>24 DEF EfectoBien

-----------------------------------------------------------------------------
(* Steps that take blocks from the file                                    *)

\* Where the cut of a file is.
LEMMA ParteCorta ==
  ASSUME Bueno, NEW c \in Cliente, hilo[c].pc \in {"recorta", "marca"}
  PROVE  LET s == hilo[c].size
             u == Ultimo(file_size(c))
             k == s \div BLOQUE_SIZE
             m == u - Dat(u) + hilo[c].resto
         IN  /\ nodo[c].state = 1 /\ hilo[c].op = "truncate" /\ Baja(c)
             /\ file_size(c) \in Nat /\ file_size(c) # 0
             /\ s \in Nat /\ u \in Nat /\ hilo[c].resto \in Nat /\ m \in Nat /\ m - 1 \in Nat
             /\ Pun(m) = Pun(u) /\ Dat(m) = hilo[c].resto /\ Pun(m - 1) = Pun(u)
             /\ setear_posicion(file_size(c) - 1).puntero = Pun(u)
             /\ setear_posicion(s).dato = Dat(k) /\ Hacen(s) = k + 1
             /\ k \in Nat /\ Dat(k) \in Nat /\ Dat(k) < hilo[c].resto /\ k < m
             /\ hilo[c].resto - 1 = Dat(k) => m = k + 1
<1> DEFINE s == hilo[c].size
           size == file_size(c)
           u == Ultimo(size)
           k == s \div BLOQUE_SIZE
           r == hilo[c].resto
           m == u - Dat(u) + r
           P == PUNTEROS_A_BLOQUES_DATOS
           x == P * Pun(u)
<1>1. Partida(c) BY Parte
<1>2. nodo[c].state = 1 /\ hilo[c].op = "truncate" /\ Baja(c)
  BY <1>1 DEF Partida, HiloBien, Nodos
<1>3. size \in Nat /\ s \in Nat /\ r \in Int BY <1>1 DEF Partida, Hilos
<1>4. /\ s < size /\ (s = 0 \/ s % BLOQUE_SIZE # 0) /\ Pun(k) = Pun(u)
      /\ Dat(k) < r /\ r <= Dat(u)
  BY <1>2 DEF Baja
<1>5. size # 0 /\ size - 1 \in Nat BY <1>3, <1>4
<1>6. u \in Nat /\ k \in Nat /\ BLOQUE_SIZE \in Nat \ {0} /\ P \in Nat \ {0}
  BY <1>3, <1>5, HacenProps, Tamanos
<1>7. k <= u
  <2>1. s <= size - 1 BY <1>3, <1>4
  <2>2. QED BY <1>3, <1>5, <1>6, <2>1 DEF Ultimo
<1>8. setear_posicion(size - 1).puntero = Pun(u) /\ setear_posicion(s).dato = Dat(k)
  <2>1. /\ setear_posicion(size - 1) = [puntero |-> Pun(u), dato |-> Dat(u)]
        /\ setear_posicion(s) = [puntero |-> Pun(k), dato |-> Dat(k)]
    BY <1>3, <1>5, Posicion DEF Ultimo
  <2>2. QED BY <2>1
<1>9. Hacen(s) = k + 1
  <2>1. s = 0 => k = 0 BY Tamanos
  <2>2. QED BY <1>3, <1>4, <2>1, HacenProps
<1> HIDE DEF s, size, u, k, r
<1>10. Dat(k) \in Nat /\ Dat(u) \in Nat /\ Dat(u) < P /\ Pun(u) \in Nat /\ u = x + Dat(u)
       /\ Pun(k) = Pun(u) /\ k = x + Dat(k)
  <2>1. Dat(u) \in Entrada /\ Dat(u) \in Nat /\ Pun(u) \in Nat /\ u = x + Dat(u) BY <1>6, Lugares
  <2>2. Dat(k) \in Nat /\ k = x + Dat(k) BY <1>4, <1>6, Lugares
  <2> HIDE DEF x
  <2>3. QED BY <1>4, <1>6, <2>1, <2>2 DEF Entrada
<1>11. r \in Nat /\ r > 0 /\ r < P BY <1>3, <1>4, <1>6, <1>10
<1>12. x \in Nat BY <1>6, <1>10
<1>13. m = x + r /\ m - 1 = x + (r - 1) /\ m \in Nat /\ m - 1 \in Nat /\ r - 1 \in Nat /\ r - 1 < P
       /\ k < m /\ (r - 1 = Dat(k) => m = k + 1)
  <2> DEFINE a == Dat(u)
             b == Dat(k)
  <2>1. a \in Nat /\ b \in Nat /\ u = x + a /\ k = x + b /\ b < r /\ m = u - a + r
    BY <1>4, <1>10
  <2> HIDE DEF a, x, m
  <2>2. m = x + r /\ m - 1 = x + (r - 1) /\ m \in Nat /\ m - 1 \in Nat /\ r - 1 \in Nat /\ r - 1 < P
    BY <1>6, <1>11, <1>12, <2>1
  <2> HIDE DEF b
  <2>3. k < m /\ (r - 1 = b => m = k + 1) BY <1>11, <1>12, <2>1, <2>2
  <2>4. QED BY <2>2, <2>3 DEF b
<1>14. Pun(m) = Pun(u) /\ Dat(m) = r /\ Pun(m - 1) = Pun(u)
  <2>1. (P * Pun(u) + r) \div P = Pun(u) /\ (P * Pun(u) + r) % P = r
    BY <1>6, <1>10, <1>11, DivUnico
  <2>2. (P * Pun(u) + (r - 1)) \div P = Pun(u)
    BY <1>6, <1>10, <1>13, DivUnico
  <2> HIDE DEF m
  <2>3. m = P * Pun(u) + r /\ m - 1 = P * Pun(u) + (r - 1) BY <1>13
  <2>4. QED BY <2>1, <2>2, <2>3 DEF Pun, Dat
<1>15. /\ nodo[c].state = 1 /\ hilo[c].op = "truncate" /\ Baja(c)
       /\ size \in Nat /\ size # 0
       /\ s \in Nat /\ u \in Nat /\ r \in Nat /\ m \in Nat /\ m - 1 \in Nat
       /\ Pun(m) = Pun(u) /\ Dat(m) = r /\ Pun(m - 1) = Pun(u)
       /\ setear_posicion(size - 1).puntero = Pun(u)
       /\ setear_posicion(s).dato = Dat(k) /\ Hacen(s) = k + 1
       /\ k \in Nat /\ Dat(k) \in Nat /\ Dat(k) < r /\ k < m
       /\ r - 1 = Dat(k) => m = k + 1
  <2> HIDE DEF m
  <2>1. QED BY <1>2, <1>3, <1>4, <1>5, <1>6, <1>8, <1>9, <1>10, <1>11, <1>13, <1>14
<1>16. QED BY <1>15 DEF s, size, u, k, r

LEMMA Paso_delete_nodes_upto ==
  ASSUME Bueno, NEW c \in Cliente, delete_nodes_upto(c)
  PROVE  EfectoBien(c) /\ NadaDeMas(c)
<1>0. PICK m : m = Ultimo(file_size(c)) - Dat(Ultimo(file_size(c))) + hilo[c].resto BY SMTT(60)
<1>1. Partida(c) BY Parte
<1> DEFINE r == hilo[c].resto
           b == nodo[c].indirect_blocks_array[Pun(m)]
           e == punteros[b][r]
           h == [hilo[c] EXCEPT !.nuevo = e, !.pc = "marca"]
<1>2. /\ hilo[c].pc = "recorta" /\ UNCHANGED <<bitmap, datos, nodo, escrito>>
  BY DEF delete_nodes_upto, En, tabla
<1>3. /\ nodo[c].state = 1 /\ hilo[c].op = "truncate" /\ Baja(c)
      /\ r \in Nat /\ m \in Nat /\ m - 1 \in Nat
      /\ Dat(m) = r /\ Pun(m - 1) = Pun(m)
      /\ setear_posicion(file_size(c) - 1).puntero = Pun(m)
  BY SMTT(60), <1>0, <1>2, ParteCorta
<1>4. punteros' = [punteros EXCEPT ![b][r] = 0] /\ hilo' = [hilo EXCEPT ![c] = h]
  BY <1>3 DEF delete_nodes_upto
<1>5. Cuantos(c) = m + 1 BY <1>0, <1>2, <1>3 DEF Cuantos
<1>6. m \in Ind(c) /\ m - 1 \in Ind(c) BY <1>3, <1>5 DEF Ind
<1>7. b = PunB(c, m) /\ e = DatB(c, m) /\ b = PunB(c, m - 1) BY <1>3 DEF PunB, DatB
<1> HIDE DEF b, e
<1>8. b \in Bloque /\ e \in Bloque /\ e \in Int /\ r \in Entrada
  <2>1. b \in Bloque /\ e \in Bloque BY <1>1, <1>6, <1>7 DEF Partida, Entero
  <2>2. QED BY <1>3, <2>1, Lugares, DiscoAssumption DEF DiscoAssumption, Bloque
<1>9. /\ h \in Hilos /\ h.pc = "marca" /\ h.nuevo = e /\ h.op = hilo[c].op /\ h.off = hilo[c].off
      /\ h.tam = hilo[c].tam /\ h.en_bloque = hilo[c].en_bloque /\ h.size = hilo[c].size
      /\ h.resto = r /\ h.espacio = hilo[c].espacio
  BY <1>1, <1>8 DEF Partida, Hilos
<1> HIDE DEF h, r
<1>10. /\ punteros' \in [Bloque -> [Entrada -> Int]]
       /\ \A d \in Bloque : d # b => punteros'[d] = punteros[d]
       /\ \A j \in Entrada : j # r => punteros'[b][j] = punteros[b][j]
  BY <1>1, <1>4, <1>8 DEF Partida, TipoDisco
<1>11. hilo'[c] = h /\ SoloDe(c) /\ TipoDisco'
  BY <1>1, <1>2, <1>4, <1>9, <1>10 DEF Partida, TipoDisco, SoloDe
<1>12. file_size(c)' = file_size(c) BY <1>2 DEF file_size
<1>13. Cuantos(c)' = m
  <2>1. Cuantos(c)' = Ultimo(file_size(c)) - Dat(Ultimo(file_size(c))) + hilo[c].resto
    BY <1>2, <1>3, <1>9, <1>11, <1>12 DEF Cuantos, r
  <2>2. QED BY <1>0, <2>1
<1>14. EnMano(c) = {} /\ EnMano(c)' = {e} BY <1>2, <1>9, <1>11 DEF EnMano
<1>15. /\ Ind(c)' \subseteq Ind(c) /\ Ind(c) = Ind(c)' \cup {m} /\ m \notin Ind(c)' /\ m - 1 \in Ind(c)'
       /\ \A k \in Ind(c) : k \in Nat
  BY <1>3, <1>5, <1>13 DEF Ind
<1>16. \A k : PunB(c, k)' = PunB(c, k) BY <1>2 DEF PunB
<1>17. /\ \A k \in Ind(c) : Pun(k + 1) < BLKINDIRECT /\ PunB(c, k) \in Bloque /\ DatB(c, k) \in Bloque
       /\ \A k, l \in Ind(c) : /\ PunB(c, k) = PunB(c, l) => Pun(k) = Pun(l)
                               /\ DatB(c, k) = DatB(c, l) => k = l
                               /\ PunB(c, k) # DatB(c, l)
  BY <1>1 DEF Partida, Entero
<1>18. \A k \in Ind(c)' : DatB(c, k)' = DatB(c, k)
  <2>1. SUFFICES ASSUME NEW k \in Ind(c), k # m PROVE DatB(c, k)' = DatB(c, k)
    BY <1>15
  <2>2. k \in Nat /\ Dat(k) \in Entrada BY <1>15, Lugares
  <2>3. PunB(c, k) = b => Pun(k) = Pun(m) BY <1>6, <1>7, <1>17
  <2>4. PunB(c, k) = b => Dat(k) # r BY <1>3, <2>1, <2>2, <2>3, LugarUnico DEF r
  <2>5. PunB(c, k) \in Bloque BY <1>17
  <2>6. punteros'[PunB(c, k)][Dat(k)] = punteros[PunB(c, k)][Dat(k)]
    BY <1>10, <2>2, <2>4, <2>5
  <2>7. QED BY <1>16, <2>6 DEF DatB
<1>19. Suyos(c)' = Suyos(c)
  <2>1. {PunB(c, k)' : k \in Ind(c)'} = {PunB(c, k) : k \in Ind(c)}
    BY <1>7, <1>15, <1>16
  <2>2. {DatB(c, k)' : k \in Ind(c)'} = {DatB(c, k) : k \in Ind(c)'} BY <1>18
  <2>3. {DatB(c, k) : k \in Ind(c)} = {DatB(c, k) : k \in Ind(c)'} \cup {e} BY <1>7, <1>15
  <2>4. Suyos(c)' = {PunB(c, k) : k \in Ind(c)} \cup {DatB(c, k) : k \in Ind(c)'} \cup {e}
    BY <1>14, <2>1, <2>2 DEF Suyos
  <2>5. Suyos(c) = {PunB(c, k) : k \in Ind(c)} \cup {DatB(c, k) : k \in Ind(c)}
    BY <1>14 DEF Suyos
  <2>6. QED BY <2>3, <2>4, <2>5
<1>20. Entero(c)'
  <2>1. \A k \in Ind(c)' : Pun(k + 1) < BLKINDIRECT /\ PunB(c, k)' \in Bloque /\ DatB(c, k)' \in Bloque
    BY <1>15, <1>16, <1>17, <1>18
  <2>2. \A k, l \in Ind(c)' : /\ PunB(c, k)' = PunB(c, l)' => Pun(k) = Pun(l)
                              /\ DatB(c, k)' = DatB(c, l)' => k = l
                              /\ PunB(c, k)' # DatB(c, l)'
    BY <1>15, <1>16, <1>17, <1>18
  <2>3. \A k \in Ind(c)' : PunB(c, k)' \notin EnMano(c)' /\ DatB(c, k)' \notin EnMano(c)'
    BY <1>6, <1>7, <1>14, <1>15, <1>16, <1>17, <1>18
  <2>4. \A k \in Ind(c)' : k = Cuantos(c)' - 1 /\ Pun(k) + 1 < BLKINDIRECT =>
          nodo'[c].indirect_blocks_array[Pun(k) + 1] = 0
    <3>1. SUFFICES ASSUME Pun(m - 1) + 1 < BLKINDIRECT
                   PROVE  nodo'[c].indirect_blocks_array[Pun(m - 1) + 1] = 0
      BY <1>13
    <3>2. \A k \in Ind(c) : k = Cuantos(c) - 1 /\ Pun(k) + 1 < BLKINDIRECT =>
            nodo[c].indirect_blocks_array[Pun(k) + 1] = 0
      BY <1>1 DEF Partida, Entero
    <3>3. m = Cuantos(c) - 1 BY <1>3, <1>5
    <3>4. QED BY <1>2, <1>3, <1>6, <3>1, <3>2, <3>3
  <2>5. EnMano(c)' \subseteq Bloque BY <1>8, <1>14
  <2>6. QED BY <2>1, <2>2, <2>3, <2>4, <2>5 DEF Entero
<1>21. Fiel(c)'
  <2>1. Fiel(c) BY <1>1 DEF Partida
  <2>2. QED BY <1>2, <1>15, <1>18, <2>1 DEF Fiel
<1>22. HiloBien(c)'
  <2>1. Baja(c)' BY <1>3, <1>9, <1>11, <1>12 DEF Baja, r
  <2>2. escrito'[c] \subseteq 0 .. (file_size(c)' - 1)
    BY <1>1, <1>2, <1>12 DEF Partida, HiloBien
  <2>3. QED BY <1>2, <1>3, <1>9, <1>11, <2>1, <2>2 DEF HiloBien
<1>23. Efecto(c) /\ NadaDeMas(c)
  <2>1. Suyos(c) \subseteq bitmap /\ bitmap \subseteq Bloque BY <1>1 DEF Partida, TipoDisco
  <2>2. b \in Suyos(c) BY <1>6, <1>7 DEF Suyos
  <2>3. \A d \in bitmap \ Suyos(c) : punteros'[d] = punteros[d] BY <1>10, <2>1, <2>2
  <2>4. QED BY <1>2, <1>11, <1>19, <2>1, <2>3 DEF Efecto, NadaDeMas, SoloDe
<1>24. QED BY <1>11, <1>20, <1>21, <1>22, <1>23 DEF EfectoBien

LEMMA Paso_delete_nodes_upto_bitmap ==
  ASSUME Bueno, NEW c \in Cliente, delete_nodes_upto_bitmap(c)
  PROVE  EfectoBien(c) /\ NadaDeMas(c)
<1>0. PICK m, k : /\ m = Ultimo(file_size(c)) - Dat(Ultimo(file_size(c))) + hilo[c].resto
                  /\ k = hilo[c].size \div BLOQUE_SIZE
  OBVIOUS
<1>1. Partida(c) BY Parte
<1> DEFINE r == hilo[c].resto
           e == hilo[c].nuevo
           y == IF r - 1 = Dat(k) THEN "talla" ELSE "recorta"
           h == [hilo[c] EXCEPT !.resto = r - 1, !.nuevo = 0, !.pc = y]
<1>2. /\ hilo[c].pc = "marca" /\ UNCHANGED <<punteros, datos, nodo, escrito>>
      /\ bitmap' = bitmap \ {e}
  BY DEF delete_nodes_upto_bitmap, En, tabla, disco
<1>3. /\ nodo[c].state = 1 /\ hilo[c].op = "truncate" /\ Baja(c)
      /\ r \in Nat /\ m \in Nat /\ m - 1 \in Nat
      /\ setear_posicion(hilo[c].size).dato = Dat(k) /\ Hacen(hilo[c].size) = k + 1
      /\ Dat(k) \in Nat /\ Dat(k) < r
      /\ r - 1 = Dat(k) => m = k + 1
  BY <1>0, <1>2, ParteCorta
<1>4. hilo' = [hilo EXCEPT ![c] = h] BY <1>3 DEF delete_nodes_upto_bitmap
<1>5. y \in {"talla", "recorta"} OBVIOUS
<1> HIDE DEF y
<1>6. /\ h \in Hilos /\ h.pc = y /\ h.op = "truncate" /\ h.size = hilo[c].size
      /\ h.resto = r - 1
  <2> DEFINE v == r - 1
             f == [hilo[c] EXCEPT !.resto = v]
             g == [f EXCEPT !.nuevo = 0]
  <2>1. v \in Int BY <1>3
  <2>2. h = [g EXCEPT !.pc = y] BY <1>1 DEF Partida, Hilos
  <2> HIDE DEF v, h
  <2>3. f \in Hilos /\ f.op = "truncate" /\ f.size = hilo[c].size /\ f.resto = v
    BY <1>1, <1>3, <2>1 DEF Partida, Hilos
  <2> HIDE DEF f
  <2>4. g \in Hilos /\ g.op = "truncate" /\ g.size = hilo[c].size /\ g.resto = v
    BY <2>3 DEF Hilos
  <2> HIDE DEF g
  <2>5. h \in Hilos /\ h.pc = y /\ h.op = "truncate" /\ h.size = hilo[c].size /\ h.resto = v
    BY <1>5, <2>2, <2>4 DEF Hilos
  <2>6. QED BY <2>5 DEF v
<1> HIDE DEF h
<1>7. hilo'[c] = h /\ SoloDe(c) /\ TipoDisco'
  BY <1>1, <1>2, <1>4, <1>6 DEF Partida, TipoDisco, SoloDe
<1>8. Cuantos(c) = m BY <1>0, <1>2, <1>3 DEF Cuantos
<1>9. file_size(c)' = file_size(c) BY <1>2 DEF file_size
<1>10. Cuantos(c)' = m
  <2>1. CASE y = "talla"
    <3>1. r - 1 = Dat(k) BY <2>1 DEF y
    <3>2. Cuantos(c)' = Hacen(hilo[c].size) BY <1>2, <1>3, <1>6, <1>7, <2>1 DEF Cuantos
    <3>3. QED BY <1>3, <3>1, <3>2
  <2>2. CASE y = "recorta"
    <3> DEFINE u == Ultimo(file_size(c))
    <3>1. Cuantos(c)' = u - Dat(u) + (r - 1) + 1
      BY <1>2, <1>3, <1>6, <1>7, <1>9, <2>2 DEF Cuantos
    <3>2. u \in Nat /\ Dat(u) \in Nat
      <4>1. u \in Nat BY <1>2, ParteCorta
      <4>2. QED BY <4>1, Lugares
    <3>3. m = u - Dat(u) + r BY <1>0
    <3> HIDE DEF u, r
    <3>4. QED BY <1>3, <3>1, <3>2, <3>3
  <2>3. QED BY <1>5, <2>1, <2>2
<1>11. EnMano(c) = {e} /\ EnMano(c)' = {} BY <1>2, <1>5, <1>6, <1>7 DEF EnMano
<1>12. Ind(c)' = Ind(c) /\ \A i : PunB(c, i)' = PunB(c, i) /\ DatB(c, i)' = DatB(c, i)
  BY <1>2, <1>8, <1>10 DEF Ind, PunB, DatB
<1>13. Entero(c) BY <1>1 DEF Partida
<1>14. Suyos(c)' = Suyos(c) \ {e}
  <2>1. \A i \in Ind(c) : PunB(c, i) # e /\ DatB(c, i) # e BY <1>11, <1>13 DEF Entero
  <2>2. QED BY <1>11, <1>12, <2>1 DEF Suyos
<1>15. Entero(c)' BY <1>2, <1>8, <1>10, <1>11, <1>12, <1>13 DEF Entero
<1>16. Fiel(c)'
  <2>1. Fiel(c) BY <1>1 DEF Partida
  <2>2. QED BY <1>2, <1>12, <2>1 DEF Fiel
<1>17. HiloBien(c)'
  <2>1. y = "recorta" => Baja(c)'
    <3>1. SUFFICES ASSUME y = "recorta" PROVE Baja(c)' OBVIOUS
    <3>2. r - 1 # Dat(k) BY <3>1 DEF y
    <3> DEFINE u == Ultimo(file_size(c))
    <3>3. /\ hilo[c].size < file_size(c) /\ (hilo[c].size = 0 \/ hilo[c].size % BLOQUE_SIZE # 0)
          /\ Pun(k) = Pun(u) /\ r <= Dat(u)
      BY <1>0, <1>3 DEF Baja
    <3>4. u \in Nat /\ Dat(u) \in Nat
      <4>1. u \in Nat BY <1>2, ParteCorta
      <4>2. QED BY <4>1, Lugares
    <3> DEFINE a == Dat(k)
               b == Dat(u)
    <3>5. a < r - 1 /\ r - 1 <= b
      <4>1. a \in Nat /\ b \in Nat /\ r \in Nat /\ a < r /\ r - 1 # a /\ r <= b
        BY <1>3, <3>2, <3>3, <3>4
      <4> HIDE DEF a, b, r
      <4>2. QED BY <4>1
    <3>6. QED BY <1>0, <1>6, <1>7, <1>9, <3>3, <3>5 DEF Baja
  <2>2. escrito'[c] \subseteq 0 .. (file_size(c)' - 1)
    BY <1>1, <1>2, <1>9 DEF Partida, HiloBien
  <2>3. QED BY <1>2, <1>3, <1>5, <1>6, <1>7, <2>1, <2>2 DEF HiloBien
<1>18. Efecto(c) /\ NadaDeMas(c)
  <2>1. Suyos(c) \subseteq bitmap /\ e \in Suyos(c) BY <1>1, <1>11 DEF Partida, Suyos
  <2>2. QED BY <1>2, <1>7, <1>14, <2>1 DEF Efecto, NadaDeMas, SoloDe
<1>19. QED BY <1>7, <1>15, <1>16, <1>17, <1>18 DEF EfectoBien

\* borrar_contenido marks as free what the file has, and a 0 that is no block.
LEMMA BorradoEs ==
  ASSUME Bueno, NEW c \in Cliente, hilo[c].pc = "borra"
  PROVE  Suyos(c) \subseteq Borrado(c) /\ Borrado(c) \subseteq Suyos(c) \cup {0}
<1> DEFINE size == file_size(c)
           u == Ultimo(size)
           q == size \div BLOQUE_SIZE
           a == nodo[c].indirect_blocks_array
           P == PUNTEROS_A_BLOQUES_DATOS
<1>1. Partida(c) BY Parte
<1>2. nodo[c].state = 1 /\ size # 0 /\ size \in Nat BY <1>1 DEF Partida, HiloBien, Nodos
<1>3. Cuantos(c) = Hacen(size) BY <1>2 DEF Cuantos
<1>4. /\ u \in Nat /\ Hacen(size) = u + 1 /\ q \in Nat /\ BLOQUE_SIZE \in Nat \ {0} /\ P \in Nat \ {0}
      /\ q = u \/ q = u + 1
  BY <1>2, HacenProps, Tamanos
<1>5. Techo(size, BLOQUE_SIZE) = u + 1
  <2>1. Techo(size, BLOQUE_SIZE) \in Int
    <3> DEFINE x == size + BLOQUE_SIZE - 1
    <3>1. x \in Int BY <1>2, <1>4
    <3> HIDE DEF x
    <3>2. x \div BLOQUE_SIZE \in Int BY <1>4, <3>1
    <3>3. QED BY <3>2 DEF Techo, x
  <2> DEFINE t == Techo(size, BLOQUE_SIZE)
  <2>2. Hacen(size) = IF t >= 1 THEN t ELSE 1 BY <2>1, MaxDos DEF Hacen
  <2>3. t >= 1
    <3> DEFINE x == size + BLOQUE_SIZE - 1
    <3>1. x \in Nat /\ x >= BLOQUE_SIZE BY <1>2, <1>4
    <3> HIDE DEF x
    <3>2. x \div BLOQUE_SIZE \in Nat /\ x % BLOQUE_SIZE \in Nat /\ x % BLOQUE_SIZE < BLOQUE_SIZE
          /\ x = BLOQUE_SIZE * (x \div BLOQUE_SIZE) + (x % BLOQUE_SIZE)
      BY <1>4, <3>1, DivProps
    <3>3. x \div BLOQUE_SIZE # 0
      <4>1. x \div BLOQUE_SIZE = 0 => x = x % BLOQUE_SIZE BY <1>4, <3>2
      <4>2. QED BY <1>4, <3>1, <3>2, <4>1
    <3>4. x \div BLOQUE_SIZE >= 1 BY <3>2, <3>3
    <3>5. QED BY <3>4 DEF Techo, x
  <2> HIDE DEF t
  <2>4. t = u + 1 BY <1>4, <2>2, <2>3
  <2>5. QED BY <2>4 DEF t
<1>6. size \div Direccionable = Pun(q)
  <2>1. setear_posicion(size) = [puntero |-> Pun(q), dato |-> Dat(q)] BY <1>2, Posicion
  <2>2. setear_posicion(size).puntero = size \div Direccionable BY DEF setear_posicion
  <2>3. QED BY <2>1, <2>2
<1> HIDE DEF size, u, q, a, P
<1>7. Ind(c) = 0 .. u
  <2>1. Cuantos(c) - 1 = u BY <1>3, <1>4
  <2>2. QED BY <2>1 DEF Ind
<1>8. \A k \in Ind(c) : k \in Nat /\ PunB(c, k) \in Bloque /\ DatB(c, k) \in Bloque /\ PunB(c, k) # 0
  BY <1>1, <1>7 DEF Partida, Entero, Bloque
<1>9. \A k \in Ind(c) : BloqueDe(c, k * BLOQUE_SIZE) = DatB(c, k)
  <2>1. SUFFICES ASSUME NEW k \in Ind(c) PROVE BloqueDe(c, k * BLOQUE_SIZE) = DatB(c, k) OBVIOUS
  <2> DEFINE o == k * BLOQUE_SIZE
  <2>2. k \in Nat BY <1>8
  <2>3. o = BLOQUE_SIZE * k + 0 /\ o \in Nat /\ 0 \in Nat /\ 0 < BLOQUE_SIZE BY <1>4, <2>2
  <2>4. (BLOQUE_SIZE * k + 0) \div BLOQUE_SIZE = k BY <1>4, <2>2, <2>3, DivUnico
  <2> HIDE DEF o
  <2>5. setear_posicion(o) = [puntero |-> Pun(k), dato |-> Dat(k)] BY <2>3, <2>4, Posicion
  <2>6. nodo[c].indirect_blocks_array[Pun(k)] # 0 BY <1>8 DEF PunB
  <2>7. BloqueDe(c, o) = DatB(c, k) BY <2>5, <2>6 DEF BloqueDe, PunB, DatB
  <2>8. QED BY <2>7 DEF o
<1>10. Borrado(c) = {a[i] : i \in 0 .. Pun(q)} \cup {DatB(c, k) : k \in Ind(c)}
  <2>1. Borrado(c) = {a[i] : i \in 0 .. Pun(q)}
                       \cup {BloqueDe(c, k * BLOQUE_SIZE) : k \in 0 .. ((u + 1) - 1)}
    BY <1>5, <1>6 DEF Borrado, size, a
  <2>2. (u + 1) - 1 = u BY <1>4
  <2>3. {BloqueDe(c, k * BLOQUE_SIZE) : k \in 0 .. u} = {DatB(c, k) : k \in Ind(c)}
    BY <1>7, <1>9
  <2>4. QED BY <2>1, <2>2, <2>3
<1>11. EnMano(c) = {} BY DEF EnMano
<1>12. Suyos(c) \subseteq Borrado(c)
  <2>1. \A k \in Ind(c) : Pun(k) \in 0 .. Pun(q) /\ PunB(c, k) = a[Pun(k)]
    <3>1. SUFFICES ASSUME NEW k \in Ind(c) PROVE Pun(k) \in 0 .. Pun(q) /\ PunB(c, k) = a[Pun(k)]
      OBVIOUS
    <3>2. k \in Nat /\ k <= q BY <1>4, <1>7
    <3>3. Pun(k) \in Nat /\ Pun(q) \in Nat /\ Pun(k) <= Pun(q) BY <1>4, <3>2, Lugares, LugarOrden
    <3>4. QED BY <3>3 DEF PunB, a
  <2>2. QED BY <1>10, <1>11, <2>1 DEF Suyos
<1>13. \A i \in 0 .. Pun(q) : a[i] \in Suyos(c) \cup {0}
  <2>1. SUFFICES ASSUME NEW i \in 0 .. Pun(q) PROVE a[i] \in Suyos(c) \cup {0} OBVIOUS
  <2>2. Pun(u) \in Nat /\ Pun(q) \in Nat /\ u \in Ind(c) BY <1>4, <1>7, Lugares
  <2>3. CASE i <= Pun(u)
    <3> DEFINE k == P * i + 0
    <3>1. i \in Nat /\ 0 \in Nat /\ 0 < P BY <1>4, <2>2
    <3>2. k \div P = i BY <1>4, <3>1, DivUnico
    <3>3. k \in Nat BY <1>4, <3>1
    <3>4. k <= u
      <4>1. u = P * Pun(u) + Dat(u) /\ Dat(u) \in Nat BY <1>4, Lugares DEF P
      <4>2. P * i <= P * Pun(u) BY <1>4, <2>2, <2>3, <3>1
      <4> DEFINE x == P * i
                 z == P * Pun(u)
      <4>3. x \in Nat /\ z \in Nat /\ k = x + 0 BY <1>4, <2>2, <3>1
      <4> HIDE DEF x, z, k
      <4>4. QED BY <1>4, <4>1, <4>2, <4>3 DEF x, z
    <3> HIDE DEF k
    <3>5. k \in Ind(c) /\ Pun(k) = i BY <1>4, <1>7, <3>2, <3>3, <3>4 DEF Pun, P
    <3>6. QED BY <3>5 DEF Suyos, PunB, a
  <2>4. CASE i > Pun(u)
    <3>1. q = u + 1
      <4>1. q # u BY <2>2, <2>4
      <4>2. QED BY <1>4, <4>1
    <3>2. i = Pun(u) + 1 /\ Pun(q) = Pun(u) + 1
      <4>1. Pun(u + 1) = Pun(u) \/ Pun(u + 1) = Pun(u) + 1 BY <1>4, Lugares
      <4>2. QED BY <2>2, <2>4, <3>1, <4>1
    <3>3. Pun(u + 1) < BLKINDIRECT BY <1>1, <2>2 DEF Partida, Entero
    <3>4. u = Cuantos(c) - 1 BY <1>3, <1>4
    <3>5. Pun(u) + 1 < BLKINDIRECT BY <3>1, <3>2, <3>3
    <3>6. nodo[c].indirect_blocks_array[Pun(u) + 1] = 0
      BY <1>1, <2>2, <3>4, <3>5 DEF Partida, Entero
    <3>7. QED BY <3>2, <3>6 DEF a
  <2>5. QED BY <2>2, <2>3, <2>4
<1>14. QED BY <1>10, <1>12, <1>13 DEF Suyos

LEMMA Paso_borrar_contenido ==
  ASSUME Bueno, NEW c \in Cliente, borrar_contenido(c)
  PROVE  EfectoBien(c) /\ NadaDeMas(c)
<1> DEFINE n == [nodo[c] EXCEPT !.state = 0, !.file_size = 0]
<1>1. Partida(c) BY Parte
<1>2. /\ hilo[c].pc = "borra" /\ bitmap' = bitmap \ Borrado(c)
      /\ punteros' = [b \in Bloque |-> IF b \in Borrado(c) THEN SinPunteros ELSE punteros[b]]
      /\ nodo' = [nodo EXCEPT ![c] = n] /\ Pierde(c, 0)
      /\ hilo' = [hilo EXCEPT ![c] = Reposo]
  BY DEF borrar_contenido, En, Termina, BorraNodo
<1>3. n \in Nodos /\ n.state = 0 /\ n.file_size = 0 BY <1>1 DEF Partida, Nodos
<1> HIDE DEF n
<1>4. /\ datos' \in [Bloque -> [0 .. (BLOQUE_SIZE - 1) -> Octeto]]
      /\ escrito' \in [Cliente -> SUBSET Nat] /\ escrito'[c] = {x \in escrito[c] : x < 0}
      /\ \A d \in Cliente \ {c} : escrito'[d] = escrito[d]
      /\ \A b \in Bloque : \A y \in 0 .. (BLOQUE_SIZE - 1) :
           datos[b][y] # <<>> /\ datos[b][y][1] # c => datos'[b][y] = datos[b][y]
  <2>1. TipoDisco /\ 0 \in Nat BY <1>1 DEF Partida
  <2>2. QED BY <1>2, <2>1, PierdeProps
<1>5. punteros' \in [Bloque -> [Entrada -> Int]]
      /\ \A b \in Bloque : b \notin Borrado(c) => punteros'[b] = punteros[b]
  <2>1. SinPunteros \in [Entrada -> Int] BY DEF SinPunteros
  <2>2. punteros \in [Bloque -> [Entrada -> Int]] BY <1>1 DEF Partida, TipoDisco
  <2>3. QED BY <1>2, <2>1, <2>2
<1>6. hilo'[c] = Reposo /\ nodo'[c] = n /\ SoloDe(c) /\ TipoDisco'
  BY <1>1, <1>2, <1>3, <1>4, <1>5, ReposoTipo DEF Partida, TipoDisco, SoloDe
<1>7. escrito'[c] = {}
  <2>1. escrito[c] \subseteq Nat BY <1>1 DEF Partida, TipoDisco
  <2>2. QED BY <1>4, <2>1
<1>8. HiloBien(c)' BY <1>3, <1>6, <1>7, ReposoTipo DEF HiloBien, file_size
<1>9. Suyos(c)' = {} /\ Entero(c)' /\ Fiel(c)' BY <1>3, <1>6, ReposoTipo, SinBloques
<1>10. Suyos(c) \subseteq Borrado(c) /\ Borrado(c) \subseteq Suyos(c) \cup {0} BY <1>2, BorradoEs
<1>11. bitmap \subseteq Bloque /\ 0 \notin Bloque BY <1>1 DEF Partida, TipoDisco, Bloque
<1>12. Efecto(c)
  <2>1. bitmap \ Suyos(c) \subseteq bitmap' BY <1>2, <1>10, <1>11
  <2>2. \A b \in bitmap \ Suyos(c) : punteros'[b] = punteros[b] BY <1>5, <1>10, <1>11
  <2>3. QED BY <1>4, <1>6, <1>9, <1>11, <2>1, <2>2 DEF Efecto, SoloDe
<1>13. NadaDeMas(c) BY <1>2, <1>9, <1>10 DEF NadaDeMas
<1>14. QED BY <1>6, <1>8, <1>9, <1>12, <1>13 DEF EfectoBien

-----------------------------------------------------------------------------
(* The invariant is inductive                                              *)

LEMMA PasoDe ==
  ASSUME Bueno, SinExtremos, NEW c \in Cliente, pide(c) \/ fuse_invoke_function(c), ~ sin_lugar'
  PROVE  EfectoBien(c) /\ ("vacio" \notin Extremos => NadaDeMas(c))
<1>1. CASE mknod(c) BY <1>1, Paso_mknod
<1>2. CASE escribir_archivo(c) BY <1>2, Paso_escribir_archivo
<1>3. CASE borrar_archivo(c) BY <1>3, Paso_borrar_archivo
<1>4. CASE truncar_archivo(c) BY <1>4, Paso_truncar_archivo
<1>5. CASE crear_nuevo_nodo(c) BY <1>5, Paso_crear_nuevo_nodo
<1>6. CASE crear_nuevo_nodo_fin(c) BY <1>6, Paso_crear_nuevo_nodo_fin
<1>7. CASE toma_bloque(c) BY <1>7, Paso_toma_bloque
<1>8. CASE agregar_nodo(c) BY <1>8, Paso_agregar_nodo
<1>9. CASE agregar_nodo_puntero(c) BY <1>9, Paso_agregar_nodo_puntero
<1>10. CASE escribir_archivo_mide(c) BY <1>10, Paso_escribir_archivo_mide
<1>11. CASE escribir_archivo_en_nuevo(c) BY <1>11, Paso_escribir_archivo_en_nuevo
<1>12. CASE borrar_contenido(c) BY <1>12, Paso_borrar_contenido
<1>13. CASE truncar_archivo_fin(c) BY <1>13, Paso_truncar_archivo_fin
<1>14. CASE get_new_space(c) BY <1>14, Paso_get_new_space
<1>15. CASE get_new_space_suma(c) BY <1>15, Paso_get_new_space_suma
<1>16. CASE get_new_space_bloque(c) BY <1>16, Paso_get_new_space_bloque
<1>17. CASE delete_nodes_upto(c) BY <1>17, Paso_delete_nodes_upto
<1>18. CASE delete_nodes_upto_bitmap(c) BY <1>18, Paso_delete_nodes_upto_bitmap
<1>19. QED
  BY <1>1, <1>2, <1>3, <1>4, <1>5, <1>6, <1>7, <1>8, <1>9, <1>10, <1>11, <1>12, <1>13,
     <1>14, <1>15, <1>16, <1>17, <1>18 DEF pide, fuse_invoke_function

\* Once a request has found no room, that stays.
LEMMA SinLugarQueda ==
  ASSUME NEW c, pide(c) \/ fuse_invoke_function(c), sin_lugar
  PROVE  sin_lugar'
<1>1. CASE pide(c)
  BY <1>1 DEF pide, mknod, escribir_archivo, borrar_archivo, truncar_archivo
<1>2. CASE fuse_invoke_function(c)
  <2>1. CASE crear_nuevo_nodo(c) BY <2>1 DEF crear_nuevo_nodo
  <2>2. CASE crear_nuevo_nodo_fin(c) BY <2>2 DEF crear_nuevo_nodo_fin
  <2>3. CASE toma_bloque(c) BY <2>3 DEF toma_bloque, get_bloque_vacio
  <2>4. CASE agregar_nodo(c) BY <2>4 DEF agregar_nodo
  <2>5. CASE agregar_nodo_puntero(c) BY <2>5 DEF agregar_nodo_puntero, get_bloque_vacio
  <2>6. CASE escribir_archivo_mide(c) BY <2>6 DEF escribir_archivo_mide
  <2>7. CASE escribir_archivo_en_nuevo(c) BY <2>7 DEF escribir_archivo_en_nuevo
  <2>8. CASE borrar_contenido(c) BY <2>8 DEF borrar_contenido
  <2>9. CASE truncar_archivo_fin(c) BY <2>9 DEF truncar_archivo_fin
  <2>10. CASE get_new_space(c) BY <2>10 DEF get_new_space
  <2>11. CASE get_new_space_suma(c) BY <2>11 DEF get_new_space_suma
  <2>12. CASE get_new_space_bloque(c) BY <2>12 DEF get_new_space_bloque
  <2>13. CASE delete_nodes_upto(c) BY <2>13 DEF delete_nodes_upto
  <2>14. CASE delete_nodes_upto_bitmap(c) BY <2>14 DEF delete_nodes_upto_bitmap
  <2>15. QED
    BY <1>2, <2>1, <2>2, <2>3, <2>4, <2>5, <2>6, <2>7, <2>8, <2>9, <2>10, <2>11, <2>12, <2>13,
       <2>14 DEF fuse_invoke_function
<1>3. QED BY <1>1, <1>2

LEMMA DiscoInicia ==
  ASSUME Init
  PROVE  DiscoInv /\ TodoMarcado
<1>1. /\ bitmap = {} /\ punteros = [b \in Bloque |-> SinPunteros]
      /\ datos = [b \in Bloque |-> Vacio]
      /\ nodo = [c \in Cliente |-> [state |-> 0, file_size |-> 0,
               indirect_blocks_array |-> [i \in 0 .. (BLKINDIRECT - 1) |-> 0]]]
      /\ hilo = [c \in Cliente |-> Reposo] /\ escrito = [c \in Cliente |-> {}]
  BY DEF Init
<1>2. TipoDisco
  <2>1. SinPunteros \in [Entrada -> Int] BY DEF SinPunteros
  <2>2. Vacio \in [0 .. (BLOQUE_SIZE - 1) -> Octeto] BY DEF Vacio, Octeto
  <2>3. [i \in 0 .. (BLKINDIRECT - 1) |-> 0] \in [0 .. (BLKINDIRECT - 1) -> Bloque \cup {0}]
    OBVIOUS
  <2>4. nodo \in [Cliente -> Nodos] BY <1>1, <2>3 DEF Nodos
  <2>5. hilo \in [Cliente -> Hilos] BY <1>1, ReposoTipo
  <2>6. QED BY <1>1, <2>1, <2>2, <2>4, <2>5 DEF TipoDisco
<1>3. ASSUME NEW c \in Cliente
      PROVE  HiloBien(c) /\ Entero(c) /\ Fiel(c) /\ Suyos(c) = {}
  <2>1. nodo[c].state = 0 /\ nodo[c].file_size = 0 /\ hilo[c] = Reposo /\ escrito[c] = {} BY <1>1
  <2>2. HiloBien(c) BY <2>1, ReposoTipo DEF HiloBien, file_size
  <2>3. Ind(c) = {} /\ EnMano(c) = {} BY <2>1, ReposoTipo DEF Ind, Cuantos, EnMano
  <2>4. QED BY <2>2, <2>3 DEF Entero, Fiel, Suyos
<1>4. Bueno BY <1>2, <1>3 DEF Bueno
<1>5. QED BY <1>1, <1>4 DEF DiscoInv, TodoMarcado

LEMMA DiscoPaso ==
  ASSUME SinExtremos, DiscoInv, [Next]_vars
  PROVE  DiscoInv' /\ ("vacio" \notin Extremos /\ TodoMarcado => TodoMarcado')
<1>1. CASE UNCHANGED vars
  <2>1. UNCHANGED <<bitmap, punteros, datos, nodo, escrito, hilo, sin_lugar>>
    BY <1>1 DEF vars, tabla, disco
  <2>2. /\ \A c : file_size(c)' = file_size(c) BY <2>1 DEF file_size
  <2>3. \A c : Cuantos(c)' = Cuantos(c) BY <2>1, <2>2 DEF Cuantos
  <2>4. \A c : Ind(c)' = Ind(c) /\ EnMano(c)' = EnMano(c) BY <2>1, <2>3 DEF Ind, EnMano
  <2>5. \A c, k : PunB(c, k)' = PunB(c, k) /\ DatB(c, k)' = DatB(c, k) BY <2>1 DEF PunB, DatB
  <2>6. \A c : Suyos(c)' = Suyos(c) BY <2>4, <2>5 DEF Suyos
  <2>7. \A c : Entero(c)' <=> Entero(c) BY <2>1, <2>3, <2>4, <2>5 DEF Entero
  <2>8. \A c : Fiel(c)' <=> Fiel(c) BY <2>1, <2>4, <2>5 DEF Fiel
  <2>9. \A c : /\ AlFinal(c)' <=> AlFinal(c)
               /\ Falta(c)' <=> Falta(c)
               /\ Baja(c)' <=> Baja(c)
               /\ Alineado(c)' <=> Alineado(c)
    BY <2>1, <2>2 DEF AlFinal, Alineado, Falta, Baja
  <2>10. ASSUME NEW c PROVE HiloBien(c)' <=> HiloBien(c)
    <3>1. PICK n : n = Cuantos(c) OBVIOUS
    <3>2. DatB(c, n - 1)' = DatB(c, n - 1) BY <2>5
    <3>3. DatB(c, Cuantos(c) - 1)' = DatB(c, Cuantos(c) - 1) BY <2>1, <2>3, <3>1, <3>2 DEF DatB, PunB
    <3>4. QED BY <2>1, <2>2, <2>3, <2>9, <3>3 DEF HiloBien
  <2>11. TipoDisco' <=> TipoDisco BY <2>1 DEF TipoDisco
  <2>12. Bueno' <=> Bueno BY <2>1, <2>6, <2>7, <2>8, <2>10, <2>11 DEF Bueno
  <2>13. QED BY <2>1, <2>6, <2>12 DEF DiscoInv, TodoMarcado
<1>2. CASE Next
  <2>1. PICK c \in Cliente : pide(c) \/ fuse_invoke_function(c) BY <1>2 DEF Next
  <2>2. CASE sin_lugar' BY <2>2 DEF DiscoInv, TodoMarcado
  <2>3. CASE ~ sin_lugar'
    <3>1. ~ sin_lugar BY <2>1, <2>3, SinLugarQueda
    <3>2. Bueno BY <3>1 DEF DiscoInv
    <3>3. EfectoBien(c) /\ ("vacio" \notin Extremos => NadaDeMas(c)) BY <2>1, <2>3, <3>2, PasoDe
    <3>4. Bueno' /\ (TodoMarcado /\ ~ sin_lugar /\ NadaDeMas(c) => TodoMarcado')
      BY <3>2, <3>3, EfectoBasta
    <3>5. QED BY <3>1, <3>3, <3>4 DEF DiscoInv
  <2>4. QED BY <2>2, <2>3
<1>3. QED BY <1>1, <1>2

-----------------------------------------------------------------------------
(* What the invariant says of a file at rest                               *)

LEMMA BiyImagen ==
  ASSUME NEW S, NEW T, NEW f \in [S -> T], IsFiniteSet(S),
         \A x, y \in S : f[x] = f[y] => x = y, \A t \in T : \E x \in S : f[x] = t
  PROVE  IsFiniteSet(T) /\ Cardinality(T) = Cardinality(S)
<1>1. f \in Bijection(S, T) BY DEF Bijection, Injection, Surjection, IsInjective
<1>2. ExistsBijection(S, T) BY <1>1 DEF ExistsBijection
<1>3. QED BY <1>2, FS_Bijection

\* The blocks that a file at rest uses are the ones that the invariant gives it.
LEMMA UsaEs ==
  ASSUME Bueno, NEW c \in Cliente, Listo(c)
  PROVE  /\ Cuantos(c) = Hacen(file_size(c))
         /\ Usa(c) = Suyos(c)
         /\ Cardinality(Usa(c)) = Cardinality(Datos(c)) + Cardinality({p.puntero : p \in Datos(c)})
<1> DEFINE n == Max({Techo(file_size(c), BLOQUE_SIZE), 1})
           Lugar(k) == [puntero |-> Pun(k), dato |-> Dat(k)]
           a == nodo[c].indirect_blocks_array
           Q == {Pun(k) : k \in Ind(c)}
<1>1. Partida(c) /\ hilo[c].pc = "listo" /\ nodo[c].state = 1 BY Parte DEF Listo, En
<1>2. Cuantos(c) = Hacen(file_size(c)) /\ EnMano(c) = {} BY <1>1 DEF Cuantos, EnMano
<1>3. Cuantos(c) = n BY <1>2 DEF Hacen
<1> HIDE DEF n
<1>4. n \in Nat /\ Ind(c) = 0 .. (n - 1) BY <1>1, <1>3 DEF Partida, Ind
<1>5. BLOQUE_SIZE \in Nat \ {0} BY Tamanos
<1>6. \A k \in Ind(c) : k \in Nat /\ PunB(c, k) \in Bloque /\ DatB(c, k) \in Bloque /\ PunB(c, k) # 0
  BY <1>1, <1>4 DEF Partida, Entero, Bloque
<1>7. \A k, l \in Ind(c) : /\ PunB(c, k) = PunB(c, l) => Pun(k) = Pun(l)
                           /\ DatB(c, k) = DatB(c, l) => k = l
                           /\ PunB(c, k) # DatB(c, l)
  BY <1>1 DEF Partida, Entero
<1>8. ASSUME NEW k \in Ind(c)
      PROVE  setear_posicion(k * BLOQUE_SIZE) = Lugar(k) /\ BloqueDe(c, k * BLOQUE_SIZE) = DatB(c, k)
  <2> DEFINE o == k * BLOQUE_SIZE
  <2>1. k \in Nat BY <1>6
  <2>2. o = BLOQUE_SIZE * k + 0 /\ o \in Nat /\ 0 \in Nat /\ 0 < BLOQUE_SIZE BY <1>5, <2>1
  <2>3. (BLOQUE_SIZE * k + 0) \div BLOQUE_SIZE = k BY <1>5, <2>1, <2>2, DivUnico
  <2> HIDE DEF o
  <2>4. setear_posicion(o) = Lugar(k) BY <2>2, <2>3, Posicion
  <2>5. nodo[c].indirect_blocks_array[Pun(k)] # 0 BY <1>6 DEF PunB
  <2>6. BloqueDe(c, o) = DatB(c, k) BY <2>4, <2>5 DEF BloqueDe, PunB, DatB
  <2>7. QED BY <2>4, <2>6 DEF o
<1>9. Datos(c) = {Lugar(k) : k \in Ind(c)} BY <1>4, <1>8 DEF Datos, n
<1>10. DeDatos(c) = {DatB(c, k) : k \in Ind(c)} BY <1>4, <1>8 DEF DeDatos, n
<1>11. {p.puntero : p \in Datos(c)} = Q
  <2>1. \A p \in Datos(c) : \E k \in Ind(c) : p.puntero = Pun(k) BY <1>9
  <2>2. \A k \in Ind(c) : Lugar(k) \in Datos(c) /\ Lugar(k).puntero = Pun(k) BY <1>9
  <2> HIDE DEF Lugar
  <2>3. \A k \in Ind(c) : \E p \in Datos(c) : p.puntero = Pun(k) BY <2>2
  <2>4. QED BY <2>1, <2>3
<1>12. DePunteros(c) = {a[i] : i \in Q}
  <2>1. DePunteros(c) = {a[i] : i \in {p.puntero : p \in Datos(c)}} BY DEF DePunteros
  <2>2. QED BY <1>11, <2>1
<1>13. DePunteros(c) = {PunB(c, k) : k \in Ind(c)} BY <1>12 DEF PunB
<1>14. Usa(c) = Suyos(c) BY <1>2, <1>10, <1>13 DEF Usa, Suyos
<1>15. IsFiniteSet(Ind(c))
  <2>1. 0 \in Int /\ n - 1 \in Int BY <1>4
  <2>2. QED BY <1>4, <2>1, FS_Interval
<1>16. Cardinality(Datos(c)) = Cardinality(Ind(c))
  <2> DEFINE f == [k \in Ind(c) |-> Lugar(k)]
  <2>1. f \in [Ind(c) -> Datos(c)] BY <1>9
  <2>2. \A x, y \in Ind(c) : f[x] = f[y] => x = y BY <1>6, LugarUnico
  <2>3. \A t \in Datos(c) : \E x \in Ind(c) : f[x] = t BY <1>9
  <2> HIDE DEF f
  <2>4. QED BY <1>15, <2>1, <2>2, <2>3, BiyImagen
<1>17. IsFiniteSet(DeDatos(c)) /\ Cardinality(DeDatos(c)) = Cardinality(Ind(c))
  <2> DEFINE f == [k \in Ind(c) |-> DatB(c, k)]
  <2>1. f \in [Ind(c) -> DeDatos(c)] BY <1>10
  <2>2. \A x, y \in Ind(c) : f[x] = f[y] => x = y BY <1>7
  <2>3. \A t \in DeDatos(c) : \E x \in Ind(c) : f[x] = t BY <1>10
  <2> HIDE DEF f
  <2>4. QED BY <1>15, <2>1, <2>2, <2>3, BiyImagen
<1>18. IsFiniteSet(Q)
  <2> DEFINE f == [k \in Ind(c) |-> Pun(k)]
  <2>1. f \in Surjection(Ind(c), Q) BY DEF Surjection
  <2> HIDE DEF f, Q
  <2>2. QED BY <1>15, <2>1, FS_Surjection
<1>19. IsFiniteSet(DePunteros(c)) /\ Cardinality(DePunteros(c)) = Cardinality(Q)
  <2> DEFINE f == [i \in Q |-> a[i]]
  <2>1. f \in [Q -> DePunteros(c)] BY <1>12
  <2>2. \A x, y \in Q : f[x] = f[y] => x = y BY <1>7 DEF PunB
  <2>3. \A t \in DePunteros(c) : \E x \in Q : f[x] = t BY <1>12
  <2> HIDE DEF f, Q
  <2>4. QED BY <1>18, <2>1, <2>2, <2>3, BiyImagen
<1>20. DeDatos(c) \cap DePunteros(c) = {} BY <1>7, <1>10, <1>13
<1> HIDE DEF Q
<1>21. Cardinality(Usa(c)) = Cardinality(DeDatos(c)) + Cardinality(DePunteros(c))
  <2>1. Cardinality(Usa(c)) = Cardinality(DeDatos(c)) + Cardinality(DePunteros(c)) - Cardinality({})
    BY <1>17, <1>19, <1>20, FS_Union DEF Usa
  <2>2. /\ Cardinality({}) = 0 /\ Cardinality(DeDatos(c)) \in Nat
        /\ Cardinality(DePunteros(c)) \in Nat
    BY <1>17, <1>19, FS_EmptySet, FS_CardinalityType
  <2>3. QED BY <2>1, <2>2
<1>22. QED BY <1>2, <1>11, <1>14, <1>16, <1>17, <1>19, <1>21

LEMMA BloquesDeInv ==
  ASSUME DiscoInv
  PROVE  BloquesPropios
<1>1. SUFFICES ASSUME Bueno, NEW c \in Cliente, Listo(c)
               PROVE  /\ Usa(c) \subseteq bitmap
                      /\ Cardinality(Usa(c)) =
                           Cardinality(Datos(c)) + Cardinality({p.puntero : p \in Datos(c)})
                      /\ \A d \in Cliente \ {c} : Listo(d) => Usa(c) \cap Usa(d) = {}
  BY DEF DiscoInv, BloquesPropios
<1>2. Usa(c) = Suyos(c) BY <1>1, UsaEs
<1>3. Suyos(c) \subseteq bitmap BY <1>1 DEF Bueno
<1>4. ASSUME NEW d \in Cliente \ {c}, Listo(d) PROVE Usa(c) \cap Usa(d) = {}
  <2>1. Usa(d) = Suyos(d) BY <1>1, <1>4, UsaEs
  <2>2. Suyos(c) \cap Suyos(d) = {} BY <1>1, <1>4 DEF Bueno
  <2>3. QED BY <1>2, <2>1, <2>2
<1>5. QED BY <1>1, <1>2, <1>3, <1>4, UsaEs

LEMMA FugasDeInv ==
  ASSUME DiscoInv, TodoMarcado
  PROVE  SinFugas
<1>1. SUFFICES ASSUME Bueno, bitmap \subseteq UNION {Suyos(c) : c \in Cliente},
                      \A c \in Cliente : En(c, "listo")
               PROVE  bitmap = UNION {Usa(c) : c \in {d \in Cliente : nodo[d].state = 1}}
  BY DEF DiscoInv, TodoMarcado, SinFugas
<1>2. ASSUME NEW c \in Cliente
      PROVE  /\ nodo[c].state = 1 => Usa(c) = Suyos(c)
             /\ nodo[c].state # 1 => Suyos(c) = {}
             /\ Suyos(c) \subseteq bitmap
  <2>1. Suyos(c) \subseteq bitmap BY <1>1 DEF Bueno
  <2>2. nodo[c].state = 1 => Usa(c) = Suyos(c) BY <1>1, UsaEs DEF Listo
  <2>3. nodo[c].state # 1 => Suyos(c) = {}
    <3>1. Partida(c) /\ hilo[c].pc = "listo" BY <1>1, Parte DEF En
    <3>2. nodo[c].state \in {0, 1} BY <3>1 DEF Partida, Nodos
    <3>3. nodo[c].state = 0 => Ind(c) = {} /\ EnMano(c) = {} BY <3>1 DEF Ind, Cuantos, EnMano
    <3>4. QED BY <3>2, <3>3 DEF Suyos
  <2>4. QED BY <2>1, <2>2, <2>3
<1>3. QED BY <1>1, <1>2

\* The walk of leer_archivo comes to the block of data of the offset.
LEMMA RecorridoLee ==
  ASSUME NEW x \in Nat
  PROVE  LET saltados == IF x = 0 THEN 0 ELSE (x - 1) \div Direccionable
             resto == x - saltados * Direccionable
             k == x \div BLOQUE_SIZE
         IN  /\ (IF resto = Direccionable THEN saltados + 1 ELSE saltados) = Pun(k)
             /\ (resto % Direccionable) \div BLOQUE_SIZE = Dat(k)
             /\ resto % BLOQUE_SIZE = x % BLOQUE_SIZE
<1> DEFINE D == Direccionable
           B == BLOQUE_SIZE
           P == PUNTEROS_A_BLOQUES_DATOS
           s == IF x = 0 THEN 0 ELSE (x - 1) \div D
           t == s * D
           r == x - t
           q == x \div D
           m == x % D
<1>1. B \in Nat \ {0} /\ P \in Nat \ {0} /\ D = B * P BY Tamanos DEF Direccionable
<1>2. D \in Nat \ {0} BY <1>1
<1> HIDE DEF D, B, P
<1>3. q \in Nat /\ m \in Nat /\ m < D /\ x = D * q + m BY <1>2, DivProps
<1>4. q = Pun(x \div B) /\ m \div B = Dat(x \div B)
  BY <1>1, DivDoble DEF Pun, Dat, P
<1> HIDE DEF q, m
<1>5. \/ x = D * q + m /\ m # 0 /\ s = q
      \/ m = 0 /\ q = 0 /\ s = q /\ x = 0
      \/ m = 0 /\ q # 0 /\ s = q - 1 /\ x # 0
  <2>1. CASE m # 0
    <3>1. x # 0 /\ x - 1 = D * q + (m - 1) /\ m - 1 \in Nat /\ m - 1 < D
      <4> DEFINE z == D * q
      <4>1. z \in Nat /\ x = z + m BY <1>2, <1>3
      <4> HIDE DEF z
      <4>2. x # 0 /\ x - 1 = z + (m - 1) /\ m - 1 \in Nat /\ m - 1 < D BY <1>2, <1>3, <2>1, <4>1
      <4>3. QED BY <4>2 DEF z
    <3>2. (D * q + (m - 1)) \div D = q BY <1>2, <1>3, <3>1, DivUnico
    <3>3. QED BY <1>3, <2>1, <3>1, <3>2
  <2>2. CASE m = 0 /\ q = 0
    <3>1. x = 0 BY <1>2, <1>3, <2>2
    <3>2. QED BY <2>2, <3>1
  <2>3. CASE m = 0 /\ q # 0
    <3>1. q - 1 \in Nat /\ D - 1 \in Nat /\ D - 1 < D BY <1>2, <1>3, <2>3
    <3>2. x # 0 /\ x - 1 = D * (q - 1) + (D - 1)
      <4>1. D * (q - 1) = D * q - D BY <1>2, <1>3
      <4>2. D * q >= D BY <1>2, <1>3, <2>3
      <4> DEFINE z == D * q
                 y == D * (q - 1)
      <4>3. z \in Nat /\ x = z + m /\ y = z - D /\ z >= D BY <1>2, <1>3, <4>1, <4>2
      <4> HIDE DEF z, y
      <4>4. x # 0 /\ x - 1 = y + (D - 1) BY <1>2, <1>3, <2>3, <4>3
      <4>5. QED BY <4>4 DEF y
    <3>3. (D * (q - 1) + (D - 1)) \div D = q - 1 BY <1>2, <3>1, DivUnico
    <3>4. QED BY <2>3, <3>2, <3>3
  <2>4. QED BY <2>1, <2>2, <2>3
<1> HIDE DEF s
<1>6. \/ r = m /\ s = q /\ r # D
      \/ r = D /\ s + 1 = q /\ m = 0
  <2>1. CASE s = q
    <3>1. t = D * q BY <1>2, <1>3, <2>1
    <3> DEFINE z == D * q
    <3>2. z \in Nat /\ x = z + m /\ t = z BY <1>2, <1>3, <3>1
    <3> HIDE DEF z, t
    <3>3. r = m BY <1>3, <3>2
    <3>4. QED BY <1>2, <1>3, <2>1, <3>3
  <2>2. CASE m = 0 /\ s = q - 1
    <3>1. D * q = D * s + D BY <1>2, <1>3, <2>2
    <3>2. D * s = t BY <1>2, <1>3, <2>2
    <3> DEFINE z == D * q
    <3>3. z \in Nat /\ x = z + m /\ z = t + D /\ t \in Int BY <1>2, <1>3, <2>2, <3>1, <3>2
    <3> HIDE DEF z, t
    <3>4. r = D BY <1>2, <2>2, <3>3
    <3>5. QED BY <1>3, <2>2, <3>4
  <2>3. QED BY <1>5, <2>1, <2>2
<1> HIDE DEF r
<1>7. D % D = 0 /\ m % D = m
  <2>1. D = D * 1 + 0 /\ 0 < D BY <1>2
  <2>2. (D * 1 + 0) % D = 0 BY <1>2, <2>1, DivUnico
  <2>3. (D * 0 + m) % D = m BY <1>2, <1>3, DivUnico
  <2>4. D * 0 + m = m BY <1>2, <1>3
  <2>5. QED BY <2>1, <2>2, <2>3, <2>4
<1>8. r % D = m BY <1>6, <1>7
<1>9. r % B = x % B
  <2> DEFINE u == m \div B
             w == m % B
  <2>1. u \in Nat /\ w \in Nat /\ w < B /\ m = B * u + w BY <1>1, <1>3, DivProps
  <2> HIDE DEF u, w
  <2>2. m % B = w BY <1>1, <2>1, DivUnico
  <2>3. x % B = w
    <3>1. D * q = B * (P * q) /\ P * q \in Nat BY <1>1, <1>3
    <3>2. B * (P * q) + B * u = B * (P * q + u) /\ P * q + u \in Nat BY <1>1, <2>1, <3>1
    <3>3. x = B * (P * q + u) + w
      <4> DEFINE z == D * q
                 y == B * u
                 v == B * (P * q + u)
      <4>1. z \in Nat /\ y \in Nat /\ x = z + m /\ m = y + w /\ z + y = v
        BY <1>1, <1>2, <1>3, <2>1, <3>1, <3>2
      <4> HIDE DEF z, y, v
      <4>2. x = v + w BY <1>3, <2>1, <4>1
      <4>3. QED BY <4>2 DEF v
    <3>4. QED BY <1>1, <2>1, <3>2, <3>3, DivUnico
  <2>4. D % B = 0
    <3>1. D = B * P + 0 /\ 0 < B BY <1>1
    <3>2. (B * P + 0) % B = 0 BY <1>1, <3>1, DivUnico
    <3>3. QED BY <3>1, <3>2
  <2>5. CASE r = m BY <2>2, <2>3, <2>5
  <2>6. CASE r = D /\ m = 0
    <3>1. 0 = B * 0 + 0 /\ 0 < B BY <1>1
    <3>2. (B * 0 + 0) % B = 0 BY <1>1, <3>1, DivUnico
    <3>3. QED BY <2>2, <2>3, <2>4, <2>6, <3>1, <3>2
  <2>7. QED BY <1>6, <2>5, <2>6
<1>10. (IF r = D THEN s + 1 ELSE s) = q BY <1>6
<1>11. QED BY <1>4, <1>8, <1>9, <1>10 DEF r, s, B, D

LEMMA LecturaDeInv ==
  ASSUME DiscoInv
  PROVE  LecturaFiel
<1>1. SUFFICES ASSUME Bueno, NEW c \in Cliente, Listo(c), NEW x \in escrito[c]
               PROVE  x < file_size(c) /\ leer_archivo(c, x) = <<c, x>>
  BY DEF DiscoInv, LecturaFiel
<1> DEFINE k == x \div BLOQUE_SIZE
           size == file_size(c)
<1>2. Partida(c) BY <1>1, Parte
<1>3. x \in 0 .. (size - 1) /\ size \in Nat BY <1>2 DEF Partida, HiloBien
<1>4. x \in Nat /\ x < size /\ size # 0 BY <1>3
<1>5. k \in Ind(c)
  <2>1. Cuantos(c) = Hacen(size) BY <1>1, UsaEs
  <2>2. Hacen(size) = Ultimo(size) + 1 /\ Ultimo(size) \in Nat BY <1>3, <1>4, HacenProps
  <2>3. BLOQUE_SIZE \in Nat \ {0} BY Tamanos
  <2>4. k \in Nat /\ k <= Ultimo(size)
    <3> DEFINE y == size - 1
    <3>1. y \in Nat /\ x <= y BY <1>3, <1>4
    <3> HIDE DEF y
    <3>2. x \div BLOQUE_SIZE \in Nat /\ x \div BLOQUE_SIZE <= y \div BLOQUE_SIZE
      BY <1>4, <2>3, <3>1
    <3>3. QED BY <3>2 DEF y, Ultimo
  <2> HIDE DEF k, size
  <2>5. k <= Cuantos(c) - 1 BY <2>1, <2>2, <2>4
  <2>6. QED BY <2>1, <2>2, <2>4, <2>5 DEF Ind
<1>6. DatB(c, k) \in Bloque /\ PunB(c, k) # 0 BY <1>2, <1>5 DEF Partida, Entero, Bloque
<1>7. datos[DatB(c, k)][x % BLOQUE_SIZE] = <<c, x>> BY SMTT(60), <1>2, <1>5 DEF Partida, Fiel
<1>8. leer_archivo(c, x) = datos[DatB(c, k)][x % BLOQUE_SIZE]
  BY <1>4, <1>6, RecorridoLee DEF leer_archivo, PunB, DatB
<1>9. QED BY <1>4, <1>7, <1>8

-----------------------------------------------------------------------------
(* The theorems                                                            *)

\* However the requests of the clients interleave (crear_nuevo_nodo, escribir_archivo,
\* truncar_archivo and borrar_archivo, which take s_bitmap and s_tablaDeNodos one at a time),
\* no block is in two files, nor twice in one, and those of a file are marked in the bitmap.
THEOREM BloquesSeparados ==
  ASSUME SinExtremos
  PROVE  Spec => []BloquesPropios
<1>1. Init => DiscoInv BY DiscoInicia
<1>2. DiscoInv /\ [Next]_vars => DiscoInv' BY DiscoPaso
<1>3. DiscoInv => BloquesPropios BY BloquesDeInv
<1>4. QED BY <1>1, <1>2, <1>3, PTL DEF Spec

\* What a client wrote and did not cut off is what leer_archivo finds at its offset, whatever
\* blocks the requests of other clients take and give up.
THEOREM LecturaSegura ==
  ASSUME SinExtremos
  PROVE  Spec => []LecturaFiel
<1>1. Init => DiscoInv BY DiscoInicia
<1>2. DiscoInv /\ [Next]_vars => DiscoInv' BY DiscoPaso
<1>3. DiscoInv => LecturaFiel BY LecturaDeInv
<1>4. QED BY <1>1, <1>2, <1>3, PTL DEF Spec

\* Where no client deletes an empty file, which borrar_archivo leaves with its block, no
\* block is lost: at rest the bitmap has the blocks of the files and no other.
THEOREM NadaSePierde ==
  ASSUME Extremos = {}
  PROVE  Spec => []SinFugas
<1> DEFINE Inv == DiscoInv /\ TodoMarcado
<1>0. SinExtremos /\ "vacio" \notin Extremos BY DEF SinExtremos
<1>1. Init => Inv BY DiscoInicia
<1>2. Inv /\ [Next]_vars => Inv' BY <1>0, DiscoPaso
<1>3. Inv => SinFugas BY FugasDeInv
<1>4. QED BY <1>1, <1>2, <1>3, PTL DEF Spec
=============================================================================
