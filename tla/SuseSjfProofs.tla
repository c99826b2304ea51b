--------------------------- MODULE SuseSjfProofs ---------------------------
(* Theorems about SuseSjf for any ULTs, bursts and weight.                  *)
EXTENDS SuseSjf, TLAPS, SequenceTheorems, WellFoundedInduction

-----------------------------------------------------------------------------
(* Queues                                                                  *)

\* Every non-empty set of naturals has a least element.
LEMMA MinExiste ==
  ASSUME NEW S \in SUBSET Nat, S # {}
  PROVE  \E x \in S : \A y \in S : x <= y
<1> DEFINE R == OpToRel(<, Nat)
<1>0. S \subseteq Nat OBVIOUS
<1>1. \A x, y \in Nat : y < x => <<y, x>> \in R BY DEF OpToRel
<1>2. IsWellFoundedOn(R, Nat) BY NatLessThanWellFounded
<1> HIDE DEF R
<1>3. PICK x \in S : \A y \in S : ~ (<<y, x>> \in R) BY <1>0, <1>2, WFMin
<1>4. ASSUME NEW y \in S PROVE x <= y
  <2>1. x \in Nat /\ y \in Nat BY <1>0
  <2>2. ~ (y < x) BY <1>1, <1>3, <2>1
  <2>3. QED BY <2>1, <2>2
<1>5. QED BY <1>4

\* Taking out position k keeps the order of the others.
LEMMA RemoveAtProps ==
  ASSUME NEW S, NEW q \in Seq(S), NEW k \in 1 .. Len(q)
  PROVE  /\ RemoveAt(q, k) \in Seq(S)
         /\ Len(RemoveAt(q, k)) = Len(q) - 1
         /\ \A i \in 1 .. (Len(q) - 1) :
              RemoveAt(q, k)[i] = IF i < k THEN q[i] ELSE q[i + 1]
<1> DEFINE a == SubSeq(q, 1, k - 1)
           b == SubSeq(q, k + 1, Len(q))
<1>1. /\ Len(q) \in Nat /\ k \in Nat /\ k >= 1 /\ k <= Len(q)
      /\ \A i \in 1 .. Len(q) : q[i] \in S
  BY LenProperties, ElementOfSeq
<1>2. /\ a \in Seq(S) /\ Len(a) = k - 1
      /\ \A i \in 1 .. (k - 1) : a[i] = q[i]
  <2>1. \A i \in 1 .. (k - 1) : q[i] \in S BY <1>1
  <2>2. /\ SubSeq(q, 1, k - 1) \in Seq(S)
        /\ Len(SubSeq(q, 1, k - 1)) = IF 1 <= k - 1 THEN (k - 1) - 1 + 1 ELSE 0
        /\ \A i \in 1 .. ((k - 1) - 1 + 1) : SubSeq(q, 1, k - 1)[i] = q[1 + i - 1]
    BY <1>1, <2>1, SubSeqProperties
  <2>3. QED BY <2>2, <1>1
<1>3. /\ b \in Seq(S) /\ Len(b) = Len(q) - k
      /\ \A i \in 1 .. (Len(q) - k) : b[i] = q[k + i]
  <2>1. \A i \in (k + 1) .. Len(q) : q[i] \in S BY <1>1
  <2>2. /\ SubSeq(q, k + 1, Len(q)) \in Seq(S)
        /\ Len(SubSeq(q, k + 1, Len(q))) =
             IF k + 1 <= Len(q) THEN Len(q) - (k + 1) + 1 ELSE 0
        /\ \A i \in 1 .. (Len(q) - (k + 1) + 1) :
             SubSeq(q, k + 1, Len(q))[i] = q[(k + 1) + i - 1]
    BY <1>1, <2>1, SubSeqProperties
  <2>3. QED BY <2>2, <1>1
<1> HIDE DEF a, b
<1>4. /\ a \o b \in Seq(S)
      /\ Len(a \o b) = Len(a) + Len(b)
      /\ \A i \in 1 .. (Len(a) + Len(b)) :
           (a \o b)[i] = IF i <= Len(a) THEN a[i] ELSE b[i - Len(a)]
  BY <1>2, <1>3, ConcatProperties
<1>5. RemoveAt(q, k) = a \o b BY DEF RemoveAt, a, b
<1>6. ASSUME NEW i \in 1 .. (Len(q) - 1)
      PROVE  (a \o b)[i] = IF i < k THEN q[i] ELSE q[i + 1]
  <2>1. CASE i < k BY <1>1, <1>2, <1>3, <1>4, <2>1
  <2>2. CASE ~ (i < k)
    <3>1. (a \o b)[i] = b[i - (k - 1)] BY SMTT(60), <1>1, <1>2, <1>3, <1>4, <2>2
    <3>2. i - (k - 1) \in 1 .. (Len(q) - k) BY <1>1, <2>2
    <3>3. b[i - (k - 1)] = q[k + (i - (k - 1))] BY <1>3, <3>2
    <3>4. k + (i - (k - 1)) = i + 1 BY <1>1
    <3>5. QED BY <3>1, <3>3, <3>4, <2>2, <1>1
  <2>3. QED BY <2>1, <2>2
<1>7. Len(a \o b) = Len(q) - 1 BY <1>1, <1>2, <1>3, <1>4
<1>8. QED BY ONLY <1>4, <1>5, <1>6, <1>7

\* RemoveFirst takes out one occurrence, the first, if there is one.
LEMMA RemoveFirstProps ==
  ASSUME NEW S, NEW q \in Seq(S), NEW e
  PROVE  \/ /\ \A i \in 1 .. Len(q) : q[i] # e
            /\ RemoveFirst(q, e) = q
         \/ \E k \in 1 .. Len(q) :
              /\ q[k] = e
              /\ \A j \in 1 .. (k - 1) : q[j] # e
              /\ RemoveFirst(q, e) = RemoveAt(q, k)
<1>1. CASE \A i \in 1 .. Len(q) : q[i] # e
  BY <1>1 DEF RemoveFirst
<1>2. CASE \E i \in 1 .. Len(q) : q[i] = e
  <2> DEFINE I == {i \in 1 .. Len(q) : q[i] = e}
  <2>1. I \in SUBSET Nat /\ I # {} BY <1>2
  <2>2. \E k \in I : \A y \in I : k <= y  BY <2>1, MinExiste
  <2>3. Min(I) \in I /\ \A y \in I : Min(I) <= y BY <2>2 DEF Min
  <2>4. RemoveFirst(q, e) = RemoveAt(q, Min(I))
    BY <1>2, <2>1 DEF RemoveFirst, SelectInSeq
  <2> DEFINE k == Min(I)
  <2> HIDE DEF k
  <2>5. k \in 1 .. Len(q) /\ q[k] = e /\ \A y \in I : k <= y BY <2>3 DEF k
  <2>6. ASSUME NEW j \in 1 .. (k - 1) PROVE q[j] # e
    <3>1. j \in 1 .. Len(q) /\ j < k /\ k \in Int BY <2>5
    <3>2. QED BY <2>5, <3>1
  <2>7. QED BY <2>4, <2>5, <2>6 DEF k
<1>3. QED BY <1>1, <1>2

-----------------------------------------------------------------------------

Estado == {"SinCrear", "E_NEW", "E_READY", "E_EXECUTE", "E_BLOCKED", "E_EXIT"}

\* A list that has each ULT once.
Simple(q) == \A i, j \in 1 .. Len(q) : q[i] = q[j] => i = j

Tipos ==
  /\ reloj \in Nat /\ Inicio <= reloj
  /\ estado \in [ULT -> Estado]
  /\ READY_LIST \in Seq(ULT) /\ EXEC_THREAD \in ULT \cup {Nadie}
  /\ duracionRafaga \in [ULT -> Int] /\ tiempoInicialEnExec \in [ULT -> Int]
  /\ estimacionUltimaRafaga \in [ULT -> Int] /\ promedio \in [ULT -> Int]
  /\ ejecutado_desde_estimacion \in [ULT -> BOOLEAN]
  /\ pc \in {"idle", "sem_wait", "estimada"}

\* The states of the ULTs, READY_LIST and EXEC_THREAD agree.
Lugares ==
  /\ Simple(READY_LIST)
  /\ \A t \in ULT : estado[t] = "E_READY" <=> t \in Range(READY_LIST)
  /\ \A t \in ULT : estado[t] = "E_EXECUTE" <=> t = EXEC_THREAD
  /\ pc # "idle" => EXEC_THREAD = Nadie /\ estado[Principal] # "SinCrear"
                    /\ tiempo_actual \in Inicio .. reloj
  /\ pc = "estimada" => READY_LIST # <<>>
  /\ estado[Principal] = "SinCrear" => EXEC_THREAD = Nadie

BaseInv == Tipos /\ Lugares /\ DuracionEsIntervalo

-----------------------------------------------------------------------------
(* Lists                                                                    *)

LEMMA EnRango ==
  ASSUME NEW q \in Seq(ULT), NEW t
  PROVE  t \in Range(q) <=> \E i \in 1 .. Len(q) : q[i] = t
BY DEF Range

LEMMA AgregaAlFinal ==
  ASSUME NEW q \in Seq(ULT), Simple(q), NEW t \in ULT, t \notin Range(q)
  PROVE  /\ Append(q, t) \in Seq(ULT) /\ Simple(Append(q, t)) /\ Append(q, t) # <<>>
         /\ \A u : u \in Range(Append(q, t)) <=> u \in Range(q) \/ u = t
<1>1. \A i \in 1 .. Len(q) : q[i] # t BY EnRango
<1>2. /\ Append(q, t) \in Seq(ULT) /\ Len(Append(q, t)) = Len(q) + 1 /\ Len(q) \in Nat
      /\ \A i \in 1 .. Len(q) : Append(q, t)[i] = q[i]
      /\ Append(q, t)[Len(q) + 1] = t
  BY AppendProperties, LenProperties
<1>3. \A i \in 1 .. Len(q) + 1 : i \in 1 .. Len(q) \/ i = Len(q) + 1 BY <1>2
<1>4. Simple(Append(q, t)) BY <1>1, <1>2, <1>3 DEF Simple
<1>5. ASSUME NEW u PROVE u \in Range(Append(q, t)) <=> u \in Range(q) \/ u = t
  <2> DEFINE s == Append(q, t)
  <2>1. s \in Seq(ULT) /\ Len(s) = Len(q) + 1 BY <1>2
  <2> HIDE DEF s
  <2>2. u \in Range(s) <=> \E i \in 1 .. Len(s) : s[i] = u BY <2>1, EnRango
  <2>3. u \in Range(s) <=> \E i \in 1 .. Len(q) + 1 : s[i] = u BY <2>1, <2>2
  <2>4. /\ \A i \in 1 .. Len(q) : s[i] = q[i]
        /\ s[Len(q) + 1] = t
    BY <1>2 DEF s
  <2>5. Len(q) + 1 \in 1 .. Len(q) + 1 /\ \A i \in 1 .. Len(q) : i \in 1 .. Len(q) + 1
    BY <1>2
  <2>6. u \in Range(q) <=> \E i \in 1 .. Len(q) : q[i] = u BY EnRango
  <2>7. u \in Range(s) <=> u \in Range(q) \/ u = t BY <1>3, <2>3, <2>4, <2>5, <2>6
  <2>8. QED BY <2>7 DEF s
<1>6. Append(q, t) # <<>> BY <1>2, LenProperties
<1>7. QED BY <1>2, <1>4, <1>5, <1>6

LEMMA SacaDeLaLista ==
  ASSUME NEW q \in Seq(ULT), Simple(q), NEW t
  PROVE  /\ RemoveFirst(q, t) \in Seq(ULT) /\ Simple(RemoveFirst(q, t))
         /\ \A u : u \in Range(RemoveFirst(q, t)) <=> u \in Range(q) /\ u # t
<1>1. CASE (\A i \in 1 .. Len(q) : q[i] # t) /\ RemoveFirst(q, t) = q
  BY <1>1, EnRango
<1>2. ASSUME NEW k \in 1 .. Len(q), q[k] = t, RemoveFirst(q, t) = RemoveAt(q, k)
      PROVE  /\ RemoveFirst(q, t) \in Seq(ULT) /\ Simple(RemoveFirst(q, t))
             /\ \A u : u \in Range(RemoveFirst(q, t)) <=> u \in Range(q) /\ u # t
  <2> DEFINE r == RemoveAt(q, k)
  <2>1. /\ r \in Seq(ULT) /\ Len(r) = Len(q) - 1 /\ Len(q) \in Nat
        /\ \A i \in 1 .. Len(q) - 1 : r[i] = IF i < k THEN q[i] ELSE q[i + 1]
    BY RemoveAtProps, LenProperties
  <2> HIDE DEF r
  <2>2. Simple(r)
    <3>1. ASSUME NEW i \in 1 .. Len(r), NEW j \in 1 .. Len(r), r[i] = r[j] PROVE i = j
      <4>1. PICK a \in 1 .. Len(q) : r[i] = q[a] /\ a = IF i < k THEN i ELSE i + 1
        BY <2>1
      <4>2. PICK b \in 1 .. Len(q) : r[j] = q[b] /\ b = IF j < k THEN j ELSE j + 1
        BY <2>1
      <4>3. a = b BY <3>1, <4>1, <4>2 DEF Simple
      <4>4. QED BY <2>1, <4>1, <4>2, <4>3
    <3>2. QED BY <3>1 DEF Simple
  <2>3. ASSUME NEW u PROVE u \in Range(r) <=> u \in Range(q) /\ u # t
    <3>1. u \in Range(r) => u \in Range(q) /\ u # t
      <4>1. SUFFICES ASSUME NEW i \in 1 .. Len(r), r[i] = u
                     PROVE  u \in Range(q) /\ u # t
        BY <2>1, EnRango
      <4>2. PICK a \in 1 .. Len(q) : u = q[a] /\ a # k BY SMTT(60), <2>1, <4>1
      <4>3. QED BY <1>2, <4>2, EnRango DEF Simple
    <3>2. ASSUME u \in Range(q), u # t PROVE u \in Range(r)
      <4>1. PICK a \in 1 .. Len(q) : q[a] = u BY <3>2, EnRango
      <4>2. a # k BY <1>2, <3>2, <4>1
      <4>3. PICK i \in 1 .. Len(r) : a = IF i < k THEN i ELSE i + 1
        <5>1. CASE a < k BY <2>1, <5>1
        <5>2. CASE a > k
          <6>1. a - 1 \in 1 .. Len(r) /\ ~(a - 1 < k) /\ a = (a - 1) + 1 BY <2>1, <5>2
          <6>2. QED BY <6>1
        <5>3. QED BY <2>1, <4>2, <5>1, <5>2
      <4>4. r[i] = u BY <2>1, <4>1, <4>3
      <4>5. QED BY <2>1, <4>4, EnRango
    <3>3. QED BY <3>1, <3>2
  <2>4. QED BY <1>2, <2>1, <2>2, <2>3 DEF r
<1>3. QED BY <1>1, <1>2, RemoveFirstProps

\* The sorted list has the same ULTs, once each; its first one has the least estimate.
LEMMA OrdenaLista ==
  ASSUME Tipos, Lugares, READY_LIST # <<>>,
         NEW r \in [DOMAIN READY_LIST -> Range(READY_LIST)], Ordenada(r)
  PROVE  /\ r[1] \in ULT /\ r[1] \in Range(READY_LIST)
         /\ Tail(r) \in Seq(ULT) /\ Simple(Tail(r))
         /\ \A u : u \in Range(Tail(r)) <=> u \in Range(READY_LIST) /\ u # r[1]
         /\ \A u \in Range(READY_LIST) :
              estimacionUltimaRafaga[r[1]] <= estimacionUltimaRafaga[u]
<1> DEFINE L == READY_LIST
           n == Len(READY_LIST)
<1>1. /\ L \in Seq(ULT) /\ n \in Nat /\ n > 0 /\ DOMAIN L = 1 .. n
      /\ \A i \in 1 .. n : L[i] \in ULT
  BY SMTT(60), LenProperties, ElementOfSeq, EmptySeq DEF Tipos
<1>2. Range(L) \subseteq ULT BY <1>1 DEF Range
<1>3. r \in [1 .. n -> ULT] BY <1>1, <1>2
<1>4. r \in Seq(ULT) /\ Len(r) = n
  <2>1. r \in Seq(ULT) BY <1>1, <1>3, SeqDef
  <2>2. QED BY <1>1, <1>3, <2>1, LenProperties
<1>5. \A i, j \in 1 .. n : i < j =>
        \/ estimacionUltimaRafaga[r[i]] < estimacionUltimaRafaga[r[j]]
        \/ /\ estimacionUltimaRafaga[r[i]] = estimacionUltimaRafaga[r[j]]
           /\ \E k, l \in 1 .. n : k < l /\ L[k] = r[i] /\ L[l] = r[j]
  BY <1>1, <1>3 DEF Ordenada
<1>6. \A i \in 1 .. n : estimacionUltimaRafaga[r[i]] \in Int BY <1>3 DEF Tipos
<1>7. ASSUME NEW i \in 1 .. n, NEW j \in 1 .. n, i < j PROVE r[i] # r[j]
  <2>1. SUFFICES ASSUME r[i] = r[j] PROVE FALSE OBVIOUS
  <2>2. PICK k \in 1 .. n, l \in 1 .. n : k < l /\ L[k] = r[i] /\ L[l] = r[j]
    BY <1>5, <1>6, <1>7, <2>1
  <2>3. k = l BY <2>1, <2>2 DEF Lugares, Simple
  <2>4. QED BY <1>1, <2>2, <2>3
<1>8. /\ Tail(r) \in Seq(ULT) /\ Len(Tail(r)) = n - 1
      /\ \A i \in 1 .. n - 1 : Tail(r)[i] = r[i + 1]
  BY <1>1, <1>4, HeadTailProperties, EmptySeq
<1>9. Simple(Tail(r))
  <2>1. ASSUME NEW i \in 1 .. n - 1, NEW j \in 1 .. n - 1, i # j PROVE Tail(r)[i] # Tail(r)[j]
    <3>1. i + 1 \in 1 .. n /\ j + 1 \in 1 .. n /\ (i + 1 < j + 1 \/ j + 1 < i + 1)
      BY <1>1, <2>1
    <3>2. QED BY <1>7, <1>8, <3>1
  <2>2. QED BY <1>8, <2>1 DEF Simple
<1>10. 1 \in 1 .. n BY <1>1
<1>11. \A u : u \in Range(L) <=> \E i \in 1 .. n : r[i] = u
  <2>1. Range(r) = Range(L) BY DEF Ordenada
  <2>2. Range(r) = {r[i] : i \in 1 .. n} BY <1>3 DEF Range
  <2>3. QED BY <2>1, <2>2
<1>12. ASSUME NEW u PROVE u \in Range(Tail(r)) <=> u \in Range(L) /\ u # r[1]
  <2>1. u \in Range(Tail(r)) <=> \E i \in 1 .. n - 1 : r[i + 1] = u
    <3> DEFINE s == Tail(r)
    <3>1. s \in Seq(ULT) /\ Len(s) = n - 1 /\ \A i \in 1 .. n - 1 : s[i] = r[i + 1] BY <1>8
    <3> HIDE DEF s
    <3>2. u \in Range(s) <=> \E i \in 1 .. Len(s) : s[i] = u BY <3>1, EnRango
    <3>3. u \in Range(s) <=> \E i \in 1 .. n - 1 : r[i + 1] = u BY <3>1, <3>2
    <3>4. QED BY <3>3 DEF s
  <2>2. ASSUME NEW i \in 1 .. n - 1, r[i + 1] = u PROVE u \in Range(L) /\ u # r[1]
    <3>1. i + 1 \in 1 .. n /\ 1 < i + 1 BY <1>1
    <3>2. QED BY <1>7, <1>10, <1>11, <2>2, <3>1
  <2>3. ASSUME NEW i \in 1 .. n, r[i] = u, u # r[1]
        PROVE  \E j \in 1 .. n - 1 : r[j + 1] = u
    <3>1. i - 1 \in 1 .. n - 1 /\ (i - 1) + 1 = i BY <1>1, <2>3
    <3>2. QED BY <2>3, <3>1
  <2>4. QED BY <1>11, <2>1, <2>2, <2>3
<1>13. ASSUME NEW u \in Range(L)
       PROVE  estimacionUltimaRafaga[r[1]] <= estimacionUltimaRafaga[u]
  <2>1. PICK i \in 1 .. n : r[i] = u BY <1>11
  <2>2. i = 1 \/ 1 < i BY <1>1
  <2>3. QED BY <1>5, <1>6, <1>10, <2>1, <2>2
<1>14. r[1] \in ULT /\ r[1] \in Range(L) BY <1>3, <1>10, <1>11
<1>15. QED BY <1>8, <1>9, <1>12, <1>13, <1>14

-----------------------------------------------------------------------------
(* Times                                                                    *)

LEMMA EstimacionEntera ==
  ASSUME NEW d \in Int, NEW e \in Int PROVE Estimacion(d, e) \in Int
BY SjfAssumption DEF Estimacion

\* The ULT t leaves the processor, for the state e: what it ran is measured.
LEMMA DejaDeEjecutar ==
  ASSUME BaseInv, NEW t \in ULT, t = EXEC_THREAD, NEW e \in Estado \ {"E_EXECUTE", "E_EXIT"},
         duracionRafaga' = Mide(t), Vuelca(t), EXEC_THREAD' = Nadie,
         estado' = [estado EXCEPT ![t] = e], UNCHANGED reloj
  PROVE  /\ duracionRafaga' = [duracionRafaga EXCEPT ![t] = reloj - duracionRafaga[t]]
         /\ duracionRafaga' \in [ULT -> Int] /\ promedio' \in [ULT -> Int]
         /\ estado' \in [ULT -> Estado]
         /\ \A u \in ULT : estado'[u] = "E_EXECUTE" <=> u = EXEC_THREAD'
         /\ DuracionEsIntervalo'
<1>1. /\ reloj \in Nat /\ Inicio \in Nat /\ Inicio > 0 /\ estado[t] = "E_EXECUTE"
      /\ duracionRafaga[t] \in Inicio .. reloj /\ duracionRafaga \in [ULT -> Int]
      /\ estado \in [ULT -> Estado]
  BY SMTT(60), SjfAssumption DEF BaseInv, Tipos, Lugares, DuracionEsIntervalo
<1>2. duracionRafaga' = [duracionRafaga EXCEPT ![t] = reloj - duracionRafaga[t]]
  BY <1>1 DEF Mide
<1>3. promedio' \in [ULT -> Int]
  <2>1. reloj - tiempoInicialEnExec[t] \in Int /\ promedio[t] \in Int
    BY <1>1 DEF BaseInv, Tipos
  <2>2. Estimacion(reloj - tiempoInicialEnExec[t], promedio[t]) \in Int
    BY <2>1, EstimacionEntera
  <2>3. QED BY <2>2 DEF Vuelca, BaseInv, Tipos
<1>4. \A u \in ULT : estado'[u] = "E_EXECUTE" <=> u = EXEC_THREAD'
  BY <1>1, SjfAssumption DEF BaseInv, Lugares
<1>5. DuracionEsIntervalo'
  <2>1. \A u \in ULT : u # t => estado'[u] = estado[u] /\ duracionRafaga'[u] = duracionRafaga[u]
    BY <1>1, <1>2
  <2>2. estado'[t] = e /\ duracionRafaga'[t] \in 0 .. reloj - Inicio BY <1>1, <1>2
  <2>3. reloj' = reloj /\ e # "E_EXECUTE" OBVIOUS
  <2>4. ASSUME NEW u \in ULT
        PROVE  /\ estado'[u] \notin {"E_EXECUTE", "E_EXIT"}
                    => duracionRafaga'[u] \in 0 .. reloj - Inicio
               /\ estado'[u] = "E_EXECUTE" => duracionRafaga'[u] \in Inicio .. reloj
    BY <2>1, <2>2, <2>3 DEF BaseInv, DuracionEsIntervalo
  <2>5. QED BY <2>3, <2>4 DEF DuracionEsIntervalo
<1>6. duracionRafaga' \in [ULT -> Int] BY <1>1, <1>2
<1>7. estado' \in [ULT -> Estado] BY <1>1
<1>8. QED BY <1>2, <1>3, <1>4, <1>5, <1>6, <1>7

\* The ULT t, which did not execute, is given the processor at the hour h.
LEMMA PasaAEjecutar ==
  ASSUME BaseInv, NEW t \in ULT, EXEC_THREAD = Nadie, NEW h \in Inicio .. reloj,
         Ejecuta(t, h), UNCHANGED reloj
  PROVE  /\ duracionRafaga' \in [ULT -> Int] /\ tiempoInicialEnExec' \in [ULT -> Int]
         /\ ejecutado_desde_estimacion' \in [ULT -> BOOLEAN]
         /\ estado' \in [ULT -> Estado]
         /\ \A u \in ULT : estado'[u] = "E_EXECUTE" <=> u = EXEC_THREAD'
         /\ DuracionEsIntervalo'
<1>1. reloj \in Nat /\ Inicio \in Nat /\ h \in Int
  BY SjfAssumption DEF BaseInv, Tipos
<1>2. /\ duracionRafaga' \in [ULT -> Int] /\ tiempoInicialEnExec' \in [ULT -> Int]
      /\ ejecutado_desde_estimacion' \in [ULT -> BOOLEAN] /\ estado' \in [ULT -> Estado]
  BY <1>1 DEF BaseInv, Tipos, Ejecuta, Marca, Estado
<1>3. \A u \in ULT : estado'[u] = "E_EXECUTE" <=> u = EXEC_THREAD'
  BY SjfAssumption DEF BaseInv, Tipos, Lugares, Ejecuta
<1>4. DuracionEsIntervalo'
  BY <1>1 DEF BaseInv, Tipos, DuracionEsIntervalo, Ejecuta
<1>5. QED BY <1>2, <1>3, <1>4

-----------------------------------------------------------------------------
(* The places and the lengths                                               *)

LEMMA BaseInicial == Init => BaseInv
<1>1. \A t : t \notin Range(<<>>) BY DEF Range
<1>2. QED
  BY <1>1, SjfAssumption, EmptySeq
  DEF Init, BaseInv, Tipos, Lugares, DuracionEsIntervalo, Estado, Simple

LEMMA BasePaso == BaseInv /\ [Next]_vars => BaseInv'
<1> SUFFICES ASSUME BaseInv, [Next]_vars PROVE BaseInv'
  OBVIOUS
<1> USE SjfAssumption
<1>0. /\ Tipos /\ Lugares /\ DuracionEsIntervalo
      /\ READY_LIST \in Seq(ULT) /\ Simple(READY_LIST)
  BY DEF BaseInv, Tipos, Lugares
<1>1. CASE handle_main_thread_create
  <2>1. EXEC_THREAD = Nadie /\ reloj \in Inicio .. reloj /\ UNCHANGED <<reloj, READY_LIST>>
    BY <1>0, <1>1 DEF handle_main_thread_create, Tipos, Lugares
  <2>2. CASE Ejecuta(Principal, reloj)
    <3>1. Tipos' BY <1>0, <1>1, <2>1, <2>2, PasaAEjecutar
      DEF Tipos, handle_main_thread_create, llamadaVars, Ejecuta
    <3>2. Lugares' BY <1>0, <1>1, <2>1, <2>2, PasaAEjecutar
      DEF Tipos, Lugares, handle_main_thread_create, llamadaVars, Ejecuta
    <3>3. QED BY <2>1, <2>2, <3>1, <3>2, PasaAEjecutar DEF BaseInv
  <2>3. CASE estado' = [estado EXCEPT ![Principal] = "E_NEW"] /\ UNCHANGED <<EXEC_THREAD, tiempoVars>>
    BY <1>0, <1>1, <2>1, <2>3
    DEF handle_main_thread_create, BaseInv, Tipos, Lugares, DuracionEsIntervalo, Estado,
        llamadaVars, tiempoVars
  <2>4. QED BY <1>1, <2>2, <2>3 DEF handle_main_thread_create
<1>2. CASE handle_next_tid
  <2>1. CASE EXEC_THREAD = Nadie
    BY <1>0, <1>2, <2>1
    DEF handle_next_tid, BaseInv, Tipos, Lugares, DuracionEsIntervalo
  <2>2. CASE EXEC_THREAD # Nadie
    <3> DEFINE t == EXEC_THREAD
    <3>1. t \in ULT /\ t \notin Range(READY_LIST) /\ estado[t] = "E_EXECUTE"
      BY <1>0, <2>2 DEF Tipos, Lugares
    <3>2. /\ duracionRafaga' = Mide(t) /\ Vuelca(t) /\ EXEC_THREAD' = Nadie
          /\ estado' = [estado EXCEPT ![t] = "E_READY"]
          /\ READY_LIST' = Append(READY_LIST, t)
          /\ UNCHANGED reloj
      BY <1>2, <2>2 DEF handle_next_tid
    <3>3. "E_READY" \in Estado \ {"E_EXECUTE", "E_EXIT"} BY DEF Estado
    <3>4. /\ duracionRafaga' \in [ULT -> Int] /\ promedio' \in [ULT -> Int]
          /\ estado' \in [ULT -> Estado]
          /\ \A u \in ULT : estado'[u] = "E_EXECUTE" <=> u = EXEC_THREAD'
          /\ DuracionEsIntervalo'
      BY <3>1, <3>2, <3>3, DejaDeEjecutar
    <3>5. /\ READY_LIST' \in Seq(ULT) /\ Simple(READY_LIST')
          /\ \A u : u \in Range(READY_LIST') <=> u \in Range(READY_LIST) \/ u = t
      BY <1>0, <3>1, <3>2, AgregaAlFinal
    <3>6. Tipos' BY <1>0, <1>2, <3>2, <3>4, <3>5 DEF Tipos, handle_next_tid
    <3>7. Lugares'
      <4>1. \A v \in ULT : estado'[v] = "E_READY" <=> v \in Range(READY_LIST')
        <5>1. \A v \in ULT : estado'[v] = IF v = t THEN "E_READY" ELSE estado[v]
          BY <1>0, <3>2 DEF Tipos
        <5>2. \A v \in ULT : estado[v] = "E_READY" <=> v \in Range(READY_LIST)
          BY <1>0 DEF Lugares
        <5>3. QED BY <3>5, <5>1, <5>2
      <4>2. pc' = "estimada" => READY_LIST' # <<>> BY <1>2, <3>2 DEF handle_next_tid
      <4>3. estado'[Principal] # "SinCrear"
        BY <1>0, <3>1, <3>2, SjfAssumption DEF Tipos, Lugares
      <4>4. pc' # "idle" => tiempo_actual' \in Inicio .. reloj'
        BY <1>0, <1>2, <3>2 DEF Tipos, Lugares, handle_next_tid
      <4>5. QED BY <3>2, <3>4, <3>5, <4>1, <4>2, <4>3, <4>4 DEF Lugares
    <3>8. QED BY <3>4, <3>6, <3>7 DEF BaseInv
  <2>3. QED BY <2>1, <2>2
<1>3. CASE estimar_ULTs_listos
  <2>1. estimacionUltimaRafaga' \in [ULT -> Int]
    BY <1>0, <1>3, EstimacionEntera DEF estimar_ULTs_listos, Tipos
  <2>2. QED BY <1>0, <1>3, <2>1
    DEF estimar_ULTs_listos, BaseInv, Tipos, Lugares, DuracionEsIntervalo
<1>4. CASE listo_a_ejecucion
  <2>1. PICK r \in [DOMAIN READY_LIST -> Range(READY_LIST)] :
          Ordenada(r) /\ READY_LIST' = Tail(r) /\ Ejecuta(r[1], tiempo_actual)
    BY <1>4 DEF listo_a_ejecucion
  <2>2. /\ READY_LIST # <<>> /\ EXEC_THREAD = Nadie /\ tiempo_actual \in Inicio .. reloj
        /\ estado[Principal] # "SinCrear" /\ UNCHANGED reloj /\ pc' = "idle"
    BY <1>0, <1>4 DEF listo_a_ejecucion, Lugares
  <2>3. /\ r[1] \in ULT /\ r[1] \in Range(READY_LIST)
        /\ READY_LIST' \in Seq(ULT) /\ Simple(READY_LIST')
        /\ \A u : u \in Range(READY_LIST') <=> u \in Range(READY_LIST) /\ u # r[1]
    BY <1>0, <2>1, <2>2, OrdenaLista
  <2>4. /\ duracionRafaga' \in [ULT -> Int] /\ tiempoInicialEnExec' \in [ULT -> Int]
        /\ ejecutado_desde_estimacion' \in [ULT -> BOOLEAN]
        /\ estado' \in [ULT -> Estado]
        /\ \A u \in ULT : estado'[u] = "E_EXECUTE" <=> u = EXEC_THREAD'
        /\ DuracionEsIntervalo'
    BY <2>1, <2>2, <2>3, PasaAEjecutar
  <2>5. EXEC_THREAD' = r[1] /\ estado' = [estado EXCEPT ![r[1]] = "E_EXECUTE"]
    BY <2>1 DEF Ejecuta
  <2>6. Tipos' BY <1>0, <1>4, <2>2, <2>3, <2>4, <2>5 DEF Tipos, listo_a_ejecucion
  <2>7. Lugares' BY ZenonT(60), <1>0, <2>2, <2>3, <2>4, <2>5 DEF Tipos, Lugares
  <2>8. QED BY <2>4, <2>6, <2>7 DEF BaseInv
<1>5. CASE ejecucion_a_bloqueado
  <2> DEFINE t == EXEC_THREAD
  <2>1. t \in ULT /\ t \notin Range(READY_LIST) /\ estado[t] = "E_EXECUTE"
    BY <1>0, <1>5 DEF Tipos, Lugares, ejecucion_a_bloqueado
  <2>2. /\ duracionRafaga' = Mide(t) /\ Vuelca(t) /\ EXEC_THREAD' = Nadie
        /\ estado' = [estado EXCEPT ![t] = "E_BLOCKED"] /\ UNCHANGED <<reloj, READY_LIST>>
    BY <1>5 DEF ejecucion_a_bloqueado
  <2>3. "E_BLOCKED" \in Estado \ {"E_EXECUTE", "E_EXIT"} BY DEF Estado
  <2>4. /\ duracionRafaga' \in [ULT -> Int] /\ promedio' \in [ULT -> Int]
        /\ estado' \in [ULT -> Estado]
        /\ \A u \in ULT : estado'[u] = "E_EXECUTE" <=> u = EXEC_THREAD'
        /\ DuracionEsIntervalo'
    BY <2>1, <2>2, <2>3, DejaDeEjecutar
  <2>5. Tipos' BY <1>0, <1>5, <2>2, <2>4 DEF Tipos, ejecucion_a_bloqueado, llamadaVars
  <2>6. Lugares'
    BY <1>0, <1>5, <2>1, <2>2, <2>4 DEF Tipos, Lugares, ejecucion_a_bloqueado, llamadaVars
  <2>7. QED BY <2>4, <2>5, <2>6 DEF BaseInv
<1>6. CASE get_time_today
  <2>1. PICK a \in Avance : reloj' = reloj + a BY <1>6 DEF get_time_today
  <2>2. a \in Nat /\ Inicio \in Nat /\ reloj \in Nat BY <1>0 DEF Tipos
  <2>3. reloj' \in Nat /\ reloj <= reloj' BY <2>1, <2>2
  <2>4. Tipos' /\ Lugares'
    BY SMTT(60), <1>0, <1>6, <2>2, <2>3 DEF get_time_today, Tipos, Lugares, tiempoVars, llamadaVars
  <2>5. \A t \in ULT : duracionRafaga[t] \in Int BY <1>0 DEF Tipos
  <2>6. DuracionEsIntervalo'
    BY <1>0, <1>6, <2>2, <2>3, <2>5 DEF get_time_today, DuracionEsIntervalo, tiempoVars
  <2>7. QED BY <2>4, <2>6 DEF BaseInv
<1>7. ASSUME NEW t \in ULT, handle_ULT_create(t) PROVE BaseInv'
  BY <1>0, <1>7
  DEF handle_ULT_create, BaseInv, Tipos, Lugares, DuracionEsIntervalo, Estado, tiempoVars,
      llamadaVars
<1>8. ASSUME NEW t \in ULT, close_tid(t) PROVE BaseInv'
  <2>1. /\ READY_LIST' \in Seq(ULT) /\ Simple(READY_LIST')
        /\ \A u : u \in Range(READY_LIST') <=> u \in Range(READY_LIST) /\ u # t
    BY <1>0, <1>8, SacaDeLaLista DEF close_tid
  <2>2. Tipos' BY <1>0, <1>8, <2>1
    DEF close_tid, Tipos, Estado, tiempoVars, llamadaVars
  <2>3. Lugares' BY <1>0, <1>8, <2>1
    DEF close_tid, Tipos, Lugares, tiempoVars, llamadaVars
  <2>4. DuracionEsIntervalo' BY <1>0, <1>8
    DEF close_tid, Tipos, DuracionEsIntervalo, tiempoVars
  <2>5. QED BY <2>2, <2>3, <2>4 DEF BaseInv
<1>9. ASSUME NEW t \in ULT, a_listo(t) PROVE BaseInv'
  <2>1. t \notin Range(READY_LIST) /\ READY_LIST' = Append(READY_LIST, t)
    BY <1>0, <1>9 DEF a_listo, Lugares
  <2>2. /\ READY_LIST' \in Seq(ULT) /\ Simple(READY_LIST') /\ READY_LIST' # <<>>
        /\ \A u : u \in Range(READY_LIST') <=> u \in Range(READY_LIST) \/ u = t
    BY <1>0, <2>1, AgregaAlFinal
  <2>3. Tipos' BY <1>0, <1>9, <2>2 DEF a_listo, Tipos, Estado, tiempoVars, llamadaVars
  <2>4. Lugares' BY <1>0, <1>9, <2>2
    DEF a_listo, Tipos, Lugares, tiempoVars, llamadaVars
  <2>5. DuracionEsIntervalo' BY <1>0, <1>9
    DEF a_listo, Tipos, DuracionEsIntervalo, tiempoVars
  <2>6. QED BY <2>3, <2>4, <2>5 DEF BaseInv
<1>10. ASSUME NEW t \in ULT, desjoinear_hilo(t) PROVE BaseInv'
  BY <1>0, <1>10
  DEF desjoinear_hilo, BaseInv, Tipos, Lugares, DuracionEsIntervalo, Estado, tiempoVars,
      llamadaVars
<1>11. CASE UNCHANGED vars
  BY <1>0, <1>11
  DEF vars, tiempoVars, llamadaVars, BaseInv, Tipos, Lugares, DuracionEsIntervalo
<1>12. QED
  BY <1>1, <1>2, <1>3, <1>4, <1>5, <1>6, <1>7, <1>8, <1>9, <1>10, <1>11 DEF Next

\* DuracionEsIntervalo, however long next_tid waits: no move of suse.c takes an
\* hour for the length of a burst.
THEOREM DuracionCorrecta == Spec => []DuracionEsIntervalo
<1>1. BaseInv => DuracionEsIntervalo BY DEF BaseInv
<1>2. QED BY <1>1, BaseInicial, BasePaso, PTL DEF Spec

-----------------------------------------------------------------------------
(* The estimates                                                            *)

\* The flag of a ULT tells a burst to estimate: the one that executes has it. Both starts of
\* its burst are one hour, if no idle time is in it.
Relojes ==
  /\ EXEC_THREAD # Nadie =>
       /\ ejecutado_desde_estimacion[EXEC_THREAD]
       /\ EXEC_THREAD \notin mezcladas =>
            duracionRafaga[EXEC_THREAD] = tiempoInicialEnExec[EXEC_THREAD]
  /\ estado[Principal] = "SinCrear" => ~ejecutado_desde_estimacion[Principal]

FielInv == BaseInv /\ Relojes /\ EstimacionFiel

LEMMA FielInicial == Init => FielInv
BY BaseInicial, SjfAssumption DEF Init, FielInv, Relojes, EstimacionFiel

\* The end of a burst leaves it to be estimated.
LEMMA RafagaPorEstimar ==
  ASSUME FielInv, NEW t \in ULT, t = EXEC_THREAD, NEW e \in Estado \ {"E_EXECUTE", "E_EXIT"},
         duracionRafaga' = Mide(t), Vuelca(t), EXEC_THREAD' = Nadie,
         estado' = [estado EXCEPT ![t] = e], UNCHANGED reloj,
         UNCHANGED <<ejecutado_desde_estimacion, estimacionUltimaRafaga, mezcladas>>
  PROVE  EstimacionFiel'
<1>1. /\ estado[t] = "E_EXECUTE" /\ estado \in [ULT -> Estado]
      /\ duracionRafaga \in [ULT -> Int] /\ promedio \in [ULT -> Int]
      /\ t # Nadie /\ BaseInv
  BY SjfAssumption DEF FielInv, BaseInv, Tipos, Lugares
<1>2. duracionRafaga' = [duracionRafaga EXCEPT ![t] = reloj - duracionRafaga[t]]
  BY <1>1, DejaDeEjecutar
<1>3. t \notin mezcladas => promedio[t] = estimacionUltimaRafaga[t]
  BY <1>1 DEF FielInv, EstimacionFiel
<1>4. /\ ejecutado_desde_estimacion[t]
      /\ t \notin mezcladas => duracionRafaga[t] = tiempoInicialEnExec[t]
  BY <1>1 DEF FielInv, Relojes
<1>5. ASSUME t \notin mezcladas
      PROVE  promedio'[t] = Estimacion(duracionRafaga'[t], estimacionUltimaRafaga[t])
  <2>1. promedio'[t] = Estimacion(reloj - tiempoInicialEnExec[t], promedio[t])
    BY <1>1 DEF Vuelca
  <2>2. duracionRafaga'[t] = reloj - tiempoInicialEnExec[t] BY <1>1, <1>2, <1>4, <1>5
  <2>3. QED BY <1>3, <1>5, <2>1, <2>2
<1>6. \A u \in ULT : u # t =>
        estado'[u] = estado[u] /\ duracionRafaga'[u] = duracionRafaga[u]
        /\ promedio'[u] = promedio[u]
  BY <1>1, <1>2 DEF Vuelca
<1>7. estado'[t] = e BY <1>1
<1>8. ASSUME NEW u \in ULT \ mezcladas, estado'[u] # "E_EXIT"
      PROVE  promedio'[u] =
               IF estado'[u] # "E_EXECUTE" /\ ejecutado_desde_estimacion[u]
               THEN Estimacion(duracionRafaga'[u], estimacionUltimaRafaga[u])
               ELSE estimacionUltimaRafaga[u]
  <2>1. CASE u = t BY <1>4, <1>5, <1>7, <2>1
  <2>2. CASE u # t BY <1>6, <1>8, <2>2 DEF FielInv, EstimacionFiel
  <2>3. QED BY <2>1, <2>2
<1>9. QED BY <1>8 DEF EstimacionFiel

\* A ULT begins a burst, and is spoilt if it loses the last one or the hour is not now.
LEMMA RafagaNueva ==
  ASSUME FielInv, NEW t \in ULT, estado[t] # "E_EXIT", NEW h \in Int,
         Ejecuta(t, h), UNCHANGED <<reloj, estimacionUltimaRafaga, promedio>>,
         mezcladas' = IF h # reloj \/ ejecutado_desde_estimacion[t]
                      THEN mezcladas \cup {t} ELSE mezcladas
  PROVE  /\ EstimacionFiel'
         /\ EXEC_THREAD' \notin mezcladas' =>
              duracionRafaga'[EXEC_THREAD'] = tiempoInicialEnExec'[EXEC_THREAD']
         /\ ejecutado_desde_estimacion'[EXEC_THREAD']
<1>1. /\ estado \in [ULT -> Estado] /\ duracionRafaga \in [ULT -> Int]
      /\ tiempoInicialEnExec \in [ULT -> Int]
      /\ ejecutado_desde_estimacion \in [ULT -> BOOLEAN]
  BY DEF FielInv, BaseInv, Tipos
<1>2. t \notin mezcladas' => h = reloj /\ promedio[t] = estimacionUltimaRafaga[t]
  BY DEF FielInv, EstimacionFiel
<1>3. /\ EXEC_THREAD' = t /\ estado'[t] = "E_EXECUTE"
      /\ duracionRafaga'[t] = h /\ tiempoInicialEnExec'[t] = reloj
      /\ ejecutado_desde_estimacion'[t]
  BY <1>1 DEF Ejecuta, Marca
<1>4. \A u \in ULT : u # t =>
        /\ estado'[u] = estado[u] /\ duracionRafaga'[u] = duracionRafaga[u]
        /\ ejecutado_desde_estimacion'[u] = ejecutado_desde_estimacion[u]
  BY <1>1 DEF Ejecuta, Marca
<1>5. EstimacionFiel'
  BY <1>2, <1>3, <1>4 DEF FielInv, EstimacionFiel
<1>6. QED BY <1>2, <1>3, <1>5

LEMMA FielPaso ==
  ASSUME FielInv, [Next]_vars
  PROVE  FielInv'
<1> USE SjfAssumption
<1>0. /\ BaseInv /\ Tipos /\ Lugares /\ Relojes /\ EstimacionFiel
      /\ READY_LIST \in Seq(ULT) /\ Simple(READY_LIST) /\ BaseInv'
  BY BasePaso DEF FielInv, BaseInv, Tipos, Lugares
<1>1. CASE handle_main_thread_create
  <2>1. CASE Ejecuta(Principal, reloj)
    <3>1. /\ ~ejecutado_desde_estimacion[Principal] /\ estado[Principal] # "E_EXIT"
          /\ UNCHANGED <<reloj, estimacionUltimaRafaga, promedio, mezcladas>>
          /\ reloj \in Int /\ estado'[Principal] # "SinCrear"
      BY <1>0, <1>1, <2>1 DEF handle_main_thread_create, Relojes, llamadaVars, Ejecuta, Tipos
    <3>2. QED BY <1>0, <2>1, <3>1, RafagaNueva DEF FielInv, Relojes
  <2>2. CASE estado' = [estado EXCEPT ![Principal] = "E_NEW"] /\ UNCHANGED <<EXEC_THREAD, tiempoVars>>
    <3>1. ~ejecutado_desde_estimacion[Principal] BY <1>0, <1>1 DEF handle_main_thread_create, Relojes
    <3>2. EstimacionFiel' BY <1>0, <1>1, <2>2, <3>1
      DEF handle_main_thread_create, Tipos, EstimacionFiel, tiempoVars
    <3>3. Relojes' BY <1>0, <1>1, <2>2
      DEF handle_main_thread_create, Tipos, Relojes, tiempoVars, llamadaVars
    <3>4. QED BY <1>0, <3>2, <3>3 DEF FielInv
  <2>3. QED BY <1>1, <2>1, <2>2 DEF handle_main_thread_create
<1>2. CASE handle_next_tid
  <2>1. CASE EXEC_THREAD = Nadie
    BY <1>0, <1>2, <2>1 DEF handle_next_tid, FielInv, Relojes, EstimacionFiel
  <2>2. CASE EXEC_THREAD # Nadie
    <3> DEFINE t == EXEC_THREAD
    <3>1. t \in ULT BY <1>0, <2>2 DEF Tipos
    <3>2. /\ duracionRafaga' = Mide(t) /\ Vuelca(t) /\ EXEC_THREAD' = Nadie
          /\ estado' = [estado EXCEPT ![t] = "E_READY"] /\ UNCHANGED reloj
          /\ UNCHANGED <<ejecutado_desde_estimacion, estimacionUltimaRafaga, mezcladas>>
      BY <1>2, <2>2 DEF handle_next_tid
    <3>3. "E_READY" \in Estado \ {"E_EXECUTE", "E_EXIT"} BY DEF Estado
    <3>4. EstimacionFiel' BY <3>1, <3>2, <3>3, RafagaPorEstimar
    <3>5. Relojes' BY <1>0, <3>2 DEF Lugares, Relojes, BaseInv
    <3>6. QED BY <1>0, <3>4, <3>5 DEF FielInv
  <2>3. QED BY <2>1, <2>2
<1>3. CASE estimar_ULTs_listos
  <2> DEFINE Suyas == {t \in Range(READY_LIST) : ejecutado_desde_estimacion[t]}
  <2>1. /\ estimacionUltimaRafaga' =
              [t \in ULT |-> IF t \in Suyas
                             THEN Estimacion(duracionRafaga[t], estimacionUltimaRafaga[t])
                             ELSE estimacionUltimaRafaga[t]]
        /\ ejecutado_desde_estimacion' =
              [t \in ULT |-> ejecutado_desde_estimacion[t] /\ t \notin Suyas]
        /\ pc = "sem_wait" /\ pc' = "estimada"
        /\ UNCHANGED <<reloj, estado, READY_LIST, EXEC_THREAD, duracionRafaga,
                       tiempoInicialEnExec, promedio, mezcladas>>
    BY <1>3 DEF estimar_ULTs_listos
  <2>2. EXEC_THREAD = Nadie /\ estado[Principal] # "SinCrear"
    BY <1>0, <2>1 DEF Lugares
  <2>3. \A t \in Range(READY_LIST) : t \in ULT /\ estado[t] = "E_READY"
    <3>1. \A t \in Range(READY_LIST) : t \in ULT BY <1>0, EnRango, ElementOfSeq
    <3>2. QED BY <1>0, <3>1 DEF Lugares
  <2>5. Relojes' BY <2>1, <2>2 DEF Relojes
  <2>6. ASSUME NEW t \in ULT \ mezcladas, estado[t] # "E_EXIT"
        PROVE  promedio[t] =
                 IF estado[t] # "E_EXECUTE" /\ ejecutado_desde_estimacion'[t]
                 THEN Estimacion(duracionRafaga[t], estimacionUltimaRafaga'[t])
                 ELSE estimacionUltimaRafaga'[t]
    <3>1. CASE t \in Suyas BY <1>0, <2>1, <2>3, <2>6, <3>1 DEF EstimacionFiel
    <3>2. CASE t \notin Suyas BY <1>0, <2>1, <2>6, <3>2 DEF EstimacionFiel
    <3>3. QED BY <3>1, <3>2
  <2>7. EstimacionFiel' BY <2>1, <2>6 DEF EstimacionFiel
  <2>8. QED BY <1>0, <2>5, <2>7 DEF FielInv
<1>4. CASE listo_a_ejecucion
  <2>1. PICK r \in [DOMAIN READY_LIST -> Range(READY_LIST)] :
          /\ Ordenada(r) /\ READY_LIST' = Tail(r) /\ Ejecuta(r[1], tiempo_actual)
          /\ mezcladas' = IF tiempo_actual # reloj \/ ejecutado_desde_estimacion[r[1]]
                          THEN mezcladas \cup {r[1]} ELSE mezcladas
    BY <1>4 DEF listo_a_ejecucion
  <2>2. /\ READY_LIST # <<>> /\ tiempo_actual \in Int /\ estado[Principal] # "SinCrear"
        /\ UNCHANGED <<reloj, estimacionUltimaRafaga, promedio>>
    BY <1>0, <1>4 DEF listo_a_ejecucion, Lugares
  <2>3. r[1] \in ULT /\ r[1] \in Range(READY_LIST)
    BY <1>0, <2>1, <2>2, OrdenaLista
  <2>4. estado[r[1]] = "E_READY" BY <1>0, <2>3 DEF Lugares
  <2>5. /\ EstimacionFiel'
        /\ EXEC_THREAD' \notin mezcladas' =>
             duracionRafaga'[EXEC_THREAD'] = tiempoInicialEnExec'[EXEC_THREAD']
        /\ ejecutado_desde_estimacion'[EXEC_THREAD']
    BY <2>1, <2>2, <2>3, <2>4, RafagaNueva
  <2>6. estado'[Principal] # "SinCrear"
    BY <1>0, <2>1, <2>2, <2>3 DEF Ejecuta, Tipos
  <2>7. QED BY <1>0, <2>5, <2>6 DEF FielInv, Relojes
<1>5. CASE ejecucion_a_bloqueado
  <2> DEFINE t == EXEC_THREAD
  <2>1. t \in ULT BY <1>0, <1>5 DEF Tipos, ejecucion_a_bloqueado
  <2>2. /\ duracionRafaga' = Mide(t) /\ Vuelca(t) /\ EXEC_THREAD' = Nadie
        /\ estado' = [estado EXCEPT ![t] = "E_BLOCKED"] /\ UNCHANGED reloj
        /\ UNCHANGED <<ejecutado_desde_estimacion, estimacionUltimaRafaga, mezcladas>>
    BY <1>5 DEF ejecucion_a_bloqueado, llamadaVars
  <2>3. "E_BLOCKED" \in Estado \ {"E_EXECUTE", "E_EXIT"} BY DEF Estado
  <2>4. EstimacionFiel' BY <2>1, <2>2, <2>3, RafagaPorEstimar
  <2>5. Relojes' BY <1>0, <1>5, <2>2 DEF Tipos, Lugares, Relojes, ejecucion_a_bloqueado
  <2>6. QED BY <1>0, <2>4, <2>5 DEF FielInv
<1>6. CASE get_time_today
  BY <1>0, <1>6
  DEF get_time_today, FielInv, Relojes, EstimacionFiel, tiempoVars, llamadaVars
<1>7. ASSUME NEW t \in ULT, handle_ULT_create(t) PROVE FielInv'
  <2>1. EstimacionFiel' BY <1>0, <1>7
    DEF handle_ULT_create, Tipos, Lugares, EstimacionFiel, tiempoVars
  <2>2. Relojes' BY <1>0, <1>7
    DEF handle_ULT_create, Tipos, Relojes, tiempoVars, llamadaVars
  <2>3. QED BY <1>0, <2>1, <2>2 DEF FielInv
<1>8. ASSUME NEW t \in ULT, close_tid(t) PROVE FielInv'
  <2>1. EstimacionFiel' BY <1>0, <1>8
    DEF close_tid, Tipos, EstimacionFiel, tiempoVars
  <2>2. Relojes' BY <1>0, <1>8
    DEF close_tid, Tipos, Lugares, Relojes, tiempoVars, llamadaVars
  <2>3. QED BY <1>0, <2>1, <2>2 DEF FielInv
<1>9. ASSUME NEW t \in ULT, a_listo(t) PROVE FielInv'
  <2>1. EstimacionFiel' BY <1>0, <1>9 DEF a_listo, Tipos, EstimacionFiel, tiempoVars
  <2>2. Relojes' BY <1>0, <1>9 DEF a_listo, Tipos, Relojes, tiempoVars, llamadaVars
  <2>3. QED BY <1>0, <2>1, <2>2 DEF FielInv
<1>10. ASSUME NEW t \in ULT, desjoinear_hilo(t) PROVE FielInv'
  <2>1. EstimacionFiel' BY <1>0, <1>10
    DEF desjoinear_hilo, Tipos, EstimacionFiel, tiempoVars
  <2>2. Relojes' BY <1>0, <1>10
    DEF desjoinear_hilo, Tipos, Relojes, tiempoVars, llamadaVars
  <2>3. QED BY <1>0, <2>1, <2>2 DEF FielInv
<1>11. CASE UNCHANGED vars
  BY <1>0, <1>11
  DEF vars, tiempoVars, llamadaVars, FielInv, Relojes, EstimacionFiel
<1>12. QED
  BY <1>1, <1>2, <1>3, <1>4, <1>5, <1>6, <1>7, <1>8, <1>9, <1>10, <1>11 DEF Next

\* EstimacionFiel, with a clock that moves at any time and ULTs that become ready at any
\* time: every burst counts once in the estimate, and the two steps of next_tid that spoil an
\* average spoil the one of the ULT they run and no other.
THEOREM EstimacionCorrecta == Spec => []EstimacionFiel
<1>1. FielInv /\ [Next]_vars => FielInv' BY FielPaso
<1>2. FielInv => EstimacionFiel BY DEF FielInv
<1>3. QED BY <1>1, <1>2, FielInicial, PTL DEF Spec

\* A step that gives the processor takes the first of the sorted list.
LEMMA EligeElMenor ==
  ASSUME FielInv, [Next]_vars, NEW t \in ULT \ mezcladas, NEW u \in ULT \ mezcladas,
         estado[t] = "E_READY", estado'[t] = "E_EXECUTE", estado[u] = "E_READY",
         ~ejecutado_desde_estimacion[t], ~ejecutado_desde_estimacion[u]
  PROVE  promedio[t] <= promedio[u]
<1> USE SjfAssumption
<1>0. Tipos /\ Lugares /\ EstimacionFiel BY DEF FielInv, BaseInv
<1>1. listo_a_ejecucion
  <2>1. ~handle_main_thread_create
    BY <1>0 DEF handle_main_thread_create, Ejecuta, Tipos
  <2>2. ~handle_next_tid BY <1>0 DEF handle_next_tid, Tipos
  <2>3. ~estimar_ULTs_listos BY DEF estimar_ULTs_listos
  <2>4. ~ejecucion_a_bloqueado BY <1>0 DEF ejecucion_a_bloqueado, Tipos
  <2>5. ~get_time_today BY DEF get_time_today
  <2>6. ASSUME NEW v \in ULT
        PROVE  ~(handle_ULT_create(v) \/ close_tid(v) \/ a_listo(v) \/ desjoinear_hilo(v))
    BY <1>0 DEF handle_ULT_create, close_tid, a_listo, desjoinear_hilo, Tipos
  <2>7. ~UNCHANGED vars BY DEF vars
  <2>8. QED BY <2>1, <2>2, <2>3, <2>4, <2>5, <2>6, <2>7 DEF Next
<1>2. PICK r \in [DOMAIN READY_LIST -> Range(READY_LIST)] :
        Ordenada(r) /\ Ejecuta(r[1], tiempo_actual)
  BY <1>1 DEF listo_a_ejecucion
<1>3. READY_LIST # <<>> /\ pc = "estimada" BY <1>0, <1>1 DEF listo_a_ejecucion, Lugares
<1>4. /\ r[1] \in ULT
      /\ \A v \in Range(READY_LIST) :
           estimacionUltimaRafaga[r[1]] <= estimacionUltimaRafaga[v]
  BY <1>0, <1>2, <1>3, OrdenaLista
<1>5. t = r[1] BY <1>0, <1>2, <1>4 DEF Ejecuta, Tipos
<1>6. t \in Range(READY_LIST) /\ u \in Range(READY_LIST) BY <1>0 DEF Lugares
<1>7. promedio[t] = estimacionUltimaRafaga[t] /\ promedio[u] = estimacionUltimaRafaga[u]
  BY <1>0 DEF EstimacionFiel
<1>8. QED BY <1>4, <1>5, <1>6, <1>7

\* MenorPrimero: of the ready ULTs whose bursts are all in their estimates next_tid runs the
\* one with the least average, whatever becomes ready between its estimation and its choice.
THEOREM EleccionCorrecta == Spec => MenorPrimero
<1>1. FielInv /\ [Next]_vars => FielInv' BY FielPaso
<1>2. FielInv /\ [Next]_vars =>
        [\A t, u \in {v \in ULT \ mezcladas : estado[v] = "E_READY" /\ ~ejecutado_desde_estimacion[v]} :
           estado'[t] = "E_EXECUTE" => promedio[t] <= promedio[u]]_vars
  BY EligeElMenor
<1>3. QED BY <1>1, <1>2, FielInicial, PTL DEF Spec, MenorPrimero
=============================================================================
