----------------------------- MODULE SuseProofs -----------------------------
(* Theorems about Suse for every number of processes, ULTs, semaphores and *)
(* slots: first for any clients, then for those that SUSE is written for.  *)
EXTENDS SuseRefina, TLAPS, SequenceTheorems, WellFoundedInduction, FiniteSetTheorems

-----------------------------------------------------------------------------
(* Queues                                                                  *)

\* Every non-empty set of naturals has a least element.
LEMMA MinExiste ==
  ASSUME NEW S \in SUBSET Nat, S # {}
  PROVE  \E x \in S : \A y \in S : x <= y
<1> DEFINE R == OpToRel(<, Nat)
<1>0. S \subseteq Nat OBVIOUS
<1>1. \A x, y \in Nat : y < x => <<y, x>> \in R BY DEF OpToRel
<1>2. IsWellFoundedOn(R, Nat) BY NatLessThanWellFounded
<1> HIDE DEF R
<1>3. PICK x \in S : \A y \in S : ~ (<<y, x>> \in R) BY <1>0, <1>2, WFMin
<1>4. ASSUME NEW y \in S PROVE x <= y
  <2>1. x \in Nat /\ y \in Nat BY <1>0
  <2>2. ~ (y < x) BY <1>1, <1>3, <2>1
  <2>3. QED BY <2>1, <2>2
<1>5. QED BY <1>4

\* Taking out position k keeps the order of the others.
LEMMA RemoveAtProps ==
  ASSUME NEW S, NEW q \in Seq(S), NEW k \in 1 .. Len(q)
  PROVE  /\ RemoveAt(q, k) \in Seq(S)
         /\ Len(RemoveAt(q, k)) = Len(q) - 1
         /\ \A i \in 1 .. (Len(q) - 1) :
              RemoveAt(q, k)[i] = IF i < k THEN q[i] ELSE q[i + 1]
<1> DEFINE a == SubSeq(q, 1, k - 1)
           b == SubSeq(q, k + 1, Len(q))
<1>1. /\ Len(q) \in Nat /\ k \in Nat /\ k >= 1 /\ k <= Len(q)
      /\ \A i \in 1 .. Len(q) : q[i] \in S
  BY LenProperties, ElementOfSeq
<1>2. /\ a \in Seq(S) /\ Len(a) = k - 1
      /\ \A i \in 1 .. (k - 1) : a[i] = q[i]
  <2>1. \A i \in 1 .. (k - 1) : q[i] \in S BY <1>1
  <2>2. /\ SubSeq(q, 1, k - 1) \in Seq(S)
        /\ Len(SubSeq(q, 1, k - 1)) = IF 1 <= k - 1 THEN (k - 1) - 1 + 1 ELSE 0
        /\ \A i \in 1 .. ((k - 1) - 1 + 1) : SubSeq(q, 1, k - 1)[i] = q[1 + i - 1]
    BY <1>1, <2>1, SubSeqProperties
  <2>3. QED BY <2>2, <1>1
<1>3. /\ b \in Seq(S) /\ Len(b) = Len(q) - k
      /\ \A i \in 1 .. (Len(q) - k) : b[i] = q[k + i]
  <2>1. \A i \in (k + 1) .. Len(q) : q[i] \in S BY <1>1
  <2>2. /\ SubSeq(q, k + 1, Len(q)) \in Seq(S)
        /\ Len(SubSeq(q, k + 1, Len(q))) =
             IF k + 1 <= Len(q) THEN Len(q) - (k + 1) + 1 ELSE 0
        /\ \A i \in 1 .. (Len(q) - (k + 1) + 1) :
             SubSeq(q, k + 1, Len(q))[i] = q[(k + 1) + i - 1]
    BY <1>1, <2>1, SubSeqProperties
  <2>3. QED BY <2>2, <1>1
<1> HIDE DEF a, b
<1>4. /\ a \o b \in Seq(S)
      /\ Len(a \o b) = Len(a) + Len(b)
      /\ \A i \in 1 .. (Len(a) + Len(b)) :
           (a \o b)[i] = IF i <= Len(a) THEN a[i] ELSE b[i - Len(a)]
  BY <1>2, <1>3, ConcatProperties
<1>5. RemoveAt(q, k) = a \o b BY DEF RemoveAt, a, b
<1>6. ASSUME NEW i \in 1 .. (Len(q) - 1)
      PROVE  (a \o b)[i] = IF i < k THEN q[i] ELSE q[i + 1]
  <2>1. CASE i < k BY <1>1, <1>2, <1>3, <1>4, <2>1
  <2>2. CASE ~ (i < k)
    <3>1. (a \o b)[i] = b[i - (k - 1)] BY <1>1, <1>2, <1>3, <1>4, <2>2
    <3>2. i - (k - 1) \in 1 .. (Len(q) - k) BY <1>1, <2>2
    <3>3. b[i - (k - 1)] = q[k + (i - (k - 1))] BY <1>3, <3>2
    <3>4. k + (i - (k - 1)) = i + 1 BY <1>1
    <3>5. QED BY <3>1, <3>3, <3>4, <2>2, <1>1
  <2>3. QED BY <2>1, <2>2
<1>7. Len(a \o b) = Len(q) - 1 BY <1>1, <1>2, <1>3, <1>4
<1>8. QED BY ONLY <1>4, <1>5, <1>6, <1>7

\* RemoveFirst takes out one occurrence, the first, if there is one.
LEMMA RemoveFirstProps ==
  ASSUME NEW S, NEW q \in Seq(S), NEW e
  PROVE  \/ /\ \A i \in 1 .. Len(q) : q[i] # e
            /\ RemoveFirst(q, e) = q
         \/ \E k \in 1 .. Len(q) :
              /\ q[k] = e
              /\ \A j \in 1 .. (k - 1) : q[j] # e
              /\ RemoveFirst(q, e) = RemoveAt(q, k)
<1>1. CASE \A i \in 1 .. Len(q) : q[i] # e
  BY <1>1 DEF RemoveFirst
<1>2. CASE \E i \in 1 .. Len(q) : q[i] = e
  <2> DEFINE I == {i \in 1 .. Len(q) : q[i] = e}
  <2>1. I \in SUBSET Nat /\ I # {} BY <1>2
  <2>2. \E k \in I : \A y \in I : k <= y  BY <2>1, MinExiste
  <2>3. Min(I) \in I /\ \A y \in I : Min(I) <= y BY <2>2 DEF Min
  <2>4. RemoveFirst(q, e) = RemoveAt(q, Min(I))
    BY <1>2, <2>1 DEF RemoveFirst, SelectInSeq
  <2> DEFINE k == Min(I)
  <2> HIDE DEF k
  <2>5. k \in 1 .. Len(q) /\ q[k] = e /\ \A y \in I : k <= y BY <2>3 DEF k
  <2>6. ASSUME NEW j \in 1 .. (k - 1) PROVE q[j] # e
    <3>1. j \in 1 .. Len(q) /\ j < k /\ k \in Int BY <2>5
    <3>2. QED BY <2>5, <3>1
  <2>7. QED BY <2>4, <2>5, <2>6 DEF k
<1>3. QED BY <1>1, <1>2

\* The result holds only elements that the queue held.
LEMMA RemoveFirstSeq ==
  ASSUME NEW S, NEW q \in Seq(S), NEW e
  PROVE  /\ RemoveFirst(q, e) \in Seq(S)
         /\ \A i \in 1 .. Len(RemoveFirst(q, e)) :
              \E j \in 1 .. Len(q) : RemoveFirst(q, e)[i] = q[j]
<1>1. CASE RemoveFirst(q, e) = q BY <1>1
<1>2. ASSUME NEW k \in 1 .. Len(q), RemoveFirst(q, e) = RemoveAt(q, k)
      PROVE  /\ RemoveFirst(q, e) \in Seq(S)
             /\ \A i \in 1 .. Len(RemoveFirst(q, e)) :
                  \E j \in 1 .. Len(q) : RemoveFirst(q, e)[i] = q[j]
  <2>1. /\ RemoveAt(q, k) \in Seq(S)
        /\ Len(RemoveAt(q, k)) = Len(q) - 1
        /\ \A i \in 1 .. (Len(q) - 1) :
             RemoveAt(q, k)[i] = IF i < k THEN q[i] ELSE q[i + 1]
    BY RemoveAtProps
  <2>2. Len(q) \in Nat BY LenProperties
  <2>3. ASSUME NEW i \in 1 .. (Len(q) - 1)
        PROVE  \E j \in 1 .. Len(q) : RemoveAt(q, k)[i] = q[j]
    <3>1. i \in 1 .. Len(q) /\ i + 1 \in 1 .. Len(q) BY <2>2
    <3>2. QED BY <2>1, <3>1
  <2>4. QED BY <1>2, <2>1, <2>3
<1>3. QED BY <1>1, <1>2, RemoveFirstProps

-----------------------------------------------------------------------------
(* Types                                                                   *)

\* The parts of TypeOK, so that a step only looks at those it changes.
TipoULT   == /\ estado \in [ULT -> Estados]
             /\ joinTo \in [ULT -> SUBSET Tid]
             /\ joinedBy \in [ULT -> Seq(Tid)]
TipoProc  == /\ READY_LIST \in [ULT -> Nat]
             /\ EXEC_THREAD \in [Proc -> Tid \cup {SinULT}]
             /\ semaforoReady \in [Proc -> Nat]
TipoCola  == /\ new_queue \in Seq(ULT)
             /\ blocked_queue \in [ULT -> Nat]
             /\ exit_queue \in SUBSET ULT
TipoSem   == /\ VALUE \in [Sem -> Int]
             /\ BLOCKED_LIST \in [Sem -> Seq(ULT)]
TipoHilo  == /\ ACTUAL_MULTIPROG \in Int
             /\ mutex \in [Mutexes -> Proc \cup {Libre}]
             /\ pc \in [Proc -> Pcs]
             /\ req \in [Proc -> Peticion]
             /\ curr \in [Proc -> Tid \cup {SinULT}]
             /\ cruce \in BOOLEAN

LEMMA TypeOKPartes ==
  TypeOK <=> TipoULT /\ TipoProc /\ TipoCola /\ TipoSem /\ TipoHilo
BY DEF TypeOK, TipoULT, TipoProc, TipoCola, TipoSem, TipoHilo

LEMMA MainEnTid == Main \in Tid /\ Tid \subseteq Nat /\ SinULT \notin Tid
BY SusAssumption DEF Main, Tid, SinULT, SusAssumption

\* The fields of a request can be set.
LEMMA CambiaPeticion ==
  ASSUME req \in [Proc -> Peticion], NEW p \in Proc
  PROVE  /\ req[p] \in Peticion
         /\ req[p].tid \in Tid \cup {SinULT} /\ req[p].i \in Nat
         /\ req[p].sem \in Sem \cup {SemDesconocido}
         /\ req[p].th \in ULT \cup {<<>>} /\ req[p].leido \in Estados
         /\ \A t \in Tid : [req EXCEPT ![p].tid = t] \in [Proc -> Peticion]
         /\ \A t \in Tid, i \in Nat :
              [req EXCEPT ![p] = [@ EXCEPT !.tid = t, !.i = i]] \in [Proc -> Peticion]
         /\ \A i \in Nat : [req EXCEPT ![p].i = i] \in [Proc -> Peticion]
         /\ \A s \in Sem \cup {SemDesconocido} :
              [req EXCEPT ![p].sem = s] \in [Proc -> Peticion]
         /\ \A u \in ULT, e \in Estados :
              [req EXCEPT ![p] = [@ EXCEPT !.th = u, !.leido = e]] \in [Proc -> Peticion]
<1>1. req[p] \in Peticion OBVIOUS
<1>2. \A r \in Peticion : [req EXCEPT ![p] = r] \in [Proc -> Peticion] OBVIOUS
<1>3. ASSUME NEW r \in Peticion
      PROVE  /\ \A t \in Tid : [r EXCEPT !.tid = t] \in Peticion
             /\ \A t \in Tid, i \in Nat : [r EXCEPT !.tid = t, !.i = i] \in Peticion
             /\ \A i \in Nat : [r EXCEPT !.i = i] \in Peticion
             /\ \A s \in Sem \cup {SemDesconocido} : [r EXCEPT !.sem = s] \in Peticion
             /\ \A u \in ULT, e \in Estados : [r EXCEPT !.th = u, !.leido = e] \in Peticion
             /\ r.tid \in Tid \cup {SinULT} /\ r.i \in Nat
             /\ r.sem \in Sem \cup {SemDesconocido}
             /\ r.th \in ULT \cup {<<>>} /\ r.leido \in Estados
  BY <1>3 DEF Peticion
<1>4. ASSUME NEW t \in Tid PROVE [req EXCEPT ![p].tid = t] \in [Proc -> Peticion]
  <2>1. [req[p] EXCEPT !.tid = t] \in Peticion BY <1>1, <1>3
  <2>2. [req EXCEPT ![p].tid = t] = [req EXCEPT ![p] = [req[p] EXCEPT !.tid = t]] OBVIOUS
  <2>3. QED BY <1>2, <2>1, <2>2
<1>5. ASSUME NEW t \in Tid, NEW i \in Nat
      PROVE  [req EXCEPT ![p] = [@ EXCEPT !.tid = t, !.i = i]] \in [Proc -> Peticion]
  <2>1. [req[p] EXCEPT !.tid = t, !.i = i] \in Peticion BY <1>1, <1>3
  <2>2. [req EXCEPT ![p] = [@ EXCEPT !.tid = t, !.i = i]] =
          [req EXCEPT ![p] = [req[p] EXCEPT !.tid = t, !.i = i]] OBVIOUS
  <2>3. QED BY <1>2, <2>1, <2>2
<1>6. ASSUME NEW i \in Nat PROVE [req EXCEPT ![p].i = i] \in [Proc -> Peticion]
  <2>1. [req[p] EXCEPT !.i = i] \in Peticion BY <1>1, <1>3
  <2>2. [req EXCEPT ![p].i = i] = [req EXCEPT ![p] = [req[p] EXCEPT !.i = i]] OBVIOUS
  <2>3. QED BY <1>2, <2>1, <2>2
<1>7. ASSUME NEW s \in Sem \cup {SemDesconocido}
      PROVE  [req EXCEPT ![p].sem = s] \in [Proc -> Peticion]
  <2>1. [req[p] EXCEPT !.sem = s] \in Peticion BY <1>1, <1>3
  <2>2. [req EXCEPT ![p].sem = s] = [req EXCEPT ![p] = [req[p] EXCEPT !.sem = s]] OBVIOUS
  <2>3. QED BY <1>2, <2>1, <2>2
<1>8. ASSUME NEW u \in ULT, NEW e \in Estados
      PROVE  [req EXCEPT ![p] = [@ EXCEPT !.th = u, !.leido = e]] \in [Proc -> Peticion]
  <2>1. [req[p] EXCEPT !.th = u, !.leido = e] \in Peticion BY <1>1, <1>3
  <2>2. [req EXCEPT ![p] = [@ EXCEPT !.th = u, !.leido = e]] =
          [req EXCEPT ![p] = [req[p] EXCEPT !.th = u, !.leido = e]] OBVIOUS
  <2>3. QED BY <1>2, <2>1, <2>2
<1>9. QED BY ONLY <1>1, <1>3, <1>4, <1>5, <1>6, <1>7, <1>8

\* The loop index of a request can be raised.
LEMMA TipoIndice ==
  ASSUME TypeOK, NEW p \in Proc, req' = [req EXCEPT ![p].i = req[p].i + 1]
  PROVE  req' \in [Proc -> Peticion]
<1>1. req \in [Proc -> Peticion] BY DEF TypeOK
<1>4. req[p].i \in Nat BY <1>1, CambiaPeticion
<1>2. req[p].i + 1 \in Nat BY <1>4
<1>3. QED BY <1>1, <1>2, CambiaPeticion

LEMMA TipoA_listo ==
  ASSUME TypeOK, NEW u \in ULT, A_listo(u)
  PROVE  estado' \in [ULT -> Estados] /\ TipoProc' /\ TipoCola'
<1>1. NewSin(u, estado[u]) \in Seq(ULT)
  BY RemoveFirstSeq DEF TypeOK, NewSin
<1>2. BlockedSin(u, estado[u]) \in [ULT -> Nat]
  BY DEF TypeOK, BlockedSin
<1>3. ExecSin(u, estado[u]) \in [Proc -> Tid \cup {SinULT}]
  BY DEF TypeOK, ExecSin, ULT
<1>4. u[1] \in Proc /\ u[2] \in Tid BY DEF ULT
<1>5. /\ estado' = [estado EXCEPT ![u] = E_READY]
      /\ READY_LIST' = READY_LIST \/ READY_LIST' = ReadyCon(u)
      /\ semaforoReady' = [semaforoReady EXCEPT ![u[1]] = @ + 1]
      /\ new_queue' = NewSin(u, estado[u]) /\ blocked_queue' = BlockedSin(u, estado[u])
      /\ EXEC_THREAD' = ExecSin(u, estado[u])
      /\ exit_queue' = exit_queue
  BY DEF A_listo, Post
<1>6. estado' \in [ULT -> Estados] BY <1>5 DEF TypeOK, Estados
<1>7. READY_LIST' \in [ULT -> Nat] BY <1>5 DEF TypeOK, ReadyCon
<1>8. semaforoReady' \in [Proc -> Nat] BY <1>4, <1>5 DEF TypeOK
<1>9. QED BY <1>1, <1>2, <1>3, <1>5, <1>6, <1>7, <1>8 DEF TypeOK, TipoProc, TipoCola

LEMMA TipoNuevoAEjecucion ==
  ASSUME TypeOK, NEW u \in ULT, nuevo_a_ejecucion(u)
  PROVE  estado' \in [ULT -> Estados] /\ TipoProc' /\ TipoCola'
<1>1. NewSin(u, estado[u]) \in Seq(ULT)
  BY RemoveFirstSeq DEF TypeOK, NewSin
<1>2. BlockedSin(u, estado[u]) \in [ULT -> Nat]
  BY DEF TypeOK, BlockedSin
<1>3. ReadySin(u, estado[u]) \in [ULT -> Nat]
  BY DEF TypeOK, ReadySin, ULT
<1>4. u[1] \in Proc /\ u[2] \in Tid BY DEF ULT
<1>5. /\ estado' = [estado EXCEPT ![u] = E_EXECUTE]
      /\ EXEC_THREAD' = [EXEC_THREAD EXCEPT ![u[1]] = u[2]]
      /\ READY_LIST' = ReadySin(u, estado[u])
      /\ semaforoReady' = semaforoReady
      /\ new_queue' = NewSin(u, estado[u]) /\ blocked_queue' = BlockedSin(u, estado[u])
      /\ exit_queue' = exit_queue
  BY DEF nuevo_a_ejecucion
<1>6. estado' \in [ULT -> Estados] BY <1>5 DEF TypeOK, Estados
<1>7. EXEC_THREAD' \in [Proc -> Tid \cup {SinULT}] BY <1>4, <1>5 DEF TypeOK
<1>8. QED BY <1>1, <1>2, <1>3, <1>5, <1>6, <1>7 DEF TypeOK, TipoProc, TipoCola

LEMMA TipoA_bloqueado ==
  ASSUME TypeOK, NEW u \in ULT, A_bloqueado(u)
  PROVE  estado' \in [ULT -> Estados] /\ TipoProc' /\ TipoCola'
<1>1. u[1] \in Proc BY DEF ULT
<1>2. /\ estado' = [estado EXCEPT ![u] = E_BLOCKED]
      /\ EXEC_THREAD' = [EXEC_THREAD EXCEPT ![u[1]] = SinULT]
      /\ blocked_queue' = [blocked_queue EXCEPT ![u] = @ + 1]
      /\ UNCHANGED <<new_queue, exit_queue, READY_LIST, semaforoReady>>
  BY DEF A_bloqueado
<1>3. estado' \in [ULT -> Estados] BY <1>2 DEF TypeOK, Estados
<1>4. EXEC_THREAD' \in [Proc -> Tid \cup {SinULT}] BY <1>1, <1>2 DEF TypeOK
<1>5. blocked_queue' \in [ULT -> Nat] BY <1>2 DEF TypeOK
<1>6. QED BY <1>2, <1>3, <1>4, <1>5 DEF TypeOK, TipoProc, TipoCola

LEMMA TipoA_exit ==
  ASSUME TypeOK, NEW u \in ULT, A_exit(u)
  PROVE  /\ estado' \in [ULT -> Estados]
         /\ READY_LIST' \in [ULT -> Nat]
         /\ EXEC_THREAD' \in [Proc -> Tid \cup {SinULT}]
         /\ TipoCola'
<1>1. NewSin(u, estado[u]) \in Seq(ULT)
  BY RemoveFirstSeq DEF TypeOK, NewSin
<1>2. BlockedSin(u, estado[u]) \in [ULT -> Nat]
  BY DEF TypeOK, BlockedSin
<1>3. ReadySin(u, estado[u]) \in [ULT -> Nat]
  BY DEF TypeOK, ReadySin, ULT
<1>4. ExecSin(u, estado[u]) \in [Proc -> Tid \cup {SinULT}]
  BY DEF TypeOK, ExecSin, ULT
<1>5. /\ estado' = [estado EXCEPT ![u] = E_EXIT]
      /\ READY_LIST' = ReadySin(u, estado[u]) /\ EXEC_THREAD' = ExecSin(u, estado[u])
      /\ new_queue' = NewSin(u, estado[u]) /\ blocked_queue' = BlockedSin(u, estado[u])
      /\ exit_queue' = exit_queue \cup {u}
  BY DEF A_exit
<1>6. estado' \in [ULT -> Estados] BY <1>5 DEF TypeOK, Estados
<1>7. QED BY <1>1, <1>2, <1>3, <1>4, <1>5, <1>6 DEF TypeOK, TipoCola

\* Where the handler is, the mutexes and the request keep their types.
LEMMA TipoPasoHilo ==
  ASSUME TypeOK, NEW p \in Proc
  PROVE  /\ \A l \in Pcs : Va(p, l) => pc' \in [Proc -> Pcs]
         /\ Responde(p) => /\ pc' \in [Proc -> Pcs]
                           /\ req' \in [Proc -> Peticion]
         /\ \A m \in Mutexes : Toma(p, m) => mutex' \in [Mutexes -> Proc \cup {Libre}]
         /\ Suelta(p) \in [Mutexes -> Proc \cup {Libre}]
         /\ Wait(p) => semaforoReady' \in [Proc -> Nat]
         /\ Post(p) => semaforoReady' \in [Proc -> Nat]
<1>1. ASSUME NEW l \in Pcs, Va(p, l) PROVE pc' \in [Proc -> Pcs]
  BY <1>1 DEF TypeOK, Va
<1>2. ASSUME Responde(p)
      PROVE  /\ pc' \in [Proc -> Pcs]
             /\ req' \in [Proc -> Peticion]
  <2>1. SinReq \in Peticion
    BY DEF SinReq, Peticion, Estados
  <2>2. pc' \in [Proc -> Pcs] BY <1>1, <1>2 DEF Responde, Pcs
  <2>3. QED BY <1>2, <2>1, <2>2 DEF TypeOK, Responde
<1>3. ASSUME NEW m \in Mutexes, Toma(p, m) PROVE mutex' \in [Mutexes -> Proc \cup {Libre}]
  BY <1>3 DEF TypeOK, Toma
<1>4. Suelta(p) \in [Mutexes -> Proc \cup {Libre}] BY DEF TypeOK, Suelta
<1>5. Wait(p) => semaforoReady' \in [Proc -> Nat] BY DEF TypeOK, Wait
<1>6. Post(p) => semaforoReady' \in [Proc -> Nat] BY DEF TypeOK, Post
<1>7. QED BY <1>1, <1>2, <1>3, <1>4, <1>5, <1>6

\* Every request and every handler step keeps the types.
LEMMA TipoPedido ==
  ASSUME TypeOK, NEW p \in Proc, Pedido(p)
  PROVE  TypeOK'
<1> USE MainEnTid
<1>0. Va(p, "create") \/ Va(p, "sem_ready") \/ Va(p, "wait") \/ Va(p, "signal")
        \/ Va(p, "fin") \/ Va(p, "desjoinear") => pc' \in [Proc -> Pcs]
  BY TipoPasoHilo DEF Pcs
<1>1. ASSUME NEW t \in Tid, ULT_create(p, t), curr' \in [Proc -> Tid \cup {SinULT}],
             UNCHANGED cruce
      PROVE  TypeOK'
  <2>1. <<p, t>> \in ULT BY DEF ULT
  <2>2. TipoULT'
    <3>1. estado' = [estado EXCEPT ![<<p, t>>] = E_NEW] BY <1>1 DEF ULT_create
    <3>2. estado' \in [ULT -> Estados] BY <2>1, <3>1 DEF TypeOK, Estados
    <3>3. QED BY <1>1, <3>2 DEF TypeOK, ULT_create, TipoULT
  <2>3. TipoProc' BY <1>1 DEF TypeOK, ULT_create, TipoProc, procVars
  <2>4. TipoCola' BY <1>1, <2>1 DEF TypeOK, ULT_create, TipoCola
  <2>5. TipoSem' BY <1>1 DEF TypeOK, ULT_create, TipoSem, semVars
  <2>8. req' \in [Proc -> Peticion]
    BY <1>1, CambiaPeticion DEF TypeOK, ULT_create
  <2>6. TipoHilo' BY <1>0, <1>1, <2>8 DEF TypeOK, ULT_create, TipoHilo
  <2>7. QED BY <2>2, <2>3, <2>4, <2>5, <2>6 DEF TypeOK, TipoULT, TipoProc, TipoCola, TipoSem, TipoHilo
<1>2. CASE handle_main_thread_create(p)
  BY <1>1, <1>2 DEF TypeOK, handle_main_thread_create
<1>3. ASSUME NEW t \in Tid, handle_ULT_create(p, t) PROVE TypeOK'
  BY <1>1, <1>3 DEF TypeOK, handle_ULT_create
<1>4. ASSUME NEW t \in Tid, join(p, t) PROVE TypeOK'
  <2>1. curr' \in [Proc -> Tid \cup {SinULT}] BY <1>4 DEF TypeOK, join
  <2>2. CASE UNCHANGED <<ultVars, procVars, colaVars>>
    BY <1>4, <2>1, <2>2 DEF TypeOK, join, ultVars, procVars, colaVars, semVars
  <2>3. CASE EXEC_THREAD[p] # SinULT /\ t \in ULTS(p)
    <3> DEFINE e == EXEC_THREAD[p]
    <3>1. e \in Tid /\ <<p, e>> \in ULT /\ <<p, t>> \in ULT BY <2>3 DEF TypeOK, ULT
    <3>2. /\ joinTo' = [joinTo EXCEPT ![<<p, e>>] = @ \cup {t}]
          /\ joinedBy' = [joinedBy EXCEPT ![<<p, t>>] = Append(@, e)]
          /\ A_bloqueado(<<p, e>>)
      BY <1>4, <2>3 DEF join
    <3>3. estado' \in [ULT -> Estados] /\ TipoProc' /\ TipoCola'
      BY <3>1, <3>2, TipoA_bloqueado
    <3>4. joinTo' \in [ULT -> SUBSET Tid] BY <3>1, <3>2 DEF TypeOK
    <3>5. joinedBy' \in [ULT -> Seq(Tid)]
      <4>1. Append(joinedBy[<<p, t>>], e) \in Seq(Tid) BY <3>1 DEF TypeOK
      <4>2. QED BY <4>1, <3>1, <3>2 DEF TypeOK
    <3>6. TipoSem' /\ TipoHilo' BY <1>4, <2>1 DEF TypeOK, join, TipoSem, TipoHilo, semVars
    <3>7. QED BY <3>3, <3>4, <3>5, <3>6 DEF TypeOK, TipoULT, TipoProc, TipoCola, TipoSem, TipoHilo
  <2>4. QED BY <1>4, <2>2, <2>3 DEF join
<1>5. ASSUME NEW t \in Tid, close_tid(p, t) PROVE TypeOK'
  <2>1. TipoHilo'
    <3>1. pc' \in [Proc -> Pcs] BY <1>0, <1>5 DEF close_tid
    <3>2. req' = [req EXCEPT ![p] = [@ EXCEPT !.tid = t, !.i = 1]] BY <1>5 DEF close_tid
    <3>3. req' \in [Proc -> Peticion] BY <3>2, CambiaPeticion DEF TypeOK
    <3>4. QED BY <1>5, <3>1, <3>3 DEF TypeOK, close_tid, TipoHilo
  <2>2. QED BY <1>5, <2>1 DEF TypeOK, close_tid, TipoHilo, ultVars, procVars, colaVars, semVars
<1>6. CASE handle_next_tid(p)
  <2>1. TipoHilo' BY <1>0, <1>6 DEF TypeOK, handle_next_tid, TipoHilo
  <2>2. CASE UNCHANGED <<estado, procVars>>
    BY <1>6, <2>1, <2>2 DEF TypeOK, handle_next_tid, TipoHilo, procVars, colaVars, semVars
  <2>3. CASE EXEC_THREAD[p] # SinULT
    <3>1. EXEC_THREAD[p] \in Tid /\ <<p, EXEC_THREAD[p]>> \in ULT BY <2>3 DEF TypeOK, ULT
    <3>2. /\ EXEC_THREAD' = [EXEC_THREAD EXCEPT ![p] = SinULT]
          /\ estado' = [estado EXCEPT ![<<p, EXEC_THREAD[p]>>] = E_READY]
          /\ READY_LIST' = ReadyCon(<<p, EXEC_THREAD[p]>>)
          /\ Post(p)
      BY <1>6, <2>3 DEF handle_next_tid
    <3>3. TipoProc' BY <3>1, <3>2, TipoPasoHilo DEF TypeOK, TipoProc, ReadyCon
    <3>4. TipoULT' BY <1>6, <3>1, <3>2 DEF TypeOK, TipoULT, Estados, handle_next_tid
    <3>5. QED BY <1>6, <2>1, <3>3, <3>4
          DEF TypeOK, TipoULT, TipoProc, TipoHilo, handle_next_tid, colaVars, semVars
  <2>4. QED BY <1>6, <2>2, <2>3 DEF handle_next_tid
<1>7. CASE close_main(p)
  <2>1. estado' \in [ULT -> Estados] BY <1>7 DEF TypeOK, close_main, Estados
  <2>2. TipoProc' BY <1>7 DEF TypeOK, close_main, TipoProc
  <2>3. TipoHilo' BY <1>0, <1>7 DEF TypeOK, close_main, TipoHilo
  <2>4. QED BY <1>7, <2>1, <2>2, <2>3
        DEF TypeOK, close_main, TipoProc, TipoHilo, colaVars, semVars
<1>8. CASE desconexion(p)
  <2>1. TipoHilo' BY <1>0, <1>8 DEF TypeOK, desconexion, TipoHilo
  <2>2. QED BY <1>8, <2>1 DEF TypeOK, desconexion, TipoHilo, ultVars, procVars, colaVars, semVars
<1>9. ASSUME NEW s \in Sem \cup {SemDesconocido},
             handle_wait_sem(p, s) \/ handle_signal_sem(p, s)
      PROVE  TypeOK'
  <2>1. TipoHilo'
    <3>1. pc' \in [Proc -> Pcs] BY <1>0, <1>9 DEF handle_wait_sem, handle_signal_sem
    <3>2. req' = [req EXCEPT ![p].sem = s] BY <1>9 DEF handle_wait_sem, handle_signal_sem
    <3>3. req' \in [Proc -> Peticion] BY <3>2, CambiaPeticion DEF TypeOK
    <3>4. QED BY <1>9, <3>1, <3>3 DEF TypeOK, handle_wait_sem, handle_signal_sem, TipoHilo
  <2>2. QED BY <1>9, <2>1
        DEF TypeOK, handle_wait_sem, handle_signal_sem, TipoHilo, ultVars, procVars, colaVars, semVars
<1>10. QED BY <1>2, <1>3, <1>4, <1>5, <1>6, <1>7, <1>8, <1>9 DEF Pedido

\* TypeOK is not inductive: a transition acts on the ULT of the request, so the
\* request has to name one while the handler works on it.
EnPedido == {"create", "create_admite", "desjoinear", "desj", "desj_listo", "desj_nuevo",
             "close_new", "close_new_cs", "close_blocked", "close_blocked_2",
             "close_blocked_cs", "close_ready", "close_ready_cs", "close_exec",
             "close_exec_cs"}
EnDesj   == {"desj", "desj_listo", "desj_nuevo"}
PedidoOK(p) ==
  /\ pc[p] \in EnPedido => req[p].tid \in Tid
  /\ pc[p] = "desjoinear" => req[p].i >= 1
  /\ pc[p] \in EnDesj => req[p].i \in 1 .. Len(joinedBy[<<p, req[p].tid>>])
  /\ pc[p] \in {"wait", "wait_sem"} => curr[p] \in Tid
  /\ pc[p] = "fifo_listo" => req[p].th \in ULT
TipoInv == TypeOK /\ \A p \in Proc : PedidoOK(p)

LEMMA TipoHandler ==
  ASSUME TypeOK, NEW p \in Proc, PedidoOK(p), Handler(p)
  PROVE  TypeOK'
<1> USE MainEnTid
<1>0. /\ \A l \in Pcs : Va(p, l) => pc' \in [Proc -> Pcs]
      /\ \A m \in Mutexes : Toma(p, m) => mutex' \in [Mutexes -> Proc \cup {Libre}]
      /\ Suelta(p) \in [Mutexes -> Proc \cup {Libre}]
      /\ Wait(p) => semaforoReady' \in [Proc -> Nat]
      /\ Responde(p) => /\ pc' \in [Proc -> Pcs]
                        /\ req' \in [Proc -> Peticion]
  BY TipoPasoHilo
<1>1. CASE create_valida(p)
  <2>1. TipoHilo'
    <3>1. CASE validar_grado_multiprogramacion
      BY <1>0, <1>1, <3>1 DEF TypeOK, create_valida, TipoHilo, Mutexes, Pcs
    <3>2. CASE ~validar_grado_multiprogramacion
      BY <1>0, <1>1, <3>2 DEF TypeOK, create_valida, TipoHilo
    <3>3. QED BY <3>1, <3>2
  <2>2. QED BY <1>1, <2>1
        DEF TypeOK, create_valida, TipoHilo, ultVars, procVars, colaVars, semVars
<1>2. CASE create_admite(p)
  <2> DEFINE u == <<p, req[p].tid>>
  <2>1. u \in ULT BY <1>2 DEF create_admite, PedidoOK, EnPedido, ULT
  <2>2. nuevo_a_ejecucion(u) \/ A_listo(u) BY <1>2 DEF create_admite, nuevo_a_listo
  <2>3. estado' \in [ULT -> Estados] /\ TipoProc' /\ TipoCola'
    BY <2>1, <2>2, TipoA_listo, TipoNuevoAEjecucion
  <2>4. ACTUAL_MULTIPROG' \in Int
    BY <1>2 DEF TypeOK, create_admite, nuevo_a_listo, nuevo_a_ejecucion
  <2>5. TipoHilo' BY <1>0, <1>2, <2>4 DEF TypeOK, create_admite, TipoHilo
  <2>6. QED BY <1>2, <2>3, <2>5 DEF TypeOK, create_admite, TipoProc, TipoCola, TipoHilo, semVars
<1>3. CASE obtener_proximo_ejecutar(p)
  <2>1. semaforoReady' \in [Proc -> Nat] BY <1>0, <1>3 DEF obtener_proximo_ejecutar
  <2>2. ASSUME NEW t \in EnLista(p),
               new_queue' = NewSin(<<p, t>>, estado[<<p, t>>]),
               blocked_queue' = BlockedSin(<<p, t>>, estado[<<p, t>>]),
               READY_LIST' = ReadySin(<<p, t>>, estado[<<p, t>>]),
               EXEC_THREAD' = [EXEC_THREAD EXCEPT ![p] = t],
               estado' = [estado EXCEPT ![<<p, t>>] = E_EXECUTE],
               curr' = [curr EXCEPT ![p] = t],
               cruce' = (cruce \/ EnAdmision(<<p, t>>)),
               Responde(p),
               exit_queue' = exit_queue
        PROVE  TypeOK'
    <3>1. t \in Tid /\ <<p, t>> \in ULT BY DEF TypeOK, ULT, EnLista
    <3>2. new_queue' \in Seq(ULT) BY <2>2, RemoveFirstSeq DEF TypeOK, NewSin
    <3>3. blocked_queue' \in [ULT -> Nat] BY SMTT(60), <2>2, <3>1 DEF TypeOK, BlockedSin
    <3>4. READY_LIST' \in [ULT -> Nat] BY SMTT(60), <2>2, <3>1 DEF TypeOK, ReadySin
    <3>9. cruce' \in BOOLEAN BY <2>2 DEF TypeOK
    <3>5. estado' \in [ULT -> Estados] BY <2>2, <3>1 DEF TypeOK, Estados
    <3>6. EXEC_THREAD' \in [Proc -> Tid \cup {SinULT}] BY <2>2, <3>1 DEF TypeOK
    <3>7. curr' \in [Proc -> Tid \cup {SinULT}] BY <2>2, <3>1 DEF TypeOK
    <3>8. QED BY <1>0, <1>3, <2>1, <2>2, <3>2, <3>3, <3>4, <3>5, <3>6, <3>7, <3>9
          DEF TypeOK, obtener_proximo_ejecutar, semVars
  <2>3. CASE /\ Va(p, "sin_ult")
             /\ UNCHANGED <<estado, EXEC_THREAD, READY_LIST, colaVars, curr, req, cruce>>
    <3>1. pc' \in [Proc -> Pcs] BY <1>0, <2>3 DEF Pcs
    <3>2. QED BY <1>3, <2>1, <2>3, <3>1
          DEF TypeOK, obtener_proximo_ejecutar, colaVars, semVars
  <2>4. QED BY <1>3, <2>2, <2>3 DEF obtener_proximo_ejecutar
<1>4. CASE toma_semaforos(p)
  <2>1. TipoHilo' BY <1>0, <1>4 DEF TypeOK, toma_semaforos, TipoHilo, Mutexes, Pcs
  <2>2. QED BY <1>4, <2>1
        DEF TypeOK, toma_semaforos, TipoHilo, ultVars, procVars, colaVars, semVars
<1>5. CASE decrementar_semaforo(p)
  <2> DEFINE s == req[p].sem
             u == <<p, curr[p]>>
  <2>1. u \in ULT BY <1>5 DEF decrementar_semaforo, PedidoOK, ULT
  <2>2. TipoHilo' BY <1>0, <1>5 DEF TypeOK, decrementar_semaforo, TipoHilo
  <2>3. CASE s \notin Sem
    BY <1>5, <2>2, <2>3
       DEF TypeOK, decrementar_semaforo, TipoHilo, procVars, colaVars, semVars
  <2>4. CASE s \in Sem
    <3>1. VALUE' = [VALUE EXCEPT ![s] = @ - 1] BY <1>5, <2>4 DEF decrementar_semaforo
    <3>2. VALUE' \in [Sem -> Int] BY <2>4, <3>1 DEF TypeOK
    <3>3. CASE VALUE[s] <= 0
      <4>1. /\ A_bloqueado(u)
            /\ BLOCKED_LIST' = [BLOCKED_LIST EXCEPT ![s] = Append(@, u)]
        BY <1>5, <2>4, <3>3 DEF decrementar_semaforo
      <4>2. Append(BLOCKED_LIST[s], u) \in Seq(ULT) BY <2>1, <2>4 DEF TypeOK
      <4>3. BLOCKED_LIST' \in [Sem -> Seq(ULT)] BY <2>4, <4>1, <4>2 DEF TypeOK
      <4>4. estado' \in [ULT -> Estados] /\ TipoProc' /\ TipoCola'
        BY <2>1, <4>1, TipoA_bloqueado
      <4>5. QED BY <1>5, <2>2, <3>2, <4>3, <4>4
            DEF TypeOK, decrementar_semaforo, TipoProc, TipoCola, TipoHilo
    <3>4. CASE ~(VALUE[s] <= 0)
      <4>1. UNCHANGED <<estado, procVars, colaVars, BLOCKED_LIST>>
        BY <1>5, <2>4, <3>4 DEF decrementar_semaforo
      <4>2. QED BY <1>5, <2>2, <3>2, <4>1
            DEF TypeOK, decrementar_semaforo, TipoHilo, procVars, colaVars
    <3>5. QED BY <3>3, <3>4
  <2>5. QED BY <2>3, <2>4
<1>6. CASE incrementar_semaforo(p)
  <2> DEFINE s == req[p].sem
  <2>1. ACTUAL_MULTIPROG' = ACTUAL_MULTIPROG
    BY <1>6 DEF incrementar_semaforo, bloqueado_a_listo
  <2>2. TipoHilo' BY <1>0, <1>6, <2>1 DEF TypeOK, incrementar_semaforo, TipoHilo
  <2>3. CASE signal_rechazado(p)
    BY <1>6, <2>2, <2>3
       DEF TypeOK, incrementar_semaforo, TipoHilo, procVars, colaVars, semVars
  <2>4. CASE ~signal_rechazado(p)
    <3>1. s \in Sem BY <2>4 DEF signal_rechazado
    <3>2. VALUE' = [VALUE EXCEPT ![s] = @ + 1] BY <1>6, <2>4 DEF incrementar_semaforo
    <3>3. VALUE' \in [Sem -> Int] BY <3>1, <3>2 DEF TypeOK
    <3>4. CASE BLOCKED_LIST[s] = <<>>
      <4>1. UNCHANGED <<estado, procVars, colaVars, BLOCKED_LIST, ACTUAL_MULTIPROG>>
        BY <1>6, <2>4, <3>4 DEF incrementar_semaforo
      <4>2. QED BY <1>6, <2>2, <3>3, <4>1
            DEF TypeOK, incrementar_semaforo, TipoHilo, procVars, colaVars
    <3>5. CASE BLOCKED_LIST[s] # <<>>
      <4>1. /\ A_listo(PrimerEspera(s))
            /\ BLOCKED_LIST' = [BLOCKED_LIST EXCEPT ![s] = Tail(@)]
        BY <1>6, <2>4, <3>5 DEF incrementar_semaforo, bloqueado_a_listo
      <4>2. BLOCKED_LIST[s] \in Seq(ULT) BY <3>1 DEF TypeOK
      <4>3. PrimerEspera(s) \in ULT /\ Tail(BLOCKED_LIST[s]) \in Seq(ULT)
        BY <3>5, <4>2, HeadTailProperties DEF PrimerEspera
      <4>4. BLOCKED_LIST' \in [Sem -> Seq(ULT)] BY <3>1, <4>1, <4>3 DEF TypeOK
      <4>5. estado' \in [ULT -> Estados] /\ TipoProc' /\ TipoCola'
        BY <4>1, <4>3, TipoA_listo
      <4>6. QED BY <1>6, <2>2, <3>3, <4>4, <4>5
            DEF TypeOK, incrementar_semaforo, TipoProc, TipoCola, TipoHilo
    <3>6. QED BY <3>4, <3>5
  <2>5. QED BY <2>3, <2>4
<1>7. CASE desjoinear_hilo(p)
  <2> DEFINE t == req[p].tid
             i == req[p].i
             j == <<p, joinedBy[<<p, t>>][i]>>
  <2>1. pc' \in [Proc -> Pcs] BY <1>0, <1>7 DEF desjoinear_hilo, Pcs, TypeOK
  <2>2. req' \in [Proc -> Peticion]
    <3>1. req' = req \/ req' = [req EXCEPT ![p].i = req[p].i + 1] BY <1>7 DEF desjoinear_hilo
    <3>2. QED BY <3>1, TipoIndice DEF TypeOK
  <2>3. joinTo' \in [ULT -> SUBSET Tid]
    <3>1. joinTo' = [joinTo EXCEPT ![j] = @ \ {t}] BY <1>7 DEF desjoinear_hilo
    <3>2. QED BY <3>1 DEF TypeOK
  <2>4. QED BY <1>7, <2>1, <2>2, <2>3 DEF TypeOK, desjoinear_hilo, procVars, colaVars, semVars
<1>8. CASE desjoinear_valida(p)
  <2>1. TipoHilo' BY <1>0, <1>8 DEF TypeOK, desjoinear_valida, TipoHilo, Mutexes, Pcs
  <2>2. QED BY <1>8, <2>1
        DEF TypeOK, desjoinear_valida, TipoHilo, ultVars, procVars, colaVars, semVars
<1>9. CASE desjoinear_mueve(p)
  <2> DEFINE j == <<p, joinedBy[<<p, req[p].tid>>][req[p].i]>>
  <2>1. pc[p] \in EnDesj BY <1>9 DEF desjoinear_mueve, EnDesj
  <2>2. j \in ULT
    <3>1. /\ <<p, req[p].tid>> \in ULT
          /\ req[p].i \in 1 .. Len(joinedBy[<<p, req[p].tid>>])
      BY <2>1 DEF PedidoOK, EnPedido, EnDesj, ULT
    <3>2. joinedBy[<<p, req[p].tid>>] \in Seq(Tid) BY <3>1 DEF TypeOK
    <3>3. joinedBy[<<p, req[p].tid>>][req[p].i] \in Tid BY <3>1, <3>2, ElementOfSeq
    <3>4. QED BY <3>3 DEF ULT
  <2>3. estado' \in [ULT -> Estados] /\ TipoProc' /\ TipoCola'
    <3>1. CASE A_listo(j) BY <2>2, <3>1, TipoA_listo
    <3>2. CASE /\ estado' = [estado EXCEPT ![j] = E_NEW]
               /\ new_queue' = Append(new_queue, j)
               /\ UNCHANGED <<procVars, blocked_queue, exit_queue, ACTUAL_MULTIPROG>>
      <4>1. new_queue' \in Seq(ULT) BY <2>2, <3>2 DEF TypeOK
      <4>2. estado' \in [ULT -> Estados] BY <2>2, <3>2 DEF TypeOK, Estados
      <4>3. QED BY <3>2, <4>1, <4>2 DEF TypeOK, TipoProc, TipoCola, procVars
    <3>3. QED BY <1>9, <3>1, <3>2 DEF desjoinear_mueve, bloqueado_a_listo
  <2>4. ACTUAL_MULTIPROG' = ACTUAL_MULTIPROG BY <1>9 DEF desjoinear_mueve, bloqueado_a_listo
  <2>5. pc' \in [Proc -> Pcs] BY <1>0, <1>9 DEF desjoinear_mueve, Pcs
  <2>6. req' \in [Proc -> Peticion]
    <3>1. req' = [req EXCEPT ![p].i = req[p].i + 1] BY <1>9 DEF desjoinear_mueve
    <3>2. QED BY <3>1, TipoIndice
  <2>7. QED BY <1>0, <1>9, <2>3, <2>4, <2>5, <2>6
        DEF TypeOK, desjoinear_mueve, TipoProc, TipoCola, semVars
<1>10. CASE close_segun_estado(p)
  <2>1. pc' \in [Proc -> Pcs] BY <1>0, <1>10 DEF close_segun_estado, Pcs
  <2>2. QED BY <1>10, <2>1
        DEF TypeOK, close_segun_estado, ultVars, procVars, colaVars, semVars
<1>11. CASE close_toma(p)
  <2>1. pc' \in [Proc -> Pcs] BY <1>0, <1>11 DEF close_toma, Pcs
  <2>2. mutex' \in [Mutexes -> Proc \cup {Libre}] BY <1>0, <1>11 DEF close_toma, Mutexes
  <2>3. QED BY <1>11, <2>1, <2>2
        DEF TypeOK, close_toma, ultVars, procVars, colaVars, semVars
<1>12. CASE close_new(p)
  <2> DEFINE u == <<p, req[p].tid>>
  <2>1. u \in ULT BY <1>12 DEF close_new, PedidoOK, EnPedido, ULT
  <2>2. /\ estado' \in [ULT -> Estados]
        /\ READY_LIST' \in [ULT -> Nat]
        /\ EXEC_THREAD' \in [Proc -> Tid \cup {SinULT}]
        /\ TipoCola'
    BY <1>12, <2>1, TipoA_exit DEF close_new
  <2>3. pc' \in [Proc -> Pcs] BY <1>0, <1>12 DEF close_new, Pcs
  <2>4. QED BY <1>0, <1>12, <2>2, <2>3 DEF TypeOK, close_new, TipoCola, semVars
<1>13. CASE close_devuelve(p)
  <2> DEFINE u == <<p, req[p].tid>>
  <2>1. u \in ULT BY <1>13 DEF close_devuelve, PedidoOK, EnPedido, ULT
  <2>2. /\ estado' \in [ULT -> Estados]
        /\ TipoProc'
        /\ TipoCola'
    <3>1. CASE A_exit(u) /\ UNCHANGED semaforoReady
      BY <2>1, <3>1, TipoA_exit DEF TypeOK, TipoProc
    <3>2. CASE A_exit(u) /\ Wait(p)
      BY <1>0, <2>1, <3>2, TipoA_exit DEF TypeOK, TipoProc
    <3>3. CASE /\ EXEC_THREAD' = [EXEC_THREAD EXCEPT ![p] = SinULT]
               /\ estado' = [estado EXCEPT ![u] = E_EXIT]
               /\ exit_queue' = exit_queue \cup {u}
               /\ UNCHANGED <<READY_LIST, semaforoReady, new_queue, blocked_queue>>
      <4>1. estado' \in [ULT -> Estados] BY <2>1, <3>3 DEF TypeOK, Estados
      <4>2. EXEC_THREAD' \in [Proc -> Tid \cup {SinULT}] BY <3>3 DEF TypeOK
      <4>3. QED BY <2>1, <3>3, <4>1, <4>2 DEF TypeOK, TipoProc, TipoCola
    <3>4. QED BY <1>13, <3>1, <3>2, <3>3 DEF close_devuelve
  <2>3. pc' \in [Proc -> Pcs] /\ mutex' \in [Mutexes -> Proc \cup {Libre}]
    BY <1>0, <1>13 DEF close_devuelve, Pcs, TypeOK
  <2>4. ACTUAL_MULTIPROG' \in Int BY <1>13 DEF close_devuelve, TypeOK
  <2>5. QED BY <1>13, <2>2, <2>3, <2>4 DEF TypeOK, close_devuelve, TipoProc, TipoCola, semVars
<1>14. CASE obtener_ULT_ready_FIFO(p)
  <2>1. pc' \in [Proc -> Pcs] BY <1>0, <1>14 DEF obtener_ULT_ready_FIFO, Pcs
  <2>2. mutex' \in [Mutexes -> Proc \cup {Libre}]
    BY <1>0, <1>14 DEF obtener_ULT_ready_FIFO, TypeOK
  <2>3. CASE new_queue = <<>>
    BY <1>14, <2>1, <2>2, <2>3
       DEF TypeOK, obtener_ULT_ready_FIFO, ultVars, colaVars, semVars
  <2>4. CASE new_queue # <<>>
    <3>1. Proximo \in ULT BY <2>4, HeadTailProperties DEF TypeOK, Proximo
    <3>2. /\ READY_LIST' = ReadyCon(Proximo)
          /\ req' = [req EXCEPT ![p] = [@ EXCEPT !.th = Proximo, !.leido = estado[Proximo]]]
      BY <1>14, <2>4 DEF obtener_ULT_ready_FIFO
    <3>3. READY_LIST' \in [ULT -> Nat] BY <3>1, <3>2 DEF TypeOK, ReadyCon
    <3>4. estado[Proximo] \in Estados BY <3>1 DEF TypeOK
    <3>5. req' \in [Proc -> Peticion] BY <3>1, <3>2, <3>4, CambiaPeticion DEF TypeOK
    <3>6. QED BY <1>14, <2>1, <2>2, <3>3, <3>5
          DEF TypeOK, obtener_ULT_ready_FIFO, ultVars, colaVars, semVars
  <2>5. QED BY <2>3, <2>4
<1>17. CASE nuevo_a_listo_resto(p)
  <2> DEFINE u == req[p].th
             e == req[p].leido
  <2>1. u \in ULT /\ u[1] \in Proc BY <1>17 DEF nuevo_a_listo_resto, PedidoOK, ULT
  <2>2. /\ new_queue' = NewSin(u, e) /\ blocked_queue' = BlockedSin(u, e)
        /\ EXEC_THREAD' = ExecSin(u, e) /\ READY_LIST' = ReadySin(u, e)
        /\ estado' = [estado EXCEPT ![u] = E_READY]
        /\ semaforoReady' = [semaforoReady EXCEPT ![u[1]] = @ + 1]
    BY <1>17 DEF nuevo_a_listo_resto, Post
  <2> HIDE DEF u, e
  <2>3. new_queue' \in Seq(ULT) BY <2>2, RemoveFirstSeq DEF TypeOK, NewSin
  <2>4. blocked_queue' \in [ULT -> Nat] BY SMTT(60), <2>1, <2>2 DEF TypeOK, BlockedSin
  <2>5. READY_LIST' \in [ULT -> Nat] BY SMTT(60), <2>1, <2>2 DEF TypeOK, ReadySin
  <2>6. EXEC_THREAD' \in [Proc -> Tid \cup {SinULT}] BY <2>1, <2>2 DEF TypeOK, ExecSin
  <2>7. semaforoReady' \in [Proc -> Nat] BY <2>1, <2>2 DEF TypeOK
  <2>8. estado' \in [ULT -> Estados] BY <2>1, <2>2 DEF TypeOK, Estados
  <2>9. pc' \in [Proc -> Pcs] BY <1>0, <1>17 DEF nuevo_a_listo_resto, Pcs
  <2>10. ACTUAL_MULTIPROG' \in Int BY <1>17 DEF nuevo_a_listo_resto, TypeOK
  <2>11. QED BY <1>0, <1>17, <2>3, <2>4, <2>5, <2>6, <2>7, <2>8, <2>9, <2>10
         DEF TypeOK, nuevo_a_listo_resto, semVars
<1>15. CASE metricas_sistema(p)
  <2>1. curr' \in [Proc -> Tid \cup {SinULT}] BY <1>15 DEF TypeOK, metricas_sistema
  <2>2. QED BY <1>0, <1>15, <2>1
        DEF TypeOK, metricas_sistema, ultVars, procVars, colaVars, semVars
<1>16. QED BY <1>1, <1>2, <1>3, <1>4, <1>5, <1>6, <1>7, <1>8, <1>9, <1>10, <1>11, <1>12,
              <1>13, <1>14, <1>15, <1>17 DEF Handler

\* A step of one handler leaves what the handler of another process works on.
LEMMA PasoLocal ==
  ASSUME TypeOK, NEW p \in Proc, NEW q \in Proc, q # p, Handler(p) \/ Pedido(p)
  PROVE  /\ pc'[q] = pc[q] /\ req'[q] = req[q] /\ curr'[q] = curr[q]
         /\ \A t \in Tid : joinedBy'[<<q, t>>] = joinedBy[<<q, t>>]
<1>1. ASSUME Handler(p)
      PROVE  /\ pc'[q] = pc[q] /\ req'[q] = req[q] /\ curr'[q] = curr[q]
             /\ joinedBy' = joinedBy
  <2>1. joinedBy' = joinedBy
    BY ZenonT(60), <1>1 DEF Handler, create_valida, create_admite, obtener_proximo_ejecutar,
       toma_semaforos, decrementar_semaforo, incrementar_semaforo, desjoinear_hilo,
       desjoinear_valida, desjoinear_mueve, close_segun_estado, close_toma, close_new,
       close_devuelve, obtener_ULT_ready_FIFO, nuevo_a_listo_resto, metricas_sistema, ultVars
  <2>2. pc'[q] = pc[q]
    BY ZenonT(60), <1>1 DEF TypeOK, Handler, create_valida, create_admite, obtener_proximo_ejecutar,
       toma_semaforos, decrementar_semaforo, incrementar_semaforo, desjoinear_hilo,
       desjoinear_valida, desjoinear_mueve, close_segun_estado, close_toma, close_new,
       close_devuelve, obtener_ULT_ready_FIFO, nuevo_a_listo_resto, metricas_sistema, Va, Responde
  <2>3. req'[q] = req[q]
    BY ZenonT(60), <1>1 DEF TypeOK, Handler, create_valida, create_admite, obtener_proximo_ejecutar,
       toma_semaforos, decrementar_semaforo, incrementar_semaforo, desjoinear_hilo,
       desjoinear_valida, desjoinear_mueve, close_segun_estado, close_toma, close_new,
       close_devuelve, obtener_ULT_ready_FIFO, nuevo_a_listo_resto, metricas_sistema, Responde
  <2>4. curr'[q] = curr[q]
    BY <1>1 DEF TypeOK, Handler, create_valida, create_admite, obtener_proximo_ejecutar,
       toma_semaforos, decrementar_semaforo, incrementar_semaforo, desjoinear_hilo,
       desjoinear_valida, desjoinear_mueve, close_segun_estado, close_toma, close_new,
       close_devuelve, obtener_ULT_ready_FIFO, nuevo_a_listo_resto, metricas_sistema
  <2>5. QED BY <2>1, <2>2, <2>3, <2>4
<1>2. ASSUME Pedido(p)
      PROVE  /\ pc'[q] = pc[q] /\ req'[q] = req[q] /\ curr'[q] = curr[q]
             /\ \A t \in Tid : joinedBy'[<<q, t>>] = joinedBy[<<q, t>>]
  <2>1. \A t \in Tid : joinedBy'[<<q, t>>] = joinedBy[<<q, t>>]
    <3>1. \/ joinedBy' = joinedBy
          \/ \E t \in Tid : joinedBy' = [joinedBy EXCEPT ![<<p, t>>] = Append(@, EXEC_THREAD[p])]
      BY <1>2 DEF Pedido, handle_main_thread_create, handle_ULT_create, ULT_create, join,
         close_tid, handle_next_tid, close_main, desconexion, handle_wait_sem,
         handle_signal_sem, ultVars
    <3>2. \A t \in Tid : <<q, t>> \in ULT BY DEF ULT
    <3>3. QED BY <3>1, <3>2 DEF TypeOK
  <2>2. pc'[q] = pc[q]
    BY <1>2 DEF TypeOK, Pedido, handle_main_thread_create, handle_ULT_create, ULT_create,
       join, close_tid, handle_next_tid, close_main, desconexion, handle_wait_sem,
       handle_signal_sem, Va
  <2>3. req'[q] = req[q]
    BY <1>2 DEF TypeOK, Pedido, handle_main_thread_create, handle_ULT_create, ULT_create,
       join, close_tid, handle_next_tid, close_main, desconexion, handle_wait_sem,
       handle_signal_sem
  <2>4. curr'[q] = curr[q]
    BY <1>2 DEF TypeOK, Pedido, handle_main_thread_create, handle_ULT_create, ULT_create,
       join, close_tid, handle_next_tid, close_main, desconexion, handle_wait_sem,
       handle_signal_sem
  <2>5. QED BY <2>1, <2>2, <2>3, <2>4
<1>3. QED BY <1>1, <1>2

\* The handler that takes a step leaves its own request in order.
LEMMA PedidoPropio ==
  ASSUME TypeOK, NEW p \in Proc, PedidoOK(p), Handler(p) \/ Pedido(p)
  PROVE  PedidoOK(p)'
<1> USE MainEnTid
<1>0. /\ pc \in [Proc -> Pcs] /\ curr \in [Proc -> Tid \cup {SinULT}]
      /\ req \in [Proc -> Peticion]
  BY DEF TypeOK
<1>20. req[p].tid \in Tid \cup {SinULT} /\ req[p].i \in Nat
  BY <1>0, CambiaPeticion
<1>1. ASSUME NEW l \in {"idle", "sem_ready", "signal", "signal_sem", "fifo", "metricas",
                       "sin_ult", "fin"},
             Va(p, l)
      PROVE  PedidoOK(p)'
  BY <1>0, <1>1 DEF Va, PedidoOK, EnPedido, EnDesj
<1>2. CASE Responde(p) BY <1>1, <1>2 DEF Responde
<1>3. ASSUME NEW t \in Tid, ULT_create(p, t) PROVE PedidoOK(p)'
  BY <1>0, <1>3 DEF ULT_create, Va, PedidoOK, EnPedido, EnDesj
<1>4. CASE create_valida(p)
  <2>1. CASE Va(p, "create_admite") /\ UNCHANGED <<req, curr>>
    BY <1>0, <1>4, <2>1 DEF create_valida, Va, PedidoOK, EnPedido, EnDesj
  <2>2. QED BY <1>2, <1>4, <2>1 DEF create_valida
<1>5. CASE obtener_proximo_ejecutar(p) BY <1>1, <1>2, <1>5 DEF obtener_proximo_ejecutar
<1>6. CASE toma_semaforos(p)
  BY <1>0, <1>1, <1>6 DEF toma_semaforos, Va, PedidoOK, EnPedido, EnDesj
<1>7. CASE desjoinear_hilo(p)
  <2>1. CASE Va(p, "desj") /\ UNCHANGED req
    BY <1>0, <1>20, <1>7, <2>1 DEF desjoinear_hilo, Va, PedidoOK, EnPedido, EnDesj
  <2>2. CASE req' = [req EXCEPT ![p].i = req[p].i + 1] /\ UNCHANGED pc
    <3>1. req'[p].tid = req[p].tid /\ req'[p].i = req[p].i + 1 BY <1>0, <2>2
    <3>2. QED BY <1>0, <1>20, <1>7, <2>2, <3>1 DEF desjoinear_hilo, PedidoOK, EnPedido, EnDesj
  <2>3. QED BY <1>7, <2>1, <2>2 DEF desjoinear_hilo
<1>8. CASE desjoinear_valida(p)
  BY <1>0, <1>8 DEF desjoinear_valida, Va, PedidoOK, EnPedido, EnDesj, ultVars
<1>9. CASE desjoinear_mueve(p)
  <2>1. req'[p].tid = req[p].tid /\ req'[p].i = req[p].i + 1
    BY <1>0, <1>9 DEF desjoinear_mueve
  <2>2. pc'[p] = "desjoinear" /\ pc[p] \in EnDesj
    BY <1>0, <1>9 DEF desjoinear_mueve, Va, EnDesj
  <2>3. req[p].i \in Nat BY <1>20
  <2>4. QED BY <2>1, <2>2, <2>3 DEF PedidoOK, EnPedido, EnDesj
<1>10. CASE close_segun_estado(p)
  BY <1>0, <1>10 DEF close_segun_estado, Va, PedidoOK, EnPedido, EnDesj
<1>11. CASE close_toma(p)
  BY <1>0, <1>11 DEF close_toma, Va, PedidoOK, EnPedido, EnDesj
<1>12. CASE close_new(p) \/ close_devuelve(p) \/ nuevo_a_listo_resto(p)
  BY <1>1, <1>12 DEF close_new, close_devuelve, nuevo_a_listo_resto
<1>19. CASE obtener_ULT_ready_FIFO(p)
  <2>1. CASE Va(p, "metricas") BY <1>1, <2>1
  <2>2. CASE /\ new_queue # <<>> /\ Va(p, "fifo_listo")
             /\ req' = [req EXCEPT ![p] = [@ EXCEPT !.th = Proximo, !.leido = estado[Proximo]]]
    <3>1. Proximo \in ULT BY <2>2, HeadTailProperties DEF TypeOK, Proximo
    <3>2. req[p] \in Peticion BY <1>0
    <3>3. req'[p].th = Proximo BY <1>0, <2>2, <3>2 DEF Peticion
    <3>4. pc'[p] = "fifo_listo" BY <1>0, <2>2 DEF Va
    <3>5. QED BY <3>1, <3>3, <3>4 DEF PedidoOK, EnPedido, EnDesj
  <2>3. QED BY <1>19, <2>1, <2>2 DEF obtener_ULT_ready_FIFO
<1>13. CASE create_admite(p) \/ decrementar_semaforo(p) \/ incrementar_semaforo(p)
              \/ metricas_sistema(p)
  BY <1>2, <1>13
     DEF create_admite, decrementar_semaforo, incrementar_semaforo, metricas_sistema
<1>14. ASSUME NEW t \in Tid, join(p, t) PROVE PedidoOK(p)'
  BY <1>0, <1>14 DEF join, ClienteCorre, Conectado, PedidoOK, EnPedido, EnDesj
<1>15. ASSUME NEW t \in Tid, close_tid(p, t) PROVE PedidoOK(p)'
  <2>1. pc'[p] = "desjoinear" BY <1>0, <1>15 DEF close_tid, Va
  <2>2. req'[p].tid = t /\ req'[p].i = 1 BY <1>0, <1>15 DEF close_tid
  <2>3. QED BY <2>1, <2>2 DEF PedidoOK, EnPedido, EnDesj
<1>16. CASE handle_next_tid(p) \/ close_main(p) \/ desconexion(p)
  BY <1>1, <1>16 DEF handle_next_tid, close_main, desconexion
<1>17. ASSUME NEW s \in Sem \cup {SemDesconocido},
              handle_wait_sem(p, s) \/ handle_signal_sem(p, s)
       PROVE  PedidoOK(p)'
  BY <1>0, <1>1, <1>17
     DEF handle_wait_sem, handle_signal_sem, ClienteCorre, Va, PedidoOK, EnPedido, EnDesj
<1>18. QED
  BY <1>3, <1>4, <1>5, <1>6, <1>7, <1>8, <1>9, <1>10, <1>11, <1>12, <1>13, <1>14, <1>15,
     <1>16, <1>17, <1>19
     DEF Handler, Pedido, handle_main_thread_create, handle_ULT_create

LEMMA TipoInicial == Init => TipoInv
<1> SUFFICES ASSUME Init PROVE TipoInv OBVIOUS
<1>0. SinReq \in Peticion BY DEF SinReq, Peticion, Estados
<1>1. TypeOK
  <2>1. TipoULT /\ TipoProc /\ TipoCola
    BY MainEnTid DEF Init, TipoULT, TipoProc, TipoCola, Estados
  <2>2. TipoSem BY SusAssumption DEF Init, TipoSem, SusAssumption
  <2>3. TipoHilo
    <3>1. req \in [Proc -> Peticion] BY <1>0 DEF Init
    <3>2. "idle" \in Pcs BY DEF Pcs
    <3>3. pc \in [Proc -> Pcs] BY <3>2 DEF Init
    <3>4. cruce \in BOOLEAN BY Zenon DEF Init
    <3>7. ACTUAL_MULTIPROG \in Int BY DEF Init
    <3>5. curr \in [Proc -> Tid \cup {SinULT}] /\ mutex \in [Mutexes -> Proc \cup {Libre}]
      BY DEF Init
    <3>6. QED BY <3>1, <3>3, <3>4, <3>5, <3>7 DEF TipoHilo
  <2>4. QED BY <2>1, <2>2, <2>3, TypeOKPartes
<1>2. \A p \in Proc : PedidoOK(p) BY DEF Init, PedidoOK, EnPedido, EnDesj
<1>3. QED BY <1>1, <1>2 DEF TipoInv

LEMMA TipoPaso == TipoInv /\ [Next]_vars => TipoInv'
<1> SUFFICES ASSUME TipoInv, [Next]_vars PROVE TipoInv' OBVIOUS
<1>1. CASE UNCHANGED vars
  BY <1>1 DEF TipoInv, TypeOK, PedidoOK, vars, ultVars, procVars, colaVars, semVars, hiloVars
<1>2. ASSUME NEW p \in Proc, Handler(p) \/ Pedido(p) PROVE TipoInv'
  <2>1. TypeOK' BY <1>2, TipoHandler, TipoPedido DEF TipoInv
  <2>2. PedidoOK(p)' BY <1>2, PedidoPropio DEF TipoInv
  <2>3. ASSUME NEW q \in Proc, q # p PROVE PedidoOK(q)'
    <3>1. PedidoOK(q) BY DEF TipoInv
    <3>2. /\ pc'[q] = pc[q] /\ req'[q] = req[q] /\ curr'[q] = curr[q]
          /\ \A t \in Tid : joinedBy'[<<q, t>>] = joinedBy[<<q, t>>]
      BY <1>2, <2>3, PasoLocal DEF TipoInv
    <3>3. QED BY <3>1, <3>2 DEF PedidoOK, EnPedido, EnDesj
  <2>4. QED BY <2>1, <2>2, <2>3 DEF TipoInv
<1>3. ASSUME NEW p \in Proc, desreferencia_nula(p) PROVE TipoInv'
  <2>1. TypeOK'
    BY <1>3 DEF TipoInv, TypeOK, desreferencia_nula, Pcs, ultVars, procVars, colaVars, semVars
  <2>2. ASSUME NEW q \in Proc PROVE PedidoOK(q)'
    BY <1>3 DEF desreferencia_nula, PedidoOK, EnPedido, EnDesj
  <2>3. QED BY <2>1, <2>2 DEF TipoInv
<1>4. QED BY <1>1, <1>2, <1>3 DEF Next

\* Types: every variable of the scheduler keeps its type, whatever the clients do.
\* In particular semaforoReady never goes below zero and no transition acts on a
\* ULT outside the tables.
THEOREM TypeCorrecta == Spec => []TypeOK
<1>1. Init => TipoInv BY TipoInicial
<1>2. TipoInv /\ [Next]_vars => TipoInv' BY TipoPaso
<1>3. TipoInv => TypeOK BY DEF TipoInv
<1>4. QED BY <1>1, <1>2, <1>3, PTL DEF Spec

-----------------------------------------------------------------------------
(* The degree of multiprogramming                                          *)

\* The handlers that hold mutex_multiprog, and those that found room under it.
ConMultiprog == {"create_admite", "desj_listo", "desj_nuevo", "close_blocked_cs",
                 "close_ready_cs", "close_exec_cs", "fifo", "fifo_listo"}
ConLugar     == {"create_admite", "fifo", "fifo_listo"}

\* ContadorAcotado is not inductive: the increment of an admission comes a step
\* after its check, and only mutex_multiprog keeps the count from moving between.
GradoInv ==
  /\ TipoInv
  /\ \A p \in Proc : pc[p] \in ConMultiprog => mutex["multiprog"] = p
  /\ \A p \in Proc : pc[p] \in ConLugar => ACTUAL_MULTIPROG < MAX_MULTIPROG
  /\ ACTUAL_MULTIPROG <= MAX_MULTIPROG

\* Requests are served without mutex_multiprog and do not touch the count.
LEMMA PedidoSinGrado ==
  ASSUME TypeOK, NEW p \in Proc, Pedido(p)
  PROVE  /\ UNCHANGED <<ACTUAL_MULTIPROG, mutex>>
         /\ pc'[p] \notin ConMultiprog /\ pc[p] \notin ConMultiprog
<1>1. UNCHANGED <<ACTUAL_MULTIPROG, mutex>>
  BY DEF Pedido, handle_main_thread_create, handle_ULT_create, ULT_create, join, close_tid,
     handle_next_tid, close_main, desconexion, handle_wait_sem, handle_signal_sem,
     A_bloqueado
<1>2. pc[p] = "idle"
  BY DEF Pedido, handle_main_thread_create, handle_ULT_create, ClienteCorre, Conectado, join,
     close_tid, handle_next_tid, close_main, desconexion, handle_wait_sem, handle_signal_sem
<1>3. pc' = pc \/ \E l \in {"create", "sem_ready", "wait", "signal", "fin", "desjoinear"} :
                    Va(p, l)
  BY DEF Pedido, handle_main_thread_create, handle_ULT_create, ULT_create, join, close_tid,
     handle_next_tid, close_main, desconexion, handle_wait_sem, handle_signal_sem
<1>4. pc'[p] \in {"idle", "create", "sem_ready", "wait", "signal", "fin", "desjoinear"}
  BY <1>2, <1>3 DEF TypeOK, Va
<1>5. QED BY <1>1, <1>2, <1>4 DEF ConMultiprog

\* What a handler step does to the count and to mutex_multiprog.
LEMMA PasoGrado ==
  ASSUME TypeOK, NEW p \in Proc, Handler(p),
         pc[p] \in ConMultiprog => mutex["multiprog"] = p,
         pc[p] \in ConLugar => ACTUAL_MULTIPROG < MAX_MULTIPROG,
         ACTUAL_MULTIPROG <= MAX_MULTIPROG
  PROVE  /\ ACTUAL_MULTIPROG' <= MAX_MULTIPROG
         /\ ACTUAL_MULTIPROG' # ACTUAL_MULTIPROG => mutex["multiprog"] = p
         /\ mutex'["multiprog"] # mutex["multiprog"] =>
              mutex["multiprog"] \in {Libre, p}
         /\ pc'[p] \in ConMultiprog => mutex'["multiprog"] = p
         /\ pc'[p] \in ConLugar => ACTUAL_MULTIPROG' < MAX_MULTIPROG
<1> DEFINE Q == /\ ACTUAL_MULTIPROG' <= MAX_MULTIPROG
                /\ ACTUAL_MULTIPROG' # ACTUAL_MULTIPROG => mutex["multiprog"] = p
                /\ mutex'["multiprog"] # mutex["multiprog"] =>
                     mutex["multiprog"] \in {Libre, p}
                /\ pc'[p] \in ConMultiprog => mutex'["multiprog"] = p
                /\ pc'[p] \in ConLugar => ACTUAL_MULTIPROG' < MAX_MULTIPROG
<1>0. /\ pc \in [Proc -> Pcs] /\ mutex \in [Mutexes -> Proc \cup {Libre}]
      /\ ACTUAL_MULTIPROG \in Int /\ MAX_MULTIPROG \in Nat /\ "multiprog" \in Mutexes
  BY SusAssumption DEF TypeOK, SusAssumption, Mutexes
<1>1. ASSUME NEW l \in {"idle", "sem_ready", "wait", "wait_sem", "signal_sem", "desjoinear",
                        "desj", "close_new", "close_new_cs", "close_blocked",
                        "close_blocked_2", "close_ready", "close_exec", "metricas",
                        "sin_ult"},
             Va(p, l)
      PROVE  pc'[p] \notin ConMultiprog /\ pc'[p] \notin ConLugar
  BY <1>0, <1>1 DEF Va, ConMultiprog, ConLugar
<1>2. CASE Responde(p) \/ Va(p, "metricas") \/ Va(p, "sin_ult") \/ Va(p, "desjoinear")
  <2>1. pc'[p] \notin ConMultiprog /\ pc'[p] \notin ConLugar BY <1>1, <1>2 DEF Responde
  <2>2. CASE UNCHANGED <<ACTUAL_MULTIPROG, mutex>> BY <2>1, <2>2
  <2>3. CASE mutex' = Suelta(p) /\ UNCHANGED ACTUAL_MULTIPROG
    BY <1>0, <2>1, <2>3 DEF Suelta
  <2>4. CASE /\ mutex' = Suelta(p) /\ ACTUAL_MULTIPROG' = ACTUAL_MULTIPROG + 1
             /\ pc[p] \in ConLugar
    BY <1>0, <2>1, <2>4 DEF Suelta, ConMultiprog, ConLugar
  <2>5. CASE /\ mutex' = Suelta(p) /\ ACTUAL_MULTIPROG' = ACTUAL_MULTIPROG - 1
             /\ pc[p] \in ConMultiprog
    BY <1>0, <2>1, <2>5 DEF Suelta
  <2>6. CASE create_valida(p)
    BY <2>1, <2>2, <2>6, <1>0 DEF create_valida, Toma
  <2>7. CASE create_admite(p)
    BY <2>4, <2>7 DEF create_admite, nuevo_a_listo, nuevo_a_ejecucion, ConLugar
  <2>8. CASE obtener_proximo_ejecutar(p) \/ metricas_sistema(p)
    BY <2>2, <2>8 DEF obtener_proximo_ejecutar, metricas_sistema
  <2>9. CASE decrementar_semaforo(p) \/ incrementar_semaforo(p) \/ desjoinear_mueve(p)
    BY <2>3, <2>9 DEF decrementar_semaforo, incrementar_semaforo, desjoinear_mueve,
       bloqueado_a_listo
  <2>10. CASE close_new(p) BY <2>3, <2>10 DEF close_new
  <2>11. CASE close_devuelve(p)
    BY <2>1, <2>5, <2>11, <1>0
       DEF close_devuelve, ConMultiprog, ConLugar, validar_grado_multiprogramacion
  <2>12. CASE obtener_ULT_ready_FIFO(p)
    <3>1. CASE new_queue = <<>> BY <2>3, <2>12, <3>1 DEF obtener_ULT_ready_FIFO
    <3>2. CASE new_queue # <<>> BY <2>2, <2>12, <3>2 DEF obtener_ULT_ready_FIFO
    <3>3. QED BY <3>1, <3>2
  <2>15. CASE nuevo_a_listo_resto(p) BY <2>4, <2>15 DEF nuevo_a_listo_resto, ConLugar
  <2>13. CASE toma_semaforos(p) \/ close_toma(p) \/ close_segun_estado(p)
                \/ desjoinear_valida(p) \/ desjoinear_hilo(p)
    BY <2>1, <2>13, <1>0 DEF toma_semaforos, close_toma, close_segun_estado,
       desjoinear_valida, desjoinear_hilo, Toma, Mutexes
  <2>14. QED
    BY <2>6, <2>7, <2>8, <2>9, <2>10, <2>11, <2>12, <2>13, <2>15 DEF Handler
<1>3. CASE create_valida(p) /\ Va(p, "create_admite") /\ validar_grado_multiprogramacion
  <2>1. pc'[p] = "create_admite" BY <1>0, <1>3 DEF Va
  <2>2. mutex["multiprog"] = Libre /\ mutex'["multiprog"] = p /\ UNCHANGED ACTUAL_MULTIPROG
    BY <1>0, <1>3 DEF create_valida, Toma
  <2>3. ACTUAL_MULTIPROG < MAX_MULTIPROG BY <1>0, <1>3 DEF validar_grado_multiprogramacion
  <2>4. QED BY <2>1, <2>2, <2>3
<1>4. CASE toma_semaforos(p) \/ close_segun_estado(p)
  <2>1. /\ UNCHANGED ACTUAL_MULTIPROG
        /\ mutex'["multiprog"] = mutex["multiprog"]
    BY <1>0, <1>4 DEF toma_semaforos, close_segun_estado, Toma, Mutexes
  <2>2. pc'[p] \in {"wait_sem", "signal_sem", "close_new", "close_blocked", "close_ready",
                    "close_exec"}
    BY <1>0, <1>4 DEF toma_semaforos, close_segun_estado, Va
  <2>3. QED BY <2>1, <2>2 DEF ConMultiprog, ConLugar
<1>5. CASE desjoinear_hilo(p)
  <2>1. UNCHANGED <<ACTUAL_MULTIPROG, mutex>> BY <1>5 DEF desjoinear_hilo
  <2>2. pc'[p] \in {"desj", "desjoinear"} BY <1>0, <1>5 DEF desjoinear_hilo, Va
  <2>3. QED BY <2>1, <2>2 DEF ConMultiprog, ConLugar
<1>6. CASE desjoinear_valida(p)
  <2>1. /\ UNCHANGED ACTUAL_MULTIPROG
        /\ mutex["multiprog"] = Libre /\ mutex'["multiprog"] = p
    BY <1>0, <1>6 DEF desjoinear_valida, Toma
  <2>2. pc'[p] \in {"desj_listo", "desj_nuevo"} BY <1>0, <1>6 DEF desjoinear_valida, Va
  <2>3. QED BY <2>1, <2>2 DEF ConMultiprog, ConLugar
<1>7. CASE close_toma(p)
  <2>1. UNCHANGED ACTUAL_MULTIPROG BY <1>7 DEF close_toma
  <2>2. CASE /\ mutex'["multiprog"] = mutex["multiprog"]
             /\ pc'[p] \in {"close_new_cs", "close_blocked_2"}
    BY <2>1, <2>2 DEF ConMultiprog, ConLugar
  <2>3. CASE /\ mutex["multiprog"] = Libre /\ mutex'["multiprog"] = p
             /\ pc'[p] \in {"close_blocked_cs", "close_ready_cs", "close_exec_cs"}
    BY <2>1, <2>3 DEF ConMultiprog, ConLugar
  <2>4. QED BY <1>0, <1>7, <2>2, <2>3 DEF close_toma, Toma, Va, Mutexes
<1>8. CASE close_devuelve(p) /\ validar_grado_multiprogramacion' /\ Va(p, "fifo")
  <2>1. /\ ACTUAL_MULTIPROG' = ACTUAL_MULTIPROG - 1 /\ mutex' = mutex
        /\ pc[p] \in ConMultiprog
    BY <1>8 DEF close_devuelve, ConMultiprog
  <2>2. pc'[p] = "fifo" BY <1>0, <1>8 DEF Va
  <2>3. QED BY <1>0, <2>1, <2>2 DEF ConMultiprog, ConLugar
<1>10. CASE obtener_ULT_ready_FIFO(p) /\ Va(p, "fifo_listo") /\ UNCHANGED mutex
  <2>1. UNCHANGED ACTUAL_MULTIPROG /\ pc[p] = "fifo" BY <1>10 DEF obtener_ULT_ready_FIFO
  <2>2. pc'[p] = "fifo_listo" BY <1>0, <1>10 DEF Va
  <2>3. QED BY <1>10, <2>1, <2>2 DEF ConMultiprog, ConLugar
<1>9. QED
  <2>1. create_valida(p) => Responde(p) \/ (Va(p, "create_admite") /\ validar_grado_multiprogramacion)
    BY DEF create_valida
  <2>2. close_devuelve(p) => Va(p, "metricas") \/ (validar_grado_multiprogramacion' /\ Va(p, "fifo"))
    BY SMTT(60) DEF close_devuelve
  <2>3. create_admite(p) \/ obtener_proximo_ejecutar(p) \/ decrementar_semaforo(p)
          \/ incrementar_semaforo(p) \/ desjoinear_mueve(p) \/ close_new(p)
          \/ nuevo_a_listo_resto(p) \/ metricas_sistema(p)
        => Responde(p) \/ Va(p, "metricas") \/ Va(p, "sin_ult") \/ Va(p, "desjoinear")
    BY DEF create_admite, obtener_proximo_ejecutar, decrementar_semaforo,
       incrementar_semaforo, desjoinear_mueve, close_new, nuevo_a_listo_resto,
       metricas_sistema
  <2>4. obtener_ULT_ready_FIFO(p) =>
          Va(p, "metricas") \/ (Va(p, "fifo_listo") /\ UNCHANGED mutex)
    BY DEF obtener_ULT_ready_FIFO
  <2>5. QED BY <1>2, <1>3, <1>4, <1>5, <1>6, <1>7, <1>8, <1>10, <2>1, <2>2, <2>3, <2>4
        DEF Handler

LEMMA GradoPaso == GradoInv /\ [Next]_vars => GradoInv'
<1> SUFFICES ASSUME GradoInv, [Next]_vars PROVE GradoInv' OBVIOUS
<1>0. TipoInv' BY TipoPaso DEF GradoInv
<1>1. CASE UNCHANGED vars
  BY <1>0, <1>1 DEF GradoInv, vars, hiloVars
<1>2. ASSUME NEW p \in Proc, Handler(p) PROVE GradoInv'
  <2>1. /\ ACTUAL_MULTIPROG' <= MAX_MULTIPROG
        /\ ACTUAL_MULTIPROG' # ACTUAL_MULTIPROG => mutex["multiprog"] = p
        /\ mutex'["multiprog"] # mutex["multiprog"] => mutex["multiprog"] \in {Libre, p}
        /\ pc'[p] \in ConMultiprog => mutex'["multiprog"] = p
        /\ pc'[p] \in ConLugar => ACTUAL_MULTIPROG' < MAX_MULTIPROG
    BY <1>2, PasoGrado DEF GradoInv, TipoInv
  <2>2. ASSUME NEW q \in Proc, q # p
        PROVE  /\ pc'[q] \in ConMultiprog => mutex'["multiprog"] = q
               /\ pc'[q] \in ConLugar => ACTUAL_MULTIPROG' < MAX_MULTIPROG
    <3>1. pc'[q] = pc[q] BY <1>2, <2>2, PasoLocal DEF GradoInv, TipoInv
    <3>2. pc[q] \in ConMultiprog => mutex["multiprog"] = q /\ q \notin {Libre, p}
      BY <2>2, SusAssumption DEF GradoInv, SusAssumption
    <3>3. ConLugar \subseteq ConMultiprog BY DEF ConLugar, ConMultiprog
    <3>4. QED BY <2>1, <3>1, <3>2, <3>3 DEF GradoInv
  <2>3. QED BY <1>0, <2>1, <2>2 DEF GradoInv
<1>3. ASSUME NEW p \in Proc, Pedido(p) PROVE GradoInv'
  <2>1. UNCHANGED <<ACTUAL_MULTIPROG, mutex>> /\ pc'[p] \notin ConMultiprog
    BY <1>3, PedidoSinGrado DEF GradoInv, TipoInv
  <2>2. \A q \in Proc : q # p => pc'[q] = pc[q]
    BY <1>3, PasoLocal DEF GradoInv, TipoInv
  <2>3. ConLugar \subseteq ConMultiprog BY DEF ConLugar, ConMultiprog
  <2>4. QED BY <1>0, <2>1, <2>2, <2>3 DEF GradoInv
<1>4. ASSUME NEW p \in Proc, desreferencia_nula(p) PROVE GradoInv'
  BY <1>0, <1>4 DEF GradoInv, desreferencia_nula, ConMultiprog, ConLugar
<1>5. QED BY <1>1, <1>2, <1>3, <1>4 DEF Next

\* The degree counted never exceeds MAX_MULTIPROG, for any clients: the check of
\* validar_grado_multiprogramacion and the increment that follows it are one
\* critical section of mutex_multiprog on every path.
THEOREM GradoCorrecto == Spec => []ContadorAcotado
<1>1. Init => GradoInv
  BY TipoInicial, SusAssumption DEF Init, GradoInv, ConMultiprog, ConLugar, SusAssumption
<1>2. GradoInv /\ [Next]_vars => GradoInv' BY GradoPaso
<1>3. GradoInv => ContadorAcotado BY DEF GradoInv, ContadorAcotado
<1>4. QED BY <1>1, <1>2, <1>3, PTL DEF Spec

-----------------------------------------------------------------------------
(* Semaphores                                                              *)

SemInv == TipoInv /\ CuentaSemaforo

\* Only wait and signal touch a semaphore and its list, and they touch both.
LEMMA CuentaUno ==
  ASSUME TypeOK, CuentaSemaforo, NEW s \in Sem, NEW v \in Int, NEW l,
         VALUE' = [VALUE EXCEPT ![s] = v],
         BLOCKED_LIST' = [BLOCKED_LIST EXCEPT ![s] = l],
         v <= SemMax[s], Len(l) = IF v < 0 THEN -v ELSE 0
  PROVE  CuentaSemaforo'
<1>1. VALUE \in [Sem -> Int] /\ BLOCKED_LIST \in [Sem -> Seq(ULT)] BY DEF TypeOK
<1>2. VALUE'[s] = v /\ BLOCKED_LIST'[s] = l BY <1>1
<1>3. ASSUME NEW r \in Sem, r # s
      PROVE  VALUE'[r] = VALUE[r] /\ BLOCKED_LIST'[r] = BLOCKED_LIST[r]
  BY <1>1, <1>3
<1>4. ASSUME NEW r \in Sem
      PROVE  /\ VALUE'[r] <= SemMax[r]
             /\ Len(BLOCKED_LIST'[r]) = (IF VALUE'[r] < 0 THEN -VALUE'[r] ELSE 0)
  <2>1. CASE r = s BY <1>2, <2>1
  <2>2. CASE r # s BY <1>3, <2>2 DEF CuentaSemaforo
  <2>3. QED BY <2>1, <2>2
<1>5. QED BY <1>4 DEF CuentaSemaforo

LEMMA CuentaPaso == SemInv /\ [Next]_vars => SemInv'
<1> SUFFICES ASSUME SemInv, [Next]_vars PROVE SemInv' OBVIOUS
<1>0. TipoInv' /\ TypeOK /\ CuentaSemaforo BY TipoPaso DEF SemInv, TipoInv
<1>e. ASSUME NEW r \in Sem
      PROVE  /\ VALUE[r] \in Int /\ SemMax[r] \in Nat /\ VALUE[r] <= SemMax[r]
             /\ Len(BLOCKED_LIST[r]) = (IF VALUE[r] < 0 THEN -VALUE[r] ELSE 0)
             /\ BLOCKED_LIST[r] \in Seq(ULT)
             /\ BLOCKED_LIST = [BLOCKED_LIST EXCEPT ![r] = BLOCKED_LIST[r]]
  BY <1>0, SusAssumption DEF TypeOK, CuentaSemaforo, SusAssumption
<1>1. CASE UNCHANGED semVars BY <1>0, <1>1 DEF SemInv, CuentaSemaforo, semVars
<1>2. ASSUME NEW p \in Proc, decrementar_semaforo(p) PROVE CuentaSemaforo'
  <2> DEFINE s == req[p].sem
  <2>1. CASE s \notin Sem BY <1>1, <1>2, <2>1 DEF decrementar_semaforo, semVars, SemInv
  <2>2. CASE s \in Sem
    <3>1. VALUE' = [VALUE EXCEPT ![s] = VALUE[s] - 1] BY <1>2, <2>2 DEF decrementar_semaforo
    <3>2. CASE VALUE[s] <= 0
      <4>1. BLOCKED_LIST' = [BLOCKED_LIST EXCEPT ![s] = Append(@, <<p, curr[p]>>)]
        BY <1>2, <2>2, <3>2 DEF decrementar_semaforo
      <4>2. <<p, curr[p]>> \in ULT BY <1>2, <1>0 DEF SemInv, TipoInv, PedidoOK, ULT, decrementar_semaforo
      <4>3. Len(Append(BLOCKED_LIST[s], <<p, curr[p]>>)) = Len(BLOCKED_LIST[s]) + 1
        BY <1>e, <2>2, <4>2, AppendProperties
      <4>4. QED
        <5> DEFINE v == VALUE[s] - 1
                   l == Append(BLOCKED_LIST[s], <<p, curr[p]>>)
        <5>1. v \in Int /\ v <= SemMax[s] /\ Len(l) = IF v < 0 THEN -v ELSE 0
          BY SMTT(60), <1>e, <2>2, <3>2, <4>3
        <5>2. QED BY <1>0, <2>2, <3>1, <4>1, <5>1, CuentaUno
    <3>3. CASE ~(VALUE[s] <= 0)
      <4>1. BLOCKED_LIST' = BLOCKED_LIST BY <1>2, <2>2, <3>3 DEF decrementar_semaforo
      <4>2. BLOCKED_LIST' = [BLOCKED_LIST EXCEPT ![s] = BLOCKED_LIST[s]] BY <1>e, <2>2, <4>1
      <4>3. /\ VALUE[s] - 1 \in Int /\ VALUE[s] - 1 <= SemMax[s]
            /\ Len(BLOCKED_LIST[s]) = IF VALUE[s] - 1 < 0 THEN -(VALUE[s] - 1) ELSE 0
        BY <1>e, <2>2, <3>3
      <4>4. QED BY <1>0, <2>2, <3>1, <4>2, <4>3, CuentaUno
    <3>4. QED BY <3>2, <3>3
  <2>3. QED BY <2>1, <2>2
<1>3. ASSUME NEW p \in Proc, incrementar_semaforo(p) PROVE CuentaSemaforo'
  <2> DEFINE s == req[p].sem
  <2>1. CASE signal_rechazado(p)
    BY <1>1, <1>3, <2>1 DEF incrementar_semaforo, semVars, SemInv
  <2>2. CASE ~signal_rechazado(p)
    <3>1. s \in Sem /\ VALUE[s] # SemMax[s] BY <2>2 DEF signal_rechazado
    <3>2. VALUE' = [VALUE EXCEPT ![s] = VALUE[s] + 1] BY <1>3, <2>2 DEF incrementar_semaforo
    <3>3. CASE BLOCKED_LIST[s] = <<>>
      <4>1. BLOCKED_LIST' = BLOCKED_LIST BY <1>3, <2>2, <3>3 DEF incrementar_semaforo
      <4>2. BLOCKED_LIST' = [BLOCKED_LIST EXCEPT ![s] = BLOCKED_LIST[s]] BY <1>e, <3>1, <4>1
      <4>3. Len(BLOCKED_LIST[s]) = 0 BY <3>3
      <4>4. /\ VALUE[s] + 1 \in Int /\ VALUE[s] + 1 <= SemMax[s]
            /\ Len(BLOCKED_LIST[s]) = IF VALUE[s] + 1 < 0 THEN -(VALUE[s] + 1) ELSE 0
        BY <1>e, <3>1, <4>3
      <4>5. QED BY <1>0, <3>1, <3>2, <4>2, <4>4, CuentaUno
    <3>4. CASE BLOCKED_LIST[s] # <<>>
      <4>1. BLOCKED_LIST' = [BLOCKED_LIST EXCEPT ![s] = Tail(@)]
        BY <1>3, <2>2, <3>4 DEF incrementar_semaforo
      <4>2. /\ BLOCKED_LIST[s] \in Seq(ULT) /\ Len(BLOCKED_LIST[s]) > 0
            /\ Len(Tail(BLOCKED_LIST[s])) = Len(BLOCKED_LIST[s]) - 1
        <5>1. BLOCKED_LIST[s] \in Seq(ULT) BY <1>e, <3>1
        <5>2. QED BY <3>4, <5>1, HeadTailProperties, EmptySeq
      <4>3. QED
        <5> DEFINE v == VALUE[s] + 1
                   l == Tail(BLOCKED_LIST[s])
        <5>1. VALUE[s] \in Int /\ VALUE[s] < 0 /\ Len(BLOCKED_LIST[s]) = -VALUE[s]
          BY <1>e, <3>1, <4>2
        <5>2. SemMax[s] \in Nat /\ Len(l) = Len(BLOCKED_LIST[s]) - 1 BY <1>e, <3>1, <4>2
        <5>3. v \in Int /\ v <= SemMax[s] /\ Len(l) = IF v < 0 THEN -v ELSE 0
          BY SMTT(60), <5>1, <5>2
        <5>4. QED BY <1>0, <3>1, <3>2, <4>1, <5>3, CuentaUno
    <3>5. QED BY <3>3, <3>4
  <2>3. QED BY <2>1, <2>2
<1>4. ASSUME NEW p \in Proc, Handler(p) PROVE SemInv'
  <2>1. decrementar_semaforo(p) \/ incrementar_semaforo(p) \/ UNCHANGED semVars
    BY <1>4 DEF Handler, create_valida, create_admite, obtener_proximo_ejecutar,
       toma_semaforos, desjoinear_hilo, desjoinear_valida, desjoinear_mueve,
       close_segun_estado, close_toma, close_new, close_devuelve, obtener_ULT_ready_FIFO,
       nuevo_a_listo_resto, metricas_sistema
  <2>2. QED BY <1>0, <1>1, <1>2, <1>3, <2>1 DEF SemInv
<1>5. ASSUME NEW p \in Proc, Pedido(p) \/ desreferencia_nula(p) PROVE UNCHANGED semVars
  BY <1>5 DEF Pedido, handle_main_thread_create, handle_ULT_create, ULT_create, join,
     close_tid, handle_next_tid, close_main, desconexion, handle_wait_sem,
     handle_signal_sem, desreferencia_nula
<1>6. CASE UNCHANGED vars BY <1>1, <1>6 DEF vars
<1>7. QED BY <1>1, <1>4, <1>5, <1>6 DEF Next

\* A negative semaphore counts exactly the ULTs queued on it and none exceeds its
\* maximum, whatever wait and signal of different processes interleave.
THEOREM SemaforosCorrectos == Spec => []CuentaSemaforo
<1>1. Init => SemInv
  BY TipoInicial, SusAssumption DEF Init, SemInv, CuentaSemaforo, SusAssumption
<1>2. SemInv /\ [Next]_vars => SemInv' BY CuentaPaso
<1>3. SemInv => CuentaSemaforo BY DEF SemInv
<1>4. QED BY <1>1, <1>2, <1>3, PTL DEF Spec

-----------------------------------------------------------------------------
(* Who changes the estado of a ULT                                         *)

EnCierre     == EnPedido \ {"create", "create_admite"}
Desjoineando == EnDesj \cup {"desjoinear"}

\* A ULT is made NEW, BLOCKED or EXIT only by the handler of its process, for a reason.
Razon(p, y, e) ==
  /\ e \in {E_NEW, E_READY, E_EXECUTE, E_BLOCKED, E_EXIT}
  /\ e = E_NEW => desjoinear_mueve(p) \/ \E t \in Tid : ULT_create(p, t)
  /\ e = E_BLOCKED => y[1] = p /\ (decrementar_semaforo(p) \/ \E t \in Tid : join(p, t))
  /\ e = E_EXIT => /\ y = <<p, req[p].tid>> /\ pc[p] \in EnCierre \ Desjoineando
                   /\ close_new(p) \/ close_devuelve(p)

LEMMA EstadosDistintos ==
  /\ E_READY \notin {E_NEW, E_BLOCKED, E_EXIT} /\ E_EXECUTE \notin {E_NEW, E_BLOCKED, E_EXIT}
  /\ E_NEW \notin {E_BLOCKED, E_EXIT} /\ E_BLOCKED # E_EXIT
BY DEF E_NEW, E_READY, E_EXECUTE, E_BLOCKED, E_EXIT

LEMMA CambiaEstado ==
  ASSUME NEW p \in Proc, Handler(p) \/ Pedido(p), ~ close_main(p)
  PROVE  estado' = estado \/ \E y, e : Razon(p, y, e) /\ estado' = [estado EXCEPT ![y] = e]
<1>1. \A y : /\ A_listo(y) => estado' = [estado EXCEPT ![y] = E_READY]
             /\ nuevo_a_ejecucion(y) => estado' = [estado EXCEPT ![y] = E_EXECUTE]
             /\ A_bloqueado(y) => estado' = [estado EXCEPT ![y] = E_BLOCKED]
             /\ A_exit(y) => estado' = [estado EXCEPT ![y] = E_EXIT]
  BY DEF A_listo, nuevo_a_ejecucion, A_bloqueado, A_exit
<1>2. \A y : Razon(p, y, E_READY) /\ Razon(p, y, E_EXECUTE)
  BY EstadosDistintos DEF Razon
<1>3. CASE Handler(p)
  <2>1. CASE create_admite(p) BY <1>1, <1>2, <2>1 DEF create_admite, nuevo_a_listo
  <2>2. CASE obtener_proximo_ejecutar(p) BY <1>2, <2>2 DEF obtener_proximo_ejecutar
  <2>3. CASE decrementar_semaforo(p)
    <3>1. Razon(p, <<p, curr[p]>>, E_BLOCKED) BY <2>3, EstadosDistintos DEF Razon
    <3>2. QED BY <1>1, <2>3, <3>1 DEF decrementar_semaforo
  <2>4. CASE incrementar_semaforo(p)
    BY <1>1, <1>2, <2>4 DEF incrementar_semaforo, bloqueado_a_listo
  <2>5. CASE close_new(p) \/ close_devuelve(p)
    <3> DEFINE u == <<p, req[p].tid>>
    <3>1. pc[p] \in {"close_new_cs", "close_blocked_cs", "close_ready_cs", "close_exec_cs"}
      BY <2>5 DEF close_new, close_devuelve
    <3>2. pc[p] \in EnCierre \ Desjoineando BY <3>1 DEF EnCierre, EnPedido, Desjoineando, EnDesj
    <3>3. Razon(p, u, E_EXIT) BY <2>5, <3>2, EstadosDistintos DEF Razon
    <3>4. estado' = [estado EXCEPT ![u] = E_EXIT]
      BY <1>1, <2>5 DEF close_new, close_devuelve
    <3>5. QED BY <3>3, <3>4
  <2>6. CASE nuevo_a_listo_resto(p) BY <1>2, <2>6 DEF nuevo_a_listo_resto
  <2>7. CASE desjoinear_mueve(p)
    <3>1. \A y : Razon(p, y, E_NEW) BY <2>7, EstadosDistintos DEF Razon
    <3>2. QED BY <1>1, <1>2, <2>7, <3>1 DEF desjoinear_mueve, bloqueado_a_listo
  <2>8. CASE \/ create_valida(p) \/ toma_semaforos(p) \/ desjoinear_hilo(p)
             \/ desjoinear_valida(p) \/ close_segun_estado(p) \/ close_toma(p)
             \/ obtener_ULT_ready_FIFO(p) \/ metricas_sistema(p)
    BY <2>8 DEF create_valida, toma_semaforos, desjoinear_hilo, desjoinear_valida,
       close_segun_estado, close_toma, obtener_ULT_ready_FIFO, metricas_sistema, ultVars
  <2>9. QED BY <1>3, <2>1, <2>2, <2>3, <2>4, <2>5, <2>6, <2>7, <2>8 DEF Handler
<1>4. CASE Pedido(p)
  <2>1. ASSUME NEW t \in Tid, ULT_create(p, t)
        PROVE  \E y, e : Razon(p, y, e) /\ estado' = [estado EXCEPT ![y] = e]
    <3>1. Razon(p, <<p, t>>, E_NEW) BY <2>1, EstadosDistintos DEF Razon
    <3>2. QED BY <2>1, <3>1 DEF ULT_create
  <2>2. ASSUME NEW t \in Tid, join(p, t)
        PROVE  estado' = estado \/ \E y, e : Razon(p, y, e) /\ estado' = [estado EXCEPT ![y] = e]
    <3>1. Razon(p, <<p, EXEC_THREAD[p]>>, E_BLOCKED) BY <2>2, EstadosDistintos DEF Razon
    <3>2. QED BY <1>1, <2>2, <3>1 DEF join, ultVars
  <2>3. CASE handle_next_tid(p) BY <1>2, <2>3 DEF handle_next_tid
  <2>4. CASE \/ \E t \in Tid : close_tid(p, t)
             \/ desconexion(p)
             \/ \E s \in Sem \cup {SemDesconocido} : handle_wait_sem(p, s) \/ handle_signal_sem(p, s)
    BY <2>4 DEF close_tid, desconexion, handle_wait_sem, handle_signal_sem, ultVars
  <2>5. QED
    BY <1>4, <2>1, <2>2, <2>3, <2>4, MainEnTid
    DEF Pedido, handle_main_thread_create, handle_ULT_create
<1>5. QED BY <1>3, <1>4

\* Only the handler that closes a ULT puts it in exit_queue, and nobody takes one out.
LEMMA CambiaExit ==
  ASSUME NEW p \in Proc, Handler(p) \/ Pedido(p)
  PROVE  \/ exit_queue' = exit_queue /\ ~ close_new(p) /\ ~ close_devuelve(p)
         \/ /\ exit_queue' = exit_queue \cup {<<p, req[p].tid>>}
            /\ pc[p] \in EnCierre \ Desjoineando
            /\ close_new(p) \/ close_devuelve(p)
<1>1. CASE close_new(p) \/ close_devuelve(p)
  <2>1. pc[p] \in {"close_new_cs", "close_blocked_cs", "close_ready_cs", "close_exec_cs"}
    BY <1>1 DEF close_new, close_devuelve
  <2>2. pc[p] \in EnCierre \ Desjoineando BY <2>1 DEF EnCierre, EnPedido, Desjoineando, EnDesj
  <2>3. exit_queue' = exit_queue \cup {<<p, req[p].tid>>}
    BY <1>1 DEF close_new, close_devuelve, A_exit
  <2>4. QED BY <1>1, <2>2, <2>3
<1>2. CASE ~ close_new(p) /\ ~ close_devuelve(p)
  <2>1. CASE Handler(p)
    BY <1>2, <2>1 DEF Handler, create_valida, create_admite, obtener_proximo_ejecutar,
       toma_semaforos, decrementar_semaforo, incrementar_semaforo, desjoinear_hilo,
       desjoinear_valida, desjoinear_mueve, close_segun_estado, close_toma,
       obtener_ULT_ready_FIFO, nuevo_a_listo_resto, metricas_sistema, nuevo_a_listo,
       bloqueado_a_listo, A_listo, nuevo_a_ejecucion, A_bloqueado, colaVars
  <2>2. CASE Pedido(p)
    BY <1>2, <2>2 DEF Pedido, handle_main_thread_create, handle_ULT_create, ULT_create, join,
       close_tid, handle_next_tid, close_main, desconexion, handle_wait_sem,
       handle_signal_sem, A_bloqueado, colaVars
  <2>3. QED BY <1>2, <2>1, <2>2
<1>3. QED BY <1>1, <1>2

-----------------------------------------------------------------------------
(* What can wake a BLOCKED ULT                                             *)

\* If t is closing, desjoinear has still to deal with its i-th joiner.
SinPasar(p, t, i) ==
  pc[p] \in EnCierre /\ req[p].tid = t =>
    \/ pc[p] = "desjoinear" /\ req[p].i <= i
    \/ pc[p] \in EnDesj /\ req[p].i < i

\* t is alive and knows that u waits for it.
Espera(u, t) ==
  /\ EnULTS(<<u[1], t>>)
  /\ \E i \in 1 .. Len(joinedBy[<<u[1], t>>]) :
       joinedBy[<<u[1], t>>][i] = u[2] /\ SinPasar(u[1], t, i)
Parado(u)  == pc[u[1]] \in {"fin", "caido"} /\ (estado[u] # E_BLOCKED \/ u \in exit_queue)
EnSemaforo(u) == \E s \in Sem : \E i \in 1 .. Len(BLOCKED_LIST[s]) : BLOCKED_LIST[s][i] = u

\* BloqueadoTieneDespertador is not inductive: a joiner of several ULTs outlives the close
\* of one of them because each join it still has is to a living ULT, BLOCKED or not.
JoinInv ==
  \A u \in ULT : \A t \in joinTo[u] : Espera(u, t) \/ Parado(u)
BloqueoInv ==
  \A u \in ULT : estado[u] = E_BLOCKED /\ u \notin exit_queue /\ pc[u[1]] # "caido" =>
    EnSemaforo(u) \/ joinTo[u] # {} \/ Despertandose(u)
ExitInv      == \A u \in ULT : estado[u] = E_EXIT => u \in exit_queue
DespertarInv == TipoInv /\ JoinInv /\ BloqueoInv /\ ExitInv

LEMMA HiloVivo ==
  ASSUME NEW p \in Proc, Handler(p) \/ Pedido(p)
  PROVE  pc[p] \notin {"fin", "caido", "sin_ult"}
<1>1. CASE Handler(p)
  BY <1>1 DEF Handler, create_valida, create_admite, obtener_proximo_ejecutar, toma_semaforos,
     decrementar_semaforo, incrementar_semaforo, desjoinear_hilo, desjoinear_valida,
     desjoinear_mueve, close_segun_estado, close_toma, close_new, close_devuelve,
     obtener_ULT_ready_FIFO, nuevo_a_listo_resto, metricas_sistema
<1>2. CASE Pedido(p)
  BY <1>2 DEF Pedido, handle_main_thread_create, handle_ULT_create, ClienteCorre, Conectado,
     join, close_tid, handle_next_tid, close_main, desconexion, handle_wait_sem,
     handle_signal_sem
<1>3. QED BY <1>1, <1>2

\* A wait for t lasts while the close of t does not pass over it.
LEMMA EsperaSigue ==
  ASSUME TypeOK, NEW p \in Proc, Handler(p) \/ Pedido(p), ~ close_main(p), joinedBy' = joinedBy,
         NEW u \in ULT, NEW t \in Tid, Espera(u, t),
         u[1] = p => \A i \in 1 .. Len(joinedBy[<<p, t>>]) :
           joinedBy[<<p, t>>][i] = u[2] /\ SinPasar(p, t, i) => SinPasar(p, t, i)'
  PROVE  Espera(u, t)'
<1> DEFINE x == <<u[1], t>>
<1>1. u[1] \in Proc /\ x \in ULT BY DEF ULT
<1>2. PICK i \in 1 .. Len(joinedBy[x]) : joinedBy[x][i] = u[2] /\ SinPasar(u[1], t, i)
  BY DEF Espera
<1>3. SinPasar(u[1], t, i)'
  <2>1. CASE u[1] = p BY <1>2, <2>1
  <2>2. CASE u[1] # p
    <3>1. pc'[u[1]] = pc[u[1]] /\ req'[u[1]] = req[u[1]] BY <1>1, <2>2, PasoLocal
    <3>2. QED BY <1>2, <3>1 DEF SinPasar
  <2>3. QED BY <2>1, <2>2
<1>4. EnULTS(x)'
  <2>1. EnULTS(x) /\ estado \in [ULT -> Estados] BY DEF Espera, TypeOK
  <2>0. x \notin exit_queue'
    <3>1. x # <<p, req[p].tid>> \/ ~ (pc[p] \in EnCierre \ Desjoineando)
      BY <1>2 DEF SinPasar, Desjoineando
    <3>2. QED BY <2>1, <3>1, CambiaExit DEF EnULTS
  <2>2. CASE estado' = estado BY <2>0, <2>1, <2>2 DEF EnULTS
  <2>3. ASSUME NEW y, NEW e, Razon(p, y, e), estado' = [estado EXCEPT ![y] = e]
        PROVE  EnULTS(x)'
    <3>1. CASE y # x BY <1>1, <2>0, <2>1, <2>3, <3>1 DEF EnULTS
    <3>2. CASE y = x
      <4>1. e # E_EXIT
        <5>1. SUFFICES ASSUME e = E_EXIT PROVE FALSE OBVIOUS
        <5>2. x = <<p, req[p].tid>> /\ pc[p] \in EnCierre \ Desjoineando
          BY <2>3, <3>2, <5>1 DEF Razon
        <5>3. u[1] = p /\ t = req[p].tid BY <5>2
        <5>4. QED BY <1>2, <5>2, <5>3 DEF SinPasar, Desjoineando
      <4>2. e \notin {SinCrear, E_EXIT, Liberado}
        BY <2>3, <4>1
        DEF Razon, E_NEW, E_READY, E_EXECUTE, E_BLOCKED, E_EXIT, SinCrear, Liberado
      <4>3. estado'[x] = e BY <1>1, <2>1, <2>3, <3>2
      <4>4. QED BY <2>0, <4>2, <4>3 DEF EnULTS
    <3>3. QED BY <3>1, <3>2
  <2>4. QED BY <2>2, <2>3, CambiaEstado
<1>5. QED BY <1>2, <1>3, <1>4 DEF Espera

\* Only its own handler blocks a ULT.
LEMMA BloqueaElSuyo ==
  ASSUME TypeOK, NEW p \in Proc, Handler(p) \/ Pedido(p), NEW u \in ULT, u[1] # p,
         estado'[u] = E_BLOCKED
  PROVE  estado[u] = E_BLOCKED
<1>1. CASE close_main(p)
  BY <1>1 DEF close_main
<1>2. CASE ~ close_main(p)
  <2>1. CASE estado' = estado BY <2>1
  <2>2. ASSUME NEW y, NEW e, Razon(p, y, e), estado' = [estado EXCEPT ![y] = e]
        PROVE  estado[u] = E_BLOCKED
    BY <2>2 DEF Razon, TypeOK
  <2>3. QED BY <1>2, <2>1, <2>2, CambiaEstado
<1>3. QED BY <1>1, <1>2

LEMMA JoinSigue ==
  ASSUME TypeOK, JoinInv, NEW p \in Proc, Handler(p) \/ Pedido(p), ~ close_main(p),
         joinedBy' = joinedBy,
         \A u \in ULT : joinTo'[u] \subseteq joinTo[u],
         \A u \in ULT : \A t \in joinTo'[u] : u[1] = p =>
           \A i \in 1 .. Len(joinedBy[<<p, t>>]) :
             joinedBy[<<p, t>>][i] = u[2] /\ SinPasar(p, t, i) => SinPasar(p, t, i)'
  PROVE  JoinInv'
<1>1. SUFFICES ASSUME NEW u \in ULT, NEW t \in joinTo'[u] PROVE Espera(u, t)' \/ Parado(u)'
  BY DEF JoinInv
<1>2. t \in joinTo[u] /\ t \in Tid /\ u[1] \in Proc BY DEF TypeOK, ULT
<1>3. CASE Espera(u, t) BY <1>1, <1>2, <1>3, EsperaSigue
<1>4. CASE Parado(u)
  <2>1. u[1] # p BY <1>4, HiloVivo DEF Parado
  <2>2. pc'[u[1]] = pc[u[1]] BY <1>2, <2>1, PasoLocal
  <2>3. estado'[u] # E_BLOCKED \/ u \in exit_queue'
    BY <1>4, <2>1, BloqueaElSuyo, CambiaExit DEF Parado
  <2>4. QED BY <1>4, <2>2, <2>3 DEF Parado
<1>5. QED BY <1>2, <1>3, <1>4 DEF JoinInv

\* desjoinear takes its ULT out of joinTo of each joiner it passes over.
LEMMA PasaBien ==
  ASSUME TypeOK, NEW p \in Proc, Handler(p) \/ Pedido(p), ~ close_main(p),
         \A t \in Tid : ~ join(p, t)
  PROVE  /\ joinedBy' = joinedBy
         /\ \A u \in ULT : joinTo'[u] \subseteq joinTo[u]
         /\ \A u \in ULT : \A t \in joinTo'[u] : u[1] = p =>
              \A i \in 1 .. Len(joinedBy[<<p, t>>]) :
                joinedBy[<<p, t>>][i] = u[2] /\ SinPasar(p, t, i) => SinPasar(p, t, i)'
<1>0. /\ pc \in [Proc -> Pcs] /\ joinTo \in [ULT -> SUBSET Tid] /\ joinedBy \in [ULT -> Seq(Tid)]
      /\ req \in [Proc -> Peticion]
  BY SMTT(60) DEF TypeOK
<1>1. req[p].i \in Nat /\ \A x \in ULT : Len(joinedBy[x]) \in Nat
  BY <1>0, LenProperties, CambiaPeticion
<1>2. CASE desjoinear_hilo(p)
  <2> DEFINE t == req[p].tid
             k == req[p].i
             j == <<p, joinedBy[<<p, t>>][k]>>
  <2>1. /\ pc[p] = "desjoinear" /\ joinedBy' = joinedBy
        /\ joinTo' = [joinTo EXCEPT ![j] = @ \ {t}]
        /\ \/ pc' = [pc EXCEPT ![p] = "desj"] /\ req' = req
           \/ pc' = pc /\ req' = [req EXCEPT ![p].i = k + 1]
    BY <1>2 DEF desjoinear_hilo, Va
  <2>2. /\ req'[p].tid = t
        /\ \/ pc'[p] = "desj" /\ req'[p].i = k
           \/ pc'[p] = "desjoinear" /\ req'[p].i = k + 1
    <3>1. req[p] \in Peticion BY <1>0
    <3>2. req' = [req EXCEPT ![p].i = k + 1] => req'[p].tid = t /\ req'[p].i = k + 1
      BY <1>0, <3>1 DEF Peticion
    <3>3. QED BY <1>0, <2>1, <3>2
  <2>3. \A u \in ULT : joinTo'[u] \subseteq joinTo[u] BY <1>0, <2>1
  <2>4. ASSUME NEW u \in ULT, NEW r \in joinTo'[u], u[1] = p, NEW i \in 1 .. Len(joinedBy[<<p, r>>]),
               joinedBy[<<p, r>>][i] = u[2], SinPasar(p, r, i)
        PROVE  SinPasar(p, r, i)'
    <3>1. CASE r # t BY <2>2, <3>1 DEF SinPasar
    <3>2. CASE r = t
      <4>1. i \in Nat /\ k <= i
        <5>1. r \in Tid /\ <<p, r>> \in ULT BY <1>0, <2>3, <2>4 DEF ULT
        <5>2. i \in Nat BY <1>1, <5>1
        <5>3. QED BY <2>1, <2>4, <3>2, <5>2 DEF SinPasar, EnCierre, EnPedido, EnDesj
      <4>2. i # k
        <5>1. SUFFICES ASSUME i = k PROVE FALSE OBVIOUS
        <5>2. u = <<p, u[2]>> BY <2>4 DEF ULT
        <5>3. u = j BY <2>4, <3>2, <5>1, <5>2
        <5>4. t \notin joinTo'[u] BY <1>0, <2>1, <5>3
        <5>5. QED BY <2>4, <3>2, <5>4
      <4>3. k < i /\ k + 1 <= i BY <1>1, <4>1, <4>2
      <4>4. "desj" \in EnDesj BY DEF EnDesj
      <4>5. QED BY <2>2, <4>3, <4>4 DEF SinPasar
    <3>3. QED BY <3>1, <3>2
  <2>5. QED BY <2>1, <2>3, <2>4
<1>3. CASE ~ desjoinear_hilo(p)
  <2>1. joinTo' = joinTo /\ joinedBy' = joinedBy
    <3>1. CASE Handler(p)
      BY <1>3, <3>1 DEF Handler, create_valida, create_admite, obtener_proximo_ejecutar,
         toma_semaforos, decrementar_semaforo, incrementar_semaforo, desjoinear_valida,
         desjoinear_mueve, close_segun_estado, close_toma, close_new, close_devuelve,
         obtener_ULT_ready_FIFO, nuevo_a_listo_resto, metricas_sistema, ultVars
    <3>2. CASE Pedido(p)
      BY <3>2 DEF Pedido, handle_main_thread_create, handle_ULT_create, ULT_create, close_tid,
         handle_next_tid, desconexion, handle_wait_sem, handle_signal_sem, ultVars
    <3>3. QED BY SMTT(60), <3>1, <3>2
  <2>2. ASSUME NEW t \in Tid, NEW i \in 1 .. Len(joinedBy[<<p, t>>]), SinPasar(p, t, i)
        PROVE  SinPasar(p, t, i)'
    <3>0. i \in Nat /\ <<p, t>> \in ULT /\ Len(joinedBy[<<p, t>>]) \in Nat BY <1>1 DEF ULT
    <3>1. SUFFICES ASSUME pc'[p] \in EnCierre, req'[p].tid = t
                   PROVE  \/ pc'[p] = "desjoinear" /\ req'[p].i <= i
                          \/ pc'[p] \in EnDesj /\ req'[p].i < i
      BY DEF SinPasar
    <3>2. ASSUME NEW l, Va(p, l) PROVE l = pc'[p] BY <1>0, <3>2 DEF Va
    <3>3. \/ \E x \in Tid : close_tid(p, x)
          \/ desjoinear_valida(p) \/ desjoinear_mueve(p) \/ close_segun_estado(p) \/ close_toma(p)
      <4>1. pc'[p] \notin {"create", "create_admite", "idle", "sem_ready", "sin_ult", "wait",
                           "wait_sem", "signal", "signal_sem", "fin", "fifo", "fifo_listo",
                           "metricas"}
        BY SMTT(60), <3>1 DEF EnCierre, EnPedido
      <4>2. CASE Handler(p)
        BY <1>3, <3>2, <4>1, <4>2 DEF Handler, create_valida, create_admite,
           obtener_proximo_ejecutar, toma_semaforos, decrementar_semaforo, incrementar_semaforo,
           close_new, close_devuelve, obtener_ULT_ready_FIFO, nuevo_a_listo_resto, metricas_sistema, Responde
      <4>3. CASE Pedido(p)
        BY <3>2, <4>1, <4>3 DEF Pedido, handle_main_thread_create, handle_ULT_create, ULT_create,
           handle_next_tid, desconexion, handle_wait_sem, handle_signal_sem
      <4>4. QED BY <4>2, <4>3
    <3>4. ASSUME NEW x \in Tid, close_tid(p, x) PROVE pc'[p] = "desjoinear" /\ req'[p].i = 1
      BY <1>0, <3>4 DEF close_tid, Va
    <3>5. CASE desjoinear_valida(p)
      <4>1. pc[p] = "desj" /\ req' = req /\ pc'[p] \in EnDesj
        BY <1>0, <3>5 DEF desjoinear_valida, Va, EnDesj
      <4>2. QED BY <2>2, <3>1, <4>1 DEF SinPasar, EnCierre, EnPedido
    <3>6. CASE desjoinear_mueve(p)
      <4>1. pc[p] \in EnDesj \ {"desj"} /\ pc'[p] = "desjoinear"
        BY <1>0, <3>6 DEF desjoinear_mueve, Va, EnDesj
      <4>2. req'[p].i = req[p].i + 1 /\ req'[p].tid = req[p].tid BY <1>0, <3>6 DEF desjoinear_mueve
      <4>3. req[p].i < i BY <2>2, <3>1, <4>1, <4>2 DEF SinPasar, EnCierre, EnPedido, EnDesj
      <4>4. QED BY <1>1, <3>0, <4>1, <4>2, <4>3
    <3>7. CASE close_segun_estado(p)
      <4>1. /\ pc[p] = "desjoinear" /\ req' = req
            /\ req[p].i > Len(joinedBy[<<p, req[p].tid>>])
        BY <3>7 DEF close_segun_estado
      <4>2. req[p].i <= i BY <2>2, <3>1, <4>1 DEF SinPasar, EnCierre, EnPedido, EnDesj
      <4>3. QED BY <1>1, <3>0, <3>1, <4>1, <4>2
    <3>8. CASE close_toma(p)
      <4>1. /\ pc[p] \in {"close_new", "close_blocked", "close_blocked_2", "close_ready",
                          "close_exec"}
            /\ req' = req
        BY <3>8 DEF close_toma
      <4>2. QED BY <2>2, <3>1, <4>1 DEF SinPasar, EnCierre, EnPedido, EnDesj
    <3>9. QED BY <3>0, <3>3, <3>4, <3>5, <3>6, <3>7, <3>8
  <2>3. \A u \in ULT : joinTo[u] \subseteq Tid BY <1>0
  <2>4. QED BY <2>1, <2>2, <2>3
<1>4. QED BY <1>2, <1>3

LEMMA JoinPaso ==
  ASSUME TypeOK, JoinInv, NEW p \in Proc, Handler(p) \/ Pedido(p)
  PROVE  JoinInv'
<1>0. /\ pc \in [Proc -> Pcs] /\ joinTo \in [ULT -> SUBSET Tid] /\ joinedBy \in [ULT -> Seq(Tid)]
      /\ estado \in [ULT -> Estados] /\ EXEC_THREAD \in [Proc -> Tid \cup {SinULT}]
  BY DEF TypeOK
<1>1. CASE close_main(p)
  <2>1. SUFFICES ASSUME NEW u \in ULT, NEW t \in joinTo'[u] PROVE Espera(u, t)' \/ Parado(u)'
    BY DEF JoinInv
  <2>2. /\ joinTo' = joinTo /\ joinedBy' = joinedBy /\ pc'[p] = "fin"
        /\ estado' = [x \in ULT |-> IF x[1] = p /\ EnULTS(x) THEN Liberado ELSE estado[x]]
        /\ exit_queue' = exit_queue
    BY <1>0, <1>1 DEF close_main, Va, colaVars
  <2>3. (Espera(u, t) \/ Parado(u)) /\ u[1] \in Proc /\ t \in Tid
    BY <1>0, <2>1, <2>2 DEF JoinInv, ULT
  <2>4. CASE u[1] = p
    <3>1. estado'[u] # E_BLOCKED \/ u \in exit_queue'
      BY <2>2, <2>4
      DEF EnULTS, E_READY, E_EXECUTE, E_BLOCKED, E_NEW, E_EXIT, SinCrear, Liberado
    <3>2. QED BY <2>2, <2>4, <3>1 DEF Parado
  <2>5. CASE u[1] # p
    <3>1. pc'[u[1]] = pc[u[1]] /\ req'[u[1]] = req[u[1]] BY <2>3, <2>5, <1>1, PasoLocal
    <3>2. \A r \in Tid : estado'[<<u[1], r>>] = estado[<<u[1], r>>]
      BY <2>2, <2>3, <2>5 DEF ULT
    <3>3. estado'[u] = estado[u] BY <2>2, <2>5
    <3>4. CASE Espera(u, t)
      <4>1. t \in Tid BY <1>0, <2>1, <2>2
      <4>2. QED BY <2>2, <3>1, <3>2, <3>4, <4>1 DEF Espera, EnULTS, SinPasar
    <3>5. CASE Parado(u) BY <2>2, <3>1, <3>3, <3>5 DEF Parado
    <3>6. QED BY <2>3, <3>4, <3>5
  <2>6. QED BY <2>4, <2>5
<1>2. ASSUME NEW t \in Tid, join(p, t) PROVE JoinInv'
  <2> DEFINE e == EXEC_THREAD[p]
             y == <<p, t>>
             v == <<p, e>>
             n == Len(joinedBy[y])
  <2>1. pc[p] = "idle" /\ pc' = pc /\ req' = req /\ exit_queue' = exit_queue
    BY <1>2 DEF join, ClienteCorre, Conectado, A_bloqueado, colaVars
  <2>2. CASE e = SinULT \/ t \notin ULTS(p)
    <3>1. UNCHANGED <<estado, joinTo, joinedBy>> BY <1>2, <2>2 DEF join, ultVars
    <3>2. QED BY <2>1, <3>1 DEF JoinInv, Espera, Parado, SinPasar, EnULTS
  <2>3. CASE ~ (e = SinULT \/ t \notin ULTS(p))
    <3>1. /\ e \in Tid /\ y \in ULT /\ v \in ULT /\ EnULTS(y)
      BY <1>0, <2>3 DEF ULTS, ULT
    <3>2. /\ joinTo' = [joinTo EXCEPT ![v] = @ \cup {t}]
          /\ joinedBy' = [joinedBy EXCEPT ![y] = Append(@, e)]
          /\ estado' = [estado EXCEPT ![v] = E_BLOCKED]
      BY <1>2, <2>3 DEF join, A_bloqueado
    <3>3. /\ Len(joinedBy'[y]) = n + 1 /\ joinedBy'[y][n + 1] = e /\ n \in Nat
          /\ \A i \in 1 .. n : joinedBy'[y][i] = joinedBy[y][i]
          /\ \A x \in ULT \ {y} : joinedBy'[x] = joinedBy[x]
      <4>1. joinedBy[y] \in Seq(Tid) /\ joinedBy'[y] = Append(joinedBy[y], e) BY <1>0, <3>1, <3>2
      <4>2. QED BY <1>0, <3>1, <3>2, <4>1, AppendProperties, LenProperties
    <3>4. \A x : EnULTS(x) /\ x \in ULT => EnULTS(x)'
      BY <1>0, <2>1, <3>1, <3>2
      DEF EnULTS, E_READY, E_EXECUTE, E_BLOCKED, E_NEW, E_EXIT, SinCrear, Liberado
    <3>5. SUFFICES ASSUME NEW u \in ULT, NEW r \in joinTo'[u] PROVE Espera(u, r)' \/ Parado(u)'
      BY DEF JoinInv
    <3>6. u[1] \in Proc /\ u = <<u[1], u[2]>> BY DEF ULT
    <3>7. CASE u = v /\ r = t
      <4>0. PICK m : m = n + 1 OBVIOUS
      <4>1. m \in 1 .. Len(joinedBy'[y]) BY <3>3, <4>0
      <4>2. SinPasar(p, t, m)' BY <2>1 DEF SinPasar, EnCierre, EnPedido
      <4>3. u[1] = p /\ u[2] = e BY <3>7
      <4>4. EnULTS(y)' BY <3>1, <3>4
      <4>5. joinedBy'[y][m] = u[2] BY <3>3, <4>0, <4>3
      <4>6. \E i \in 1 .. Len(joinedBy'[y]) : joinedBy'[y][i] = u[2] /\ SinPasar(p, t, i)'
        BY <4>1, <4>2, <4>5
      <4>7. Espera(u, t)' BY <4>3, <4>4, <4>6 DEF Espera
      <4>8. QED BY <3>7, <4>7
    <3>8. CASE ~ (u = v /\ r = t)
      <4>1. r \in joinTo[u] /\ r \in Tid BY <1>0, <3>1, <3>2, <3>8
      <4>2. CASE Espera(u, r)
        <5> DEFINE x == <<u[1], r>>
        <5>1. x \in ULT /\ EnULTS(x) /\ Len(joinedBy[x]) \in Nat
          BY <1>0, <3>6, <4>1, <4>2, LenProperties DEF Espera, ULT
        <5>2. PICK i \in 1 .. Len(joinedBy[x]) : joinedBy[x][i] = u[2] /\ SinPasar(u[1], r, i)
          BY <4>2 DEF Espera
        <5>3. i \in 1 .. Len(joinedBy'[x]) /\ joinedBy'[x][i] = u[2]
          BY <3>3, <5>1, <5>2
        <5>4. SinPasar(u[1], r, i)' BY <2>1, <5>2 DEF SinPasar
        <5>5. QED BY <3>4, <5>1, <5>3, <5>4 DEF Espera
      <4>3. CASE Parado(u)
        <5>1. u # v BY <2>1, <4>3 DEF Parado
        <5>2. QED BY <2>1, <3>1, <3>2, <4>3, <5>1 DEF Parado
      <4>4. QED BY <4>1, <4>2, <4>3 DEF JoinInv
    <3>9. QED BY <3>7, <3>8
  <2>4. QED BY <2>2, <2>3
<1>3. CASE ~ close_main(p) /\ \A t \in Tid : ~ join(p, t)
  BY <1>3, PasaBien, JoinSigue
<1>4. QED BY <1>1, <1>2, <1>3

LEMMA BloqueoPaso ==
  ASSUME TipoInv, BloqueoInv, NEW p \in Proc, Handler(p) \/ Pedido(p)
  PROVE  BloqueoInv'
<1>0a. TypeOK BY DEF TipoInv
<1>0. /\ pc \in [Proc -> Pcs] /\ joinTo \in [ULT -> SUBSET Tid] /\ estado \in [ULT -> Estados]
      /\ \A s \in Sem : BLOCKED_LIST[s] \in Seq(ULT) /\ Len(BLOCKED_LIST[s]) \in Nat
  BY <1>0a, LenProperties DEF TypeOK
<1>1. SUFFICES ASSUME NEW u \in ULT, estado'[u] = E_BLOCKED, u \notin exit_queue',
                      pc'[u[1]] # "caido"
               PROVE  EnSemaforo(u)' \/ joinTo'[u] # {} \/ Despertandose(u)'
  BY DEF BloqueoInv
<1>2. /\ u[1] \in Proc /\ u[2] \in Tid /\ u = <<u[1], u[2]>>
      /\ estado[u] = E_BLOCKED => EnSemaforo(u) \/ joinTo[u] # {} \/ Despertandose(u)
  <2>1. u[1] \in Proc /\ u[2] \in Tid /\ u = <<u[1], u[2]>> BY DEF ULT
  <2>2. pc[u[1]] # "caido"
    <3>1. CASE u[1] = p BY <3>1, HiloVivo
    <3>2. CASE u[1] # p BY <1>1, <2>1, <3>2, <1>0a, PasoLocal
    <3>3. QED BY <3>1, <3>2
  <2>3. u \notin exit_queue BY <1>1, CambiaExit
  <2>4. QED BY <2>1, <2>2, <2>3 DEF BloqueoInv
<1>3. u[1] # p /\ Despertandose(u) => Despertandose(u)'
  <2>1. SUFFICES ASSUME u[1] # p, Despertandose(u) PROVE Despertandose(u)' OBVIOUS
  <2>2. /\ pc'[u[1]] = pc[u[1]] /\ req'[u[1]] = req[u[1]]
        /\ \A t \in Tid : joinedBy'[<<u[1], t>>] = joinedBy[<<u[1], t>>]
    BY <1>2, <2>1, <1>0a, PasoLocal
  <2>3. QED
    <3>1. PICK t : t = req[u[1]].tid OBVIOUS
    <3>2. t \in Tid
      BY <1>2, <2>1, <3>1 DEF TipoInv, PedidoOK, EnPedido, EnDesj, Despertandose
    <3>3. QED BY <2>1, <2>2, <3>1, <3>2 DEF Despertandose
<1>4. CASE close_main(p)
  <2>1. /\ joinTo' = joinTo /\ BLOCKED_LIST' = BLOCKED_LIST
        /\ estado' = [x \in ULT |-> IF x[1] = p /\ EnULTS(x) THEN Liberado ELSE estado[x]]
        /\ exit_queue' = exit_queue
    BY <1>4 DEF close_main, semVars, colaVars
  <2>2. estado[u] = E_BLOCKED /\ u[1] # p
    BY <1>1, <2>1 DEF EnULTS, E_BLOCKED, E_EXIT, SinCrear, Liberado
  <2>3. QED BY <1>2, <1>3, <2>1, <2>2 DEF EnSemaforo
<1>5. ASSUME NEW t \in Tid, join(p, t)
      PROVE  EnSemaforo(u)' \/ joinTo'[u] # {} \/ Despertandose(u)'
  <2> DEFINE e == EXEC_THREAD[p]
             v == <<p, e>>
  <2>1. pc[p] = "idle" /\ BLOCKED_LIST' = BLOCKED_LIST
    BY <1>5 DEF join, ClienteCorre, Conectado, semVars
  <2>2. u[1] = p => ~ Despertandose(u) BY <2>1 DEF Despertandose
  <2>3. CASE e = SinULT \/ t \notin ULTS(p)
    <3>1. estado' = estado /\ joinTo' = joinTo BY <1>5, <2>3 DEF join, ultVars
    <3>2. QED BY <1>1, <1>2, <1>3, <2>1, <2>2, <3>1 DEF EnSemaforo
  <2>4. CASE ~ (e = SinULT \/ t \notin ULTS(p))
    <3>1. /\ joinTo' = [joinTo EXCEPT ![v] = @ \cup {t}]
          /\ estado' = [estado EXCEPT ![v] = E_BLOCKED]
      BY <1>5, <2>4 DEF join, A_bloqueado
    <3>2. CASE u = v BY <1>0, <3>1, <3>2
    <3>3. CASE u # v
      <4>1. joinTo'[u] = joinTo[u] /\ estado'[u] = estado[u] BY <1>0, <3>1, <3>3
      <4>2. QED BY <1>1, <1>2, <1>3, <2>1, <2>2, <4>1 DEF EnSemaforo
    <3>4. QED BY <3>2, <3>3
  <2>5. QED BY <2>3, <2>4
<1>6. CASE desjoinear_hilo(p)
  <2> DEFINE t == req[p].tid
             k == req[p].i
             j == <<p, joinedBy[<<p, t>>][k]>>
  <2>1. /\ pc[p] = "desjoinear" /\ joinedBy' = joinedBy /\ estado' = estado
        /\ BLOCKED_LIST' = BLOCKED_LIST /\ joinTo' = [joinTo EXCEPT ![j] = @ \ {t}]
        /\ joinTo[j] \subseteq {t} => pc' = [pc EXCEPT ![p] = "desj"] /\ req' = req
    BY <1>6 DEF desjoinear_hilo, Va, semVars
  <2>2. u[1] = p => ~ Despertandose(u) BY <2>1 DEF Despertandose
  <2>3. CASE u = j /\ joinTo[j] \subseteq {t}
    <3>1. u[1] = p /\ u[2] = joinedBy[<<p, t>>][k] BY <2>3
    <3>2. pc'[p] = "desj" /\ req' = req BY SMTT(60), <1>0, <2>1, <2>3
    <3>3. QED BY <2>1, <3>1, <3>2 DEF Despertandose
  <2>4. CASE u = j /\ ~ (joinTo[j] \subseteq {t})
    <3>1. joinTo'[u] = joinTo[u] \ {t} BY SMTT(60), <1>0, <2>1, <2>4
    <3>2. QED BY SMTT(60), <2>4, <3>1
  <2>5. CASE u # j
    <3>1. joinTo'[u] = joinTo[u] BY <1>0, <2>1, <2>5
    <3>2. QED BY <1>1, <1>2, <1>3, <2>1, <2>2, <3>1 DEF EnSemaforo
  <2>6. QED BY <2>3, <2>4, <2>5
<1>7. CASE decrementar_semaforo(p)
  <2>1. pc[p] = "wait_sem" /\ joinTo' = joinTo BY <1>7 DEF decrementar_semaforo
  <2>2. u[1] = p => ~ Despertandose(u) BY <2>1 DEF Despertandose
  <2>3. CASE estado' = estado /\ BLOCKED_LIST' = BLOCKED_LIST
    BY <1>1, <1>2, <1>3, <2>1, <2>2, <2>3 DEF EnSemaforo
  <2>4. CASE ~ (estado' = estado /\ BLOCKED_LIST' = BLOCKED_LIST)
    <3> DEFINE v == <<p, curr[p]>>
    <3>1. PICK s \in Sem : /\ BLOCKED_LIST' = [BLOCKED_LIST EXCEPT ![s] = Append(@, v)]
                           /\ estado' = [estado EXCEPT ![v] = E_BLOCKED]
      BY <1>7, <2>4 DEF decrementar_semaforo, A_bloqueado, semVars
    <3>2. u # v => estado[u] = E_BLOCKED BY <1>0, <1>1, <3>1
    <3>3. BLOCKED_LIST \in [Sem -> Seq(ULT)] BY <1>0a DEF TypeOK
    <3>4. CASE u = v
      <4>1. BLOCKED_LIST'[s] = Append(BLOCKED_LIST[s], u) BY <3>1, <3>3, <3>4
      <4>2. /\ Len(BLOCKED_LIST'[s]) = Len(BLOCKED_LIST[s]) + 1
            /\ BLOCKED_LIST'[s][Len(BLOCKED_LIST[s]) + 1] = u
        BY <1>0, <4>1, AppendProperties
      <4>3. Len(BLOCKED_LIST[s]) + 1 \in 1 .. Len(BLOCKED_LIST'[s]) BY <1>0, <4>2
      <4>4. QED BY <4>2, <4>3 DEF EnSemaforo
    <3>5. CASE u # v
      <4>1. EnSemaforo(u) => EnSemaforo(u)'
        <5>1. SUFFICES ASSUME EnSemaforo(u) PROVE EnSemaforo(u)' OBVIOUS
        <5>0. PICK r \in Sem : \E i \in 1 .. Len(BLOCKED_LIST[r]) : BLOCKED_LIST[r][i] = u
          BY <5>1 DEF EnSemaforo
        <5>2. PICK i \in 1 .. Len(BLOCKED_LIST[r]) : BLOCKED_LIST[r][i] = u BY <5>0
        <5>3. i \in 1 .. Len(BLOCKED_LIST'[r]) /\ BLOCKED_LIST'[r][i] = u
          <6>1. CASE r = s
            <7>1. v \in ULT \/ v \notin ULT OBVIOUS
            <7>2. BLOCKED_LIST'[r] = Append(BLOCKED_LIST[r], v) BY <3>1, <3>3, <6>1
            <7>3. /\ Len(BLOCKED_LIST'[r]) = Len(BLOCKED_LIST[r]) + 1
                  /\ BLOCKED_LIST'[r][i] = BLOCKED_LIST[r][i]
              BY <1>0, <7>2
            <7>4. QED BY <1>0, <5>2, <7>3
          <6>2. CASE r # s BY <3>1, <3>3, <5>2, <6>2
          <6>3. QED BY <6>1, <6>2
        <5>4. QED BY <5>3 DEF EnSemaforo
      <4>2. QED BY <1>2, <1>3, <2>1, <2>2, <3>2, <3>5, <4>1
    <3>6. QED BY <3>4, <3>5
  <2>5. QED BY <2>3, <2>4
<1>8. CASE incrementar_semaforo(p)
  <2>1. pc[p] = "signal_sem" /\ joinTo' = joinTo BY <1>8 DEF incrementar_semaforo
  <2>2. u[1] = p => ~ Despertandose(u) BY <2>1 DEF Despertandose
  <2>3. CASE estado' = estado /\ BLOCKED_LIST' = BLOCKED_LIST
    BY <1>1, <1>2, <1>3, <2>1, <2>2, <2>3 DEF EnSemaforo
  <2>4. CASE ~ (estado' = estado /\ BLOCKED_LIST' = BLOCKED_LIST)
    <3>1. PICK s \in Sem : /\ BLOCKED_LIST[s] # <<>>
                           /\ BLOCKED_LIST' = [BLOCKED_LIST EXCEPT ![s] = Tail(@)]
                           /\ estado' = [estado EXCEPT ![Head(BLOCKED_LIST[s])] = E_READY]
      BY <1>8, <2>4
      DEF incrementar_semaforo, signal_rechazado, PrimerEspera, bloqueado_a_listo, A_listo, semVars
    <3>2. u # Head(BLOCKED_LIST[s]) /\ estado[u] = E_BLOCKED
      BY <1>0, <1>1, <3>1, EstadosDistintos
    <3>3. BLOCKED_LIST \in [Sem -> Seq(ULT)] BY <1>0a DEF TypeOK
    <3>4. EnSemaforo(u) => EnSemaforo(u)'
      <4>1. SUFFICES ASSUME EnSemaforo(u) PROVE EnSemaforo(u)' OBVIOUS
      <4>0. PICK r \in Sem : \E i \in 1 .. Len(BLOCKED_LIST[r]) : BLOCKED_LIST[r][i] = u
        BY <4>1 DEF EnSemaforo
      <4>2. PICK i \in 1 .. Len(BLOCKED_LIST[r]) : BLOCKED_LIST[r][i] = u BY <4>0
      <4>3. CASE r = s
        <5>1. BLOCKED_LIST'[s] = Tail(BLOCKED_LIST[s]) BY <3>1, <3>3
        <5>2. /\ Len(Tail(BLOCKED_LIST[s])) = Len(BLOCKED_LIST[s]) - 1
              /\ \A k \in 1 .. Len(Tail(BLOCKED_LIST[s])) :
                   Tail(BLOCKED_LIST[s])[k] = BLOCKED_LIST[s][k + 1]
          BY <1>0, <3>1, HeadTailProperties
        <5>3. i # 1 BY <3>2, <4>2, <4>3
        <5>4. i - 1 \in 1 .. Len(Tail(BLOCKED_LIST[s])) /\ (i - 1) + 1 = i
          BY <1>0, <4>2, <4>3, <5>2, <5>3
        <5>5. BLOCKED_LIST'[s][i - 1] = u BY <4>2, <4>3, <5>1, <5>2, <5>4
        <5>6. QED BY <5>1, <5>4, <5>5 DEF EnSemaforo
      <4>4. CASE r # s
        <5>1. BLOCKED_LIST'[r] = BLOCKED_LIST[r] BY <3>1, <3>3, <4>4
        <5>2. QED BY <4>2, <5>1 DEF EnSemaforo
      <4>5. QED BY <4>3, <4>4
    <3>5. QED BY <1>2, <1>3, <2>1, <2>2, <3>2, <3>4
  <2>5. QED BY <2>3, <2>4
<1>9. CASE /\ ~ close_main(p) /\ \A t \in Tid : ~ join(p, t)
           /\ ~ desjoinear_hilo(p) /\ ~ decrementar_semaforo(p) /\ ~ incrementar_semaforo(p)
  <2>1. joinTo' = joinTo /\ joinedBy' = joinedBy /\ BLOCKED_LIST' = BLOCKED_LIST
    <3>1. CASE Handler(p)
      BY <1>9, <3>1 DEF Handler, create_valida, create_admite, obtener_proximo_ejecutar,
         toma_semaforos, desjoinear_valida, desjoinear_mueve, close_segun_estado, close_toma,
         close_new, close_devuelve, obtener_ULT_ready_FIFO, nuevo_a_listo_resto, metricas_sistema, ultVars, semVars
    <3>2. CASE Pedido(p)
      BY <1>9, <3>2 DEF Pedido, handle_main_thread_create, handle_ULT_create, ULT_create,
         close_tid, handle_next_tid, desconexion, handle_wait_sem, handle_signal_sem, ultVars,
         semVars
    <3>3. QED BY SMTT(60), <3>1, <3>2
  <2>2. estado[u] = E_BLOCKED
    <3>1. CASE estado' = estado BY <1>1, <3>1
    <3>2. ASSUME NEW y, NEW e, Razon(p, y, e), estado' = [estado EXCEPT ![y] = e]
          PROVE  estado[u] = E_BLOCKED
      BY <1>0, <1>1, <1>9, <3>2, EstadosDistintos DEF Razon
    <3>3. QED BY <1>9, <3>1, <3>2, <1>0a, CambiaEstado
  <2>3. u[1] = p /\ Despertandose(u) => Despertandose(u)'
    <3>1. SUFFICES ASSUME u[1] = p, Despertandose(u) PROVE Despertandose(u)' OBVIOUS
    <3>2. pc[p] \in {"desj", "desj_listo", "desj_nuevo"} BY <3>1 DEF Despertandose
    <3>3. desjoinear_valida(p) \/ desjoinear_mueve(p)
      <4>1. CASE Handler(p)
        BY <1>9, <3>2, <4>1 DEF Handler, create_valida, create_admite, obtener_proximo_ejecutar,
           toma_semaforos, close_segun_estado, close_toma, close_new, close_devuelve,
           obtener_ULT_ready_FIFO, nuevo_a_listo_resto, metricas_sistema
      <4>2. CASE Pedido(p)
        BY <1>9, <3>2, <4>2 DEF Pedido, handle_main_thread_create, handle_ULT_create,
           ClienteCorre, Conectado, close_tid, handle_next_tid, desconexion, handle_wait_sem,
           handle_signal_sem
      <4>3. QED BY <4>1, <4>2
    <3>4. CASE desjoinear_valida(p)
      <4>1. req' = req /\ pc'[p] \in {"desj_listo", "desj_nuevo"}
        BY <1>0, <3>4 DEF desjoinear_valida, Va
      <4>2. QED BY <2>1, <3>1, <4>1 DEF Despertandose
    <3>5. CASE desjoinear_mueve(p)
      <4>1. u = <<p, joinedBy[<<p, req[p].tid>>][req[p].i]>>
        BY SMTT(60), <1>2, <3>1 DEF Despertandose
      <4>2. \/ estado' = [estado EXCEPT ![u] = E_READY]
            \/ estado' = [estado EXCEPT ![u] = E_NEW]
        BY <3>5, <4>1 DEF desjoinear_mueve, bloqueado_a_listo, A_listo
      <4>3. QED BY <1>0, <1>1, <4>2, EstadosDistintos
    <3>6. QED BY <3>3, <3>4, <3>5
  <2>4. QED BY <1>2, <1>3, <2>1, <2>2, <2>3 DEF EnSemaforo
<1>10. QED BY <1>4, <1>5, <1>6, <1>7, <1>8, <1>9

LEMMA DespertarInicial == Init => DespertarInv
<1> SUFFICES ASSUME Init PROVE DespertarInv OBVIOUS
<1>1. TipoInv BY TipoInicial
<1>2. JoinInv BY DEF Init, JoinInv
<1>3. BloqueoInv BY DEF Init, BloqueoInv, SinCrear, E_BLOCKED
<1>4. ExitInv BY DEF Init, ExitInv, SinCrear, E_EXIT
<1>5. QED BY <1>1, <1>2, <1>3, <1>4 DEF DespertarInv

\* A ULT that has exited is in exit_queue.
LEMMA ExitPaso ==
  ASSUME TypeOK, ExitInv, NEW p \in Proc, Handler(p) \/ Pedido(p)
  PROVE  ExitInv'
<1>1. SUFFICES ASSUME NEW u \in ULT, estado'[u] = E_EXIT PROVE u \in exit_queue' BY DEF ExitInv
<1>2. estado[u] = E_EXIT => u \in exit_queue' BY CambiaExit DEF ExitInv
<1>3. CASE close_main(p)
  BY <1>1, <1>2, <1>3 DEF close_main, Liberado, E_EXIT
<1>4. ASSUME NEW y, NEW e, Razon(p, y, e), estado' = [estado EXCEPT ![y] = e], ~ close_main(p)
      PROVE  u \in exit_queue'
  <2>1. CASE u # y BY <1>1, <1>2, <1>4, <2>1 DEF TypeOK
  <2>2. CASE u = y
    <3>1. e = E_EXIT BY <1>1, <1>4, <2>2 DEF TypeOK
    <3>2. QED BY <1>4, <2>2, <3>1, CambiaExit DEF Razon
  <2>3. QED BY <2>1, <2>2
<1>5. QED BY <1>1, <1>2, <1>3, <1>4, CambiaEstado

LEMMA DespertarPaso == DespertarInv /\ [Next]_vars => DespertarInv'
<1> SUFFICES ASSUME DespertarInv, [Next]_vars PROVE DespertarInv' OBVIOUS
<1>0. TipoInv /\ TypeOK /\ JoinInv /\ BloqueoInv /\ ExitInv BY DEF DespertarInv, TipoInv
<1>1. TipoInv' BY <1>0, TipoPaso
<1>4. ExitInv'
  <2>1. CASE UNCHANGED vars BY <1>0, <2>1 DEF ExitInv, vars, ultVars, colaVars
  <2>2. ASSUME NEW p \in Proc, desreferencia_nula(p) PROVE ExitInv'
    BY <1>0, <2>2 DEF ExitInv, desreferencia_nula, ultVars, colaVars
  <2>3. QED BY <1>0, <2>1, <2>2, ExitPaso DEF Next
<1>2. JoinInv' /\ BloqueoInv'
  <2>1. CASE UNCHANGED vars
    BY ZenonT(60), <1>0, <2>1
    DEF JoinInv, BloqueoInv, Espera, Parado, EnSemaforo, Despertandose, SinPasar, EnULTS, vars,
        ultVars, procVars, colaVars, semVars, hiloVars
  <2>2. ASSUME NEW p \in Proc, Handler(p) \/ Pedido(p) PROVE JoinInv' /\ BloqueoInv'
    BY <1>0, <2>2, JoinPaso, BloqueoPaso
  <2>3. ASSUME NEW p \in Proc, desreferencia_nula(p) PROVE JoinInv' /\ BloqueoInv'
    <3>1. /\ estado' = estado /\ joinTo' = joinTo /\ joinedBy' = joinedBy
          /\ exit_queue' = exit_queue
          /\ \A q \in Proc : pc'[q] = "caido"
      BY <2>3 DEF desreferencia_nula, ultVars, colaVars
    <3>2. \A u \in ULT : u[1] \in Proc BY DEF ULT
    <3>3. BloqueoInv' BY <3>1, <3>2 DEF BloqueoInv
    <3>4. JoinInv'
      BY ZenonT(60), <1>0, <3>1, <3>2 DEF JoinInv, Espera, Parado, SinPasar, EnULTS, EnCierre, EnPedido
    <3>5. QED BY <3>3, <3>4
  <2>4. QED BY <2>1, <2>2, <2>3 DEF Next
<1>3. QED BY <1>1, <1>2, <1>4 DEF DespertarInv

LEMMA ListaCuenta ==
  ASSUME NEW q \in Seq(ULT), NEW u, NEW i \in 1 .. Len(q), q[i] = u
  PROVE  Veces(q, u) > 0
<1> DEFINE I == {k \in 1 .. Len(q) : q[k] = u}
<1>1. Len(q) \in Nat BY LenProperties
<1>2. IsFiniteSet(I)
  <2>1. IsFiniteSet(1 .. Len(q)) BY <1>1, FS_Interval
  <2>2. I \in SUBSET (1 .. Len(q)) OBVIOUS
  <2>3. QED BY ONLY <2>1, <2>2, FS_Subset
<1>3. Cardinality(I) \in Nat /\ (Cardinality(I) = 0 <=> I = {})
  BY <1>2, FS_CardinalityType, FS_EmptySet
<1>4. i \in I OBVIOUS
<1>5. Cardinality(I) > 0 BY <1>3, <1>4
<1>6. QED BY <1>5 DEF Veces

LEMMA DespertarBasta == DespertarInv => BloqueadoTieneDespertador
<1> SUFFICES ASSUME DespertarInv, NEW u \in ULT, estado[u] = E_BLOCKED, EnULTS(u),
                    pc[u[1]] # "caido"
             PROVE  \/ \E s \in Sem : Veces(BLOCKED_LIST[s], u) > 0
                    \/ \E t \in joinTo[u] :
                         /\ estado[<<u[1], t>>] \in {E_READY, E_EXECUTE, E_BLOCKED, E_NEW}
                         /\ \E i \in 1 .. Len(joinedBy[<<u[1], t>>]) :
                              joinedBy[<<u[1], t>>][i] = u[2]
                    \/ Despertandose(u)
  BY DEF BloqueadoTieneDespertador
<1>1. TypeOK /\ JoinInv /\ BloqueoInv /\ ExitInv BY DEF DespertarInv, TipoInv
<1>2. EnSemaforo(u) \/ joinTo[u] # {} \/ Despertandose(u) BY <1>1 DEF BloqueoInv, EnULTS
<1>3. CASE EnSemaforo(u)
  <2>1. PICK s \in Sem : \E i \in 1 .. Len(BLOCKED_LIST[s]) : BLOCKED_LIST[s][i] = u
    BY <1>3 DEF EnSemaforo
  <2>2. BLOCKED_LIST[s] \in Seq(ULT) BY <1>1 DEF TypeOK
  <2>3. Veces(BLOCKED_LIST[s], u) > 0 BY <2>1, <2>2, ListaCuenta
  <2>4. QED BY <2>3
<1>4. CASE joinTo[u] # {}
  <2>1. PICK t : t \in joinTo[u] BY <1>4
  <2>2. t \in Tid /\ u[1] \in Proc BY <1>1, <2>1 DEF TypeOK, ULT
  <2>3. Espera(u, t) BY <1>1, <2>1 DEF JoinInv, Parado, EnULTS
  <2>4. estado[<<u[1], t>>] \in {E_READY, E_EXECUTE, E_BLOCKED, E_NEW}
    <3>1. <<u[1], t>> \in ULT /\ estado[<<u[1], t>>] \in Estados
      BY <1>1, <2>2 DEF TypeOK, ULT
    <3>2. QED BY <1>1, <2>3, <3>1 DEF Espera, EnULTS, Estados, ExitInv
  <2>5. QED BY <2>1, <2>3, <2>4 DEF Espera
<1>5. QED BY <1>2, <1>3, <1>4

\* A ULT that join or suse_wait blocked is never forgotten, whatever its client does:
\* while it is BLOCKED it is in the list of a semaphore, or it joins a ULT that is alive and
\* has it in joinedBy, or desjoinear is waking it (join, decrementar_semaforo, close).
THEOREM BloqueadosDespiertan == Spec => []BloqueadoTieneDespertador
<1>1. DespertarInv /\ [Next]_vars => DespertarInv' BY DespertarPaso
<1>2. QED BY <1>1, DespertarInicial, DespertarBasta, PTL DEF Spec

-----------------------------------------------------------------------------
(* Orderly clients, until a next_tid crosses an admission: the queues      *)
(* agree with the estado of each ULT, no freed ULT is used, admissions are *)
(* in order and the server implements the life cycle of SuseCiclo.         *)

\* The clients that SUSE is written for: they close a ULT that is ready or running, their
\* main last, and only the running ULT waits.
Ordenados ==
  /\ EstadosCerrables \subseteq {E_READY, E_EXECUTE} /\ MainCierraUltimo /\ ~ EsperaSinEjecutar

Uno(c) == IF c THEN 1 ELSE 0

\* EXEC_THREAD, blocked_queue and exit_queue hold what the estado of each ULT says.
EnColas ==
  \A u \in ULT : /\ EXEC_THREAD[u[1]] = u[2] <=> estado[u] = E_EXECUTE
                 /\ estado[u] = E_BLOCKED => blocked_queue[u] > 0
                 /\ estado[u] = Liberado => u[2] = Main
                 /\ u \in exit_queue <=> estado[u] = E_EXIT

\* READY_LIST holds the READY ULTs and the one that is being admitted.
EnListas == \A u \in ULT : READY_LIST[u] = Uno(estado[u] = E_READY \/ EnAdmision(u))

\* new_queue holds the ULTs that are NEW, each one once.
EnNew ==
  /\ \A i, j \in 1 .. Len(new_queue) : new_queue[i] = new_queue[j] => i = j
  /\ \A u \in ULT : (\E i \in 1 .. Len(new_queue) : new_queue[i] = u) <=> estado[u] = E_NEW

\* The lists of the semaphores hold BLOCKED ULTs, each one at most once in all of them.
EnSem ==
  \A s \in Sem : \A i \in 1 .. Len(BLOCKED_LIST[s]) :
    /\ estado[BLOCKED_LIST[s][i]] = E_BLOCKED
    /\ \A r \in Sem : \A j \in 1 .. Len(BLOCKED_LIST[r]) :
         BLOCKED_LIST[s][i] = BLOCKED_LIST[r][j] => s = r /\ i = j

\* The i-th joiner of t is still to be woken: t is alive, and if it is closing, desjoinear
\* has not done with that joiner.
Pendiente(p, t, i) ==
  /\ i \in 1 .. Len(joinedBy[<<p, t>>])
  /\ estado[<<p, t>>] \notin {E_EXIT, Liberado}
  /\ pc[p] \in EnCierre /\ req[p].tid = t =>
       pc[p] \in EnDesj \cup {"desjoinear"} /\ req[p].i <= i
Joiner(p, t, i) == <<p, joinedBy[<<p, t>>][i]>>

\* Such a joiner is BLOCKED, by that join and by nothing else.
EnJoin ==
  \A p \in Proc, t \in Tid : \A i \in Nat : Pendiente(p, t, i) =>
    /\ estado[Joiner(p, t, i)] = E_BLOCKED
    /\ \A s \in Sem : \A k \in 1 .. Len(BLOCKED_LIST[s]) : BLOCKED_LIST[s][k] # Joiner(p, t, i)
    /\ \A x \in Tid : \A j \in Nat :
         Pendiente(p, x, j) /\ Joiner(p, x, j) = Joiner(p, t, i) => x = t /\ j = i

\* What a handler relies on between its steps, that no other handler undoes.
EnHilo(p) ==
  /\ pc[p] \notin {"caido", "close_new", "close_new_cs", "close_blocked", "close_blocked_2",
                   "close_blocked_cs"}
  /\ estado[<<p, Main>>] = SinCrear => \A t \in Tid : estado[<<p, t>>] = SinCrear
  /\ pc[p] \in {"create", "create_admite"} =>
       /\ estado[<<p, req[p].tid>>] \in {E_NEW, E_READY}
       /\ req[p].tid = Main => \A t \in Tid \ {Main} : estado[<<p, t>>] = SinCrear
  /\ pc[p] \in {"wait", "wait_sem"} => EXEC_THREAD[p] = curr[p]
  /\ pc[p] = "sem_ready" => EXEC_THREAD[p] = SinULT
  /\ pc[p] \in EnDesj \cup {"desjoinear"} => estado[<<p, req[p].tid>>] \in {E_READY, E_EXECUTE}
  /\ pc[p] \in {"close_ready", "close_ready_cs"} => estado[<<p, req[p].tid>>] = E_READY
  /\ pc[p] \in {"close_exec", "close_exec_cs"} => estado[<<p, req[p].tid>>] = E_EXECUTE
  /\ pc[p] = "fifo_listo" =>
       new_queue # <<>> /\ req[p].th = Head(new_queue) /\ req[p].leido = E_NEW

OrdenInv == EnColas /\ EnListas /\ EnNew /\ EnSem /\ EnJoin /\ \A p \in Proc : EnHilo(p)

Admitidos == {u \in ULT : Admitido(u)}
CuentaInv == IsFiniteSet(Admitidos) /\ Cardinality(Admitidos) <= ACTUAL_MULTIPROG

\* Every READY ULT has a token (ReadyTieneToken).
TokenInv == \A p \in Proc : Cardinality(Listos(p)) <= semaforoReady[p]

NuevosEnAlta == \A i \in 1 .. Len(new_queue) : EnAlta(new_queue[i])
EsperaInv ==
  /\ \A p \in Proc : pc[p] = "desj_nuevo" => ACTUAL_MULTIPROG >= MAX_MULTIPROG
  /\ ACTUAL_MULTIPROG < MAX_MULTIPROG /\ (\A p \in Proc : pc[p] \notin {"fifo", "fifo_listo"})
       => NuevosEnAlta
  /\ ACTUAL_MULTIPROG < MAX_MULTIPROG - 1 => NuevosEnAlta

-----------------------------------------------------------------------------
(* The steps                                                               *)

\* The changes of estado that orderly clients bring about. A ULT that the FIFO of another
\* process has admitted is admitted again by its own create.
Diagrama ==
  {<<SinCrear, E_NEW>>, <<E_NEW, E_READY>>, <<E_NEW, E_EXECUTE>>, <<E_READY, E_READY>>,
   <<E_READY, E_EXECUTE>>, <<E_EXECUTE, E_READY>>, <<E_EXECUTE, E_BLOCKED>>,
   <<E_BLOCKED, E_READY>>, <<E_BLOCKED, E_NEW>>, <<E_READY, E_EXIT>>,
   <<E_EXECUTE, E_EXIT>>, <<E_EXECUTE, Liberado>>}

Ocupa(e) == e \in {E_READY, E_EXECUTE, E_BLOCKED}

\* u goes to e, and the queues, tokens and slots follow it.
Mueve(u, e) ==
  /\ u \in ULT /\ <<estado[u], e>> \in Diagrama /\ estado' = [estado EXCEPT ![u] = e]
  /\ \A x \in ULT : READY_LIST'[x] = IF x = u THEN Uno(e = E_READY) ELSE READY_LIST[x]
  /\ \A p \in Proc \ {u[1]} : /\ EXEC_THREAD'[p] = EXEC_THREAD[p]
                              /\ semaforoReady'[p] = semaforoReady[p]
  /\ EXEC_THREAD'[u[1]] = IF e = E_EXECUTE THEN u[2]
                          ELSE IF estado[u] = E_EXECUTE THEN SinULT ELSE EXEC_THREAD[u[1]]
  /\ e = E_EXECUTE => EXEC_THREAD[u[1]] = SinULT
  /\ new_queue' = IF e = E_NEW THEN Append(new_queue, u)
                  ELSE IF estado[u] = E_NEW THEN RemoveFirst(new_queue, u) ELSE new_queue
  /\ \A x \in ULT \ {u} : blocked_queue'[x] = blocked_queue[x]
  /\ e = E_BLOCKED => blocked_queue'[u] > 0
  /\ e = Liberado => u[2] = Main
  /\ exit_queue' = IF e = E_EXIT THEN exit_queue \cup {u} ELSE exit_queue
  /\ \/ semaforoReady'[u[1]] + Uno(estado[u] = E_READY) >= semaforoReady[u[1]] + Uno(e = E_READY)
     \/ Listos(u[1])' = {}
  /\ ACTUAL_MULTIPROG' + Uno(Ocupa(estado[u])) >= ACTUAL_MULTIPROG + Uno(Ocupa(e))

\* What it does to the lists of the semaphores and of the joiners.
EnNinguna(u) == \A s \in Sem : \A i \in 1 .. Len(BLOCKED_LIST[s]) : BLOCKED_LIST[s][i] # u
SemIgual(u) == BLOCKED_LIST' = BLOCKED_LIST /\ (estado[u] = E_BLOCKED => EnNinguna(u))
SemEntra(u, e) ==
  /\ e = E_BLOCKED
  /\ \E s \in Sem : BLOCKED_LIST' = [BLOCKED_LIST EXCEPT ![s] = Append(@, u)]
SemSale(u) ==
  /\ estado[u] = E_BLOCKED
  /\ \E s \in Sem : /\ BLOCKED_LIST[s] # <<>> /\ u = Head(BLOCKED_LIST[s])
                    /\ BLOCKED_LIST' = [BLOCKED_LIST EXCEPT ![s] = Tail(@)]
                    /\ VALUE'[s] = VALUE[s] + 1
SemLista(u, e) == SemIgual(u) \/ SemEntra(u, e) \/ SemSale(u)

\* Nothing of that changes, except that a sem_wait finds no ULT.
Quieto ==
  /\ UNCHANGED <<estado, EXEC_THREAD, new_queue, blocked_queue, exit_queue, BLOCKED_LIST,
                 ACTUAL_MULTIPROG, joinedBy>>
  /\ \A p \in Proc : semaforoReady'[p] = semaforoReady[p] \/ Listos(p) = {}

LEMMA ULTEs ==
  /\ \A u \in ULT : u[1] \in Proc /\ u[2] \in Tid /\ u = <<u[1], u[2]>>
  /\ \A p \in Proc, t \in Tid : <<p, t>> \in ULT
BY DEF ULT

LEMMA NombresDistintos ==
  /\ E_NEW \notin {E_READY, E_EXECUTE, E_BLOCKED, E_EXIT, SinCrear, Liberado}
  /\ E_READY \notin {E_EXECUTE, E_BLOCKED, E_EXIT, SinCrear, Liberado}
  /\ E_EXECUTE \notin {E_BLOCKED, E_EXIT, SinCrear, Liberado}
  /\ E_BLOCKED \notin {E_EXIT, SinCrear, Liberado}
  /\ E_EXIT \notin {SinCrear, Liberado} /\ SinCrear # Liberado
BY DEF E_NEW, E_READY, E_EXECUTE, E_BLOCKED, E_EXIT, SinCrear, Liberado

-----------------------------------------------------------------------------
(* Queues                                                                  *)

LEMMA MueveColas ==
  ASSUME TypeOK, EnColas, NEW u, NEW e, Mueve(u, e)
  PROVE  EnColas'
<1>1. SUFFICES ASSUME NEW x \in ULT
               PROVE  /\ EXEC_THREAD'[x[1]] = x[2] <=> estado'[x] = E_EXECUTE
                      /\ estado'[x] = E_BLOCKED => blocked_queue'[x] > 0
                      /\ estado'[x] = Liberado => x[2] = Main
                      /\ x \in exit_queue' <=> estado'[x] = E_EXIT
  BY DEF EnColas
<1>2. /\ u \in ULT /\ estado'[u] = e /\ estado \in [ULT -> Estados]
      /\ x # u => estado'[x] = estado[x]
  BY DEF Mueve, TypeOK
<1>3. /\ EXEC_THREAD[x[1]] = x[2] <=> estado[x] = E_EXECUTE
      /\ estado[x] = E_BLOCKED => blocked_queue[x] > 0
      /\ estado[x] = Liberado => x[2] = Main
      /\ x \in exit_queue <=> estado[x] = E_EXIT
      /\ EXEC_THREAD[u[1]] = u[2] <=> estado[u] = E_EXECUTE
  BY <1>2 DEF EnColas
<1>4. /\ u[1] \in Proc /\ u[2] \in Tid /\ u = <<u[1], u[2]>> /\ SinULT \notin Tid
      /\ x[1] \in Proc /\ x[2] \in Tid /\ x = <<x[1], x[2]>>
  BY <1>2, ULTEs, MainEnTid
<1>5. CASE x = u
  <2>1. u \in exit_queue' <=> e = E_EXIT
    <3>1. estado[u] # E_EXIT BY NombresDistintos DEF Mueve, Diagrama
    <3>2. QED BY <1>3, <1>5, <3>1 DEF Mueve
  <2>2. EXEC_THREAD'[u[1]] = u[2] <=> e = E_EXECUTE
    BY <1>3, <1>4 DEF Mueve
  <2>3. QED BY <1>2, <1>5, <2>1, <2>2 DEF Mueve
<1>6. CASE x # u
  <2>1. blocked_queue'[x] = blocked_queue[x] /\ (x \in exit_queue' <=> x \in exit_queue)
    BY <1>6 DEF Mueve
  <2>2. CASE x[1] # u[1] BY <1>2, <1>3, <1>4, <1>6, <2>1, <2>2 DEF Mueve
  <2>3. CASE x[1] = u[1]
    <3>1. x[2] # u[2] BY <1>4, <1>6, <2>3
    <3>2. EXEC_THREAD'[u[1]] = x[2] <=> EXEC_THREAD[u[1]] = x[2]
      BY <1>3, <1>4, <3>1 DEF Mueve
    <3>3. QED BY <1>2, <1>3, <1>6, <2>1, <2>3, <3>2
  <2>4. QED BY <2>2, <2>3
<1>7. QED BY <1>5, <1>6

\* new_queue without its first u, or with u at the end.
LEMMA SinPrimero ==
  ASSUME NEW q \in Seq(ULT), NEW k \in 1 .. Len(q),
         \A i, j \in 1 .. Len(q) : q[i] = q[j] => i = j
  PROVE  LET r == RemoveFirst(q, q[k]) IN
         /\ r = RemoveAt(q, k) /\ Len(r) = Len(q) - 1
         /\ \A i \in 1 .. Len(r) : r[i] = IF i < k THEN q[i] ELSE q[i + 1]
<1>1. Len(q) \in Nat BY LenProperties
<1>2. PICK m \in 1 .. Len(q) : q[m] = q[k] /\ RemoveFirst(q, q[k]) = RemoveAt(q, m)
  BY RemoveFirstProps
<1>3. m = k BY <1>2
<1>4. RemoveFirst(q, q[k]) = RemoveAt(q, k) BY <1>2, <1>3
<1>5. PICK r : r = RemoveAt(q, k) OBVIOUS
<1>6. /\ Len(r) = Len(q) - 1
      /\ \A i \in 1 .. (Len(q) - 1) : r[i] = IF i < k THEN q[i] ELSE q[i + 1]
  BY <1>5, RemoveAtProps
<1>7. \A i \in 1 .. Len(r) : r[i] = IF i < k THEN q[i] ELSE q[i + 1] BY <1>6
<1>8. QED BY <1>4, <1>5, <1>6, <1>7

LEMMA MueveNew ==
  ASSUME TypeOK, EnNew, NEW u, NEW e, Mueve(u, e)
  PROVE  EnNew'
<1> DEFINE q == new_queue
           n == Len(new_queue)
<1>1. /\ q \in Seq(ULT) /\ n \in Nat /\ u \in ULT
      /\ \A i \in 1 .. n : q[i] \in ULT
  BY LenProperties, ElementOfSeq DEF TypeOK, Mueve
<1>2. /\ estado'[u] = e /\ \A x \in ULT : x # u => estado'[x] = estado[x]
  BY DEF Mueve, TypeOK
<1>3. /\ \A i, j \in 1 .. n : q[i] = q[j] => i = j
      /\ \A x \in ULT : (\E i \in 1 .. n : q[i] = x) <=> estado[x] = E_NEW
  BY DEF EnNew
<1>4. CASE e = E_NEW
  <2>1. estado[u] # E_NEW BY <1>4, NombresDistintos DEF Mueve, Diagrama
  <2>2. /\ Len(new_queue') = n + 1 /\ new_queue'[n + 1] = u
        /\ \A i \in 1 .. n : new_queue'[i] = q[i]
    BY <1>1, <1>4, AppendProperties DEF Mueve
  <2>3. \A i \in 1 .. n : q[i] # u BY <1>1, <1>3, <2>1
  <2>4. \A i, j \in 1 .. n + 1 : new_queue'[i] = new_queue'[j] => i = j
    <3>1. SUFFICES ASSUME NEW i \in 1 .. n + 1, NEW j \in 1 .. n + 1, new_queue'[i] = new_queue'[j]
                   PROVE  i = j
      OBVIOUS
    <3>2. (i \in 1 .. n \/ i = n + 1) /\ (j \in 1 .. n \/ j = n + 1) BY <1>1
    <3>3. QED BY <1>3, <2>2, <2>3, <3>1, <3>2
  <2>5. ASSUME NEW x \in ULT
        PROVE  (\E i \in 1 .. n + 1 : new_queue'[i] = x) <=> estado'[x] = E_NEW
    <3>1. CASE x = u BY <1>1, <1>2, <1>4, <2>2, <3>1
    <3>2. CASE x # u
      <4>1. (\E i \in 1 .. n + 1 : new_queue'[i] = x) <=> \E i \in 1 .. n : q[i] = x
        <5>1. \A i \in 1 .. n + 1 : i \in 1 .. n \/ i = n + 1 BY <1>1
        <5>2. \A i \in 1 .. n : i \in 1 .. n + 1 BY <1>1
        <5>3. QED BY <2>2, <3>2, <5>1, <5>2
      <4>2. QED BY <1>2, <1>3, <3>2, <4>1
    <3>3. QED BY <3>1, <3>2
  <2>6. QED BY <2>2, <2>4, <2>5 DEF EnNew
<1>5. CASE e # E_NEW /\ estado[u] = E_NEW
  <2>1. PICK k \in 1 .. n : q[k] = u BY <1>1, <1>3, <1>5
  <2>2. new_queue' = RemoveFirst(q, q[k]) BY <1>5, <2>1 DEF Mueve
  <2>3. /\ Len(new_queue') = n - 1
        /\ \A i \in 1 .. n - 1 : new_queue'[i] = IF i < k THEN q[i] ELSE q[i + 1]
    <3>1. q \in Seq(ULT) /\ k \in 1 .. Len(q) /\ \A i, j \in 1 .. Len(q) : q[i] = q[j] => i = j
      BY <1>1, <1>3
    <3> HIDE DEF q
    <3>2. /\ Len(RemoveFirst(q, q[k])) = Len(q) - 1
          /\ \A i \in 1 .. Len(q) - 1 :
               RemoveFirst(q, q[k])[i] = IF i < k THEN q[i] ELSE q[i + 1]
      BY <3>1, SinPrimero
    <3>3. QED BY <2>2, <3>2 DEF q
  <2> DEFINE V(i) == IF i < k THEN i ELSE i + 1
  <2>4. /\ \A i \in 1 .. n - 1 : V(i) \in 1 .. n /\ V(i) # k /\ new_queue'[i] = q[V(i)]
        /\ \A i, j \in 1 .. n - 1 : V(i) = V(j) => i = j
    BY <1>1, <2>3
  <2>5. \A m \in 1 .. n : m # k => \E i \in 1 .. n - 1 : V(i) = m
    <3>1. SUFFICES ASSUME NEW m \in 1 .. n, m # k PROVE \E i \in 1 .. n - 1 : V(i) = m
      OBVIOUS
    <3>2. CASE m < k
      <4>1. m \in 1 .. n - 1 /\ V(m) = m BY <1>1, <3>2
      <4>2. QED BY <4>1
    <3>3. CASE ~ (m < k)
      <4>1. m - 1 \in 1 .. n - 1 /\ V(m - 1) = m BY <1>1, <3>1, <3>3
      <4>2. QED BY <4>1
    <3>4. QED BY <3>2, <3>3
  <2> HIDE DEF V
  <2>6. \A i, j \in 1 .. n - 1 : new_queue'[i] = new_queue'[j] => i = j BY <1>3, <2>4
  <2>7. ASSUME NEW x \in ULT
        PROVE  (\E i \in 1 .. n - 1 : new_queue'[i] = x) <=> estado'[x] = E_NEW
    <3>1. CASE x = u BY <1>2, <1>3, <1>5, <2>1, <2>4, <3>1
    <3>2. CASE x # u
      <4>1. (\E i \in 1 .. n - 1 : new_queue'[i] = x) <=> \E i \in 1 .. n : q[i] = x
        BY ZenonT(60), <2>1, <2>4, <2>5, <3>2
      <4>2. QED BY <1>2, <1>3, <3>2, <4>1
    <3>3. QED BY <3>1, <3>2
  <2>8. QED BY <2>3, <2>6, <2>7 DEF EnNew
<1>6. CASE e # E_NEW /\ estado[u] # E_NEW
  <2>1. new_queue' = q BY <1>6 DEF Mueve
  <2>2. \A x \in ULT : estado'[x] = E_NEW <=> estado[x] = E_NEW BY <1>2, <1>6
  <2>3. QED BY <2>1, <2>2 DEF EnNew
<1>7. QED BY <1>4, <1>5, <1>6

LEMMA SemElementos ==
  ASSUME TypeOK
  PROVE  \A s \in Sem : /\ BLOCKED_LIST[s] \in Seq(ULT) /\ Len(BLOCKED_LIST[s]) \in Nat
                        /\ \A i \in 1 .. Len(BLOCKED_LIST[s]) : BLOCKED_LIST[s][i] \in ULT
BY LenProperties, ElementOfSeq DEF TypeOK

LEMMA MueveSem ==
  ASSUME TypeOK, EnSem, NEW u, NEW e, Mueve(u, e), SemLista(u, e)
  PROVE  EnSem'
<1>1. /\ u \in ULT /\ estado'[u] = e /\ \A x \in ULT : x # u => estado'[x] = estado[x]
  BY DEF Mueve, TypeOK
<1>2. \A s \in Sem : /\ BLOCKED_LIST[s] \in Seq(ULT) /\ Len(BLOCKED_LIST[s]) \in Nat
                     /\ \A i \in 1 .. Len(BLOCKED_LIST[s]) : BLOCKED_LIST[s][i] \in ULT
  BY SemElementos
<1>d. \A s \in Sem : \A i \in 1 .. Len(BLOCKED_LIST[s]) :
        \A r \in Sem : \A j \in 1 .. Len(BLOCKED_LIST[r]) :
          BLOCKED_LIST[s][i] = BLOCKED_LIST[r][j] => s = r /\ i = j
  BY DEF EnSem
<1>3. CASE SemIgual(u)
  <2>1. \A s \in Sem : \A i \in 1 .. Len(BLOCKED_LIST[s]) : BLOCKED_LIST[s][i] # u
    BY <1>3 DEF SemIgual, EnNinguna, EnSem
  <2>2. QED BY <1>1, <1>2, <1>3, <2>1 DEF SemIgual, EnSem
<1>4. CASE SemEntra(u, e)
  <2>1. estado[u] = E_EXECUTE /\ e = E_BLOCKED
    BY <1>4, NombresDistintos DEF SemEntra, Mueve, Diagrama
  <2>2. PICK s \in Sem : BLOCKED_LIST' = [BLOCKED_LIST EXCEPT ![s] = Append(@, u)]
    BY <1>4 DEF SemEntra
  <2> DEFINE n == Len(BLOCKED_LIST[s])
  <2>3. \A r \in Sem \ {s} : BLOCKED_LIST'[r] = BLOCKED_LIST[r] BY <2>2 DEF TypeOK
  <2>4. /\ Len(BLOCKED_LIST'[s]) = n + 1 /\ BLOCKED_LIST'[s][n + 1] = u
        /\ \A i \in 1 .. n : BLOCKED_LIST'[s][i] = BLOCKED_LIST[s][i]
    <3>1. BLOCKED_LIST'[s] = Append(BLOCKED_LIST[s], u) BY <2>2 DEF TypeOK
    <3>2. QED BY <1>1, <1>2, <3>1, AppendProperties
  <2>5. \A r \in Sem : \A i \in 1 .. Len(BLOCKED_LIST[r]) :
          BLOCKED_LIST[r][i] # u /\ estado'[BLOCKED_LIST[r][i]] = E_BLOCKED
    BY <1>1, <1>2, <2>1, NombresDistintos DEF EnSem
  <2>6. SUFFICES ASSUME NEW r \in Sem, NEW i \in 1 .. Len(BLOCKED_LIST'[r])
                 PROVE  /\ estado'[BLOCKED_LIST'[r][i]] = E_BLOCKED
                        /\ \A x \in Sem : \A j \in 1 .. Len(BLOCKED_LIST'[x]) :
                             BLOCKED_LIST'[r][i] = BLOCKED_LIST'[x][j] => r = x /\ i = j
    BY DEF EnSem
  <2>7. n \in Nat BY <1>2
  <2>8. \A x \in Sem : \A j \in 1 .. Len(BLOCKED_LIST'[x]) :
          \/ x = s /\ j = n + 1 /\ BLOCKED_LIST'[x][j] = u
          \/ j \in 1 .. Len(BLOCKED_LIST[x]) /\ BLOCKED_LIST'[x][j] = BLOCKED_LIST[x][j]
    <3>1. SUFFICES ASSUME NEW x \in Sem, NEW j \in 1 .. Len(BLOCKED_LIST'[x])
                   PROVE  \/ x = s /\ j = n + 1 /\ BLOCKED_LIST'[x][j] = u
                          \/ /\ j \in 1 .. Len(BLOCKED_LIST[x])
                             /\ BLOCKED_LIST'[x][j] = BLOCKED_LIST[x][j]
      OBVIOUS
    <3>2. CASE x # s BY <2>3, <3>2
    <3>3. CASE x = s
      <4>1. j \in 1 .. n \/ j = n + 1 BY <2>4, <2>7, <3>3
      <4>2. QED BY <2>4, <3>3, <4>1
    <3>4. QED BY <3>2, <3>3
  <2> HIDE DEF n
  <2>9. estado'[BLOCKED_LIST'[r][i]] = E_BLOCKED BY <1>1, <2>1, <2>5, <2>8
  <2>10. ASSUME NEW x \in Sem, NEW j \in 1 .. Len(BLOCKED_LIST'[x]),
                BLOCKED_LIST'[r][i] = BLOCKED_LIST'[x][j]
         PROVE  r = x /\ i = j
    <3>1. CASE r = s /\ i = n + 1 /\ BLOCKED_LIST'[r][i] = u
      <4>1. ~ (j \in 1 .. Len(BLOCKED_LIST[x]) /\ BLOCKED_LIST'[x][j] = BLOCKED_LIST[x][j])
        BY <2>5, <2>10, <3>1
      <4>2. QED BY <2>8, <3>1, <4>1
    <3>2. CASE i \in 1 .. Len(BLOCKED_LIST[r]) /\ BLOCKED_LIST'[r][i] = BLOCKED_LIST[r][i]
      <4>1. BLOCKED_LIST'[r][i] # u BY <2>5, <3>2
      <4>2. j \in 1 .. Len(BLOCKED_LIST[x]) /\ BLOCKED_LIST'[x][j] = BLOCKED_LIST[x][j]
        BY <2>8, <2>10, <4>1
      <4>3. BLOCKED_LIST[r][i] = BLOCKED_LIST[x][j] BY <2>10, <3>2, <4>2
      <4>4. QED BY <1>d, <3>2, <4>2, <4>3
    <3>3. QED BY <2>8, <3>1, <3>2
  <2>11. QED BY <2>9, <2>10
<1>5. CASE SemSale(u)
  <2>1. PICK s \in Sem : /\ BLOCKED_LIST[s] # <<>> /\ u = Head(BLOCKED_LIST[s])
                         /\ BLOCKED_LIST' = [BLOCKED_LIST EXCEPT ![s] = Tail(@)]
    BY <1>5 DEF SemSale
  <2> DEFINE n == Len(BLOCKED_LIST[s])
  <2>2. \A r \in Sem \ {s} : BLOCKED_LIST'[r] = BLOCKED_LIST[r] BY <2>1 DEF TypeOK
  <2>3. /\ n \in Nat \ {0} /\ BLOCKED_LIST[s][1] = u /\ Len(BLOCKED_LIST'[s]) = n - 1
        /\ \A i \in 1 .. n - 1 : BLOCKED_LIST'[s][i] = BLOCKED_LIST[s][i + 1]
    <3>1. BLOCKED_LIST'[s] = Tail(BLOCKED_LIST[s]) BY <2>1 DEF TypeOK
    <3>2. BLOCKED_LIST[s] \in Seq(ULT) BY <1>2
    <3>3. n \in Nat \ {0} BY <1>2, <2>1, <3>2, EmptySeq
    <3> DEFINE q == BLOCKED_LIST[s]
    <3>4. q \in Seq(ULT) /\ q # <<>> BY <2>1, <3>2
    <3> HIDE DEF q
    <3>5. /\ Head(q) = q[1] /\ Tail(q) \in Seq(ULT) /\ Len(Tail(q)) = Len(q) - 1
          /\ \A i \in 1 .. Len(Tail(q)) : Tail(q)[i] = q[i + 1]
      BY <3>4, HeadTailProperties
    <3>6. QED BY <2>1, <3>1, <3>3, <3>5 DEF q
  <2> DEFINE V(x, j) == IF x = s THEN j + 1 ELSE j
  <2>4. \A x \in Sem : \A j \in 1 .. Len(BLOCKED_LIST'[x]) :
          /\ V(x, j) \in 1 .. Len(BLOCKED_LIST[x])
          /\ BLOCKED_LIST'[x][j] = BLOCKED_LIST[x][V(x, j)]
          /\ x = s => V(x, j) # 1
    <3>1. SUFFICES ASSUME NEW x \in Sem, NEW j \in 1 .. Len(BLOCKED_LIST'[x])
                   PROVE  /\ V(x, j) \in 1 .. Len(BLOCKED_LIST[x])
                          /\ BLOCKED_LIST'[x][j] = BLOCKED_LIST[x][V(x, j)]
                          /\ x = s => V(x, j) # 1
      OBVIOUS
    <3>2. CASE x # s BY <2>2, <3>2
    <3>3. CASE x = s BY <2>3, <3>3
    <3>4. QED BY <3>2, <3>3
  <2>5. ASSUME NEW x \in Sem, NEW i \in 1 .. Len(BLOCKED_LIST'[x]),
               NEW j \in 1 .. Len(BLOCKED_LIST'[x]), V(x, i) = V(x, j)
        PROVE  i = j
    <3>1. Len(BLOCKED_LIST'[x]) \in Int
      <4>1. CASE x # s BY <1>2, <2>2, <4>1
      <4>2. CASE x = s BY <2>3, <4>2
      <4>3. QED BY <4>1, <4>2
    <3>2. QED BY <2>5, <3>1
  <2> HIDE DEF V, n
  <2>6. \A x \in Sem : \A j \in 1 .. Len(BLOCKED_LIST'[x]) :
          BLOCKED_LIST'[x][j] # u /\ BLOCKED_LIST'[x][j] \in ULT
    <3>1. 1 \in 1 .. Len(BLOCKED_LIST[s]) BY <2>3 DEF n
    <3>2. QED BY SMTT(60), <1>2, <2>3, <2>4, <3>1 DEF EnSem
  <2>7. \A x \in Sem : \A j \in 1 .. Len(BLOCKED_LIST'[x]) :
          estado'[BLOCKED_LIST'[x][j]] = E_BLOCKED
    BY <1>1, <2>4, <2>6 DEF EnSem
  <2>8. ASSUME NEW r \in Sem, NEW i \in 1 .. Len(BLOCKED_LIST'[r]),
               NEW x \in Sem, NEW j \in 1 .. Len(BLOCKED_LIST'[x]),
               BLOCKED_LIST'[r][i] = BLOCKED_LIST'[x][j]
        PROVE  r = x /\ i = j
    <3>1. /\ V(r, i) \in 1 .. Len(BLOCKED_LIST[r]) /\ V(x, j) \in 1 .. Len(BLOCKED_LIST[x])
          /\ BLOCKED_LIST[r][V(r, i)] = BLOCKED_LIST[x][V(x, j)]
      BY <2>4, <2>8
    <3> DEFINE a == V(r, i)
               b == V(x, j)
    <3> HIDE DEF a, b
    <3>2. r = x /\ a = b
      <4>1. /\ a \in 1 .. Len(BLOCKED_LIST[r]) /\ b \in 1 .. Len(BLOCKED_LIST[x])
            /\ BLOCKED_LIST[r][a] = BLOCKED_LIST[x][b]
        BY <3>1 DEF a, b
      <4>2. QED BY <1>d, <4>1
    <3>3. r = x /\ V(r, i) = V(x, j) BY <3>2 DEF a, b
    <3>4. QED BY <2>5, <3>3
  <2>9. QED BY <2>7, <2>8 DEF EnSem
<1>6. QED BY <1>3, <1>4, <1>5 DEF SemLista

\* Tokens: who becomes READY is posted, and a token is taken with a READY ULT.
LEMMA MueveTokens ==
  ASSUME TypeOK, TypeOK', TokenInv, NEW u, NEW e, Mueve(u, e)
  PROVE  TokenInv'
<1>1. /\ u \in ULT /\ u[1] \in Proc /\ u[2] \in Tid /\ u = <<u[1], u[2]>> BY ULTEs DEF Mueve
<1>2. \A p \in Proc : /\ IsFiniteSet(Listos(p)) /\ Cardinality(Listos(p)) \in Nat
                      /\ semaforoReady[p] \in Nat /\ semaforoReady'[p] \in Nat
                      /\ Cardinality(Listos(p)) <= semaforoReady[p]
  <2>1. IsFiniteSet(Tid)
    <3>1. MaxTid \in Int /\ 0 \in Int BY SusAssumption DEF SusAssumption
    <3>2. QED BY <3>1, FS_Interval DEF Tid
  <2>2. \A p \in Proc : Listos(p) \in SUBSET Tid BY DEF Listos
  <2>3. \A p \in Proc : IsFiniteSet(Listos(p)) BY <2>1, <2>2, FS_Subset
  <2>4. QED BY <2>3, FS_CardinalityType DEF TypeOK, TokenInv
<1>6. /\ estado'[u] = e
      /\ \A x \in ULT : x # u => estado'[x] = estado[x]
  BY DEF Mueve, TypeOK
<1>3. ASSUME NEW p \in Proc \ {u[1]} PROVE Cardinality(Listos(p)') <= semaforoReady'[p]
  <2>1. \A t \in Tid : <<p, t>> \in ULT /\ <<p, t>> # u BY <1>1, <1>3, ULTEs
  <2>2. Listos(p)' = Listos(p) BY <1>6, <2>1 DEF Listos
  <2>3. QED BY <1>2, <2>2 DEF Mueve
<1>4. Cardinality(Listos(u[1])') <= semaforoReady'[u[1]]
  <2> DEFINE L == Listos(u[1])
             M == Listos(u[1])'
             a == semaforoReady[u[1]]
             b == semaforoReady'[u[1]]
  <2>1. /\ IsFiniteSet(L) /\ Cardinality(L) \in Nat /\ a \in Nat /\ b \in Nat
        /\ Cardinality(L) <= a
    BY <1>1, <1>2
  <2>2. u[2] \in L <=> estado[u] = E_READY BY <1>1 DEF Listos
  <2>3. M = IF e = E_READY THEN L \cup {u[2]} ELSE L \ {u[2]}
    <3>1. \A t \in Tid : /\ <<u[1], t>> \in ULT
                         /\ <<u[1], t>> = u <=> t = u[2]
      BY <1>1, ULTEs
    <3>2. \A t \in Tid : t \in M <=> IF t = u[2] THEN e = E_READY ELSE t \in L
      BY <1>1, <1>6, <3>1 DEF Listos
    <3>3. L \subseteq Tid /\ M \subseteq Tid BY DEF Listos
    <3> HIDE DEF L, M
    <3>4. QED BY <1>1, <3>2, <3>3
  <2>8. b + Uno(estado[u] = E_READY) >= a + Uno(e = E_READY) \/ M = {}
    BY DEF Mueve
  <2> HIDE DEF L, M, a, b
  <2>4. CASE M = {} BY <2>1, <2>4, FS_EmptySet DEF M, b
  <2>5. CASE M # {} /\ e = E_READY
    <3>1. Cardinality(M) = IF u[2] \in L THEN Cardinality(L) ELSE Cardinality(L) + 1
      BY <2>1, <2>3, <2>5, FS_AddElement
    <3>2. b + Uno(estado[u] = E_READY) >= a + 1 BY <2>8, <2>5 DEF Uno
    <3>3. CASE u[2] \in L BY <2>1, <2>2, <3>1, <3>2, <3>3 DEF Uno, M, b
    <3>4. CASE u[2] \notin L BY <2>1, <2>2, <3>1, <3>2, <3>4 DEF Uno, M, b
    <3>5. QED BY <3>3, <3>4
  <2>6. CASE M # {} /\ e # E_READY
    <3>1. Cardinality(M) = IF u[2] \in L THEN Cardinality(L) - 1 ELSE Cardinality(L)
      BY <2>1, <2>3, <2>6, FS_RemoveElement
    <3>2. b + Uno(estado[u] = E_READY) >= a + 0 BY <2>8, <2>6 DEF Uno
    <3>3. CASE u[2] \in L BY <2>1, <2>2, <3>1, <3>2, <3>3 DEF Uno, M, b
    <3>4. CASE u[2] \notin L BY <2>1, <2>2, <3>1, <3>2, <3>4 DEF Uno, M, b
    <3>5. QED BY <3>3, <3>4
  <2>7. QED BY <2>4, <2>5, <2>6
<1>5. QED BY <1>3, <1>4 DEF TokenInv

\* Slots: every admitted ULT has one, counted when it was admitted.
LEMMA MueveCuenta ==
  ASSUME TypeOK, TypeOK', CuentaInv, NEW u, NEW e, Mueve(u, e)
  PROVE  CuentaInv'
<1> DEFINE S == Admitidos
           T == Admitidos'
           a == ACTUAL_MULTIPROG
           b == ACTUAL_MULTIPROG'
<1>1. /\ u \in ULT /\ estado'[u] = e /\ \A x \in ULT : x # u => estado'[x] = estado[x]
  BY DEF Mueve, TypeOK
<1>2. /\ IsFiniteSet(S) /\ Cardinality(S) \in Nat /\ Cardinality(S) <= a /\ a \in Int /\ b \in Int
  BY FS_CardinalityType DEF CuentaInv, TypeOK
<1>3. /\ u \in S <=> Ocupa(estado[u])
      /\ T = IF Ocupa(e) THEN S \cup {u} ELSE S \ {u}
  BY <1>1 DEF Admitidos, Admitido, Ocupa
<1>4. b + Uno(Ocupa(estado[u])) >= a + Uno(Ocupa(e)) BY DEF Mueve
<1> HIDE DEF S, T, a, b
<1>5. CASE Ocupa(e)
  <2>1. IsFiniteSet(T) /\ Cardinality(T) = IF u \in S THEN Cardinality(S) ELSE Cardinality(S) + 1
    BY <1>2, <1>3, <1>5, FS_AddElement
  <2>2. Cardinality(T) <= b
    <3>1. CASE u \in S BY <1>2, <1>3, <1>4, <1>5, <2>1, <3>1 DEF Uno
    <3>2. CASE u \notin S BY <1>2, <1>3, <1>4, <1>5, <2>1, <3>2 DEF Uno
    <3>3. QED BY <3>1, <3>2
  <2>3. QED BY <2>1, <2>2 DEF CuentaInv, T, b
<1>6. CASE ~ Ocupa(e)
  <2>1. IsFiniteSet(T) /\ Cardinality(T) = IF u \in S THEN Cardinality(S) - 1 ELSE Cardinality(S)
    BY <1>2, <1>3, <1>6, FS_RemoveElement
  <2>2. Cardinality(T) <= b
    <3>1. CASE u \in S BY <1>2, <1>3, <1>4, <1>6, <2>1, <3>1 DEF Uno
    <3>2. CASE u \notin S BY <1>2, <1>3, <1>4, <1>6, <2>1, <3>2 DEF Uno
    <3>3. QED BY <3>1, <3>2
  <2>3. QED BY <2>1, <2>2 DEF CuentaInv, T, b
<1>7. QED BY <1>5, <1>6

LEMMA QuietoColas ==
  ASSUME Quieto
  PROVE  /\ EnColas => EnColas'
         /\ EnNew => EnNew'
         /\ EnSem => EnSem'
         /\ CuentaInv => CuentaInv'
BY DEF Quieto, EnColas, EnNew, EnSem, CuentaInv, Admitidos, Admitido

LEMMA QuietoTokens ==
  ASSUME TypeOK', TokenInv, Quieto
  PROVE  TokenInv'
<1>1. SUFFICES ASSUME NEW p \in Proc PROVE Cardinality(Listos(p)') <= semaforoReady'[p]
  BY DEF TokenInv
<1>2. semaforoReady'[p] \in Nat /\ Listos(p)' = Listos(p) BY DEF TypeOK, Quieto, Listos
<1>3. CASE semaforoReady'[p] = semaforoReady[p] BY <1>2, <1>3 DEF TokenInv
<1>4. CASE Listos(p) = {} BY <1>2, <1>4, FS_EmptySet
<1>5. QED BY <1>3, <1>4 DEF Quieto

-----------------------------------------------------------------------------
(* Joins                                                                   *)

\* The request of a close only advances, until its ULT is in EXIT.
Avanza(p) ==
  /\ joinedBy' = joinedBy
  /\ pc[p] \in EnCierre =>
       \/ estado'[<<p, req[p].tid>>] = E_EXIT
       \/ /\ pc'[p] \in EnCierre /\ req'[p].tid = req[p].tid
          /\ pc'[p] \in Desjoineando => pc[p] \in Desjoineando /\ req'[p].i >= req[p].i

\* u, which is running, joins a ULT of its process.
Junta(p, u) ==
  /\ pc[p] = "idle" /\ pc'[p] = "idle" /\ u[1] = p /\ estado[u] = E_EXECUTE
  /\ \E t \in Tid : joinedBy' = [joinedBy EXCEPT ![<<p, t>>] = Append(@, u[2])]

\* Nobody leaves EXIT or is brought back to life.
Muerto(x)  == estado[x] \in {E_EXIT, Liberado}
MuereUnaVez == \A x \in ULT : Muerto(x) => Muerto(x)'

LEMMA MueveMuertos ==
  ASSUME TypeOK, NEW u, NEW e, Mueve(u, e)
  PROVE  MuereUnaVez
<1>1. /\ u \in ULT /\ \A x \in ULT : x # u => estado'[x] = estado[x]
      /\ <<estado[u], e>> \in Diagrama
  BY DEF Mueve, TypeOK
<1>2. ~ Muerto(u) BY <1>1, NombresDistintos DEF Diagrama, Muerto
<1>3. QED BY <1>1, <1>2 DEF MuereUnaVez, Muerto

\* The joiners still to be woken after a step were so before it.
LEMMA PendienteAntes ==
  ASSUME TypeOK, TypeOK', MuereUnaVez, NEW p \in Proc, Handler(p) \/ Pedido(p), Avanza(p),
         NEW q \in Proc, NEW t \in Tid, NEW i \in Nat, Pendiente(q, t, i)'
  PROVE  Pendiente(q, t, i) /\ Joiner(q, t, i)' = Joiner(q, t, i)
<1>1. joinedBy' = joinedBy BY DEF Avanza
<1>2. <<q, t>> \in ULT BY DEF ULT
<1>3. /\ i \in 1 .. Len(joinedBy[<<q, t>>])
      /\ estado[<<q, t>>] \notin {E_EXIT, Liberado}
      /\ estado'[<<q, t>>] \notin {E_EXIT, Liberado}
      /\ pc'[q] \in EnCierre /\ req'[q].tid = t => pc'[q] \in Desjoineando /\ req'[q].i <= i
  BY <1>1, <1>2 DEF Pendiente, MuereUnaVez, Muerto, Desjoineando
<1>4. pc[q] \in EnCierre /\ req[q].tid = t => pc[q] \in Desjoineando /\ req[q].i <= i
  <2>1. CASE q # p
    <3>1. pc'[q] = pc[q] /\ req'[q] = req[q] BY <2>1, PasoLocal
    <3>2. QED BY <1>3, <3>1
  <2>2. CASE q = p
    <3>1. SUFFICES ASSUME pc[p] \in EnCierre, req[p].tid = t
                   PROVE  pc[p] \in Desjoineando /\ req[p].i <= i
      BY <2>2
    <3>2. /\ pc'[p] \in EnCierre /\ req'[p].tid = t
          /\ pc'[p] \in Desjoineando => pc[p] \in Desjoineando /\ req'[p].i >= req[p].i
      BY <1>3, <2>2, <3>1 DEF Avanza
    <3>3. req[p].i \in Nat /\ req'[p].i \in Nat BY DEF TypeOK, Peticion
    <3>4. QED BY <1>3, <2>2, <3>2, <3>3
  <2>3. QED BY <2>1, <2>2
<1>5. QED BY <1>1, <1>3, <1>4 DEF Pendiente, Joiner, Desjoineando

LEMMA JoinerEsULT ==
  ASSUME TypeOK, NEW p \in Proc, NEW t \in Tid, NEW i \in Nat, Pendiente(p, t, i)
  PROVE  Joiner(p, t, i) \in ULT
<1>1. <<p, t>> \in ULT BY DEF ULT
<1>2. joinedBy[<<p, t>>] \in Seq(Tid) /\ i \in 1 .. Len(joinedBy[<<p, t>>])
  BY <1>1 DEF TypeOK, Pendiente
<1>3. joinedBy[<<p, t>>][i] \in Tid BY <1>2, ElementOfSeq
<1>4. QED BY <1>3 DEF Joiner, ULT

\* The lists of the semaphores gain nobody but u.
LEMMA ListasDespues ==
  ASSUME TypeOK, NEW u, NEW e, Mueve(u, e), SemLista(u, e), NEW x, x # u,
         \A s \in Sem : \A k \in 1 .. Len(BLOCKED_LIST[s]) : BLOCKED_LIST[s][k] # x
  PROVE  \A s \in Sem : \A k \in 1 .. Len(BLOCKED_LIST'[s]) : BLOCKED_LIST'[s][k] # x
<1>0. u \in ULT BY DEF Mueve
<1>1. CASE SemIgual(u) BY <1>1 DEF SemIgual
<1>2. CASE SemEntra(u, e)
  <2>1. PICK s \in Sem : BLOCKED_LIST' = [BLOCKED_LIST EXCEPT ![s] = Append(@, u)]
    BY <1>2 DEF SemEntra
  <2>2. SUFFICES ASSUME NEW r \in Sem, NEW k \in 1 .. Len(BLOCKED_LIST'[r])
                 PROVE  BLOCKED_LIST'[r][k] # x
    OBVIOUS
  <2>3. CASE r # s BY <2>1, <2>3 DEF TypeOK
  <2>4. CASE r = s
    <3>1. BLOCKED_LIST[s] \in Seq(ULT) /\ Len(BLOCKED_LIST[s]) \in Nat BY SemElementos
    <3>2. BLOCKED_LIST'[s] = Append(BLOCKED_LIST[s], u) BY <2>1 DEF TypeOK
    <3>3. /\ Len(BLOCKED_LIST'[s]) = Len(BLOCKED_LIST[s]) + 1
          /\ BLOCKED_LIST'[s][Len(BLOCKED_LIST[s]) + 1] = u
          /\ \A i \in 1 .. Len(BLOCKED_LIST[s]) : BLOCKED_LIST'[s][i] = BLOCKED_LIST[s][i]
      BY <1>0, <3>1, <3>2, AppendProperties
    <3>4. k \in 1 .. Len(BLOCKED_LIST[s]) \/ k = Len(BLOCKED_LIST[s]) + 1
      BY <2>4, <3>1, <3>3
    <3>5. QED BY <2>4, <3>3, <3>4
  <2>5. QED BY <2>3, <2>4
<1>3. CASE SemSale(u)
  <2>1. PICK s \in Sem : /\ BLOCKED_LIST[s] # <<>>
                         /\ BLOCKED_LIST' = [BLOCKED_LIST EXCEPT ![s] = Tail(@)]
    BY <1>3 DEF SemSale
  <2>2. SUFFICES ASSUME NEW r \in Sem, NEW k \in 1 .. Len(BLOCKED_LIST'[r])
                 PROVE  BLOCKED_LIST'[r][k] # x
    OBVIOUS
  <2>3. CASE r # s BY <2>1, <2>3 DEF TypeOK
  <2>4. CASE r = s
    <3> DEFINE q == BLOCKED_LIST[s]
    <3>1. q \in Seq(ULT) /\ Len(q) \in Nat /\ q # <<>> BY <2>1, SemElementos
    <3>2. BLOCKED_LIST'[s] = Tail(q) BY <2>1 DEF TypeOK
    <3>3. \A i \in 1 .. Len(q) : q[i] # x OBVIOUS
    <3> HIDE DEF q
    <3>4. /\ Len(Tail(q)) = Len(q) - 1
          /\ \A i \in 1 .. Len(Tail(q)) : Tail(q)[i] = q[i + 1]
      BY <3>1, HeadTailProperties
    <3>5. k \in 1 .. Len(Tail(q)) /\ k + 1 \in 1 .. Len(q) BY <2>4, <3>1, <3>2, <3>4
    <3>6. QED BY <2>4, <3>2, <3>3, <3>4, <3>5
  <2>5. QED BY <2>3, <2>4
<1>4. QED BY <1>1, <1>2, <1>3 DEF SemLista

LEMMA MueveJoin ==
  ASSUME TypeOK, EnJoin, NEW u, NEW e, Mueve(u, e), SemLista(u, e),
         \A q \in Proc, t \in Tid : \A i \in Nat : Pendiente(q, t, i)' =>
           /\ Pendiente(q, t, i) /\ Joiner(q, t, i)' = Joiner(q, t, i)
           /\ Joiner(q, t, i) # u
  PROVE  EnJoin'
<1>1. SUFFICES ASSUME NEW q \in Proc, NEW t \in Tid, NEW i \in Nat, Pendiente(q, t, i)'
               PROVE  /\ estado'[Joiner(q, t, i)'] = E_BLOCKED
                      /\ \A s \in Sem : \A k \in 1 .. Len(BLOCKED_LIST'[s]) :
                           BLOCKED_LIST'[s][k] # Joiner(q, t, i)'
                      /\ \A x \in Tid : \A j \in Nat :
                           Pendiente(q, x, j)' /\ Joiner(q, x, j)' = Joiner(q, t, i)'
                             => x = t /\ j = i
  BY DEF EnJoin
<1>2. PICK y : y = Joiner(q, t, i) OBVIOUS
<1>3. Pendiente(q, t, i) /\ Joiner(q, t, i)' = y /\ y # u BY <1>1, <1>2
<1>4. /\ estado[y] = E_BLOCKED
      /\ \A s \in Sem : \A k \in 1 .. Len(BLOCKED_LIST[s]) : BLOCKED_LIST[s][k] # y
      /\ \A x \in Tid : \A j \in Nat : Pendiente(q, x, j) /\ Joiner(q, x, j) = y => x = t /\ j = i
  BY <1>2, <1>3 DEF EnJoin
<1>5. y \in ULT BY <1>2, <1>3, JoinerEsULT
<1>6. estado'[y] = E_BLOCKED BY <1>3, <1>4, <1>5 DEF Mueve, TypeOK
<1>7. \A s \in Sem : \A k \in 1 .. Len(BLOCKED_LIST'[s]) : BLOCKED_LIST'[s][k] # y
  BY <1>3, <1>4, ListasDespues
<1>8. \A x \in Tid : \A j \in Nat : Pendiente(q, x, j)' /\ Joiner(q, x, j)' = y => x = t /\ j = i
  BY <1>4
<1>9. QED BY <1>3, <1>6, <1>7, <1>8

LEMMA QuietoJoin ==
  ASSUME EnJoin, Quieto,
         \A q \in Proc, t \in Tid : \A i \in Nat : Pendiente(q, t, i)' => Pendiente(q, t, i)
  PROVE  EnJoin'
<1>1. \A q \in Proc, t \in Tid, i \in Nat : Joiner(q, t, i)' = Joiner(q, t, i)
  BY DEF Quieto, Joiner
<1>2. estado' = estado /\ BLOCKED_LIST' = BLOCKED_LIST BY DEF Quieto
<1>3. SUFFICES ASSUME NEW q \in Proc, NEW t \in Tid, NEW i \in Nat, Pendiente(q, t, i)'
               PROVE  /\ estado'[Joiner(q, t, i)'] = E_BLOCKED
                      /\ \A s \in Sem : \A k \in 1 .. Len(BLOCKED_LIST'[s]) :
                           BLOCKED_LIST'[s][k] # Joiner(q, t, i)'
                      /\ \A x \in Tid : \A j \in Nat :
                           Pendiente(q, x, j)' /\ Joiner(q, x, j)' = Joiner(q, t, i)'
                             => x = t /\ j = i
  BY DEF EnJoin
<1>4. PICK y : y = Joiner(q, t, i) OBVIOUS
<1>5. /\ estado[y] = E_BLOCKED
      /\ \A s \in Sem : \A k \in 1 .. Len(BLOCKED_LIST[s]) : BLOCKED_LIST[s][k] # y
      /\ \A x \in Tid : \A j \in Nat : Pendiente(q, x, j) /\ Joiner(q, x, j) = y => x = t /\ j = i
  BY <1>3, <1>4 DEF EnJoin
<1>6. Joiner(q, t, i)' = y BY <1>1, <1>4
<1>7. \A x \in Tid : \A j \in Nat : Pendiente(q, x, j)' /\ Joiner(q, x, j)' = y => x = t /\ j = i
  BY <1>1, <1>5
<1>8. QED BY <1>2, <1>5, <1>6, <1>7

\* A ULT that joins adds itself to the joiners of one ULT; it waited for nothing.
LEMMA JuntaJoin ==
  ASSUME TypeOK, TypeOK', EnSem, EnJoin, NEW p \in Proc, NEW u, NEW e, Mueve(u, e),
         e = E_BLOCKED, BLOCKED_LIST' = BLOCKED_LIST, Handler(p) \/ Pedido(p), Junta(p, u)
  PROVE  EnJoin'
<1>1. PICK a \in Tid : joinedBy' = [joinedBy EXCEPT ![<<p, a>>] = Append(@, u[2])]
  BY DEF Junta
<1> DEFINE w == <<p, a>>
           n == Len(joinedBy[<<p, a>>])
<1>2. /\ u \in ULT /\ u = <<p, u[2]>> /\ u[2] \in Tid /\ w \in ULT
      /\ estado[u] = E_EXECUTE /\ estado'[u] = E_BLOCKED
      /\ \A x \in ULT : x # u => estado'[x] = estado[x]
  BY ULTEs DEF Junta, Mueve, TypeOK
<1>3. /\ n \in Nat /\ Len(joinedBy'[w]) = n + 1 /\ joinedBy'[w][n + 1] = u[2]
      /\ \A i \in 1 .. n : joinedBy'[w][i] = joinedBy[w][i]
      /\ \A x \in ULT : x # w => joinedBy'[x] = joinedBy[x]
  <2>1. joinedBy[w] \in Seq(Tid) /\ joinedBy'[w] = Append(joinedBy[w], u[2])
    BY <1>1, <1>2 DEF TypeOK
  <2>2. \A x \in ULT : x # w => joinedBy'[x] = joinedBy[x] BY <1>1 DEF TypeOK
  <2>3. n \in Nat BY <2>1, LenProperties
  <2>4. QED BY <1>2, <2>1, <2>2, <2>3, AppendProperties
<1>4. MuereUnaVez BY MueveMuertos
<1> HIDE DEF n
<1>5. ASSUME NEW q \in Proc, NEW t \in Tid, NEW i \in Nat, Pendiente(q, t, i)'
      PROVE  \/ /\ Pendiente(q, t, i) /\ Joiner(q, t, i)' = Joiner(q, t, i)
             \/ q = p /\ t = a /\ i = n + 1 /\ Joiner(q, t, i)' = u
  <2>1. <<q, t>> \in ULT BY DEF ULT
  <2>2. /\ i \in 1 .. Len(joinedBy'[<<q, t>>])
        /\ estado[<<q, t>>] \notin {E_EXIT, Liberado}
    BY <1>4, <1>5, <2>1 DEF Pendiente, MuereUnaVez, Muerto
  <2>3. pc[q] \in EnCierre /\ req[q].tid = t => pc[q] \in Desjoineando /\ req[q].i <= i
    <3>1. CASE q = p BY <3>1 DEF Junta, EnCierre, EnPedido
    <3>2. CASE q # p
      <4>1. pc'[q] = pc[q] /\ req'[q] = req[q] BY <3>2, PasoLocal
      <4>2. QED BY <1>5, <4>1 DEF Pendiente, Desjoineando
    <3>3. QED BY <3>1, <3>2
  <2>4. CASE <<q, t>> # w
    BY <1>3, <2>1, <2>2, <2>3, <2>4 DEF Pendiente, Joiner, Desjoineando
  <2>5. CASE <<q, t>> = w
    <3>1. q = p /\ t = a BY <2>5
    <3>2. i \in 1 .. n \/ i = n + 1 BY <1>3, <2>2, <2>5
    <3>3. CASE i \in 1 .. n
      BY <1>3, <2>2, <2>3, <3>1, <3>3 DEF Pendiente, Joiner, Desjoineando, n
    <3>4. CASE i = n + 1 BY <1>2, <1>3, <3>1, <3>4 DEF Joiner
    <3>5. QED BY <3>2, <3>3, <3>4
  <2>6. QED BY <2>4, <2>5
<1>6. SUFFICES ASSUME NEW q \in Proc, NEW t \in Tid, NEW i \in Nat, Pendiente(q, t, i)'
               PROVE  /\ estado'[Joiner(q, t, i)'] = E_BLOCKED
                      /\ \A s \in Sem : \A k \in 1 .. Len(BLOCKED_LIST'[s]) :
                           BLOCKED_LIST'[s][k] # Joiner(q, t, i)'
                      /\ \A x \in Tid : \A j \in Nat :
                           Pendiente(q, x, j)' /\ Joiner(q, x, j)' = Joiner(q, t, i)'
                             => x = t /\ j = i
  BY DEF EnJoin
<1>7. \A x \in Tid : \A j \in Nat : Pendiente(q, x, j) =>
        estado[Joiner(q, x, j)] = E_BLOCKED /\ Joiner(q, x, j) # u
  BY <1>2, NombresDistintos DEF EnJoin
<1>8. CASE Pendiente(q, t, i) /\ Joiner(q, t, i)' = Joiner(q, t, i)
  <2>1. PICK y : y = Joiner(q, t, i) OBVIOUS
  <2>2. /\ estado[y] = E_BLOCKED
        /\ \A s \in Sem : \A k \in 1 .. Len(BLOCKED_LIST[s]) : BLOCKED_LIST[s][k] # y
        /\ \A x \in Tid : \A j \in Nat : Pendiente(q, x, j) /\ Joiner(q, x, j) = y => x = t /\ j = i
    BY <1>8, <2>1 DEF EnJoin
  <2>3. y \in ULT /\ y # u BY <1>7, <1>8, <2>1, JoinerEsULT
  <2>4. estado'[y] = E_BLOCKED BY <1>2, <2>2, <2>3
  <2>5. \A x \in Tid : \A j \in Nat :
          Pendiente(q, x, j)' /\ Joiner(q, x, j)' = y => x = t /\ j = i
    BY <1>5, <2>2, <2>3
  <2>6. QED BY <1>8, <2>1, <2>2, <2>4, <2>5
<1>9. CASE q = p /\ t = a /\ i = n + 1 /\ Joiner(q, t, i)' = u
  <2>1. \A s \in Sem : \A k \in 1 .. Len(BLOCKED_LIST[s]) : BLOCKED_LIST[s][k] # u
    BY <1>2, NombresDistintos DEF EnSem
  <2>2. \A x \in Tid : \A j \in Nat :
          Pendiente(q, x, j)' /\ Joiner(q, x, j)' = u => x = t /\ j = i
    BY <1>5, <1>7, <1>9
  <2>3. QED BY <1>2, <1>9, <2>1, <2>2
<1>10. QED BY <1>5, <1>6, <1>8, <1>9

-----------------------------------------------------------------------------
(* The transitions of suse.c                                               *)

LEMMA DiagramaPasos ==
  /\ <<SinCrear, E_NEW>> \in Diagrama
  /\ \A a \in {E_NEW, E_READY, E_BLOCKED, E_EXECUTE} : <<a, E_READY>> \in Diagrama
  /\ \A a \in {E_NEW, E_READY} : <<a, E_EXECUTE>> \in Diagrama
  /\ <<E_EXECUTE, E_BLOCKED>> \in Diagrama /\ <<E_BLOCKED, E_NEW>> \in Diagrama
  /\ \A a \in {E_READY, E_EXECUTE} : <<a, E_EXIT>> \in Diagrama
  /\ <<E_EXECUTE, Liberado>> \in Diagrama
BY DEF Diagrama

LEMMA ColaDeOtros ==
  ASSUME TypeOK, NEW u \in ULT, NEW e
  PROVE  \A x \in ULT \ {u} : BlockedSin(u, e)[x] = blocked_queue[x]
BY DEF TypeOK, BlockedSin

\* READY_LIST where no other handler is in the middle of an admission.
LEMMA ListaDe ==
  ASSUME TypeOK, EnListas, NEW u \in ULT, ~ EnAdmision(u)
  PROVE  /\ READY_LIST[u] = Uno(estado[u] = E_READY)
         /\ \A x \in ULT : ReadySin(u, estado[u])[x] = IF x = u THEN 0 ELSE READY_LIST[x]
<1>1. READY_LIST[u] = Uno(estado[u] = E_READY) BY DEF EnListas
<1>2. READY_LIST \in [ULT -> Nat] BY DEF TypeOK
<1>3. CASE estado[u] = E_READY
  <2>1. READY_LIST[u] = 1 BY <1>1, <1>3 DEF Uno
  <2>2. READY_LIST[u] - 1 = 0 /\ READY_LIST[u] > 0 BY <2>1
  <2>4. ReadySin(u, estado[u]) = [READY_LIST EXCEPT ![u] = READY_LIST[u] - 1]
    BY <1>3, <2>2 DEF ReadySin
  <2>5. QED BY <1>1, <1>2, <2>2, <2>4
<1>4. CASE estado[u] # E_READY
  <2>1. READY_LIST[u] = 0 BY <1>1, <1>4 DEF Uno
  <2>2. ReadySin(u, estado[u]) = READY_LIST BY <1>4 DEF ReadySin
  <2>3. QED BY <1>1, <2>1, <2>2
<1>5. QED BY <1>3, <1>4

\* A ULT outside READY_LIST enters it.
LEMMA ListaCon ==
  ASSUME TypeOK, NEW u \in ULT, READY_LIST[u] = 0
  PROVE  \A x \in ULT : ReadyCon(u)[x] = IF x = u THEN 1 ELSE READY_LIST[x]
<1>1. READY_LIST \in [ULT -> Nat] /\ READY_LIST[u] + 1 = 1 BY DEF TypeOK
<1>2. QED BY <1>1 DEF ReadyCon

LEMMA ListaListo ==
  ASSUME TypeOK, EnListas, NEW u \in ULT, ~ EnAdmision(u), A_listo(u)
  PROVE  \A x \in ULT : READY_LIST'[x] = IF x = u THEN 1 ELSE READY_LIST[x]
<1>1. READY_LIST[u] = Uno(estado[u] = E_READY) BY DEF EnListas
<1>2. CASE estado[u] = E_READY
  <2>1. READY_LIST[u] = 1 BY <1>1, <1>2 DEF Uno
  <2>2. READY_LIST[u] > 0 BY <2>1
  <2>3. READY_LIST' = READY_LIST BY <1>2, <2>2 DEF A_listo
  <2>4. QED BY <2>1, <2>3
<1>3. CASE estado[u] # E_READY
  <2>1. READY_LIST[u] = 0 BY <1>1, <1>3 DEF Uno
  <2>2. READY_LIST' = ReadyCon(u) BY <1>3 DEF A_listo
  <2>3. QED BY <2>1, <2>2, ListaCon
<1>4. QED BY <1>2, <1>3

\* nuevo_a_listo, in one step or at its end, and bloqueado_a_listo.
LEMMA ListoMueve ==
  ASSUME TypeOK, NEW u \in ULT, estado[u] \in {E_NEW, E_READY, E_BLOCKED},
         new_queue' = NewSin(u, estado[u]), blocked_queue' = BlockedSin(u, estado[u]),
         EXEC_THREAD' = ExecSin(u, estado[u]),
         \A x \in ULT : READY_LIST'[x] = IF x = u THEN 1 ELSE READY_LIST[x],
         estado' = [estado EXCEPT ![u] = E_READY],
         Post(u[1]), exit_queue' = exit_queue,
         \/ ACTUAL_MULTIPROG' = ACTUAL_MULTIPROG + 1
         \/ ACTUAL_MULTIPROG' = ACTUAL_MULTIPROG /\ estado[u] # E_NEW
  PROVE  Mueve(u, E_READY)
<1>1. u[1] \in Proc BY ULTEs
<1>2. semaforoReady' = [semaforoReady EXCEPT ![u[1]] = @ + 1] BY DEF Post
<1>3. <<estado[u], E_READY>> \in Diagrama BY DiagramaPasos
<1>4. EXEC_THREAD' = EXEC_THREAD BY NombresDistintos DEF ExecSin
<1>5. new_queue' = IF estado[u] = E_NEW THEN RemoveFirst(new_queue, u) ELSE new_queue
  BY DEF NewSin
<1>6. /\ semaforoReady'[u[1]] = semaforoReady[u[1]] + 1
      /\ \A p \in Proc \ {u[1]} : semaforoReady'[p] = semaforoReady[p]
  BY <1>1, <1>2 DEF TypeOK
<1>7. semaforoReady'[u[1]] + Uno(estado[u] = E_READY) >= semaforoReady[u[1]] + 1
  BY <1>1, <1>6 DEF TypeOK, Uno
<1>8. ACTUAL_MULTIPROG' + Uno(Ocupa(estado[u])) >= ACTUAL_MULTIPROG + 1
  BY DEF TypeOK, Uno, Ocupa
<1>9. \A x \in ULT \ {u} : blocked_queue'[x] = blocked_queue[x] BY ColaDeOtros
<1>10. Uno(E_READY = E_READY) = 1 /\ Uno(Ocupa(E_READY)) = 1 BY DEF Uno, Ocupa
<1>11. QED BY <1>3, <1>4, <1>5, <1>6, <1>7, <1>8, <1>9, <1>10, NombresDistintos DEF Mueve

LEMMA AListoMueve ==
  ASSUME TypeOK, EnListas, NEW u \in ULT, A_listo(u), estado[u] \in {E_NEW, E_READY, E_BLOCKED},
         ~ EnAdmision(u),
         \/ ACTUAL_MULTIPROG' = ACTUAL_MULTIPROG + 1
         \/ ACTUAL_MULTIPROG' = ACTUAL_MULTIPROG /\ estado[u] # E_NEW
  PROVE  Mueve(u, E_READY)
<1>1. \A x \in ULT : READY_LIST'[x] = IF x = u THEN 1 ELSE READY_LIST[x] BY ListaListo
<1>2. /\ new_queue' = NewSin(u, estado[u]) /\ blocked_queue' = BlockedSin(u, estado[u])
      /\ EXEC_THREAD' = ExecSin(u, estado[u]) /\ estado' = [estado EXCEPT ![u] = E_READY]
      /\ Post(u[1]) /\ exit_queue' = exit_queue
  BY DEF A_listo
<1>3. QED BY <1>1, <1>2, ListoMueve

\* nuevo_a_ejecucion and listo_a_ejecucion.
LEMMA EjecutaMueve ==
  ASSUME TypeOK, EnListas, NEW u \in ULT, estado[u] \in {E_NEW, E_READY}, ~ EnAdmision(u),
         EXEC_THREAD[u[1]] = SinULT,
         new_queue' = NewSin(u, estado[u]), blocked_queue' = BlockedSin(u, estado[u]),
         READY_LIST' = ReadySin(u, estado[u]), exit_queue' = exit_queue,
         EXEC_THREAD' = [EXEC_THREAD EXCEPT ![u[1]] = u[2]],
         estado' = [estado EXCEPT ![u] = E_EXECUTE],
         \A p \in Proc \ {u[1]} : semaforoReady'[p] = semaforoReady[p],
         \/ semaforoReady'[u[1]] = semaforoReady[u[1]]
         \/ semaforoReady'[u[1]] = semaforoReady[u[1]] - 1 /\ estado[u] = E_READY,
         \/ ACTUAL_MULTIPROG' = ACTUAL_MULTIPROG + 1
         \/ ACTUAL_MULTIPROG' = ACTUAL_MULTIPROG /\ estado[u] # E_NEW
  PROVE  Mueve(u, E_EXECUTE)
<1>1. u[1] \in Proc /\ u[2] \in Tid BY ULTEs
<1>2. <<estado[u], E_EXECUTE>> \in Diagrama BY DiagramaPasos
<1>3. new_queue' = IF estado[u] = E_NEW THEN RemoveFirst(new_queue, u) ELSE new_queue
  BY DEF NewSin
<1>4. \A x \in ULT : READY_LIST'[x] = IF x = u THEN 0 ELSE READY_LIST[x]
  <2>1. \A x \in ULT : ReadySin(u, estado[u])[x] = IF x = u THEN 0 ELSE READY_LIST[x]
    BY ListaDe
  <2>2. READY_LIST' = ReadySin(u, estado[u]) OBVIOUS
  <2>3. QED BY ONLY <2>1, <2>2
<1>5. /\ EXEC_THREAD'[u[1]] = u[2]
      /\ \A p \in Proc \ {u[1]} : EXEC_THREAD'[p] = EXEC_THREAD[p]
  BY <1>1 DEF TypeOK
<1>6. semaforoReady'[u[1]] + Uno(estado[u] = E_READY) >= semaforoReady[u[1]] + 0
  BY <1>1 DEF TypeOK, Uno
<1>7. ACTUAL_MULTIPROG' + Uno(Ocupa(estado[u])) >= ACTUAL_MULTIPROG + 1
  BY DEF TypeOK, Uno, Ocupa
<1>8. \A x \in ULT \ {u} : blocked_queue'[x] = blocked_queue[x] BY ColaDeOtros
<1>9. Uno(E_EXECUTE = E_READY) = 0 /\ Uno(Ocupa(E_EXECUTE)) = 1
  BY NombresDistintos DEF Uno, Ocupa
<1>10. QED BY <1>2, <1>3, <1>4, <1>5, <1>6, <1>7, <1>8, <1>9, NombresDistintos DEF Mueve

LEMMA BloqueadoMueve ==
  ASSUME TypeOK, EnListas, NEW u \in ULT, estado[u] = E_EXECUTE, ~ EnAdmision(u), A_bloqueado(u),
         ACTUAL_MULTIPROG' = ACTUAL_MULTIPROG
  PROVE  Mueve(u, E_BLOCKED)
<1>1. u[1] \in Proc /\ u[2] \in Tid BY ULTEs
<1>2. /\ EXEC_THREAD' = [EXEC_THREAD EXCEPT ![u[1]] = SinULT]
      /\ estado' = [estado EXCEPT ![u] = E_BLOCKED]
      /\ blocked_queue' = [blocked_queue EXCEPT ![u] = @ + 1]
      /\ new_queue' = new_queue /\ READY_LIST' = READY_LIST /\ semaforoReady' = semaforoReady
      /\ exit_queue' = exit_queue
  BY DEF A_bloqueado
<1>3. <<estado[u], E_BLOCKED>> \in Diagrama BY DiagramaPasos
<1>4. \A x \in ULT : READY_LIST'[x] = IF x = u THEN 0 ELSE READY_LIST[x]
  <2>1. READY_LIST[u] = 0 BY ListaDe, NombresDistintos DEF Uno
  <2>2. QED BY <1>2, <2>1
<1>5. /\ EXEC_THREAD'[u[1]] = SinULT
      /\ \A p \in Proc \ {u[1]} : EXEC_THREAD'[p] = EXEC_THREAD[p]
  BY <1>1, <1>2 DEF TypeOK
<1>6. /\ blocked_queue'[u] > 0
      /\ \A x \in ULT \ {u} : blocked_queue'[x] = blocked_queue[x]
  BY <1>2 DEF TypeOK
<1>7. /\ semaforoReady'[u[1]] + Uno(estado[u] = E_READY) >= semaforoReady[u[1]] + 0
      /\ ACTUAL_MULTIPROG' + Uno(Ocupa(estado[u])) >= ACTUAL_MULTIPROG + Uno(Ocupa(E_BLOCKED))
  BY <1>1, <1>2, NombresDistintos DEF TypeOK, Uno, Ocupa
<1>9. Uno(E_BLOCKED = E_READY) = 0 BY NombresDistintos DEF Uno
<1>8. QED BY <1>2, <1>3, <1>4, <1>5, <1>6, <1>7, <1>9, NombresDistintos DEF Mueve

\* listo_a_exit, ejecucion_a_exit and the freeing of a main that runs alone.
LEMMA TerminaMueve ==
  ASSUME TypeOK, NEW u \in ULT, NEW e \in {E_EXIT, Liberado}, <<estado[u], e>> \in Diagrama,
         estado' = [estado EXCEPT ![u] = e],
         new_queue' = new_queue, blocked_queue' = blocked_queue,
         exit_queue' = IF e = E_EXIT THEN exit_queue \cup {u} ELSE exit_queue,
         e = Liberado => u[2] = Main,
         \A x \in ULT : READY_LIST'[x] = IF x = u THEN 0 ELSE READY_LIST[x],
         EXEC_THREAD' = ExecSin(u, estado[u]),
         \A p \in Proc \ {u[1]} : semaforoReady'[p] = semaforoReady[p],
         \/ semaforoReady'[u[1]] + Uno(estado[u] = E_READY) >= semaforoReady[u[1]]
         \/ Listos(u[1])' = {},
         ACTUAL_MULTIPROG' \in {ACTUAL_MULTIPROG, ACTUAL_MULTIPROG - 1}
  PROVE  Mueve(u, e)
<1>1. u[1] \in Proc /\ u[2] \in Tid BY ULTEs
<1>2. e \notin {E_NEW, E_READY, E_EXECUTE, E_BLOCKED} /\ estado[u] \in {E_READY, E_EXECUTE}
  BY NombresDistintos DEF Diagrama
<1>4. /\ EXEC_THREAD'[u[1]] = IF estado[u] = E_EXECUTE THEN SinULT ELSE EXEC_THREAD[u[1]]
      /\ \A p \in Proc \ {u[1]} : EXEC_THREAD'[p] = EXEC_THREAD[p]
  BY <1>1 DEF ExecSin, TypeOK
<1>5. ACTUAL_MULTIPROG' + Uno(Ocupa(estado[u])) >= ACTUAL_MULTIPROG + 0
  <2>1. estado[u] \in {E_READY, E_EXECUTE, E_BLOCKED} BY <1>2
  <2>2. ACTUAL_MULTIPROG \in Int BY DEF TypeOK
  <2> DEFINE a == ACTUAL_MULTIPROG
             b == ACTUAL_MULTIPROG'
  <2>a. a \in Int /\ (b = a \/ b = a - 1) BY <2>2
  <2> HIDE DEF a, b
  <2>b. b + 1 >= a + 0 BY <2>a
  <2>3. ACTUAL_MULTIPROG' + 1 >= ACTUAL_MULTIPROG + 0 BY <2>b DEF a, b
  <2>4. QED BY <2>1, <2>3 DEF Uno, Ocupa
<1>6. Uno(e = E_READY) = 0 /\ Uno(Ocupa(e)) = 0 BY <1>2 DEF Uno, Ocupa
<1>7. \/ semaforoReady'[u[1]] + Uno(estado[u] = E_READY) >= semaforoReady[u[1]] + 0
      \/ Listos(u[1])' = {}
  BY <1>1 DEF TypeOK
<1>8. estado[u] # E_NEW BY <1>2, NombresDistintos
<1>9. QED BY <1>2, <1>4, <1>5, <1>6, <1>7, <1>8 DEF Mueve

\* ULT_create and a desjoinear that finds no room: both append to new_queue.
LEMMA NuevoMueve ==
  ASSUME TypeOK, EnListas, NEW u \in ULT, estado[u] \in {SinCrear, E_BLOCKED}, ~ EnAdmision(u),
         estado' = [estado EXCEPT ![u] = E_NEW], new_queue' = Append(new_queue, u),
         UNCHANGED <<READY_LIST, EXEC_THREAD, semaforoReady, blocked_queue, exit_queue,
                     ACTUAL_MULTIPROG>>
  PROVE  Mueve(u, E_NEW)
<1>1. u[1] \in Proc /\ u[2] \in Tid BY ULTEs
<1>2. <<estado[u], E_NEW>> \in Diagrama /\ estado[u] \notin {E_READY, E_EXECUTE}
  BY DiagramaPasos, NombresDistintos
<1>3. \A x \in ULT : READY_LIST'[x] = IF x = u THEN Uno(E_NEW = E_READY) ELSE READY_LIST[x]
  <2>1. READY_LIST[u] = 0 BY <1>2, ListaDe DEF Uno
  <2>2. QED BY <2>1, NombresDistintos DEF Uno
<1>4. /\ semaforoReady'[u[1]] + Uno(estado[u] = E_READY) >= semaforoReady[u[1]] + Uno(E_NEW = E_READY)
      /\ ACTUAL_MULTIPROG' + Uno(Ocupa(estado[u])) >= ACTUAL_MULTIPROG + Uno(Ocupa(E_NEW))
  BY <1>1, <1>2, NombresDistintos DEF TypeOK, Uno, Ocupa
<1>5. QED BY <1>2, <1>3, <1>4, NombresDistintos DEF Mueve

-----------------------------------------------------------------------------
(* What a step of the handler of p does                                    *)

\* It moves a ULT of another process only to admit it or to wake it from a semaphore.
Ajeno(p, u, e) == u[1] # p => estado[u] \in {E_NEW, E_BLOCKED} /\ e = E_READY

\* u is the joiner that the desjoinear of p is dealing with.
Desjoinea(p, u) ==
  /\ pc[p] \in EnDesj /\ u = Joiner(p, req[p].tid, req[p].i)
  /\ req'[p].i = req[p].i + 1

\* A ULT is admitted when there is room and it is its turn, and woken for a reason.
Motivo(p, u) ==
  /\ estado[u] = E_NEW =>
       /\ pc[p] \in ConLugar /\ ACTUAL_MULTIPROG < MAX_MULTIPROG
       /\ NuevosEnAlta \/ u = Head(new_queue)
  /\ estado[u] = E_BLOCKED => SemSale(u) \/ Desjoinea(p, u)

Efecto(p) ==
  \/ Quieto /\ Avanza(p) /\ (READY_LIST' = READY_LIST \/ pc[p] = "fifo")
  \/ \E u \in ULT, e \in Estados :
       /\ Mueve(u, e) /\ SemLista(u, e) /\ Ajeno(p, u, e) /\ Motivo(p, u)
       /\ \/ Avanza(p)
          \/ Junta(p, u) /\ e = E_BLOCKED /\ BLOCKED_LIST' = BLOCKED_LIST

\* The joiner that desjoinear deals with is one still to be woken.
LEMMA DesjoineaPendiente ==
  ASSUME TipoInv, NEW p \in Proc, EnHilo(p), pc[p] \in EnDesj
  PROVE  /\ req[p].tid \in Tid /\ req[p].i \in Nat
         /\ Pendiente(p, req[p].tid, req[p].i)
<1>1. PedidoOK(p) /\ req[p].i \in Nat BY DEF TipoInv, TypeOK, Peticion
<1>2. req[p].tid \in Tid /\ req[p].i \in 1 .. Len(joinedBy[<<p, req[p].tid>>])
  BY <1>1 DEF PedidoOK, EnPedido, EnDesj
<1>3. estado[<<p, req[p].tid>>] \in {E_READY, E_EXECUTE} BY DEF EnHilo
<1>4. QED BY <1>1, <1>2, <1>3, NombresDistintos DEF Pendiente

LEMMA EfectoJoin ==
  ASSUME TipoInv, TypeOK', OrdenInv, NEW p \in Proc, Handler(p) \/ Pedido(p), Efecto(p)
  PROVE  EnJoin'
<1>0. /\ TypeOK /\ EnHilo(p) /\ EnJoin /\ EnSem BY DEF TipoInv, OrdenInv
<1>1. CASE Quieto /\ Avanza(p)
  <2>1. MuereUnaVez BY <1>1 DEF Quieto, MuereUnaVez, Muerto
  <2>2. QED BY <1>0, <1>1, <2>1, PendienteAntes, QuietoJoin
<1>2. ASSUME NEW u \in ULT, NEW e \in Estados, Mueve(u, e), SemLista(u, e), Motivo(p, u), Avanza(p)
      PROVE  EnJoin'
  <2>1. MuereUnaVez BY <1>0, <1>2, MueveMuertos
  <2>2. ASSUME NEW q \in Proc, NEW t \in Tid, NEW i \in Nat, Pendiente(q, t, i)'
        PROVE  /\ Pendiente(q, t, i) /\ Joiner(q, t, i)' = Joiner(q, t, i)
               /\ Joiner(q, t, i) # u
    <3>1. Pendiente(q, t, i) /\ Joiner(q, t, i)' = Joiner(q, t, i)
      BY <1>0, <1>2, <2>1, <2>2, PendienteAntes
    <3>2. SUFFICES ASSUME Joiner(q, t, i) = u PROVE FALSE BY <3>1
    <3>3. /\ estado[u] = E_BLOCKED
          /\ \A s \in Sem : \A k \in 1 .. Len(BLOCKED_LIST[s]) : BLOCKED_LIST[s][k] # u
          /\ \A x \in Tid : \A j \in Nat :
               Pendiente(q, x, j) /\ Joiner(q, x, j) = u => x = t /\ j = i
      BY <1>0, <3>1, <3>2 DEF EnJoin
    <3>4. ~ SemSale(u)
      <4>1. SUFFICES ASSUME NEW s \in Sem, BLOCKED_LIST[s] # <<>>, u = Head(BLOCKED_LIST[s])
                     PROVE  FALSE
        BY DEF SemSale
      <4>2. BLOCKED_LIST[s] \in Seq(ULT) /\ Len(BLOCKED_LIST[s]) \in Nat BY <1>0, SemElementos
      <4>3. 1 \in 1 .. Len(BLOCKED_LIST[s]) BY <4>1, <4>2, EmptySeq
      <4>4. Head(BLOCKED_LIST[s]) = BLOCKED_LIST[s][1] BY <4>1, <4>2
      <4>5. QED BY <3>3, <4>1, <4>3, <4>4
    <3>5. Desjoinea(p, u) BY <1>2, <3>3, <3>4 DEF Motivo
    <3>6. q = p BY <3>2, <3>5 DEF Desjoinea, Joiner
    <3>7. /\ req[p].tid \in Tid /\ req[p].i \in Nat /\ Pendiente(p, req[p].tid, req[p].i)
      BY <1>0, <3>5, DesjoineaPendiente DEF Desjoinea
    <3>8. req[p].tid = t /\ req[p].i = i BY <3>3, <3>5, <3>6, <3>7 DEF Desjoinea
    <3>9. pc[p] \in EnCierre BY <3>5 DEF Desjoinea, EnDesj, EnCierre, EnPedido
    <3>10. estado'[<<p, t>>] # E_EXIT BY <2>2, <3>6 DEF Pendiente
    <3>11. pc'[p] \in EnCierre /\ req'[p].tid = t BY <1>2, <3>8, <3>9, <3>10 DEF Avanza
    <3>12. req'[p].i <= i BY <2>2, <3>6, <3>11 DEF Pendiente
    <3>13. QED BY <3>5, <3>8, <3>12 DEF Desjoinea
  <2>3. QED BY <1>0, <1>2, <2>2, MueveJoin
<1>3. ASSUME NEW u \in ULT, NEW e \in Estados, Mueve(u, e), Junta(p, u), e = E_BLOCKED,
             BLOCKED_LIST' = BLOCKED_LIST
      PROVE  EnJoin'
  BY <1>0, <1>3, JuntaJoin
<1>4. QED BY <1>1, <1>2, <1>3 DEF Efecto

LEMMA EfectoOrden ==
  ASSUME TipoInv, TypeOK', OrdenInv, CuentaInv, TokenInv, NEW p \in Proc,
         Handler(p) \/ Pedido(p), Efecto(p)
  PROVE  EnColas' /\ EnNew' /\ EnSem' /\ EnJoin' /\ CuentaInv' /\ TokenInv'
<1>0. /\ TypeOK /\ EnColas /\ EnNew /\ EnSem /\ EnJoin BY DEF TipoInv, OrdenInv
<1>1. EnJoin' BY EfectoJoin
<1>2. CASE Quieto BY <1>0, <1>1, <1>2, QuietoColas, QuietoTokens
<1>3. ASSUME NEW u \in ULT, NEW e \in Estados, Mueve(u, e), SemLista(u, e)
      PROVE  EnColas' /\ EnNew' /\ EnSem' /\ CuentaInv' /\ TokenInv'
  BY <1>0, <1>3, MueveColas, MueveNew, MueveSem, MueveCuenta, MueveTokens
<1>4. QED BY <1>1, <1>2, <1>3 DEF Efecto

\* mutex_multiprog admits one handler at a time.
LEMMA UnoConMultiprog ==
  ASSUME GradoInv, NEW p \in Proc, NEW q \in Proc, pc[p] \in ConMultiprog, pc[q] \in ConMultiprog
  PROVE  p = q
<1>1. mutex["multiprog"] = p /\ mutex["multiprog"] = q BY DEF GradoInv
<1>2. QED BY <1>1

\* The ULT that is being admitted is the first of new_queue, and its handler holds
\* mutex_multiprog.
LEMMA AdmisionNew ==
  ASSUME GradoInv, OrdenInv, NEW u \in ULT, EnAdmision(u)
  PROVE  /\ new_queue # <<>> /\ u = Head(new_queue) /\ estado[u] = E_NEW
         /\ \A p \in Proc : pc[p] \in ConMultiprog => pc[p] = "fifo_listo"
<1>1. PICK q \in Proc : pc[q] = "fifo_listo" /\ req[q].th = u BY DEF EnAdmision
<1>2. new_queue # <<>> /\ u = Head(new_queue) BY <1>1 DEF OrdenInv, EnHilo
<1>3. new_queue \in Seq(ULT) /\ Len(new_queue) \in Nat
  BY LenProperties DEF GradoInv, TipoInv, TypeOK
<1>4. 1 \in 1 .. Len(new_queue) /\ new_queue[1] = u BY <1>2, <1>3, EmptySeq
<1>5. estado[u] = E_NEW BY <1>4 DEF OrdenInv, EnNew
<1>6. pc[q] \in ConMultiprog BY <1>1 DEF ConMultiprog
<1>7. QED BY <1>1, <1>2, <1>5, <1>6, UnoConMultiprog

LEMMA SinAdmision ==
  ASSUME GradoInv, OrdenInv, NEW u \in ULT,
         estado[u] # E_NEW \/ \E p \in Proc : pc[p] \in ConMultiprog /\ pc[p] # "fifo_listo"
  PROVE  ~ EnAdmision(u)
BY AdmisionNew

\* Only obtener_ULT_ready_FIFO starts an admission.
LEMMA QuienAdmite ==
  ASSUME TypeOK, NEW p \in Proc, Handler(p) \/ Pedido(p)
  PROVE  /\ pc[p] = "fifo" => obtener_ULT_ready_FIFO(p)
         /\ pc[p] = "fifo_listo" => nuevo_a_listo_resto(p)
         /\ pc[p] # "fifo" => pc'[p] # "fifo_listo"
<1>0. pc \in [Proc -> Pcs] BY DEF TypeOK
<1>1. CASE Handler(p)
  <2>1. pc[p] = "fifo" => obtener_ULT_ready_FIFO(p)
    BY <1>1 DEF Handler, create_valida, create_admite, obtener_proximo_ejecutar,
       toma_semaforos, decrementar_semaforo, incrementar_semaforo, desjoinear_hilo,
       desjoinear_valida, desjoinear_mueve, close_segun_estado, close_toma, close_new,
       close_devuelve, nuevo_a_listo_resto, metricas_sistema
  <2>2. pc[p] = "fifo_listo" => nuevo_a_listo_resto(p)
    BY <1>1 DEF Handler, create_valida, create_admite, obtener_proximo_ejecutar,
       toma_semaforos, decrementar_semaforo, incrementar_semaforo, desjoinear_hilo,
       desjoinear_valida, desjoinear_mueve, close_segun_estado, close_toma, close_new,
       close_devuelve, obtener_ULT_ready_FIFO, metricas_sistema
  <2>3. ASSUME pc[p] # "fifo" PROVE pc'[p] # "fifo_listo"
    <3>1. \/ pc' = pc /\ pc[p] = "desjoinear"
          \/ \E l \in Pcs \ {"fifo_listo"} : Va(p, l)
      BY ZenonT(60), <1>1, <2>3
      DEF Handler, create_valida, create_admite, obtener_proximo_ejecutar,
         toma_semaforos, decrementar_semaforo, incrementar_semaforo, desjoinear_hilo,
         desjoinear_valida, desjoinear_mueve, close_segun_estado, close_toma, close_new,
         close_devuelve, obtener_ULT_ready_FIFO, nuevo_a_listo_resto, metricas_sistema, Responde, Pcs
    <3>2. QED BY <1>0, <3>1 DEF Va
  <2>4. QED BY <2>1, <2>2, <2>3
<1>2. CASE Pedido(p)
  <2>1. pc[p] = "idle" /\ pc'[p] \notin ConMultiprog
    <3>1. pc[p] = "idle"
      BY <1>2 DEF Pedido, handle_main_thread_create, handle_ULT_create, ClienteCorre, Conectado,
         join, close_tid, handle_next_tid, close_main, desconexion, handle_wait_sem,
         handle_signal_sem
    <3>2. QED BY <1>2, <3>1, PedidoSinGrado
  <2>2. QED BY <2>1 DEF ConMultiprog
<1>3. QED BY <1>1, <1>2

LEMMA AdmisionIgual ==
  ASSUME TypeOK, NEW p \in Proc, Handler(p) \/ Pedido(p), pc[p] \notin {"fifo", "fifo_listo"},
         NEW u
  PROVE  EnAdmision(u)' <=> EnAdmision(u)
<1>1. pc'[p] # "fifo_listo" BY QuienAdmite
<1>2. \A q \in Proc : q # p => pc'[q] = pc[q] /\ req'[q] = req[q] BY PasoLocal
<1>3. QED BY <1>1, <1>2 DEF EnAdmision

LEMMA ListasPaso ==
  ASSUME GradoInv, OrdenInv, NEW p \in Proc, Handler(p) \/ Pedido(p), Efecto(p)
  PROVE  EnListas'
<1>0. TypeOK /\ EnListas /\ READY_LIST \in [ULT -> Nat] /\ pc \in [Proc -> Pcs]
      /\ estado \in [ULT -> Estados] /\ req \in [Proc -> Peticion]
  BY DEF GradoInv, TipoInv, TypeOK, OrdenInv
<1>1. CASE pc[p] \notin {"fifo", "fifo_listo"}
  <2>1. SUFFICES ASSUME NEW x \in ULT
                 PROVE  READY_LIST'[x] = Uno(estado'[x] = E_READY \/ EnAdmision(x))
    BY <1>0, <1>1, AdmisionIgual DEF EnListas
  <2>2. READY_LIST[x] = Uno(estado[x] = E_READY \/ EnAdmision(x)) BY <1>0 DEF EnListas
  <2>3. CASE Quieto /\ READY_LIST' = READY_LIST BY <2>2, <2>3 DEF Quieto
  <2>4. ASSUME NEW u \in ULT, NEW e \in Estados, Mueve(u, e), Motivo(p, u)
        PROVE  READY_LIST'[x] = Uno(estado'[x] = E_READY \/ EnAdmision(x))
    <3>1. /\ estado'[u] = e /\ (x # u => estado'[x] = estado[x])
          /\ READY_LIST'[x] = IF x = u THEN Uno(e = E_READY) ELSE READY_LIST[x]
      BY <1>0, <2>4 DEF Mueve
    <3>2. CASE x # u BY <2>2, <3>1, <3>2
    <3>3. CASE x = u
      <4>1. ~ EnAdmision(u)
        <5>1. estado[u] = E_NEW => pc[p] \in ConMultiprog /\ pc[p] # "fifo_listo"
          BY <1>1, <2>4 DEF Motivo, ConLugar, ConMultiprog
        <5>2. QED BY <5>1, SinAdmision
      <4>2. QED BY <3>1, <3>3, <4>1
    <3>4. QED BY <3>2, <3>3
  <2>5. QED BY <1>1, <2>3, <2>4 DEF Efecto
<1>2. CASE pc[p] = "fifo"
  <2>1. obtener_ULT_ready_FIFO(p) BY <1>0, <1>2, QuienAdmite
  <2>2. /\ \A x \in ULT : ~ EnAdmision(x)
        /\ \A q \in Proc : pc[q] # "fifo_listo"
    <3>1. pc[p] \in ConMultiprog /\ pc[p] # "fifo_listo" BY <1>2 DEF ConMultiprog
    <3>2. \A q \in Proc : pc[q] = "fifo_listo" => q = p
      BY <3>1, UnoConMultiprog DEF ConMultiprog
    <3>3. QED BY <3>1, <3>2, SinAdmision
  <2>3. \A x \in ULT : READY_LIST[x] = Uno(estado[x] = E_READY) BY <1>0, <2>2 DEF EnListas
  <2>4. \A q \in Proc : q # p => pc'[q] = pc[q] /\ req'[q] = req[q] BY <1>0, PasoLocal
  <2>5. estado' = estado BY <2>1 DEF obtener_ULT_ready_FIFO, ultVars
  <2>6. CASE new_queue = <<>>
    <3>1. READY_LIST' = READY_LIST /\ pc'[p] = "metricas"
      BY <1>0, <2>1, <2>6 DEF obtener_ULT_ready_FIFO, Va
    <3>2. \A x \in ULT : ~ EnAdmision(x)' BY <2>2, <2>4, <3>1 DEF EnAdmision
    <3>3. QED BY <2>3, <2>5, <3>1, <3>2 DEF EnListas
  <2>7. CASE new_queue # <<>>
    <3>1. PICK u : u = Head(new_queue) OBVIOUS
    <3>2. /\ READY_LIST' = ReadyCon(u) /\ pc'[p] = "fifo_listo"
          /\ req' = [req EXCEPT ![p] = [@ EXCEPT !.th = u, !.leido = estado[u]]]
      BY <1>0, <2>1, <2>7, <3>1 DEF obtener_ULT_ready_FIFO, Va, Proximo
    <3>3. req'[p].th = u BY <1>0, <3>2 DEF Peticion
    <3>4. u \in ULT /\ estado[u] = E_NEW
      <4>1. new_queue \in Seq(ULT) /\ Len(new_queue) \in Nat BY <1>0, LenProperties DEF TypeOK
      <4>2. 1 \in 1 .. Len(new_queue) /\ new_queue[1] = u BY <2>7, <3>1, <4>1, EmptySeq
      <4>3. u \in ULT BY <4>1, <4>2, ElementOfSeq
      <4>4. QED BY <4>2, <4>3 DEF OrdenInv, EnNew
    <3>5. READY_LIST[u] = 0 /\ READY_LIST[u] + 1 = 1
      BY <2>3, <3>4, NombresDistintos DEF Uno
    <3>6. \A x \in ULT : EnAdmision(x)' <=> x = u BY <2>2, <2>4, <3>2, <3>3 DEF EnAdmision
    <3>7. \A x \in ULT : READY_LIST'[x] = IF x = u THEN 1 ELSE READY_LIST[x]
      BY <1>0, <3>2, <3>4, <3>5 DEF ReadyCon
    <3>8. QED BY <2>3, <2>5, <3>6, <3>7 DEF EnListas, Uno
  <2>8. QED BY <2>6, <2>7
<1>3. CASE pc[p] = "fifo_listo"
  <2>1. nuevo_a_listo_resto(p) BY <1>0, <1>3, QuienAdmite
  <2>2. PICK u : u = req[p].th OBVIOUS
  <2>3. /\ req[p].leido = E_NEW /\ new_queue # <<>> /\ u = Head(new_queue)
    BY <1>3, <2>2 DEF OrdenInv, EnHilo
  <2>4. u \in ULT
    <3>1. new_queue \in Seq(ULT) /\ Len(new_queue) \in Nat BY <1>0, LenProperties DEF TypeOK
    <3>2. 1 \in 1 .. Len(new_queue) /\ new_queue[1] = u BY <2>3, <3>1, EmptySeq
    <3>3. QED BY <3>1, <3>2, ElementOfSeq
  <2>5. /\ estado' = [estado EXCEPT ![u] = E_READY]
        /\ READY_LIST' = READY_LIST /\ pc'[p] = "metricas"
    BY <1>0, <2>1, <2>2, <2>3, NombresDistintos DEF nuevo_a_listo_resto, ReadySin, Va
  <2>6. \A q \in Proc : pc[q] = "fifo_listo" => q = p BY <1>3, UnoConMultiprog DEF ConMultiprog
  <2>7. \A q \in Proc : q # p => pc'[q] = pc[q] /\ req'[q] = req[q] BY <1>0, PasoLocal
  <2>8. \A x \in ULT : /\ EnAdmision(x) <=> x = u
                      /\ ~ EnAdmision(x)'
    BY <1>3, <2>2, <2>5, <2>6, <2>7 DEF EnAdmision
  <2>9. \A x \in ULT : estado'[x] = IF x = u THEN E_READY ELSE estado[x] BY <1>0, <2>5
  <2>10. QED BY <1>0, <2>5, <2>8, <2>9 DEF EnListas
<1>4. QED BY <1>1, <1>2, <1>3

\* No other handler is disturbed.
LEMMA EfectoAjeno ==
  ASSUME GradoInv, NEW p \in Proc, Handler(p) \/ Pedido(p), Efecto(p),
         NEW q \in Proc, q # p, EnHilo(q)
  PROVE  EnHilo(q)'
<1>0. TipoInv BY DEF GradoInv
<1>1. /\ pc'[q] = pc[q] /\ req'[q] = req[q] /\ curr'[q] = curr[q] BY <1>0, PasoLocal DEF TipoInv
<1>2. CASE Quieto BY <1>1, <1>2 DEF Quieto, EnHilo
<1>3. ASSUME NEW u \in ULT, NEW e \in Estados, Mueve(u, e), Ajeno(p, u, e), Motivo(p, u)
      PROVE  EnHilo(q)'
  <2> DEFINE x(t) == <<q, t>>
  <2>1. /\ estado' = [estado EXCEPT ![u] = e] /\ estado \in [ULT -> Estados]
        /\ u = <<u[1], u[2]>> /\ u[2] \in Tid
    BY <1>0, <1>3, ULTEs DEF Mueve, TipoInv, TypeOK
  <2>2. EXEC_THREAD'[q] = EXEC_THREAD[q]
    <3>1. CASE u[1] # q BY <1>3, <3>1 DEF Mueve
    <3>2. CASE u[1] = q
      <4>1. estado[u] # E_EXECUTE /\ e # E_EXECUTE
        BY <1>3, <3>2, NombresDistintos DEF Ajeno
      <4>2. QED BY <1>3, <3>2, <4>1 DEF Mueve
    <3>3. QED BY <3>1, <3>2
  <2>3. ASSUME NEW t \in Tid
        PROVE  \/ estado'[<<q, t>>] = estado[<<q, t>>]
               \/ estado[<<q, t>>] \in {E_NEW, E_BLOCKED} /\ estado'[<<q, t>>] = E_READY
    <3>1. <<q, t>> \in ULT BY DEF ULT
    <3>2. CASE u # <<q, t>> BY <2>1, <3>1, <3>2
    <3>3. CASE u = <<q, t>> BY <1>3, <2>1, <3>1, <3>3 DEF Ajeno
    <3>4. QED BY <3>2, <3>3
  <2>4. \A t \in Tid : estado'[<<q, t>>] = SinCrear <=> estado[<<q, t>>] = SinCrear
    BY <2>3, NombresDistintos
  <2>5. \A t \in Tid : estado[<<q, t>>] \in {E_READY, E_EXECUTE} => estado'[<<q, t>>] = estado[<<q, t>>]
    BY <2>3, NombresDistintos
  <2>6. PedidoOK(q) BY <1>0 DEF TipoInv
  <2>7. /\ pc'[q] \notin {"caido", "close_new", "close_new_cs", "close_blocked", "close_blocked_2",
                          "close_blocked_cs"}
        /\ estado'[<<q, Main>>] = SinCrear => \A t \in Tid : estado'[<<q, t>>] = SinCrear
    BY <1>1, <2>4, MainEnTid DEF EnHilo
  <2>8. pc'[q] \in {"create", "create_admite"} =>
          /\ estado'[<<q, req'[q].tid>>] \in {E_NEW, E_READY}
          /\ req'[q].tid = Main => \A t \in Tid \ {Main} : estado'[<<q, t>>] = SinCrear
    <3>1. SUFFICES ASSUME pc[q] \in {"create", "create_admite"}
                   PROVE  /\ estado'[<<q, req[q].tid>>] \in {E_NEW, E_READY}
                          /\ req[q].tid = Main =>
                               \A t \in Tid \ {Main} : estado'[<<q, t>>] = SinCrear
      BY <1>1
    <3>2. req[q].tid \in Tid BY <2>6, <3>1 DEF PedidoOK, EnPedido
    <3>3. QED BY <2>3, <2>4, <3>1, <3>2 DEF EnHilo
  <2>9. /\ pc'[q] \in {"wait", "wait_sem"} => EXEC_THREAD'[q] = curr'[q]
        /\ pc'[q] = "sem_ready" => EXEC_THREAD'[q] = SinULT
    BY <1>1, <2>2 DEF EnHilo
  <2>10. /\ pc'[q] \in EnDesj \cup {"desjoinear"} => estado'[<<q, req'[q].tid>>] \in {E_READY, E_EXECUTE}
         /\ pc'[q] \in {"close_ready", "close_ready_cs"} => estado'[<<q, req'[q].tid>>] = E_READY
         /\ pc'[q] \in {"close_exec", "close_exec_cs"} => estado'[<<q, req'[q].tid>>] = E_EXECUTE
    <3>1. pc[q] \in EnDesj \cup {"desjoinear", "close_ready", "close_ready_cs", "close_exec",
                                 "close_exec_cs"} => req[q].tid \in Tid
      BY <2>6 DEF PedidoOK, EnPedido, EnDesj
    <3>2. QED BY <1>1, <2>5, <3>1 DEF EnHilo
  <2>11. pc'[q] = "fifo_listo" =>
           new_queue' # <<>> /\ req'[q].th = Head(new_queue') /\ req'[q].leido = E_NEW
    <3>1. SUFFICES ASSUME pc[q] = "fifo_listo"
                   PROVE  new_queue' # <<>> /\ Head(new_queue') = Head(new_queue)
      BY <1>1 DEF EnHilo
    <3>2. new_queue # <<>> /\ new_queue \in Seq(ULT)
      BY <1>0, <3>1 DEF EnHilo, TipoInv, TypeOK
    <3>3. estado[u] # E_NEW
      <4>1. SUFFICES ASSUME estado[u] = E_NEW PROVE FALSE OBVIOUS
      <4>2. pc[p] \in ConMultiprog /\ pc[q] \in ConMultiprog
        BY <1>3, <3>1, <4>1 DEF Motivo, ConLugar, ConMultiprog
      <4>3. QED BY <4>2, UnoConMultiprog
    <3>4. CASE new_queue' = new_queue BY <3>2, <3>4
    <3>5. CASE new_queue' = Append(new_queue, u)
      <4>1. Len(new_queue) \in Nat /\ 1 \in 1 .. Len(new_queue) BY <3>2, LenProperties, EmptySeq
      <4>2. Len(new_queue') = Len(new_queue) + 1 /\ new_queue'[1] = new_queue[1]
        BY <1>3, <3>2, <3>5, <4>1, AppendProperties
      <4>3. QED BY <3>2, <3>5, <4>1, <4>2
    <3>6. QED BY <1>3, <3>3, <3>4, <3>5 DEF Mueve
  <2>12. QED BY <2>7, <2>8, <2>9, <2>10, <2>11 DEF EnHilo
<1>4. QED BY <1>2, <1>3 DEF Efecto

-----------------------------------------------------------------------------
(* The steps that only move the handler                                    *)

ServidorInv == GradoInv /\ OrdenInv /\ CuentaInv /\ EsperaInv /\ TokenInv

LEMMA Partes ==
  ASSUME ServidorInv, NEW p \in Proc
  PROVE  /\ TipoInv /\ TypeOK /\ PedidoOK(p) /\ GradoInv
         /\ OrdenInv /\ EnColas /\ EnListas /\ EnNew /\ EnSem /\ EnJoin /\ EnHilo(p)
         /\ pc \in [Proc -> Pcs] /\ curr \in [Proc -> Tid \cup {SinULT}]
         /\ req \in [Proc -> Peticion]
BY DEF ServidorInv, GradoInv, TipoInv, TypeOK, OrdenInv

LEMMA Grados ==
  ASSUME ServidorInv
  PROVE  EsperaInv /\ ACTUAL_MULTIPROG \in Int /\ MAX_MULTIPROG \in Int
<1>1. EsperaInv /\ TypeOK BY DEF ServidorInv, GradoInv, TipoInv
<1>2. ACTUAL_MULTIPROG \in Int BY <1>1 DEF TypeOK
<1>3. MAX_MULTIPROG \in Int BY SusAssumption DEF SusAssumption
<1>4. QED BY <1>1, <1>2, <1>3

PcLibres == {"idle", "signal", "signal_sem", "fifo", "metricas", "sin_ult", "fin"}
MainPrimero(p) == estado[<<p, Main>>] = SinCrear => \A t \in Tid : estado[<<p, t>>] = SinCrear

LEMMA HiloLibre ==
  ASSUME NEW p \in Proc, pc'[p] \in PcLibres, MainPrimero(p)'
  PROVE  EnHilo(p)'
BY DEF PcLibres, MainPrimero, EnHilo, EnDesj

LEMMA MueveMain ==
  ASSUME TypeOK, NEW p \in Proc, EnHilo(p), NEW u, NEW e, Mueve(u, e),
         estado[u] # SinCrear \/ u = <<p, Main>> \/ estado[<<p, Main>>] # SinCrear
  PROVE  MainPrimero(p)'
<1>1. /\ u \in ULT /\ estado'[u] = e /\ \A x \in ULT : x # u => estado'[x] = estado[x]
      /\ e # SinCrear
  BY NombresDistintos DEF Mueve, TypeOK, Diagrama
<1>2. \A t \in Tid : <<p, t>> \in ULT BY DEF ULT
<1>3. Main \in Tid BY MainEnTid
<1>4. SUFFICES ASSUME estado'[<<p, Main>>] = SinCrear
               PROVE  \A t \in Tid : estado'[<<p, t>>] = SinCrear
  BY DEF MainPrimero
<1>5. u # <<p, Main>> /\ estado[<<p, Main>>] = SinCrear BY <1>1, <1>2, <1>3, <1>4
<1>6. \A t \in Tid : estado[<<p, t>>] = SinCrear BY <1>5 DEF EnHilo
<1>7. \A t \in Tid : u # <<p, t>> BY <1>5, <1>6
<1>8. QED BY <1>1, <1>2, <1>6, <1>7

LEMMA QuietaSi ==
  ASSUME UNCHANGED <<estado, procVars, colaVars, BLOCKED_LIST, ACTUAL_MULTIPROG, joinedBy>>
  PROVE  Quieto /\ READY_LIST' = READY_LIST
BY DEF Quieto, procVars, colaVars

LEMMA PasoQuietoHandler ==
  ASSUME ServidorInv, NEW p \in Proc,
         \/ create_valida(p) \/ toma_semaforos(p) \/ desjoinear_hilo(p) \/ desjoinear_valida(p)
         \/ close_segun_estado(p) \/ close_toma(p) \/ metricas_sistema(p)
  PROVE  Efecto(p) /\ EnHilo(p)'
<1>0. /\ TypeOK /\ PedidoOK(p) /\ EnHilo(p) /\ pc \in [Proc -> Pcs]
      /\ req \in [Proc -> Peticion]
  BY SMTT(60), Partes
<1>1. UNCHANGED <<estado, procVars, colaVars, BLOCKED_LIST, ACTUAL_MULTIPROG, joinedBy>>
  BY DEF create_valida, toma_semaforos, desjoinear_hilo, desjoinear_valida, close_segun_estado,
     close_toma, metricas_sistema, ultVars, semVars
<1>2. Quieto /\ READY_LIST' = READY_LIST BY <1>1, QuietaSi
<1>3. estado' = estado /\ EXEC_THREAD' = EXEC_THREAD /\ joinedBy' = joinedBy BY <1>2 DEF Quieto
<1>4. MainPrimero(p)' BY <1>0, <1>3 DEF MainPrimero, EnHilo
<1>5. CASE create_valida(p)
  <2>1. pc[p] = "create" /\ pc[p] \notin EnCierre
    BY <1>5 DEF create_valida, EnCierre, EnPedido
  <2>2. CASE pc'[p] = "create_admite" /\ req' = req
    BY <1>0, <1>2, <1>3, <2>1, <2>2 DEF EnHilo, EnDesj, Efecto, Avanza
  <2>3. CASE pc'[p] = "idle"
    <3>1. EnHilo(p)' BY <1>4, <2>3, HiloLibre DEF PcLibres
    <3>2. QED BY <1>2, <1>3, <2>1, <3>1 DEF Efecto, Avanza
  <2>4. QED BY <1>0, <1>5, <2>2, <2>3 DEF create_valida, Va, Responde
<1>6. CASE toma_semaforos(p)
  <2>1. /\ req' = req /\ curr' = curr /\ pc[p] \notin EnCierre
        /\ \/ pc[p] = "wait" /\ pc'[p] = "wait_sem"
           \/ pc'[p] = "signal_sem"
    BY <1>0, <1>6 DEF toma_semaforos, Va, EnCierre, EnPedido
  <2>2. CASE pc[p] = "wait" /\ pc'[p] = "wait_sem"
    BY <1>0, <1>2, <1>3, <2>1, <2>2 DEF EnHilo, EnDesj, Efecto, Avanza
  <2>3. CASE pc'[p] = "signal_sem"
    <3>1. EnHilo(p)' BY <1>4, <2>3, HiloLibre DEF PcLibres
    <3>2. QED BY <1>2, <1>3, <2>1, <3>1 DEF Efecto, Avanza
  <2>4. QED BY <2>1, <2>2, <2>3
<1>7. CASE desjoinear_hilo(p) \/ desjoinear_valida(p)
  <2>1. /\ pc[p] \in Desjoineando /\ pc'[p] \in Desjoineando
        /\ req'[p].tid = req[p].tid /\ req'[p].i >= req[p].i
    <3>1. CASE desjoinear_valida(p)
      BY <1>0, <3>1 DEF desjoinear_valida, Va, Desjoineando, EnDesj, Peticion
    <3>2. CASE desjoinear_hilo(p)
      <4>1. pc[p] \in Desjoineando /\ pc'[p] \in Desjoineando
        BY <1>0, <3>2 DEF desjoinear_hilo, Va, Desjoineando, EnDesj
      <4>2. req' = req \/ req' = [req EXCEPT ![p].i = req[p].i + 1]
        BY <3>2 DEF desjoinear_hilo
      <4>3. req'[p].tid = req[p].tid /\ (req'[p].i = req[p].i \/ req'[p].i = req[p].i + 1)
        BY <1>0, <4>2 DEF Peticion
      <4>4. req[p].i \in Nat BY <1>0 DEF Peticion
      <4>5. QED BY SMTT(60), <4>1, <4>3, <4>4
    <3>3. QED BY <1>7, <3>1, <3>2
  <2>2. Avanza(p) BY <1>3, <2>1 DEF Avanza, Desjoineando, EnDesj, EnCierre, EnPedido
  <2>3. EnHilo(p)' BY <1>0, <1>3, <2>1 DEF EnHilo, Desjoineando, EnDesj
  <2>4. QED BY <1>2, <2>2, <2>3 DEF Efecto
<1>8. CASE close_segun_estado(p)
  <2>1. pc[p] = "desjoinear" /\ req' = req BY <1>8 DEF close_segun_estado
  <2>2. estado[<<p, req[p].tid>>] \in {E_READY, E_EXECUTE} BY <1>0, <2>1 DEF EnHilo
  <2>3. \/ pc'[p] = "close_ready" /\ estado[<<p, req[p].tid>>] = E_READY
        \/ pc'[p] = "close_exec" /\ estado[<<p, req[p].tid>>] = E_EXECUTE
    BY <1>0, <1>8, <2>2, NombresDistintos DEF close_segun_estado, Va
  <2>4. Avanza(p) BY <1>3, <2>1, <2>3 DEF Avanza, Desjoineando, EnDesj, EnCierre, EnPedido
  <2>5. EnHilo(p)' BY <1>0, <1>3, <2>1, <2>3 DEF EnHilo, EnDesj
  <2>6. QED BY <1>2, <2>4, <2>5 DEF Efecto
<1>9. CASE close_toma(p)
  <2>1. /\ req' = req
        /\ \/ pc[p] = "close_ready" /\ pc'[p] = "close_ready_cs"
           \/ pc[p] = "close_exec" /\ pc'[p] = "close_exec_cs"
    BY <1>0, <1>9 DEF close_toma, Va, EnHilo
  <2>2. Avanza(p) BY <1>3, <2>1 DEF Avanza, Desjoineando, EnDesj, EnCierre, EnPedido
  <2>3. EnHilo(p)' BY <1>0, <1>3, <2>1 DEF EnHilo, EnDesj
  <2>4. QED BY <1>2, <2>2, <2>3 DEF Efecto
<1>10. CASE metricas_sistema(p)
  <2>1. pc[p] = "metricas" /\ pc'[p] = "idle" BY <1>0, <1>10 DEF metricas_sistema, Responde, Va
  <2>2. Avanza(p) BY <1>3, <2>1 DEF Avanza, EnCierre, EnPedido
  <2>3. EnHilo(p)' BY <1>4, <2>1, HiloLibre DEF PcLibres
  <2>4. QED BY <1>2, <2>2, <2>3 DEF Efecto
<1>11. QED BY <1>5, <1>6, <1>7, <1>8, <1>9, <1>10

LEMMA PasoQuietoPedido ==
  ASSUME Ordenados, ServidorInv, NEW p \in Proc,
         \/ \E t \in Tid : close_tid(p, t)
         \/ \E s \in Sem \cup {SemDesconocido} : handle_wait_sem(p, s) \/ handle_signal_sem(p, s)
         \/ desconexion(p)
  PROVE  Efecto(p) /\ EnHilo(p)'
<1>0. /\ TypeOK /\ EnHilo(p) /\ pc \in [Proc -> Pcs]
      /\ req \in [Proc -> Peticion]
  BY Partes
<1>1. UNCHANGED <<estado, procVars, colaVars, BLOCKED_LIST, ACTUAL_MULTIPROG, joinedBy>>
  BY DEF close_tid, handle_wait_sem, handle_signal_sem, desconexion, ultVars, semVars
<1>2. Quieto /\ READY_LIST' = READY_LIST BY <1>1, QuietaSi
<1>3. estado' = estado /\ EXEC_THREAD' = EXEC_THREAD /\ joinedBy' = joinedBy BY <1>2 DEF Quieto
<1>4. MainPrimero(p)' BY <1>0, <1>3 DEF MainPrimero, EnHilo
<1>5. pc[p] = "idle"
  BY DEF close_tid, handle_wait_sem, handle_signal_sem, desconexion, ClienteCorre, Conectado
<1>6. Efecto(p) BY <1>2, <1>3, <1>5 DEF Efecto, Avanza, EnCierre, EnPedido
<1>7. ASSUME NEW t \in Tid, close_tid(p, t) PROVE EnHilo(p)'
  <2>1. t # Main /\ PuedeCerrar(p, t) /\ req' = [req EXCEPT ![p] = [@ EXCEPT !.tid = t, !.i = 1]]
    BY <1>7 DEF close_tid
  <2>2. estado[<<p, t>>] \in {E_READY, E_EXECUTE} BY <2>1 DEF PuedeCerrar, Ordenados
  <2>3. pc'[p] = "desjoinear" /\ req'[p].tid = t
    <3>1. pc'[p] = "desjoinear" BY <1>0, <1>7 DEF close_tid, Va
    <3>2. req'[p].tid = t BY <1>0, <2>1 DEF Peticion
    <3>3. QED BY <3>1, <3>2
  <2>4. QED BY <1>3, <1>4, <2>2, <2>3 DEF EnHilo, EnDesj, MainPrimero
<1>8. ASSUME NEW s \in Sem \cup {SemDesconocido}, handle_wait_sem(p, s) PROVE EnHilo(p)'
  <2>1. EXEC_THREAD[p] = curr[p] /\ curr' = curr /\ pc'[p] = "wait"
    BY <1>0, <1>8 DEF handle_wait_sem, Ordenados, Va
  <2>2. QED BY <1>3, <1>4, <2>1 DEF EnHilo, EnDesj, MainPrimero
<1>9. ASSUME NEW s \in Sem \cup {SemDesconocido}, handle_signal_sem(p, s) PROVE EnHilo(p)'
  <2>1. pc'[p] = "signal" BY <1>0, <1>9 DEF handle_signal_sem, Va
  <2>2. QED BY <1>4, <2>1, HiloLibre DEF PcLibres
<1>10. CASE desconexion(p)
  <2>1. pc'[p] = "fin" BY <1>0, <1>10 DEF desconexion, Va
  <2>2. QED BY <1>4, <1>6, <2>1, HiloLibre DEF PcLibres
<1>11. QED BY <1>6, <1>7, <1>8, <1>9, <1>10

-----------------------------------------------------------------------------
(* The steps that move a ULT                                               *)

\* What the own handler has to show for a ULT that leaves neither NEW nor BLOCKED.
LEMMA EfectoPropio ==
  ASSUME NEW p \in Proc, NEW u \in ULT, NEW e \in Estados, Mueve(u, e), u[1] = p,
         estado[u] \notin {E_NEW, E_BLOCKED}, Avanza(p),
         BLOCKED_LIST' = BLOCKED_LIST \/ SemEntra(u, e)
  PROVE  Efecto(p)
<1>1. SemLista(u, e) BY DEF SemLista, SemIgual
<1>2. Ajeno(p, u, e) /\ Motivo(p, u) BY DEF Ajeno, Motivo
<1>3. QED BY <1>1, <1>2 DEF Efecto

LEMMA PasoCrear ==
  ASSUME ServidorInv, NEW p \in Proc, NEW t \in Tid,
         \/ handle_main_thread_create(p) /\ t = Main
         \/ handle_ULT_create(p, t)
  PROVE  /\ Efecto(p) /\ EnHilo(p)'
         /\ <<p, t>> \in ULT /\ estado[<<p, t>>] = SinCrear /\ Mueve(<<p, t>>, E_NEW)
<1> DEFINE u == <<p, t>>
<1>0. /\ TypeOK /\ GradoInv /\ OrdenInv /\ EnListas /\ EnHilo(p) /\ pc \in [Proc -> Pcs] /\ u \in ULT
      /\ req \in [Proc -> Peticion]
  BY Partes DEF ULT
<1>1. /\ ULT_create(p, t) /\ pc[p] = "idle" /\ estado[u] = SinCrear
      /\ t = Main \/ (t # Main /\ estado[<<p, Main>>] # SinCrear)
  BY DEF handle_main_thread_create, handle_ULT_create, ClienteCorre, Conectado, ProximoTid
<1>2. /\ estado' = [estado EXCEPT ![u] = E_NEW] /\ new_queue' = Append(new_queue, u)
      /\ UNCHANGED <<READY_LIST, EXEC_THREAD, semaforoReady, blocked_queue, exit_queue,
                     ACTUAL_MULTIPROG, BLOCKED_LIST, joinedBy>>
  BY <1>1 DEF ULT_create, procVars, semVars
<1>3. Mueve(u, E_NEW)
  <2>1. ~ EnAdmision(u) BY <1>0, <1>1, SinAdmision, NombresDistintos
  <2> HIDE DEF u
  <2>2. QED BY <1>0, <1>1, <1>2, <2>1, NuevoMueve
<1>4. pc'[p] = "create" /\ req'[p].tid = t BY <1>0, <1>1 DEF ULT_create, Va, Peticion
<1>5. Avanza(p) BY <1>1, <1>2 DEF Avanza, EnCierre, EnPedido
<1>6. Efecto(p)
  <2>1. estado[u] \notin {E_NEW, E_BLOCKED} /\ E_NEW \in Estados /\ u[1] = p
    BY <1>1, NombresDistintos DEF Estados
  <2>2. QED BY <1>0, <1>2, <1>3, <1>5, <2>1, EfectoPropio
<1>7. MainPrimero(p)' BY <1>0, <1>1, <1>3, MueveMain
<1>8. t = Main => \A x \in Tid \ {Main} : estado'[<<p, x>>] = SinCrear
  <2>1. SUFFICES ASSUME t = Main, NEW x \in Tid \ {Main} PROVE estado'[<<p, x>>] = SinCrear
    OBVIOUS
  <2>2. estado[<<p, x>>] = SinCrear BY <1>0, <1>1, <2>1 DEF EnHilo
  <2>3. <<p, x>> \in ULT /\ <<p, x>> # u BY <2>1 DEF ULT
  <2>4. QED BY <1>0, <1>2, <2>2, <2>3 DEF TypeOK
<1>9. estado'[<<p, t>>] = E_NEW BY <1>0, <1>2 DEF TypeOK
<1>10. EnHilo(p)' BY <1>4, <1>7, <1>8, <1>9 DEF EnHilo, EnDesj, MainPrimero
<1>11. QED BY <1>0, <1>1, <1>3, <1>6, <1>10

\* Only one handler can be admitting: it holds mutex_multiprog and found room.
LEMMA UnoAdmite ==
  ASSUME ServidorInv, NEW p \in Proc, pc[p] \in ConMultiprog
  PROVE  /\ \A q \in Proc : q # p => pc[q] \notin ConMultiprog
         /\ pc[p] \in ConLugar => ACTUAL_MULTIPROG < MAX_MULTIPROG
         /\ ACTUAL_MULTIPROG < MAX_MULTIPROG /\ pc[p] \notin {"fifo", "fifo_listo"} => NuevosEnAlta
<1>1. GradoInv /\ EsperaInv BY DEF ServidorInv
<1>2. mutex["multiprog"] = p /\ \A q \in Proc : pc[q] \in ConMultiprog => mutex["multiprog"] = q
  BY <1>1 DEF GradoInv
<1>3. \A q \in Proc : q # p => pc[q] \notin ConMultiprog BY <1>2
<1>4. {"fifo", "fifo_listo"} \subseteq ConMultiprog BY DEF ConMultiprog
<1>5. QED BY <1>1, <1>3, <1>4 DEF GradoInv, EsperaInv

LEMMA PasoAdmite ==
  ASSUME ServidorInv, NEW p \in Proc, create_admite(p)
  PROVE  /\ Efecto(p) /\ EnHilo(p)'
         /\ <<p, req[p].tid>> \in ULT /\ estado'[<<p, req[p].tid>>] # E_NEW
<1> DEFINE t == req[p].tid
           u == <<p, t>>
<1>0. /\ TypeOK /\ GradoInv /\ OrdenInv /\ EnColas /\ EnListas /\ PedidoOK(p) /\ EnHilo(p)
      /\ pc \in [Proc -> Pcs]
  BY Partes
<1>1. pc[p] = "create_admite" /\ pc[p] \in ConMultiprog /\ pc[p] # "fifo_listo"
  BY DEF create_admite, ConMultiprog
<1>2. t \in Tid /\ u \in ULT BY <1>0, <1>1 DEF PedidoOK, EnPedido, ULT
<1>3. /\ estado[u] \in {E_NEW, E_READY}
      /\ t = Main => \A x \in Tid \ {Main} : estado[<<p, x>>] = SinCrear
  BY <1>0, <1>1 DEF EnHilo
<1>4. ACTUAL_MULTIPROG < MAX_MULTIPROG /\ NuevosEnAlta
  BY <1>1, UnoAdmite DEF ConLugar
<1>a. ~ EnAdmision(u) BY <1>0, <1>1, <1>2, SinAdmision
<1>5. PICK e \in {E_READY, E_EXECUTE} : Mueve(u, e)
  <2>1. CASE t = Main
    <3>1. EXEC_THREAD[p] = SinULT
      <4>1. SUFFICES ASSUME EXEC_THREAD[p] # SinULT PROVE FALSE OBVIOUS
      <4>2. EXEC_THREAD[p] \in Tid BY <1>0, <4>1 DEF TypeOK
      <4>3. estado[<<p, EXEC_THREAD[p]>>] = E_EXECUTE BY <1>0, <4>2 DEF EnColas, ULT
      <4>4. QED BY <1>3, <2>1, <4>2, <4>3, NombresDistintos
    <3>2. nuevo_a_ejecucion(u) BY <2>1 DEF create_admite
    <3>3. Mueve(u, E_EXECUTE)
      <4>1. /\ new_queue' = NewSin(u, estado[u]) /\ blocked_queue' = BlockedSin(u, estado[u])
            /\ READY_LIST' = ReadySin(u, estado[u]) /\ exit_queue' = exit_queue
            /\ EXEC_THREAD' = [EXEC_THREAD EXCEPT ![u[1]] = u[2]]
            /\ estado' = [estado EXCEPT ![u] = E_EXECUTE]
            /\ ACTUAL_MULTIPROG' = ACTUAL_MULTIPROG + 1 /\ semaforoReady' = semaforoReady
        BY <3>2 DEF nuevo_a_ejecucion
      <4> HIDE DEF u
      <4>2. EXEC_THREAD[u[1]] = SinULT BY <3>1 DEF u
      <4>3. QED BY <1>0, <1>2, <1>3, <1>a, <4>1, <4>2, EjecutaMueve
    <3>4. QED BY <3>3
  <2>2. CASE t # Main
    <3>1. A_listo(u) /\ ACTUAL_MULTIPROG' = ACTUAL_MULTIPROG + 1
      BY <2>2 DEF create_admite, nuevo_a_listo
    <3>2. Mueve(u, E_READY)
      <4> HIDE DEF u
      <4>1. QED BY <1>0, <1>2, <1>3, <1>a, <3>1, AListoMueve
    <3>3. QED BY <3>2
  <2>3. QED BY <2>1, <2>2
<1>6. Efecto(p)
  <2>1. BLOCKED_LIST' = BLOCKED_LIST /\ joinedBy' = joinedBy /\ u[1] = p
    BY DEF create_admite, semVars
  <2>2. Avanza(p) BY <1>1, <2>1 DEF Avanza, EnCierre, EnPedido
  <2>3. SemLista(u, e) BY <1>3, <2>1, NombresDistintos DEF SemLista, SemIgual
  <2>4. Motivo(p, u) BY <1>1, <1>3, <1>4, NombresDistintos DEF Motivo, ConLugar
  <2>5. Ajeno(p, u, e) BY <2>1 DEF Ajeno
  <2>6. e \in Estados BY DEF Estados
  <2>7. QED BY <1>2, <1>5, <2>2, <2>3, <2>4, <2>5, <2>6 DEF Efecto
<1>7. MainPrimero(p)' BY <1>0, <1>3, <1>5, MueveMain, NombresDistintos
<1>8. pc'[p] = "idle" BY <1>0 DEF create_admite, Responde, Va
<1>9. estado'[u] = e /\ e # E_NEW
  BY <1>0, <1>2, <1>5, NombresDistintos DEF Mueve, TypeOK
<1>10. QED BY <1>2, <1>6, <1>7, <1>8, <1>9, HiloLibre DEF PcLibres

LEMMA PasoProximo ==
  ASSUME ServidorInv, NEW p \in Proc, obtener_proximo_ejecutar(p), ~ cruce'
  PROVE  Efecto(p) /\ EnHilo(p)'
<1>0. /\ TypeOK /\ EnListas /\ EnHilo(p) /\ pc \in [Proc -> Pcs] BY Partes
<1>1. /\ pc[p] = "sem_ready" /\ EXEC_THREAD[p] = SinULT
      /\ joinedBy' = joinedBy /\ BLOCKED_LIST' = BLOCKED_LIST
      /\ ACTUAL_MULTIPROG' = ACTUAL_MULTIPROG
      /\ semaforoReady' = [semaforoReady EXCEPT ![p] = @ - 1]
  BY <1>0 DEF obtener_proximo_ejecutar, EnHilo, semVars, Wait
<1>2. Avanza(p) BY <1>1 DEF Avanza, EnCierre, EnPedido
<1>3. \A q \in Proc \ {p} : semaforoReady'[q] = semaforoReady[q] BY <1>0, <1>1 DEF TypeOK
<1>4. CASE /\ EnLista(p) = {} /\ Va(p, "sin_ult")
           /\ UNCHANGED <<estado, EXEC_THREAD, READY_LIST, colaVars, curr, req, cruce>>
  <2>0. Listos(p) = {}
    <3>1. SUFFICES ASSUME NEW t \in Listos(p) PROVE FALSE OBVIOUS
    <3>2. t \in Tid /\ <<p, t>> \in ULT /\ estado[<<p, t>>] = E_READY BY DEF Listos, ULT
    <3>3. READY_LIST[<<p, t>>] = 1 BY <1>0, <3>2 DEF EnListas, Uno
    <3>4. READY_LIST[<<p, t>>] > 0 BY <3>3
    <3>5. QED BY <1>4, <3>2, <3>4 DEF EnLista
  <2>1. Quieto BY <1>1, <1>3, <1>4, <2>0 DEF Quieto, colaVars
  <2>2. MainPrimero(p)' BY <1>0, <1>4 DEF MainPrimero, EnHilo
  <2>3. pc'[p] = "sin_ult" BY <1>0, <1>4 DEF Va
  <2>4. QED BY <1>2, <1>4, <2>1, <2>2, <2>3, HiloLibre DEF Efecto, PcLibres
<1>5. ASSUME NEW t \in EnLista(p),
             new_queue' = NewSin(<<p, t>>, estado[<<p, t>>]),
             blocked_queue' = BlockedSin(<<p, t>>, estado[<<p, t>>]),
             READY_LIST' = ReadySin(<<p, t>>, estado[<<p, t>>]),
             EXEC_THREAD' = [EXEC_THREAD EXCEPT ![p] = t],
             estado' = [estado EXCEPT ![<<p, t>>] = E_EXECUTE], exit_queue' = exit_queue,
             cruce' = (cruce \/ EnAdmision(<<p, t>>)), Responde(p)
      PROVE  Efecto(p) /\ EnHilo(p)'
  <2> DEFINE u == <<p, t>>
  <2>1. t \in Tid /\ u \in ULT BY DEF EnLista, ULT
  <2>a. ~ EnAdmision(u) BY <1>5
  <2>2. estado[u] = E_READY
    <3>1. READY_LIST[u] = Uno(estado[u] = E_READY) BY <1>0, <2>1, <2>a, ListaDe
    <3>2. READY_LIST[u] > 0 BY DEF EnLista
    <3>3. QED BY <3>1, <3>2 DEF Uno
  <2>3. Mueve(u, E_EXECUTE)
    <3>1. /\ u[1] = p /\ u[2] = t /\ semaforoReady'[p] = semaforoReady[p] - 1
      BY <1>0, <1>1 DEF TypeOK
    <3>2. /\ new_queue' = NewSin(u, estado[u]) /\ blocked_queue' = BlockedSin(u, estado[u])
          /\ READY_LIST' = ReadySin(u, estado[u]) /\ exit_queue' = exit_queue
          /\ EXEC_THREAD' = [EXEC_THREAD EXCEPT ![u[1]] = u[2]]
          /\ estado' = [estado EXCEPT ![u] = E_EXECUTE]
          /\ \A q \in Proc \ {u[1]} : semaforoReady'[q] = semaforoReady[q]
          /\ semaforoReady'[u[1]] = semaforoReady[u[1]] - 1 /\ EXEC_THREAD[u[1]] = SinULT
      BY <1>1, <1>3, <1>5, <3>1
    <3> HIDE DEF u
    <3>3. QED BY <1>0, <1>1, <2>1, <2>2, <2>a, <3>2, NombresDistintos, EjecutaMueve
  <2>4. Efecto(p)
    <3>1. estado[u] \notin {E_NEW, E_BLOCKED} /\ E_EXECUTE \in Estados /\ u[1] = p
      BY <2>2, NombresDistintos DEF Estados
    <3>2. QED BY <1>1, <1>2, <2>1, <2>3, <3>1, EfectoPropio
  <2>5. MainPrimero(p)' BY <1>0, <2>2, <2>3, MueveMain, NombresDistintos
  <2>6. pc'[p] = "idle" BY <1>0, <1>5 DEF Responde, Va
  <2>7. QED BY <2>4, <2>5, <2>6, HiloLibre DEF PcLibres
<1>6. QED BY <1>4, <1>5 DEF obtener_proximo_ejecutar

LEMMA PasoEspera ==
  ASSUME ServidorInv, NEW p \in Proc, decrementar_semaforo(p)
  PROVE  Efecto(p) /\ EnHilo(p)'
<1> DEFINE s == req[p].sem
           u == <<p, curr[p]>>
<1>0. /\ TypeOK /\ GradoInv /\ OrdenInv /\ EnColas /\ EnListas /\ PedidoOK(p) /\ EnHilo(p)
      /\ pc \in [Proc -> Pcs]
  BY Partes
<1>1. pc[p] = "wait_sem" /\ ACTUAL_MULTIPROG' = ACTUAL_MULTIPROG /\ joinedBy' = joinedBy
  BY DEF decrementar_semaforo
<1>2. Avanza(p) BY <1>1 DEF Avanza, EnCierre, EnPedido
<1>3. pc'[p] = "idle" BY <1>0 DEF decrementar_semaforo, Responde, Va
<1>4. CASE s \in Sem /\ VALUE[s] <= 0
  <2>1. u \in ULT /\ u[1] = p BY <1>0, <1>1 DEF PedidoOK, ULT
  <2>2. estado[u] = E_EXECUTE BY <1>0, <1>1, <2>1 DEF EnHilo, EnColas
  <2>3. A_bloqueado(u) /\ BLOCKED_LIST' = [BLOCKED_LIST EXCEPT ![s] = Append(@, u)]
    BY <1>4 DEF decrementar_semaforo
  <2>4. Mueve(u, E_BLOCKED)
    <3>1. ~ EnAdmision(u) BY <1>0, <2>1, <2>2, SinAdmision, NombresDistintos
    <3> HIDE DEF u
    <3>2. QED BY <1>0, <1>1, <2>1, <2>2, <2>3, <3>1, BloqueadoMueve
  <2>5. SemEntra(u, E_BLOCKED) BY <1>4, <2>3 DEF SemEntra
  <2>6. Efecto(p)
    <3>1. estado[u] \notin {E_NEW, E_BLOCKED} /\ E_BLOCKED \in Estados
      BY <2>2, NombresDistintos DEF Estados
    <3>2. QED BY <1>2, <2>1, <2>4, <2>5, <3>1, EfectoPropio
  <2>7. MainPrimero(p)' BY <1>0, <2>2, <2>4, MueveMain, NombresDistintos
  <2>8. QED BY <1>3, <2>6, <2>7, HiloLibre DEF PcLibres
<1>5. CASE ~ (s \in Sem /\ VALUE[s] <= 0)
  <2>1. UNCHANGED <<estado, procVars, colaVars, BLOCKED_LIST>>
    BY <1>5 DEF decrementar_semaforo, semVars
  <2>2. Quieto /\ READY_LIST' = READY_LIST BY <1>1, <2>1, QuietaSi
  <2>3. MainPrimero(p)' BY <1>0, <2>1 DEF MainPrimero, EnHilo
  <2>4. QED BY <1>2, <1>3, <2>2, <2>3, HiloLibre DEF Efecto, PcLibres
<1>6. QED BY <1>4, <1>5

LEMMA PasoSenial ==
  ASSUME ServidorInv, NEW p \in Proc, incrementar_semaforo(p)
  PROVE  Efecto(p) /\ EnHilo(p)'
<1> DEFINE s == req[p].sem
           u == PrimerEspera(s)
<1>0. /\ TypeOK /\ GradoInv /\ OrdenInv /\ EnListas /\ EnSem /\ EnHilo(p) /\ pc \in [Proc -> Pcs]
  BY Partes
<1>1. pc[p] = "signal_sem" /\ joinedBy' = joinedBy
  BY DEF incrementar_semaforo
<1>2. Avanza(p) BY <1>1 DEF Avanza, EnCierre, EnPedido
<1>3. pc'[p] = "idle" BY <1>0 DEF incrementar_semaforo, Responde, Va
<1>4. CASE ~ signal_rechazado(p) /\ BLOCKED_LIST[s] # <<>>
  <2>1. /\ s \in Sem /\ VALUE' = [VALUE EXCEPT ![s] = @ + 1]
        /\ A_listo(u) /\ ACTUAL_MULTIPROG' = ACTUAL_MULTIPROG
        /\ BLOCKED_LIST' = [BLOCKED_LIST EXCEPT ![s] = Tail(@)]
    BY <1>4 DEF incrementar_semaforo, signal_rechazado, bloqueado_a_listo
  <2>2. u \in ULT /\ u = Head(BLOCKED_LIST[s]) /\ estado[u] = E_BLOCKED
    <3>1. BLOCKED_LIST[s] \in Seq(ULT) /\ Len(BLOCKED_LIST[s]) \in Nat
      BY <1>0, <2>1, SemElementos
    <3>2. 1 \in 1 .. Len(BLOCKED_LIST[s]) BY <1>4, <3>1, EmptySeq
    <3>3. Head(BLOCKED_LIST[s]) = BLOCKED_LIST[s][1] BY <1>4, <3>1
    <3>4. u = BLOCKED_LIST[s][1] /\ u = Head(BLOCKED_LIST[s]) BY <3>3 DEF PrimerEspera
    <3>5. QED BY <1>0, <2>1, <3>1, <3>2, <3>4, ElementOfSeq DEF EnSem
  <2>3. Mueve(u, E_READY)
    <3>1. ~ EnAdmision(u) BY <1>0, <2>2, SinAdmision, NombresDistintos
    <3> HIDE DEF u
    <3>2. QED BY <1>0, <2>1, <2>2, <3>1, AListoMueve, NombresDistintos
  <2>4. SemSale(u) BY <1>0, <1>4, <2>1, <2>2 DEF SemSale, TypeOK
  <2>5. Ajeno(p, u, E_READY) /\ Motivo(p, u) /\ SemLista(u, E_READY) /\ E_READY \in Estados
    BY <2>2, <2>4, NombresDistintos DEF Ajeno, Motivo, SemLista, Estados
  <2>6. Efecto(p) BY <1>2, <2>2, <2>3, <2>5 DEF Efecto
  <2>7. MainPrimero(p)' BY <1>0, <2>2, <2>3, MueveMain, NombresDistintos
  <2>8. QED BY <1>3, <2>6, <2>7, HiloLibre DEF PcLibres
<1>5. CASE signal_rechazado(p) \/ BLOCKED_LIST[s] = <<>>
  <2>1. UNCHANGED <<estado, procVars, colaVars, BLOCKED_LIST, ACTUAL_MULTIPROG>>
    BY <1>5 DEF incrementar_semaforo, semVars
  <2>2. Quieto /\ READY_LIST' = READY_LIST BY <1>1, <2>1, QuietaSi
  <2>3. MainPrimero(p)' BY <1>0, <2>1 DEF MainPrimero, EnHilo
  <2>4. QED BY <1>2, <1>3, <2>2, <2>3, HiloLibre DEF Efecto, PcLibres
<1>6. QED BY <1>4, <1>5

LEMMA PasoDesjoinear ==
  ASSUME ServidorInv, NEW p \in Proc, desjoinear_mueve(p)
  PROVE  Efecto(p) /\ EnHilo(p)'
<1> DEFINE t == req[p].tid
           i == req[p].i
           u == Joiner(p, t, i)
<1>0. /\ TipoInv /\ TypeOK /\ GradoInv /\ OrdenInv /\ EnListas /\ EnJoin /\ EnHilo(p)
      /\ pc \in [Proc -> Pcs]
      /\ req \in [Proc -> Peticion]
  BY Partes
<1>1. pc[p] \in EnDesj /\ joinedBy' = joinedBy /\ BLOCKED_LIST' = BLOCKED_LIST
  BY DEF desjoinear_mueve, EnDesj, semVars
<1>2. t \in Tid /\ i \in Nat /\ Pendiente(p, t, i) BY <1>0, <1>1, DesjoineaPendiente
<1>3. u \in ULT /\ u[1] = p BY <1>0, <1>2, JoinerEsULT DEF Joiner
<1>4. estado[u] = E_BLOCKED /\ EnNinguna(u) BY <1>0, <1>2 DEF EnJoin, EnNinguna
<1>a. ~ EnAdmision(u) BY <1>0, <1>3, <1>4, SinAdmision, NombresDistintos
<1>5. estado[<<p, t>>] \in {E_READY, E_EXECUTE} BY <1>0, <1>1 DEF EnHilo
<1>6. PICK e \in {E_READY, E_NEW} : Mueve(u, e)
  <2> DEFINE w == <<p, joinedBy[<<p, req[p].tid>>][req[p].i]>>
  <2>1. w = u BY DEF Joiner
  <2>2. CASE bloqueado_a_listo(w)
    <3>1. A_listo(w) /\ ACTUAL_MULTIPROG' = ACTUAL_MULTIPROG BY <2>2 DEF bloqueado_a_listo
    <3>2. A_listo(u) BY <2>1, <3>1
    <3> HIDE DEF u
    <3>3. estado[u] \in {E_NEW, E_READY, E_BLOCKED} /\ estado[u] # E_NEW
      BY <1>4, NombresDistintos
    <3>4. Mueve(u, E_READY) BY <1>0, <1>3, <1>a, <3>1, <3>2, <3>3, AListoMueve
    <3>5. QED BY <3>4
  <2>3. CASE /\ estado' = [estado EXCEPT ![w] = E_NEW] /\ new_queue' = Append(new_queue, w)
             /\ UNCHANGED <<procVars, blocked_queue, exit_queue, ACTUAL_MULTIPROG>>
    <3>1. /\ estado' = [estado EXCEPT ![u] = E_NEW] /\ new_queue' = Append(new_queue, u)
          /\ UNCHANGED <<READY_LIST, EXEC_THREAD, semaforoReady, blocked_queue, exit_queue,
                         ACTUAL_MULTIPROG>>
      BY <2>1, <2>3 DEF procVars
    <3> HIDE DEF u
    <3>2. Mueve(u, E_NEW) BY <1>0, <1>3, <1>4, <1>a, <3>1, NuevoMueve
    <3>3. QED BY <3>2
  <2>4. QED BY <2>2, <2>3 DEF desjoinear_mueve
<1>7. pc'[p] = "desjoinear" /\ req'[p].tid = t /\ req'[p].i = i + 1
  <2>1. req' = [req EXCEPT ![p].i = req[p].i + 1] BY DEF desjoinear_mueve
  <2>2. QED BY <1>0, <2>1 DEF desjoinear_mueve, Va, Peticion
<1>8. Efecto(p)
  <2>1. req'[p].i >= req[p].i BY <1>2, <1>7
  <2>2. Avanza(p)
    BY <1>1, <1>7, <2>1 DEF Avanza, Desjoineando, EnDesj, EnCierre, EnPedido
  <2>3. SemLista(u, e) BY <1>1, <1>4 DEF SemLista, SemIgual
  <2>4. Motivo(p, u) BY <1>1, <1>4, <1>7, NombresDistintos DEF Motivo, Desjoinea
  <2>5. Ajeno(p, u, e) /\ e \in Estados BY <1>3 DEF Ajeno, Estados
  <2>6. QED BY <1>3, <1>6, <2>2, <2>3, <2>4, <2>5 DEF Efecto
<1>9. MainPrimero(p)' BY <1>0, <1>4, <1>6, MueveMain, NombresDistintos
<1>10. estado'[<<p, t>>] = estado[<<p, t>>]
  <2>1. <<p, t>> # u /\ <<p, t>> \in ULT BY <1>2, <1>4, <1>5, NombresDistintos DEF ULT
  <2> HIDE DEF u
  <2>2. QED BY <1>0, <1>6, <2>1 DEF Mueve, TypeOK
<1>11. EnHilo(p)' BY <1>5, <1>7, <1>9, <1>10 DEF EnHilo, EnDesj, MainPrimero
<1>12. QED BY <1>8, <1>11

LEMMA PasoDevuelve ==
  ASSUME ServidorInv, NEW p \in Proc, close_devuelve(p)
  PROVE  /\ Efecto(p) /\ EnHilo(p)'
         /\ new_queue' = new_queue /\ pc[p] \in {"close_ready_cs", "close_exec_cs"}
<1> DEFINE t == req[p].tid
           u == <<p, t>>
<1>0. /\ TypeOK /\ GradoInv /\ OrdenInv /\ EnListas /\ PedidoOK(p) /\ EnHilo(p)
      /\ pc \in [Proc -> Pcs]
  BY Partes
<1>1. /\ pc[p] \in {"close_ready_cs", "close_exec_cs"}
      /\ joinedBy' = joinedBy /\ BLOCKED_LIST' = BLOCKED_LIST
      /\ ACTUAL_MULTIPROG' = ACTUAL_MULTIPROG - 1
  BY <1>0 DEF close_devuelve, EnHilo, semVars
<1>2. t \in Tid /\ u \in ULT /\ u[1] = p /\ u[2] = t
  BY <1>0, <1>1 DEF PedidoOK, EnPedido, ULT
<1>a. ~ EnAdmision(u)
  <2>1. pc[p] \in ConMultiprog /\ pc[p] # "fifo_listo" BY <1>1 DEF ConMultiprog
  <2>2. QED BY <1>0, <1>2, <2>1, SinAdmision
<1>3. /\ estado[u] \in {E_READY, E_EXECUTE}
      /\ Mueve(u, E_EXIT) /\ new_queue' = new_queue
  <2>1. CASE pc[p] = "close_ready_cs"
    <3>1. estado[u] = E_READY BY <1>0, <2>1 DEF EnHilo
    <3>2. /\ A_exit(u) /\ semaforoReady' = [semaforoReady EXCEPT ![p] = @ - 1]
      BY <2>1 DEF close_devuelve, Wait
    <3>3. /\ new_queue' = new_queue /\ blocked_queue' = blocked_queue
          /\ EXEC_THREAD' = ExecSin(u, estado[u]) /\ estado' = [estado EXCEPT ![u] = E_EXIT]
          /\ READY_LIST' = ReadySin(u, estado[u]) /\ exit_queue' = exit_queue \cup {u}
      BY <3>1, <3>2, NombresDistintos DEF A_exit, NewSin, BlockedSin
    <3>7. \A x \in ULT : READY_LIST'[x] = IF x = u THEN 0 ELSE READY_LIST[x]
      <4> HIDE DEF u
      <4>1. \A x \in ULT : ReadySin(u, estado[u])[x] = IF x = u THEN 0 ELSE READY_LIST[x]
        BY <1>0, <1>2, <1>a, ListaDe
      <4>2. QED BY <3>3, <4>1
    <3>4. /\ \A q \in Proc \ {u[1]} : semaforoReady'[q] = semaforoReady[q]
          /\ semaforoReady'[u[1]] + Uno(estado[u] = E_READY) >= semaforoReady[u[1]]
      BY <1>0, <1>2, <3>1, <3>2 DEF TypeOK, Uno
    <3>5. <<estado[u], E_EXIT>> \in Diagrama BY <3>1, DiagramaPasos
    <3> HIDE DEF u
    <3>8. E_EXIT # Liberado BY NombresDistintos
    <3>6. QED BY <1>0, <1>1, <1>2, <3>1, <3>3, <3>4, <3>5, <3>7, <3>8, TerminaMueve
  <2>2. CASE pc[p] = "close_exec_cs"
    <3>1. estado[u] = E_EXECUTE BY <1>0, <2>2 DEF EnHilo
    <3>2. /\ EXEC_THREAD' = [EXEC_THREAD EXCEPT ![p] = SinULT]
          /\ estado' = [estado EXCEPT ![u] = E_EXIT]
          /\ READY_LIST' = READY_LIST /\ semaforoReady' = semaforoReady
          /\ new_queue' = new_queue /\ blocked_queue' = blocked_queue
          /\ exit_queue' = exit_queue \cup {u}
      BY <2>2 DEF close_devuelve
    <3>3. EXEC_THREAD' = ExecSin(u, estado[u]) BY <3>1, <3>2 DEF ExecSin
    <3>4. \A x \in ULT : READY_LIST'[x] = IF x = u THEN 0 ELSE READY_LIST[x]
      <4> HIDE DEF u
      <4>1. READY_LIST[u] = 0 BY <1>0, <1>2, <1>a, <3>1, ListaDe, NombresDistintos DEF Uno
      <4>2. QED BY <3>2, <4>1
    <3>5. /\ \A q \in Proc \ {u[1]} : semaforoReady'[q] = semaforoReady[q]
          /\ semaforoReady'[u[1]] + Uno(estado[u] = E_READY) >= semaforoReady[u[1]]
      BY <1>0, <1>2, <3>1, <3>2 DEF TypeOK, Uno
    <3>6. <<estado[u], E_EXIT>> \in Diagrama BY <3>1, DiagramaPasos
    <3> HIDE DEF u
    <3>8. E_EXIT # Liberado BY NombresDistintos
    <3>7. QED BY <1>0, <1>1, <1>2, <3>1, <3>2, <3>3, <3>4, <3>5, <3>6, <3>8, TerminaMueve
  <2>3. QED BY <1>1, <2>1, <2>2
<1>4. Efecto(p)
  <2>1. estado'[u] = E_EXIT
    <3> HIDE DEF u
    <3>1. QED BY <1>0, <1>2, <1>3 DEF Mueve, TypeOK
  <2>2. Avanza(p) BY <1>1, <2>1 DEF Avanza
  <2>3. estado[u] \notin {E_NEW, E_BLOCKED} /\ E_EXIT \in Estados
    BY <1>3, NombresDistintos DEF Estados
  <2> HIDE DEF u
  <2>4. QED BY <1>1, <1>2, <1>3, <2>2, <2>3, EfectoPropio
<1>5. MainPrimero(p)' BY <1>0, <1>3, MueveMain, NombresDistintos
<1>6. pc'[p] \in {"fifo", "metricas"} BY <1>0 DEF close_devuelve, Va
<1>7. EnHilo(p)' BY <1>5, <1>6, HiloLibre DEF PcLibres
<1>8. QED BY <1>1, <1>3, <1>4, <1>7

LEMMA PasoFifo ==
  ASSUME ServidorInv, NEW p \in Proc, obtener_ULT_ready_FIFO(p)
  PROVE  /\ Efecto(p) /\ EnHilo(p)'
         /\ new_queue' = new_queue /\ ACTUAL_MULTIPROG' = ACTUAL_MULTIPROG
         /\ new_queue' = <<>> \/ pc'[p] = "fifo_listo"
<1> DEFINE u == Proximo
<1>0. /\ TypeOK /\ EnNew /\ EnHilo(p) /\ pc \in [Proc -> Pcs] /\ req \in [Proc -> Peticion]
  BY Partes
<1>1. /\ pc[p] = "fifo" /\ joinedBy' = joinedBy
      /\ UNCHANGED <<estado, EXEC_THREAD, semaforoReady, new_queue, blocked_queue, exit_queue,
                     BLOCKED_LIST, ACTUAL_MULTIPROG>>
  BY DEF obtener_ULT_ready_FIFO, ultVars, colaVars, semVars
<1>2. Efecto(p)
  <2>1. Quieto BY <1>1 DEF Quieto
  <2>2. pc[p] \notin EnCierre \/ (pc'[p] \in EnCierre /\ req'[p].tid = req[p].tid /\ pc'[p] \notin Desjoineando)
    <3>1. pc'[p] \in {"metricas", "fifo_listo"} BY <1>0 DEF obtener_ULT_ready_FIFO, Va
    <3>2. req'[p].tid = req[p].tid
      <4>1. req' = req \/ req' = [req EXCEPT ![p] = [@ EXCEPT !.th = Proximo, !.leido = estado[Proximo]]]
        BY DEF obtener_ULT_ready_FIFO
      <4>2. QED BY <1>0, <4>1 DEF Peticion
    <3>3. QED BY <1>1, <3>1, <3>2 DEF EnCierre, EnPedido, Desjoineando, EnDesj
  <2>3. Avanza(p) BY <1>1, <2>2 DEF Avanza
  <2>4. QED BY <1>1, <2>1, <2>3 DEF Efecto
<1>3. MainPrimero(p)' BY <1>0, <1>1 DEF MainPrimero, EnHilo
<1>4. CASE new_queue = <<>>
  <2>1. pc'[p] = "metricas" BY <1>0, <1>4 DEF obtener_ULT_ready_FIFO, Va
  <2>2. QED BY <1>1, <1>2, <1>3, <1>4, <2>1, HiloLibre DEF PcLibres
<1>5. CASE new_queue # <<>>
  <2>1. pc'[p] = "fifo_listo"
    BY <1>0, <1>5 DEF obtener_ULT_ready_FIFO, Va
  <2>2. req' = [req EXCEPT ![p] = [@ EXCEPT !.th = u, !.leido = estado[u]]]
    BY <1>5 DEF obtener_ULT_ready_FIFO
  <2>3. req'[p].th = u /\ req'[p].leido = estado[u]
    <3> HIDE DEF u
    <3>1. QED BY <1>0, <2>2 DEF Peticion
  <2>4. u \in ULT /\ estado[u] = E_NEW /\ u = Head(new_queue)
    <3>1. new_queue \in Seq(ULT) /\ Len(new_queue) \in Nat BY <1>0, LenProperties DEF TypeOK
    <3>2. 1 \in 1 .. Len(new_queue) BY <1>5, <3>1, EmptySeq
    <3>3. Head(new_queue) = new_queue[1] /\ new_queue[1] \in ULT
      BY <1>5, <3>1, <3>2, ElementOfSeq
    <3>4. QED BY <1>0, <3>2, <3>3 DEF EnNew, Proximo
  <2>5. EnHilo(p)' BY <1>1, <1>3, <1>5, <2>1, <2>3, <2>4 DEF EnHilo, EnDesj, MainPrimero
  <2>6. QED BY <1>1, <1>2, <2>1, <2>5
<1>6. QED BY <1>4, <1>5

LEMMA PasoResto ==
  ASSUME ServidorInv, NEW p \in Proc, nuevo_a_listo_resto(p)
  PROVE  /\ Efecto(p) /\ EnHilo(p)'
         /\ ACTUAL_MULTIPROG' = ACTUAL_MULTIPROG + 1
<1>0. /\ TypeOK /\ GradoInv /\ OrdenInv /\ EnListas /\ EnNew /\ EnHilo(p) /\ pc \in [Proc -> Pcs]
  BY Partes
<1>1. PICK u : u = req[p].th OBVIOUS
<1>2. /\ pc[p] = "fifo_listo" /\ req[p].leido = E_NEW /\ new_queue # <<>> /\ u = Head(new_queue)
  BY <1>0, <1>1 DEF nuevo_a_listo_resto, EnHilo
<1>3. u \in ULT /\ estado[u] = E_NEW
  <2>1. new_queue \in Seq(ULT) /\ Len(new_queue) \in Nat BY <1>0, LenProperties DEF TypeOK
  <2>2. 1 \in 1 .. Len(new_queue) BY <1>2, <2>1, EmptySeq
  <2>3. Head(new_queue) = new_queue[1] /\ new_queue[1] \in ULT
    BY <1>2, <2>1, <2>2, ElementOfSeq
  <2>4. QED BY <1>0, <1>2, <2>2, <2>3 DEF EnNew
<1>4. /\ new_queue' = NewSin(u, estado[u]) /\ blocked_queue' = BlockedSin(u, estado[u])
      /\ EXEC_THREAD' = ExecSin(u, estado[u]) /\ READY_LIST' = ReadySin(u, E_NEW)
      /\ estado' = [estado EXCEPT ![u] = E_READY] /\ ACTUAL_MULTIPROG' = ACTUAL_MULTIPROG + 1
      /\ Post(u[1]) /\ exit_queue' = exit_queue
      /\ joinedBy' = joinedBy /\ BLOCKED_LIST' = BLOCKED_LIST /\ Va(p, "metricas") /\ req' = req
  BY <1>1, <1>2, <1>3 DEF nuevo_a_listo_resto, semVars
<1>5. \A x \in ULT : READY_LIST'[x] = IF x = u THEN 1 ELSE READY_LIST[x]
  <2>1. EnAdmision(u) BY <1>1, <1>2 DEF EnAdmision
  <2>2. READY_LIST[u] = 1 BY <1>0, <1>3, <2>1 DEF EnListas, Uno
  <2>3. READY_LIST' = READY_LIST BY <1>4, NombresDistintos DEF ReadySin
  <2>4. QED BY <2>2, <2>3
<1>6. Mueve(u, E_READY) BY <1>0, <1>3, <1>4, <1>5, ListoMueve
<1>7. pc'[p] = "metricas" BY <1>0, <1>4 DEF Va
<1>8. Efecto(p)
  <2>1. Avanza(p)
    BY <1>2, <1>4, <1>7 DEF Avanza, EnCierre, EnPedido, Desjoineando, EnDesj
  <2>2. pc[p] \in ConLugar /\ ACTUAL_MULTIPROG < MAX_MULTIPROG
    BY <1>0, <1>2 DEF GradoInv, ConLugar
  <2>3. /\ SemLista(u, E_READY) /\ Motivo(p, u) /\ Ajeno(p, u, E_READY) /\ E_READY \in Estados
    BY <1>2, <1>3, <1>4, <2>2, NombresDistintos DEF SemLista, SemIgual, Motivo, Ajeno, Estados
  <2>4. QED BY <1>3, <1>6, <2>1, <2>3 DEF Efecto
<1>9. MainPrimero(p)' BY <1>0, <1>3, <1>6, MueveMain, NombresDistintos
<1>10. QED BY <1>4, <1>7, <1>8, <1>9, HiloLibre DEF PcLibres

LEMMA PasoJoin ==
  ASSUME ServidorInv, NEW p \in Proc, NEW t \in Tid, join(p, t)
  PROVE  /\ Efecto(p) /\ EnHilo(p)'
         /\ new_queue' = new_queue /\ ACTUAL_MULTIPROG' = ACTUAL_MULTIPROG /\ pc'[p] = "idle"
<1> DEFINE a == EXEC_THREAD[p]
           u == <<p, a>>
<1>0. /\ TypeOK /\ GradoInv /\ OrdenInv /\ EnColas /\ EnListas /\ EnHilo(p) /\ pc \in [Proc -> Pcs]
  BY Partes
<1>1. /\ pc[p] = "idle" /\ pc' = pc /\ req' = req /\ BLOCKED_LIST' = BLOCKED_LIST
      /\ ACTUAL_MULTIPROG' = ACTUAL_MULTIPROG
  BY DEF join, ClienteCorre, Conectado, semVars
<1>2. CASE a = SinULT \/ t \notin ULTS(p)
  <2>1. UNCHANGED <<ultVars, procVars, colaVars>> BY <1>2 DEF join
  <2>2. /\ Quieto /\ joinedBy' = joinedBy /\ new_queue' = new_queue /\ estado' = estado
        /\ READY_LIST' = READY_LIST
    BY <1>1, <2>1 DEF Quieto, ultVars, procVars, colaVars
  <2>3. Avanza(p) BY <1>1, <2>2 DEF Avanza, EnCierre, EnPedido
  <2>4. MainPrimero(p)' BY <1>0, <2>2 DEF MainPrimero, EnHilo
  <2>5. Efecto(p) /\ EnHilo(p)' BY <1>1, <2>2, <2>3, <2>4, HiloLibre DEF Efecto, PcLibres
  <2>6. QED BY <1>1, <2>2, <2>5
<1>3. CASE ~ (a = SinULT \/ t \notin ULTS(p))
  <2>1. a \in Tid /\ u \in ULT /\ u[1] = p /\ u[2] = a BY <1>0, <1>3 DEF TypeOK, ULT
  <2>2. estado[u] = E_EXECUTE BY <1>0, <2>1 DEF EnColas
  <2>3. A_bloqueado(u) /\ joinedBy' = [joinedBy EXCEPT ![<<p, t>>] = Append(@, a)]
    BY <1>3 DEF join
  <2>4. Mueve(u, E_BLOCKED)
    <3>1. ~ EnAdmision(u) BY <1>0, <2>1, <2>2, SinAdmision, NombresDistintos
    <3> HIDE DEF u
    <3>2. QED BY <1>0, <1>1, <2>1, <2>2, <2>3, <3>1, BloqueadoMueve
  <2>5. Junta(p, u) BY <1>1, <2>1, <2>2, <2>3 DEF Junta
  <2>6. /\ SemLista(u, E_BLOCKED) /\ Motivo(p, u) /\ Ajeno(p, u, E_BLOCKED)
        /\ E_BLOCKED \in Estados
    BY <1>1, <2>1, <2>2, NombresDistintos DEF SemLista, SemIgual, Motivo, Ajeno, Estados
  <2>7. Efecto(p) BY <1>1, <2>1, <2>4, <2>5, <2>6 DEF Efecto
  <2>8. MainPrimero(p)' BY <1>0, <2>2, <2>4, MueveMain, NombresDistintos
  <2>9. EnHilo(p)' BY <1>1, <2>8, HiloLibre DEF PcLibres
  <2>10. QED BY <1>1, <2>3, <2>7, <2>9 DEF A_bloqueado
<1>4. QED BY <1>2, <1>3

LEMMA PasoNextTid ==
  ASSUME ServidorInv, NEW p \in Proc, handle_next_tid(p)
  PROVE  /\ Efecto(p) /\ EnHilo(p)'
         /\ new_queue' = new_queue /\ ACTUAL_MULTIPROG' = ACTUAL_MULTIPROG /\ pc'[p] = "sem_ready"
<1> DEFINE a == EXEC_THREAD[p]
           u == <<p, a>>
<1>0. /\ TypeOK /\ GradoInv /\ OrdenInv /\ EnColas /\ EnListas /\ EnHilo(p) /\ pc \in [Proc -> Pcs]
  BY Partes
<1>1. /\ pc[p] = "idle" /\ req' = req /\ BLOCKED_LIST' = BLOCKED_LIST /\ joinedBy' = joinedBy
      /\ ACTUAL_MULTIPROG' = ACTUAL_MULTIPROG /\ new_queue' = new_queue
      /\ blocked_queue' = blocked_queue /\ exit_queue' = exit_queue
  BY DEF handle_next_tid, Conectado, semVars, colaVars
<1>2. pc'[p] = "sem_ready" BY <1>0 DEF handle_next_tid, Va
<1>3. Avanza(p) BY <1>1 DEF Avanza, EnCierre, EnPedido
<1>4. CASE a = SinULT
  <2>1. estado' = estado /\ UNCHANGED procVars BY <1>4 DEF handle_next_tid
  <2>2. Quieto /\ READY_LIST' = READY_LIST BY <1>1, <2>1 DEF Quieto, procVars
  <2>3. MainPrimero(p)' BY <1>0, <2>1 DEF MainPrimero, EnHilo
  <2>4. EXEC_THREAD'[p] = SinULT BY <1>4, <2>1 DEF procVars
  <2>5. EnHilo(p)' BY <1>2, <2>3, <2>4 DEF EnHilo, EnDesj, MainPrimero
  <2>6. QED BY <1>1, <1>2, <1>3, <2>2, <2>5 DEF Efecto
<1>5. CASE a # SinULT
  <2>1. a \in Tid /\ u \in ULT /\ u[1] = p /\ u[2] = a BY <1>0, <1>5 DEF TypeOK, ULT
  <2>2. estado[u] = E_EXECUTE BY <1>0, <2>1 DEF EnColas
  <2>3. /\ EXEC_THREAD' = [EXEC_THREAD EXCEPT ![p] = SinULT]
        /\ estado' = [estado EXCEPT ![u] = E_READY]
        /\ READY_LIST' = ReadyCon(u)
        /\ semaforoReady' = [semaforoReady EXCEPT ![p] = @ + 1]
    BY <1>5 DEF handle_next_tid, Post
  <2>4. EXEC_THREAD'[p] = SinULT BY <1>0, <2>3 DEF TypeOK
  <2>5. Mueve(u, E_READY)
    <3>1. <<estado[u], E_READY>> \in Diagrama BY <2>2, DiagramaPasos
    <3>6. ~ EnAdmision(u)
      <4> HIDE DEF u
      <4>1. QED BY <1>0, <2>1, <2>2, SinAdmision, NombresDistintos
    <3>7. \A x \in ULT : READY_LIST'[x] = IF x = u THEN Uno(E_READY = E_READY) ELSE READY_LIST[x]
      <4> HIDE DEF u
      <4>1. READY_LIST[u] = 0 BY <1>0, <2>1, <2>2, <3>6, ListaDe, NombresDistintos DEF Uno
      <4>2. \A x \in ULT : ReadyCon(u)[x] = IF x = u THEN 1 ELSE READY_LIST[x]
        BY <1>0, <2>1, <4>1, ListaCon
      <4>3. READY_LIST' = ReadyCon(u) BY <2>3
      <4>4. QED BY ONLY <4>2, <4>3 DEF Uno
    <3>2. /\ semaforoReady'[p] = semaforoReady[p] + 1
          /\ \A q \in Proc \ {p} : /\ EXEC_THREAD'[q] = EXEC_THREAD[q]
                                   /\ semaforoReady'[q] = semaforoReady[q]
      BY <1>0, <2>3 DEF TypeOK
    <3>3. semaforoReady'[p] + Uno(estado[u] = E_READY) >= semaforoReady[p] + Uno(E_READY = E_READY)
      BY <1>0, <2>2, <3>2, NombresDistintos DEF TypeOK, Uno
    <3>4. ACTUAL_MULTIPROG' + Uno(Ocupa(estado[u])) >= ACTUAL_MULTIPROG + Uno(Ocupa(E_READY))
      BY <1>0, <1>1, <2>2 DEF TypeOK, Uno, Ocupa
    <3> HIDE DEF u
    <3>5. QED BY <1>1, <2>1, <2>2, <2>3, <2>4, <3>1, <3>2, <3>3, <3>4, <3>7, NombresDistintos DEF Mueve
  <2>6. Efecto(p)
    <3>1. estado[u] \notin {E_NEW, E_BLOCKED} /\ E_READY \in Estados
      BY <2>2, NombresDistintos DEF Estados
    <3>2. QED BY <1>1, <1>3, <2>1, <2>5, <3>1, EfectoPropio
  <2>7. MainPrimero(p)' BY <1>0, <2>2, <2>5, MueveMain, NombresDistintos
  <2>8. EnHilo(p)' BY <1>2, <2>4, <2>7 DEF EnHilo, EnDesj, MainPrimero
  <2>9. QED BY <1>1, <1>2, <2>6, <2>8
<1>6. QED BY <1>4, <1>5

LEMMA PasoCierraMain ==
  ASSUME Ordenados, ServidorInv, NEW p \in Proc, close_main(p)
  PROVE  /\ Efecto(p) /\ EnHilo(p)'
         /\ new_queue' = new_queue /\ ACTUAL_MULTIPROG' = ACTUAL_MULTIPROG /\ pc'[p] = "fin"
<1> DEFINE u == <<p, Main>>
<1>0. /\ TypeOK /\ GradoInv /\ OrdenInv /\ EnColas /\ EnListas /\ EnHilo(p) /\ pc \in [Proc -> Pcs]
  BY Partes
<1>1. /\ pc[p] = "idle" /\ req' = req /\ BLOCKED_LIST' = BLOCKED_LIST /\ joinedBy' = joinedBy
      /\ ACTUAL_MULTIPROG' = ACTUAL_MULTIPROG /\ new_queue' = new_queue
      /\ blocked_queue' = blocked_queue /\ exit_queue' = exit_queue
      /\ EXEC_THREAD[p] = Main
      /\ \A t \in Tid \ {Main} : estado[<<p, t>>] \in {SinCrear, E_EXIT}
  BY DEF close_main, ClienteCorre, Conectado, PuedeCerrar, Ordenados, semVars, colaVars
<1>2. pc'[p] = "fin" BY <1>0 DEF close_main, Va
<1>3. Main \in Tid /\ u \in ULT /\ u[1] = p /\ u[2] = Main BY MainEnTid DEF ULT
<1>4. estado[u] = E_EXECUTE BY <1>0, <1>1, <1>3 DEF EnColas
<1>5. estado' = [estado EXCEPT ![u] = Liberado]
  <2>1. estado' = [x \in ULT |-> IF x[1] = p /\ EnULTS(x) THEN Liberado ELSE estado[x]]
    BY DEF close_main
  <2>2. ASSUME NEW x \in ULT
        PROVE  (IF x[1] = p /\ EnULTS(x) THEN Liberado ELSE estado[x])
                 = IF x = u THEN Liberado ELSE estado[x]
    <3>1. CASE x = u
      <4>1. u \notin exit_queue BY <1>0, <1>3, <1>4, NombresDistintos DEF EnColas
      <4>2. QED BY <1>3, <1>4, <3>1, <4>1, NombresDistintos DEF EnULTS
    <3>2. CASE x # u
      <4>1. x[1] = p => x[2] \in Tid \ {Main} /\ x = <<p, x[2]>> BY <3>2, ULTEs
      <4>2. x[1] = p => estado[x] \in {SinCrear, E_EXIT} BY <1>1, <4>1
      <4>3. estado[x] = E_EXIT => x \in exit_queue BY <1>0 DEF EnColas
      <4>4. QED BY <3>2, <4>2, <4>3 DEF EnULTS
    <3>3. QED BY <3>1, <3>2
  <2>3. estado \in [ULT -> Estados] BY <1>0 DEF TypeOK
  <2> HIDE DEF u
  <2>4. QED BY <2>1, <2>2, <2>3
<1>6. Mueve(u, Liberado)
  <2>1. ASSUME NEW x \in ULT, x[1] = p PROVE READY_LIST[x] = 0
    <3>1. x[2] \in Tid /\ x = <<p, x[2]>> BY <2>1, ULTEs
    <3>2. estado[x] \notin {E_NEW, E_READY}
      BY <1>1, <1>4, <3>1, NombresDistintos
    <3>3. ~ EnAdmision(x) BY <1>0, <3>2, SinAdmision
    <3>4. QED BY <1>0, <3>2, <3>3 DEF EnListas, Uno
  <2>2. /\ \A x \in ULT : READY_LIST'[x] = IF x = u THEN 0 ELSE READY_LIST[x]
        /\ Listos(u[1])' = {}
    <3>1. READY_LIST' = [x \in ULT |-> IF x[1] = p THEN 0 ELSE READY_LIST[x]] BY DEF close_main
    <3>2. \A x \in ULT : READY_LIST'[x] = READY_LIST[x] BY <2>1, <3>1
    <3>3. READY_LIST[u] = 0 BY <1>3, <2>1
    <3>4. ASSUME NEW t \in Tid PROVE estado'[<<p, t>>] # E_READY
      <4>1. <<p, t>> \in ULT BY DEF ULT
      <4>2. CASE t = Main BY <1>0, <1>3, <1>5, <4>2, NombresDistintos DEF TypeOK
      <4>3. CASE t # Main
        <5>1. estado'[<<p, t>>] = estado[<<p, t>>] BY <1>0, <1>5, <4>1, <4>3 DEF TypeOK
        <5>2. QED BY <1>1, <4>3, <5>1, NombresDistintos
      <4>4. QED BY <4>2, <4>3
    <3>5. Listos(p)' = {} BY <3>4 DEF Listos
    <3>6. QED BY <1>3, <3>2, <3>3, <3>5
  <2>3. EXEC_THREAD' = ExecSin(u, estado[u]) BY <1>4 DEF close_main, ExecSin
  <2>4. \A q \in Proc \ {u[1]} : semaforoReady'[q] = semaforoReady[q]
    BY <1>0, <1>3 DEF close_main, TypeOK
  <2>5. <<estado[u], Liberado>> \in Diagrama BY <1>4, DiagramaPasos
  <2>7. E_EXIT # Liberado BY NombresDistintos
  <2> HIDE DEF u
  <2>6. QED BY <1>0, <1>1, <1>3, <1>5, <2>2, <2>3, <2>4, <2>5, <2>7, TerminaMueve
<1>7. Efecto(p)
  <2>1. Avanza(p) BY <1>1 DEF Avanza, EnCierre, EnPedido
  <2>2. estado[u] \notin {E_NEW, E_BLOCKED} /\ Liberado \in Estados
    BY <1>4, NombresDistintos DEF Estados
  <2> HIDE DEF u
  <2>3. QED BY <1>1, <1>3, <1>6, <2>1, <2>2, EfectoPropio
<1>8. MainPrimero(p)' BY <1>0, <1>4, <1>6, MueveMain, NombresDistintos
<1>9. EnHilo(p)' BY <1>2, <1>8, HiloLibre DEF PcLibres
<1>10. QED BY <1>1, <1>2, <1>7, <1>9

LEMMA SinCaida ==
  ASSUME Ordenados, ServidorInv, NEW p \in Proc
  PROVE  ~ desreferencia_nula(p) /\ ~ close_new(p)
<1>0. /\ TypeOK /\ EnColas /\ EnNew /\ EnSem /\ EnHilo(p) BY Partes
<1>1. ~ close_new(p) BY <1>0 DEF EnHilo, close_new
<1>2. SUFFICES ASSUME desreferencia_nula(p) PROVE FALSE BY <1>1
<1>3. ASSUME NEW t \in Tid \ {Main}, PuedeCerrar(p, t), t \notin ULTS(p) PROVE FALSE
  <2>1. estado[<<p, t>>] \in {E_READY, E_EXECUTE} BY <1>3 DEF PuedeCerrar, Ordenados
  <2>2. <<p, t>> \in ULT BY DEF ULT
  <2>3. <<p, t>> \notin exit_queue BY <1>0, <2>1, <2>2, NombresDistintos DEF EnColas
  <2>4. QED BY <1>3, <2>1, <2>3, NombresDistintos DEF ULTS, EnULTS
<1>4. ASSUME NEW s \in Sem, BLOCKED_LIST[s] # <<>>, estado[PrimerEspera(s)] = Liberado
      PROVE  FALSE
  <2>1. BLOCKED_LIST[s] \in Seq(ULT) /\ Len(BLOCKED_LIST[s]) \in Nat BY <1>0, SemElementos
  <2>2. 1 \in 1 .. Len(BLOCKED_LIST[s]) BY <1>4, <2>1, EmptySeq
  <2>3. PrimerEspera(s) = BLOCKED_LIST[s][1] BY <1>4, <2>1 DEF PrimerEspera
  <2>4. QED BY <1>0, <1>4, <2>2, <2>3, NombresDistintos DEF EnSem
<1>5. ASSUME new_queue # <<>>, estado[Proximo] = Liberado PROVE FALSE
  <2>1. new_queue \in Seq(ULT) /\ Len(new_queue) \in Nat BY <1>0, LenProperties DEF TypeOK
  <2>2. 1 \in 1 .. Len(new_queue) BY <1>5, <2>1, EmptySeq
  <2>3. Proximo = new_queue[1] /\ new_queue[1] \in ULT BY <1>5, <2>1, <2>2, ElementOfSeq DEF Proximo
  <2>4. QED BY <1>0, <1>5, <2>2, <2>3, NombresDistintos DEF EnNew
<1>6. ASSUME pc[p] = "fifo_listo", estado[req[p].th] = Liberado PROVE FALSE
  <2>1. new_queue # <<>> /\ req[p].th = Proximo BY <1>0, <1>6 DEF EnHilo, Proximo
  <2>2. QED BY <1>5, <1>6, <2>1
<1>7. QED BY <1>2, <1>3, <1>4, <1>5, <1>6 DEF desreferencia_nula, signal_rechazado

\* Every step of orderly clients and of their handlers is of one of these kinds.
LEMMA PasoEfecto ==
  ASSUME Ordenados, ServidorInv, NEW p \in Proc, Handler(p) \/ Pedido(p), ~ cruce'
  PROVE  Efecto(p) /\ EnHilo(p)'
<1>1. CASE Handler(p)
  BY <1>1, PasoQuietoHandler, PasoAdmite, PasoProximo, PasoEspera, PasoSenial, PasoDesjoinear,
     PasoDevuelve, PasoFifo, PasoResto, SinCaida DEF Handler
<1>2. CASE Pedido(p)
  <2>1. CASE handle_main_thread_create(p) BY <2>1, MainEnTid, PasoCrear
  <2>2. ASSUME NEW t \in Tid, handle_ULT_create(p, t) \/ join(p, t) \/ close_tid(p, t)
        PROVE  Efecto(p) /\ EnHilo(p)'
    BY <2>2, PasoCrear, PasoJoin, PasoQuietoPedido
  <2>3. CASE handle_next_tid(p) \/ close_main(p) \/ desconexion(p)
    BY <2>3, PasoNextTid, PasoCierraMain, PasoQuietoPedido
  <2>4. ASSUME NEW s \in Sem \cup {SemDesconocido}, handle_wait_sem(p, s) \/ handle_signal_sem(p, s)
        PROVE  Efecto(p) /\ EnHilo(p)'
    BY <2>4, PasoQuietoPedido
  <2>5. QED BY <1>2, <2>1, <2>2, <2>3, <2>4 DEF Pedido
<1>3. QED BY <1>1, <1>2

-----------------------------------------------------------------------------
(* Waiting with room                                                       *)

LEMMA NuevosPorEstado ==
  ASSUME TypeOK, EnNew
  PROVE  NuevosEnAlta <=> \A x \in ULT : estado[x] = E_NEW => EnAlta(x)
<1>1. \A i \in 1 .. Len(new_queue) : new_queue[i] \in ULT BY ElementOfSeq DEF TypeOK
<1>2. QED BY <1>1 DEF EnNew, NuevosEnAlta

\* Only a create and a desjoinear without room make a ULT NEW.
LEMMA QuienHaceNuevos ==
  ASSUME TypeOK, NEW p \in Proc, Handler(p) \/ Pedido(p),
         ~ desjoinear_mueve(p), ~ handle_main_thread_create(p),
         \A t \in Tid : ~ handle_ULT_create(p, t),
         NEW x \in ULT, estado'[x] = E_NEW
  PROVE  estado[x] = E_NEW
<1>1. estado \in [ULT -> Estados] BY DEF TypeOK
<1>2. \A y : /\ A_listo(y) => estado' = [estado EXCEPT ![y] = E_READY]
             /\ nuevo_a_ejecucion(y) => estado' = [estado EXCEPT ![y] = E_EXECUTE]
             /\ A_bloqueado(y) => estado' = [estado EXCEPT ![y] = E_BLOCKED]
             /\ A_exit(y) => estado' = [estado EXCEPT ![y] = E_EXIT]
  BY DEF A_listo, nuevo_a_ejecucion, A_bloqueado, A_exit
<1>3. ASSUME NEW y, NEW e \in {E_READY, E_EXECUTE, E_BLOCKED, E_EXIT},
             estado' = [estado EXCEPT ![y] = e]
      PROVE  estado[x] = E_NEW
  BY <1>1, <1>3, NombresDistintos
<1>4. CASE estado' = estado BY <1>4
<1>5. CASE Handler(p)
  <2>1. CASE create_admite(p)
    BY <1>2, <1>3, <2>1 DEF create_admite, nuevo_a_listo
  <2>2. CASE obtener_proximo_ejecutar(p)
    BY <1>3, <1>4, <2>2 DEF obtener_proximo_ejecutar
  <2>3. CASE decrementar_semaforo(p)
    BY <1>2, <1>3, <1>4, <2>3 DEF decrementar_semaforo
  <2>4. CASE incrementar_semaforo(p)
    BY <1>2, <1>3, <1>4, <2>4 DEF incrementar_semaforo, bloqueado_a_listo
  <2>5. CASE close_new(p) BY <1>2, <1>3, <2>5 DEF close_new
  <2>6. CASE close_devuelve(p) BY <1>2, <1>3, <2>6 DEF close_devuelve
  <2>7. CASE obtener_ULT_ready_FIFO(p)
    BY <1>4, <2>7 DEF obtener_ULT_ready_FIFO, ultVars
  <2>10. CASE nuevo_a_listo_resto(p) BY <1>3, <2>10 DEF nuevo_a_listo_resto
  <2>8. CASE \/ create_valida(p) \/ toma_semaforos(p) \/ desjoinear_hilo(p)
             \/ desjoinear_valida(p) \/ close_segun_estado(p) \/ close_toma(p)
             \/ metricas_sistema(p)
    BY <1>4, <2>8 DEF create_valida, toma_semaforos, desjoinear_hilo, desjoinear_valida,
       close_segun_estado, close_toma, metricas_sistema, ultVars
  <2>9. QED BY <1>5, <2>1, <2>2, <2>3, <2>4, <2>5, <2>6, <2>7, <2>8, <2>10 DEF Handler
<1>6. CASE Pedido(p)
  <2>1. ASSUME NEW t \in Tid, join(p, t) PROVE estado[x] = E_NEW
    BY <1>2, <1>3, <1>4, <2>1 DEF join, ultVars
  <2>2. CASE handle_next_tid(p) BY <1>3, <1>4, <2>2 DEF handle_next_tid
  <2>3. CASE close_main(p) BY <2>3, NombresDistintos DEF close_main
  <2>4. CASE \/ \E t \in Tid : close_tid(p, t)
             \/ desconexion(p)
             \/ \E s \in Sem \cup {SemDesconocido} : handle_wait_sem(p, s) \/ handle_signal_sem(p, s)
    BY <1>4, <2>4 DEF close_tid, desconexion, handle_wait_sem, handle_signal_sem, ultVars
  <2>5. QED BY <1>6, <2>1, <2>2, <2>3, <2>4 DEF Pedido
<1>7. QED BY <1>5, <1>6

\* A ULT that is NEW and not being created was so before, unless there is no room.
LEMMA AltaPaso ==
  ASSUME Ordenados, ServidorInv, NEW p \in Proc, Handler(p) \/ Pedido(p),
         NEW x \in ULT, estado'[x] = E_NEW, ~ EnAlta(x)'
  PROVE  (estado[x] = E_NEW /\ ~ EnAlta(x)) \/ ACTUAL_MULTIPROG' >= MAX_MULTIPROG
<1>0. /\ TypeOK /\ TipoInv /\ pc \in [Proc -> Pcs] /\ EsperaInv /\ EnHilo(p)
      /\ ACTUAL_MULTIPROG \in Int /\ MAX_MULTIPROG \in Int
  BY Partes, Grados
<1>1. x[1] \in Proc /\ x[2] \in Tid /\ x = <<x[1], x[2]>> BY ULTEs
<1>2. CASE estado[x] = E_NEW
  <2>1. SUFFICES ASSUME EnAlta(x) PROVE ACTUAL_MULTIPROG' >= MAX_MULTIPROG BY <1>2
  <2>2. x[1] = p
    <3>1. SUFFICES ASSUME x[1] # p PROVE FALSE OBVIOUS
    <3>2. pc'[x[1]] = pc[x[1]] /\ req'[x[1]] = req[x[1]] BY <1>0, <1>1, <3>1, PasoLocal
    <3>3. QED BY <2>1, <3>2 DEF EnAlta
  <2>3. pc[p] \in {"create", "create_admite"} /\ req[p].tid = x[2] BY <2>1, <2>2 DEF EnAlta
  <2>4. ~ create_admite(p)
    <3>1. SUFFICES ASSUME create_admite(p) PROVE FALSE OBVIOUS
    <3>2. estado'[<<p, req[p].tid>>] # E_NEW BY <3>1, PasoAdmite
    <3>3. QED BY <1>1, <2>2, <2>3, <3>2
  <2>5. create_valida(p)
    <3>1. ~ Pedido(p)
      BY <2>3 DEF Pedido, handle_main_thread_create, handle_ULT_create, ClienteCorre, Conectado,
         join, close_tid, handle_next_tid, close_main, desconexion, handle_wait_sem,
         handle_signal_sem
    <3>2. Handler(p) => create_valida(p)
      BY <2>3, <2>4 DEF Handler, obtener_proximo_ejecutar, toma_semaforos, decrementar_semaforo,
         incrementar_semaforo, desjoinear_hilo, desjoinear_valida, desjoinear_mueve,
         close_segun_estado, close_toma, close_new, close_devuelve, obtener_ULT_ready_FIFO,
         nuevo_a_listo_resto, metricas_sistema
    <3>3. QED BY <3>1, <3>2
  <2>6. ~ validar_grado_multiprogramacion
    <3>1. SUFFICES ASSUME validar_grado_multiprogramacion PROVE FALSE OBVIOUS
    <3>2. pc'[p] = "create_admite" /\ req' = req BY <1>0, <2>5, <3>1 DEF create_valida, Va
    <3>3. QED BY <2>2, <2>3, <3>2 DEF EnAlta
  <2>7. ACTUAL_MULTIPROG' = ACTUAL_MULTIPROG BY <2>5 DEF create_valida
  <2>8. QED BY <1>0, <2>6, <2>7 DEF validar_grado_multiprogramacion
<1>3. CASE estado[x] # E_NEW
  <2>1. \/ desjoinear_mueve(p) \/ handle_main_thread_create(p)
        \/ \E t \in Tid : handle_ULT_create(p, t)
    BY <1>0, <1>3, QuienHaceNuevos
  <2>2. CASE desjoinear_mueve(p)
    <3>1. CASE pc[p] = "desj_nuevo"
      <4>1. ACTUAL_MULTIPROG' = ACTUAL_MULTIPROG BY <2>2, <3>1 DEF desjoinear_mueve
      <4>2. QED BY <1>0, <3>1, <4>1 DEF EsperaInv
    <3>2. CASE pc[p] # "desj_nuevo"
      <4>1. PICK y : estado' = [estado EXCEPT ![y] = E_READY]
        BY <2>2, <3>2 DEF desjoinear_mueve, bloqueado_a_listo, A_listo
      <4>2. QED BY <1>0, <1>3, <4>1, NombresDistintos DEF TypeOK
    <3>3. QED BY <3>1, <3>2
  <2>3. ASSUME NEW t \in Tid, ULT_create(p, t) PROVE FALSE
    <3>1. estado' = [estado EXCEPT ![<<p, t>>] = E_NEW] BY <2>3 DEF ULT_create
    <3>2. x = <<p, t>> BY <1>0, <1>3, <3>1 DEF TypeOK
    <3>3. pc'[p] = "create" /\ req'[p].tid = t BY <1>0, <2>3 DEF ULT_create, Va, TypeOK
    <3>4. QED BY <3>2, <3>3 DEF EnAlta
  <2>4. QED BY <2>1, <2>2, <2>3, MainEnTid DEF handle_main_thread_create, handle_ULT_create
<1>4. QED BY <1>2, <1>3

\* How a step changes the degree.
LEMMA CambioDeGrado ==
  ASSUME Ordenados, ServidorInv, NEW p \in Proc, Handler(p) \/ Pedido(p)
  PROVE  /\ \/ /\ close_devuelve(p) /\ ACTUAL_MULTIPROG' = ACTUAL_MULTIPROG - 1
               /\ ACTUAL_MULTIPROG' < MAX_MULTIPROG => pc'[p] = "fifo"
            \/ ACTUAL_MULTIPROG' = ACTUAL_MULTIPROG + 1
            \/ /\ ACTUAL_MULTIPROG' = ACTUAL_MULTIPROG
               /\ pc[p] = "fifo" => new_queue' = <<>> \/ pc'[p] = "fifo_listo"
               /\ pc[p] # "fifo_listo"
         /\ pc'[p] = "desj_nuevo" =>
              ACTUAL_MULTIPROG' = ACTUAL_MULTIPROG /\ ACTUAL_MULTIPROG >= MAX_MULTIPROG
<1>0. /\ TypeOK /\ pc \in [Proc -> Pcs]
      /\ ACTUAL_MULTIPROG \in Int /\ MAX_MULTIPROG \in Int
  BY Partes, Grados
<1>1. CASE Pedido(p)
  <2>1. /\ ACTUAL_MULTIPROG' = ACTUAL_MULTIPROG
        /\ pc'[p] \notin ConMultiprog /\ pc[p] \notin ConMultiprog
    BY <1>0, <1>1, PedidoSinGrado
  <2>2. QED BY <2>1 DEF ConMultiprog
<1>2. CASE close_devuelve(p)
  <2>1. /\ ACTUAL_MULTIPROG' = ACTUAL_MULTIPROG - 1
        /\ IF validar_grado_multiprogramacion' THEN Va(p, "fifo") ELSE Va(p, "metricas")
    BY <1>2 DEF close_devuelve
  <2>2. ACTUAL_MULTIPROG' < MAX_MULTIPROG => validar_grado_multiprogramacion'
    BY <1>0, <2>1 DEF validar_grado_multiprogramacion
  <2>3. /\ pc'[p] \in {"fifo", "metricas"}
        /\ ACTUAL_MULTIPROG' < MAX_MULTIPROG => pc'[p] = "fifo"
    BY <1>0, <2>1, <2>2 DEF Va
  <2>4. QED BY <1>2, <2>1, <2>3
<1>3. CASE obtener_ULT_ready_FIFO(p)
  <2>1. pc[p] = "fifo" /\ pc'[p] \in {"metricas", "fifo_listo"}
    BY <1>0, <1>3 DEF obtener_ULT_ready_FIFO, Va
  <2>2. QED BY <1>3, <2>1, PasoFifo
<1>8. CASE nuevo_a_listo_resto(p)
  <2>1. pc'[p] = "metricas" BY <1>0, <1>8 DEF nuevo_a_listo_resto, Va
  <2>2. QED BY <1>8, <2>1, PasoResto
<1>4. CASE create_admite(p)
  BY <1>0, <1>4 DEF create_admite, nuevo_a_listo, nuevo_a_ejecucion, Responde, Va
<1>5. CASE desjoinear_valida(p)
  BY <1>0, <1>5 DEF desjoinear_valida, Va, validar_grado_multiprogramacion
<1>6. CASE \/ create_valida(p) \/ obtener_proximo_ejecutar(p) \/ toma_semaforos(p)
           \/ decrementar_semaforo(p) \/ incrementar_semaforo(p) \/ desjoinear_hilo(p)
           \/ desjoinear_mueve(p) \/ close_segun_estado(p) \/ close_toma(p) \/ close_new(p)
           \/ metricas_sistema(p)
  <2>1. ACTUAL_MULTIPROG' = ACTUAL_MULTIPROG /\ pc[p] \notin {"fifo", "fifo_listo"}
    BY <1>6 DEF create_valida, obtener_proximo_ejecutar, toma_semaforos, decrementar_semaforo,
       incrementar_semaforo, desjoinear_hilo, desjoinear_mueve, bloqueado_a_listo,
       close_segun_estado, close_toma, close_new, metricas_sistema
  <2>2. pc'[p] # "desj_nuevo"
    <3>1. pc' = pc \/ \E l \in Pcs \ {"desj_nuevo"} : Va(p, l)
      BY <1>6 DEF create_valida, obtener_proximo_ejecutar, toma_semaforos, decrementar_semaforo,
         incrementar_semaforo, desjoinear_hilo, desjoinear_mueve, close_segun_estado,
         close_toma, close_new, metricas_sistema, Responde, Pcs
    <3>2. CASE pc' = pc /\ pc[p] = "desj_nuevo"
      BY <1>0, <1>6, <3>2 DEF create_valida, obtener_proximo_ejecutar, toma_semaforos,
         decrementar_semaforo, incrementar_semaforo, desjoinear_hilo, desjoinear_mueve,
         close_segun_estado, close_toma, close_new, metricas_sistema, Responde, Va
    <3>3. QED BY SMTT(60), <1>0, <3>1, <3>2 DEF Va
  <2>3. QED BY SMTT(60), <2>1, <2>2
<1>7. QED BY <1>1, <1>2, <1>3, <1>4, <1>5, <1>6, <1>8 DEF Handler

LEMMA EsperaPaso ==
  ASSUME Ordenados, ServidorInv, TypeOK', EnNew', NEW p \in Proc, Handler(p) \/ Pedido(p)
  PROVE  EsperaInv'
<1>0. /\ TypeOK /\ EnNew /\ EsperaInv /\ GradoInv
      /\ ACTUAL_MULTIPROG \in Int /\ MAX_MULTIPROG \in Int
  BY Partes, Grados
<1>1. \A q \in Proc : q # p => pc'[q] = pc[q] BY <1>0, PasoLocal
<1>2. NuevosEnAlta /\ ACTUAL_MULTIPROG' < MAX_MULTIPROG => NuevosEnAlta'
  <2>1. SUFFICES ASSUME NuevosEnAlta, ACTUAL_MULTIPROG' < MAX_MULTIPROG,
                        NEW x \in ULT, estado'[x] = E_NEW, ~ EnAlta(x)'
                 PROVE  FALSE
    <3>1. (\A x \in ULT : estado'[x] = E_NEW => EnAlta(x)') => NuevosEnAlta'
      <4>1. \A i \in 1 .. Len(new_queue') : new_queue'[i] \in ULT BY ElementOfSeq DEF TypeOK
      <4>2. \A i \in 1 .. Len(new_queue') : estado'[new_queue'[i]] = E_NEW BY <4>1 DEF EnNew
      <4>3. SUFFICES ASSUME \A x \in ULT : estado'[x] = E_NEW => EnAlta(x)',
                            NEW i \in 1 .. Len(new_queue')
                     PROVE  EnAlta(new_queue[i])'
        BY DEF NuevosEnAlta
      <4>4. PICK x \in ULT : x = new_queue'[i] BY <4>1
      <4>5. EnAlta(x)' BY <4>2, <4>3, <4>4
      <4>6. QED BY <4>4, <4>5 DEF EnAlta
    <3>2. QED BY <3>1
  <2>2. (estado[x] = E_NEW /\ ~ EnAlta(x)) \/ ACTUAL_MULTIPROG' >= MAX_MULTIPROG
    BY <2>1, AltaPaso
  <2>3. ACTUAL_MULTIPROG' \in Int BY DEF TypeOK
  <2>4. estado[x] = E_NEW /\ ~ EnAlta(x) BY <1>0, <2>1, <2>2, <2>3
  <2>5. QED BY <1>0, <2>1, <2>4, NuevosPorEstado
<1>3. new_queue' = <<>> => NuevosEnAlta'
  BY DEF NuevosEnAlta
<1>4. ASSUME NEW q \in Proc, pc'[q] = "desj_nuevo" PROVE ACTUAL_MULTIPROG' >= MAX_MULTIPROG
  <2>1. CASE q = p BY <1>4, <2>1, CambioDeGrado
  <2>2. CASE q # p
    <3>1. pc[q] = "desj_nuevo" BY <1>1, <1>4, <2>2
    <3>2. mutex["multiprog"] = q BY <1>0, <3>1 DEF GradoInv, ConMultiprog
    <3>3. ACTUAL_MULTIPROG' = ACTUAL_MULTIPROG
      <4>1. CASE Pedido(p) BY <1>0, <4>1, PedidoSinGrado
      <4>2. CASE Handler(p) BY <1>0, <2>2, <3>2, <4>2, PasoGrado DEF GradoInv
      <4>3. QED BY <4>1, <4>2
    <3>4. QED BY <1>0, <3>1, <3>3 DEF EsperaInv
  <2>3. QED BY <2>1, <2>2
<1>5. CASE close_devuelve(p) /\ ACTUAL_MULTIPROG' = ACTUAL_MULTIPROG - 1
             /\ (ACTUAL_MULTIPROG' < MAX_MULTIPROG => pc'[p] = "fifo")
  <2>1. ACTUAL_MULTIPROG' < MAX_MULTIPROG - 1 => NuevosEnAlta'
    <3>1. SUFFICES ASSUME ACTUAL_MULTIPROG' < MAX_MULTIPROG - 1 PROVE NuevosEnAlta' OBVIOUS
    <3>2. ACTUAL_MULTIPROG < MAX_MULTIPROG /\ ACTUAL_MULTIPROG' < MAX_MULTIPROG
      BY <1>0, <1>5, <3>1
    <3>3. pc[p] \in {"close_ready_cs", "close_exec_cs"} BY <1>5, PasoDevuelve
    <3>4. NuevosEnAlta BY <3>2, <3>3, UnoAdmite DEF ConMultiprog
    <3>5. QED BY <1>2, <3>2, <3>4
  <2>2. QED BY <1>4, <1>5, <2>1 DEF EsperaInv
<1>6. CASE ACTUAL_MULTIPROG' = ACTUAL_MULTIPROG + 1
  <2>1. ACTUAL_MULTIPROG' < MAX_MULTIPROG => NuevosEnAlta'
    <3>1. SUFFICES ASSUME ACTUAL_MULTIPROG' < MAX_MULTIPROG PROVE NuevosEnAlta' OBVIOUS
    <3>2. ACTUAL_MULTIPROG < MAX_MULTIPROG - 1 BY <1>0, <1>6, <3>1
    <3>3. NuevosEnAlta BY <1>0, <3>2 DEF EsperaInv
    <3>4. QED BY <1>2, <3>1, <3>3
  <2>2. ACTUAL_MULTIPROG' < MAX_MULTIPROG - 1 => ACTUAL_MULTIPROG' < MAX_MULTIPROG
    BY <1>0, <1>6
  <2>3. QED BY <1>4, <2>1, <2>2 DEF EsperaInv
<1>7. CASE /\ ACTUAL_MULTIPROG' = ACTUAL_MULTIPROG
           /\ pc[p] = "fifo" => new_queue' = <<>> \/ pc'[p] = "fifo_listo"
           /\ pc[p] # "fifo_listo"
  <2>1. ACTUAL_MULTIPROG' < MAX_MULTIPROG /\ (\A q \in Proc : pc'[q] \notin {"fifo", "fifo_listo"})
          => NuevosEnAlta'
    <3>1. SUFFICES ASSUME ACTUAL_MULTIPROG' < MAX_MULTIPROG,
                          \A q \in Proc : pc'[q] \notin {"fifo", "fifo_listo"}
                   PROVE  NuevosEnAlta'
      OBVIOUS
    <3>2. CASE pc[p] = "fifo" BY <1>3, <1>7, <3>1, <3>2
    <3>3. CASE pc[p] # "fifo"
      <4>1. \A q \in Proc : pc[q] \notin {"fifo", "fifo_listo"} BY <1>1, <1>7, <3>1, <3>3
      <4>2. NuevosEnAlta BY <1>0, <1>7, <3>1, <4>1 DEF EsperaInv
      <4>3. QED BY <1>2, <3>1, <4>2
    <3>4. QED BY <3>2, <3>3
  <2>2. ACTUAL_MULTIPROG' < MAX_MULTIPROG - 1 => NuevosEnAlta'
    <3>1. SUFFICES ASSUME ACTUAL_MULTIPROG' < MAX_MULTIPROG - 1 PROVE NuevosEnAlta' OBVIOUS
    <3>2. NuevosEnAlta BY <1>0, <1>7, <3>1 DEF EsperaInv
    <3>3. ACTUAL_MULTIPROG' < MAX_MULTIPROG BY <1>0, <1>7, <3>1
    <3>4. QED BY <1>2, <3>2, <3>3
  <2>3. QED BY <1>4, <2>1, <2>2 DEF EsperaInv
<1>8. QED BY <1>5, <1>6, <1>7, CambioDeGrado

-----------------------------------------------------------------------------
(* The invariant of the server                                             *)

LEMMA ServidorInicial == Init => ServidorInv
<1> SUFFICES ASSUME Init PROVE ServidorInv OBVIOUS
<1>1. /\ \A u \in ULT : estado[u] = SinCrear /\ READY_LIST[u] = 0 /\ joinedBy[u] = <<>>
      /\ \A p \in Proc : EXEC_THREAD[p] = SinULT /\ semaforoReady[p] = 0 /\ pc[p] = "idle"
      /\ exit_queue = {}
      /\ new_queue = <<>> /\ ACTUAL_MULTIPROG = 0
      /\ \A s \in Sem : BLOCKED_LIST[s] = <<>>
  BY DEF Init
<1>2. GradoInv
  BY TipoInicial, SusAssumption DEF Init, GradoInv, ConMultiprog, ConLugar, SusAssumption
<1>3. EnColas BY <1>1, ULTEs, MainEnTid, NombresDistintos DEF EnColas
<1>4. EnNew BY <1>1, NombresDistintos DEF EnNew
<1>5. EnSem BY <1>1 DEF EnSem
<1>6. EnJoin
  <2>1. \A p \in Proc, t \in Tid : \A i \in Nat : ~ Pendiente(p, t, i)
    BY <1>1, ULTEs DEF Pendiente
  <2>2. QED BY <2>1 DEF EnJoin
<1>7. \A p \in Proc : EnHilo(p) BY <1>1, ULTEs DEF EnHilo, EnDesj
<1>8. CuentaInv
  <2>1. Admitidos = {} BY <1>1, NombresDistintos DEF Admitidos, Admitido
  <2>2. QED BY <1>1, <2>1, FS_EmptySet DEF CuentaInv
<1>9. EsperaInv BY <1>1 DEF EsperaInv, NuevosEnAlta
<1>10. TokenInv
  <2>1. ASSUME NEW p \in Proc PROVE Cardinality(Listos(p)) <= semaforoReady[p]
    <3>1. Listos(p) = {} BY <1>1, ULTEs, NombresDistintos DEF Listos
    <3>2. QED BY <1>1, <3>1, FS_EmptySet
  <2>2. QED BY <2>1 DEF TokenInv
<1>11. EnListas
  <2>1. \A u \in ULT : ~ EnAdmision(u) BY <1>1 DEF EnAdmision
  <2>2. QED BY <1>1, <2>1, NombresDistintos DEF EnListas, Uno
<1>12. QED
  BY <1>2, <1>3, <1>4, <1>5, <1>6, <1>7, <1>8, <1>9, <1>10, <1>11 DEF ServidorInv, OrdenInv

\* Orderly clients only make steps of requests and handlers: the server does not fall.
LEMMA PasoOrdenado ==
  ASSUME Ordenados, ServidorInv, Next
  PROVE  \E p \in Proc : Handler(p) \/ Pedido(p)
BY SinCaida DEF Next

LEMMA ServidorPaso ==
  ASSUME Ordenados, ServidorInv, [Next]_vars, ~ cruce'
  PROVE  ServidorInv'
<1>0. TipoInv /\ GradoInv /\ OrdenInv /\ CuentaInv /\ EsperaInv /\ TokenInv
  BY DEF ServidorInv, GradoInv
<1>1. GradoInv' /\ TypeOK' BY <1>0, GradoPaso DEF GradoInv, TipoInv
<1>2. CASE UNCHANGED vars
  <2>1. Quieto /\ READY_LIST' = READY_LIST
    BY <1>2 DEF Quieto, vars, ultVars, procVars, colaVars, semVars
  <2>2. EnColas' /\ EnNew' /\ EnSem' /\ CuentaInv' /\ TokenInv'
    BY <1>0, <1>1, <2>1, QuietoColas, QuietoTokens DEF OrdenInv
  <2>3. EnJoin'
    <3>1. estado' = estado /\ joinedBy' = joinedBy /\ pc' = pc /\ req' = req
      BY <1>2 DEF vars, ultVars, hiloVars
    <3>2. \A q \in Proc, t \in Tid : \A i \in Nat : Pendiente(q, t, i)' => Pendiente(q, t, i)
      BY <3>1 DEF Pendiente
    <3>3. QED BY <1>0, <2>1, <3>2, QuietoJoin DEF OrdenInv
  <2>4. \A p \in Proc : EnHilo(p)'
    BY <1>0, <1>2 DEF OrdenInv, EnHilo, vars, ultVars, procVars, colaVars, hiloVars
  <2>7. EnListas'
    BY <1>0, <1>2, <2>1 DEF OrdenInv, EnListas, EnAdmision, Quieto, vars, hiloVars
  <2>5. EsperaInv'
    BY <1>0, <1>2 DEF EsperaInv, NuevosEnAlta, EnAlta, vars, colaVars, hiloVars
  <2>6. QED BY <1>1, <2>2, <2>3, <2>4, <2>5, <2>7 DEF ServidorInv, OrdenInv
<1>3. CASE Next
  <2>1. PICK p \in Proc : Handler(p) \/ Pedido(p) BY <1>3, PasoOrdenado
  <2>2. Efecto(p) /\ EnHilo(p)' BY <2>1, PasoEfecto
  <2>3. EnColas' /\ EnNew' /\ EnSem' /\ EnJoin' /\ CuentaInv' /\ TokenInv'
    BY <1>0, <1>1, <2>1, <2>2, EfectoOrden
  <2>4. ASSUME NEW q \in Proc PROVE EnHilo(q)'
    <3>1. EnHilo(q) BY <1>0 DEF OrdenInv
    <3>2. CASE q = p BY <2>2, <3>2
    <3>3. CASE q # p BY <1>0, <2>1, <2>2, <3>1, <3>3, EfectoAjeno
    <3>4. QED BY <3>2, <3>3
  <2>5. EsperaInv' BY <1>1, <2>1, <2>3, EsperaPaso
  <2>7. EnListas' BY <1>0, <2>1, <2>2, ListasPaso
  <2>6. QED BY <1>1, <2>3, <2>4, <2>5, <2>7 DEF ServidorInv, OrdenInv
<1>4. QED BY <1>2, <1>3

-----------------------------------------------------------------------------
(* The theorems                                                            *)

\* The server keeps it until a next_tid crosses an admission.
AntesInv == cruce \/ ServidorInv

LEMMA CruceQueda ==
  ASSUME [Next]_vars, cruce
  PROVE  cruce'
<1>1. CASE UNCHANGED vars BY <1>1 DEF vars, hiloVars
<1>2. CASE Next
  <2>1. cruce' = cruce \/ \E u : cruce' = (cruce \/ EnAdmision(u))
    BY ZenonT(60), <1>2
    DEF Next, Handler, Pedido, create_valida, create_admite, obtener_proximo_ejecutar,
       toma_semaforos, decrementar_semaforo, incrementar_semaforo, desjoinear_hilo,
       desjoinear_valida, desjoinear_mueve, close_segun_estado, close_toma, close_new,
       close_devuelve, obtener_ULT_ready_FIFO, nuevo_a_listo_resto, metricas_sistema,
       handle_main_thread_create, handle_ULT_create, join, close_tid, handle_next_tid,
       close_main, desconexion, handle_wait_sem, handle_signal_sem, desreferencia_nula
  <2>2. QED BY <2>1
<1>3. QED BY <1>1, <1>2

LEMMA ServidorSiempre ==
  ASSUME Ordenados
  PROVE  Spec => []AntesInv
<1>1. AntesInv /\ [Next]_vars => AntesInv' BY ServidorPaso, CruceQueda DEF AntesInv
<1>2. Init => AntesInv BY ServidorInicial DEF AntesInv
<1>3. QED BY <1>1, <1>2, PTL DEF Spec

\* Until a next_tid crosses an admission, a process of orderly clients never has more READY
\* ULTs than posts of semaforoReady: next_tid finds a token for each ULT it can dispatch
\* (suse.c, sem_wait and sem_post).
THEOREM TokensCorrectos ==
  ASSUME Ordenados
  PROVE  Spec => []ReadyTieneToken
<1>1. AntesInv => ReadyTieneToken BY DEF AntesInv, ServidorInv, TokenInv, ReadyTieneToken
<1>2. QED BY <1>1, ServidorSiempre, PTL

\* A list without repetitions holds an element once or never.
LEMMA VecesUna ==
  ASSUME NEW q, NEW u, \A i, j \in 1 .. Len(q) : q[i] = q[j] => i = j
  PROVE  Veces(q, u) = Uno(\E i \in 1 .. Len(q) : q[i] = u)
<1> DEFINE S == {i \in 1 .. Len(q) : q[i] = u}
<1>1. CASE \E i \in 1 .. Len(q) : q[i] = u
  <2>1. PICK i \in 1 .. Len(q) : q[i] = u BY <1>1
  <2>2. S = {i} BY <2>1
  <2>3. QED BY <1>1, <2>2, FS_Singleton DEF Veces, Uno
<1>2. CASE ~ \E i \in 1 .. Len(q) : q[i] = u
  <2>1. S = {} BY <1>2
  <2>2. QED BY <1>2, <2>1, FS_EmptySet DEF Veces, Uno
<1>3. QED BY <1>1, <1>2

LEMMA ColasPorInv ==
  ASSUME TypeOK, EnColas, EnListas, EnNew, EnSem
  PROVE  ColasCoherentes
<1>1. SUFFICES ASSUME NEW u \in ULT
               PROVE  /\ Veces(new_queue, u) = (IF estado[u] = E_NEW THEN 1 ELSE 0)
                      /\ READY_LIST[u] = (IF estado[u] = E_READY \/ EnAdmision(u) THEN 1 ELSE 0)
                      /\ LET en == {s \in Sem : Veces(BLOCKED_LIST[s], u) > 0} IN
                           /\ Cardinality(en) <= 1
                           /\ \A s \in en : estado[u] = E_BLOCKED /\ Veces(BLOCKED_LIST[s], u) = 1
  BY DEF EnColas, ColasCoherentes
<1>2. Veces(new_queue, u) = (IF estado[u] = E_NEW THEN 1 ELSE 0)
  <2>1. /\ \A i, j \in 1 .. Len(new_queue) : new_queue[i] = new_queue[j] => i = j
        /\ (\E i \in 1 .. Len(new_queue) : new_queue[i] = u) <=> estado[u] = E_NEW
    BY DEF EnNew
  <2>2. Veces(new_queue, u) = Uno(\E i \in 1 .. Len(new_queue) : new_queue[i] = u)
    BY <2>1, VecesUna
  <2>3. QED BY <2>1, <2>2 DEF Uno
<1> DEFINE en == {s \in Sem : Veces(BLOCKED_LIST[s], u) > 0}
<1>3. ASSUME NEW s \in Sem
      PROVE  Veces(BLOCKED_LIST[s], u) = Uno(\E i \in 1 .. Len(BLOCKED_LIST[s]) : BLOCKED_LIST[s][i] = u)
  <2>1. \A i, j \in 1 .. Len(BLOCKED_LIST[s]) : BLOCKED_LIST[s][i] = BLOCKED_LIST[s][j] => i = j
    BY DEF EnSem
  <2>2. QED BY <2>1, VecesUna
<1>4. ASSUME NEW s \in en
      PROVE  /\ Veces(BLOCKED_LIST[s], u) = 1
             /\ \E i \in 1 .. Len(BLOCKED_LIST[s]) : BLOCKED_LIST[s][i] = u
  BY <1>3 DEF Uno
<1>5. ASSUME NEW s \in en PROVE estado[u] = E_BLOCKED
  BY <1>4 DEF EnSem
<1>6. ASSUME NEW s \in en, NEW r \in en PROVE s = r
  <2>1. PICK i \in 1 .. Len(BLOCKED_LIST[s]) : BLOCKED_LIST[s][i] = u BY <1>4
  <2>2. PICK j \in 1 .. Len(BLOCKED_LIST[r]) : BLOCKED_LIST[r][j] = u BY <1>4
  <2>3. QED BY <2>1, <2>2 DEF EnSem
<1>7. Cardinality(en) <= 1
  <2> HIDE DEF en
  <2>1. CASE en = {}
    <3>1. Cardinality(en) = 0 BY <2>1, FS_EmptySet
    <3>2. QED BY <3>1
  <2>2. CASE en # {}
    <3>1. PICK s \in en : TRUE BY <2>2
    <3>2. en = {s} BY <1>6, <3>1
    <3>3. Cardinality(en) = 1 BY <3>2, FS_Singleton
    <3>4. QED BY <3>3
  <2>3. QED BY <2>1, <2>2
<1>8. READY_LIST[u] = (IF estado[u] = E_READY \/ EnAdmision(u) THEN 1 ELSE 0)
  BY DEF EnListas, Uno
<1>9. QED BY <1>2, <1>4, <1>5, <1>7, <1>8

\* Whatever the handlers do concurrently, until a next_tid crosses an admission each ULT is
\* in the queue of its estado, once, and in no other, except the one that is being admitted,
\* already in READY_LIST (eliminar_ULT_cola_actual and the transitions of suse.c).
THEOREM ColasCorrectas ==
  ASSUME Ordenados
  PROVE  Spec => []ColasCoherentes
<1>1. AntesInv => ColasCoherentes
  <2>1. cruce => ColasCoherentes BY DEF ColasCoherentes
  <2>2. ServidorInv => ColasCoherentes
    BY ColasPorInv DEF ServidorInv, OrdenInv, GradoInv, TipoInv
  <2>3. QED BY <2>1, <2>2 DEF AntesInv
<1>2. QED BY <1>1, ServidorSiempre, PTL

\* Until a next_tid crosses an admission no handler dereferences NULL, and no list of the
\* server holds a freed ULT: of blocked_queue, no other than a main.
THEOREM SinPunterosColgados ==
  ASSUME Ordenados
  PROVE  Spec => []SinReferenciasColgadas
<1>1. ASSUME AntesInv, ~ cruce PROVE SinReferenciasColgadas
  <2>1. TypeOK /\ EnColas /\ EnNew /\ EnSem /\ \A p \in Proc : EnHilo(p)
    BY <1>1 DEF AntesInv, ServidorInv, OrdenInv, GradoInv, TipoInv
  <2>2. \A p \in Proc : pc[p] # "caido" BY <2>1 DEF EnHilo
  <2>3. \A i \in 1 .. Len(new_queue) : estado[new_queue[i]] # Liberado
    <3>1. \A i \in 1 .. Len(new_queue) : new_queue[i] \in ULT BY <2>1, ElementOfSeq DEF TypeOK
    <3>2. QED BY <2>1, <3>1, NombresDistintos DEF EnNew
  <2>4. \A s \in Sem : \A i \in 1 .. Len(BLOCKED_LIST[s]) : estado[BLOCKED_LIST[s][i]] # Liberado
    BY <2>1, NombresDistintos DEF EnSem
  <2>5. \A u \in ULT : blocked_queue[u] > 0 /\ estado[u] = Liberado => u[2] = Main
    BY <2>1 DEF EnColas
  <2>6. QED BY <2>2, <2>3, <2>4, <2>5 DEF SinReferenciasColgadas
<1>2. AntesInv => SinReferenciasColgadas BY <1>1 DEF SinReferenciasColgadas
<1>3. QED BY <1>2, ServidorSiempre, PTL

\* Until a next_tid crosses an admission nobody is left in new_queue while there is a slot,
\* except ULTs whose own create is still to decide about them: every slot that close gives
\* back is offered to the FIFO.
THEOREM EsperaCorrecta ==
  ASSUME Ordenados
  PROVE  Spec => []SinEsperaConLugar
<1>1. AntesInv => SinEsperaConLugar
  BY DEF AntesInv, ServidorInv, EsperaInv, NuevosEnAlta, SinEsperaConLugar
<1>2. QED BY <1>1, ServidorSiempre, PTL

\* Who changes estado in a step, and for what reason.
LEMMA QuienCambia ==
  ASSUME Ordenados, ServidorInv, Next, ~ cruce', NEW u \in ULT, estado'[u] # estado[u]
  PROVE  \E p \in Proc, e \in Estados :
           (Handler(p) \/ Pedido(p)) /\ Mueve(u, e) /\ Motivo(p, u)
<1>1. PICK p \in Proc : Handler(p) \/ Pedido(p) BY PasoOrdenado
<1>2. Efecto(p) BY <1>1, PasoEfecto
<1>3. ~ Quieto BY DEF Quieto
<1>4. PICK v \in ULT, e \in Estados : Mueve(v, e) /\ Motivo(p, v) BY <1>2, <1>3 DEF Efecto
<1>5. estado' = [estado EXCEPT ![v] = e] /\ estado \in [ULT -> Estados]
  BY <1>1, <1>4, Partes DEF Mueve, TypeOK
<1>6. v = u BY <1>5
<1>7. QED BY <1>1, <1>4, <1>6

\* Until a next_tid crosses one, admissions respect the order of new_queue: only ULTs whose
\* create is not finished are overtaken (obtener_ULT_ready_FIFO and the admission of create).
THEOREM AdmisionEnOrden ==
  ASSUME Ordenados
  PROVE  Spec => OrdenDeAdmision
<1> DEFINE A == \A u \in ULT : \A i \in 1 .. Len(new_queue) :
                  new_queue[i] = u /\ estado[u] = E_NEW /\ Admitido(u)'
                    => \A k \in 1 .. (i - 1) : EnAlta(new_queue[k])
<1>1. ASSUME AntesInv, [Next]_vars PROVE (cruce' \/ A) \/ UNCHANGED vars
  <2>0. ~ cruce' => ServidorInv BY <1>1, CruceQueda DEF AntesInv
  <2>1. SUFFICES ASSUME Next, ~ cruce', ServidorInv,
                        NEW u \in ULT, NEW i \in 1 .. Len(new_queue),
                        new_queue[i] = u, estado[u] = E_NEW, Admitido(u)'
                 PROVE  \A k \in 1 .. (i - 1) : EnAlta(new_queue[k])
    BY <1>1, <2>0
  <2>2. estado'[u] # estado[u] BY <2>1, NombresDistintos DEF Admitido
  <2>3. PICK p \in Proc : Motivo(p, u) BY <2>1, <2>2, QuienCambia
  <2>4. /\ \A a, b \in 1 .. Len(new_queue) : new_queue[a] = new_queue[b] => a = b
        /\ Len(new_queue) \in Nat
    BY <2>1, LenProperties DEF ServidorInv, OrdenInv, EnNew, GradoInv, TipoInv, TypeOK
  <2>5. CASE NuevosEnAlta BY <2>4, <2>5 DEF NuevosEnAlta
  <2>6. CASE u = Head(new_queue)
    <3>1. 1 \in 1 .. Len(new_queue) /\ new_queue[1] = u BY <2>1, <2>4, <2>6
    <3>2. i = 1 BY <2>1, <2>4, <3>1
    <3>3. QED BY <3>2
  <2>7. QED BY <2>1, <2>3, <2>5, <2>6 DEF Motivo
<1>2. QED BY <1>1, ServidorSiempre, PTL DEF Spec, OrdenDeAdmision

\* Until a next_tid crosses an admission a BLOCKED ULT is only woken by the close of the ULT
\* it joined or by a signal on the semaphore of which it is the first waiter.
THEOREM DespiertaBien ==
  ASSUME Ordenados
  PROVE  Spec => DespiertaConCausa
<1> DEFINE A == \A u \in ULT :
                  estado[u] = E_BLOCKED /\ EnULTS(u)' /\ estado'[u] # E_BLOCKED =>
                    \/ Despertandose(u)
                    \/ \E s \in Sem : /\ BLOCKED_LIST[s] # <<>> /\ Head(BLOCKED_LIST[s]) = u
                                      /\ VALUE'[s] = VALUE[s] + 1
<1>1. ASSUME AntesInv, [Next]_vars PROVE (cruce' \/ A) \/ UNCHANGED vars
  <2>0. ~ cruce' => ServidorInv BY <1>1, CruceQueda DEF AntesInv
  <2>1. SUFFICES ASSUME Next, ~ cruce', ServidorInv,
                        NEW u \in ULT, estado[u] = E_BLOCKED, estado'[u] # E_BLOCKED
                 PROVE  \/ Despertandose(u)
                        \/ \E s \in Sem : /\ BLOCKED_LIST[s] # <<>> /\ Head(BLOCKED_LIST[s]) = u
                                          /\ VALUE'[s] = VALUE[s] + 1
    BY <1>1, <2>0
  <2>2. PICK p \in Proc : Motivo(p, u) BY <2>1, QuienCambia
  <2>3. SemSale(u) \/ Desjoinea(p, u) BY <2>1, <2>2 DEF Motivo
  <2>4. CASE Desjoinea(p, u)
    BY <2>4 DEF Desjoinea, Joiner, Despertandose, EnDesj
  <2>5. CASE SemSale(u) BY <2>5 DEF SemSale
  <2>6. QED BY <2>3, <2>4, <2>5
<1>2. QED BY <1>1, ServidorSiempre, PTL DEF Spec, DespiertaConCausa

-----------------------------------------------------------------------------
(* The refinement of SuseCiclo                                             *)

\* Only the close of a main frees ULTs.
LEMMA QuienLibera ==
  ASSUME TypeOK, NEW p \in Proc, Handler(p) \/ Pedido(p), ~ close_main(p),
         NEW x \in ULT, estado'[x] = Liberado
  PROVE  estado[x] = Liberado
<1>1. estado \in [ULT -> Estados] BY DEF TypeOK
<1>2. \A y : /\ A_listo(y) => estado' = [estado EXCEPT ![y] = E_READY]
             /\ nuevo_a_ejecucion(y) => estado' = [estado EXCEPT ![y] = E_EXECUTE]
             /\ A_bloqueado(y) => estado' = [estado EXCEPT ![y] = E_BLOCKED]
             /\ A_exit(y) => estado' = [estado EXCEPT ![y] = E_EXIT]
  BY DEF A_listo, nuevo_a_ejecucion, A_bloqueado, A_exit
<1>3. ASSUME NEW y, NEW e \in {E_NEW, E_READY, E_EXECUTE, E_BLOCKED, E_EXIT},
             estado' = [estado EXCEPT ![y] = e]
      PROVE  estado[x] = Liberado
  BY <1>1, <1>3, NombresDistintos
<1>4. CASE estado' = estado BY <1>4
<1>5. CASE Handler(p)
  <2>1. CASE create_admite(p)
    BY <1>2, <1>3, <2>1 DEF create_admite, nuevo_a_listo
  <2>2. CASE obtener_proximo_ejecutar(p)
    BY <1>3, <1>4, <2>2 DEF obtener_proximo_ejecutar
  <2>3. CASE decrementar_semaforo(p)
    BY <1>2, <1>3, <1>4, <2>3 DEF decrementar_semaforo
  <2>4. CASE incrementar_semaforo(p)
    BY <1>2, <1>3, <1>4, <2>4 DEF incrementar_semaforo, bloqueado_a_listo
  <2>5. CASE close_new(p) BY <1>2, <1>3, <2>5 DEF close_new
  <2>6. CASE close_devuelve(p) BY <1>2, <1>3, <2>6 DEF close_devuelve
  <2>7. CASE obtener_ULT_ready_FIFO(p)
    BY <1>4, <2>7 DEF obtener_ULT_ready_FIFO, ultVars
  <2>11. CASE nuevo_a_listo_resto(p) BY <1>3, <2>11 DEF nuevo_a_listo_resto
  <2>8. CASE desjoinear_mueve(p)
    BY <1>2, <1>3, <2>8 DEF desjoinear_mueve, bloqueado_a_listo
  <2>9. CASE \/ create_valida(p) \/ toma_semaforos(p) \/ desjoinear_hilo(p)
             \/ desjoinear_valida(p) \/ close_segun_estado(p) \/ close_toma(p)
             \/ metricas_sistema(p)
    BY <1>4, <2>9 DEF create_valida, toma_semaforos, desjoinear_hilo, desjoinear_valida,
       close_segun_estado, close_toma, metricas_sistema, ultVars
  <2>10. QED BY <1>5, <2>1, <2>2, <2>3, <2>4, <2>5, <2>6, <2>7, <2>8, <2>9, <2>11 DEF Handler
<1>6. CASE Pedido(p)
  <2>1. ASSUME NEW t \in Tid, join(p, t) PROVE estado[x] = Liberado
    BY <1>2, <1>3, <1>4, <2>1 DEF join, ultVars
  <2>2. CASE handle_next_tid(p) BY <1>3, <1>4, <2>2 DEF handle_next_tid
  <2>3. CASE handle_main_thread_create(p) \/ \E t \in Tid : handle_ULT_create(p, t)
    BY <1>3, <2>3 DEF handle_main_thread_create, handle_ULT_create, ULT_create
  <2>4. CASE \/ \E t \in Tid : close_tid(p, t)
             \/ desconexion(p)
             \/ \E s \in Sem \cup {SemDesconocido} : handle_wait_sem(p, s) \/ handle_signal_sem(p, s)
    BY <1>4, <2>4 DEF close_tid, desconexion, handle_wait_sem, handle_signal_sem, ultVars
  <2>5. QED BY <1>6, <2>1, <2>2, <2>3, <2>4 DEF Pedido
<1>7. QED BY <1>5, <1>6

\* FiniteSets is instantiated with SuseCiclo: its Cardinality is the one of this module.
LEMMA MismoCardinal == \A S : Ciclo!Cardinality(S) = Cardinality(S)
BY DEF Ciclo!Cardinality, Cardinality

\* What changes estado is a step of the life cycle.
LEMMA MueveCiclo ==
  ASSUME TypeOK, EnColas, CuentaInv, NEW p, NEW u \in ULT, NEW e, Mueve(u, e), Motivo(p, u),
         e # Liberado
  PROVE  Ciclo!Next \/ UNCHANGED estado
<1>1. /\ estado' = [estado EXCEPT ![u] = e] /\ estado \in [ULT -> Estados]
      /\ <<estado[u], e>> \in Diagrama
      /\ e = E_EXECUTE => EXEC_THREAD[u[1]] = SinULT
  BY DEF Mueve, TypeOK
<1>2. u \in Ciclo!ULT BY DEF ULT, Ciclo!ULT
<1>3. e = E_EXECUTE => Ciclo!CpuLibre(u[1])
  <2>1. SUFFICES ASSUME EXEC_THREAD[u[1]] = SinULT, NEW t \in Tid, estado[<<u[1], t>>] = E_EXECUTE
                 PROVE  FALSE
    BY <1>1 DEF Ciclo!CpuLibre, E_EXECUTE
  <2> DEFINE x == <<u[1], t>>
  <2>2. x \in ULT /\ x[1] = u[1] /\ x[2] = t BY ULTEs
  <2>3. EXEC_THREAD[x[1]] = x[2] BY <2>1, <2>2 DEF EnColas
  <2>4. QED BY <2>1, <2>2, <2>3, MainEnTid
<1>4. estado[u] = E_NEW => Ciclo!Cardinality(Ciclo!Admitidos) < MAX_MULTIPROG
  <2>1. SUFFICES ASSUME estado[u] = E_NEW PROVE Ciclo!Cardinality(Ciclo!Admitidos) < MAX_MULTIPROG
    OBVIOUS
  <2>2. ACTUAL_MULTIPROG < MAX_MULTIPROG BY <2>1 DEF Motivo
  <2>3. Ciclo!Admitidos = Admitidos
    BY DEF Ciclo!Admitidos, Admitidos, Admitido, Ciclo!ULT, ULT, E_READY, E_EXECUTE, E_BLOCKED
  <2>4. /\ Cardinality(Admitidos) <= ACTUAL_MULTIPROG /\ Cardinality(Admitidos) \in Nat
        /\ ACTUAL_MULTIPROG \in Int /\ MAX_MULTIPROG \in Nat
    BY FS_CardinalityType, SusAssumption DEF CuentaInv, TypeOK, SusAssumption
  <2>5. Ciclo!Cardinality(Ciclo!Admitidos) = Cardinality(Admitidos) BY <2>3, MismoCardinal
  <2>6. QED BY <2>2, <2>4, <2>5
<1>5. CASE e = E_NEW
  <2>1. estado[u] \in {SinCrear, E_BLOCKED} BY <1>1, <1>5, NombresDistintos DEF Diagrama
  <2>2. Ciclo!Crear(u) \/ Ciclo!Degradar(u)
    BY <1>1, <1>5, <2>1 DEF Ciclo!Crear, Ciclo!Degradar, Ciclo!Pasa, SinCrear, E_BLOCKED, E_NEW
  <2>3. QED BY <1>2, <2>2 DEF Ciclo!Next
<1>6. CASE e = E_READY
  <2>1. estado[u] \in {E_NEW, E_READY, E_EXECUTE, E_BLOCKED}
    BY <1>1, <1>6, NombresDistintos DEF Diagrama
  <2>2. CASE estado[u] = E_READY BY <1>1, <1>6, <2>2
  <2>3. CASE estado[u] \in {E_NEW, E_EXECUTE, E_BLOCKED}
    <3>1. \A d : estado[u] \in d => Ciclo!Pasa(u, d, "E_READY")
      BY <1>1, <1>6 DEF Ciclo!Pasa, E_READY
    <3>2. CASE estado[u] = E_NEW
      <4>1. Ciclo!Admitir(u) BY <1>4, <3>1, <3>2 DEF Ciclo!Admitir, E_NEW
      <4>2. QED BY <1>2, <4>1 DEF Ciclo!Next
    <3>3. CASE estado[u] \in {E_EXECUTE, E_BLOCKED}
      <4>1. Ciclo!Ceder(u) \/ Ciclo!Despertar(u)
        BY <3>1, <3>3 DEF Ciclo!Ceder, Ciclo!Despertar, E_EXECUTE, E_BLOCKED
      <4>2. QED BY <1>2, <4>1 DEF Ciclo!Next
    <3>4. QED BY <2>3, <3>2, <3>3
  <2>4. QED BY <2>1, <2>2, <2>3
<1>7. CASE e = E_EXECUTE
  <2>1. estado[u] \in {E_NEW, E_READY} BY <1>1, <1>7, NombresDistintos DEF Diagrama
  <2>2. \A d : estado[u] \in d => Ciclo!Pasa(u, d, "E_EXECUTE")
    BY <1>1, <1>7 DEF Ciclo!Pasa, E_EXECUTE
  <2>3. CASE estado[u] = E_NEW
    <3>1. Ciclo!Admitir(u) BY <1>3, <1>4, <1>7, <2>2, <2>3 DEF Ciclo!Admitir, E_NEW
    <3>2. QED BY <1>2, <3>1 DEF Ciclo!Next
  <2>4. CASE estado[u] = E_READY
    <3>1. Ciclo!Elegir(u) BY <1>3, <1>7, <2>2, <2>4 DEF Ciclo!Elegir, E_READY
    <3>2. QED BY <1>2, <3>1 DEF Ciclo!Next
  <2>5. QED BY <2>1, <2>3, <2>4
<1>8. CASE e = E_BLOCKED
  <2>1. estado[u] = E_EXECUTE BY <1>1, <1>8, NombresDistintos DEF Diagrama
  <2>2. Ciclo!Bloquear(u)
    BY <1>1, <1>8, <2>1 DEF Ciclo!Bloquear, Ciclo!Pasa, E_EXECUTE, E_BLOCKED
  <2>3. QED BY <1>2, <2>2 DEF Ciclo!Next
<1>9. CASE e = E_EXIT
  <2>1. estado[u] \in {E_READY, E_EXECUTE} BY <1>1, <1>9, NombresDistintos DEF Diagrama
  <2>2. Ciclo!Terminar(u)
    BY <1>1, <1>9, <2>1 DEF Ciclo!Terminar, Ciclo!Pasa, Ciclo!Vivo, E_READY, E_EXECUTE, E_EXIT
  <2>3. QED BY <1>2, <2>2 DEF Ciclo!Next
<1>10. e \in {E_NEW, E_READY, E_EXECUTE, E_BLOCKED, E_EXIT} BY <1>1 DEF Diagrama
<1>11. QED BY <1>5, <1>6, <1>7, <1>8, <1>9, <1>10

\* The close of a main is the death of its process.
LEMMA CierraMainCiclo ==
  ASSUME TypeOK, EnColas, NEW p \in Proc, close_main(p)
  PROVE  Ciclo!Next
<1>1. \A u \in ULT : EnULTS(u) <=> estado[u] \in Ciclo!Vivo
  <2>1. ASSUME NEW u \in ULT PROVE EnULTS(u) <=> estado[u] \notin {SinCrear, Liberado, E_EXIT}
    BY DEF EnColas, EnULTS
  <2>2. \A u \in ULT : estado[u] \notin {SinCrear, Liberado, E_EXIT} <=> estado[u] \in Ciclo!Vivo
    BY DEF TypeOK, Ciclo!Vivo, Estados, E_NEW, E_READY, E_EXECUTE, E_BLOCKED, E_EXIT,
       SinCrear, Liberado
  <2>3. QED BY <2>1, <2>2
<1>2. estado' = [u \in ULT |-> IF u[1] = p /\ EnULTS(u) THEN Liberado ELSE estado[u]]
  BY DEF close_main
<1>3. estado' = [u \in ULT |-> IF u[1] = p /\ estado[u] \in Ciclo!Vivo
                                 THEN Liberado ELSE estado[u]]
  BY <1>1, <1>2
<1>4. Ciclo!Morir(p) BY <1>3 DEF Ciclo!Morir, Ciclo!ULT, ULT, Liberado
<1>5. QED BY <1>4 DEF Ciclo!Next

\* Until a next_tid crosses an admission the server implements the life cycle: one ULT
\* running per process, no more admitted ULTs than MAX_MULTIPROG, and only the transitions
\* of the five-state diagram.
THEOREM CicloImplementado ==
  ASSUME Ordenados
  PROVE  Spec => ImplementaCiclo
<1>1. Init => Ciclo!Init BY DEF Init, Ciclo!Init, Ciclo!ULT, ULT, SinCrear
<1>2. ASSUME AntesInv, [Next]_vars, ~ cruce' PROVE [Ciclo!Next]_estado
  <2>0. ServidorInv BY <1>2, CruceQueda DEF AntesInv
  <2>1. CASE estado' = estado BY <2>1
  <2>2. CASE estado' # estado /\ Next
    <3>1. PICK p \in Proc : Handler(p) \/ Pedido(p) BY <2>0, <2>2, PasoOrdenado
    <3>2. TypeOK /\ EnColas /\ CuentaInv /\ Efecto(p)
      BY <1>2, <2>0, <3>1, Partes, PasoEfecto DEF ServidorInv
    <3>3. CASE close_main(p) BY <3>2, <3>3, CierraMainCiclo
    <3>4. CASE ~ close_main(p)
      <4>1. ~ Quieto BY <2>2 DEF Quieto
      <4>2. PICK u \in ULT, e \in Estados : Mueve(u, e) /\ Motivo(p, u)
        BY <3>2, <4>1 DEF Efecto
      <4>3. /\ estado' = [estado EXCEPT ![u] = e] /\ estado \in [ULT -> Estados]
            /\ <<estado[u], e>> \in Diagrama
        BY <3>2, <4>2 DEF Mueve, TypeOK
      <4>4. estado[u] # Liberado BY <4>3, NombresDistintos DEF Diagrama
      <4>5. estado'[u] = e BY <4>3
      <4>6. e # Liberado BY <3>1, <3>2, <3>4, <4>4, <4>5, QuienLibera
      <4>7. QED BY <3>2, <4>2, <4>6, MueveCiclo
    <3>5. QED BY <3>3, <3>4
  <2>3. QED BY <1>2, <2>1, <2>2 DEF vars, ultVars
<1>3. AntesInv /\ [Next]_vars => [cruce' \/ Ciclo!Next]_estado BY <1>2
<1>4. QED BY <1>1, <1>3, ServidorSiempre, PTL DEF Spec, ImplementaCiclo
=============================================================================
