--------------------------- MODULE MuseHeapProofs ---------------------------
(***************************************************************************)
(* What MuseHeap promises, for every number of programs, size of page and  *)
(* of memory, and clients that free in any order: the chain of blocks      *)
(* covers its segment and no frame is lost; until a growth marks a block   *)
(* in use free, allocations stay apart and a heap that was freed is one    *)
(* block again; until a merge adds a free block to one in use, the leak    *)
(* that is reported is exact.                                              *)
(***************************************************************************)
EXTENDS MuseHeap, TLAPS, SequenceTheorems, WellFoundedInduction, FiniteSetTheorems

-----------------------------------------------------------------------------
(* Lists                                                                   *)

\* Every non-empty set of naturals has a least element.
LEMMA MinExiste ==
  ASSUME NEW S \in SUBSET Nat, S # {}
  PROVE  \E x \in S : \A y \in S : x <= y
<1> DEFINE R == OpToRel(<, Nat)
<1>0. S \subseteq Nat OBVIOUS
<1>1. \A x, y \in Nat : y < x => <<y, x>> \in R BY DEF OpToRel
<1>2. IsWellFoundedOn(R, Nat) BY NatLessThanWellFounded
<1> HIDE DEF R
<1>3. PICK x \in S : \A y \in S : ~ (<<y, x>> \in R) BY <1>0, <1>2, WFMin
<1>4. ASSUME NEW y \in S PROVE x <= y
  <2>1. x \in Nat /\ y \in Nat BY <1>0
  <2>2. ~ (y < x) BY <1>1, <1>3, <2>1
  <2>3. QED BY <2>1, <2>2
<1>5. QED BY <1>4

\* Taking out position k keeps the order of the others.
LEMMA RemoveAtProps ==
  ASSUME NEW S, NEW q \in Seq(S), NEW k \in 1 .. Len(q)
  PROVE  /\ RemoveAt(q, k) \in Seq(S)
         /\ Len(RemoveAt(q, k)) = Len(q) - 1
         /\ \A i \in 1 .. (Len(q) - 1) :
              RemoveAt(q, k)[i] = IF i < k THEN q[i] ELSE q[i + 1]
<1> DEFINE a == SubSeq(q, 1, k - 1)
           b == SubSeq(q, k + 1, Len(q))
<1>1. /\ Len(q) \in Nat /\ k \in Nat /\ k >= 1 /\ k <= Len(q)
      /\ \A i \in 1 .. Len(q) : q[i] \in S
  BY LenProperties, ElementOfSeq
<1>2. /\ a \in Seq(S) /\ Len(a) = k - 1
      /\ \A i \in 1 .. (k - 1) : a[i] = q[i]
  <2>1. \A i \in 1 .. (k - 1) : q[i] \in S BY <1>1
  <2>2. /\ SubSeq(q, 1, k - 1) \in Seq(S)
        /\ Len(SubSeq(q, 1, k - 1)) = IF 1 <= k - 1 THEN (k - 1) - 1 + 1 ELSE 0
        /\ \A i \in 1 .. ((k - 1) - 1 + 1) : SubSeq(q, 1, k - 1)[i] = q[1 + i - 1]
    BY <1>1, <2>1, SubSeqProperties
  <2>3. QED BY <2>2, <1>1
<1>3. /\ b \in Seq(S) /\ Len(b) = Len(q) - k
      /\ \A i \in 1 .. (Len(q) - k) : b[i] = q[k + i]
  <2>1. \A i \in (k + 1) .. Len(q) : q[i] \in S BY <1>1
  <2>2. /\ SubSeq(q, k + 1, Len(q)) \in Seq(S)
        /\ Len(SubSeq(q, k + 1, Len(q))) =
             IF k + 1 <= Len(q) THEN Len(q) - (k + 1) + 1 ELSE 0
        /\ \A i \in 1 .. (Len(q) - (k + 1) + 1) :
             SubSeq(q, k + 1, Len(q))[i] = q[(k + 1) + i - 1]
    BY <1>1, <2>1, SubSeqProperties
  <2>3. QED BY <2>2, <1>1
<1> HIDE DEF a, b
<1>4. /\ a \o b \in Seq(S)
      /\ Len(a \o b) = Len(a) + Len(b)
      /\ \A i \in 1 .. (Len(a) + Len(b)) :
           (a \o b)[i] = IF i <= Len(a) THEN a[i] ELSE b[i - Len(a)]
  BY <1>2, <1>3, ConcatProperties
<1>5. RemoveAt(q, k) = a \o b BY DEF RemoveAt, a, b
<1>6. ASSUME NEW i \in 1 .. (Len(q) - 1)
      PROVE  (a \o b)[i] = IF i < k THEN q[i] ELSE q[i + 1]
  <2>1. CASE i < k BY <1>1, <1>2, <1>3, <1>4, <2>1
  <2>2. CASE ~ (i < k)
    <3>1. (a \o b)[i] = b[i - (k - 1)] BY SMTT(60), <1>1, <1>2, <1>3, <1>4, <2>2
    <3>2. i - (k - 1) \in 1 .. (Len(q) - k) BY <1>1, <2>2
    <3>3. b[i - (k - 1)] = q[k + (i - (k - 1))] BY <1>3, <3>2
    <3>4. k + (i - (k - 1)) = i + 1 BY <1>1
    <3>5. QED BY <3>1, <3>3, <3>4, <2>2, <1>1
  <2>3. QED BY <2>1, <2>2
<1>7. Len(a \o b) = Len(q) - 1 BY <1>1, <1>2, <1>3, <1>4
<1>8. QED BY ONLY <1>4, <1>5, <1>6, <1>7

-----------------------------------------------------------------------------

\* The bytes that a chain covers.
Total(b) == Bytes(b, Len(b)) + Len(b) * METADATA_SIZE

Viva == [dir : Nat, tam : Nat]

TypeOK ==
  /\ bloques \in [Prog -> Seq(Bloque)]
  /\ limite \in [Prog -> Nat]
  /\ libres \in Nat
  /\ using_memory \in [Prog -> Nat]
  /\ mutex_lock \in Prog \cup {Nadie}
  /\ pc \in [Prog -> {"listo", "valida", "ubica", "fin"}]
  /\ pedido \in [Prog -> Nat]
  /\ vivas \in [Prog -> Seq(Viva)]
  /\ desvio \in [Prog -> {"nada", "absorbe", "pisa"}]
  /\ dano \in {"ninguno", "marcos", "cadena"}

\* The chain ends at the limit, which is the end of a page.
CadInv ==
  dano = "ninguno" =>
    /\ \A p \in Prog : /\ Total(bloques[p]) = limite[p]
                       /\ \E k \in Nat : limite[p] = PAGE_SIZE * k
    /\ IsFiniteSet(Paginas) /\ libres + Cardinality(Paginas) = MARCOS

-----------------------------------------------------------------------------
(* Sums of sizes                                                           *)

\* The recursion of Bytes, which has a solution.
EsSuma(t, s, n) == t = [k \in 0 .. n |-> IF k = 0 THEN 0 ELSE t[k - 1] + s[k].tam]

LEMMA SumaExiste ==
  ASSUME NEW s, NEW n \in Nat
  PROVE  \E t : EsSuma(t, s, n)
<1> DEFINE S == {m \in Nat : ~ \E t : EsSuma(t, s, m)}
<1>1. SUFFICES ASSUME S # {} PROVE FALSE OBVIOUS
<1>2. PICK m \in S : \A y \in S : m <= y
  <2>1. S \subseteq Nat OBVIOUS
  <2> HIDE DEF S
  <2>2. QED BY <1>1, <2>1, MinExiste
<1>3. m \in Nat /\ \A y \in Nat : y < m => y \notin S BY <1>2
<1>4. CASE m = 0
  <2> DEFINE t == [k \in 0 .. 0 |-> 0]
  <2>1. \A k \in 0 .. 0 : k = 0 OBVIOUS
  <2>2. t = [k \in 0 .. 0 |-> IF k = 0 THEN 0 ELSE t[k - 1] + s[k].tam] BY <2>1
  <2> HIDE DEF t
  <2>3. m \notin S BY <2>2, <1>4 DEF EsSuma
  <2>4. QED BY <2>3, <1>2
<1>5. CASE m # 0
  <2>1. m - 1 \in Nat /\ m - 1 < m BY <1>3, <1>5
  <2>2. PICK t : t = [k \in 0 .. (m - 1) |-> IF k = 0 THEN 0 ELSE t[k - 1] + s[k].tam]
    BY <2>1, <1>3 DEF EsSuma
  <2> DEFINE w == [k \in 0 .. m |-> IF k = m THEN t[m - 1] + s[m].tam ELSE t[k]]
  <2>3. ASSUME NEW k \in 0 .. m
        PROVE  w[k] = IF k = 0 THEN 0 ELSE w[k - 1] + s[k].tam
    <3>1. CASE k = 0
      <4>1. w[k] = t[0] BY <3>1, <1>5
      <4>2. t[0] = 0 BY <2>2, <2>1
      <4>3. QED BY <4>1, <4>2, <3>1
    <3>2. CASE k # 0 /\ k # m
      <4>1. k \in 0 .. (m - 1) /\ k - 1 \in 0 .. m /\ k - 1 # m BY <3>2, <1>3
      <4>2. w[k] = t[k] /\ w[k - 1] = t[k - 1] BY <4>1, <3>2
      <4>3. t[k] = t[k - 1] + s[k].tam BY <2>2, <4>1, <3>2
      <4>4. QED BY <4>2, <4>3, <3>2
    <3>3. CASE k = m
      <4>1. k - 1 \in 0 .. m /\ k - 1 # m BY <3>3, <1>3, <1>5
      <4>2. w[k] = t[m - 1] + s[m].tam /\ w[k - 1] = t[k - 1] BY <4>1, <3>3
      <4>3. QED BY <4>2, <3>3, <1>5
    <3>4. QED BY <3>1, <3>2, <3>3
  <2>4. w = [k \in 0 .. m |-> IF k = 0 THEN 0 ELSE w[k - 1] + s[k].tam]
    <3>1. w = [k \in 0 .. m |-> w[k]] OBVIOUS
    <3> HIDE DEF w
    <3>2. QED BY <3>1, <2>3
  <2> HIDE DEF w
  <2>5. m \notin S BY <2>4 DEF EsSuma
  <2>6. QED BY <2>5, <1>2
<1>6. QED BY <1>4, <1>5

\* Two solutions agree where both are defined.
LEMMA SumaUnica ==
  ASSUME NEW s, NEW n \in Nat, NEW m \in Nat, n <= m, NEW t, NEW w,
         EsSuma(t, s, n), EsSuma(w, s, m)
  PROVE  \A k \in 0 .. n : t[k] = w[k]
<1> DEFINE S == {k \in 0 .. n : t[k] # w[k]}
<1>1. SUFFICES ASSUME S # {} PROVE FALSE OBVIOUS
<1>2. PICK k \in S : \A y \in S : k <= y
  <2>1. S \subseteq Nat OBVIOUS
  <2> HIDE DEF S
  <2>2. QED BY <1>1, <2>1, MinExiste
<1>3. k \in 0 .. n /\ k \in 0 .. m BY <1>2
<1>4. /\ t[k] = IF k = 0 THEN 0 ELSE t[k - 1] + s[k].tam
      /\ w[k] = IF k = 0 THEN 0 ELSE w[k - 1] + s[k].tam
  <2>1. t[k] = IF k = 0 THEN 0 ELSE t[k - 1] + s[k].tam BY <1>3 DEF EsSuma
  <2>2. w[k] = IF k = 0 THEN 0 ELSE w[k - 1] + s[k].tam BY <1>3 DEF EsSuma
  <2>3. QED BY <2>1, <2>2
<1>5. k # 0 BY <1>2, <1>4
<1>6. k - 1 \in 0 .. n /\ k - 1 < k BY <1>3, <1>5
<1>7. t[k - 1] = w[k - 1]
  <2>1. k - 1 \notin S
    <3>1. ~ (k <= k - 1) BY <1>3
    <3>2. QED BY <3>1, <1>2
  <2>2. QED BY <2>1, <1>6
<1>8. QED BY <1>2, <1>4, <1>5, <1>7

LEMMA BytesCero ==
  ASSUME NEW s
  PROVE  Bytes(s, 0) = 0
<1>1. \E t : EsSuma(t, s, 0) BY SumaExiste
<1>2. PICK t : t = CHOOSE u : EsSuma(u, s, 0) OBVIOUS
<1>3. EsSuma(t, s, 0) BY <1>1, <1>2
<1>4. Bytes(s, 0) = t[0] BY <1>2 DEF Bytes, EsSuma
<1>5. t[0] = 0 BY <1>3 DEF EsSuma
<1>6. QED BY <1>4, <1>5

LEMMA BytesPaso ==
  ASSUME NEW s, NEW n \in Nat
  PROVE  Bytes(s, n + 1) = Bytes(s, n) + s[n + 1].tam
<1>0. n + 1 \in Nat /\ n <= n + 1 OBVIOUS
<1>1. (\E t : EsSuma(t, s, n)) /\ (\E t : EsSuma(t, s, n + 1)) BY <1>0, SumaExiste
<1>2. PICK t : t = CHOOSE u : EsSuma(u, s, n) OBVIOUS
<1>3. PICK w : w = CHOOSE u : EsSuma(u, s, n + 1) OBVIOUS
<1>4. EsSuma(t, s, n) /\ EsSuma(w, s, n + 1) BY <1>1, <1>2, <1>3
<1>5. Bytes(s, n) = t[n] BY <1>2 DEF Bytes, EsSuma
<1>6. Bytes(s, n + 1) = w[n + 1] BY <1>3 DEF Bytes, EsSuma
<1>7. t[n] = w[n]
  <2>1. \A k \in 0 .. n : t[k] = w[k] BY <1>0, <1>4, SumaUnica
  <2>2. QED BY <2>1
<1>8. w[n + 1] = w[n] + s[n + 1].tam
  <2>1. n + 1 \in 0 .. (n + 1) /\ n + 1 # 0 /\ (n + 1) - 1 = n OBVIOUS
  <2>2. w[n + 1] = w[(n + 1) - 1] + s[n + 1].tam BY <1>4, <2>1 DEF EsSuma
  <2>3. QED BY <2>1, <2>2
<1>9. QED BY <1>5, <1>6, <1>7, <1>8

\* A stretch of equal sizes adds the same bytes, wherever it lies.
Enteros(s, n)      == \A i \in 1 .. n : s[i].tam \in Int
Tramo(s, a, u, c, n) == \A i \in 1 .. n : s[a + i].tam = u[c + i].tam
LEMMA BytesTramo ==
  ASSUME NEW s, NEW u, NEW a \in Nat, NEW c \in Nat, NEW n \in Nat,
         Enteros(s, a + n), Enteros(u, c + n), Tramo(s, a, u, c, n)
  PROVE  /\ Bytes(s, a) \in Int /\ Bytes(u, c) \in Int
         /\ Bytes(s, a + n) \in Int /\ Bytes(u, c + n) \in Int
         /\ Bytes(s, a + n) - Bytes(s, a) = Bytes(u, c + n) - Bytes(u, c)
<1>1. ASSUME NEW x, NEW d \in Nat, \A i \in 1 .. d : x[i].tam \in Int
      PROVE  \A m \in 0 .. d : Bytes(x, m) \in Int
  <2> DEFINE S == {m \in 0 .. d : Bytes(x, m) \notin Int}
  <2>1. SUFFICES ASSUME S # {} PROVE FALSE OBVIOUS
  <2>2. PICK m \in S : \A y \in S : m <= y
    <3>1. S \subseteq Nat OBVIOUS
    <3> HIDE DEF S
    <3>2. QED BY <2>1, <3>1, MinExiste
  <2>3. m # 0 BY <2>2, BytesCero
  <2>4. m - 1 \in Nat /\ m - 1 \in 0 .. d /\ m \in 1 .. d /\ (m - 1) + 1 = m BY <2>2, <2>3
  <2>5. Bytes(x, m - 1) \in Int
    <3>1. m - 1 < m BY <2>4
    <3>2. QED BY <2>2, <2>4, <3>1
  <2>6. Bytes(x, m) = Bytes(x, m - 1) + x[m].tam
    <3>1. Bytes(x, (m - 1) + 1) = Bytes(x, m - 1) + x[(m - 1) + 1].tam BY <2>4, BytesPaso
    <3>2. QED BY <3>1, <2>4
  <2>7. QED BY <2>2, <2>4, <2>5, <2>6, <1>1
<1>2. \A m \in 0 .. (a + n) : Bytes(s, m) \in Int
  <2>1. a + n \in Nat OBVIOUS
  <2>2. QED BY <1>1, <2>1 DEF Enteros
<1>3. \A m \in 0 .. (c + n) : Bytes(u, m) \in Int
  <2>1. c + n \in Nat OBVIOUS
  <2>2. QED BY <1>1, <2>1 DEF Enteros
<1> DEFINE S == {m \in 0 .. n : Bytes(s, a + m) - Bytes(s, a) # Bytes(u, c + m) - Bytes(u, c)}
<1>4. S = {}
  <2>1. SUFFICES ASSUME S # {} PROVE FALSE OBVIOUS
  <2>2. PICK m \in S : \A y \in S : m <= y
    <3>1. S \subseteq Nat OBVIOUS
    <3> HIDE DEF S
    <3>2. QED BY <2>1, <3>1, MinExiste
  <2>3. m # 0
    <3>1. SUFFICES ASSUME m = 0 PROVE FALSE OBVIOUS
    <3>2. a + m = a /\ c + m = c /\ a \in 0 .. (a + n) /\ c \in 0 .. (c + n) BY <3>1
    <3>3. Bytes(s, a) - Bytes(s, a) = 0 /\ Bytes(u, c) - Bytes(u, c) = 0
      BY <3>2, <1>2, <1>3
    <3>4. QED BY <2>2, <3>2, <3>3
  <2>4. /\ m - 1 \in 0 .. n /\ m - 1 < m /\ m \in 1 .. n
        /\ a + (m - 1) \in Nat /\ (a + (m - 1)) + 1 = a + m
        /\ c + (m - 1) \in Nat /\ (c + (m - 1)) + 1 = c + m
    BY <2>2, <2>3
  <2>5. Bytes(s, a + (m - 1)) - Bytes(s, a) = Bytes(u, c + (m - 1)) - Bytes(u, c)
    BY <2>2, <2>4
  <2>6. Bytes(s, a + m) = Bytes(s, a + (m - 1)) + s[a + m].tam
    <3>1. Bytes(s, (a + (m - 1)) + 1) = Bytes(s, a + (m - 1)) + s[(a + (m - 1)) + 1].tam
      BY <2>4, BytesPaso
    <3>2. QED BY <3>1, <2>4
  <2>7. Bytes(u, c + m) = Bytes(u, c + (m - 1)) + u[c + m].tam
    <3>1. Bytes(u, (c + (m - 1)) + 1) = Bytes(u, c + (m - 1)) + u[(c + (m - 1)) + 1].tam
      BY <2>4, BytesPaso
    <3>2. QED BY <3>1, <2>4
  <2>8. /\ s[a + m].tam = u[c + m].tam
        /\ s[a + m].tam \in Int /\ u[c + m].tam \in Int
        /\ Bytes(s, a) \in Int /\ Bytes(u, c) \in Int
        /\ Bytes(s, a + (m - 1)) \in Int /\ Bytes(u, c + (m - 1)) \in Int
    <3>1. /\ a \in 0 .. (a + n) /\ a + (m - 1) \in 0 .. (a + n) /\ a + m \in 1 .. (a + n)
          /\ c \in 0 .. (c + n) /\ c + (m - 1) \in 0 .. (c + n) /\ c + m \in 1 .. (c + n)
      BY <2>4
    <3>2. QED BY <3>1, <2>4, <1>2, <1>3 DEF Enteros, Tramo
  <2>9. Bytes(s, a + m) - Bytes(s, a) # Bytes(u, c + m) - Bytes(u, c) BY <2>2
  <2>10. QED BY <2>5, <2>6, <2>7, <2>8, <2>9
<1>5. a \in 0 .. (a + n) /\ a + n \in 0 .. (a + n) /\ c \in 0 .. (c + n)
      /\ c + n \in 0 .. (c + n) /\ n \in 0 .. n
  OBVIOUS
<1>6. QED BY <1>2, <1>3, <1>4, <1>5

LEMMA BytesNat ==
  ASSUME NEW s, NEW n \in Nat, \A i \in 1 .. n : s[i].tam \in Nat
  PROVE  Bytes(s, n) \in Nat
<1> DEFINE S == {m \in 0 .. n : Bytes(s, m) \notin Nat}
<1>1. SUFFICES ASSUME S # {} PROVE FALSE
  <2>1. n \in 0 .. n OBVIOUS
  <2>2. QED BY <2>1
<1>2. PICK m \in S : \A y \in S : m <= y
  <2>1. S \subseteq Nat OBVIOUS
  <2> HIDE DEF S
  <2>2. QED BY <1>1, <2>1, MinExiste
<1>3. m # 0 BY <1>2, BytesCero
<1>4. m - 1 \in Nat /\ m - 1 \in 0 .. n /\ m \in 1 .. n /\ (m - 1) + 1 = m /\ m - 1 < m
  BY <1>2, <1>3
<1>5. Bytes(s, m - 1) \in Nat BY <1>2, <1>4
<1>6. Bytes(s, m) = Bytes(s, m - 1) + s[m].tam
  <2>1. Bytes(s, (m - 1) + 1) = Bytes(s, m - 1) + s[(m - 1) + 1].tam BY <1>4, BytesPaso
  <2>2. QED BY <2>1, <1>4
<1>7. s[m].tam \in Nat BY <1>4
<1>8. Bytes(s, m) \in Nat BY <1>5, <1>6, <1>7
<1>9. QED BY <1>2, <1>8

LEMMA BytesIgual ==
  ASSUME NEW s, NEW u, NEW n \in Nat,
         \A i \in 1 .. n : s[i].tam \in Int /\ u[i].tam = s[i].tam
  PROVE  Bytes(u, n) = Bytes(s, n)
<1>0. PICK z \in Nat : z = 0 OBVIOUS
<1>1. /\ z + n = n
      /\ Enteros(s, z + n) /\ Enteros(u, z + n) /\ Tramo(s, z, u, z, n)
  BY <1>0 DEF Enteros, Tramo
<1>2. /\ Bytes(s, z + n) \in Int /\ Bytes(u, z + n) \in Int
      /\ Bytes(s, z + n) - Bytes(s, z) = Bytes(u, z + n) - Bytes(u, z)
  BY <1>1, BytesTramo
<1>3. Bytes(s, z) = 0 /\ Bytes(u, z) = 0 BY <1>0, BytesCero
<1>4. QED BY <1>1, <1>2, <1>3

LEMMA BytesCrece ==
  ASSUME NEW s, NEW a \in Nat, NEW n \in Nat, a <= n,
         \A i \in 1 .. n : s[i].tam \in Nat
  PROVE  Bytes(s, a) \in Nat /\ Bytes(s, n) \in Nat /\ Bytes(s, a) <= Bytes(s, n)
<1> DEFINE d == n - a
           u == [k \in 1 .. d |-> s[a + k]]
<1>1. d \in Nat /\ a + d = n OBVIOUS
<1>2. \A k \in 1 .. d : u[k] = s[a + k] OBVIOUS
<1> HIDE DEF d, u
<1>3. \A k \in 1 .. d : a + k \in 1 .. n BY <1>1
<1>4. \A k \in 1 .. d : u[k].tam \in Nat /\ u[k].tam = s[a + k].tam BY <1>2, <1>3
<1>5. Bytes(s, a) \in Nat /\ Bytes(s, n) \in Nat /\ Bytes(u, d) \in Nat
  <2>1. \A i \in 1 .. a : s[i].tam \in Nat OBVIOUS
  <2>2. QED BY <2>1, <1>1, <1>4, BytesNat
<1>0. PICK z \in Nat : z = 0 OBVIOUS
<1>6. Bytes(s, a + d) - Bytes(s, a) = Bytes(u, z + d) - Bytes(u, z)
  <2>1. Enteros(s, a + d) /\ Enteros(u, z + d) /\ Tramo(s, a, u, z, d)
    BY <1>0, <1>1, <1>4 DEF Enteros, Tramo
  <2>2. QED BY <2>1, <1>1, BytesTramo
<1>7. Bytes(u, z) = 0 /\ z + d = d BY BytesCero, <1>0, <1>1
<1>8. QED BY <1>1, <1>5, <1>6, <1>7

\* The blocks of a chain lie one after the other.
LEMMA DirCrece ==
  ASSUME NEW s, NEW n \in Nat, \A i \in 1 .. n : s[i].tam \in Nat,
         NEW i \in 1 .. n, NEW j \in 1 .. (n + 1), i < j
  PROVE  /\ Dir(s, i) \in Nat /\ Dir(s, j) \in Nat
         /\ Dir(s, i) + METADATA_SIZE + s[i].tam <= Dir(s, j)
<1>1. /\ i - 1 \in Nat /\ i \in Nat /\ (i - 1) + 1 = i /\ j - 1 \in Nat
      /\ i <= j - 1 /\ j - 1 <= n
  OBVIOUS
<1>2. Bytes(s, i) = Bytes(s, i - 1) + s[i].tam
  <2>1. Bytes(s, (i - 1) + 1) = Bytes(s, i - 1) + s[(i - 1) + 1].tam BY <1>1, BytesPaso
  <2>2. QED BY <2>1, <1>1
<1>3. \A k \in 1 .. (j - 1) : s[k].tam \in Nat BY <1>1
<1>4. Bytes(s, i) \in Nat /\ Bytes(s, j - 1) \in Nat /\ Bytes(s, i) <= Bytes(s, j - 1)
  BY <1>1, <1>3, BytesCrece
<1>5. Bytes(s, i - 1) \in Nat
  <2>1. \A k \in 1 .. (i - 1) : s[k].tam \in Nat BY <1>1
  <2>2. QED BY <2>1, <1>1, BytesNat
<1>6. s[i].tam \in Nat OBVIOUS
<1>7. QED BY <1>1, <1>2, <1>4, <1>5, <1>6 DEF Dir, METADATA_SIZE

-----------------------------------------------------------------------------
(* The operations on a chain                                               *)

\* q is the chain b whose r blocks from i on give way to the blocks of m.
EsReemplazo(q, b, m, i, r) ==
  /\ 1 <= i /\ i + r <= Len(b) + 1
  /\ q = SubSeq(b, 1, i - 1) \o m \o SubSeq(b, i + r, Len(b))

Reemplazado(q, b, m, i, r) ==
  /\ Len(q) = Len(b) - r + Len(m)
  /\ \A k \in 1 .. (i - 1) : q[k] = b[k]
  /\ \A k \in 1 .. Len(m) : q[(i - 1) + k] = m[k]
  /\ \A k \in 1 .. (Len(b) - (i + r - 1)) :
       q[(i - 1) + Len(m) + k] = b[(i + r - 1) + k]

LEMMA Reemplazo ==
  ASSUME NEW S, NEW b \in Seq(S), NEW m \in Seq(S), NEW i \in Nat, NEW r \in Nat, NEW q,
         EsReemplazo(q, b, m, i, r)
  PROVE  q \in Seq(S) /\ Reemplazado(q, b, m, i, r)
<1>1. /\ Len(b) \in Nat /\ Len(m) \in Nat
      /\ \A k \in 1 .. Len(b) : b[k] \in S
      /\ 1 <= i /\ i + r <= Len(b) + 1
  BY LenProperties, ElementOfSeq DEF EsReemplazo
<1> DEFINE a == SubSeq(b, 1, i - 1)
           c == SubSeq(b, i + r, Len(b))
<1>2. /\ a \in Seq(S) /\ Len(a) = i - 1
      /\ \A k \in 1 .. (i - 1) : a[k] = b[k]
  <2>1. \A k \in 1 .. (i - 1) : b[k] \in S BY <1>1
  <2>2. /\ SubSeq(b, 1, i - 1) \in Seq(S)
        /\ Len(SubSeq(b, 1, i - 1)) = IF 1 <= i - 1 THEN (i - 1) - 1 + 1 ELSE 0
        /\ \A k \in 1 .. ((i - 1) - 1 + 1) : SubSeq(b, 1, i - 1)[k] = b[1 + k - 1]
    BY <1>1, <2>1, SubSeqProperties
  <2>3. QED BY <2>2, <1>1
<1>3. /\ c \in Seq(S) /\ Len(c) = Len(b) - (i + r - 1)
      /\ \A k \in 1 .. (Len(b) - (i + r - 1)) : c[k] = b[(i + r - 1) + k]
  <2>1. \A k \in (i + r) .. Len(b) : b[k] \in S BY <1>1
  <2>2. /\ SubSeq(b, i + r, Len(b)) \in Seq(S)
        /\ Len(SubSeq(b, i + r, Len(b))) =
             IF i + r <= Len(b) THEN Len(b) - (i + r) + 1 ELSE 0
        /\ \A k \in 1 .. (Len(b) - (i + r) + 1) :
             SubSeq(b, i + r, Len(b))[k] = b[(i + r) + k - 1]
    BY <1>1, <2>1, SubSeqProperties
  <2>3. QED BY <2>2, <1>1
<1>4. q = (a \o m) \o c BY DEF EsReemplazo
<1> HIDE DEF a, c
<1>5. /\ a \o m \in Seq(S) /\ Len(a \o m) = (i - 1) + Len(m)
      /\ \A k \in 1 .. ((i - 1) + Len(m)) :
           (a \o m)[k] = IF k <= i - 1 THEN a[k] ELSE m[k - (i - 1)]
  <2>1. /\ a \o m \in Seq(S) /\ Len(a \o m) = Len(a) + Len(m)
        /\ \A k \in 1 .. (Len(a) + Len(m)) :
             (a \o m)[k] = IF k <= Len(a) THEN a[k] ELSE m[k - Len(a)]
    BY <1>2, ConcatProperties
  <2>2. QED BY <2>1, <1>2
<1> DEFINE e == a \o m
<1>6. /\ e \in Seq(S) /\ Len(e) = (i - 1) + Len(m)
      /\ \A k \in 1 .. ((i - 1) + Len(m)) :
           e[k] = IF k <= i - 1 THEN a[k] ELSE m[k - (i - 1)]
      /\ q = e \o c
  BY <1>4, <1>5
<1> HIDE DEF e
<1>7. /\ q \in Seq(S) /\ Len(q) = Len(e) + Len(c)
      /\ \A k \in 1 .. (Len(e) + Len(c)) :
           q[k] = IF k <= Len(e) THEN e[k] ELSE c[k - Len(e)]
  <2>1. e \in Seq(S) /\ c \in Seq(S) BY <1>3, <1>6
  <2>2. /\ e \o c \in Seq(S) /\ Len(e \o c) = Len(e) + Len(c)
        /\ \A k \in 1 .. (Len(e) + Len(c)) :
             (e \o c)[k] = IF k <= Len(e) THEN e[k] ELSE c[k - Len(e)]
    BY ONLY <2>1, ConcatProperties
  <2>3. QED BY <2>2, <1>6
<1>8. Len(q) = Len(b) - r + Len(m)
  <2>1. Len(q) = Len(e) + Len(c) BY <1>7
  <2>2. Len(e) = (i - 1) + Len(m) BY <1>6
  <2>3. Len(c) = Len(b) - (i + r - 1) BY <1>3
  <2>4. Len(b) \in Nat /\ Len(m) \in Nat /\ i \in Nat /\ r \in Nat BY <1>1
  <2>5. QED BY ONLY <2>1, <2>2, <2>3, <2>4
<1>9. ASSUME NEW k \in 1 .. (i - 1) PROVE q[k] = b[k]
  <2>1. k \in 1 .. (Len(e) + Len(c)) /\ k <= Len(e) /\ k \in 1 .. ((i - 1) + Len(m))
    BY <1>1, <1>3, <1>6
  <2>2. q[k] = e[k] BY <2>1, <1>7
  <2>3. e[k] = a[k] BY <2>1, <1>6
  <2>4. QED BY <2>2, <2>3, <1>2
<1>10. ASSUME NEW k \in 1 .. Len(m) PROVE q[(i - 1) + k] = m[k]
  <2> DEFINE x == (i - 1) + k
  <2>1. /\ x \in 1 .. (Len(e) + Len(c)) /\ x <= Len(e) /\ x \in 1 .. ((i - 1) + Len(m))
        /\ ~ (x <= i - 1) /\ x - (i - 1) = k
    BY <1>1, <1>3, <1>6
  <2> HIDE DEF x
  <2>2. q[x] = e[x] BY <2>1, <1>7
  <2>3. e[x] = m[k] BY <2>1, <1>6
  <2>4. QED BY <2>2, <2>3 DEF x
<1>11. ASSUME NEW k \in 1 .. (Len(b) - (i + r - 1))
       PROVE  q[(i - 1) + Len(m) + k] = b[(i + r - 1) + k]
  <2> DEFINE x == (i - 1) + Len(m) + k
  <2>1. /\ x \in 1 .. (Len(e) + Len(c)) /\ ~ (x <= Len(e)) /\ x - Len(e) = k
    BY <1>1, <1>3, <1>6
  <2> HIDE DEF x
  <2>2. q[x] = c[k] BY <2>1, <1>7
  <2>3. c[k] = b[(i + r - 1) + k] BY <1>3
  <2>4. QED BY <2>2, <2>3 DEF x
<1>12. QED BY <1>7, <1>8, <1>9, <1>10, <1>11 DEF Reemplazado

LEMMA BloqueTam ==
  ASSUME NEW b \in Seq(Bloque)
  PROVE  /\ Len(b) \in Nat
         /\ \A k \in 1 .. Len(b) : b[k] \in Bloque /\ b[k].tam \in Nat /\ b[k].libre \in BOOLEAN
<1>1. Len(b) \in Nat /\ \A k \in 1 .. Len(b) : b[k] \in Bloque
  BY LenProperties, ElementOfSeq
<1>2. QED BY <1>1 DEF Bloque

\* The bytes of the other blocks do not change.
Pesado(q, b, m, i, r) ==
  /\ Bytes(q, Len(q)) \in Nat /\ Bytes(b, Len(b)) \in Nat /\ Bytes(m, Len(m)) \in Nat
  /\ Bytes(b, i - 1) \in Nat /\ Bytes(b, i + r - 1) \in Nat
  /\ Bytes(q, Len(q)) - Bytes(b, Len(b))
       = Bytes(m, Len(m)) - (Bytes(b, i + r - 1) - Bytes(b, i - 1))

LEMMA ReemplazoBytes ==
  ASSUME NEW b \in Seq(Bloque), NEW m \in Seq(Bloque), NEW i \in Nat, NEW r \in Nat, NEW q,
         EsReemplazo(q, b, m, i, r)
  PROVE  Pesado(q, b, m, i, r)
<1>1. /\ q \in Seq(Bloque)
      /\ Len(q) = Len(b) - r + Len(m)
      /\ \A k \in 1 .. (i - 1) : q[k] = b[k]
      /\ \A k \in 1 .. Len(m) : q[(i - 1) + k] = m[k]
      /\ \A k \in 1 .. (Len(b) - (i + r - 1)) :
           q[(i - 1) + Len(m) + k] = b[(i + r - 1) + k]
  <2>1. q \in Seq(Bloque) /\ Reemplazado(q, b, m, i, r) BY Reemplazo
  <2>2. QED BY <2>1 DEF Reemplazado
<1>2. /\ Len(b) \in Nat /\ \A k \in 1 .. Len(b) : b[k].tam \in Nat
      /\ Len(m) \in Nat /\ \A k \in 1 .. Len(m) : m[k].tam \in Nat
      /\ Len(q) \in Nat /\ \A k \in 1 .. Len(q) : q[k].tam \in Nat
      /\ 1 <= i /\ i + r <= Len(b) + 1
  BY <1>1, BloqueTam DEF EsReemplazo
<1> DEFINE x == i - 1
           y == i + r - 1
           c == Len(b) - y
           w == x + Len(m)
           d == Len(m)
           z == 0
<1>3. x \in Nat /\ x = i - 1 BY <1>2
<1>4. y \in Nat /\ y = i + r - 1 BY <1>2
<1>5. c \in Nat /\ c = Len(b) - y BY <1>2
<1>6. w \in Nat /\ w = x + Len(m) BY <1>2
<1>7. d \in Nat /\ d = Len(m) BY <1>2
<1>8. z \in Nat /\ z = 0 OBVIOUS
<1> HIDE DEF x, y, c, w, d, z
<1>9. x + d = w /\ z + d = Len(m) /\ w + c = Len(q) /\ y + c = Len(b)
  BY <1>1, <1>2, <1>3, <1>4, <1>5, <1>6, <1>7, <1>8
<1>10. Enteros(q, w + c) /\ Enteros(b, y + c) /\ Enteros(q, x + d) /\ Enteros(m, z + d)
  <2>1. Enteros(q, Len(q)) /\ Enteros(b, Len(b)) /\ Enteros(m, Len(m)) BY <1>2 DEF Enteros
  <2>2. w <= Len(q) BY <1>5, <1>6, <1>9
  <2>3. Enteros(q, w) BY <2>1, <2>2, <1>2, <1>6 DEF Enteros
  <2>4. QED BY <2>1, <2>3, <1>9
<1>11. Bytes(q, x) = Bytes(b, x)
  <2>1. \A k \in 1 .. x : b[k].tam \in Int /\ q[k].tam = b[k].tam
    BY <1>1, <1>2, <1>3
  <2>2. QED BY <2>1, <1>3, BytesIgual
<1>12. Bytes(q, x + d) - Bytes(q, x) = Bytes(m, z + d) - Bytes(m, z)
  <2>1. Tramo(q, x, m, z, d) BY <1>1, <1>2, <1>3, <1>7, <1>8 DEF Tramo
  <2>2. QED BY <2>1, <1>3, <1>4, <1>5, <1>6, <1>7, <1>8, <1>10, BytesTramo
<1>13. Bytes(q, w + c) - Bytes(q, w) = Bytes(b, y + c) - Bytes(b, y)
  <2>1. Tramo(q, w, b, y, c)
    <3>1. ASSUME NEW k \in 1 .. c PROVE q[w + k].tam = b[y + k].tam
      <4>1. k \in 1 .. (Len(b) - (i + r - 1)) BY <1>4, <1>5
      <4>2. q[(i - 1) + Len(m) + k] = b[(i + r - 1) + k] BY <1>1, <4>1
      <4>3. (i - 1) + Len(m) + k = w + k /\ (i + r - 1) + k = y + k
        BY <1>2, <1>3, <1>4, <1>6
      <4>4. QED BY <4>2, <4>3
    <3>2. QED BY <3>1 DEF Tramo
  <2>2. QED BY <2>1, <1>3, <1>4, <1>5, <1>6, <1>7, <1>8, <1>10, BytesTramo
<1>14. Bytes(m, z) = 0 BY <1>8, BytesCero
<1>15. /\ Bytes(q, Len(q)) \in Nat /\ Bytes(b, Len(b)) \in Nat /\ Bytes(m, Len(m)) \in Nat
  BY <1>2, BytesNat
<1>16. Bytes(q, w) \in Nat
  <2>1. \A k \in 1 .. w : q[k].tam \in Nat BY SMTT(60), <1>2, <1>5, <1>6, <1>9
  <2>2. QED BY <2>1, <1>6, BytesNat
<1>17. Bytes(b, x) \in Nat /\ Bytes(b, y) \in Nat
  <2>1. \A k \in 1 .. x : b[k].tam \in Nat BY <1>2, <1>3
  <2>2. \A k \in 1 .. y : b[k].tam \in Nat BY <1>2, <1>4
  <2>3. QED BY <2>1, <2>2, <1>3, <1>4, BytesNat
<1>18. /\ Bytes(q, w) - Bytes(b, x) = Bytes(m, Len(m))
       /\ Bytes(q, Len(q)) - Bytes(q, w) = Bytes(b, Len(b)) - Bytes(b, y)
  <2>1. Bytes(q, w) - Bytes(b, x) = Bytes(m, Len(m)) - 0
    BY ONLY <1>9, <1>11, <1>12, <1>14
  <2>2. QED BY <2>1, <1>9, <1>13, <1>15
<1>19. Bytes(b, i - 1) = Bytes(b, x) /\ Bytes(b, i + r - 1) = Bytes(b, y) BY <1>3, <1>4
<1>20. Bytes(q, Len(q)) - Bytes(b, Len(b))
         = Bytes(m, Len(m)) - (Bytes(b, y) - Bytes(b, x))
  <2> DEFINE A == Bytes(q, Len(q))
             B == Bytes(b, Len(b))
             C == Bytes(m, Len(m))
             D == Bytes(q, w)
             E == Bytes(b, x)
             F == Bytes(b, y)
  <2>1. /\ A \in Nat /\ B \in Nat /\ C \in Nat /\ D \in Nat /\ E \in Nat /\ F \in Nat
        /\ D - E = C /\ A - D = B - F
    BY <1>15, <1>16, <1>17, <1>18
  <2> HIDE DEF A, B, C, D, E, F
  <2>2. A - B = C - (F - E) BY ONLY <2>1
  <2>3. QED BY <2>2 DEF A, B, C, D, E, F
<1>21. QED BY <1>15, <1>17, <1>19, <1>20 DEF Pesado

LEMMA CortadoProps ==
  ASSUME NEW b \in Seq(Bloque), NEW i \in 1 .. Len(b), NEW size \in Nat,
         b[i].tam >= size + METADATA_SIZE
  PROVE  /\ Cortado(b, i, size) \in Seq(Bloque)
         /\ Len(Cortado(b, i, size)) = Len(b) + 1
         /\ \A k \in 1 .. (i - 1) : Cortado(b, i, size)[k] = b[k]
         /\ Cortado(b, i, size)[i] = [tam |-> size, libre |-> FALSE]
         /\ Cortado(b, i, size)[i + 1].libre
         /\ Total(Cortado(b, i, size)) = Total(b)
<1>1. /\ Len(b) \in Nat /\ i \in Nat /\ b[i].tam \in Nat
      /\ 1 <= i /\ i + 1 <= Len(b) + 1
  BY BloqueTam
<1> DEFINE x == [tam |-> size, libre |-> FALSE]
           y == [tam |-> b[i].tam - (size + METADATA_SIZE), libre |-> TRUE]
           m == <<x, y>>
           q == SubSeq(b, 1, i - 1) \o m \o SubSeq(b, i + 1, Len(b))
<1>2. /\ x \in Bloque /\ y \in Bloque /\ x.tam = size
      /\ y.tam = b[i].tam - (size + METADATA_SIZE) /\ y.libre = TRUE
  BY <1>1 DEF Bloque, METADATA_SIZE
<1>3. Cortado(b, i, size) = q BY DEF Cortado
<1> HIDE DEF x, y
<1>4. m \in Seq(Bloque) /\ Len(m) = 2 /\ m[1] = x /\ m[2] = y BY <1>2
<1>5. EsReemplazo(q, b, m, i, 1) BY <1>1 DEF EsReemplazo
<1> HIDE DEF m, q
<1>6. /\ q \in Seq(Bloque)
      /\ Len(q) = Len(b) - 1 + Len(m)
      /\ \A k \in 1 .. (i - 1) : q[k] = b[k]
      /\ \A k \in 1 .. Len(m) : q[(i - 1) + k] = m[k]
  <2>1. q \in Seq(Bloque) /\ Reemplazado(q, b, m, i, 1) BY <1>1, <1>4, <1>5, Reemplazo
  <2>2. QED BY <2>1 DEF Reemplazado
<1>7. Len(q) = Len(b) + 1 BY <1>1, <1>4, <1>6
<1>8. q[i] = x /\ q[i + 1] = y
  <2>1. 1 \in 1 .. Len(m) /\ 2 \in 1 .. Len(m) BY <1>4
  <2>2. q[(i - 1) + 1] = m[1] /\ q[(i - 1) + 2] = m[2] BY <2>1, <1>6
  <2>3. (i - 1) + 1 = i /\ (i - 1) + 2 = i + 1 BY <1>1
  <2>4. QED BY <2>2, <2>3, <1>4
<1>9. /\ Bytes(q, Len(q)) \in Nat /\ Bytes(b, Len(b)) \in Nat
      /\ Bytes(b, i - 1) \in Nat
      /\ Bytes(q, Len(q)) - Bytes(b, Len(b))
           = Bytes(m, Len(m)) - (Bytes(b, i + 1 - 1) - Bytes(b, i - 1))
  <2>1. Pesado(q, b, m, i, 1) BY <1>1, <1>4, <1>5, ReemplazoBytes
  <2>2. QED BY <2>1 DEF Pesado
<1>10. Bytes(m, Len(m)) = x.tam + y.tam
  <2>1. Bytes(m, 0) = 0 BY BytesCero
  <2>2. Bytes(m, 0 + 1) = Bytes(m, 0) + m[0 + 1].tam BY BytesPaso
  <2>3. Bytes(m, 1 + 1) = Bytes(m, 1) + m[1 + 1].tam BY BytesPaso
  <2>4. 0 + 1 = 1 /\ 1 + 1 = 2 OBVIOUS
  <2>5. QED BY <2>1, <2>2, <2>3, <2>4, <1>2, <1>4
<1>11. Bytes(b, i + 1 - 1) - Bytes(b, i - 1) = b[i].tam
  <2>1. i - 1 \in Nat /\ (i - 1) + 1 = i /\ i + 1 - 1 = i BY <1>1
  <2>2. Bytes(b, (i - 1) + 1) = Bytes(b, i - 1) + b[(i - 1) + 1].tam BY <2>1, BytesPaso
  <2>3. QED BY <2>1, <2>2, <1>1, <1>9
<1>12. Bytes(q, Len(q)) - Bytes(b, Len(b)) = (x.tam + y.tam) - b[i].tam
  BY ONLY <1>9, <1>10, <1>11
<1>13. Total(q) = Total(b)
  <2>1. /\ Len(q) = Len(b) + 1 /\ Len(b) \in Nat
        /\ Bytes(q, Len(q)) \in Nat /\ Bytes(b, Len(b)) \in Nat
        /\ x.tam = size /\ y.tam = b[i].tam - (size + 5)
        /\ size \in Nat /\ b[i].tam \in Nat
    BY <1>1, <1>2, <1>7, <1>9 DEF METADATA_SIZE
  <2>2. Bytes(q, Len(q)) + Len(q) * 5 = Bytes(b, Len(b)) + Len(b) * 5
    <3> DEFINE A == Bytes(q, Len(q))
               B == Bytes(b, Len(b))
               N == Len(b)
               T == b[i].tam
    <3>1. /\ A \in Nat /\ B \in Nat /\ N \in Nat /\ T \in Nat /\ size \in Nat
          /\ A - B = (size + (T - (size + 5))) - T
      BY <2>1, <1>12
    <3> HIDE DEF A, B, N, T
    <3>2. A + (N + 1) * 5 = B + N * 5 BY ONLY <3>1
    <3>3. QED BY <3>2, <2>1 DEF A, B, N
  <2>3. QED BY <2>2 DEF Total, METADATA_SIZE
<1>14. QED BY <1>2, <1>3, <1>6, <1>7, <1>8, <1>13 DEF x

LEMMA UnidosProps ==
  ASSUME NEW b \in Seq(Bloque), NEW i \in 1 .. (Len(b) - 1)
  PROVE  /\ Unidos(b, i) \in Seq(Bloque)
         /\ Len(Unidos(b, i)) = Len(b) - 1
         /\ \A k \in 1 .. (i - 1) : Unidos(b, i)[k] = b[k]
         /\ Unidos(b, i)[i].libre = b[i].libre
         /\ Total(Unidos(b, i)) = Total(b)
<1>1. /\ Len(b) \in Nat /\ i \in Nat /\ i \in 1 .. Len(b) /\ i + 1 \in 1 .. Len(b)
      /\ 1 <= i /\ i + 2 <= Len(b) + 1
  BY BloqueTam
<1>2. /\ b[i] \in Bloque /\ b[i].tam \in Nat /\ b[i + 1].tam \in Nat BY <1>1, BloqueTam
<1> DEFINE x == [b[i] EXCEPT !.tam = @ + b[i + 1].tam + METADATA_SIZE]
           m == <<x>>
           q == SubSeq(b, 1, i - 1) \o m \o SubSeq(b, i + 2, Len(b))
<1>3. /\ x \in Bloque /\ x.tam = b[i].tam + b[i + 1].tam + METADATA_SIZE
      /\ x.libre = b[i].libre
  <2>1. b[i] = [tam |-> b[i].tam, libre |-> b[i].libre] /\ b[i].libre \in BOOLEAN
    BY <1>2 DEF Bloque
  <2>2. x = [tam |-> b[i].tam + b[i + 1].tam + METADATA_SIZE, libre |-> b[i].libre]
    BY <2>1
  <2>3. b[i].tam + b[i + 1].tam + METADATA_SIZE \in Nat BY SMTT(60), <1>2 DEF METADATA_SIZE
  <2> HIDE DEF x
  <2>4. QED BY <2>1, <2>2, <2>3 DEF Bloque
<1>4. Unidos(b, i) = q BY DEF Unidos
<1> HIDE DEF x
<1>5. m \in Seq(Bloque) /\ Len(m) = 1 /\ m[1] = x BY <1>3
<1>6. EsReemplazo(q, b, m, i, 2) BY <1>1 DEF EsReemplazo
<1> HIDE DEF m, q
<1>7. /\ q \in Seq(Bloque)
      /\ Len(q) = Len(b) - 2 + Len(m)
      /\ \A k \in 1 .. (i - 1) : q[k] = b[k]
      /\ \A k \in 1 .. Len(m) : q[(i - 1) + k] = m[k]
  <2>1. q \in Seq(Bloque) /\ Reemplazado(q, b, m, i, 2) BY <1>1, <1>5, <1>6, Reemplazo
  <2>2. QED BY <2>1 DEF Reemplazado
<1>8. Len(q) = Len(b) - 1 BY <1>1, <1>5, <1>7
<1>9. q[i] = x
  <2>1. 1 \in 1 .. Len(m) BY <1>5
  <2>2. q[(i - 1) + 1] = m[1] BY <2>1, <1>7
  <2>3. (i - 1) + 1 = i BY <1>1
  <2>4. QED BY <2>2, <2>3, <1>5
<1>10. /\ Bytes(q, Len(q)) \in Nat /\ Bytes(b, Len(b)) \in Nat
       /\ Bytes(b, i - 1) \in Nat
       /\ Bytes(q, Len(q)) - Bytes(b, Len(b))
            = Bytes(m, Len(m)) - (Bytes(b, i + 2 - 1) - Bytes(b, i - 1))
  <2>1. Pesado(q, b, m, i, 2) BY <1>1, <1>5, <1>6, ReemplazoBytes
  <2>2. QED BY <2>1 DEF Pesado
<1>11. Bytes(m, Len(m)) = x.tam
  <2>1. Bytes(m, 0) = 0 BY BytesCero
  <2>2. Bytes(m, 0 + 1) = Bytes(m, 0) + m[0 + 1].tam BY BytesPaso
  <2>3. 0 + 1 = 1 OBVIOUS
  <2>4. QED BY <2>1, <2>2, <2>3, <1>2, <1>3, <1>5 DEF METADATA_SIZE
<1>12. Bytes(b, i + 2 - 1) - Bytes(b, i - 1) = b[i].tam + b[i + 1].tam
  <2>1. i - 1 \in Nat /\ (i - 1) + 1 = i /\ i + 2 - 1 = i + 1 BY <1>1
  <2>2. Bytes(b, (i - 1) + 1) = Bytes(b, i - 1) + b[(i - 1) + 1].tam BY <2>1, BytesPaso
  <2>3. Bytes(b, i + 1) = Bytes(b, i) + b[i + 1].tam BY <1>1, BytesPaso
  <2>4. Bytes(b, i) = Bytes(b, i - 1) + b[i].tam BY <2>1, <2>2
  <2>5. Bytes(b, i + 2 - 1) = Bytes(b, i + 1) BY <2>1
  <2>6. QED BY ONLY SMTT(60), <2>3, <2>4, <2>5, <1>2, <1>10
<1>13. Bytes(q, Len(q)) - Bytes(b, Len(b)) = x.tam - (b[i].tam + b[i + 1].tam)
  BY ONLY <1>10, <1>11, <1>12
<1>14. Total(q) = Total(b)
  <2>1. /\ Len(q) = Len(b) - 1 /\ Len(b) \in Nat
        /\ Bytes(q, Len(q)) \in Nat /\ Bytes(b, Len(b)) \in Nat
        /\ x.tam = b[i].tam + b[i + 1].tam + 5
        /\ b[i].tam \in Nat /\ b[i + 1].tam \in Nat
    BY <1>1, <1>2, <1>3, <1>8, <1>10 DEF METADATA_SIZE
  <2>2. Bytes(q, Len(q)) + Len(q) * 5 = Bytes(b, Len(b)) + Len(b) * 5
    <3> DEFINE A == Bytes(q, Len(q))
               B == Bytes(b, Len(b))
               N == Len(b)
               T == b[i].tam
               U == b[i + 1].tam
    <3>1. /\ A \in Nat /\ B \in Nat /\ N \in Nat /\ T \in Nat /\ U \in Nat
          /\ A - B = (T + U + 5) - (T + U)
      BY <2>1, <1>13
    <3> HIDE DEF A, B, N, T, U
    <3>2. A + (N - 1) * 5 = B + N * 5 BY ONLY <3>1
    <3>3. QED BY <3>2, <2>1 DEF A, B, N
  <2>3. QED BY <2>2 DEF Total, METADATA_SIZE
<1>15. QED BY <1>3, <1>4, <1>7, <1>8, <1>9, <1>14

\* Freeing a block.
LEMMA SueltoProps ==
  ASSUME NEW b \in Seq(Bloque), NEW i \in 1 .. Len(b)
  PROVE  /\ [b EXCEPT ![i].libre = TRUE] \in Seq(Bloque)
         /\ Len([b EXCEPT ![i].libre = TRUE]) = Len(b)
         /\ \A k \in 1 .. Len(b) : k # i => [b EXCEPT ![i].libre = TRUE][k] = b[k]
         /\ [b EXCEPT ![i].libre = TRUE][i].libre
         /\ \A k \in 1 .. Len(b) : [b EXCEPT ![i].libre = TRUE][k].tam = b[k].tam
         /\ Total([b EXCEPT ![i].libre = TRUE]) = Total(b)
<1>1. /\ Len(b) \in Nat
      /\ \A k \in 1 .. Len(b) : b[k] \in Bloque /\ b[k].tam \in Nat
  BY BloqueTam
<1> DEFINE x == [b[i] EXCEPT !.libre = TRUE]
           q == [b EXCEPT ![i] = x]
<1>2. x \in Bloque /\ x.libre /\ x.tam = b[i].tam BY <1>1 DEF Bloque
<1>3. [b EXCEPT ![i].libre = TRUE] = q OBVIOUS
<1> HIDE DEF x
<1>4. /\ q \in Seq(Bloque) /\ Len(q) = Len(b)
      /\ \A k \in 1 .. Len(b) : q[k] = IF k = i THEN x ELSE b[k]
  BY <1>2, ExceptSeq
<1> HIDE DEF q
<1>5. \A k \in 1 .. Len(b) : b[k].tam \in Int /\ q[k].tam = b[k].tam BY <1>1, <1>2, <1>4
<1>6. Bytes(q, Len(b)) = Bytes(b, Len(b)) BY <1>1, <1>5, BytesIgual
<1>7. Total(q) = Total(b) BY <1>4, <1>6 DEF Total
<1>8. QED BY <1>2, <1>3, <1>4, <1>5, <1>7

LEMMA CrecidoProps ==
  ASSUME NEW b \in Seq(Bloque), b # <<>>, NEW n \in Int,
         b[Len(b)].tam + n * PAGE_SIZE \in Nat
  PROVE  /\ Crecido(b, n) \in Seq(Bloque)
         /\ Len(Crecido(b, n)) = Len(b)
         /\ \A k \in 1 .. (Len(b) - 1) : Crecido(b, n)[k] = b[k]
         /\ Crecido(b, n)[Len(b)].libre
         /\ Total(Crecido(b, n)) = Total(b) + n * PAGE_SIZE
<1>1. /\ Len(b) \in Nat /\ Len(b) \in 1 .. Len(b) /\ Len(b) - 1 \in Nat
      /\ (Len(b) - 1) + 1 = Len(b)
      /\ \A k \in 1 .. Len(b) : b[k] \in Bloque /\ b[k].tam \in Nat
  BY BloqueTam, EmptySeq
<1>2. PICK g \in Int : g = n * PAGE_SIZE BY HeapAssumption
<1> DEFINE x == [tam |-> b[Len(b)].tam + g, libre |-> TRUE]
           q == [b EXCEPT ![Len(b)] = x]
<1>3. x \in Bloque /\ x.libre /\ x.tam = b[Len(b)].tam + g BY <1>2 DEF Bloque
<1>4. Crecido(b, n) = q BY <1>2 DEF Crecido
<1> HIDE DEF x
<1>5. /\ q \in Seq(Bloque) /\ Len(q) = Len(b)
      /\ \A k \in 1 .. Len(b) : q[k] = IF k = Len(b) THEN x ELSE b[k]
  BY <1>1, <1>3, ExceptSeq
<1> HIDE DEF q
<1>6. ASSUME NEW k \in 1 .. (Len(b) - 1) PROVE q[k] = b[k] /\ b[k].tam \in Int
  <2>1. k \in 1 .. Len(b) /\ k # Len(b)
    <3>1. Len(b) \in Nat /\ k \in 1 .. (Len(b) - 1) BY <1>1
    <3>2. QED BY ONLY <3>1
  <2>2. q[k] = IF k = Len(b) THEN x ELSE b[k] BY SMTT(60), <2>1, <1>5
  <2>3. b[k].tam \in Nat BY <2>1, <1>1
  <2>4. QED BY <2>1, <2>2, <2>3
<1>7. Bytes(q, Len(b) - 1) = Bytes(b, Len(b) - 1) BY <1>1, <1>6, BytesIgual
<1>8. Bytes(q, Len(b)) = Bytes(q, Len(b) - 1) + q[Len(b)].tam
  <2>1. Bytes(q, (Len(b) - 1) + 1) = Bytes(q, Len(b) - 1) + q[(Len(b) - 1) + 1].tam
    BY <1>1, BytesPaso
  <2>2. QED BY <2>1, <1>1
<1>9. Bytes(b, Len(b)) = Bytes(b, Len(b) - 1) + b[Len(b)].tam
  <2>1. Bytes(b, (Len(b) - 1) + 1) = Bytes(b, Len(b) - 1) + b[(Len(b) - 1) + 1].tam
    BY <1>1, BytesPaso
  <2>2. QED BY <2>1, <1>1
<1>10. Bytes(b, Len(b) - 1) \in Nat
  <2>1. \A k \in 1 .. (Len(b) - 1) : b[k].tam \in Nat BY SMTT(60), <1>1
  <2>2. QED BY <2>1, <1>1, BytesNat
<1>11. q[Len(b)] = x /\ b[Len(b)].tam \in Nat BY <1>1, <1>5
<1>12. Total(q) = Total(b) + g
  <2>1. /\ Len(q) = Len(b) /\ Len(b) \in Nat /\ b[Len(b)].tam \in Nat /\ g \in Int
        /\ q[Len(b)].tam = b[Len(b)].tam + g
    BY <1>1, <1>2, <1>3, <1>5, <1>11
  <2>2. Bytes(q, Len(b)) + Len(b) * 5 = (Bytes(b, Len(b)) + Len(b) * 5) + g
    BY ONLY <2>1, <1>7, <1>8, <1>9, <1>10
  <2>3. QED BY SMTT(60), <2>1, <2>2 DEF Total, METADATA_SIZE
<1>13. QED BY <1>2, <1>3, <1>4, <1>5, <1>6, <1>11, <1>12

LEMMA MinEsta ==
  ASSUME NEW C \in SUBSET Nat, C # {}
  PROVE  Min(C) \in C
<1>1. \E x \in C : \A y \in C : x <= y BY MinExiste
<1>2. QED BY <1>1 DEF Min

\* The block found is large enough.
LEMMA ConSizeProps ==
  ASSUME NEW b \in Seq(Bloque), NEW t \in Nat, NEW i, i = proxima_metadata_libre_con_size(b, t)
  PROVE  i = 0 \/ (i \in 1 .. Len(b) /\ b[i].tam >= t)
<1> DEFINE n == Len(b)
           C == {k \in 1 .. (n - 2) : b[k].libre /\ b[k].tam >= t}
<1>1. n \in Nat BY BloqueTam
<1>2. i = IF n = 1 THEN (IF b[1].tam >= t THEN 1 ELSE 0)
          ELSE IF C # {} THEN Min(C)
          ELSE IF n > 0 /\ b[n].libre /\ b[n].tam >= t THEN n ELSE 0
  BY DEF proxima_metadata_libre_con_size
<1>3. CASE n = 1 BY <1>2, <1>3
<1>4. CASE n # 1 /\ C # {}
  <2>1. C \subseteq Nat BY <1>1
  <2>2. i = Min(C) BY <1>2, <1>4
  <2> HIDE DEF C
  <2>3. i \in C BY <2>1, <2>2, <1>4, MinEsta
  <2>4. QED BY <2>3, <1>1 DEF C
<1>5. CASE n # 1 /\ C = {}
  <2>1. i = IF n > 0 /\ b[n].libre /\ b[n].tam >= t THEN n ELSE 0 BY <1>2, <1>5
  <2>2. QED BY <2>1, <1>1
<1>6. QED BY <1>3, <1>4, <1>5

\* The walk of proxima_metadata_libre goes forward, and ends on the last block only
\* when it began there.
LEMMA ProxProps ==
  ASSUME NEW b \in Seq(Bloque), NEW i \in 1 .. Len(b), NEW j, j = proxima_metadata_libre(b, i)
  PROVE  \/ j = 0
         \/ j \in i .. (Len(b) - 1)
         \/ i = Len(b) /\ j = Len(b)
<1> DEFINE n == Len(b)
           C == {k \in i .. (n - 2) : b[k].libre}
<1>1. n \in Nat /\ i \in 1 .. n BY BloqueTam
<1>2. j = IF i = n THEN (IF b[n].libre THEN n ELSE 0)
          ELSE IF C # {} THEN Min(C)
          ELSE IF b[n].libre THEN n - 1 ELSE 0
  BY DEF proxima_metadata_libre
<1>3. CASE i = n BY <1>2, <1>3
<1>4. CASE i # n /\ C # {}
  <2>1. C \subseteq Nat BY <1>1
  <2>2. j = Min(C) BY <1>2, <1>4
  <2> HIDE DEF C
  <2>3. j \in C BY <2>1, <2>2, <1>4, MinEsta
  <2>4. j \in i .. (n - 1) BY <2>3, <1>1 DEF C
  <2>5. QED BY <2>4
<1>5. CASE i # n /\ C = {}
  <2>1. j = IF b[n].libre THEN n - 1 ELSE 0 BY <1>2, <1>5
  <2>2. n - 1 \in i .. (n - 1) BY <1>1, <1>5
  <2>3. QED BY <2>1, <2>2
<1>6. QED BY <1>3, <1>4, <1>5

\* The recursion of compactar_en_segmento: when it ends, with what, how it goes on,
\* and how many blocks are left to look at.
Junta(x)   == x[1][x[2] + 1].libre
Salto(x)   == proxima_metadata_libre(x[1], x[2] + 1)
Termina(x) == x[2] + 1 = Len(x[1]) \/ (~Junta(x) /\ Salto(x) = 0)
Hecho(x)   == IF Junta(x) THEN Unidos(x[1], x[2]) ELSE x[1]
Sigue(x)   == IF Junta(x) THEN <<Unidos(x[1], x[2]), x[2]>> ELSE <<x[1], Salto(x)>>
Medida(x)  == Len(x[1]) - x[2]

LEMMA CadenaTipo ==
  ASSUME NEW x \in Cadenas
  PROVE  /\ x[1] \in Seq(Bloque) /\ x[2] \in Nat /\ Len(x[1]) \in Nat
         /\ x[2] \in 1 .. (Len(x[1]) - 1) /\ x[2] \in 1 .. Len(x[1])
         /\ x[2] + 1 \in 1 .. Len(x[1])
         /\ Medida(x) \in Nat
<1>1. x[1] \in Seq(Bloque) /\ x[2] \in Nat /\ x[2] \in 1 .. (Len(x[1]) - 1) BY DEF Cadenas
<1>2. Len(x[1]) \in Nat BY <1>1, BloqueTam
<1> DEFINE n == Len(x[1])
           k == x[2]
<1>3. n \in Nat /\ k \in Nat /\ k \in 1 .. (n - 1) BY <1>1, <1>2
<1> HIDE DEF n, k
<1>4. k \in 1 .. n /\ k + 1 \in 1 .. n /\ n - k \in Nat BY <1>3
<1>5. QED BY <1>1, <1>2, <1>4 DEF n, k, Medida

LEMMA SigueProps ==
  ASSUME NEW x \in Cadenas, ~Termina(x)
  PROVE  /\ Sigue(x) \in Cadenas
         /\ Medida(Sigue(x)) < Medida(x)
         /\ Total(Sigue(x)[1]) = Total(x[1])
<1> DEFINE b == x[1]
           n == Len(x[1])
           k == x[2]
<1>1. /\ b \in Seq(Bloque) /\ n \in Nat /\ k \in 1 .. (n - 1) /\ k + 1 \in 1 .. n
      /\ n = Len(b)
  BY CadenaTipo
<1>2. k + 1 # n BY DEF Termina
<1>3. CASE Junta(x)
  <2> DEFINE u == Unidos(b, k)
  <2>1. u \in Seq(Bloque) /\ Len(u) = n - 1 /\ Total(u) = Total(b) BY <1>1, UnidosProps
  <2>2. Sigue(x) = <<u, k>> BY <1>3 DEF Sigue
  <2> HIDE DEF u, n, b, k
  <2>3. k \in 1 .. (Len(u) - 1) /\ k \in Nat BY <1>1, <1>2, <2>1
  <2>4. <<u, k>> \in Cadenas BY <2>1, <2>3 DEF Cadenas
  <2>5. Len(u) - k < n - k BY <1>1, <2>1
  <2>6. QED BY <2>1, <2>2, <2>4, <2>5 DEF Medida, b, n, k
<1>4. CASE ~Junta(x)
  <2> DEFINE j == Salto(x)
  <2>1. j = proxima_metadata_libre(b, k + 1) BY DEF Salto
  <2>2. j # 0 BY <1>4 DEF Termina
  <2>3. Sigue(x) = <<b, j>> BY <1>4 DEF Sigue
  <2> HIDE DEF j, n, b, k
  <2>4. j \in (k + 1) .. (n - 1)
    <3>1. j = 0 \/ j \in (k + 1) .. (Len(b) - 1) \/ (k + 1 = Len(b) /\ j = Len(b))
      BY <1>1, <2>1, ProxProps
    <3>2. QED BY <3>1, <2>2, <1>1, <1>2
  <2>5. j \in 1 .. (Len(b) - 1) /\ j \in Nat BY <1>1, <2>4
  <2>6. <<b, j>> \in Cadenas BY <1>1, <2>5 DEF Cadenas
  <2>7. n - j < n - k BY <1>1, <2>4
  <2>8. QED BY <1>1, <2>3, <2>6, <2>7 DEF Medida, b, n, k
<1>5. QED BY <1>3, <1>4

\* Its solutions up to a measure exist and agree, so it has one for every chain.
Hasta(n) == {x \in Cadenas : Medida(x) <= n}
EsCompacta(f, D) == f = [x \in D |-> IF Termina(x) THEN Hecho(x) ELSE f[Sigue(x)]]

LEMMA CompactaExiste ==
  ASSUME NEW n \in Nat
  PROVE  \E f : EsCompacta(f, Hasta(n))
<1> DEFINE S == {m \in Nat : ~ \E f : EsCompacta(f, Hasta(m))}
<1>1. SUFFICES ASSUME S # {} PROVE FALSE OBVIOUS
<1>2. PICK m \in S : \A y \in S : m <= y
  <2>1. S \subseteq Nat OBVIOUS
  <2> HIDE DEF S
  <2>2. QED BY <1>1, <2>1, MinExiste
<1>3. m \in Nat /\ \A y \in Nat : y < m => y \notin S BY <1>2
<1>4. \E g : m = 0 \/ EsCompacta(g, Hasta(m - 1))
  <2>1. CASE m = 0 BY <2>1
  <2>2. CASE m # 0
    <3>1. m - 1 \in Nat /\ m - 1 < m BY <1>3, <2>2
    <3>2. QED BY <3>1, <1>3
  <2>3. QED BY <2>1, <2>2
<1>5. PICK g : m = 0 \/ EsCompacta(g, Hasta(m - 1)) BY <1>4
<1> DEFINE f == [x \in Hasta(m) |-> IF Termina(x) THEN Hecho(x) ELSE g[Sigue(x)]]
<1>6. ASSUME NEW x \in Hasta(m), ~Termina(x) PROVE f[Sigue(x)] = g[Sigue(x)]
  <2> DEFINE y == Sigue(x)
  <2>1. x \in Cadenas /\ Medida(x) <= m /\ Medida(x) \in Nat BY CadenaTipo DEF Hasta
  <2>2. y \in Cadenas /\ Medida(y) < Medida(x) BY <2>1, <1>6, SigueProps
  <2> HIDE DEF y
  <2>3. Medida(y) \in Nat BY <2>2, CadenaTipo
  <2>4. m # 0 /\ Medida(y) <= m - 1 /\ Medida(y) <= m BY <2>1, <2>2, <2>3, <1>3
  <2>5. y \in Hasta(m - 1) /\ y \in Hasta(m) BY <2>2, <2>4 DEF Hasta
  <2>6. f[y] = IF Termina(y) THEN Hecho(y) ELSE g[Sigue(y)] BY <2>5
  <2>7. g[y] = IF Termina(y) THEN Hecho(y) ELSE g[Sigue(y)]
    <3>1. EsCompacta(g, Hasta(m - 1)) BY <1>5, <2>4
    <3>2. QED BY <3>1, <2>5 DEF EsCompacta
  <2>8. QED BY <2>6, <2>7 DEF y
<1>7. \A x \in Hasta(m) : f[x] = IF Termina(x) THEN Hecho(x) ELSE f[Sigue(x)]
  <2>1. \A x \in Hasta(m) : f[x] = IF Termina(x) THEN Hecho(x) ELSE g[Sigue(x)] OBVIOUS
  <2> HIDE DEF f
  <2>2. QED BY <2>1, <1>6
<1>8. f = [x \in Hasta(m) |-> f[x]] OBVIOUS
<1> HIDE DEF f
<1>9. EsCompacta(f, Hasta(m)) BY <1>7, <1>8 DEF EsCompacta
<1>10. QED BY <1>2, <1>9

LEMMA CompactaUnica ==
  ASSUME NEW n \in Nat, NEW m \in Nat, NEW f, NEW g,
         EsCompacta(f, Hasta(n)), EsCompacta(g, Hasta(m)), n <= m
  PROVE  \A x \in Hasta(n) : f[x] = g[x]
<1> DEFINE S == {k \in Nat : \E x \in Hasta(n) : Medida(x) = k /\ f[x] # g[x]}
<1>1. SUFFICES ASSUME S # {} PROVE FALSE
  <2>1. ASSUME NEW x \in Hasta(n), f[x] # g[x] PROVE Medida(x) \in S
    <3>1. Medida(x) \in Nat BY CadenaTipo DEF Hasta
    <3>2. QED BY <3>1, <2>1
  <2>2. QED BY <2>1
<1>2. PICK k \in S : \A y \in S : k <= y
  <2>1. S \subseteq Nat OBVIOUS
  <2> HIDE DEF S
  <2>2. QED BY <1>1, <2>1, MinExiste
<1>3. k \in Nat /\ \A y \in Nat : y < k => y \notin S BY <1>2
<1>4. PICK x \in Hasta(n) : Medida(x) = k /\ f[x] # g[x] BY <1>2
<1>5. x \in Cadenas /\ Medida(x) \in Nat /\ Medida(x) <= n /\ x \in Hasta(m)
  <2>1. x \in Cadenas /\ Medida(x) <= n BY DEF Hasta
  <2>2. Medida(x) \in Nat BY <2>1, CadenaTipo
  <2>3. Medida(x) <= m BY <2>1, <2>2
  <2>4. QED BY <2>1, <2>2, <2>3 DEF Hasta
<1>6. /\ f[x] = IF Termina(x) THEN Hecho(x) ELSE f[Sigue(x)]
      /\ g[x] = IF Termina(x) THEN Hecho(x) ELSE g[Sigue(x)]
  <2>1. f[x] = IF Termina(x) THEN Hecho(x) ELSE f[Sigue(x)] BY DEF EsCompacta
  <2>2. g[x] = IF Termina(x) THEN Hecho(x) ELSE g[Sigue(x)] BY <1>5 DEF EsCompacta
  <2>3. QED BY <2>1, <2>2
<1>7. ~Termina(x) /\ f[Sigue(x)] # g[Sigue(x)] BY <1>4, <1>6
<1>8. Sigue(x) \in Cadenas /\ Medida(Sigue(x)) < Medida(x) BY <1>5, <1>7, SigueProps
<1>9. Medida(Sigue(x)) \in Nat BY <1>8, CadenaTipo
<1>10. Medida(Sigue(x)) <= n BY <1>5, <1>8, <1>9
<1>11. Sigue(x) \in Hasta(n) BY <1>8, <1>10 DEF Hasta
<1>12. Medida(Sigue(x)) \notin S BY <1>3, <1>4, <1>8, <1>9
<1>13. QED BY <1>7, <1>9, <1>11, <1>12

LEMMA CompactaEc ==
  EsCompacta(compactar_en_segmento, Cadenas)
<1> DEFINE h(k) == CHOOSE f : EsCompacta(f, Hasta(k))
           g == [x \in Cadenas |-> h(Medida(x))[x]]
<1>1. \A k \in Nat : EsCompacta(h(k), Hasta(k)) BY CompactaExiste
<1>2. \A x \in Cadenas : g[x] = h(Medida(x))[x] OBVIOUS
<1>3. g = [x \in Cadenas |-> g[x]] OBVIOUS
<1> HIDE DEF h, g
<1>4. ASSUME NEW x \in Cadenas
      PROVE  g[x] = IF Termina(x) THEN Hecho(x) ELSE g[Sigue(x)]
  <2>1. Medida(x) \in Nat BY CadenaTipo
  <2>2. x \in Hasta(Medida(x)) BY <2>1 DEF Hasta
  <2>3. EsCompacta(h(Medida(x)), Hasta(Medida(x))) BY <1>1, <2>1
  <2>4. h(Medida(x))[x] =
          IF Termina(x) THEN Hecho(x) ELSE h(Medida(x))[Sigue(x)]
    BY <2>2, <2>3 DEF EsCompacta
  <2>5. CASE Termina(x) BY <2>4, <2>5, <1>2
  <2>6. CASE ~Termina(x)
    <3> DEFINE y == Sigue(x)
    <3>1. y \in Cadenas /\ Medida(y) < Medida(x) BY <2>6, SigueProps
    <3> HIDE DEF y
    <3>2. Medida(y) \in Nat BY <3>1, CadenaTipo
    <3>3. y \in Hasta(Medida(y)) BY <3>1, <3>2 DEF Hasta
    <3>4. EsCompacta(h(Medida(y)), Hasta(Medida(y))) BY <1>1, <3>2
    <3>5. Medida(y) <= Medida(x) BY <2>1, <3>1, <3>2
    <3>6. h(Medida(y))[y] = h(Medida(x))[y]
      BY <2>1, <2>3, <3>2, <3>3, <3>4, <3>5, CompactaUnica
    <3>7. g[y] = h(Medida(y))[y] BY <1>2, <3>1
    <3>8. QED BY <2>4, <2>6, <1>2, <3>6, <3>7 DEF y
  <2>7. QED BY <2>5, <2>6
<1>5. EsCompacta(g, Cadenas) BY <1>3, <1>4 DEF EsCompacta
<1>6. compactar_en_segmento = CHOOSE f : EsCompacta(f, Cadenas)
  BY ZenonT(60) DEF compactar_en_segmento, EsCompacta, Cadenas, Termina, Hecho, Sigue, Junta, Salto
<1>7. QED BY <1>5, <1>6

\* Compaction loses no byte.
LEMMA CompactaTotal ==
  \A x \in Cadenas : /\ compactar_en_segmento[x] \in Seq(Bloque)
                     /\ Total(compactar_en_segmento[x]) = Total(x[1])
<1> DEFINE f == compactar_en_segmento
           Bien(x) == f[x] \in Seq(Bloque) /\ Total(f[x]) = Total(x[1])
           S == {k \in Nat : \E x \in Cadenas : Medida(x) = k /\ ~Bien(x)}
<1>1. SUFFICES ASSUME S # {} PROVE FALSE
  <2>1. ASSUME NEW x \in Cadenas, ~Bien(x) PROVE Medida(x) \in S
    <3>1. Medida(x) \in Nat BY CadenaTipo
    <3>2. QED BY <3>1, <2>1
  <2>2. QED BY <2>1
<1>2. PICK k \in S : \A y \in S : k <= y
  <2>1. S \subseteq Nat OBVIOUS
  <2> HIDE DEF S
  <2>2. QED BY <1>1, <2>1, MinExiste
<1>3. k \in Nat /\ \A y \in Nat : y < k => y \notin S BY <1>2
<1>4. PICK x \in Cadenas : Medida(x) = k /\ ~Bien(x) BY <1>2
<1>5. EsCompacta(f, Cadenas) BY CompactaEc
<1> HIDE DEF f
<1>6. f[x] = IF Termina(x) THEN Hecho(x) ELSE f[Sigue(x)] BY <1>5 DEF EsCompacta
<1>7. /\ x[1] \in Seq(Bloque) /\ x[2] \in 1 .. (Len(x[1]) - 1) BY CadenaTipo
<1>8. CASE Termina(x)
  <2>1. CASE Junta(x)
    <3>1. f[x] = Unidos(x[1], x[2]) BY <1>6, <1>8, <2>1 DEF Hecho
    <3>2. QED BY <3>1, <1>4, <1>7, UnidosProps
  <2>2. CASE ~Junta(x)
    <3>1. f[x] = x[1] BY <1>6, <1>8, <2>2 DEF Hecho
    <3>2. QED BY <3>1, <1>4, <1>7
  <2>3. QED BY <2>1, <2>2
<1>9. CASE ~Termina(x)
  <2> DEFINE y == Sigue(x)
  <2>1. y \in Cadenas /\ Medida(y) < Medida(x) /\ Total(y[1]) = Total(x[1])
    BY <1>9, SigueProps
  <2> HIDE DEF y
  <2>2. Medida(y) \in Nat BY <2>1, CadenaTipo
  <2>3. Medida(y) \notin S BY <1>3, <1>4, <2>1, <2>2
  <2>4. Bien(y) BY <2>1, <2>2, <2>3
  <2>5. f[x] = f[y] BY <1>6, <1>9 DEF y
  <2>6. QED BY <2>1, <2>4, <2>5, <1>4
<1>10. QED BY <1>8, <1>9

LEMMA CompactarTotal ==
  ASSUME NEW b \in Seq(Bloque), b # <<>>
  PROVE  /\ compactar_espacios_libres(b) \in Seq(Bloque)
         /\ Total(compactar_espacios_libres(b)) = Total(b)
<1> DEFINE j == proxima_metadata_libre(b, 1)
<1>1. Len(b) \in Nat /\ Len(b) > 0 /\ 1 \in 1 .. Len(b)
  <2>1. Len(b) \in Nat \ {0} BY EmptySeq
  <2>2. QED BY <2>1
<1>2. compactar_espacios_libres(b) =
        IF j \in {0, Len(b)} THEN b ELSE compactar_en_segmento[<<b, j>>]
  BY DEF compactar_espacios_libres
<1>3. j = 0 \/ j \in 1 .. (Len(b) - 1) \/ (1 = Len(b) /\ j = Len(b))
  BY <1>1, ProxProps
<1> HIDE DEF j
<1>4. CASE j \in {0, Len(b)} BY <1>2, <1>4
<1>5. CASE j \notin {0, Len(b)}
  <2>1. j \in 1 .. (Len(b) - 1) /\ j \in Nat BY <1>1, <1>3, <1>5
  <2>2. <<b, j>> \in Cadenas BY <2>1 DEF Cadenas
  <2>3. <<b, j>>[1] = b OBVIOUS
  <2> DEFINE x == <<b, j>>
  <2>4. x \in Cadenas /\ x[1] = b BY <2>2, <2>3
  <2>5. compactar_espacios_libres(b) = compactar_en_segmento[x] BY <1>2, <1>5
  <2> HIDE DEF x
  <2>6. QED BY <2>4, <2>5, CompactaTotal
<1>6. QED BY <1>4, <1>5

-----------------------------------------------------------------------------
(* Pages                                                                   *)

LEMMA DivUnico ==
  ASSUME NEW d \in Nat \ {0}, NEW q \in Nat
  PROVE  (d * q) \div d = q
OBVIOUS

LEMMA PaginasProps ==
  ASSUME NEW c \in Int
  PROVE  /\ paginas(c) \in Int /\ paginas(c) * PAGE_SIZE \in Int
         /\ paginas(c) * PAGE_SIZE >= c
         /\ c > 0 => paginas(c) > 0
<1> DEFINE P == PAGE_SIZE
           e == -c
           q == e \div P
           r == e % P
<1>1. P \in Nat \ {0} /\ e \in Int BY HeapAssumption
<1> HIDE DEF P, e
<1>2. q \in Int /\ r \in 0 .. (P - 1) /\ e = P * q + r BY <1>1
<1> HIDE DEF q, r
<1>3. paginas(c) = -q BY DEF paginas, q, e, P
<1>4. (-q) * P \in Int /\ (-q) * P = -(P * q) BY <1>1, <1>2
<1>5. -(P * q) >= -e BY <1>1, <1>2
<1>6. e = -c BY DEF e
<1>7. -(P * q) >= c BY <1>1, <1>2, <1>5, <1>6
<1>8. ASSUME c > 0 PROVE -q > 0
  <2>1. SUFFICES ASSUME -q <= 0 PROVE FALSE BY <1>2
  <2>2. q >= 0 BY <2>1, <1>2
  <2>3. P * q >= 0 BY <2>2, <1>1, <1>2
  <2>4. QED BY <2>3, <1>8, <1>7, <1>1, <1>2
<1>9. QED BY <1>2, <1>3, <1>4, <1>7, <1>8 DEF P

LEMMA MaxCero ==
  ASSUME NEW c \in Int
  PROVE  Max({c, 0}) = IF c > 0 THEN c ELSE 0
BY DEF Max

\* Growing one segment by g pages adds g pages.
PagDe(L) == UNION {{p} \X (1 .. (L[p] \div PAGE_SIZE)) : p \in Prog}

LEMMA PagDeCrece ==
  ASSUME NEW L \in [Prog -> Nat], NEW M \in [Prog -> Nat], NEW p \in Prog,
         NEW k \in Nat, NEW g \in Nat,
         L[p] = PAGE_SIZE * k, M[p] = PAGE_SIZE * (k + g),
         \A o \in Prog : o # p => M[o] = L[o],
         IsFiniteSet(PagDe(L))
  PROVE  /\ IsFiniteSet(PagDe(M)) /\ Cardinality(PagDe(M)) = Cardinality(PagDe(L)) + g
<1> DEFINE N == {p} \X ((k + 1) .. (k + g))
<1>1. L[p] \div PAGE_SIZE = k /\ M[p] \div PAGE_SIZE = k + g
  <2>1. PAGE_SIZE \in Nat \ {0} /\ k + g \in Nat BY HeapAssumption
  <2>2. QED BY <2>1, DivUnico
<1>2. \A o \in Prog, x \in Nat : <<o, x>> \in PagDe(L) <=> x \in 1 .. (L[o] \div PAGE_SIZE) BY DEF PagDe
<1>3. \A o \in Prog, x \in Nat : <<o, x>> \in PagDe(M) <=> x \in 1 .. (M[o] \div PAGE_SIZE) BY DEF PagDe
<1>4. \A z \in PagDe(L) : \E o \in Prog, x \in Nat : z = <<o, x>> BY DEF PagDe
<1>5. \A z \in PagDe(M) : \E o \in Prog, x \in Nat : z = <<o, x>> BY DEF PagDe
<1>6. \A z : z \in N <=> \E x \in (k + 1) .. (k + g) : z = <<p, x>> OBVIOUS
<1>7. PagDe(M) = PagDe(L) \cup N
  <2>1. ASSUME NEW z \in PagDe(M) PROVE z \in PagDe(L) \cup N
    <3>1. PICK o \in Prog, x \in Nat : z = <<o, x>> BY <1>5
    <3>2. x \in 1 .. (M[o] \div PAGE_SIZE) BY <1>3, <3>1
    <3>3. CASE o = p
      <4>1. x \in 1 .. k \/ x \in (k + 1) .. (k + g) BY <3>2, <3>3, <1>1
      <4>2. QED BY <4>1, <3>1, <3>3, <1>1, <1>2, <1>6
    <3>4. CASE o # p
      <4>1. M[o] = L[o] BY <3>4
      <4>2. QED BY <4>1, <3>1, <3>2, <1>2
    <3>5. QED BY <3>3, <3>4
  <2>2. ASSUME NEW z \in PagDe(L) PROVE z \in PagDe(M)
    <3>1. PICK o \in Prog, x \in Nat : z = <<o, x>> BY <1>4
    <3>2. x \in 1 .. (L[o] \div PAGE_SIZE) BY <1>2, <3>1
    <3>3. CASE o = p
      <4>1. x \in 1 .. (k + g) BY <3>2, <3>3, <1>1
      <4>2. QED BY <4>1, <3>1, <3>3, <1>1, <1>3
    <3>4. CASE o # p
      <4>1. M[o] = L[o] BY <3>4
      <4>2. QED BY <4>1, <3>1, <3>2, <1>3
    <3>5. QED BY <3>3, <3>4
  <2>3. ASSUME NEW z \in N PROVE z \in PagDe(M)
    <3>1. PICK x \in (k + 1) .. (k + g) : z = <<p, x>> BY <1>6
    <3>2. x \in 1 .. (k + g) OBVIOUS
    <3>3. QED BY <3>1, <3>2, <1>1, <1>3
  <2>4. QED BY <2>1, <2>2, <2>3
<1>8. PagDe(L) \cap N = {}
  <2>1. ASSUME NEW z \in PagDe(L), z \in N PROVE FALSE
    <3>1. PICK x \in (k + 1) .. (k + g) : z = <<p, x>> BY <1>6, <2>1
    <3>2. x \in 1 .. k BY <3>1, <1>1, <1>2
    <3>3. QED BY <3>2
  <2>2. QED BY <2>1
<1>9. IsFiniteSet(N) /\ Cardinality(N) = g
  <2> DEFINE I == (k + 1) .. (k + g)
  <2>1. IsFiniteSet(I) /\ Cardinality(I) = g
    <3>1. k + 1 \in Int /\ k + g \in Int OBVIOUS
    <3>2. /\ IsFiniteSet((k + 1) .. (k + g))
          /\ Cardinality((k + 1) .. (k + g)) =
               IF k + 1 > k + g THEN 0 ELSE (k + g) - (k + 1) + 1
      BY <3>1, FS_Interval
    <3>3. QED BY <3>2
  <2>2. IsFiniteSet({p}) /\ Cardinality({p}) = 1 BY FS_Singleton
  <2> HIDE DEF I
  <2>3. IsFiniteSet({p} \X I) /\ Cardinality({p} \X I) = Cardinality({p}) * Cardinality(I)
    BY <2>1, <2>2, FS_Product
  <2>4. QED BY <2>1, <2>2, <2>3 DEF I
<1> HIDE DEF N
<1>10. /\ IsFiniteSet(PagDe(L) \cup N)
       /\ Cardinality(PagDe(L) \cup N) =
            Cardinality(PagDe(L)) + Cardinality(N) - Cardinality(PagDe(L) \cap N)
  BY <1>9, FS_Union
<1>11. Cardinality(PagDe(L) \cap N) = 0 BY <1>8, FS_EmptySet
<1>12. Cardinality(PagDe(L)) \in Nat BY FS_CardinalityType
<1>13. QED BY <1>7, <1>9, <1>10, <1>11, <1>12

-----------------------------------------------------------------------------
(* Every client: the chain covers the segment                              *)

LEMMA CadenaInit == Init => TypeOK /\ CadInv
<1> SUFFICES ASSUME Init PROVE TypeOK /\ CadInv OBVIOUS
<1>1. <<>> \in Seq(Bloque) /\ <<>> \in Seq(Viva) BY EmptySeq
<1>2. TypeOK BY <1>1, HeapAssumption DEF Init, TypeOK
<1>3. Total(<<>>) = 0
  <2>1. Len(<<>>) = 0 OBVIOUS
  <2>2. Bytes(<<>>, 0) = 0 BY BytesCero
  <2>3. QED BY <2>1, <2>2 DEF Total, METADATA_SIZE
<1>4. Paginas = {}
  <2>1. 0 \div PAGE_SIZE = 0 BY HeapAssumption
  <2>2. \A p \in Prog : limite[p] = 0 BY DEF Init
  <2>3. \A p \in Prog : {p} \X (1 .. (limite[p] \div PAGE_SIZE)) = {} BY <2>1, <2>2
  <2>4. QED BY <2>3 DEF Paginas
<1>5. IsFiniteSet(Paginas) /\ Cardinality(Paginas) = 0 BY <1>4, FS_EmptySet
<1>6. \A p \in Prog : Total(bloques[p]) = limite[p] /\ limite[p] = PAGE_SIZE * 0
  BY <1>3, HeapAssumption DEF Init
<1>7. libres + Cardinality(Paginas) = MARCOS BY <1>5, HeapAssumption DEF Init
<1>8. QED BY <1>2, <1>5, <1>6, <1>7 DEF CadInv

\* What taking pages does, and that it keeps the account of frames.
LEMMA TomaProps ==
  ASSUME TypeOK, CadInv, dano = "ninguno", NEW p \in Prog, NEW n \in Int, TomaPaginas(p, n)
  PROVE  /\ limite' \in [Prog -> Nat] /\ libres' \in Nat
         /\ dano' \in {"ninguno", "marcos", "cadena"}
         /\ pc' = [pc EXCEPT ![p] = "valida"]
         /\ using_memory' = using_memory /\ vivas' = vivas
         /\ dano' = "cadena" <=> n < 0
         /\ dano' = "ninguno" =>
              /\ n \in Nat
              /\ limite'[p] = limite[p] + n * PAGE_SIZE
              /\ \A o \in Prog : o # p => limite'[o] = limite[o]
              /\ \E k \in Nat : limite'[p] = PAGE_SIZE * k
              /\ IsFiniteSet(Paginas') /\ libres' + Cardinality(Paginas') = MARCOS
<1>1. /\ limite \in [Prog -> Nat] /\ libres \in Nat /\ MARCOS \in Nat
      /\ PAGE_SIZE \in Nat \ {0}
  BY HeapAssumption DEF TypeOK
<1> DEFINE g == IF n > 0 THEN n ELSE 0
<1>2. g \in Nat /\ Max({n, 0}) = g BY MaxCero
<1>3. /\ limite' = [limite EXCEPT ![p] = @ + g * PAGE_SIZE]
      /\ libres' = Max({libres - g, 0})
      /\ dano' = IF n < 0 THEN "cadena" ELSE IF n > libres THEN "marcos" ELSE "ninguno"
      /\ pc' = [pc EXCEPT ![p] = "valida"]
      /\ using_memory' = using_memory /\ vivas' = vivas
  BY <1>2 DEF TomaPaginas
<1> HIDE DEF g
<1>4. g * PAGE_SIZE \in Nat BY <1>1, <1>2
<1>5. limite' \in [Prog -> Nat] BY <1>1, <1>3, <1>4
<1>6. libres - g \in Int BY <1>1, <1>2
<1>7. libres' = IF libres - g > 0 THEN libres - g ELSE 0 BY <1>3, <1>6, MaxCero
<1>8. libres' \in Nat BY <1>6, <1>7
<1>9. dano' \in {"ninguno", "marcos", "cadena"} /\ (dano' = "cadena" <=> n < 0)
  BY <1>3
<1>10. ASSUME dano' = "ninguno"
       PROVE  /\ n \in Nat
              /\ limite'[p] = limite[p] + n * PAGE_SIZE
              /\ \A o \in Prog : o # p => limite'[o] = limite[o]
              /\ \E k \in Nat : limite'[p] = PAGE_SIZE * k
              /\ IsFiniteSet(Paginas') /\ libres' + Cardinality(Paginas') = MARCOS
  <2>1. n \in Nat /\ g = n /\ n <= libres
    <3>1. ~(n < 0) /\ ~(n > libres) BY <1>3, <1>10
    <3>2. n \in Nat /\ n <= libres BY <3>1, <1>1
    <3>3. QED BY <3>2 DEF g
  <2>2. /\ limite'[p] = limite[p] + n * PAGE_SIZE
        /\ \A o \in Prog : o # p => limite'[o] = limite[o]
    BY <1>1, <1>3, <2>1
  <2>3. PICK k \in Nat : limite[p] = PAGE_SIZE * k BY DEF CadInv
  <2>4. k + n \in Nat /\ limite'[p] = PAGE_SIZE * (k + n)
    <3> DEFINE P == PAGE_SIZE
    <3>1. P \in Nat /\ limite'[p] = P * k + n * P BY <1>1, <2>2, <2>3
    <3> HIDE DEF P
    <3>2. P * (k + n) = P * k + n * P BY <3>1, <2>1
    <3>3. QED BY <3>1, <3>2, <2>1 DEF P
  <2>5. Paginas = PagDe(limite) /\ Paginas' = PagDe(limite') BY DEF Paginas, PagDe
  <2>6. IsFiniteSet(Paginas) /\ libres + Cardinality(Paginas) = MARCOS BY DEF CadInv
  <2>7. IsFiniteSet(Paginas') /\ Cardinality(Paginas') = Cardinality(Paginas) + n
    <3> DEFINE L == limite
               M == limite'
    <3>1. /\ L \in [Prog -> Nat] /\ M \in [Prog -> Nat]
          /\ L[p] = PAGE_SIZE * k /\ M[p] = PAGE_SIZE * (k + n)
          /\ \A o \in Prog : o # p => M[o] = L[o]
          /\ IsFiniteSet(PagDe(L))
      BY <1>1, <1>5, <2>2, <2>3, <2>4, <2>5, <2>6
    <3> HIDE DEF L, M
    <3>2. IsFiniteSet(PagDe(M)) /\ Cardinality(PagDe(M)) = Cardinality(PagDe(L)) + n
      BY <3>1, <2>1, PagDeCrece
    <3>3. QED BY <3>2, <2>5 DEF L, M
  <2>8. libres' = libres - n BY <1>1, <1>7, <2>1
  <2>9. Cardinality(Paginas) \in Nat BY <2>6, FS_CardinalityType
  <2>10. libres' + Cardinality(Paginas') = MARCOS BY <2>6, <2>7, <2>8, <2>9, <2>1, <1>1
  <2>11. QED BY <2>1, <2>2, <2>4, <2>7, <2>10
<1>11. QED BY <1>3, <1>5, <1>8, <1>9, <1>10

\* One segment changes and its chain still covers it.
LEMMA CadenaSigue ==
  ASSUME TypeOK, CadInv, dano = "ninguno", NEW p \in Prog, NEW u \in Seq(Bloque),
         bloques' = [bloques EXCEPT ![p] = u], Total(u) = Total(bloques[p]),
         limite' = limite, libres' = libres
  PROVE  bloques' \in [Prog -> Seq(Bloque)] /\ CadInv'
<1>1. bloques \in [Prog -> Seq(Bloque)] BY DEF TypeOK
<1>2. /\ bloques' \in [Prog -> Seq(Bloque)]
      /\ \A o \in Prog : Total(bloques'[o]) = Total(bloques[o])
  BY <1>1
<1>3. /\ \A o \in Prog : Total(bloques'[o]) = limite'[o] /\ \E k \in Nat : limite'[o] = PAGE_SIZE * k
      /\ IsFiniteSet(Paginas') /\ libres' + Cardinality(Paginas') = MARCOS
  BY <1>2 DEF CadInv, Paginas
<1>4. CadInv' BY <1>3 DEF CadInv
<1>5. QED BY <1>2, <1>4

LEMMA CadenaUbica ==
  ASSUME TypeOK, CadInv, dano = "ninguno", NEW p \in Prog, memory_malloc_ubica(p)
  PROVE  TypeOK' /\ CadInv'
<1> DEFINE b == bloques[p]
           size == pedido[p]
           total == size + METADATA_SIZE
           i == proxima_metadata_libre_con_size(b, total)
<1>1. /\ b \in Seq(Bloque) /\ size \in Nat /\ total \in Nat /\ total = size + METADATA_SIZE
      /\ total > 0
  BY DEF TypeOK, METADATA_SIZE
<1>2. /\ mutex_lock' = mutex_lock /\ pedido' = pedido
      /\ desvio' \in [Prog -> {"nada", "absorbe", "pisa"}]
  <2>1. /\ mutex_lock' = mutex_lock /\ pedido' = pedido
        /\ \/ desvio' = desvio
           \/ desvio' = [desvio EXCEPT ![p] = IF Last(b).libre THEN @ ELSE "pisa"]
    BY DEF memory_malloc_ubica
  <2>2. QED BY <2>1 DEF TypeOK
<1>3. \/ /\ i # 0
         /\ bloques' = [bloques EXCEPT ![p] = Cortado(b, i, size)]
         /\ vivas' = [vivas EXCEPT ![p] =
                        Append(@, [dir |-> Dir(b, i) + METADATA_SIZE, tam |-> size])]
         /\ using_memory' = [using_memory EXCEPT ![p] = (@ + size) % UINT32]
         /\ pc' = [pc EXCEPT ![p] = "listo"]
         /\ limite' = limite /\ libres' = libres /\ dano' = dano
      \/ /\ i = 0 /\ b # <<>>
         /\ LET pags == paginas(total - Last(b).tam)
            IN bloques' = [bloques EXCEPT ![p] = Crecido(b, pags)] /\ TomaPaginas(p, pags)
      \/ /\ b = <<>>
         /\ LET pags == paginas(size + 2 * METADATA_SIZE)
            IN /\ bloques' = [bloques EXCEPT ![p] =
                     <<[tam |-> pags * PAGE_SIZE - METADATA_SIZE, libre |-> TRUE]>>]
               /\ TomaPaginas(p, pags)
  BY DEF memory_malloc_ubica
<1>4. i = 0 \/ (i \in 1 .. Len(b) /\ b[i].tam >= total) BY <1>1, ConSizeProps
<1> HIDE DEF b, size, total, i
<1>5. CASE /\ i # 0
           /\ bloques' = [bloques EXCEPT ![p] = Cortado(b, i, size)]
           /\ vivas' = [vivas EXCEPT ![p] =
                          Append(@, [dir |-> Dir(b, i) + METADATA_SIZE, tam |-> size])]
           /\ using_memory' = [using_memory EXCEPT ![p] = (@ + size) % UINT32]
           /\ pc' = [pc EXCEPT ![p] = "listo"]
           /\ limite' = limite /\ libres' = libres /\ dano' = dano
  <2>1. i \in 1 .. Len(b) /\ b[i].tam >= size + METADATA_SIZE BY <1>1, <1>4, <1>5
  <2> DEFINE u == Cortado(b, i, size)
  <2>2. u \in Seq(Bloque) /\ Total(u) = Total(b) BY ZenonT(60), <1>1, <2>1, CortadoProps
  <2>3. bloques' = [bloques EXCEPT ![p] = u] BY <1>5
  <2> HIDE DEF u
  <2>4. bloques' \in [Prog -> Seq(Bloque)] /\ CadInv'
    <3>1. Total(u) = Total(bloques[p]) BY <2>2 DEF b
    <3>2. QED BY <2>2, <2>3, <3>1, <1>5, CadenaSigue
  <2>5. using_memory' \in [Prog -> Nat]
    <3>1. using_memory \in [Prog -> Nat] /\ UINT32 \in Nat \ {0} BY HeapAssumption DEF TypeOK
    <3>2. using_memory[p] + size \in Nat BY <3>1, <1>1
    <3>3. (using_memory[p] + size) % UINT32 \in Nat BY <3>1, <3>2
    <3>4. QED BY <3>1, <3>3, <1>5
  <2>6. vivas' \in [Prog -> Seq(Viva)]
    <3>1. vivas \in [Prog -> Seq(Viva)] BY DEF TypeOK
    <3>2. Dir(b, i) \in Nat
      <4>1. Len(b) \in Nat /\ \A k \in 1 .. Len(b) : b[k].tam \in Nat BY <1>1, BloqueTam
      <4>2. \A k \in 1 .. (i - 1) : b[k].tam \in Nat BY <2>1, <4>1
      <4>3. i - 1 \in Nat BY <2>1, <4>1
      <4>4. Bytes(b, i - 1) \in Nat BY <4>2, <4>3, BytesNat
      <4>5. QED BY <4>3, <4>4 DEF Dir, METADATA_SIZE
    <3> DEFINE v == [dir |-> Dir(b, i) + METADATA_SIZE, tam |-> size]
    <3>3. v \in Viva BY <3>2, <1>1 DEF Viva, METADATA_SIZE
    <3>4. vivas' = [vivas EXCEPT ![p] = Append(@, v)] BY <1>5
    <3> HIDE DEF v
    <3>5. Append(vivas[p], v) \in Seq(Viva) BY <3>1, <3>3, AppendProperties
    <3>6. QED BY <3>1, <3>4, <3>5
  <2>7. pc' \in [Prog -> {"listo", "valida", "ubica", "fin"}] BY <1>5 DEF TypeOK
  <2>8. limite' \in [Prog -> Nat] /\ libres' \in Nat /\ dano' \in {"ninguno", "marcos", "cadena"}
    BY <1>5 DEF TypeOK
  <2>9. TypeOK' BY <1>2, <2>4, <2>5, <2>6, <2>7, <2>8 DEF TypeOK
  <2>10. QED BY <2>4, <2>9
<1>6. ASSUME NEW n \in Int, NEW u \in Seq(Bloque), TomaPaginas(p, n),
             bloques' = [bloques EXCEPT ![p] = u],
             dano' = "ninguno" => Total(u) = Total(b) + n * PAGE_SIZE
      PROVE  TypeOK' /\ CadInv'
  <2>1. bloques \in [Prog -> Seq(Bloque)] BY DEF TypeOK
  <2>2. /\ bloques' \in [Prog -> Seq(Bloque)] /\ bloques'[p] = u
        /\ \A o \in Prog : o # p => bloques'[o] = bloques[o]
    BY <2>1, <1>6
  <2>3. /\ limite' \in [Prog -> Nat] /\ libres' \in Nat
        /\ dano' \in {"ninguno", "marcos", "cadena"}
        /\ pc' = [pc EXCEPT ![p] = "valida"]
        /\ using_memory' = using_memory /\ vivas' = vivas
        /\ dano' = "ninguno" =>
             /\ n \in Nat
             /\ limite'[p] = limite[p] + n * PAGE_SIZE
             /\ \A o \in Prog : o # p => limite'[o] = limite[o]
             /\ \E k \in Nat : limite'[p] = PAGE_SIZE * k
             /\ IsFiniteSet(Paginas') /\ libres' + Cardinality(Paginas') = MARCOS
    BY <1>6, TomaProps
  <2>4. pc' \in [Prog -> {"listo", "valida", "ubica", "fin"}] BY <2>3 DEF TypeOK
  <2>5. TypeOK'
    BY <1>2, <2>2, <2>3, <2>4 DEF TypeOK
  <2>6. ASSUME dano' = "ninguno", NEW o \in Prog
        PROVE  Total(bloques'[o]) = limite'[o] /\ \E k \in Nat : limite'[o] = PAGE_SIZE * k
    <3>1. Total(bloques[o]) = limite[o] /\ \E k \in Nat : limite[o] = PAGE_SIZE * k
      BY DEF CadInv
    <3>2. CASE o = p
      <4>1. Total(u) = Total(b) + n * PAGE_SIZE BY <1>6, <2>6
      <4>2. limite'[p] = limite[p] + n * PAGE_SIZE /\ \E k \in Nat : limite'[p] = PAGE_SIZE * k
        BY <2>3, <2>6
      <4>3. QED BY <4>1, <4>2, <3>1, <3>2, <2>2 DEF b
    <3>3. CASE o # p BY <3>1, <3>3, <2>2, <2>3, <2>6
    <3>4. QED BY <3>2, <3>3
  <2>7. CadInv' BY <2>3, <2>6 DEF CadInv
  <2>8. QED BY <2>5, <2>7
<1>7. CASE /\ i = 0 /\ b # <<>>
           /\ LET pags == paginas(total - Last(b).tam)
              IN bloques' = [bloques EXCEPT ![p] = Crecido(b, pags)] /\ TomaPaginas(p, pags)
  <2> DEFINE n == paginas(total - Last(b).tam)
             u == Crecido(b, n)
  <2>1. /\ Len(b) \in 1 .. Len(b) /\ b[Len(b)].tam \in Nat /\ Last(b) = b[Len(b)]
    <3>1. Len(b) \in Nat /\ Len(b) # 0 BY <1>1, <1>7, EmptySeq
    <3>2. Len(b) \in 1 .. Len(b) BY <3>1
    <3>3. QED BY <3>2, <1>1, BloqueTam DEF Last
  <2>2. n \in Int /\ n * PAGE_SIZE \in Int /\ n * PAGE_SIZE >= total - b[Len(b)].tam
    <3>1. total - b[Len(b)].tam \in Int BY <1>1, <2>1
    <3>2. n = paginas(total - b[Len(b)].tam) BY <2>1
    <3> HIDE DEF n
    <3>3. QED BY <3>1, <3>2, PaginasProps
  <2>3. bloques' = [bloques EXCEPT ![p] = u] /\ TomaPaginas(p, n) BY <1>7
  <2> HIDE DEF n
  <2>4. b[Len(b)].tam + n * PAGE_SIZE \in Nat BY <1>1, <2>1, <2>2
  <2>5. u \in Seq(Bloque) /\ Total(u) = Total(b) + n * PAGE_SIZE
    BY <1>1, <1>7, <2>2, <2>4, CrecidoProps
  <2> HIDE DEF u
  <2>6. QED BY <1>6, <2>2, <2>3, <2>5
<1>8. CASE /\ b = <<>>
           /\ LET pags == paginas(size + 2 * METADATA_SIZE)
              IN /\ bloques' = [bloques EXCEPT ![p] =
                       <<[tam |-> pags * PAGE_SIZE - METADATA_SIZE, libre |-> TRUE]>>]
                 /\ TomaPaginas(p, pags)
  <2> DEFINE n == paginas(size + 2 * METADATA_SIZE)
             x == [tam |-> n * PAGE_SIZE - METADATA_SIZE, libre |-> TRUE]
             u == <<x>>
  <2>1. n \in Int /\ n * PAGE_SIZE \in Int /\ n * PAGE_SIZE >= size + 10
    <3>1. size + 2 * METADATA_SIZE \in Int /\ size + 2 * METADATA_SIZE = size + 10
      BY <1>1 DEF METADATA_SIZE
    <3>2. QED BY <3>1, PaginasProps
  <2>2. bloques' = [bloques EXCEPT ![p] = u] /\ TomaPaginas(p, n) BY <1>8
  <2> HIDE DEF n
  <2>3. n * PAGE_SIZE - METADATA_SIZE \in Nat BY <2>1, <1>1 DEF METADATA_SIZE
  <2>4. x \in Bloque /\ x.tam = n * PAGE_SIZE - METADATA_SIZE BY <2>3 DEF Bloque
  <2> HIDE DEF x
  <2>5. u \in Seq(Bloque) /\ Len(u) = 1 /\ u[1] = x BY <2>4
  <2> HIDE DEF u
  <2>6. Total(u) = n * PAGE_SIZE
    <3>1. Bytes(u, 0) = 0 BY BytesCero
    <3>2. Bytes(u, 0 + 1) = Bytes(u, 0) + u[0 + 1].tam BY BytesPaso
    <3>3. Bytes(u, 1) = n * PAGE_SIZE - METADATA_SIZE BY <3>1, <3>2, <2>3, <2>4, <2>5
    <3>4. QED BY <3>3, <2>1, <2>5 DEF Total, METADATA_SIZE
  <2>7. Total(b) = 0
    <3>1. Len(b) = 0 BY <1>8
    <3>2. Bytes(b, 0) = 0 BY BytesCero
    <3>3. QED BY <3>1, <3>2 DEF Total, METADATA_SIZE
  <2>8. Total(u) = Total(b) + n * PAGE_SIZE BY <2>1, <2>6, <2>7
  <2>9. QED BY <1>6, <2>1, <2>2, <2>5, <2>8
<1>9. QED BY <1>3, <1>5, <1>7, <1>8

LEMMA CadenaFree ==
  ASSUME TypeOK, CadInv, dano = "ninguno", NEW p \in Prog, NEW k \in 1 .. Len(vivas[p]),
         memory_free(p, k)
  PROVE  TypeOK' /\ CadInv'
<1> DEFINE b == bloques[p]
           I == {i \in 1 .. Len(b) : Dir(b, i) = vivas[p][k].dir - METADATA_SIZE}
<1>1. b \in Seq(Bloque) BY DEF TypeOK
<1>2. /\ limite' = limite /\ libres' = libres /\ mutex_lock' = mutex_lock /\ pc' = pc
      /\ pedido' = pedido /\ vivas' = [vivas EXCEPT ![p] = RemoveAt(@, k)]
      /\ desvio' \in [Prog -> {"nada", "absorbe", "pisa"}]
  <2>1. \/ \E i \in I :
             desvio' = [desvio EXCEPT ![p] =
                          IF @ = "nada" /\ Absorbe([b EXCEPT ![i].libre = TRUE])
                            THEN "absorbe" ELSE @]
        \/ desvio' = desvio
    BY DEF memory_free
  <2>2. desvio' \in [Prog -> {"nada", "absorbe", "pisa"}] BY <2>1 DEF TypeOK
  <2>3. QED BY <2>2 DEF memory_free
<1>3. vivas' \in [Prog -> Seq(Viva)]
  <2>1. vivas \in [Prog -> Seq(Viva)] BY DEF TypeOK
  <2>2. RemoveAt(vivas[p], k) \in Seq(Viva) BY <2>1, RemoveAtProps
  <2>3. QED BY <1>2, <2>1, <2>2
<1>4. \/ \E i \in I :
           /\ bloques' = [bloques EXCEPT ![p] =
                            compactar_espacios_libres([b EXCEPT ![i].libre = TRUE])]
           /\ using_memory' = [using_memory EXCEPT ![p] = (@ - b[i].tam) % UINT32]
           /\ dano' = dano
      \/ dano' = "cadena" /\ bloques' = bloques /\ using_memory' = using_memory
  BY DEF memory_free
<1>5. ASSUME NEW i \in I,
             bloques' = [bloques EXCEPT ![p] =
                           compactar_espacios_libres([b EXCEPT ![i].libre = TRUE])],
             using_memory' = [using_memory EXCEPT ![p] = (@ - b[i].tam) % UINT32],
             dano' = dano
      PROVE  TypeOK' /\ CadInv'
  <2>1. i \in 1 .. Len(b) OBVIOUS
  <2> HIDE DEF I
  <2> DEFINE s == [b EXCEPT ![i].libre = TRUE]
             u == compactar_espacios_libres(s)
  <2>2. s \in Seq(Bloque) /\ Len(s) = Len(b) /\ Total(s) = Total(b) BY <1>1, <2>1, SueltoProps
  <2>3. s # <<>>
    <3>1. Len(b) \in Nat BY <1>1, BloqueTam
    <3>2. Len(s) # 0 BY <2>1, <2>2, <3>1
    <3> HIDE DEF s
    <3>3. QED BY <3>2
  <2>4. bloques' = [bloques EXCEPT ![p] = u] BY <1>5
  <2> HIDE DEF s
  <2>5. u \in Seq(Bloque) /\ Total(u) = Total(s) BY <2>2, <2>3, CompactarTotal
  <2> HIDE DEF u
  <2>6. bloques' \in [Prog -> Seq(Bloque)] /\ CadInv'
    <3>1. Total(u) = Total(bloques[p]) BY <2>2, <2>5
    <3>2. QED BY <2>4, <2>5, <3>1, <1>2, CadenaSigue
  <2>7. using_memory' \in [Prog -> Nat]
    <3>1. using_memory \in [Prog -> Nat] /\ UINT32 \in Nat \ {0} BY HeapAssumption DEF TypeOK
    <3>2. b[i].tam \in Nat BY <1>1, <2>1, BloqueTam
    <3>3. using_memory[p] - b[i].tam \in Int BY <3>1, <3>2
    <3>4. (using_memory[p] - b[i].tam) % UINT32 \in Nat BY <3>1, <3>3
    <3>5. QED BY <3>1, <3>4, <1>5
  <2>8. TypeOK' BY <1>2, <1>3, <1>5, <2>6, <2>7 DEF TypeOK
  <2>9. QED BY <2>6, <2>8
<1>6. CASE dano' = "cadena" /\ bloques' = bloques /\ using_memory' = using_memory
  <2>1. TypeOK' BY <1>2, <1>3, <1>6 DEF TypeOK
  <2>2. CadInv' BY <1>6 DEF CadInv
  <2>3. QED BY <2>1, <2>2
<1> HIDE DEF I, b
<1>7. QED BY <1>4, <1>5, <1>6

LEMMA CadenaNext ==
  ASSUME TypeOK, CadInv, [Next]_vars
  PROVE  TypeOK' /\ CadInv'
<1>1. CASE UNCHANGED vars BY <1>1 DEF vars, TypeOK, CadInv, Paginas
<1>2. CASE Next
  <2>0. dano = "ninguno" BY <1>2 DEF Next
  <2>1. PICK p \in Prog : \/ \E size \in Tams : muse_alloc(p, size)
                          \/ memory_malloc(p)
                          \/ \E k \in 1 .. Len(vivas[p]) : memory_free(p, k)
                          \/ desconexion(p)
    BY <1>2 DEF Next
  <2>2. CASE \E size \in Tams : muse_alloc(p, size)
    <3>1. PICK size \in Tams : muse_alloc(p, size) BY <2>2
    <3>2. size \in Nat BY HeapAssumption
    <3>3. TypeOK' BY <3>1, <3>2 DEF muse_alloc, TypeOK
    <3>4. CadInv' BY <3>1 DEF muse_alloc, CadInv, Paginas
    <3>5. QED BY <3>3, <3>4
  <2>3. CASE memory_malloc_valida(p)
    <3>1. TypeOK' BY <2>3 DEF memory_malloc_valida, TypeOK
    <3>2. CadInv' BY <2>3 DEF memory_malloc_valida, CadInv, Paginas
    <3>3. QED BY <3>1, <3>2
  <2>4. CASE memory_malloc_ubica(p) BY <2>0, <2>4, CadenaUbica
  <2>5. CASE \E k \in 1 .. Len(vivas[p]) : memory_free(p, k)
    BY <2>0, <2>5, CadenaFree
  <2>6. CASE desconexion(p)
    <3>1. TypeOK' BY <2>6 DEF desconexion, TypeOK
    <3>2. CadInv' BY <2>6 DEF desconexion, CadInv, Paginas
    <3>3. QED BY <3>1, <3>2
  <2>7. QED BY <2>1, <2>2, <2>3, <2>4, <2>5, <2>6 DEF memory_malloc
<1>3. QED BY <1>1, <1>2

\* Every variable keeps to its type.
THEOREM Tipos == Spec => []TypeOK
<1>1. TypeOK /\ CadInv /\ [Next]_vars => (TypeOK /\ CadInv)' BY CadenaNext
<1>2. QED BY <1>1, CadenaInit, PTL DEF Spec

\* Of every client, in whatever order it frees: after any sequence of cuts, merges and
\* growths the chain of memory_malloc and memory_free ends exactly at the limit of the
\* segment, and every frame is either free or holds one page of a segment.
THEOREM LaCadenaCubreElSegmento == Spec => []CadenaCubreSegmento
<1>1. TypeOK /\ CadInv /\ [Next]_vars => (TypeOK /\ CadInv)' BY CadenaNext
<1>2. TypeOK /\ CadInv => CadenaCubreSegmento
  <2> SUFFICES ASSUME TypeOK, CadInv, dano = "ninguno"
               PROVE  /\ \A p \in Prog : Dir(bloques[p], Len(bloques[p]) + 1) = limite[p]
                      /\ libres + Cardinality(Paginas) = MARCOS
    BY DEF CadenaCubreSegmento
  <2>1. ASSUME NEW p \in Prog PROVE Dir(bloques[p], Len(bloques[p]) + 1) = limite[p]
    <3>1. Len(bloques[p]) \in Nat BY BloqueTam DEF TypeOK
    <3>2. (Len(bloques[p]) + 1) - 1 = Len(bloques[p]) BY <3>1
    <3>3. Dir(bloques[p], Len(bloques[p]) + 1) = Total(bloques[p]) BY <3>2 DEF Dir, Total
    <3>4. QED BY <3>3 DEF CadInv
  <2>2. QED BY <2>1 DEF CadInv
<1>3. QED BY <1>1, <1>2, CadenaInit, PTL DEF Spec


-----------------------------------------------------------------------------
(* Where the blocks of a chain lie                                         *)

\* The place of a block depends only on those before it.
LEMMA DirIgual ==
  ASSUME NEW b, NEW u, NEW n \in Nat, \A i \in 1 .. n : b[i].tam \in Nat /\ u[i].tam = b[i].tam
  PROVE  \A k \in 1 .. (n + 1) : Dir(u, k) = Dir(b, k)
<1>1. ASSUME NEW k \in 1 .. (n + 1) PROVE Dir(u, k) = Dir(b, k)
  <2>1. k - 1 \in Nat /\ \A i \in 1 .. (k - 1) : b[i].tam \in Int /\ u[i].tam = b[i].tam
    OBVIOUS
  <2>2. Bytes(u, k - 1) = Bytes(b, k - 1) BY <2>1, BytesIgual
  <2>3. QED BY <2>2 DEF Dir
<1>2. QED BY <1>1

\* Two blocks of a chain begin at different places.
LEMMA DirUnica ==
  ASSUME NEW b \in Seq(Bloque), NEW i \in 1 .. Len(b), NEW j \in 1 .. Len(b),
         Dir(b, i) = Dir(b, j)
  PROVE  i = j
<1>1. Len(b) \in Nat /\ \A k \in 1 .. Len(b) : b[k].tam \in Nat BY BloqueTam
<1>2. ASSUME NEW x \in 1 .. Len(b), NEW y \in 1 .. Len(b), x < y PROVE Dir(b, x) # Dir(b, y)
  <2>1. y \in 1 .. (Len(b) + 1) BY <1>1
  <2>2. /\ Dir(b, x) \in Nat /\ Dir(b, y) \in Nat /\ b[x].tam \in Nat
        /\ Dir(b, x) + METADATA_SIZE + b[x].tam <= Dir(b, y)
    BY <1>1, <1>2, <2>1, DirCrece
  <2>3. QED BY <2>2 DEF METADATA_SIZE
<1>3. i < j \/ j < i \/ i = j BY <1>1
<1>4. QED BY <1>2, <1>3

LEMMA DirNat ==
  ASSUME NEW b \in Seq(Bloque), NEW i \in 1 .. Len(b)
  PROVE  Dir(b, i) \in Nat
<1>1. Len(b) \in Nat /\ \A k \in 1 .. Len(b) : b[k].tam \in Nat BY BloqueTam
<1>2. i - 1 \in Nat /\ \A k \in 1 .. (i - 1) : b[k].tam \in Nat BY <1>1
<1>3. Bytes(b, i - 1) \in Nat BY <1>2, BytesNat
<1>4. QED BY <1>2, <1>3 DEF Dir, METADATA_SIZE

\* A replacement that covers as many bytes moves no other block.
Quietos(q, b, m, i, r) ==
  /\ \A k \in 1 .. i : Dir(q, k) = Dir(b, k)
  /\ \A k \in 1 .. (Len(b) - (i + r - 1)) :
       Dir(q, (i - 1) + Len(m) + k) = Dir(b, (i + r - 1) + k)

LEMMA ReemplazoDir ==
  ASSUME NEW b \in Seq(Bloque), NEW m \in Seq(Bloque), NEW i \in Nat, NEW r \in Nat, NEW q,
         EsReemplazo(q, b, m, i, r), Total(q) = Total(b)
  PROVE  Quietos(q, b, m, i, r)
<1>1. /\ q \in Seq(Bloque)
      /\ Len(q) = Len(b) - r + Len(m)
      /\ \A k \in 1 .. (i - 1) : q[k] = b[k]
      /\ \A k \in 1 .. (Len(b) - (i + r - 1)) :
           q[(i - 1) + Len(m) + k] = b[(i + r - 1) + k]
  <2>1. q \in Seq(Bloque) /\ Reemplazado(q, b, m, i, r) BY Reemplazo
  <2>2. QED BY <2>1 DEF Reemplazado
<1>2. /\ Len(b) \in Nat /\ \A k \in 1 .. Len(b) : b[k].tam \in Nat
      /\ Len(m) \in Nat
      /\ Len(q) \in Nat /\ \A k \in 1 .. Len(q) : q[k].tam \in Nat
      /\ 1 <= i /\ i + r <= Len(b) + 1
  BY <1>1, BloqueTam DEF EsReemplazo
<1>3. ASSUME NEW k \in 1 .. i PROVE Dir(q, k) = Dir(b, k)
  <2>1. i - 1 \in Nat /\ k \in 1 .. ((i - 1) + 1) BY <1>2
  <2>2. \A j \in 1 .. (i - 1) : b[j].tam \in Nat /\ q[j].tam = b[j].tam BY <1>1, <1>2
  <2>3. QED BY <2>1, <2>2, DirIgual
<1> DEFINE y == i + r - 1
           w == (i - 1) + Len(m)
           c == Len(b) - y
<1>4. /\ y \in Nat /\ y = i + r - 1 /\ w \in Nat /\ w = (i - 1) + Len(m)
      /\ c \in Nat /\ c = Len(b) - y
  BY <1>2
<1> HIDE DEF y, w, c
<1>5. w + c = Len(q) /\ y + c = Len(b) BY <1>1, <1>2, <1>4
<1>6. ASSUME NEW d \in 0 .. c
      PROVE  /\ Bytes(q, w + d) \in Int /\ Bytes(q, w) \in Int
             /\ Bytes(b, y + d) \in Int /\ Bytes(b, y) \in Int
             /\ Bytes(q, w + d) - Bytes(q, w) = Bytes(b, y + d) - Bytes(b, y)
  <2>1. d \in Nat /\ w + d <= Len(q) /\ y + d <= Len(b) BY <1>4, <1>5
  <2>2. Enteros(q, w + d) /\ Enteros(b, y + d)
    <3>1. \A k \in 1 .. (w + d) : q[k].tam \in Int BY <2>1, <1>2, <1>4
    <3>2. \A k \in 1 .. (y + d) : b[k].tam \in Int BY <2>1, <1>2, <1>4
    <3>3. QED BY <3>1, <3>2 DEF Enteros
  <2>3. Tramo(q, w, b, y, d)
    <3>1. ASSUME NEW k \in 1 .. d PROVE q[w + k].tam = b[y + k].tam
      <4>1. k \in 1 .. (Len(b) - (i + r - 1)) BY <2>1, <1>4
      <4>2. q[(i - 1) + Len(m) + k] = b[(i + r - 1) + k] BY <1>1, <4>1
      <4>3. (i - 1) + Len(m) + k = w + k /\ (i + r - 1) + k = y + k
        BY <1>2, <1>4
      <4>4. QED BY <4>2, <4>3
    <3>2. QED BY <3>1 DEF Tramo
  <2>4. QED BY <2>1, <2>2, <2>3, <1>4, BytesTramo
<1>7. Bytes(q, w) - Bytes(b, y) = (y - w) * 5
  <2>1. c \in 0 .. c BY <1>4
  <2>2. /\ Bytes(q, Len(q)) \in Int /\ Bytes(q, w) \in Int
        /\ Bytes(b, Len(b)) \in Int /\ Bytes(b, y) \in Int
        /\ Bytes(q, Len(q)) - Bytes(q, w) = Bytes(b, Len(b)) - Bytes(b, y)
    BY <2>1, <1>5, <1>6
  <2>3. Bytes(q, Len(q)) + Len(q) * 5 = Bytes(b, Len(b)) + Len(b) * 5
    BY DEF Total, METADATA_SIZE
  <2>4. Len(b) - Len(q) = y - w
    <3>1. y \in Nat /\ w \in Nat /\ c \in Nat BY <1>4
    <3>2. (y + c) - (w + c) = y - w BY ONLY <3>1
    <3>3. QED BY <3>2, <1>5
  <2> DEFINE A == Bytes(q, Len(q))
             B == Bytes(b, Len(b))
             C == Bytes(q, w)
             D == Bytes(b, y)
             M == Len(q)
             N == Len(b)
  <2>5. /\ A \in Int /\ B \in Int /\ C \in Int /\ D \in Int /\ M \in Nat /\ N \in Nat
        /\ A - C = B - D /\ A + M * 5 = B + N * 5 /\ N - M = y - w
    BY <2>2, <2>3, <2>4, <1>2
  <2> HIDE DEF A, B, C, D, M, N
  <2>6. C - D = (y - w) * 5 BY <2>5, <1>4
  <2>7. QED BY <2>6 DEF C, D
<1>8. ASSUME NEW k \in 1 .. c PROVE Dir(q, w + k) = Dir(b, y + k)
  <2>1. /\ k - 1 \in 0 .. c /\ (w + k) - 1 = w + (k - 1) /\ (y + k) - 1 = y + (k - 1)
        /\ k \in Nat
    BY <1>4
  <2> DEFINE A == Bytes(q, w + (k - 1))
             B == Bytes(b, y + (k - 1))
             C == Bytes(q, w)
             D == Bytes(b, y)
  <2>2. A \in Int /\ B \in Int /\ C \in Int /\ D \in Int /\ A - C = B - D /\ C - D = (y - w) * 5
    BY <2>1, <1>6, <1>7
  <2>3. Dir(q, w + k) = A + (w + (k - 1)) * 5 /\ Dir(b, y + k) = B + (y + (k - 1)) * 5
    BY <2>1 DEF Dir, METADATA_SIZE
  <2> HIDE DEF A, B, C, D
  <2>4. A + (w + (k - 1)) * 5 = B + (y + (k - 1)) * 5
    <3>1. A - B = (y - w) * 5 BY <2>2
    <3>2. A \in Int /\ B \in Int /\ w \in Int /\ y \in Int /\ k \in Int BY <2>1, <2>2, <1>4
    <3>3. QED BY ONLY SMTT(60), <3>1, <3>2
  <2>5. QED BY <2>3, <2>4
<1>9. ASSUME NEW k \in 1 .. (Len(b) - (i + r - 1))
      PROVE  Dir(q, (i - 1) + Len(m) + k) = Dir(b, (i + r - 1) + k)
  <2>1. k \in 1 .. c BY <1>4
  <2>2. (i - 1) + Len(m) + k = w + k /\ (i + r - 1) + k = y + k BY <1>2, <1>4
  <2>3. QED BY <2>1, <2>2, <1>8
<1>10. QED BY <1>3, <1>9 DEF Quietos

\* Cutting and joining leave every other block where it was.
LEMMA CortadoLugares ==
  ASSUME NEW b \in Seq(Bloque), NEW i \in 1 .. Len(b), NEW size \in Nat,
         b[i].tam >= size + METADATA_SIZE
  PROVE  /\ \A k \in 1 .. i : Dir(Cortado(b, i, size), k) = Dir(b, k)
         /\ \A k \in (i + 1) .. Len(b) :
              /\ Cortado(b, i, size)[k + 1] = b[k]
              /\ Dir(Cortado(b, i, size), k + 1) = Dir(b, k)
<1>1. /\ Len(b) \in Nat /\ i \in Nat /\ b[i].tam \in Nat
      /\ 1 <= i /\ i + 1 <= Len(b) + 1
  BY BloqueTam
<1> DEFINE x == [tam |-> size, libre |-> FALSE]
           y == [tam |-> b[i].tam - (size + METADATA_SIZE), libre |-> TRUE]
           m == <<x, y>>
           q == SubSeq(b, 1, i - 1) \o m \o SubSeq(b, i + 1, Len(b))
<1>2. x \in Bloque /\ y \in Bloque BY <1>1 DEF Bloque, METADATA_SIZE
<1>3. Cortado(b, i, size) = q BY DEF Cortado
<1> HIDE DEF x, y
<1>4. m \in Seq(Bloque) /\ Len(m) = 2 BY <1>2
<1>5. EsReemplazo(q, b, m, i, 1) BY <1>1 DEF EsReemplazo
<1> HIDE DEF m, q
<1>6. Total(q) = Total(b) BY <1>3, CortadoProps
<1>7. /\ \A k \in 1 .. i : Dir(q, k) = Dir(b, k)
      /\ \A k \in 1 .. (Len(b) - (i + 1 - 1)) :
           Dir(q, (i - 1) + Len(m) + k) = Dir(b, (i + 1 - 1) + k)
  <2>1. Quietos(q, b, m, i, 1) BY <1>1, <1>4, <1>5, <1>6, ReemplazoDir
  <2>2. QED BY <2>1 DEF Quietos
<1>8. \A k \in 1 .. (Len(b) - (i + 1 - 1)) : q[(i - 1) + Len(m) + k] = b[(i + 1 - 1) + k]
  <2>1. Reemplazado(q, b, m, i, 1) BY <1>1, <1>4, <1>5, Reemplazo
  <2>2. QED BY <2>1 DEF Reemplazado
<1>9. ASSUME NEW k \in (i + 1) .. Len(b) PROVE q[k + 1] = b[k] /\ Dir(q, k + 1) = Dir(b, k)
  <2> DEFINE d == k - i
  <2>1. d \in 1 .. (Len(b) - (i + 1 - 1)) BY <1>1
  <2>2. (i - 1) + Len(m) + d = k + 1 /\ (i + 1 - 1) + d = k BY <1>1, <1>4
  <2> HIDE DEF d
  <2>3. QED BY <2>1, <2>2, <1>7, <1>8
<1>10. QED BY <1>3, <1>7, <1>9

LEMMA UnidosLugares ==
  ASSUME NEW b \in Seq(Bloque), NEW i \in 1 .. (Len(b) - 1)
  PROVE  /\ \A k \in 1 .. i : Dir(Unidos(b, i), k) = Dir(b, k)
         /\ Unidos(b, i)[i].tam >= b[i].tam
         /\ \A k \in (i + 2) .. Len(b) :
              /\ Unidos(b, i)[k - 1] = b[k]
              /\ Dir(Unidos(b, i), k - 1) = Dir(b, k)
<1>1. /\ Len(b) \in Nat /\ i \in Nat /\ i \in 1 .. Len(b) /\ i + 1 \in 1 .. Len(b)
      /\ 1 <= i /\ i + 2 <= Len(b) + 1
  BY BloqueTam
<1>2. b[i] \in Bloque /\ b[i].tam \in Nat /\ b[i + 1].tam \in Nat BY <1>1, BloqueTam
<1> DEFINE x == [b[i] EXCEPT !.tam = @ + b[i + 1].tam + METADATA_SIZE]
           m == <<x>>
           q == SubSeq(b, 1, i - 1) \o m \o SubSeq(b, i + 2, Len(b))
<1>3. x \in Bloque /\ x.tam = b[i].tam + b[i + 1].tam + METADATA_SIZE
  <2>1. b[i] = [tam |-> b[i].tam, libre |-> b[i].libre] /\ b[i].libre \in BOOLEAN
    BY <1>2 DEF Bloque
  <2>2. x = [tam |-> b[i].tam + b[i + 1].tam + METADATA_SIZE, libre |-> b[i].libre]
    BY <2>1
  <2>3. b[i].tam + b[i + 1].tam + METADATA_SIZE \in Nat BY SMTT(60), <1>2 DEF METADATA_SIZE
  <2> HIDE DEF x
  <2>4. QED BY <2>1, <2>2, <2>3 DEF Bloque
<1>4. Unidos(b, i) = q BY DEF Unidos
<1> HIDE DEF x
<1>5. m \in Seq(Bloque) /\ Len(m) = 1 /\ m[1] = x BY <1>3
<1>6. EsReemplazo(q, b, m, i, 2) BY <1>1 DEF EsReemplazo
<1> HIDE DEF m, q
<1>7. Total(q) = Total(b) BY <1>4, UnidosProps
<1>8. /\ \A k \in 1 .. i : Dir(q, k) = Dir(b, k)
      /\ \A k \in 1 .. (Len(b) - (i + 2 - 1)) :
           Dir(q, (i - 1) + Len(m) + k) = Dir(b, (i + 2 - 1) + k)
  <2>1. Quietos(q, b, m, i, 2) BY <1>1, <1>5, <1>6, <1>7, ReemplazoDir
  <2>2. QED BY <2>1 DEF Quietos
<1>9. /\ \A k \in 1 .. Len(m) : q[(i - 1) + k] = m[k]
      /\ \A k \in 1 .. (Len(b) - (i + 2 - 1)) : q[(i - 1) + Len(m) + k] = b[(i + 2 - 1) + k]
  <2>1. Reemplazado(q, b, m, i, 2) BY <1>1, <1>5, <1>6, Reemplazo
  <2>2. QED BY <2>1 DEF Reemplazado
<1>10. q[i].tam >= b[i].tam
  <2>1. 1 \in 1 .. Len(m) BY <1>5
  <2>2. q[(i - 1) + 1] = m[1] BY <2>1, <1>9
  <2>3. (i - 1) + 1 = i BY <1>1
  <2>4. q[i].tam = b[i].tam + b[i + 1].tam + METADATA_SIZE BY <2>2, <2>3, <1>3, <1>5
  <2>5. QED BY <2>4, <1>2 DEF METADATA_SIZE
<1>11. ASSUME NEW k \in (i + 2) .. Len(b) PROVE q[k - 1] = b[k] /\ Dir(q, k - 1) = Dir(b, k)
  <2> DEFINE d == k - (i + 1)
  <2>1. d \in 1 .. (Len(b) - (i + 2 - 1)) BY <1>1
  <2>2. (i - 1) + Len(m) + d = k - 1 /\ (i + 2 - 1) + d = k BY <1>1, <1>5
  <2> HIDE DEF d
  <2>3. QED BY <2>1, <2>2, <1>8, <1>9
<1>12. QED BY <1>4, <1>8, <1>10, <1>11

-----------------------------------------------------------------------------
(* What compaction keeps                                                   *)

\* Every block in use of b is one of c, where it was and no smaller (of the same size
\* if e), and c has no other.
Conserva(b, c, e) ==
  /\ \A n \in 1 .. Len(b) : ~b[n].libre =>
       \E m \in 1 .. Len(c) : /\ ~c[m].libre /\ Dir(c, m) = Dir(b, n)
                              /\ c[m].tam >= b[n].tam /\ (e => c[m].tam = b[n].tam)
  /\ \A m \in 1 .. Len(c) : ~c[m].libre =>
       \E n \in 1 .. Len(b) : ~b[n].libre /\ Dir(b, n) = Dir(c, m)

LEMMA ConservaIgual ==
  ASSUME NEW b \in Seq(Bloque), NEW e \in BOOLEAN
  PROVE  Conserva(b, b, e)
<1>1. \A n \in 1 .. Len(b) : b[n].tam >= b[n].tam BY BloqueTam
<1>2. QED BY <1>1 DEF Conserva

LEMMA ConservaTransitiva ==
  ASSUME NEW b \in Seq(Bloque), NEW c \in Seq(Bloque), NEW d \in Seq(Bloque),
         NEW e \in BOOLEAN, Conserva(b, c, e), Conserva(c, d, e)
  PROVE  Conserva(b, d, e)
<1>1. ASSUME NEW n \in 1 .. Len(b), ~b[n].libre
      PROVE  \E m \in 1 .. Len(d) : /\ ~d[m].libre /\ Dir(d, m) = Dir(b, n)
                                    /\ d[m].tam >= b[n].tam /\ (e => d[m].tam = b[n].tam)
  <2>1. PICK k \in 1 .. Len(c) : /\ ~c[k].libre /\ Dir(c, k) = Dir(b, n)
                                 /\ c[k].tam >= b[n].tam /\ (e => c[k].tam = b[n].tam)
    BY <1>1 DEF Conserva
  <2>2. PICK m \in 1 .. Len(d) : /\ ~d[m].libre /\ Dir(d, m) = Dir(c, k)
                                 /\ d[m].tam >= c[k].tam /\ (e => d[m].tam = c[k].tam)
    BY <2>1 DEF Conserva
  <2>3. b[n].tam \in Nat /\ c[k].tam \in Nat /\ d[m].tam \in Nat BY BloqueTam
  <2>4. d[m].tam >= b[n].tam BY <2>1, <2>2, <2>3
  <2>5. QED BY <2>1, <2>2, <2>4
<1>2. ASSUME NEW m \in 1 .. Len(d), ~d[m].libre
      PROVE  \E n \in 1 .. Len(b) : ~b[n].libre /\ Dir(b, n) = Dir(d, m)
  <2>1. PICK k \in 1 .. Len(c) : ~c[k].libre /\ Dir(c, k) = Dir(d, m) BY <1>2 DEF Conserva
  <2>2. PICK n \in 1 .. Len(b) : ~b[n].libre /\ Dir(b, n) = Dir(c, k) BY <2>1 DEF Conserva
  <2>3. QED BY <2>1, <2>2
<1>3. QED BY <1>1, <1>2 DEF Conserva

\* Joining a free block to the one before it, which grows.
LEMMA UnidosConserva ==
  ASSUME NEW b \in Seq(Bloque), NEW i \in 1 .. (Len(b) - 1), b[i + 1].libre,
         NEW e \in BOOLEAN, e => b[i].libre
  PROVE  Conserva(b, Unidos(b, i), e)
<1>1. /\ Len(b) \in Nat /\ i \in Nat /\ i \in 1 .. Len(b) /\ i + 1 \in 1 .. Len(b)
      /\ \A k \in 1 .. Len(b) : b[k].tam \in Nat
  BY BloqueTam
<1>2. PICK u : u = Unidos(b, i) OBVIOUS
<1>3. /\ u \in Seq(Bloque) /\ Len(u) = Len(b) - 1
      /\ \A k \in 1 .. (i - 1) : u[k] = b[k]
      /\ u[i].libre = b[i].libre
  BY <1>2, UnidosProps
<1>4. /\ \A k \in 1 .. i : Dir(u, k) = Dir(b, k)
      /\ u[i].tam >= b[i].tam
      /\ \A k \in (i + 2) .. Len(b) : u[k - 1] = b[k] /\ Dir(u, k - 1) = Dir(b, k)
  BY <1>2, UnidosLugares
<1>5. ASSUME NEW n \in 1 .. Len(b), ~b[n].libre
      PROVE  \E m \in 1 .. Len(u) : /\ ~u[m].libre /\ Dir(u, m) = Dir(b, n)
                                    /\ u[m].tam >= b[n].tam /\ (e => u[m].tam = b[n].tam)
  <2>0. b[n].tam \in Nat /\ b[n].tam >= b[n].tam BY <1>1
  <2>1. CASE n < i
    <3>1. n \in 1 .. Len(u) /\ n \in 1 .. (i - 1) /\ n \in 1 .. i BY <1>1, <1>3, <2>1
    <3>2. QED BY <3>1, <2>0, <1>3, <1>4, <1>5
  <2>2. CASE n = i
    <3>1. i \in 1 .. Len(u) /\ i \in 1 .. i BY <1>1, <1>3
    <3>2. ~e BY <1>5, <2>2
    <3>3. QED BY <3>1, <3>2, <1>3, <1>4, <1>5, <2>2
  <2>3. CASE n > i
    <3>1. n # i + 1 BY <1>5
    <3>2. n \in (i + 2) .. Len(b) /\ n - 1 \in 1 .. Len(u) BY <3>1, <2>3, <1>1, <1>3
    <3>3. QED BY <3>2, <2>0, <1>4, <1>5
  <2>4. QED BY <2>1, <2>2, <2>3, <1>1
<1>6. ASSUME NEW m \in 1 .. Len(u), ~u[m].libre
      PROVE  \E n \in 1 .. Len(b) : ~b[n].libre /\ Dir(b, n) = Dir(u, m)
  <2>1. CASE m <= i
    <3>1. m \in 1 .. Len(b) /\ m \in 1 .. i /\ (m = i \/ m \in 1 .. (i - 1))
      BY <1>1, <1>3, <2>1
    <3>2. u[m].libre = b[m].libre BY <3>1, <1>3
    <3>3. QED BY <3>1, <3>2, <1>4, <1>6
  <2>2. CASE m > i
    <3>1. m + 1 \in (i + 2) .. Len(b) /\ m + 1 \in 1 .. Len(b) /\ (m + 1) - 1 = m
      BY <1>1, <1>3, <2>2
    <3>2. u[(m + 1) - 1] = b[m + 1] /\ Dir(u, (m + 1) - 1) = Dir(b, m + 1) BY <3>1, <1>4
    <3>3. QED BY <3>1, <3>2, <1>6
  <2>3. QED BY <2>1, <2>2, <1>1, <1>3
<1>7. QED BY <1>2, <1>5, <1>6 DEF Conserva

\* Where the walk stops: at a free block, or at the last but one with the last free;
\* at a free one whenever two are left.
LEMMA ProxLibre ==
  ASSUME NEW b \in Seq(Bloque), NEW i \in 1 .. Len(b), NEW j, j = proxima_metadata_libre(b, i)
  PROVE  /\ j = 0 \/ b[j].libre \/ (j + 1 = Len(b) /\ b[Len(b)].libre)
         /\ \A h, k \in i .. Len(b) :
              h < k /\ b[h].libre /\ b[k].libre => j \in i .. (Len(b) - 1) /\ b[j].libre
         /\ i < Len(b) /\ b[i].libre /\ b[Len(b)].libre => j = i
<1> DEFINE n == Len(b)
           C == {k \in i .. (n - 2) : b[k].libre}
<1>1. n \in Nat /\ i \in 1 .. n BY BloqueTam
<1>2. j = IF i = n THEN (IF b[n].libre THEN n ELSE 0)
          ELSE IF C # {} THEN Min(C)
          ELSE IF b[n].libre THEN n - 1 ELSE 0
  BY DEF proxima_metadata_libre
<1>3. CASE i = n
  <2>1. j = 0 \/ b[j].libre BY <1>2, <1>3
  <2>2. QED BY <2>1, <1>1, <1>3
<1>4. CASE i # n /\ C # {}
  <2>1. C \subseteq Nat BY <1>1
  <2>2. j = Min(C) BY <1>2, <1>4
  <2>3. \A k \in C : k \in i .. (n - 2) /\ b[k].libre OBVIOUS
  <2>4. i < n /\ b[i].libre /\ i <= n - 2 => i \in C BY <1>1
  <2> HIDE DEF C
  <2>5. j \in C BY <2>1, <2>2, <1>4, MinEsta
  <2>6. \A k \in C : j <= k
    <3>1. \E x \in C : \A y \in C : x <= y BY <2>1, <1>4, MinExiste
    <3>2. QED BY <3>1, <2>2 DEF Min
  <2>7. j \in i .. (n - 2) /\ b[j].libre BY <2>3, <2>5
  <2>8. i < n /\ b[i].libre => j = i BY <2>4, <2>6, <2>7, <1>1
  <2>9. j \in i .. (n - 1) BY <2>7, <1>1
  <2>10. QED BY <2>7, <2>8, <2>9
<1>5. CASE i # n /\ C = {}
  <2>1. j = IF b[n].libre THEN n - 1 ELSE 0 BY <1>2, <1>5
  <2>2. \A k \in i .. (n - 2) : ~b[k].libre BY <1>5
  <2>3. ASSUME NEW h \in i .. n, NEW k \in i .. n, h < k, b[h].libre, b[k].libre
        PROVE  j \in i .. (n - 1) /\ b[j].libre
    <3>1. h = n - 1 /\ k = n BY <2>2, <2>3, <1>1
    <3>2. QED BY <3>1, <2>1, <2>3, <1>1
  <2>4. ASSUME i < n, b[i].libre, b[n].libre PROVE j = i
    <3>1. i \notin i .. (n - 2) BY <2>2, <2>4
    <3>2. i = n - 1 BY <3>1, <2>4, <1>1
    <3>3. QED BY <3>2, <2>1, <2>4
  <2>5. j = 0 \/ (j + 1 = n /\ b[n].libre) BY <2>1, <1>1
  <2>6. QED BY <2>3, <2>4, <2>5
<1>6. QED BY <1>3, <1>4, <1>5

\* The walk is at a free block, or at the last but one with the last free.
Visita(x) == x[1][x[2]].libre \/ (x[2] + 1 = Len(x[1]) /\ x[1][Len(x[1])].libre)
Todos(b)  == \A k \in 1 .. Len(b) : b[k].libre
\* The blocks up to i keep their is_free.
Previos(b, c, i) == Len(c) >= i /\ \A k \in 1 .. i : c[k].libre = b[k].libre

\* The end of the recursion, and a step of it.
LEMMA HechoProps ==
  ASSUME NEW x \in Cadenas, Visita(x), Termina(x),
         NEW e \in BOOLEAN, e => ~Absorbe(x[1])
  PROVE  /\ Conserva(x[1], Hecho(x), e)
         /\ Previos(x[1], Hecho(x), x[2])
         /\ x[2] = 1 /\ Todos(x[1]) => Len(Hecho(x)) = 1
<1>1. PICK b, i, n : b = x[1] /\ i = x[2] /\ n = Len(x[1]) OBVIOUS
<1>2. /\ b \in Seq(Bloque) /\ i \in Nat /\ n \in Nat /\ n = Len(b)
      /\ i \in 1 .. (n - 1) /\ i \in 1 .. n /\ i + 1 \in 1 .. n
  BY <1>1, CadenaTipo
<1>3. CASE Junta(x)
  <2>1. Hecho(x) = Unidos(b, i) /\ b[i + 1].libre /\ i + 1 = n
    BY <1>1, <1>3 DEF Hecho, Termina, Junta
  <2>2. e => b[i].libre
    <3>1. n > 1 /\ n - 1 = i BY <1>2, <2>1
    <3>2. b[n].libre BY <2>1
    <3>3. ~b[i].libre => Absorbe(b) BY <1>2, <3>1, <3>2 DEF Absorbe
    <3>4. QED BY <3>3, <1>1
  <2>3. Conserva(b, Unidos(b, i), e) BY <1>2, <2>1, <2>2, UnidosConserva
  <2>4. /\ Len(Unidos(b, i)) = n - 1 /\ Unidos(b, i)[i].libre = b[i].libre
        /\ \A k \in 1 .. (i - 1) : Unidos(b, i)[k] = b[k]
    BY <1>2, UnidosProps
  <2>5. Previos(b, Unidos(b, i), i)
    <3>1. \A k \in 1 .. i : k = i \/ k \in 1 .. (i - 1) BY <1>2
    <3>2. \A k \in 1 .. i : Unidos(b, i)[k].libre = b[k].libre BY <3>1, <2>4
    <3>3. Len(Unidos(b, i)) >= i BY <1>2, <2>4
    <3>4. QED BY <3>2, <3>3 DEF Previos
  <2>6. i = 1 => Len(Unidos(b, i)) = 1 BY <2>1, <2>4, <1>2
  <2>7. QED BY <1>1, <2>1, <2>3, <2>5, <2>6
<1>4. CASE ~Junta(x)
  <2>1. Hecho(x) = b BY <1>1, <1>4 DEF Hecho
  <2>2. Conserva(b, b, e) BY <1>2, ConservaIgual
  <2>3. Previos(b, b, i) BY <1>2 DEF Previos
  <2>4. ~Todos(b) BY <1>1, <1>2, <1>4 DEF Todos, Junta
  <2>5. QED BY <1>1, <2>1, <2>2, <2>3, <2>4
<1>5. QED BY <1>3, <1>4

LEMMA SigueConserva ==
  ASSUME NEW x \in Cadenas, Visita(x), ~Termina(x),
         NEW e \in BOOLEAN, e => ~Absorbe(x[1])
  PROVE  /\ Conserva(x[1], Sigue(x)[1], e) /\ Visita(Sigue(x))
         /\ e => ~Absorbe(Sigue(x)[1])
         /\ Sigue(x)[2] >= x[2] /\ Previos(x[1], Sigue(x)[1], x[2])
         /\ x[2] = 1 /\ Todos(x[1]) => Sigue(x)[2] = 1 /\ Todos(Sigue(x)[1])
<1>1. PICK b, i, n : b = x[1] /\ i = x[2] /\ n = Len(x[1]) OBVIOUS
<1>2. /\ b \in Seq(Bloque) /\ i \in Nat /\ n \in Nat /\ n = Len(b)
      /\ i \in 1 .. (n - 1) /\ i \in 1 .. n /\ i + 1 \in 1 .. n
  BY <1>1, CadenaTipo
<1>3. i + 1 # n BY <1>1 DEF Termina
<1>4. b[i].libre BY <1>1, <1>3 DEF Visita
<1>5. CASE Junta(x)
  <2>0. PICK u : u = Unidos(b, i) OBVIOUS
  <2>1. Sigue(x) = <<u, i>> /\ b[i + 1].libre BY <1>1, <1>5, <2>0 DEF Sigue, Junta
  <2>2. Sigue(x)[1] = u /\ Sigue(x)[2] = i BY <2>1
  <2>3. Conserva(b, u, e) BY <1>2, <1>4, <2>0, <2>1, UnidosConserva
  <2>4. /\ u \in Seq(Bloque) /\ Len(u) = n - 1 /\ u[i].libre = b[i].libre
        /\ \A k \in 1 .. (i - 1) : u[k] = b[k]
        /\ \A k \in (i + 2) .. n : u[k - 1] = b[k]
    BY <1>2, <2>0, UnidosProps, UnidosLugares
  <2>5. Visita(Sigue(x)) BY <2>2, <2>4, <1>4 DEF Visita
  <2>6. ~Absorbe(b) => ~Absorbe(u)
    <3>1. SUFFICES ASSUME Absorbe(u) PROVE Absorbe(b) OBVIOUS
    <3>2. n - 1 > 1 /\ u[n - 1].libre /\ ~u[(n - 1) - 1].libre BY <3>1, <2>4 DEF Absorbe
    <3>3. n \in (i + 2) .. n /\ i < n - 1 BY <1>2, <1>3
    <3>4. u[n - 1] = b[n] BY <3>3, <2>4
    <3>5. (n - 1) - 1 # i BY <3>2, <2>4, <1>4
    <3>6. n - 1 \in (i + 2) .. n BY <1>2, <3>3, <3>5
    <3>7. u[(n - 1) - 1] = b[n - 1] BY <3>6, <2>4
    <3>8. n > 1 BY <1>2, <3>2
    <3>9. QED BY <3>2, <3>4, <3>7, <3>8, <1>2 DEF Absorbe
  <2>7. Previos(b, u, i)
    <3>1. \A k \in 1 .. i : k = i \/ k \in 1 .. (i - 1) BY <1>2
    <3>2. \A k \in 1 .. i : u[k].libre = b[k].libre BY <3>1, <2>4
    <3>3. Len(u) >= i BY <1>2, <2>4
    <3>4. QED BY <3>2, <3>3 DEF Previos
  <2>8. ASSUME i = 1, Todos(b) PROVE Todos(u)
    <3>1. ASSUME NEW k \in 1 .. Len(u) PROVE u[k].libre
      <4>1. CASE k = 1 BY <4>1, <2>4, <2>8, <1>4
      <4>2. CASE k # 1
        <5>1. k + 1 \in (i + 2) .. n /\ k + 1 \in 1 .. n /\ (k + 1) - 1 = k
          BY <4>2, <2>4, <2>8, <1>2
        <5>2. u[(k + 1) - 1] = b[k + 1] BY <5>1, <2>4
        <5>3. QED BY <5>1, <5>2, <2>8, <1>2 DEF Todos
      <4>3. QED BY <4>1, <4>2
    <3>2. QED BY <3>1 DEF Todos
  <2>9. i >= i BY <1>2
  <2>10. QED BY <1>1, <2>2, <2>3, <2>5, <2>6, <2>7, <2>8, <2>9
<1>6. CASE ~Junta(x)
  <2>0. PICK j : j = Salto(x) OBVIOUS
  <2>1. j = proxima_metadata_libre(b, i + 1) /\ j # 0 BY <1>1, <1>6, <2>0 DEF Salto, Termina
  <2>2. Sigue(x) = <<b, j>> BY <1>1, <1>6, <2>0 DEF Sigue
  <2>3. Sigue(x)[1] = b /\ Sigue(x)[2] = j BY <2>2
  <2>4. b[j].libre \/ (j + 1 = Len(b) /\ b[Len(b)].libre) BY <2>1, <1>2, ProxLibre
  <2>5. Visita(Sigue(x)) BY <2>3, <2>4 DEF Visita
  <2>6. j >= i
    <3>1. j \in (i + 1) .. (n - 1) \/ j = Len(b) BY <2>1, <1>2, ProxProps
    <3>2. QED BY <3>1, <1>2
  <2>7. Conserva(b, b, e) BY <1>2, ConservaIgual
  <2>8. Previos(b, b, i) BY <1>2 DEF Previos
  <2>9. ~Todos(b) BY <1>1, <1>2, <1>6 DEF Todos, Junta
  <2>10. QED BY <1>1, <2>3, <2>5, <2>6, <2>7, <2>8, <2>9
<1>7. QED BY <1>5, <1>6

Bien(x, c, e) ==
  /\ Conserva(x[1], c, e)
  /\ Previos(x[1], c, x[2])
  /\ x[2] = 1 /\ Todos(x[1]) => Len(c) = 1

LEMMA CompactaBien ==
  ASSUME NEW e \in BOOLEAN
  PROVE  \A x \in Cadenas : Visita(x) /\ (e => ~Absorbe(x[1]))
                              => Bien(x, compactar_en_segmento[x], e)
<1> DEFINE f == compactar_en_segmento
           Va(x) == Visita(x) /\ (e => ~Absorbe(x[1])) => Bien(x, f[x], e)
           S == {k \in Nat : \E x \in Cadenas : Medida(x) = k /\ ~Va(x)}
<1>1. SUFFICES ASSUME S # {} PROVE FALSE
  <2>1. ASSUME NEW x \in Cadenas, ~Va(x) PROVE Medida(x) \in S
    <3>1. Medida(x) \in Nat BY CadenaTipo
    <3>2. QED BY <3>1, <2>1
  <2>2. QED BY <2>1
<1>2. PICK k \in S : \A y \in S : k <= y
  <2>1. S \subseteq Nat OBVIOUS
  <2> HIDE DEF S
  <2>2. QED BY <1>1, <2>1, MinExiste
<1>3. k \in Nat /\ \A y \in Nat : y < k => y \notin S BY <1>2
<1>4. PICK x \in Cadenas : Medida(x) = k /\ ~Va(x) BY <1>2
<1>5. Visita(x) /\ (e => ~Absorbe(x[1])) /\ ~Bien(x, f[x], e) BY <1>4
<1>6. EsCompacta(f, Cadenas) BY CompactaEc
<1>7. \A y \in Cadenas : f[y] \in Seq(Bloque) BY CompactaTotal
<1> HIDE DEF f
<1>8. f[x] = IF Termina(x) THEN Hecho(x) ELSE f[Sigue(x)] BY <1>6 DEF EsCompacta
<1>9. CASE Termina(x)
  <2>1. f[x] = Hecho(x) BY <1>8, <1>9
  <2>2. Bien(x, Hecho(x), e) BY <1>5, <1>9, HechoProps DEF Bien
  <2>3. QED BY <2>1, <2>2, <1>5
<1>10. CASE ~Termina(x)
  <2>1. PICK y : y = Sigue(x) OBVIOUS
  <2>2. y \in Cadenas /\ Medida(y) < Medida(x) BY <1>10, <2>1, SigueProps
  <2>3. Medida(y) \in Nat BY <2>2, CadenaTipo
  <2>4. Medida(y) \notin S BY <1>3, <1>4, <2>2, <2>3
  <2>5. Va(y) BY <2>2, <2>3, <2>4
  <2>6. /\ Conserva(x[1], y[1], e) /\ Visita(y) /\ (e => ~Absorbe(y[1]))
        /\ y[2] >= x[2] /\ Previos(x[1], y[1], x[2])
        /\ x[2] = 1 /\ Todos(x[1]) => y[2] = 1 /\ Todos(y[1])
    BY <1>5, <1>10, <2>1, SigueConserva
  <2>7. Bien(y, f[y], e) BY <2>5, <2>6
  <2>8. f[x] = f[y] BY <1>8, <1>10, <2>1
  <2>9. Conserva(x[1], f[y], e)
    <3>1. x[1] \in Seq(Bloque) /\ y[1] \in Seq(Bloque) /\ f[y] \in Seq(Bloque)
      BY <2>2, <1>7, CadenaTipo
    <3>2. Conserva(y[1], f[y], e) BY <2>7 DEF Bien
    <3>3. QED BY <3>1, <3>2, <2>6, ConservaTransitiva
  <2>10. Previos(x[1], f[y], x[2])
    <3>1. x[2] \in Nat /\ y[2] \in Nat BY <2>2, CadenaTipo
    <3>2. Len(f[y]) >= y[2] /\ Len(f[y]) \in Nat BY <2>2, <2>7, <1>7, LenProperties DEF Bien, Previos
    <3>3. Len(f[y]) >= x[2] BY <3>1, <3>2, <2>6
    <3>4. ASSUME NEW h \in 1 .. x[2] PROVE f[y][h].libre = x[1][h].libre
      <4>1. h \in 1 .. y[2] BY <3>1, <2>6
      <4>2. f[y][h].libre = y[1][h].libre BY <4>1, <2>7 DEF Bien, Previos
      <4>3. y[1][h].libre = x[1][h].libre BY <2>6 DEF Previos
      <4>4. QED BY <4>2, <4>3
    <3>5. QED BY <3>3, <3>4 DEF Previos
  <2>11. x[2] = 1 /\ Todos(x[1]) => Len(f[y]) = 1 BY <2>6, <2>7 DEF Bien
  <2>12. Bien(x, f[x], e) BY <2>8, <2>9, <2>10, <2>11 DEF Bien
  <2>13. QED BY <2>12, <1>5
<1>11. QED BY <1>9, <1>10

\* The whole compaction: the blocks in use stay, with their sizes unless the last block
\* is free after one in use; of two free blocks one is left; of free blocks only, one.
LEMMA CompactarConserva ==
  ASSUME NEW b \in Seq(Bloque), b # <<>>, NEW e \in BOOLEAN, e => ~Absorbe(b)
  PROVE  /\ Conserva(b, compactar_espacios_libres(b), e)
         /\ \A h, k \in 1 .. Len(b) : h < k /\ b[h].libre /\ b[k].libre =>
              \E m \in 1 .. Len(compactar_espacios_libres(b)) :
                compactar_espacios_libres(b)[m].libre
         /\ Todos(b) => Len(compactar_espacios_libres(b)) = 1
<1>1. PICK j : j = proxima_metadata_libre(b, 1) OBVIOUS
<1>2. PICK c : c = compactar_espacios_libres(b) OBVIOUS
<1>3. Len(b) \in Nat /\ Len(b) > 0 /\ 1 \in 1 .. Len(b)
  <2>1. Len(b) \in Nat \ {0} BY EmptySeq
  <2>2. QED BY <2>1
<1>4. c = IF j \in {0, Len(b)} THEN b ELSE compactar_en_segmento[<<b, j>>]
  BY <1>1, <1>2 DEF compactar_espacios_libres
<1>5. j = 0 \/ j \in 1 .. (Len(b) - 1) \/ (1 = Len(b) /\ j = Len(b)) BY <1>1, <1>3, ProxProps
<1>6. /\ j = 0 \/ b[j].libre \/ (j + 1 = Len(b) /\ b[Len(b)].libre)
      /\ \A h, k \in 1 .. Len(b) :
           h < k /\ b[h].libre /\ b[k].libre => j \in 1 .. (Len(b) - 1) /\ b[j].libre
      /\ 1 < Len(b) /\ b[1].libre /\ b[Len(b)].libre => j = 1
  BY <1>1, <1>3, ProxLibre
<1>7. CASE j \in {0, Len(b)}
  <2>1. c = b BY <1>4, <1>7
  <2>2. Conserva(b, b, e) BY ConservaIgual
  <2>3. Todos(b) => Len(b) = 1
    <3>1. ASSUME Todos(b), 1 < Len(b) PROVE FALSE
      <4>1. Len(b) \in 1 .. Len(b) BY <1>3
      <4>2. b[1].libre /\ b[Len(b)].libre BY <3>1, <4>1, <1>3 DEF Todos
      <4>3. j = 1 BY <3>1, <4>2, <1>6
      <4>4. j # 1
        <5>1. j = 0 \/ j = Len(b) BY <1>7
        <5>2. 1 < Len(b) /\ Len(b) \in Nat BY <1>3, <3>1
        <5>3. QED BY ONLY <5>1, <5>2
      <4>5. QED BY <4>3, <4>4
    <3>2. Len(b) = 1 \/ 1 < Len(b)
      <4>1. \A z \in Nat : z > 0 => z = 1 \/ 1 < z OBVIOUS
      <4>2. QED BY <4>1, <1>3
    <3>3. QED BY <3>1, <3>2
  <2>4. QED BY <1>2, <2>1, <2>2, <2>3
<1>8. CASE j \notin {0, Len(b)}
  <2>1. j \in 1 .. (Len(b) - 1) /\ j \in Nat /\ j \in 1 .. j BY <1>3, <1>5, <1>8
  <2>2. <<b, j>> \in Cadenas BY <2>1 DEF Cadenas
  <2>3. <<b, j>>[1] = b /\ <<b, j>>[2] = j OBVIOUS
  <2>4. PICK x : x = <<b, j>> OBVIOUS
  <2>5. x \in Cadenas /\ x[1] = b /\ x[2] = j BY <2>2, <2>3, <2>4
  <2>6. c = compactar_en_segmento[x] BY <1>4, <1>8, <2>4
  <2>7. Visita(x) BY <2>5, <1>6, <1>8 DEF Visita
  <2>8. Bien(x, c, e) BY <2>5, <2>6, <2>7, CompactaBien
  <2>9. Conserva(b, c, e) /\ Previos(b, c, j) /\ (j = 1 /\ Todos(b) => Len(c) = 1)
    BY <2>5, <2>8 DEF Bien
  <2>10. ASSUME NEW h \in 1 .. Len(b), NEW k \in 1 .. Len(b), h < k, b[h].libre, b[k].libre
         PROVE  \E m \in 1 .. Len(c) : c[m].libre
    <3>1. b[j].libre BY <2>10, <1>6
    <3>2. c[j].libre /\ Len(c) >= j BY <3>1, <2>1, <2>9 DEF Previos
    <3>3. c \in Seq(Bloque) BY <2>5, <2>6, CompactaTotal
    <3>4. Len(c) \in Nat BY <3>3, LenProperties
    <3>5. j \in 1 .. Len(c) BY <3>2, <3>4, <2>1
    <3>6. QED BY <3>2, <3>5
  <2>11. Todos(b) => Len(c) = 1
    <3>1. SUFFICES ASSUME Todos(b) PROVE Len(c) = 1 OBVIOUS
    <3>2. Len(b) \in 1 .. Len(b) /\ 1 < Len(b) BY <1>3, <2>1
    <3>3. b[1].libre /\ b[Len(b)].libre BY <3>1, <3>2, <1>3 DEF Todos
    <3>4. QED BY <3>1, <3>2, <3>3, <1>6, <2>9
  <2>12. QED BY <1>2, <2>9, <2>10, <2>11
<1>9. QED BY <1>7, <1>8

-----------------------------------------------------------------------------
(* Allocations and blocks in use                                           *)

\* Until a growth marks a block in use free: every allocation has its block, no smaller
\* than it (as large, if e), every block in use has its allocation, and some block is
\* free, the only one when nothing is allocated.
Cubre(b, v, e) ==
  \A k \in 1 .. Len(v) : \E i \in 1 .. Len(b) :
    /\ ~b[i].libre /\ v[k].dir = Dir(b, i) + METADATA_SIZE
    /\ b[i].tam >= v[k].tam /\ (e => b[i].tam = v[k].tam)
Distintas(v) == \A j, k \in 1 .. Len(v) : j # k => v[j].dir # v[k].dir
Ajenos(b, v) ==
  \A i \in 1 .. Len(b) : ~b[i].libre =>
    \E k \in 1 .. Len(v) : v[k].dir = Dir(b, i) + METADATA_SIZE
Hueco(b, v) ==
  b # <<>> => /\ \E i \in 1 .. Len(b) : b[i].libre
              /\ v = <<>> => Len(b) = 1
HeapInv(b, v, e) == Cubre(b, v, e) /\ Distintas(v) /\ Ajenos(b, v) /\ Hueco(b, v)

\* With a block free, proxima_metadata_libre_con_size finds none but free ones, even
\* if it does not look at the is_free of a block alone.
LEMMA ConSizeLibre ==
  ASSUME NEW b \in Seq(Bloque), NEW t \in Nat, NEW i, i = proxima_metadata_libre_con_size(b, t),
         i # 0, \E k \in 1 .. Len(b) : b[k].libre
  PROVE  b[i].libre
<1> DEFINE n == Len(b)
           C == {k \in 1 .. (n - 2) : b[k].libre /\ b[k].tam >= t}
<1>1. n \in Nat BY BloqueTam
<1>2. i = IF n = 1 THEN (IF b[1].tam >= t THEN 1 ELSE 0)
          ELSE IF C # {} THEN Min(C)
          ELSE IF n > 0 /\ b[n].libre /\ b[n].tam >= t THEN n ELSE 0
  BY DEF proxima_metadata_libre_con_size
<1>3. CASE n = 1
  <2>1. i = 1 BY <1>2, <1>3
  <2>2. PICK k \in 1 .. Len(b) : b[k].libre OBVIOUS
  <2>3. k = 1 BY <1>3
  <2>4. QED BY <2>1, <2>2, <2>3
<1>4. CASE n # 1 /\ C # {}
  <2>1. C \subseteq Nat BY <1>1
  <2>2. i = Min(C) BY <1>2, <1>4
  <2>3. \A k \in C : b[k].libre OBVIOUS
  <2> HIDE DEF C
  <2>4. i \in C BY <2>1, <2>2, <1>4, MinEsta
  <2>5. QED BY <2>3, <2>4
<1>5. CASE n # 1 /\ C = {} BY <1>2, <1>5
<1>6. QED BY <1>3, <1>4, <1>5

\* A request cuts a free block and gets its first part.
LEMMA HeapMalloc ==
  ASSUME NEW b \in Seq(Bloque), NEW v \in Seq(Viva), NEW e \in BOOLEAN, HeapInv(b, v, e),
         NEW i \in 1 .. Len(b), b[i].libre, NEW size \in Nat, b[i].tam >= size + METADATA_SIZE
  PROVE  HeapInv(Cortado(b, i, size),
                 Append(v, [dir |-> Dir(b, i) + METADATA_SIZE, tam |-> size]), e)
<1>1. PICK c : c = Cortado(b, i, size) OBVIOUS
<1>2. PICK a : a = [dir |-> Dir(b, i) + METADATA_SIZE, tam |-> size] OBVIOUS
<1>3. PICK w : w = Append(v, a) OBVIOUS
<1>4. /\ Len(b) \in Nat /\ i \in Nat /\ \A k \in 1 .. Len(b) : b[k].tam \in Nat
  BY BloqueTam
<1>5. Dir(b, i) \in Nat BY DirNat
<1>6. a \in Viva /\ a.dir = Dir(b, i) + METADATA_SIZE /\ a.tam = size
  BY <1>2, <1>5 DEF Viva, METADATA_SIZE
<1>7. /\ Len(v) \in Nat /\ w \in Seq(Viva) /\ Len(w) = Len(v) + 1
      /\ \A k \in 1 .. Len(v) : w[k] = v[k]
      /\ w[Len(v) + 1] = a
  BY <1>3, <1>6, AppendProperties, LenProperties
<1>8. /\ c \in Seq(Bloque) /\ Len(c) = Len(b) + 1
      /\ \A k \in 1 .. (i - 1) : c[k] = b[k]
      /\ c[i].tam = size /\ ~c[i].libre /\ c[i + 1].libre
  <2>1. /\ c \in Seq(Bloque) /\ Len(c) = Len(b) + 1
        /\ \A k \in 1 .. (i - 1) : c[k] = b[k]
        /\ c[i] = [tam |-> size, libre |-> FALSE] /\ c[i + 1].libre
    BY <1>1, CortadoProps
  <2>2. c[i].tam = size /\ ~c[i].libre BY ONLY <2>1
  <2>3. QED BY <2>1, <2>2
<1>9. /\ \A k \in 1 .. i : Dir(c, k) = Dir(b, k)
      /\ \A k \in (i + 1) .. Len(b) : c[k + 1] = b[k] /\ Dir(c, k + 1) = Dir(b, k)
  BY <1>1, CortadoLugares
<1>10. ASSUME NEW n \in 1 .. Len(b), n # i
       PROVE  \E m \in 1 .. Len(c) : c[m] = b[n] /\ Dir(c, m) = Dir(b, n)
  <2>1. CASE n < i
    <3>1. n \in 1 .. (i - 1) /\ n \in 1 .. i /\ n \in 1 .. Len(c) BY <1>4, <1>8, <2>1
    <3>2. QED BY <3>1, <1>8, <1>9
  <2>2. CASE n > i
    <3>1. n \in (i + 1) .. Len(b) /\ n + 1 \in 1 .. Len(c) BY <1>4, <1>8, <2>2
    <3>2. QED BY <3>1, <1>9
  <2>3. QED BY <2>1, <2>2, <1>4, <1>10
<1>11. i \in 1 .. Len(c) /\ i + 1 \in 1 .. Len(c) /\ Dir(c, i) = Dir(b, i)
  BY <1>4, <1>8, <1>9
<1>12. Cubre(c, w, e)
  <2>1. ASSUME NEW k \in 1 .. Len(w)
        PROVE  \E m \in 1 .. Len(c) :
                 /\ ~c[m].libre /\ w[k].dir = Dir(c, m) + METADATA_SIZE
                 /\ c[m].tam >= w[k].tam /\ (e => c[m].tam = w[k].tam)
    <3>1. CASE k = Len(v) + 1
      <4>1. w[k] = a BY <3>1, <1>7
      <4>2. size >= size OBVIOUS
      <4>3. QED BY <4>1, <4>2, <1>6, <1>8, <1>11
    <3>2. CASE k # Len(v) + 1
      <4>1. k \in 1 .. Len(v) BY <3>2, <1>7
      <4>2. w[k] = v[k] BY <4>1, <1>7
      <4>3. PICK n \in 1 .. Len(b) :
              /\ ~b[n].libre /\ v[k].dir = Dir(b, n) + METADATA_SIZE
              /\ b[n].tam >= v[k].tam /\ (e => b[n].tam = v[k].tam)
        BY <4>1 DEF HeapInv, Cubre
      <4>4. PICK m \in 1 .. Len(c) : c[m] = b[n] /\ Dir(c, m) = Dir(b, n) BY <4>3, <1>10
      <4>5. QED BY <4>2, <4>3, <4>4
    <3>3. QED BY <3>1, <3>2
  <2>2. QED BY <2>1 DEF Cubre
<1>13. ASSUME NEW k \in 1 .. Len(v) PROVE v[k].dir # a.dir
  <2>1. PICK n \in 1 .. Len(b) : ~b[n].libre /\ v[k].dir = Dir(b, n) + METADATA_SIZE
    BY DEF HeapInv, Cubre
  <2>2. Dir(b, n) # Dir(b, i) BY <2>1, DirUnica
  <2>3. Dir(b, n) \in Nat BY DirNat
  <2>4. QED BY <2>1, <2>2, <2>3, <1>5, <1>6 DEF METADATA_SIZE
<1>14. Distintas(w)
  <2>1. ASSUME NEW j \in 1 .. Len(w), NEW k \in 1 .. Len(w), j # k PROVE w[j].dir # w[k].dir
    <3>1. /\ j \in 1 .. Len(v) \/ j = Len(v) + 1
          /\ k \in 1 .. Len(v) \/ k = Len(v) + 1
      BY <1>7
    <3>2. CASE j \in 1 .. Len(v) /\ k \in 1 .. Len(v)
      BY <3>2, <2>1, <1>7 DEF HeapInv, Distintas
    <3>3. CASE j \in 1 .. Len(v) /\ k = Len(v) + 1 BY <3>3, <1>7, <1>13
    <3>4. CASE j = Len(v) + 1 /\ k \in 1 .. Len(v) BY <3>4, <1>7, <1>13
    <3>5. QED BY <3>1, <3>2, <3>3, <3>4, <2>1
  <2>2. QED BY <2>1 DEF Distintas
<1>15. Ajenos(c, w)
  <2>1. ASSUME NEW m \in 1 .. Len(c), ~c[m].libre
        PROVE  \E k \in 1 .. Len(w) : w[k].dir = Dir(c, m) + METADATA_SIZE
    <3>1. CASE m = i
      <4>1. Len(v) + 1 \in 1 .. Len(w) BY <1>7
      <4>2. QED BY <4>1, <3>1, <1>6, <1>7, <1>11
    <3>2. CASE m # i
      <4>1. m # i + 1 BY <2>1, <1>8
      <4>2. \E n \in 1 .. Len(b) : b[n] = c[m] /\ Dir(b, n) = Dir(c, m)
        <5>1. CASE m < i
          <6>1. m \in 1 .. (i - 1) /\ m \in 1 .. i /\ m \in 1 .. Len(b) BY <5>1, <1>4, <1>8
          <6>2. QED BY <6>1, <1>8, <1>9
        <5>2. CASE m > i
          <6>1. m - 1 \in (i + 1) .. Len(b) /\ m - 1 \in 1 .. Len(b) /\ (m - 1) + 1 = m
            BY <4>1, <5>2, <1>4, <1>8
          <6>2. c[(m - 1) + 1] = b[m - 1] /\ Dir(c, (m - 1) + 1) = Dir(b, m - 1)
            BY <6>1, <1>9
          <6>3. QED BY <6>1, <6>2
        <5>3. QED BY <5>1, <5>2, <3>2, <1>4, <1>8
      <4>3. PICK n \in 1 .. Len(b) : b[n] = c[m] /\ Dir(b, n) = Dir(c, m) BY <4>2
      <4>4. PICK k \in 1 .. Len(v) : v[k].dir = Dir(b, n) + METADATA_SIZE
        BY <2>1, <4>3 DEF HeapInv, Ajenos
      <4>5. k \in 1 .. Len(w) /\ w[k] = v[k] BY <1>7
      <4>6. QED BY <4>3, <4>4, <4>5
    <3>3. QED BY <3>1, <3>2
  <2>2. QED BY <2>1 DEF Ajenos
<1>16. Hueco(c, w)
  <2>1. w # <<>>
    <3>1. Len(w) # 0 BY <1>7
    <3>2. QED BY <3>1, <1>7, EmptySeq
  <2>2. QED BY <2>1, <1>8, <1>11 DEF Hueco
<1>17. QED BY <1>1, <1>2, <1>3, <1>12, <1>14, <1>15, <1>16 DEF HeapInv

\* A free last block grows.
LEMMA HeapCrece ==
  ASSUME NEW b \in Seq(Bloque), b # <<>>, NEW v \in Seq(Viva), NEW e \in BOOLEAN,
         HeapInv(b, v, e), b[Len(b)].libre, NEW n \in Int, b[Len(b)].tam + n * PAGE_SIZE \in Nat
  PROVE  HeapInv(Crecido(b, n), v, e)
<1>1. PICK c : c = Crecido(b, n) OBVIOUS
<1>2. /\ c \in Seq(Bloque) /\ Len(c) = Len(b)
      /\ \A k \in 1 .. (Len(b) - 1) : c[k] = b[k]
      /\ c[Len(b)].libre
  BY <1>1, CrecidoProps
<1>3. /\ Len(b) \in Nat /\ Len(b) > 0 /\ \A k \in 1 .. Len(b) : b[k].tam \in Nat
  <2>1. Len(b) \in Nat \ {0} BY EmptySeq
  <2>2. QED BY <2>1, BloqueTam
<1>4. \A k \in 1 .. Len(b) : Dir(c, k) = Dir(b, k)
  <2>1. Len(b) - 1 \in Nat /\ (Len(b) - 1) + 1 = Len(b) BY <1>3
  <2>2. \A k \in 1 .. (Len(b) - 1) : b[k].tam \in Nat /\ c[k].tam = b[k].tam BY <1>2, <1>3
  <2>3. \A k \in 1 .. ((Len(b) - 1) + 1) : Dir(c, k) = Dir(b, k)
    BY <2>1, <2>2, DirIgual
  <2>4. QED BY <2>1, <2>3
<1>5. \A k \in 1 .. Len(b) : c[k].libre = b[k].libre /\ (~b[k].libre => c[k] = b[k])
  <2>1. ASSUME NEW k \in 1 .. Len(b)
        PROVE  c[k].libre = b[k].libre /\ (~b[k].libre => c[k] = b[k])
    <3>1. k = Len(b) \/ k \in 1 .. (Len(b) - 1) BY <1>3
    <3>2. b[Len(b)].libre \in BOOLEAN /\ c[Len(b)].libre \in BOOLEAN
      <4>1. Len(b) \in 1 .. Len(b) BY <1>3
      <4>2. QED BY <4>1, <1>2, BloqueTam
    <3>3. QED BY <3>1, <3>2, <1>2
  <2>2. QED BY <2>1
<1>6. Cubre(c, v, e)
  <2>1. ASSUME NEW k \in 1 .. Len(v)
        PROVE  \E i \in 1 .. Len(c) : /\ ~c[i].libre /\ v[k].dir = Dir(c, i) + METADATA_SIZE
                                      /\ c[i].tam >= v[k].tam /\ (e => c[i].tam = v[k].tam)
    <3>1. PICK i \in 1 .. Len(b) :
            /\ ~b[i].libre /\ v[k].dir = Dir(b, i) + METADATA_SIZE
            /\ b[i].tam >= v[k].tam /\ (e => b[i].tam = v[k].tam)
      BY DEF HeapInv, Cubre
    <3>2. c[i] = b[i] /\ Dir(c, i) = Dir(b, i) /\ i \in 1 .. Len(c)
      BY <3>1, <1>2, <1>4, <1>5
    <3>3. QED BY <3>1, <3>2
  <2>2. QED BY <2>1 DEF Cubre
<1>7. Ajenos(c, v) BY <1>2, <1>4, <1>5 DEF HeapInv, Ajenos
<1>8. Hueco(c, v)
  <2>1. Len(b) \in 1 .. Len(c) BY <1>2, <1>3
  <2>2. QED BY <2>1, <1>2 DEF HeapInv, Hueco
<1>9. QED BY <1>1, <1>6, <1>7, <1>8 DEF HeapInv

\* The first segment is one free block, and nothing was allocated.
LEMMA HeapPrimera ==
  ASSUME NEW v \in Seq(Viva), NEW e \in BOOLEAN, HeapInv(<<>>, v, e),
         NEW x \in Bloque, x.libre
  PROVE  HeapInv(<<x>>, v, e)
<1>1. Len(v) \in Nat /\ Len(v) = 0
  <2>1. Len(v) \in Nat BY LenProperties
  <2>2. Len(<<>>) = 0 /\ 1 .. 0 = {} OBVIOUS
  <2>3. 1 .. Len(v) = {} BY <2>2 DEF HeapInv, Cubre
  <2>4. Len(v) > 0 => 1 \in 1 .. Len(v) BY <2>1
  <2>5. QED BY <2>1, <2>3, <2>4
<1>2. PICK u : u = <<x>> OBVIOUS
<1>3. u \in Seq(Bloque) /\ Len(u) = 1 /\ u[1] = x BY <1>2
<1>4. 1 .. Len(v) = {} BY <1>1
<1>5. Cubre(u, v, e) /\ Distintas(v) BY <1>4 DEF Cubre, Distintas
<1>6. \A i \in 1 .. Len(u) : u[i].libre BY <1>3
<1>7. 1 \in 1 .. Len(u) BY <1>3
<1>8. Ajenos(u, v) /\ Hueco(u, v) BY <1>3, <1>6, <1>7 DEF Ajenos, Hueco
<1>9. QED BY <1>2, <1>5, <1>8 DEF HeapInv

\* The block at the place of an allocation is its own.
LEMMA HeapDe ==
  ASSUME NEW b \in Seq(Bloque), NEW v \in Seq(Viva), NEW e \in BOOLEAN, HeapInv(b, v, e),
         NEW k \in 1 .. Len(v)
  PROVE  /\ \E i \in 1 .. Len(b) : Dir(b, i) = v[k].dir - METADATA_SIZE
         /\ \A i \in 1 .. Len(b) : Dir(b, i) = v[k].dir - METADATA_SIZE =>
              /\ ~b[i].libre /\ v[k].dir = Dir(b, i) + METADATA_SIZE
              /\ b[i].tam >= v[k].tam /\ (e => b[i].tam = v[k].tam)
<1>1. PICK n \in 1 .. Len(b) :
        /\ ~b[n].libre /\ v[k].dir = Dir(b, n) + METADATA_SIZE
        /\ b[n].tam >= v[k].tam /\ (e => b[n].tam = v[k].tam)
  BY DEF HeapInv, Cubre
<1>2. Dir(b, n) \in Nat BY DirNat
<1>3. Dir(b, n) = v[k].dir - METADATA_SIZE BY <1>1, <1>2 DEF METADATA_SIZE
<1>4. ASSUME NEW i \in 1 .. Len(b), Dir(b, i) = v[k].dir - METADATA_SIZE PROVE i = n
  BY <1>3, <1>4, DirUnica
<1>5. QED BY <1>1, <1>3, <1>4

\* A free marks the block of the allocation free and compacts.
LEMMA HeapFree ==
  ASSUME NEW b \in Seq(Bloque), NEW v \in Seq(Viva), NEW e \in BOOLEAN, HeapInv(b, v, e),
         NEW k \in 1 .. Len(v),
         NEW i \in 1 .. Len(b), Dir(b, i) = v[k].dir - METADATA_SIZE,
         NEW s, s = [b EXCEPT ![i].libre = TRUE],
         NEW f \in BOOLEAN, f => e /\ ~Absorbe(s)
  PROVE  HeapInv(compactar_espacios_libres(s), RemoveAt(v, k), f)
<1>1. PICK c : c = compactar_espacios_libres(s) OBVIOUS
<1>2. PICK w : w = RemoveAt(v, k) OBVIOUS
<1>3. /\ Len(b) \in Nat /\ \A n \in 1 .. Len(b) : b[n].tam \in Nat
      /\ Len(v) \in Nat /\ k \in Nat
  BY BloqueTam, LenProperties
<1>4. /\ w \in Seq(Viva) /\ Len(w) = Len(v) - 1
      /\ \A h \in 1 .. (Len(v) - 1) : w[h] = IF h < k THEN v[h] ELSE v[h + 1]
  BY <1>2, RemoveAtProps
<1>5. /\ s \in Seq(Bloque) /\ Len(s) = Len(b)
      /\ \A n \in 1 .. Len(b) : n # i => s[n] = b[n]
      /\ s[i].libre
      /\ \A n \in 1 .. Len(b) : s[n].tam = b[n].tam
  BY SueltoProps
<1>6. \A n \in 1 .. Len(b) : Dir(s, n) = Dir(b, n)
  <2>1. \A n \in 1 .. Len(b) : b[n].tam \in Nat /\ s[n].tam = b[n].tam BY <1>3, <1>5
  <2>2. \A n \in 1 .. (Len(b) + 1) : Dir(s, n) = Dir(b, n) BY <2>1, <1>3, DirIgual
  <2>3. \A n \in 1 .. Len(b) : n \in 1 .. (Len(b) + 1) BY <1>3
  <2>4. QED BY <2>2, <2>3
<1>7. s # <<>> /\ b # <<>>
  <2>1. Len(s) # 0 /\ Len(b) # 0 BY <1>3, <1>5
  <2>2. QED BY <2>1, <1>5, EmptySeq
<1>8. /\ c \in Seq(Bloque)
      /\ Conserva(s, c, f)
      /\ \A g, h \in 1 .. Len(s) : g < h /\ s[g].libre /\ s[h].libre =>
           \E m \in 1 .. Len(c) : c[m].libre
      /\ Todos(s) => Len(c) = 1
  BY <1>1, <1>5, <1>7, CompactarTotal, CompactarConserva
<1>9. /\ ~b[i].libre /\ v[k].dir = Dir(b, i) + METADATA_SIZE
  BY HeapDe
<1>10. ASSUME NEW h \in 1 .. Len(w)
       PROVE  \E g \in 1 .. Len(v) : g # k /\ w[h] = v[g]
  <2>1. h \in 1 .. (Len(v) - 1) /\ h \in Nat BY <1>4
  <2>2. CASE h < k
    <3>1. h \in 1 .. Len(v) /\ h # k /\ w[h] = v[h] BY <2>1, <2>2, <1>3, <1>4
    <3>2. QED BY <3>1
  <2>3. CASE ~(h < k)
    <3>1. h + 1 \in 1 .. Len(v) /\ h + 1 # k BY <2>1, <2>3, <1>3
    <3>2. w[h] = v[h + 1] BY <2>1, <2>3, <1>4
    <3>3. QED BY <3>1, <3>2
  <2>4. QED BY <2>2, <2>3
<1>11. ASSUME NEW g \in 1 .. Len(v), g # k
       PROVE  \E h \in 1 .. Len(w) : w[h] = v[g]
  <2>1. CASE g < k
    <3>1. g \in 1 .. (Len(v) - 1) /\ g \in 1 .. Len(w) BY <2>1, <1>3, <1>4
    <3>2. w[g] = v[g] BY <3>1, <2>1, <1>4
    <3>3. QED BY <3>1, <3>2
  <2>2. CASE g > k
    <3>1. g - 1 \in 1 .. (Len(v) - 1) /\ g - 1 \in 1 .. Len(w) /\ ~(g - 1 < k)
          /\ (g - 1) + 1 = g
      BY <2>2, <1>3, <1>4
    <3>2. w[g - 1] = v[(g - 1) + 1] BY <3>1, <1>4
    <3>3. QED BY <3>1, <3>2
  <2>3. QED BY <2>1, <2>2, <1>3, <1>11
<1>12. Cubre(c, w, f)
  <2>1. ASSUME NEW h \in 1 .. Len(w)
        PROVE  \E m \in 1 .. Len(c) :
                 /\ ~c[m].libre /\ w[h].dir = Dir(c, m) + METADATA_SIZE
                 /\ c[m].tam >= w[h].tam /\ (f => c[m].tam = w[h].tam)
    <3>1. PICK g \in 1 .. Len(v) : g # k /\ w[h] = v[g] BY <1>10
    <3>2. PICK n \in 1 .. Len(b) :
            /\ ~b[n].libre /\ v[g].dir = Dir(b, n) + METADATA_SIZE
            /\ b[n].tam >= v[g].tam /\ (e => b[n].tam = v[g].tam)
      BY DEF HeapInv, Cubre
    <3>3. n # i BY <3>1, <3>2, <1>9 DEF HeapInv, Distintas
    <3>4. s[n] = b[n] /\ Dir(s, n) = Dir(b, n) /\ n \in 1 .. Len(s) BY <3>3, <1>5, <1>6
    <3>5. PICK m \in 1 .. Len(c) : /\ ~c[m].libre /\ Dir(c, m) = Dir(s, n)
                                   /\ c[m].tam >= s[n].tam /\ (f => c[m].tam = s[n].tam)
      BY <3>2, <3>4, <1>8 DEF Conserva
    <3>6. c[m].tam \in Nat /\ b[n].tam \in Nat /\ v[g].tam \in Nat
      <4>1. v[g] \in Viva BY ElementOfSeq
      <4>2. v[g].tam \in Nat BY <4>1 DEF Viva
      <4>3. c[m].tam \in Nat BY <1>8, BloqueTam
      <4>4. QED BY <4>2, <4>3, <1>3
    <3>7. c[m].tam >= v[g].tam
      <4>1. c[m].tam >= b[n].tam /\ b[n].tam >= v[g].tam BY <3>2, <3>4, <3>5
      <4>2. \A x, y, z \in Nat : x >= y /\ y >= z => x >= z OBVIOUS
      <4>3. QED BY ONLY <4>1, <4>2, <3>6
    <3>8. f => c[m].tam = v[g].tam
      <4>1. f => e OBVIOUS
      <4>2. QED BY ONLY <4>1, <3>2, <3>4, <3>5
    <3>9. QED BY <3>1, <3>2, <3>4, <3>5, <3>7, <3>8
  <2>2. QED BY <2>1 DEF Cubre
<1>13. Distintas(w)
  <2>1. ASSUME NEW g \in 1 .. Len(w), NEW h \in 1 .. Len(w), g < h PROVE w[g].dir # w[h].dir
    <3>1. /\ g \in 1 .. (Len(v) - 1) /\ h \in 1 .. (Len(v) - 1) BY <1>4
    <3>2. PICK x : x = IF g < k THEN g ELSE g + 1 OBVIOUS
    <3>3. PICK y : y = IF h < k THEN h ELSE h + 1 OBVIOUS
    <3>4. w[g] = v[x] /\ w[h] = v[y] BY <3>1, <3>2, <3>3, <1>4
    <3>5. x \in 1 .. Len(v) /\ y \in 1 .. Len(v) /\ x # y
      BY <3>1, <3>2, <3>3, <2>1, <1>3
    <3>6. QED BY <3>4, <3>5 DEF HeapInv, Distintas
  <2>2. ASSUME NEW g \in 1 .. Len(w), NEW h \in 1 .. Len(w), g # h PROVE w[g].dir # w[h].dir
    <3>1. g < h \/ h < g BY <2>2, <1>3, <1>4
    <3>2. QED BY <3>1, <2>1
  <2>3. QED BY <2>2 DEF Distintas
<1>14. Ajenos(c, w)
  <2>1. ASSUME NEW m \in 1 .. Len(c), ~c[m].libre
        PROVE  \E h \in 1 .. Len(w) : w[h].dir = Dir(c, m) + METADATA_SIZE
    <3>1. PICK n \in 1 .. Len(s) : ~s[n].libre /\ Dir(s, n) = Dir(c, m)
      BY <2>1, <1>8 DEF Conserva
    <3>2. n \in 1 .. Len(b) /\ n # i BY <3>1, <1>5
    <3>3. ~b[n].libre /\ Dir(b, n) = Dir(c, m) BY <3>1, <3>2, <1>5, <1>6
    <3>4. PICK g \in 1 .. Len(v) : v[g].dir = Dir(b, n) + METADATA_SIZE
      BY <3>2, <3>3 DEF HeapInv, Ajenos
    <3>5. g # k
      <4>1. Dir(b, n) # Dir(b, i) BY <3>2, DirUnica
      <4>2. Dir(b, n) \in Nat /\ Dir(b, i) \in Nat BY <3>2, DirNat
      <4>3. QED BY <4>1, <4>2, <3>4, <1>9 DEF METADATA_SIZE
    <3>6. PICK h \in 1 .. Len(w) : w[h] = v[g] BY <3>5, <1>11
    <3>7. QED BY <3>3, <3>4, <3>6
  <2>2. QED BY <2>1 DEF Ajenos
<1>15. Hueco(c, w)
  <2>1. PICK h \in 1 .. Len(b) : b[h].libre BY <1>7 DEF HeapInv, Hueco
  <2>2. h # i BY <2>1, <1>9
  <2>3. s[h].libre /\ s[i].libre /\ h \in 1 .. Len(s) /\ i \in 1 .. Len(s)
    BY <2>1, <2>2, <1>5
  <2>4. h < i \/ i < h BY <2>2, <1>3
  <2>5. \E m \in 1 .. Len(c) : c[m].libre BY <2>3, <2>4, <1>8
  <2>6. ASSUME w = <<>> PROVE Len(c) = 1
    <3>1. Len(w) = 0 BY <2>6
    <3>2. 1 .. Len(w) = {} BY <3>1
    <3>3. ASSUME NEW n \in 1 .. Len(s) PROVE s[n].libre
      <4>1. CASE n = i BY <4>1, <1>5
      <4>2. CASE n # i
        <5>1. n \in 1 .. Len(b) /\ s[n] = b[n] BY <4>2, <1>5
        <5>2. SUFFICES ASSUME ~b[n].libre PROVE FALSE BY <5>1
        <5>3. PICK g \in 1 .. Len(v) : v[g].dir = Dir(b, n) + METADATA_SIZE
          BY <5>1, <5>2 DEF HeapInv, Ajenos
        <5>4. g = k BY <3>2, <1>11
        <5>5. Dir(b, n) \in Nat /\ Dir(b, i) \in Nat BY <5>1, DirNat
        <5>6. Dir(b, n) = Dir(b, i) BY <5>3, <5>4, <5>5, <1>9 DEF METADATA_SIZE
        <5>7. QED BY <5>1, <5>6, <4>2, DirUnica
      <4>3. QED BY <4>1, <4>2
    <3>4. QED BY <3>3, <1>8 DEF Todos
  <2>7. QED BY <2>5, <2>6 DEF Hueco
<1>16. QED BY <1>1, <1>2, <1>12, <1>13, <1>14, <1>15 DEF HeapInv

-----------------------------------------------------------------------------
(* Of every program                                                        *)

HeapTodo ==
  \A p \in Prog : desvio[p] # "pisa" => HeapInv(bloques[p], vivas[p], desvio[p] = "nada")

LEMMA HeapInit == Init => HeapTodo
<1>1. Len(<<>>) = 0 /\ 1 .. 0 = {} OBVIOUS
<1>2. HeapInv(<<>>, <<>>, TRUE) BY <1>1 DEF HeapInv, Cubre, Distintas, Ajenos, Hueco
<1>3. QED BY <1>2 DEF Init, HeapTodo

\* A step of one program.
LEMMA HeapDeUno ==
  ASSUME TypeOK, HeapTodo, NEW p \in Prog, NEW u, NEW w, NEW d,
         bloques' = [bloques EXCEPT ![p] = u], vivas' = [vivas EXCEPT ![p] = w],
         desvio' = [desvio EXCEPT ![p] = d],
         d # "pisa" => HeapInv(u, w, d = "nada")
  PROVE  HeapTodo'
<1>1. ASSUME NEW o \in Prog, desvio'[o] # "pisa"
      PROVE  HeapInv(bloques'[o], vivas'[o], desvio'[o] = "nada")
  <2>1. CASE o = p
    <3>1. bloques'[o] = u /\ vivas'[o] = w /\ desvio'[o] = d BY <2>1 DEF TypeOK
    <3>2. QED BY <3>1, <1>1
  <2>2. CASE o # p
    <3>1. bloques'[o] = bloques[o] /\ vivas'[o] = vivas[o] /\ desvio'[o] = desvio[o]
      BY <2>2 DEF TypeOK
    <3>2. QED BY <3>1, <1>1 DEF HeapTodo
  <2>3. QED BY <2>1, <2>2
<1>2. QED BY <1>1 DEF HeapTodo

LEMMA HeapUbica ==
  ASSUME TypeOK, HeapTodo, NEW p \in Prog, memory_malloc_ubica(p)
  PROVE  HeapTodo'
<1>1. PICK b, v, d : b = bloques[p] /\ v = vivas[p] /\ d = desvio[p] OBVIOUS
<1>2. PICK size, total : size = pedido[p] /\ total = size + METADATA_SIZE OBVIOUS
<1>3. PICK i : i = proxima_metadata_libre_con_size(b, total) OBVIOUS
<1>4. /\ b \in Seq(Bloque) /\ v \in Seq(Viva) /\ size \in Nat /\ total \in Nat
      /\ bloques \in [Prog -> Seq(Bloque)] /\ vivas \in [Prog -> Seq(Viva)]
      /\ desvio \in [Prog -> {"nada", "absorbe", "pisa"}]
  BY <1>1, <1>2 DEF TypeOK, METADATA_SIZE
<1>5. d # "pisa" => HeapInv(b, v, d = "nada") BY <1>1 DEF HeapTodo
<1>6. \/ /\ i # 0
         /\ bloques' = [bloques EXCEPT ![p] = Cortado(b, i, size)]
         /\ vivas' = [vivas EXCEPT ![p] =
                        Append(v, [dir |-> Dir(b, i) + METADATA_SIZE, tam |-> size])]
         /\ desvio' = desvio
      \/ /\ i = 0 /\ b # <<>>
         /\ bloques' = [bloques EXCEPT ![p] = Crecido(b, paginas(total - Last(b).tam))]
         /\ vivas' = vivas
         /\ desvio' = [desvio EXCEPT ![p] = IF Last(b).libre THEN d ELSE "pisa"]
      \/ /\ b = <<>>
         /\ bloques' = [bloques EXCEPT ![p] =
                          <<[tam |-> paginas(size + 2 * METADATA_SIZE) * PAGE_SIZE
                                       - METADATA_SIZE, libre |-> TRUE]>>]
         /\ vivas' = vivas /\ desvio' = desvio
  BY <1>1, <1>2, <1>3 DEF memory_malloc_ubica, TomaPaginas
<1>7. vivas = [vivas EXCEPT ![p] = v] /\ desvio = [desvio EXCEPT ![p] = d] BY <1>1, <1>4
<1>8. CASE /\ i # 0
           /\ bloques' = [bloques EXCEPT ![p] = Cortado(b, i, size)]
           /\ vivas' = [vivas EXCEPT ![p] =
                          Append(v, [dir |-> Dir(b, i) + METADATA_SIZE, tam |-> size])]
           /\ desvio' = desvio
  <2>1. i \in 1 .. Len(b) /\ b[i].tam >= size + METADATA_SIZE
    BY <1>2, <1>3, <1>4, <1>8, ConSizeProps
  <2>2. PICK u, w : /\ u = Cortado(b, i, size)
                    /\ w = Append(v, [dir |-> Dir(b, i) + METADATA_SIZE, tam |-> size])
    OBVIOUS
  <2>3. ASSUME d # "pisa" PROVE HeapInv(u, w, d = "nada")
    <3>1. HeapInv(b, v, d = "nada") /\ (d = "nada") \in BOOLEAN BY <2>3, <1>5
    <3>2. b # <<>>
      <4>1. Len(b) # 0 BY <2>1
      <4>2. QED BY <4>1
    <3>3. \E k \in 1 .. Len(b) : b[k].libre BY <3>1, <3>2 DEF HeapInv, Hueco
    <3>4. b[i].libre BY <3>3, <1>3, <1>4, <1>8, ConSizeLibre
    <3>5. PICK e \in BOOLEAN : e = (d = "nada") BY <3>1
    <3>6. HeapInv(b, v, e) BY <3>1, <3>5
    <3>7. HeapInv(u, w, e) BY <3>4, <3>6, <2>1, <2>2, <1>4, HeapMalloc
    <3>8. QED BY <3>5, <3>7
  <2>4. /\ bloques' = [bloques EXCEPT ![p] = u] /\ vivas' = [vivas EXCEPT ![p] = w]
        /\ desvio' = [desvio EXCEPT ![p] = d]
    BY <1>7, <1>8, <2>2
  <2>5. QED BY <2>3, <2>4, HeapDeUno
<1>9. CASE /\ i = 0 /\ b # <<>>
           /\ bloques' = [bloques EXCEPT ![p] = Crecido(b, paginas(total - Last(b).tam))]
           /\ vivas' = vivas
           /\ desvio' = [desvio EXCEPT ![p] = IF Last(b).libre THEN d ELSE "pisa"]
  <2>1. PICK n : n = paginas(total - Last(b).tam) OBVIOUS
  <2>2. PICK u, c : u = Crecido(b, n) /\ c = IF Last(b).libre THEN d ELSE "pisa" OBVIOUS
  <2>3. Len(b) \in 1 .. Len(b) /\ b[Len(b)].tam \in Nat /\ Last(b) = b[Len(b)]
    <3>1. Len(b) \in Nat /\ Len(b) # 0 BY <1>4, <1>9, EmptySeq
    <3>2. Len(b) \in 1 .. Len(b) BY <3>1
    <3>3. QED BY <3>2, <1>4, BloqueTam DEF Last
  <2>4. n \in Int /\ n * PAGE_SIZE \in Int /\ n * PAGE_SIZE >= total - b[Len(b)].tam
    <3>1. total - b[Len(b)].tam \in Int BY <1>4, <2>3
    <3>2. n = paginas(total - b[Len(b)].tam) BY <2>1, <2>3
    <3>3. QED BY <3>1, <3>2, PaginasProps
  <2>5. b[Len(b)].tam + n * PAGE_SIZE \in Nat BY <1>4, <2>3, <2>4
  <2>6. ASSUME c # "pisa" PROVE HeapInv(u, v, c = "nada")
    <3>1. b[Len(b)].libre /\ c = d BY <2>2, <2>3, <2>6
    <3>2. PICK e \in BOOLEAN : e = (d = "nada") OBVIOUS
    <3>3. HeapInv(b, v, e) BY <3>1, <3>2, <2>6, <1>5
    <3>4. HeapInv(Crecido(b, n), v, e) BY <3>1, <3>3, <2>4, <2>5, <1>4, <1>9, HeapCrece
    <3>5. QED BY <3>1, <3>2, <3>4, <2>2
  <2>7. /\ bloques' = [bloques EXCEPT ![p] = u] /\ vivas' = [vivas EXCEPT ![p] = v]
        /\ desvio' = [desvio EXCEPT ![p] = c]
    BY <1>7, <1>9, <2>1, <2>2
  <2>8. QED BY <2>6, <2>7, HeapDeUno
<1>10. CASE /\ b = <<>>
            /\ bloques' = [bloques EXCEPT ![p] =
                             <<[tam |-> paginas(size + 2 * METADATA_SIZE) * PAGE_SIZE
                                          - METADATA_SIZE, libre |-> TRUE]>>]
            /\ vivas' = vivas /\ desvio' = desvio
  <2>1. PICK n : n = paginas(size + 2 * METADATA_SIZE) OBVIOUS
  <2>2. n * PAGE_SIZE \in Int /\ n * PAGE_SIZE >= size + 10
    <3>1. size + 2 * METADATA_SIZE \in Int /\ size + 2 * METADATA_SIZE = size + 10
      BY <1>4 DEF METADATA_SIZE
    <3>2. QED BY <2>1, <3>1, PaginasProps
  <2>3. PICK x : x = [tam |-> n * PAGE_SIZE - METADATA_SIZE, libre |-> TRUE] OBVIOUS
  <2>4. n * PAGE_SIZE - METADATA_SIZE \in Nat BY <2>2, <1>4 DEF METADATA_SIZE
  <2>5. x \in Bloque /\ x.libre BY <2>3, <2>4 DEF Bloque
  <2>6. ASSUME d # "pisa" PROVE HeapInv(<<x>>, v, d = "nada")
    <3>1. PICK e \in BOOLEAN : e = (d = "nada") OBVIOUS
    <3>2. HeapInv(<<>>, v, e) BY <3>1, <2>6, <1>5, <1>10
    <3>3. HeapInv(<<x>>, v, e) BY <3>2, <2>5, <1>4, HeapPrimera
    <3>4. QED BY <3>1, <3>3
  <2>7. /\ bloques' = [bloques EXCEPT ![p] = <<x>>] /\ vivas' = [vivas EXCEPT ![p] = v]
        /\ desvio' = [desvio EXCEPT ![p] = d]
    BY <1>7, <1>10, <2>1, <2>3
  <2>8. QED BY <2>6, <2>7, HeapDeUno
<1>11. QED BY <1>6, <1>8, <1>9, <1>10

\* What memory_free does to the program that calls it.
LEMMA LiberaProps ==
  ASSUME TypeOK, HeapTodo, NEW p \in Prog, NEW k \in 1 .. Len(vivas[p]), memory_free(p, k),
         desvio[p] # "pisa"
  PROVE  \E i, s :
           /\ i \in 1 .. Len(bloques[p])
           /\ s = [bloques[p] EXCEPT ![i].libre = TRUE]
           /\ Dir(bloques[p], i) = vivas[p][k].dir - METADATA_SIZE
           /\ bloques' = [bloques EXCEPT ![p] = compactar_espacios_libres(s)]
           /\ desvio' = [desvio EXCEPT ![p] =
                           IF @ = "nada" /\ Absorbe(s) THEN "absorbe" ELSE @]
           /\ using_memory' = [using_memory EXCEPT ![p] = (@ - bloques[p][i].tam) % UINT32]
<1>1. PICK b, v : b = bloques[p] /\ v = vivas[p] OBVIOUS
<1>2. b \in Seq(Bloque) /\ v \in Seq(Viva) /\ k \in 1 .. Len(v) BY <1>1 DEF TypeOK
<1>3. PICK e \in BOOLEAN : e = (desvio[p] = "nada") OBVIOUS
<1>4. HeapInv(b, v, e) BY <1>1, <1>3 DEF HeapTodo
<1>5. \E i \in 1 .. Len(b) : Dir(b, i) = v[k].dir - METADATA_SIZE BY <1>2, <1>4, HeapDe
<1>6. {i \in 1 .. Len(b) : Dir(b, i) = v[k].dir - METADATA_SIZE} # {} BY <1>5
<1>7. PICK i \in {i \in 1 .. Len(b) : Dir(b, i) = v[k].dir - METADATA_SIZE} :
        /\ bloques' = [bloques EXCEPT ![p] =
                         compactar_espacios_libres([b EXCEPT ![i].libre = TRUE])]
        /\ desvio' = [desvio EXCEPT ![p] =
                        IF @ = "nada" /\ Absorbe([b EXCEPT ![i].libre = TRUE])
                          THEN "absorbe" ELSE @]
        /\ using_memory' = [using_memory EXCEPT ![p] = (@ - b[i].tam) % UINT32]
  BY <1>1, <1>6 DEF memory_free
<1>8. i \in 1 .. Len(b) /\ Dir(b, i) = v[k].dir - METADATA_SIZE OBVIOUS
<1>9. QED BY <1>1, <1>7, <1>8

LEMMA HeapLibera ==
  ASSUME TypeOK, HeapTodo, NEW p \in Prog, NEW k \in 1 .. Len(vivas[p]), memory_free(p, k)
  PROVE  HeapTodo'
<1>1. PICK b, v, d : b = bloques[p] /\ v = vivas[p] /\ d = desvio[p] OBVIOUS
<1>2. /\ b \in Seq(Bloque) /\ v \in Seq(Viva) /\ k \in 1 .. Len(v)
      /\ bloques \in [Prog -> Seq(Bloque)] /\ d \in {"nada", "absorbe", "pisa"}
      /\ desvio \in [Prog -> {"nada", "absorbe", "pisa"}]
  BY <1>1 DEF TypeOK
<1>3. vivas' = [vivas EXCEPT ![p] = RemoveAt(v, k)] BY <1>1 DEF memory_free
<1>4. CASE d = "pisa"
  <2>1. \/ \E u : bloques' = [bloques EXCEPT ![p] = u] /\ desvio' = [desvio EXCEPT ![p] = d]
        \/ bloques' = bloques /\ desvio' = desvio
    BY <1>1, <1>4 DEF memory_free
  <2>2. bloques = [bloques EXCEPT ![p] = b] /\ desvio = [desvio EXCEPT ![p] = d] BY <1>1, <1>2
  <2>3. PICK u : bloques' = [bloques EXCEPT ![p] = u] /\ desvio' = [desvio EXCEPT ![p] = d]
    BY <2>1, <2>2
  <2>4. QED BY <2>3, <1>3, <1>4, HeapDeUno
<1>5. CASE d # "pisa"
  <2>1. PICK e \in BOOLEAN : e = (d = "nada") OBVIOUS
  <2>2. HeapInv(b, v, e) BY <2>1, <1>1, <1>5 DEF HeapTodo
  <2>3. PICK i, s :
          /\ i \in 1 .. Len(b)
          /\ s = [b EXCEPT ![i].libre = TRUE]
          /\ Dir(b, i) = v[k].dir - METADATA_SIZE
          /\ bloques' = [bloques EXCEPT ![p] = compactar_espacios_libres(s)]
          /\ desvio' = [desvio EXCEPT ![p] =
                          IF @ = "nada" /\ Absorbe(s) THEN "absorbe" ELSE @]
    BY <1>1, <1>5, LiberaProps
  <2>4. PICK c, f : /\ c = (IF d = "nada" /\ Absorbe(s) THEN "absorbe" ELSE d)
                    /\ f = (c = "nada")
    OBVIOUS
  <2>5. f \in BOOLEAN /\ (f => e /\ ~Absorbe(s)) BY <2>1, <2>4
  <2>6. HeapInv(compactar_espacios_libres(s), RemoveAt(v, k), f)
    BY <2>2, <2>3, <2>5, <1>2, HeapFree
  <2>7. desvio' = [desvio EXCEPT ![p] = c] BY <2>3, <2>4, <1>1
  <2>8. QED BY <2>3, <2>4, <2>6, <2>7, <1>3, HeapDeUno
<1>6. QED BY <1>4, <1>5

LEMMA HeapNext ==
  ASSUME TypeOK, HeapTodo, [Next]_vars
  PROVE  HeapTodo'
<1>1. CASE UNCHANGED <<bloques, vivas, desvio>> BY <1>1 DEF HeapTodo
<1>2. CASE \E p \in Prog : memory_malloc_ubica(p) BY <1>2, HeapUbica
<1>3. CASE \E p \in Prog : \E k \in 1 .. Len(vivas[p]) : memory_free(p, k)
  BY <1>3, HeapLibera
<1>4. QED
  BY <1>1, <1>2, <1>3
  DEF Next, vars, memory_malloc, muse_alloc, memory_malloc_valida, desconexion

LEMMA HeapSiempre == Spec => [](TypeOK /\ HeapTodo)
<1>1. TypeOK /\ HeapTodo /\ [Next]_vars => HeapTodo' BY HeapNext
<1>2. QED BY <1>1, Tipos, HeapInit, PTL DEF Spec

-----------------------------------------------------------------------------
(* The sum of the allocations                                              *)

LEMMA VivaTam ==
  ASSUME NEW v \in Seq(Viva)
  PROVE  Len(v) \in Nat /\ \A k \in 1 .. Len(v) : v[k].tam \in Nat /\ v[k].dir \in Nat
<1>1. Len(v) \in Nat /\ \A k \in 1 .. Len(v) : v[k] \in Viva BY LenProperties, ElementOfSeq
<1>2. QED BY <1>1 DEF Viva

LEMMA BytesAgrega ==
  ASSUME NEW v \in Seq(Viva), NEW a \in Viva
  PROVE  /\ Bytes(v, Len(v)) \in Nat
         /\ Bytes(Append(v, a), Len(Append(v, a))) = Bytes(v, Len(v)) + a.tam
<1>1. PICK w : w = Append(v, a) OBVIOUS
<1>2. PICK n : n = Len(v) OBVIOUS
<1>3. /\ n \in Nat /\ Len(w) = n + 1 /\ w[n + 1] = a
      /\ \A k \in 1 .. n : w[k] = v[k] /\ v[k].tam \in Nat
  BY <1>1, <1>2, VivaTam, AppendProperties
<1>4. Bytes(v, n) \in Nat BY <1>3, BytesNat
<1>5. Bytes(w, n) = Bytes(v, n)
  <2>1. \A k \in 1 .. n : v[k].tam \in Int /\ w[k].tam = v[k].tam BY <1>3
  <2>2. QED BY <2>1, <1>3, BytesIgual
<1>6. Bytes(w, n + 1) = Bytes(w, n) + w[n + 1].tam BY <1>3, BytesPaso
<1>7. QED BY <1>1, <1>2, <1>3, <1>4, <1>5, <1>6

LEMMA BytesQuita ==
  ASSUME NEW v \in Seq(Viva), NEW k \in 1 .. Len(v)
  PROVE  /\ Bytes(v, Len(v)) \in Nat /\ v[k].tam \in Nat
         /\ Bytes(RemoveAt(v, k), Len(RemoveAt(v, k))) = Bytes(v, Len(v)) - v[k].tam
<1>1. PICK w : w = RemoveAt(v, k) OBVIOUS
<1>2. PICK a : a = k - 1 OBVIOUS
<1>3. PICK c : c = Len(v) - k OBVIOUS
<1>4. Len(v) \in Nat /\ \A h \in 1 .. Len(v) : v[h].tam \in Nat BY VivaTam
<1>5. /\ w \in Seq(Viva) /\ Len(w) = Len(v) - 1
      /\ \A h \in 1 .. (Len(v) - 1) : w[h] = IF h < k THEN v[h] ELSE v[h + 1]
  BY <1>1, RemoveAtProps
<1>6. \A h \in 1 .. Len(w) : w[h].tam \in Nat BY <1>5, VivaTam
<1>7. /\ k \in Nat /\ a \in Nat /\ c \in Nat /\ a + 1 = k /\ a + c = Len(w) /\ k + c = Len(v)
  BY <1>2, <1>3, <1>4, <1>5
<1>8. Bytes(w, a) = Bytes(v, a)
  <2>1. \A h \in 1 .. a : v[h].tam \in Int /\ w[h].tam = v[h].tam BY <1>2, <1>4, <1>5
  <2>2. QED BY <2>1, <1>7, BytesIgual
<1>9. Bytes(v, k) = Bytes(v, a) + v[k].tam
  <2>1. Bytes(v, a + 1) = Bytes(v, a) + v[a + 1].tam BY <1>7, BytesPaso
  <2>2. QED BY <2>1, <1>7
<1>10. Bytes(w, a + c) - Bytes(w, a) = Bytes(v, k + c) - Bytes(v, k)
  <2>1. Enteros(w, a + c) /\ Enteros(v, k + c) BY <1>4, <1>6, <1>7 DEF Enteros
  <2>2. ASSUME NEW h \in 1 .. c PROVE w[a + h].tam = v[k + h].tam
    <3>1. /\ a + h \in 1 .. (Len(v) - 1) /\ ~(a + h < k) /\ (a + h) + 1 = k + h
      BY <1>2, <1>3, <1>4
    <3>2. w[a + h] = v[(a + h) + 1] BY <3>1, <1>5
    <3>3. QED BY <3>1, <3>2
  <2>3. Tramo(w, a, v, k, c) BY <2>2 DEF Tramo
  <2>4. QED BY <2>1, <2>3, <1>7, BytesTramo
<1>11. /\ Bytes(v, Len(v)) \in Nat /\ Bytes(w, Len(w)) \in Nat /\ Bytes(v, a) \in Nat
       /\ v[k].tam \in Nat
  <2>1. \A h \in 1 .. a : v[h].tam \in Nat BY <1>2, <1>4
  <2>2. a \in Nat /\ Len(w) \in Nat /\ Len(v) \in Nat BY <1>4, <1>5, <1>7
  <2>3. Bytes(v, Len(v)) \in Nat BY <1>4, BytesNat
  <2>4. Bytes(w, Len(w)) \in Nat BY <2>2, <1>6, BytesNat
  <2>5. Bytes(v, a) \in Nat BY <2>1, <2>2, BytesNat
  <2>6. QED BY <2>3, <2>4, <2>5, <1>4
<1>12. Bytes(w, Len(w)) = Bytes(v, Len(v)) - v[k].tam
  <2>1. PICK x, y, z, t : /\ x = Bytes(w, Len(w)) /\ y = Bytes(v, Len(v))
                          /\ z = Bytes(v, a) /\ t = v[k].tam
    OBVIOUS
  <2>2. x \in Nat /\ y \in Nat /\ z \in Nat /\ t \in Nat /\ x - z = y - (z + t)
    BY <2>1, <1>7, <1>8, <1>9, <1>10, <1>11
  <2>3. x = y - t BY ONLY <2>2
  <2>4. QED BY <2>1, <2>3
<1>13. QED BY <1>1, <1>11, <1>12

\* A counter that wraps around.
LEMMA ModUnico ==
  ASSUME NEW u \in Nat \ {0}, NEW x \in Int, NEW y \in Int, NEW q \in Int, x = y + u * q
  PROVE  x % u = y % u
<1>1. PICK a, r : a = x \div u /\ r = x % u OBVIOUS
<1>2. PICK b, s : b = y \div u /\ s = y % u OBVIOUS
<1>3. a \in Int /\ r \in 0 .. (u - 1) /\ x = u * a + r BY <1>1
<1>4. b \in Int /\ s \in 0 .. (u - 1) /\ y = u * b + s BY <1>2
<1>5. PICK d : d = a - b - q OBVIOUS
<1>6. d \in Int BY <1>3, <1>4, <1>5
<1>7. u * d = s - r
  <2>1. u * d = u * a - u * b - u * q BY <1>3, <1>4, <1>5
  <2>2. PICK A, B, C : A = u * a /\ B = u * b /\ C = u * q OBVIOUS
  <2>3. A \in Int /\ B \in Int /\ C \in Int /\ x = A + r /\ y = B + s /\ x = y + C
    BY <2>2, <1>3, <1>4
  <2>4. A - B - C = s - r BY <2>3, <1>3, <1>4
  <2>5. QED BY <2>1, <2>2, <2>4
<1>8. d = 0
  <2>1. CASE d >= 1
    <3>1. u * d >= u BY <2>1, <1>6
    <3>2. QED BY <3>1, <1>3, <1>4, <1>7
  <2>2. CASE d <= -1
    <3>1. u * d <= -u BY <2>2, <1>6
    <3>2. QED BY <3>1, <1>3, <1>4, <1>7
  <2>3. QED BY <2>1, <2>2, <1>6
<1>9. u * d = 0 BY <1>8
<1>10. r = s
  <2>1. s - r = 0 BY <1>7, <1>9
  <2>2. QED BY <2>1, <1>3, <1>4
<1>11. QED BY <1>1, <1>2, <1>10

LEMMA ModSuma ==
  ASSUME NEW u \in Nat \ {0}, NEW x \in Int, NEW n \in Int
  PROVE  ((x % u) + n) % u = (x + n) % u
<1>1. PICK q, r : q = x \div u /\ r = x % u OBVIOUS
<1>2. q \in Int /\ r \in Int /\ x = u * q + r BY <1>1
<1>3. x + n = (r + n) + u * q
  <2>1. PICK A : A = u * q OBVIOUS
  <2>2. A \in Int BY <2>1, <1>2
  <2>3. QED BY <2>1, <2>2, <1>2
<1>4. x + n \in Int /\ r + n \in Int BY <1>2
<1>5. (x + n) % u = (r + n) % u BY <1>2, <1>3, <1>4, ModUnico
<1>6. QED BY <1>1, <1>5

\* Up to the first free that adds a free block to one in use, blocks are exact.
LEMMA CubreExacto ==
  ASSUME NEW b \in Seq(Bloque), NEW v, Cubre(b, v, TRUE), NEW k \in 1 .. Len(v),
         NEW i \in 1 .. Len(b), Dir(b, i) = v[k].dir - METADATA_SIZE
  PROVE  b[i].tam = v[k].tam
<1>1. PICK n \in 1 .. Len(b) : v[k].dir = Dir(b, n) + METADATA_SIZE /\ b[n].tam = v[k].tam
  BY Zenon DEF Cubre
<1>2. Dir(b, n) \in Nat BY DirNat
<1>3. Dir(b, n) = v[k].dir - METADATA_SIZE BY <1>1, <1>2 DEF METADATA_SIZE
<1>4. i = n BY <1>3, DirUnica
<1>5. QED BY <1>1, <1>4

LEMMA FugaNext ==
  ASSUME TypeOK, HeapTodo, FugaExacta, [Next]_vars
  PROVE  FugaExacta'
<1>0. UINT32 \in Nat \ {0} BY HeapAssumption
<1>1. CASE UNCHANGED <<vivas, using_memory, desvio>> BY <1>1 DEF FugaExacta
<1>2. ASSUME NEW p \in Prog, NEW w, NEW n \in Int,
             vivas' = [vivas EXCEPT ![p] = w],
             \A o \in Prog : o # p => desvio'[o] = desvio[o],
             desvio[p] = "nada",
             using_memory' = [using_memory EXCEPT ![p] = (@ + n) % UINT32],
             Bytes(vivas[p], Len(vivas[p])) \in Nat,
             Bytes(w, Len(w)) = Bytes(vivas[p], Len(vivas[p])) + n
      PROVE  FugaExacta'
  <2>1. /\ using_memory'[p] = (using_memory[p] + n) % UINT32 /\ vivas'[p] = w
        /\ \A o \in Prog : o # p => vivas'[o] = vivas[o] /\ using_memory'[o] = using_memory[o]
    BY <1>2 DEF TypeOK
  <2>2. using_memory[p] = Bytes(vivas[p], Len(vivas[p])) % UINT32 BY <1>2 DEF FugaExacta
  <2>3. PICK B : B = Bytes(vivas[p], Len(vivas[p])) OBVIOUS
  <2>4. ((B % UINT32) + n) % UINT32 = (B + n) % UINT32
    <3>1. B \in Int /\ n \in Int BY <2>3, <1>2
    <3>2. QED BY <3>1, <1>0, ModSuma
  <2>5. using_memory'[p] = Bytes(vivas'[p], Len(vivas'[p])) % UINT32
    BY <2>1, <2>2, <2>3, <2>4, <1>2
  <2>6. ASSUME NEW o \in Prog, desvio'[o] = "nada"
        PROVE  using_memory'[o] = Bytes(vivas'[o], Len(vivas'[o])) % UINT32
    <3>1. CASE o = p BY <3>1, <2>5
    <3>2. CASE o # p
      <4>1. desvio[o] = "nada" /\ vivas'[o] = vivas[o] /\ using_memory'[o] = using_memory[o]
        BY <3>2, <2>1, <2>6, <1>2
      <4>2. using_memory[o] = Bytes(vivas[o], Len(vivas[o])) % UINT32 BY <4>1 DEF FugaExacta
      <4>3. QED BY <4>1, <4>2
    <3>3. QED BY <3>1, <3>2
  <2>7. QED BY <2>6 DEF FugaExacta
\* A program whose blocks are no longer as it asked for is out of the property.
<1>3. ASSUME NEW p \in Prog,
             \A o \in Prog : o # p => /\ vivas'[o] = vivas[o] /\ desvio'[o] = desvio[o]
                                      /\ using_memory'[o] = using_memory[o],
             desvio'[p] # "nada"
      PROVE  FugaExacta'
  BY <1>3 DEF FugaExacta
<1>4. ASSUME NEW p \in Prog, memory_malloc_ubica(p) PROVE FugaExacta'
  <2>1. PICK i, size : /\ size = pedido[p]
                       /\ i = proxima_metadata_libre_con_size(bloques[p], size + METADATA_SIZE)
    OBVIOUS
  <2>2. \/ /\ i # 0
           /\ vivas' = [vivas EXCEPT ![p] =
                          Append(@, [dir |-> Dir(bloques[p], i) + METADATA_SIZE, tam |-> size])]
           /\ using_memory' = [using_memory EXCEPT ![p] = (@ + size) % UINT32]
           /\ desvio' = desvio
        \/ /\ vivas' = vivas /\ using_memory' = using_memory
           /\ \E c \in {desvio[p], "pisa"} : desvio' = [desvio EXCEPT ![p] = c]
        \/ vivas' = vivas /\ using_memory' = using_memory /\ desvio' = desvio
    BY <1>4, <2>1 DEF memory_malloc_ubica, TomaPaginas
  <2>3. size \in Nat /\ bloques[p] \in Seq(Bloque) /\ vivas[p] \in Seq(Viva)
        /\ size + METADATA_SIZE \in Nat
    BY <2>1 DEF TypeOK, METADATA_SIZE
  <2>4. CASE /\ i # 0
             /\ vivas' = [vivas EXCEPT ![p] =
                            Append(@, [dir |-> Dir(bloques[p], i) + METADATA_SIZE, tam |-> size])]
             /\ using_memory' = [using_memory EXCEPT ![p] = (@ + size) % UINT32]
             /\ desvio' = desvio
    <3>1. i \in 1 .. Len(bloques[p]) BY <2>1, <2>3, <2>4, ConSizeProps
    <3>2. Dir(bloques[p], i) \in Nat BY <2>3, <3>1, DirNat
    <3>3. PICK a : a = [dir |-> Dir(bloques[p], i) + METADATA_SIZE, tam |-> size] OBVIOUS
    <3>4. a \in Viva /\ a.tam = size BY <3>2, <3>3, <2>3 DEF Viva, METADATA_SIZE
    <3>5. PICK w : w = Append(vivas[p], a) OBVIOUS
    <3>6. /\ Bytes(vivas[p], Len(vivas[p])) \in Nat
          /\ Bytes(w, Len(w)) = Bytes(vivas[p], Len(vivas[p])) + size
      BY <3>4, <3>5, <2>3, BytesAgrega
    <3>7. vivas' = [vivas EXCEPT ![p] = w] BY <2>4, <3>3, <3>5
    <3>8. CASE desvio[p] = "nada"
      <4>1. size \in Int /\ \A o \in Prog : o # p => desvio'[o] = desvio[o] BY <2>3, <2>4
      <4>2. using_memory' = [using_memory EXCEPT ![p] = (@ + size) % UINT32] BY <2>4
      <4>3. QED BY <4>1, <4>2, <3>6, <3>7, <3>8, <1>2
    <3>9. CASE desvio[p] # "nada" BY <3>9, <2>4, <1>3 DEF TypeOK
    <3>10. QED BY <3>8, <3>9
  <2>5. CASE /\ vivas' = vivas /\ using_memory' = using_memory
             /\ \E c \in {desvio[p], "pisa"} : desvio' = [desvio EXCEPT ![p] = c]
    <3>1. desvio' = desvio \/ desvio' = [desvio EXCEPT ![p] = "pisa"] BY <2>5 DEF TypeOK
    <3>2. CASE desvio' = desvio BY <3>2, <2>5, <1>1
    <3>3. CASE desvio' = [desvio EXCEPT ![p] = "pisa"] BY <3>3, <2>5, <1>3 DEF TypeOK
    <3>4. QED BY <3>1, <3>2, <3>3
  <2>6. QED BY <2>2, <2>4, <2>5, <1>1
<1>5. ASSUME NEW p \in Prog, NEW k \in 1 .. Len(vivas[p]), memory_free(p, k)
      PROVE  FugaExacta'
  <2>1. vivas' = [vivas EXCEPT ![p] = RemoveAt(@, k)] BY <1>5 DEF memory_free
  <2>2. CASE desvio[p] = "nada"
    <3>1. PICK i, s :
            /\ i \in 1 .. Len(bloques[p])
            /\ Dir(bloques[p], i) = vivas[p][k].dir - METADATA_SIZE
            /\ desvio' = [desvio EXCEPT ![p] =
                            IF @ = "nada" /\ Absorbe(s) THEN "absorbe" ELSE @]
            /\ using_memory' = [using_memory EXCEPT ![p] = (@ - bloques[p][i].tam) % UINT32]
      <4>1. desvio[p] # "pisa" BY <2>2
      <4>2. \E i, s :
              /\ i \in 1 .. Len(bloques[p])
              /\ s = [bloques[p] EXCEPT ![i].libre = TRUE]
              /\ Dir(bloques[p], i) = vivas[p][k].dir - METADATA_SIZE
              /\ bloques' = [bloques EXCEPT ![p] = compactar_espacios_libres(s)]
              /\ desvio' = [desvio EXCEPT ![p] =
                              IF @ = "nada" /\ Absorbe(s) THEN "absorbe" ELSE @]
              /\ using_memory' = [using_memory EXCEPT ![p] = (@ - bloques[p][i].tam) % UINT32]
        BY <4>1, <1>5, LiberaProps
      <4>3. QED BY <4>2
    <3>2. /\ bloques[p] \in Seq(Bloque) /\ vivas[p] \in Seq(Viva)
          /\ using_memory[p] \in Nat
      BY DEF TypeOK
    <3>3. HeapInv(bloques[p], vivas[p], TRUE)
      <4>1. HeapInv(bloques[p], vivas[p], desvio[p] = "nada") BY <2>2 DEF HeapTodo
      <4>2. (desvio[p] = "nada") = TRUE BY <2>2
      <4>3. QED BY <4>1, <4>2
    <3>4. bloques[p][i].tam = vivas[p][k].tam
      <4>1. Cubre(bloques[p], vivas[p], TRUE) BY <3>3 DEF HeapInv
      <4>2. QED BY <4>1, <3>1, <3>2, CubreExacto
    <3>5. PICK w, t : w = RemoveAt(vivas[p], k) /\ t = vivas[p][k].tam OBVIOUS
    <3>6. /\ Bytes(vivas[p], Len(vivas[p])) \in Nat /\ t \in Nat
          /\ Bytes(w, Len(w)) = Bytes(vivas[p], Len(vivas[p])) - t
      BY <3>2, <3>5, BytesQuita
    <3>7. PICK n : n = -t OBVIOUS
    <3>8. n \in Int /\ Bytes(w, Len(w)) = Bytes(vivas[p], Len(vivas[p])) + n
      BY <3>6, <3>7
    <3>9. using_memory[p] - bloques[p][i].tam = using_memory[p] + n
      BY <3>2, <3>4, <3>5, <3>6, <3>7
    <3>10. using_memory' = [using_memory EXCEPT ![p] = (@ + n) % UINT32] BY <3>1, <3>9
    <3>11. \A o \in Prog : o # p => desvio'[o] = desvio[o] BY <3>1 DEF TypeOK
    <3>12. vivas' = [vivas EXCEPT ![p] = w] BY <2>1, <3>5
    <3>13. QED BY <2>2, <3>6, <3>8, <3>10, <3>11, <3>12, <1>2
  <2>3. CASE desvio[p] # "nada"
    <3>1. \/ \E c, u : /\ c # "nada" /\ desvio' = [desvio EXCEPT ![p] = c]
                       /\ using_memory' = [using_memory EXCEPT ![p] = u]
          \/ desvio' = desvio /\ using_memory' = using_memory
      BY <1>5, <2>3 DEF memory_free
    <3>2. /\ desvio'[p] # "nada"
          /\ \A o \in Prog : o # p => /\ vivas'[o] = vivas[o] /\ desvio'[o] = desvio[o]
                                      /\ using_memory'[o] = using_memory[o]
      BY <3>1, <2>1, <2>3 DEF TypeOK
    <3>3. QED BY <3>2, <1>3
  <2>4. QED BY <2>2, <2>3
<1>6. QED
  BY <1>1, <1>4, <1>5
  DEF Next, vars, memory_malloc, muse_alloc, memory_malloc_valida, desconexion

LEMMA RangosAparte ==
  \A x, y, z, t \in Nat : x + y - 1 < z => (x .. (x + y - 1)) \cap (z .. (z + t - 1)) = {}
OBVIOUS

-----------------------------------------------------------------------------
(* The theorems                                                            *)

\* Whatever the order of its requests and frees, and whatever other programs take
\* between the two critical sections of memory_malloc, a client keeps what muse_alloc
\* gave it until a growth marks a block of its in use free (line 846): until then its
\* allocations never overlap, and the block of each is in use and large enough.
THEOREM LasVivasEstanSeparadas == Spec => []SeparadasHastaPisar
<1>1. TypeOK /\ HeapTodo => SeparadasHastaPisar
  <2> SUFFICES ASSUME TypeOK, HeapTodo, NEW p \in Prog, desvio[p] # "pisa"
               PROVE  Separadas(p)
    BY DEF SeparadasHastaPisar
  <2>1. PICK b, v : b = bloques[p] /\ v = vivas[p] OBVIOUS
  <2>2. b \in Seq(Bloque) /\ v \in Seq(Viva) BY <2>1 DEF TypeOK
  <2>3. PICK e \in BOOLEAN : e = (desvio[p] = "nada") OBVIOUS
  <2>4. HeapInv(b, v, e) BY <2>1, <2>3 DEF HeapTodo
  <2>5. ASSUME NEW k \in 1 .. Len(v)
        PROVE  \E i \in 1 .. Len(b) :
                 /\ Dir(b, i) = v[k].dir - METADATA_SIZE
                 /\ ~b[i].libre /\ b[i].tam >= v[k].tam
    BY <2>2, <2>4, HeapDe
  <2>6. ASSUME NEW k1 \in 1 .. Len(v), NEW k2 \in 1 .. Len(v), k1 # k2
        PROVE  Rango(v[k1]) \cap Rango(v[k2]) = {}
    <3>1. PICK i1 \in 1 .. Len(b) :
            v[k1].dir = Dir(b, i1) + METADATA_SIZE /\ b[i1].tam >= v[k1].tam
      BY <2>4 DEF HeapInv, Cubre
    <3>2. PICK i2 \in 1 .. Len(b) :
            v[k2].dir = Dir(b, i2) + METADATA_SIZE /\ b[i2].tam >= v[k2].tam
      BY <2>4 DEF HeapInv, Cubre
    <3>3. v[k1].dir # v[k2].dir BY <2>4, <2>6 DEF HeapInv, Distintas
    <3>4. i1 # i2 BY <3>1, <3>2, <3>3
    <3>5. Len(b) \in Nat /\ \A n \in 1 .. Len(b) : b[n].tam \in Nat BY <2>2, BloqueTam
    <3>6. /\ v[k1].tam \in Nat /\ v[k2].tam \in Nat /\ v[k1].dir \in Nat /\ v[k2].dir \in Nat
      BY <2>2, VivaTam
    <3>7. ASSUME NEW x \in 1 .. Len(b), NEW y \in 1 .. Len(b), x < y
          PROVE  /\ Dir(b, x) \in Nat /\ Dir(b, y) \in Nat
                 /\ Dir(b, x) + METADATA_SIZE + b[x].tam <= Dir(b, y)
      <4>1. y \in 1 .. (Len(b) + 1) BY <3>5
      <4>2. QED BY <4>1, <3>5, <3>7, DirCrece
    <3>8. CASE i1 < i2
      <4>1. Dir(b, i1) \in Nat /\ Dir(b, i2) \in Nat /\ b[i1].tam \in Nat
            /\ Dir(b, i1) + METADATA_SIZE + b[i1].tam <= Dir(b, i2)
        BY <3>5, <3>7, <3>8
      <4>2. v[k1].dir + v[k1].tam - 1 < v[k2].dir
        BY SMTT(60), <4>1, <3>1, <3>2, <3>6 DEF METADATA_SIZE
      <4>3. QED BY <4>2, <3>6, RangosAparte DEF Rango
    <3>9. CASE i2 < i1
      <4>1. Dir(b, i1) \in Nat /\ Dir(b, i2) \in Nat /\ b[i2].tam \in Nat
            /\ Dir(b, i2) + METADATA_SIZE + b[i2].tam <= Dir(b, i1)
        BY <3>5, <3>7, <3>9
      <4>2. v[k2].dir + v[k2].tam - 1 < v[k1].dir
        BY SMTT(60), <4>1, <3>1, <3>2, <3>6 DEF METADATA_SIZE
      <4>3. QED BY <4>2, <3>6, RangosAparte DEF Rango
    <3>10. i1 < i2 \/ i2 < i1 BY <3>4, <3>5
    <3>11. QED BY <3>8, <3>9, <3>10
  <2>7. QED BY <2>1, <2>5, <2>6 DEF Separadas
<1>2. QED BY <1>1, HeapSiempre, PTL

\* A client that has freed everything, in whatever order, has its heap back in one free
\* block unless a growth has marked a block in use free: compactar_espacios_libres and
\* its two recursions leave no free neighbours apart.
THEOREM TodoLibreDejaUnBloque == Spec => []TodoLibreEsUnBloque
<1>1. TypeOK /\ HeapTodo => TodoLibreEsUnBloque
  <2> SUFFICES ASSUME HeapTodo, NEW p \in Prog, desvio[p] # "pisa",
                      vivas[p] = <<>>, bloques[p] # <<>>
               PROVE  Len(bloques[p]) = 1 /\ bloques[p][1].libre
    BY DEF TodoLibreEsUnBloque
  <2>1. HeapInv(bloques[p], vivas[p], desvio[p] = "nada") BY DEF HeapTodo
  <2>2. Len(bloques[p]) = 1 /\ \E i \in 1 .. Len(bloques[p]) : bloques[p][i].libre
    BY <2>1 DEF HeapInv, Hueco
  <2>3. PICK i \in 1 .. Len(bloques[p]) : bloques[p][i].libre BY <2>2
  <2>4. i = 1 BY <2>2
  <2>5. QED BY <2>2, <2>3, <2>4
<1>2. QED BY <1>1, HeapSiempre, PTL

\* The leak that el_cliente_se_tomo_el_palo reports is what the client did not free,
\* modulo the width of using_memory, until a free leaves the last block free after one
\* in use, which then takes it in: whatever the order of the frees before.
THEOREM LaFugaEsExacta == Spec => []FugaExacta
<1>1. Init => FugaExacta
  <2> SUFFICES ASSUME Init PROVE FugaExacta OBVIOUS
  <2>1. Len(<<>>) = 0 /\ Bytes(<<>>, 0) = 0 BY BytesCero
  <2>2. 0 % UINT32 = 0 BY HeapAssumption
  <2>3. QED BY <2>1, <2>2 DEF Init, FugaExacta
<1>2. TypeOK /\ HeapTodo /\ FugaExacta /\ [Next]_vars => FugaExacta' BY FugaNext
<1>3. QED BY <1>1, <1>2, HeapSiempre, PTL DEF Spec
=============================================================================
