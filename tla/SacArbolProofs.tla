--------------------------- MODULE SacArbolProofs ---------------------------
(***************************************************************************)
(* What SacArbol promises, for every number of nodes, names and depth of   *)
(* the paths: the table of nodes is a tree and determine_nodo finds each   *)
(* of its paths (CaminoFiel), and the calls do to the tree of paths what   *)
(* SacPromesa says (ImplementaPromesa).                                    *)
(***************************************************************************)
EXTENDS SacArbol, TLAPS, SequenceTheorems, FiniteSetTheorems, WellFoundedInduction

\* The bitmap takes one block of the disk, so that the literal 2 of borrar_directorio is
\* the first block of the table.
UnBloqueDeBitmap == bloqueInicioTablaDeNodos = 2

GFile == [state : 0 .. 2, fname : Nombre \cup {NULL}, parent_dir_block : Nat]

\* The way s goes down from the root in the table t, through nodes in use, each in the
\* directory before it.
EsRastro(t, s) ==
  /\ s \in Seq(Nodo) /\ s # <<>>
  /\ \A k \in 1 .. Len(s) : t[s[k]].state # 0
  /\ t[s[1]].parent_dir_block = 0
  /\ \A k \in 1 .. (Len(s) - 1) :
       t[s[k + 1]].parent_dir_block = s[k] + bloqueInicioTablaDeNodos

\* The names along a way.
PathDe(t, s) == [k \in 1 .. Len(s) |-> t[s[k]].fname]

\* A node in use has a name and is in the root or in a directory in use.
Ubicado(t) ==
  \A i \in Nodo : t[i].state # 0 =>
    /\ t[i].fname \in Nombre
    /\ \/ t[i].parent_dir_block = 0
       \/ \E j \in Nodo : /\ t[i].parent_dir_block = j + bloqueInicioTablaDeNodos
                          /\ t[j].state = 2
\* No directory has a name twice.
Unicos(t) ==
  \A i, j \in Nodo :
    /\ t[i].state # 0 /\ t[j].state # 0 /\ t[i].fname = t[j].fname
    /\ t[i].parent_dir_block = t[j].parent_dir_block
    => i = j
\* A way goes down to each node in use.
Cuelgan(t) ==
  \A i \in Nodo : t[i].state # 0 => \E s : EsRastro(t, s) /\ s[Len(s)] = i

Tabla(t) == t \in [Nodo -> GFile] /\ Ubicado(t) /\ Unicos(t) /\ Cuelgan(t)

-----------------------------------------------------------------------------
(* Ways down                                                               *)

\* Every non-empty set of naturals has a least element.
LEMMA MinExiste ==
  ASSUME NEW S \in SUBSET Nat, S # {}
  PROVE  \E x \in S : \A y \in S : x <= y
<1> DEFINE R == OpToRel(<, Nat)
<1>0. S \subseteq Nat OBVIOUS
<1>1. \A x, y \in Nat : y < x => <<y, x>> \in R BY DEF OpToRel
<1>2. IsWellFoundedOn(R, Nat) BY NatLessThanWellFounded
<1> HIDE DEF R
<1>3. PICK x \in S : \A y \in S : ~ (<<y, x>> \in R) BY <1>0, <1>2, WFMin
<1>4. ASSUME NEW y \in S PROVE x <= y
  <2>1. x \in Nat /\ y \in Nat BY <1>0
  <2>2. ~ (y < x) BY <1>1, <1>3, <2>1
  <2>3. QED BY <2>1, <2>2
<1>5. QED BY <1>4

LEMMA MinEsta ==
  ASSUME NEW S \in SUBSET Nat, S # {}
  PROVE  Min(S) \in S
<1>1. \E x \in S : \A y \in S : x <= y BY MinExiste
<1>2. QED BY <1>1 DEF Min

LEMMA NodoProps ==
  /\ Nodo \subseteq Nat
  /\ IsFiniteSet(Nodo) /\ Cardinality(Nodo) = MAX_NUMBER_OF_FILES
  /\ bloqueInicioTablaDeNodos \in Nat /\ bloqueInicioTablaDeNodos >= 2
  /\ MAX_NUMBER_OF_FILES \in Nat \ {0}
<1> USE ArbolAssumption
<1>1. MAX_NUMBER_OF_FILES \in Nat \ {0} BY DEF ArbolAssumption
<1>2. bloqueInicioTablaDeNodos \in Nat /\ bloqueInicioTablaDeNodos >= 2
  BY DEF ArbolAssumption
<1>3. /\ IsFiniteSet(0 .. (MAX_NUMBER_OF_FILES - 1))
      /\ Cardinality(0 .. (MAX_NUMBER_OF_FILES - 1)) =
           IF 0 > MAX_NUMBER_OF_FILES - 1 THEN 0 ELSE MAX_NUMBER_OF_FILES - 1 - 0 + 1
  <2>1. 0 \in Int /\ MAX_NUMBER_OF_FILES - 1 \in Int BY <1>1
  <2>2. QED BY <2>1, FS_Interval
<1>4. QED BY <1>1, <1>2, <1>3 DEF Nodo

LEMMA RastroTipo ==
  ASSUME NEW t, NEW s, EsRastro(t, s)
  PROVE  /\ Len(s) \in Nat /\ Len(s) >= 1
         /\ \A k \in 1 .. Len(s) : s[k] \in Nodo /\ s[k] \in Nat
<1>1. s \in Seq(Nodo) /\ s # <<>> BY DEF EsRastro
<1>2. Len(s) \in Nat \ {0} BY <1>1, EmptySeq
<1>3. \A k \in 1 .. Len(s) : s[k] \in Nodo BY <1>1, ElementOfSeq
<1>4. Nodo \subseteq Nat BY NodoProps
<1>5. \A k \in 1 .. Len(s) : s[k] \in Nodo /\ s[k] \in Nat BY <1>3, <1>4
<1>6. Len(s) \in Nat /\ Len(s) >= 1 BY <1>2
<1>7. QED BY <1>5, <1>6

\* A sequence given by its elements.
LEMMA SeqDe ==
  ASSUME NEW S, NEW n \in Nat, NEW s \in [1 .. n -> S]
  PROVE  /\ s \in Seq(S)
         /\ Len(s) = n
<1>1. s \in Seq(S) BY SeqDef
<1>2. DOMAIN s = 1 .. Len(s) /\ Len(s) \in Nat BY <1>1, LenProperties
<1>3. 1 .. n = 1 .. Len(s) BY <1>2
<1>4. Len(s) = n BY <1>2, <1>3
<1>5. QED BY <1>1, <1>4

\* The beginning of a way is a way.
LEMMA RastroTramo ==
  ASSUME NEW t, NEW s, EsRastro(t, s), NEW n \in 1 .. Len(s)
  PROVE  \E r : /\ EsRastro(t, r) /\ Len(r) = n
                /\ \A k \in 1 .. n : r[k] = s[k]
<1> DEFINE r == [k \in 1 .. n |-> s[k]]
<1>1. Len(s) \in Nat /\ n \in Nat /\ n >= 1 /\ n <= Len(s)
      /\ \A k \in 1 .. Len(s) : s[k] \in Nodo
  BY RastroTipo
<1>2. r \in [1 .. n -> Nodo] BY <1>1
<1>3. \A k \in 1 .. n : r[k] = s[k] OBVIOUS
<1> HIDE DEF r
<1>4. r \in Seq(Nodo) /\ Len(r) = n BY <1>1, <1>2, SeqDe
<1>5. r # <<>> BY <1>1, <1>4, EmptySeq
<1>6. \A k \in 1 .. n : t[r[k]].state # 0 BY <1>1, <1>3 DEF EsRastro
<1>7. t[r[1]].parent_dir_block = 0 BY <1>1, <1>3 DEF EsRastro
<1>8. ASSUME NEW k \in 1 .. (n - 1)
      PROVE  t[r[k + 1]].parent_dir_block = r[k] + bloqueInicioTablaDeNodos
  <2>1. k \in 1 .. n /\ k + 1 \in 1 .. n /\ k \in 1 .. (Len(s) - 1) BY <1>1
  <2>2. QED BY <1>3, <2>1 DEF EsRastro
<1>9. EsRastro(t, r) BY <1>4, <1>5, <1>6, <1>7, <1>8 DEF EsRastro
<1>10. QED BY <1>3, <1>4, <1>9

\* Only one way goes down to a node.
LEMMA RastroUnico ==
  ASSUME NEW t, NEW s, NEW r, EsRastro(t, s), EsRastro(t, r), s[Len(s)] = r[Len(r)]
  PROVE  s = r
<1> DEFINE Dos(u, v) == /\ EsRastro(t, u) /\ EsRastro(t, v)
                        /\ u[Len(u)] = v[Len(v)] /\ u # v
           S == {n \in Nat : \E u, v : Dos(u, v) /\ Len(u) = n}
<1>1. SUFFICES ASSUME S # {} PROVE FALSE
  <2>1. Len(s) \in Nat BY RastroTipo
  <2>2. s # r => Len(s) \in S BY <2>1
  <2>3. QED BY <2>2
<1>2. PICK n \in S : \A y \in S : n <= y
  <2>1. S \subseteq Nat OBVIOUS
  <2> HIDE DEF S
  <2>2. QED BY <1>1, <2>1, MinExiste
<1>3. PICK u, v : Dos(u, v) /\ Len(u) = n BY <1>2
<1>m. PICK m : m = Len(v) OBVIOUS
<1>4. /\ n \in Nat /\ n >= 1 /\ m \in Nat /\ m >= 1
      /\ \A k \in 1 .. n : u[k] \in Nat
      /\ \A k \in 1 .. m : v[k] \in Nat
  BY <1>3, <1>m, RastroTipo
<1>5. u \in Seq(Nodo) /\ v \in Seq(Nodo) /\ Len(u) = n /\ Len(v) = m BY <1>3, <1>m DEF EsRastro
<1>6. /\ u[n] = v[m]
      /\ t[u[1]].parent_dir_block = 0 /\ t[v[1]].parent_dir_block = 0
      /\ \A k \in 1 .. (n - 1) : t[u[k + 1]].parent_dir_block = u[k] + bloqueInicioTablaDeNodos
      /\ \A k \in 1 .. (m - 1) : t[v[k + 1]].parent_dir_block = v[k] + bloqueInicioTablaDeNodos
  BY <1>3, <1>m DEF EsRastro
<1>7. bloqueInicioTablaDeNodos \in Nat /\ bloqueInicioTablaDeNodos >= 2 BY NodoProps
<1>8. ASSUME n > 1 PROVE t[u[n]].parent_dir_block = u[n - 1] + bloqueInicioTablaDeNodos
                         /\ t[u[n]].parent_dir_block # 0
  <2>1. n - 1 \in 1 .. (n - 1) /\ n - 1 \in 1 .. n /\ (n - 1) + 1 = n BY <1>4, <1>8
  <2>2. t[u[n]].parent_dir_block = u[n - 1] + bloqueInicioTablaDeNodos BY <1>6, <2>1
  <2>3. u[n - 1] \in Nat BY <1>4, <2>1
  <2>4. QED BY <2>2, <2>3, <1>7
<1>9. ASSUME m > 1 PROVE t[v[m]].parent_dir_block = v[m - 1] + bloqueInicioTablaDeNodos
                         /\ t[v[m]].parent_dir_block # 0
  <2>1. m - 1 \in 1 .. (m - 1) /\ m - 1 \in 1 .. m /\ (m - 1) + 1 = m BY <1>4, <1>9
  <2>2. t[v[m]].parent_dir_block = v[m - 1] + bloqueInicioTablaDeNodos BY <1>6, <2>1
  <2>3. v[m - 1] \in Nat BY <1>4, <2>1
  <2>4. QED BY <2>2, <2>3, <1>7
<1>10. n = 1 <=> m = 1
  <2>1. n = 1 => t[u[n]].parent_dir_block = 0 BY <1>6
  <2>2. m = 1 => t[v[m]].parent_dir_block = 0 BY <1>6
  <2>3. n > 1 => m > 1
    <3>1. ASSUME n > 1, ~ (m > 1) PROVE FALSE
      <4>1. m = 1 BY <1>4, <3>1
      <4>2. t[u[n]].parent_dir_block # 0 BY <1>8, <3>1
      <4>3. QED BY <4>1, <4>2, <2>2, <1>6
    <3>2. QED BY <3>1
  <2>4. m > 1 => n > 1
    <3>1. ASSUME m > 1, ~ (n > 1) PROVE FALSE
      <4>1. n = 1 BY <1>4, <3>1
      <4>2. t[v[m]].parent_dir_block # 0 BY <1>9, <3>1
      <4>3. QED BY <4>1, <4>2, <2>1, <1>6
    <3>2. QED BY <3>1
  <2>5. QED BY ONLY <2>3, <2>4, <1>4
<1>11. CASE n = 1
  <2>1. m = 1 BY <1>10, <1>11
  <2>2. u = v
    <3>1. \A k \in 1 .. Len(u) : u[k] = v[k] BY <1>5, <1>6, <1>11, <2>1
    <3>2. Len(u) = Len(v) BY <1>5, <1>11, <2>1
    <3>3. QED BY <1>5, <3>1, <3>2, SeqEqual
  <2>3. QED BY <2>2, <1>3
<1>12. CASE n # 1
  <2>1. n > 1 /\ m > 1 BY ONLY <1>4, <1>10, <1>12
  <2>2. n - 1 \in 1 .. n /\ m - 1 \in 1 .. m BY <1>4, <2>1
  <2>3. u[n - 1] = v[m - 1]
    <3>1. u[n - 1] + bloqueInicioTablaDeNodos = v[m - 1] + bloqueInicioTablaDeNodos
      BY <1>6, <1>8, <1>9, <2>1
    <3>2. u[n - 1] \in Nat /\ v[m - 1] \in Nat BY <1>4, <2>2
    <3>3. QED BY <3>1, <3>2, <1>7
  <2>d. EsRastro(t, u) /\ EsRastro(t, v) BY <1>3
  <2>n. n - 1 \in 1 .. Len(u) /\ m - 1 \in 1 .. Len(v)
    <3>1. n - 1 \in 1 .. n /\ m - 1 \in 1 .. m BY ONLY <1>4, <2>1
    <3>2. QED BY <3>1, <1>5
  <2> HIDE DEF S, Dos
  <2>4. PICK a : EsRastro(t, a) /\ Len(a) = n - 1 /\ \A k \in 1 .. (n - 1) : a[k] = u[k]
    BY ONLY <2>d, <2>n, RastroTramo
  <2>5. PICK b : EsRastro(t, b) /\ Len(b) = m - 1 /\ \A k \in 1 .. (m - 1) : b[k] = v[k]
    BY ONLY SMTT(60), <2>d, <2>n, RastroTramo
  <2>6. a[Len(a)] = b[Len(b)]
    <3>1. n - 1 \in 1 .. (n - 1) /\ m - 1 \in 1 .. (m - 1) BY <1>4, <2>1
    <3>2. QED BY <2>3, <2>4, <2>5, <3>1
  <2>7. a = b
    <3>1. SUFFICES ASSUME a # b PROVE FALSE OBVIOUS
    <3>2. Dos(a, b) BY <2>4, <2>5, <2>6, <3>1 DEF Dos
    <3>3. n - 1 \in Nat BY <1>4, <2>1
    <3>4. n - 1 \in S BY <3>2, <3>3, <2>4 DEF S
    <3>5. n <= n - 1 BY <1>2, <3>4
    <3>6. QED BY <3>5, <1>4
  <2>8. n = m BY <2>4, <2>5, <2>7, <1>4
  <2>9. \A k \in 1 .. n : u[k] = v[k]
    <3>1. \A k \in 1 .. (n - 1) : u[k] = v[k] BY <2>4, <2>5, <2>7, <2>8
    <3>2. QED BY <3>1, <1>4, <1>6, <2>8
  <2>10. u = v
    <3>1. Len(u) = Len(v) BY <1>5, <2>8
    <3>2. \A k \in 1 .. Len(u) : u[k] = v[k] BY <2>9, <1>5
    <3>3. QED BY <1>5, <3>1, <3>2, SeqEqual
  <2>11. QED BY <2>10, <1>3 DEF Dos
<1>13. QED BY <1>11, <1>12

\* The nodes of a way are different, so no way is longer than the table.
LEMMA RastroCorto ==
  ASSUME NEW t, NEW s, EsRastro(t, s)
  PROVE  /\ \A j, k \in 1 .. Len(s) : s[j] = s[k] => j = k
         /\ Len(s) <= MAX_NUMBER_OF_FILES
<1>1. ASSUME NEW j \in 1 .. Len(s), NEW k \in 1 .. Len(s), s[j] = s[k]
      PROVE  j = k
  <2>1. j \in Nat /\ k \in Nat /\ j \in 1 .. j /\ k \in 1 .. k BY RastroTipo
  <2>2. PICK a : EsRastro(t, a) /\ Len(a) = j /\ \A i \in 1 .. j : a[i] = s[i]
    BY RastroTramo
  <2>3. PICK b : EsRastro(t, b) /\ Len(b) = k /\ \A i \in 1 .. k : b[i] = s[i]
    BY RastroTramo
  <2>4. a[Len(a)] = b[Len(b)] BY <1>1, <2>1, <2>2, <2>3
  <2>5. a = b BY <2>2, <2>3, <2>4, RastroUnico
  <2>6. QED BY <2>2, <2>3, <2>5
<1>2. Len(s) \in Nat /\ s \in Seq(Nodo) BY RastroTipo DEF EsRastro
<1>3. s \in [1 .. Len(s) -> Nodo] BY <1>2, LenProperties
<1>4. s \in Injection(1 .. Len(s), Nodo) BY <1>1, <1>3 DEF Injection, IsInjective
<1>5. IsFiniteSet(Nodo) /\ Cardinality(Nodo) = MAX_NUMBER_OF_FILES BY NodoProps
<1>6. Cardinality(1 .. Len(s)) <= Cardinality(Nodo) BY <1>4, <1>5, FS_Injection
<1>7. Cardinality(1 .. Len(s)) = Len(s)
  <2>1. Cardinality(1 .. Len(s)) = IF 1 > Len(s) THEN 0 ELSE Len(s) - 1 + 1
    BY <1>2, FS_Interval
  <2>2. Len(s) >= 1 BY RastroTipo
  <2>3. QED BY <2>1, <2>2, <1>2
<1>8. QED BY <1>1, <1>5, <1>6, <1>7

\* A way of one node, and one of one node more.
LEMMA RastroRaiz ==
  ASSUME NEW t, NEW i \in Nodo, t[i].state # 0, t[i].parent_dir_block = 0
  PROVE  EsRastro(t, <<i>>)
<1>1. <<i>> \in Seq(Nodo) /\ <<i>> # <<>> /\ Len(<<i>>) = 1 /\ <<i>>[1] = i OBVIOUS
<1> DEFINE s == <<i>>
<1>2. s \in Seq(Nodo) /\ s # <<>> /\ Len(s) = 1 /\ s[1] = i BY <1>1
<1> HIDE DEF s
<1>3. EsRastro(t, s)
  <2>1. \A k \in 1 .. Len(s) : k = 1 BY <1>2
  <2>2. \A k \in 1 .. Len(s) : t[s[k]].state # 0 BY <2>1, <1>2
  <2>3. \A k \in 1 .. (Len(s) - 1) :
          t[s[k + 1]].parent_dir_block = s[k] + bloqueInicioTablaDeNodos BY <1>2
  <2>4. QED BY <1>2, <2>2, <2>3 DEF EsRastro
<1>4. QED BY <1>3 DEF s

LEMMA RastroSigue ==
  ASSUME NEW t, NEW s, EsRastro(t, s), NEW i \in Nodo, t[i].state # 0,
         t[i].parent_dir_block = s[Len(s)] + bloqueInicioTablaDeNodos
  PROVE  /\ EsRastro(t, Append(s, i))
         /\ Len(Append(s, i)) = Len(s) + 1
         /\ Append(s, i)[Len(s) + 1] = i
         /\ \A k \in 1 .. Len(s) : Append(s, i)[k] = s[k]
<1> DEFINE r == Append(s, i)
           n == Len(s)
<1>1. s \in Seq(Nodo) /\ n \in Nat /\ n >= 1 BY RastroTipo DEF EsRastro
<1>2. /\ r \in Seq(Nodo) /\ r # <<>> /\ Len(r) = n + 1
      /\ \A k \in 1 .. n : r[k] = s[k]
      /\ r[n + 1] = i
  BY <1>1, AppendProperties
<1>3. /\ \A k \in 1 .. n : t[s[k]].state # 0
      /\ t[s[1]].parent_dir_block = 0
      /\ \A k \in 1 .. (n - 1) : t[s[k + 1]].parent_dir_block = s[k] + bloqueInicioTablaDeNodos
      /\ t[i].parent_dir_block = s[n] + bloqueInicioTablaDeNodos
  BY DEF EsRastro
<1> HIDE DEF r, n
<1>4. ASSUME NEW k \in 1 .. Len(r) PROVE t[r[k]].state # 0
  <2>1. CASE k \in 1 .. n BY <2>1, <1>2, <1>3
  <2>2. CASE k = n + 1 BY <2>2, <1>2
  <2>3. QED BY <2>1, <2>2, <1>1, <1>2
<1>5. t[r[1]].parent_dir_block = 0 BY <1>1, <1>2, <1>3
<1>6. ASSUME NEW k \in 1 .. (Len(r) - 1)
      PROVE  t[r[k + 1]].parent_dir_block = r[k] + bloqueInicioTablaDeNodos
  <2>1. k \in 1 .. n BY <1>1, <1>2
  <2>2. CASE k = n BY <2>1, <2>2, <1>2, <1>3
  <2>3. CASE k # n
    <3>1. k \in 1 .. (n - 1) /\ k + 1 \in 1 .. n BY <1>1, <2>1, <2>3
    <3>2. QED BY <3>1, <2>1, <1>2, <1>3
  <2>4. QED BY <2>2, <2>3
<1>7. EsRastro(t, r) BY <1>2, <1>4, <1>5, <1>6 DEF EsRastro
<1>8. QED BY <1>2, <1>7 DEF r, n

\* The inner nodes of a way are directories.
LEMMA RastroCarpetas ==
  ASSUME NEW t, Ubicado(t), NEW s, EsRastro(t, s), NEW k \in 1 .. (Len(s) - 1)
  PROVE  t[s[k]].state = 2
<1>1. k \in 1 .. Len(s) /\ k + 1 \in 1 .. Len(s) BY RastroTipo
<1>2. s[k] \in Nat /\ s[k + 1] \in Nodo BY <1>1, RastroTipo
<1>3. t[s[k + 1]].state # 0 BY <1>1 DEF EsRastro
<1>4. t[s[k + 1]].parent_dir_block = s[k] + bloqueInicioTablaDeNodos BY DEF EsRastro
<1>5. bloqueInicioTablaDeNodos \in Nat /\ bloqueInicioTablaDeNodos >= 2 /\ Nodo \subseteq Nat
  BY NodoProps
<1>6. t[s[k + 1]].parent_dir_block # 0 BY <1>2, <1>4, <1>5
<1>7. PICK j \in Nodo : /\ t[s[k + 1]].parent_dir_block = j + bloqueInicioTablaDeNodos
                        /\ t[j].state = 2
  BY <1>2, <1>3, <1>6 DEF Ubicado
<1>8. j = s[k]
  <2>1. j \in Nat BY <1>5
  <2>2. QED BY <2>1, <1>2, <1>4, <1>5, <1>7
<1>9. QED BY <1>7, <1>8

\* The ways of a length, and the recursion of Rastros, which goes from one length to
\* the next.
Nivel(k) == {s \in Seq(Nodo) : EsRastro(tablaDeNodos, s) /\ Len(s) = k}
Alarga(X, k) ==
  UNION {{Append(s, i) : i \in Hijos(s[k - 1] + bloqueInicioTablaDeNodos)} :
          s \in {r \in X : tablaDeNodos[r[k - 1]].state = 2}}
EsBajada(f) ==
  f = [k \in 1 .. MAX_NUMBER_OF_FILES |->
        IF k = 1 THEN {<<i>> : i \in Hijos(0)} ELSE Alarga(f[k - 1], k)]

LEMMA NivelUno == Nivel(1) = {<<i>> : i \in Hijos(0)}
<1>1. ASSUME NEW i \in Hijos(0) PROVE <<i>> \in Nivel(1)
  <2>1. /\ i \in Nodo /\ tablaDeNodos[i].state # 0
        /\ tablaDeNodos[i].parent_dir_block = 0
    BY DEF Hijos, Vivo
  <2>2. EsRastro(tablaDeNodos, <<i>>) BY <2>1, RastroRaiz
  <2>3. QED BY <2>1, <2>2 DEF Nivel
<1>2. ASSUME NEW s \in Nivel(1) PROVE \E i \in Hijos(0) : s = <<i>>
  <2>1. EsRastro(tablaDeNodos, s) /\ Len(s) = 1 /\ s \in Seq(Nodo) BY DEF Nivel
  <2>2. s[1] \in Nodo BY <2>1, RastroTipo
  <2>3. s[1] \in Hijos(0) BY <2>1, <2>2 DEF EsRastro, Hijos, Vivo
  <2>4. s = <<s[1]>> BY <2>1, <2>2
  <2>5. QED BY <2>3, <2>4
<1>3. QED BY <1>1, <1>2

LEMMA NivelSigue ==
  ASSUME Ubicado(tablaDeNodos), NEW k \in Nat, k > 1
  PROVE  Nivel(k) = Alarga(Nivel(k - 1), k)
<1>1. ASSUME NEW x \in Alarga(Nivel(k - 1), k) PROVE x \in Nivel(k)
  <2>1. PICK s \in Nivel(k - 1) : \E i \in Hijos(s[k - 1] + bloqueInicioTablaDeNodos) :
                                    x = Append(s, i)
    BY DEF Alarga
  <2>2. PICK i \in Hijos(s[k - 1] + bloqueInicioTablaDeNodos) : x = Append(s, i)
    BY <2>1
  <2>3. EsRastro(tablaDeNodos, s) /\ Len(s) = k - 1 BY DEF Nivel
  <2>4. /\ i \in Nodo /\ tablaDeNodos[i].state # 0
        /\ tablaDeNodos[i].parent_dir_block = s[Len(s)] + bloqueInicioTablaDeNodos
    BY <2>3 DEF Hijos, Vivo
  <2>5. /\ EsRastro(tablaDeNodos, x)
        /\ Len(x) = Len(s) + 1
    BY <2>2, <2>3, <2>4, RastroSigue
  <2>6. Len(x) = k BY <2>3, <2>5
  <2>7. x \in Seq(Nodo) BY <2>5 DEF EsRastro
  <2>8. QED BY <2>5, <2>6, <2>7 DEF Nivel
<1>2. ASSUME NEW x \in Nivel(k) PROVE x \in Alarga(Nivel(k - 1), k)
  <2>1. x \in Seq(Nodo) /\ EsRastro(tablaDeNodos, x) /\ Len(x) = k BY DEF Nivel
  <2>2. /\ k - 1 \in 1 .. Len(x) /\ k - 1 \in 1 .. (Len(x) - 1)
        /\ k - 1 \in 1 .. (k - 1) /\ (k - 1) + 1 = k
    BY <2>1
  <2> DEFINE h == k - 1
  <2> HIDE DEF h
  <2>3. PICK s : /\ EsRastro(tablaDeNodos, s) /\ Len(s) = h
                 /\ \A j \in 1 .. h : s[j] = x[j]
    <3>1. h \in 1 .. Len(x) BY <2>2 DEF h
    <3>2. EsRastro(tablaDeNodos, x) BY <2>1
    <3>3. QED BY ONLY <3>1, <3>2, RastroTramo
  <2>4. tablaDeNodos[x[h]].state = 2
    <3>1. h \in 1 .. (Len(x) - 1) BY <2>2 DEF h
    <3>2. QED BY <3>1, <2>1, RastroCarpetas
  <2>5. s[h] = x[h]
    <3>1. h \in 1 .. h BY <2>2 DEF h
    <3>2. QED BY <3>1, <2>3
  <2>6. s \in Nivel(h) BY <2>3 DEF Nivel, EsRastro
  <2> DEFINE i == x[k]
  <2>7. i \in Hijos(x[h] + bloqueInicioTablaDeNodos)
    <3>1. k \in 1 .. Len(x) BY <2>1
    <3>2. i \in Nodo BY <2>1, <3>1, RastroTipo
    <3>3. tablaDeNodos[i].state # 0 BY <2>1, <3>1 DEF EsRastro
    <3>4. tablaDeNodos[x[h + 1]].parent_dir_block = x[h] + bloqueInicioTablaDeNodos
      <4>1. h \in 1 .. (Len(x) - 1) BY <2>2 DEF h
      <4>2. QED BY <4>1, <2>1 DEF EsRastro
    <3>5. h + 1 = k BY <2>2 DEF h
    <3>6. QED BY <3>2, <3>3, <3>4, <3>5 DEF Hijos, Vivo
  <2>8. x = Append(s, i)
    <3>1. i \in Nodo BY <2>7 DEF Hijos
    <3>2. s \in Seq(Nodo) /\ h + 1 = k BY <2>2, <2>3 DEF EsRastro, h
    <3>3. /\ Append(s, i) \in Seq(Nodo)
          /\ Len(Append(s, i)) = h + 1
          /\ \A j \in 1 .. h : Append(s, i)[j] = s[j]
          /\ Append(s, i)[h + 1] = i
      BY <3>1, <3>2, <2>3, AppendProperties
    <3>4. h \in Nat BY DEF h
    <3> HIDE DEF i
    <3>5. \A j \in 1 .. Len(x) : x[j] = Append(s, i)[j]
      <4>1. x[h + 1] = i BY <3>2 DEF i
      <4>2. ASSUME NEW j \in 1 .. Len(x) PROVE x[j] = Append(s, i)[j]
        <5>1. CASE j \in 1 .. h BY <5>1, <3>3, <2>3
        <5>2. CASE j = h + 1 BY <5>2, <3>3, <4>1
        <5>3. j \in 1 .. h \/ j = h + 1
          <6>1. Len(x) = h + 1 BY <2>1, <3>2
          <6>2. j \in 1 .. (h + 1) BY <6>1
          <6>3. QED BY ONLY <6>2, <3>4
        <5>4. QED BY <5>1, <5>2, <5>3
      <4>3. QED BY <4>2
    <3>6. Len(x) = Len(Append(s, i)) BY <2>1, <3>2, <3>3
    <3>7. QED BY <2>1, <3>3, <3>5, <3>6, SeqEqual
  <2>9. QED BY <2>4, <2>5, <2>6, <2>7, <2>8 DEF Alarga, h
<1>3. QED BY <1>1, <1>2

\* Rastros is the set of all the ways.
LEMMA RastrosSon ==
  ASSUME Ubicado(tablaDeNodos)
  PROVE  \A s : s \in Rastros <=> EsRastro(tablaDeNodos, s)
<1> DEFINE M == MAX_NUMBER_OF_FILES
           g == [k \in 1 .. M |-> Nivel(k)]
<1>1. M \in Nat \ {0} BY NodoProps
<1>2. ASSUME NEW k \in 1 .. M
      PROVE  g[k] = IF k = 1 THEN {<<i>> : i \in Hijos(0)} ELSE Alarga(g[k - 1], k)
  <2>1. CASE k = 1 BY <2>1, NivelUno
  <2>2. CASE k # 1
    <3>1. k \in Nat /\ k > 1 /\ k - 1 \in 1 .. M BY <2>2, <1>1
    <3>2. Nivel(k) = Alarga(Nivel(k - 1), k) BY <3>1, NivelSigue
    <3>3. g[k] = Nivel(k) /\ g[k - 1] = Nivel(k - 1) BY <3>1
    <3>4. QED BY <3>2, <3>3, <2>2
  <2>3. QED BY <2>1, <2>2
<1>3. g = [k \in 1 .. M |-> g[k]] OBVIOUS
<1>4. EsBajada(g)
  <2> HIDE DEF g
  <2>1. QED BY <1>2, <1>3 DEF EsBajada
<1> DEFINE f == CHOOSE h : EsBajada(h)
<1>5. EsBajada(f) BY <1>4
<1>6. Rastros = UNION {f[k] : k \in 1 .. M}
  BY DEF Rastros, EsBajada, Alarga
<1> HIDE DEF f
<1>7. \A k \in 1 .. M : f[k] = Nivel(k)
  <2> DEFINE S == {k \in 1 .. M : f[k] # Nivel(k)}
  <2>1. SUFFICES ASSUME S # {} PROVE FALSE OBVIOUS
  <2>2. PICK k \in S : \A y \in S : k <= y
    <3>1. S \subseteq Nat OBVIOUS
    <3> HIDE DEF S
    <3>2. QED BY <2>1, <3>1, MinExiste
  <2>3. k \in 1 .. M /\ k \in Nat /\ f[k] # Nivel(k) BY <2>2
  <2>4. f[k] = IF k = 1 THEN {<<i>> : i \in Hijos(0)} ELSE Alarga(f[k - 1], k)
    BY <1>5, <2>3 DEF EsBajada
  <2>5. CASE k = 1 BY <2>3, <2>4, <2>5, NivelUno
  <2>6. CASE k # 1
    <3>1. k > 1 /\ k - 1 \in 1 .. M /\ ~ (k <= k - 1) BY <1>1, <2>3, <2>6
    <3>2. k - 1 \notin S BY <2>2, <3>1
    <3>3. f[k - 1] = Nivel(k - 1) BY <3>1, <3>2
    <3>4. Nivel(k) = Alarga(Nivel(k - 1), k) BY <2>3, <3>1, NivelSigue
    <3>5. QED BY <2>3, <2>4, <2>6, <3>3, <3>4
  <2>7. QED BY <2>5, <2>6
<1>8. ASSUME NEW s PROVE s \in Rastros <=> EsRastro(tablaDeNodos, s)
  <2>1. ASSUME s \in Rastros PROVE EsRastro(tablaDeNodos, s)
    <3>1. PICK k \in 1 .. M : s \in f[k] BY <1>6, <2>1
    <3>2. s \in Nivel(k) BY <1>7, <3>1
    <3>3. QED BY <3>2 DEF Nivel
  <2>2. ASSUME EsRastro(tablaDeNodos, s) PROVE s \in Rastros
    <3>1. Len(s) \in 1 .. M BY <2>2, <1>1, RastroTipo, RastroCorto
    <3>2. s \in Nivel(Len(s)) BY <2>2 DEF Nivel, EsRastro
    <3>3. s \in f[Len(s)] BY <1>7, <3>1, <3>2
    <3>4. QED BY <1>6, <3>1, <3>3
  <2>3. QED BY <2>1, <2>2
<1>9. QED BY <1>8

-----------------------------------------------------------------------------
(* Looking up                                                              *)

LEMMA BuscarProps ==
  ASSUME Ubicado(tablaDeNodos), Unicos(tablaDeNodos)
  PROVE  /\ \A i \in Nodo : tablaDeNodos[i].state # 0 =>
              buscar_nodo_por_nombre(tablaDeNodos[i].fname,
                                     tablaDeNodos[i].parent_dir_block) = i
         /\ \A x, b : \/ buscar_nodo_por_nombre(x, b) = -1
                      \/ \E i \in Nodo : /\ buscar_nodo_por_nombre(x, b) = i
                                         /\ tablaDeNodos[i].state # 0
                                         /\ tablaDeNodos[i].fname = x
                                         /\ tablaDeNodos[i].parent_dir_block = b
<1> DEFINE C(x, b) == {i \in Nodo : /\ Vivo(i) /\ tablaDeNodos[i].fname = x
                                    /\ tablaDeNodos[i].parent_dir_block = b}
<1>1. \A x, b : buscar_nodo_por_nombre(x, b) = IF C(x, b) = {} THEN -1 ELSE Min(C(x, b))
  BY DEF buscar_nodo_por_nombre
<1>2. \A x, b, i : i \in C(x, b) <=> /\ i \in Nodo /\ tablaDeNodos[i].state # 0
                                     /\ tablaDeNodos[i].fname = x
                                     /\ tablaDeNodos[i].parent_dir_block = b
  BY DEF Vivo
<1>3. \A x, b : C(x, b) \in SUBSET Nat BY NodoProps
<1> HIDE DEF C
<1>4. ASSUME NEW x, NEW b, C(x, b) # {} PROVE Min(C(x, b)) \in C(x, b)
  BY <1>3, <1>4, MinEsta
<1>5. ASSUME NEW i \in Nodo, tablaDeNodos[i].state # 0
      PROVE  buscar_nodo_por_nombre(tablaDeNodos[i].fname,
                                    tablaDeNodos[i].parent_dir_block) = i
  <2> DEFINE x == tablaDeNodos[i].fname
             b == tablaDeNodos[i].parent_dir_block
  <2>1. i \in C(x, b) BY <1>2, <1>5
  <2>2. Min(C(x, b)) \in C(x, b) BY <2>1, <1>4
  <2>3. buscar_nodo_por_nombre(x, b) = Min(C(x, b)) BY <2>1, <1>1
  <2>4. \A j \in C(x, b) : j = i
    <3>1. ASSUME NEW j \in C(x, b) PROVE j = i
      <4>1. /\ j \in Nodo /\ tablaDeNodos[j].state # 0 /\ tablaDeNodos[j].fname = x
            /\ tablaDeNodos[j].parent_dir_block = b
        BY <1>2
      <4>2. QED BY <4>1, <1>5 DEF Unicos
    <3>2. QED BY <3>1
  <2>5. QED BY <2>2, <2>3, <2>4
<1>6. ASSUME NEW x, NEW b
      PROVE  \/ buscar_nodo_por_nombre(x, b) = -1
             \/ \E i \in Nodo : /\ buscar_nodo_por_nombre(x, b) = i
                                /\ tablaDeNodos[i].state # 0
                                /\ tablaDeNodos[i].fname = x
                                /\ tablaDeNodos[i].parent_dir_block = b
  <2>1. CASE C(x, b) = {} BY <2>1, <1>1
  <2>2. CASE C(x, b) # {}
    <3>1. buscar_nodo_por_nombre(x, b) \in C(x, b) BY <2>2, <1>1, <1>4
    <3>2. QED BY <3>1, <1>2
  <2>3. QED BY <2>1, <2>2
<1>7. QED BY <1>5, <1>6

\* No node is in a directory that is not one.
LEMMA BuscarNada ==
  ASSUME Ubicado(tablaDeNodos), Unicos(tablaDeNodos), NEW x
  PROVE  /\ buscar_nodo_por_nombre(x, -1) = -1
         /\ buscar_nodo_por_nombre(x, bloqueInicioTablaDeNodos - 1) = -1
<1>1. /\ Nodo \subseteq Nat /\ bloqueInicioTablaDeNodos \in Nat
      /\ bloqueInicioTablaDeNodos >= 2
  BY NodoProps
<1>2. ASSUME NEW b \in Int, b < bloqueInicioTablaDeNodos, b # 0
      PROVE  buscar_nodo_por_nombre(x, b) = -1
  <2>1. SUFFICES ASSUME NEW i \in Nodo, tablaDeNodos[i].state # 0,
                        tablaDeNodos[i].parent_dir_block = b
                 PROVE  FALSE
    BY BuscarProps
  <2>2. PICK j \in Nodo : b = j + bloqueInicioTablaDeNodos BY <1>2, <2>1 DEF Ubicado
  <2>3. j \in Nat BY <1>1
  <2>4. QED BY <2>2, <2>3, <1>1, <1>2
<1>3. -1 \in Int /\ -1 < bloqueInicioTablaDeNodos /\ -1 # 0 BY <1>1
<1>4. /\ bloqueInicioTablaDeNodos - 1 \in Int /\ bloqueInicioTablaDeNodos - 1 # 0
      /\ bloqueInicioTablaDeNodos - 1 < bloqueInicioTablaDeNodos
  BY <1>1
<1>5. QED BY <1>2, <1>3, <1>4

\* The recursion of determine_nodo: from the directory in block b down to the k-th name.
Desciende(p, k, b) ==
  LET i == buscar_nodo_por_nombre(p[k], b)
  IN  IF k > 1 /\ (b = -1 \/ i = -1) THEN -1 ELSE i + bloqueInicioTablaDeNodos
EsBusqueda(f, p, n) ==
  f = [k \in 0 .. n |-> IF k = 0 THEN 0 ELSE Desciende(p, k, f[k - 1])]

LEMMA BusquedaExiste ==
  ASSUME NEW p, NEW n \in Nat
  PROVE  \E f : EsBusqueda(f, p, n)
<1> DEFINE S == {m \in Nat : ~ \E f : EsBusqueda(f, p, m)}
<1>1. SUFFICES ASSUME S # {} PROVE FALSE OBVIOUS
<1>2. PICK m \in S : \A y \in S : m <= y
  <2>1. S \subseteq Nat OBVIOUS
  <2> HIDE DEF S
  <2>2. QED BY <1>1, <2>1, MinExiste
<1>3. m \in Nat /\ \A y \in Nat : y < m => y \notin S BY <1>2
<1>4. CASE m = 0
  <2> DEFINE f == [k \in 0 .. 0 |-> 0]
  <2>1. \A k \in 0 .. 0 : k = 0 OBVIOUS
  <2>2. f = [k \in 0 .. 0 |-> IF k = 0 THEN 0 ELSE Desciende(p, k, f[k - 1])] BY <2>1
  <2> HIDE DEF f
  <2>3. m \notin S BY <2>2, <1>4 DEF EsBusqueda
  <2>4. QED BY <2>3, <1>2
<1>5. CASE m # 0
  <2>1. m - 1 \in Nat /\ m - 1 < m BY <1>3, <1>5
  <2>2. PICK f : f = [k \in 0 .. (m - 1) |-> IF k = 0 THEN 0 ELSE Desciende(p, k, f[k - 1])]
    BY <2>1, <1>3 DEF EsBusqueda
  <2> DEFINE w == [k \in 0 .. m |-> IF k = m THEN Desciende(p, m, f[m - 1]) ELSE f[k]]
  <2>3. ASSUME NEW k \in 0 .. m
        PROVE  w[k] = IF k = 0 THEN 0 ELSE Desciende(p, k, w[k - 1])
    <3>1. CASE k = 0
      <4>1. w[k] = f[0] BY <3>1, <1>5
      <4>2. f[0] = 0 BY <2>2, <2>1
      <4>3. QED BY <4>1, <4>2, <3>1
    <3>2. CASE k # 0 /\ k # m
      <4>1. k \in 0 .. (m - 1) /\ k - 1 \in 0 .. m /\ k - 1 # m BY <3>2, <1>3
      <4>2. w[k] = f[k] /\ w[k - 1] = f[k - 1] BY <4>1, <3>2
      <4>3. f[k] = Desciende(p, k, f[k - 1]) BY <2>2, <4>1, <3>2
      <4>4. QED BY <4>2, <4>3, <3>2
    <3>3. CASE k = m
      <4>1. k - 1 \in 0 .. m /\ k - 1 # m BY <3>3, <1>3, <1>5
      <4>2. w[k] = Desciende(p, m, f[m - 1]) /\ w[k - 1] = f[k - 1] BY <4>1, <3>3
      <4>3. QED BY <4>2, <3>3, <1>5
    <3>4. QED BY <3>1, <3>2, <3>3
  <2>4. w = [k \in 0 .. m |-> IF k = 0 THEN 0 ELSE Desciende(p, k, w[k - 1])]
    <3>1. w = [k \in 0 .. m |-> w[k]] OBVIOUS
    <3> HIDE DEF w
    <3>2. QED BY <3>1, <2>3
  <2> HIDE DEF w
  <2>5. m \notin S BY <2>4 DEF EsBusqueda
  <2>6. QED BY <2>5, <1>2
<1>6. QED BY <1>4, <1>5

LEMMA Busqueda ==
  ASSUME NEW p, p # <<>>, Len(p) \in Nat, Len(p) >= 1
  PROVE  \E f : /\ f[0] = 0
                /\ \A k \in 1 .. Len(p) : f[k] = Desciende(p, k, f[k - 1])
                /\ determine_nodo(p) =
                     IF f[Len(p)] = -1 THEN -1 ELSE f[Len(p)] - bloqueInicioTablaDeNodos
<1> DEFINE f == CHOOSE g : EsBusqueda(g, p, Len(p))
<1>1. EsBusqueda(f, p, Len(p)) BY BusquedaExiste
<1>2. determine_nodo(p) =
        IF f[Len(p)] = -1 THEN -1 ELSE f[Len(p)] - bloqueInicioTablaDeNodos
  BY DEF determine_nodo, EsBusqueda, Desciende
<1> HIDE DEF f
<1>3. \A k \in 0 .. Len(p) : f[k] = IF k = 0 THEN 0 ELSE Desciende(p, k, f[k - 1])
  BY <1>1 DEF EsBusqueda
<1>4. f[0] = 0 BY <1>3
<1>5. \A k \in 1 .. Len(p) : f[k] = Desciende(p, k, f[k - 1]) BY <1>3
<1>6. QED BY <1>2, <1>4, <1>5

LEMMA PathTipo ==
  ASSUME NEW t, Ubicado(t), NEW s, EsRastro(t, s)
  PROVE  /\ PathDe(t, s) \in Seq(Nombre) /\ PathDe(t, s) # <<>>
         /\ Len(PathDe(t, s)) = Len(s)
         /\ \A k \in 1 .. Len(s) : PathDe(t, s)[k] = t[s[k]].fname
<1> DEFINE p == PathDe(t, s)
           n == Len(s)
<1>1. n \in Nat /\ n >= 1 BY RastroTipo
<1>2. \A k \in 1 .. n : s[k] \in Nodo /\ t[s[k]].state # 0 BY RastroTipo DEF EsRastro
<1>3. \A k \in 1 .. n : t[s[k]].fname \in Nombre BY <1>2 DEF Ubicado
<1>4. p = [k \in 1 .. n |-> t[s[k]].fname] BY DEF PathDe
<1> HIDE DEF p, n
<1>5. p \in [1 .. n -> Nombre] BY <1>3, <1>4
<1>6. p \in Seq(Nombre) /\ Len(p) = n BY <1>1, <1>5, SeqDe
<1>7. p # <<>> BY <1>1, <1>6, EmptySeq
<1>8. \A k \in 1 .. n : p[k] = t[s[k]].fname BY <1>4
<1>9. QED BY <1>6, <1>7, <1>8 DEF p, n

\* The path of a way leads to its last node.
LEMMA Encuentra ==
  ASSUME Ubicado(tablaDeNodos), Unicos(tablaDeNodos), NEW s, EsRastro(tablaDeNodos, s)
  PROVE  determine_nodo(PathDe(tablaDeNodos, s)) = s[Len(s)]
<1> DEFINE p == PathDe(tablaDeNodos, s)
           B == bloqueInicioTablaDeNodos
<1>1. PICK n : n = Len(s) /\ n \in Nat /\ n >= 1 BY RastroTipo
<1>2. /\ p \in Seq(Nombre) /\ p # <<>> /\ Len(p) = n
      /\ \A k \in 1 .. n : p[k] = tablaDeNodos[s[k]].fname
  BY <1>1, PathTipo
<1> HIDE DEF p
<1>3. /\ \A k \in 1 .. n : s[k] \in Nodo /\ s[k] \in Nat /\ tablaDeNodos[s[k]].state # 0
      /\ tablaDeNodos[s[1]].parent_dir_block = 0
      /\ \A k \in 1 .. (n - 1) : tablaDeNodos[s[k + 1]].parent_dir_block = s[k] + B
  BY <1>1, RastroTipo DEF EsRastro
<1>4. B \in Nat /\ B >= 2 BY NodoProps
<1>5. PICK f : /\ f[0] = 0
               /\ \A k \in 1 .. n : f[k] = Desciende(p, k, f[k - 1])
               /\ determine_nodo(p) = IF f[n] = -1 THEN -1 ELSE f[n] - B
  <2>1. Len(p) \in Nat /\ Len(p) >= 1 BY <1>1, <1>2
  <2>2. QED BY <1>2, <2>1, Busqueda
<1> HIDE DEF B
<1>6. ASSUME NEW k \in 1 .. n, f[k - 1] = tablaDeNodos[s[k]].parent_dir_block, f[k - 1] # -1
      PROVE  f[k] = s[k] + B
  <2>1. buscar_nodo_por_nombre(p[k], f[k - 1]) = s[k]
    BY <1>2, <1>3, <1>6, BuscarProps
  <2>2. f[k] = Desciende(p, k, f[k - 1]) BY <1>5
  <2>3. s[k] # -1 BY <1>3
  <2>4. QED BY <1>6, <2>1, <2>2, <2>3 DEF Desciende, B
<1>7. \A k \in 1 .. n : f[k] = s[k] + B
  <2> DEFINE S == {k \in 1 .. n : f[k] # s[k] + B}
  <2>1. SUFFICES ASSUME S # {} PROVE FALSE OBVIOUS
  <2>2. PICK k \in S : \A y \in S : k <= y
    <3>1. S \subseteq Nat OBVIOUS
    <3> HIDE DEF S
    <3>2. QED BY <2>1, <3>1, MinExiste
  <2>3. k \in 1 .. n /\ k \in Nat /\ f[k] # s[k] + B BY <2>2
  <2>4. CASE k = 1
    <3>1. k - 1 = 0 BY <2>4
    <3>2. f[k - 1] = tablaDeNodos[s[k]].parent_dir_block /\ f[k - 1] # -1
      BY <3>1, <1>3, <1>5, <2>4
    <3>3. QED BY <3>2, <1>6, <2>3
  <2>5. CASE k # 1
    <3>1. k - 1 \in 1 .. n /\ k - 1 \in 1 .. (n - 1) /\ (k - 1) + 1 = k /\ ~ (k <= k - 1)
      BY <1>1, <2>3, <2>5
    <3>2. k - 1 \notin S BY <2>2, <3>1
    <3>3. f[k - 1] = s[k - 1] + B BY <3>1, <3>2
    <3>4. tablaDeNodos[s[k]].parent_dir_block = s[k - 1] + B BY <1>3, <3>1
    <3>5. s[k - 1] \in Nat BY <1>3, <3>1
    <3>6. f[k - 1] = tablaDeNodos[s[k]].parent_dir_block /\ f[k - 1] # -1
      BY <3>3, <3>4, <3>5, <1>4
    <3>7. QED BY <3>6, <1>6, <2>3
  <2>6. QED BY <2>4, <2>5
<1>8. f[n] = s[n] + B /\ s[n] \in Nat
  <2>1. n \in 1 .. n BY <1>1
  <2>2. QED BY <2>1, <1>3, <1>7
<1>9. f[n] # -1 /\ f[n] - B = s[n] BY <1>4, <1>8
<1>10. QED BY <1>1, <1>5, <1>9 DEF p

\* A path that leads to a node is the path of the way to it.
LEMMA Encontrado ==
  ASSUME Ubicado(tablaDeNodos), Unicos(tablaDeNodos),
         NEW p \in Seq(Nombre), p # <<>>, determine_nodo(p) # -1
  PROVE  \E s : /\ EsRastro(tablaDeNodos, s) /\ p = PathDe(tablaDeNodos, s)
                /\ s[Len(s)] = determine_nodo(p)
<1> DEFINE B == bloqueInicioTablaDeNodos
<1>1. PICK n : n = Len(p) /\ n \in Nat /\ n >= 1
  <2>1. Len(p) \in Nat \ {0} BY EmptySeq
  <2>2. QED BY <2>1
<1>2. PICK f : /\ f[0] = 0
               /\ \A k \in 1 .. n : f[k] = Desciende(p, k, f[k - 1])
               /\ determine_nodo(p) = IF f[n] = -1 THEN -1 ELSE f[n] - B
  BY <1>1, Busqueda
<1>3. B \in Nat /\ B >= 2 /\ Nodo \subseteq Nat BY NodoProps
<1> DEFINE Halla(k, i) == /\ i \in Nodo /\ f[k] = i + B /\ tablaDeNodos[i].state # 0
                          /\ tablaDeNodos[i].fname = p[k]
                          /\ tablaDeNodos[i].parent_dir_block = f[k - 1]
           Falla(k) == f[k] = -1 \/ f[k] = B - 1
<1>4. ASSUME NEW k \in 1 .. n PROVE Falla(k) \/ \E i : Halla(k, i)
  <2> DEFINE r == buscar_nodo_por_nombre(p[k], f[k - 1])
  <2>1. f[k] = IF k > 1 /\ (f[k - 1] = -1 \/ r = -1) THEN -1 ELSE r + B
    BY <1>2 DEF Desciende
  <2>2. \/ r = -1
        \/ \E i \in Nodo : /\ r = i
                           /\ tablaDeNodos[i].state # 0
                           /\ tablaDeNodos[i].fname = p[k]
                           /\ tablaDeNodos[i].parent_dir_block = f[k - 1]
    BY BuscarProps
  <2> HIDE DEF r, B
  <2>3. CASE r = -1
    <3>1. f[k] = -1 \/ f[k] = -1 + B BY <2>1, <2>3
    <3>2. -1 + B = B - 1 BY <1>3
    <3>3. QED BY <3>1, <3>2
  <2>4. CASE k > 1 /\ f[k - 1] = -1 BY <2>1, <2>4
  <2>5. CASE r # -1 /\ ~ (k > 1 /\ f[k - 1] = -1)
    <3>1. f[k] = r + B BY <2>1, <2>5
    <3>2. PICK i \in Nodo : /\ r = i
                            /\ tablaDeNodos[i].state # 0
                            /\ tablaDeNodos[i].fname = p[k]
                            /\ tablaDeNodos[i].parent_dir_block = f[k - 1]
      BY <2>2, <2>5
    <3>3. QED BY <3>1, <3>2
  <2>6. QED BY <2>3, <2>4, <2>5
<1>5. ASSUME NEW k \in 1 .. (n - 1), Falla(k) PROVE Falla(k + 1)
  <2>1. k + 1 \in 1 .. n /\ k + 1 > 1 /\ (k + 1) - 1 = k BY <1>1
  <2>2. f[k + 1] = Desciende(p, k + 1, f[k]) BY <1>2, <2>1
  <2>3. CASE f[k] = -1 BY <2>1, <2>2, <2>3 DEF Desciende
  <2>4. CASE f[k] = B - 1
    <3>1. buscar_nodo_por_nombre(p[k + 1], f[k]) = -1 BY <2>4, BuscarNada
    <3>2. QED BY <2>1, <2>2, <3>1 DEF Desciende
  <2>5. QED BY <1>5, <2>3, <2>4
<1>6. ~ Falla(n) BY <1>2, <1>3
<1> HIDE DEF Falla
<1>7. \A k \in 1 .. n : ~ Falla(k)
  <2> DEFINE S == {d \in 0 .. (n - 1) : Falla(n - d)}
  <2>1. S = {}
    <3>1. SUFFICES ASSUME S # {} PROVE FALSE OBVIOUS
    <3>2. PICK d \in S : \A y \in S : d <= y
      <4>1. S \subseteq Nat OBVIOUS
      <4> HIDE DEF S
      <4>2. QED BY <3>1, <4>1, MinExiste
    <3>3. d \in 0 .. (n - 1) /\ d \in Nat /\ Falla(n - d) BY <3>2
    <3>4. CASE d = 0
      <4>1. n - d = n BY <1>1, <3>4
      <4>2. QED BY <4>1, <3>3, <1>6
    <3>5. CASE d # 0
      <4>1. /\ n - d \in 1 .. (n - 1) /\ d - 1 \in 0 .. (n - 1) /\ ~ (d <= d - 1)
            /\ (n - d) + 1 = n - (d - 1)
        BY <1>1, <3>3, <3>5
      <4>2. Falla((n - d) + 1) BY <4>1, <3>3, <1>5
      <4>3. d - 1 \in S BY <4>1, <4>2
      <4>4. QED BY <4>1, <4>3, <3>2
    <3>6. QED BY <3>4, <3>5
  <2>2. ASSUME NEW k \in 1 .. n, Falla(k) PROVE FALSE
    <3>1. n - k \in 0 .. (n - 1) /\ n - (n - k) = k BY <1>1
    <3>2. n - k \in S BY <3>1, <2>2
    <3>3. QED BY <3>2, <2>1
  <2>3. QED BY <2>2
<1> DEFINE s == [k \in 1 .. n |-> f[k] - B]
<1>8. \A k \in 1 .. n : Halla(k, s[k])
  <2>1. ASSUME NEW k \in 1 .. n PROVE Halla(k, s[k])
    <3>1. PICK i : Halla(k, i) BY <1>4, <1>7
    <3>2. i \in Nat /\ f[k] = i + B BY <3>1, <1>3
    <3>3. s[k] = i BY <3>2, <1>3
    <3> HIDE DEF s, Halla
    <3>4. QED BY <3>1, <3>3
  <2>2. QED BY <2>1
<1>9. s \in [1 .. n -> Nodo]
  <2>1. \A k \in 1 .. n : s[k] \in Nodo BY <1>8
  <2>2. s = [k \in 1 .. n |-> s[k]] OBVIOUS
  <2> HIDE DEF s
  <2>3. QED BY <2>1, <2>2
<1> HIDE DEF s
<1>10. s \in Seq(Nodo) /\ Len(s) = n BY <1>1, <1>9, SeqDe
<1>11. EsRastro(tablaDeNodos, s)
  <2>1. s # <<>> BY <1>1, <1>10, EmptySeq
  <2>2. \A k \in 1 .. Len(s) : tablaDeNodos[s[k]].state # 0 BY <1>8, <1>10
  <2>3. tablaDeNodos[s[1]].parent_dir_block = 0
    <3>1. 1 \in 1 .. n /\ 1 - 1 = 0 BY <1>1
    <3>2. Halla(1, s[1]) BY <3>1, <1>8
    <3>3. QED BY <3>1, <3>2, <1>2
  <2>4. ASSUME NEW k \in 1 .. (Len(s) - 1)
        PROVE  tablaDeNodos[s[k + 1]].parent_dir_block = s[k] + bloqueInicioTablaDeNodos
    <3>1. k \in 1 .. n /\ k + 1 \in 1 .. n /\ (k + 1) - 1 = k BY <1>1, <1>10
    <3>2. Halla(k + 1, s[k + 1]) /\ Halla(k, s[k]) BY <3>1, <1>8
    <3>3. tablaDeNodos[s[k + 1]].parent_dir_block = f[k] BY <3>1, <3>2
    <3>4. f[k] = s[k] + B BY <3>2
    <3>5. QED BY <3>3, <3>4
  <2>5. QED BY <1>10, <2>1, <2>2, <2>3, <2>4 DEF EsRastro
<1>12. p = PathDe(tablaDeNodos, s)
  <2>1. /\ PathDe(tablaDeNodos, s) \in Seq(Nombre) /\ Len(PathDe(tablaDeNodos, s)) = n
        /\ \A k \in 1 .. n : PathDe(tablaDeNodos, s)[k] = tablaDeNodos[s[k]].fname
    BY <1>10, <1>11, PathTipo
  <2>2. \A k \in 1 .. n : PathDe(tablaDeNodos, s)[k] = p[k] BY <2>1, <1>8
  <2>3. QED BY <1>1, <2>1, <2>2, SeqEqual
<1>13. s[Len(s)] = determine_nodo(p)
  <2>1. n \in 1 .. n BY <1>1
  <2>2. Halla(n, s[n]) BY <2>1, <1>8
  <2>3. f[n] = s[n] + B /\ s[n] \in Nat BY <2>2, <1>3
  <2>4. f[n] # -1 /\ f[n] - B = s[n] BY <2>3, <1>3
  <2>5. QED BY <2>4, <1>2, <1>10
<1>14. QED BY <1>11, <1>12, <1>13

LEMMA UbicadosSon ==
  ASSUME Ubicado(tablaDeNodos)
  PROVE  Ubicados = {<<PathDe(tablaDeNodos, s), s[Len(s)]>> : s \in Rastros}
<1>1. ASSUME NEW s \in Rastros
      PROVE  [k \in DOMAIN s |-> tablaDeNodos[s[k]].fname] = PathDe(tablaDeNodos, s)
  <2>1. s \in Seq(Nodo) BY RastrosSon DEF EsRastro
  <2>2. DOMAIN s = 1 .. Len(s) BY <2>1, LenProperties
  <2>3. QED BY <2>2 DEF PathDe
<1>2. QED BY <1>1 DEF Ubicados

LEMMA CaminoBasta == Tabla(tablaDeNodos) => CaminoFiel
<1> SUFFICES ASSUME Tabla(tablaDeNodos) PROVE CaminoFiel OBVIOUS
<1>1. Ubicado(tablaDeNodos) /\ Unicos(tablaDeNodos) /\ Cuelgan(tablaDeNodos) BY DEF Tabla
<1>2. \A s : s \in Rastros <=> EsRastro(tablaDeNodos, s) BY <1>1, RastrosSon
<1>3. SinHuerfanos BY <1>1, <1>2 DEF SinHuerfanos, Cuelgan, Vivo
<1>4. ASSUME NEW u \in Ubicados PROVE determine_nodo(u[1]) = u[2]
  <2>1. PICK s \in Rastros : u = <<PathDe(tablaDeNodos, s), s[Len(s)]>>
    BY <1>1, UbicadosSon
  <2>2. u[1] = PathDe(tablaDeNodos, s) /\ u[2] = s[Len(s)] BY <2>1
  <2>3. EsRastro(tablaDeNodos, s) BY <1>2
  <2>4. QED BY <1>1, <2>2, <2>3, Encuentra
<1>5. QED BY <1>3, <1>4 DEF CaminoFiel

-----------------------------------------------------------------------------
(* Which path leads to which node                                          *)

Esta(t, p, i) == \E s : EsRastro(t, s) /\ p = PathDe(t, s) /\ s[Len(s)] = i

\* A way through nodes that keep their state and their directory stays.
LEMMA RastroQueda ==
  ASSUME NEW t, NEW u, NEW s, EsRastro(t, s),
         \A k \in 1 .. Len(s) : /\ u[s[k]].state # 0
                                /\ u[s[k]].parent_dir_block = t[s[k]].parent_dir_block
  PROVE  EsRastro(u, s)
<1>1. Len(s) \in Nat /\ Len(s) >= 1 BY RastroTipo
<1>2. /\ s \in Seq(Nodo) /\ s # <<>>
      /\ t[s[1]].parent_dir_block = 0
      /\ \A k \in 1 .. (Len(s) - 1) :
           t[s[k + 1]].parent_dir_block = s[k] + bloqueInicioTablaDeNodos
  BY DEF EsRastro
<1>3. u[s[1]].parent_dir_block = 0
  <2>1. 1 \in 1 .. Len(s) BY <1>1
  <2>2. QED BY <2>1, <1>2
<1>4. ASSUME NEW k \in 1 .. (Len(s) - 1)
      PROVE  u[s[k + 1]].parent_dir_block = s[k] + bloqueInicioTablaDeNodos
  <2>1. k + 1 \in 1 .. Len(s) BY <1>1
  <2>2. QED BY <2>1, <1>2
<1>5. QED BY <1>2, <1>3, <1>4 DEF EsRastro

LEMMA EstaTipo ==
  ASSUME NEW t, Ubicado(t), NEW p, NEW i, Esta(t, p, i)
  PROVE  /\ i \in Nodo /\ t[i].state # 0
         /\ p \in Seq(Nombre) /\ p # <<>> /\ Len(p) \in Nat /\ Len(p) >= 1
         /\ p[Len(p)] = t[i].fname
<1>1. PICK s : EsRastro(t, s) /\ p = PathDe(t, s) /\ s[Len(s)] = i BY DEF Esta
<1>2. Len(s) \in Nat /\ Len(s) >= 1 BY <1>1, RastroTipo
<1>3. Len(s) \in 1 .. Len(s) BY <1>2
<1>4. i \in Nodo BY <1>1, <1>3, RastroTipo
<1>5. t[i].state # 0 BY <1>1, <1>3 DEF EsRastro
<1>6. /\ p \in Seq(Nombre) /\ p # <<>> /\ Len(p) = Len(s)
      /\ p[Len(s)] = t[s[Len(s)]].fname
  BY <1>1, <1>3, PathTipo
<1>7. QED BY <1>1, <1>2, <1>4, <1>5, <1>6

LEMMA EstaUnNodo ==
  ASSUME NEW t, Ubicado(t), Unicos(t), NEW p, NEW i, NEW j, Esta(t, p, i), Esta(t, p, j)
  PROVE  i = j
<1> DEFINE Dos(a, b) == /\ EsRastro(t, a) /\ EsRastro(t, b)
                        /\ PathDe(t, a) = PathDe(t, b) /\ a[Len(a)] # b[Len(b)]
           S == {n \in Nat : \E a, b : Dos(a, b) /\ Len(a) = n}
<1>1. SUFFICES ASSUME S # {} PROVE FALSE
  <2>1. PICK a : EsRastro(t, a) /\ p = PathDe(t, a) /\ a[Len(a)] = i BY DEF Esta
  <2>2. PICK b : EsRastro(t, b) /\ p = PathDe(t, b) /\ b[Len(b)] = j BY DEF Esta
  <2>3. Len(a) \in Nat BY <2>1, RastroTipo
  <2>4. i # j => Dos(a, b) BY <2>1, <2>2
  <2>5. i # j => Len(a) \in S BY <2>3, <2>4
  <2>6. QED BY <2>5
<1>2. PICK n \in S : \A y \in S : n <= y
  <2>1. S \subseteq Nat OBVIOUS
  <2> HIDE DEF S
  <2>2. QED BY <1>1, <2>1, MinExiste
<1>3. PICK a, b : Dos(a, b) /\ Len(a) = n BY <1>2
<1>4. EsRastro(t, a) /\ EsRastro(t, b) /\ a[Len(a)] # b[Len(b)] BY <1>3
<1>5. n \in Nat /\ n >= 1 BY <1>3, <1>4, RastroTipo
<1>6. Len(b) = n /\ Len(a) = n
  <2>1. Len(PathDe(t, a)) = Len(a) /\ Len(PathDe(t, b)) = Len(b) BY <1>4, PathTipo
  <2>2. QED BY <2>1, <1>3
<1>7. \A k \in 1 .. n : t[a[k]].fname = t[b[k]].fname
  <2>1. \A k \in 1 .. n : PathDe(t, a)[k] = t[a[k]].fname BY <1>4, <1>6, PathTipo
  <2>2. \A k \in 1 .. n : PathDe(t, b)[k] = t[b[k]].fname BY <1>4, <1>6, PathTipo
  <2>3. QED BY <2>1, <2>2, <1>3
<1>8. /\ a[n] \in Nodo /\ b[n] \in Nodo /\ t[a[n]].state # 0 /\ t[b[n]].state # 0
      /\ t[a[n]].fname = t[b[n]].fname
  <2>1. n \in 1 .. n BY <1>5
  <2>2. QED BY <2>1, <1>4, <1>6, <1>7, RastroTipo DEF EsRastro
<1>9. t[a[n]].parent_dir_block = t[b[n]].parent_dir_block
  <2>1. CASE n = 1 BY <2>1, <1>4 DEF EsRastro
  <2>2. CASE n # 1
    <3> DEFINE h == n - 1
    <3>1. /\ h \in 1 .. n /\ h \in 1 .. (n - 1) /\ h + 1 = n /\ h \in Nat /\ ~ (n <= h)
          /\ h \in 1 .. h
      BY <1>5, <2>2
    <3> HIDE DEF h, S, Dos
    <3>h. h \in 1 .. Len(a) /\ h \in 1 .. Len(b) BY <3>1, <1>6
    <3>2. PICK c : EsRastro(t, c) /\ Len(c) = h /\ \A k \in 1 .. h : c[k] = a[k]
      BY ONLY <3>h, <1>4, RastroTramo
    <3>3. PICK d : EsRastro(t, d) /\ Len(d) = h /\ \A k \in 1 .. h : d[k] = b[k]
      BY ONLY <3>h, <1>4, RastroTramo
    <3>4. \A k \in 1 .. h : t[c[k]].fname = t[d[k]].fname
      <4>1. \A k \in 1 .. h : k \in 1 .. n BY <3>1
      <4>2. QED BY <4>1, <3>2, <3>3, <1>7
    <3>5. PathDe(t, c) = PathDe(t, d) BY <3>2, <3>3, <3>4 DEF PathDe
    <3>6. c[h] = d[h]
      <4>1. SUFFICES ASSUME c[h] # d[h] PROVE FALSE OBVIOUS
      <4>2. Dos(c, d) BY <3>2, <3>3, <3>5, <4>1 DEF Dos
      <4>3. h \in S BY <4>2, <3>1, <3>2 DEF S
      <4>4. QED BY <4>3, <3>1, <1>2
    <3>7. a[h] = b[h] BY <3>1, <3>2, <3>3, <3>6
    <3>8. t[a[h + 1]].parent_dir_block = a[h] + bloqueInicioTablaDeNodos
      BY <1>4, <1>6, <3>1 DEF EsRastro
    <3>9. t[b[h + 1]].parent_dir_block = b[h] + bloqueInicioTablaDeNodos
      BY <1>4, <1>6, <3>1 DEF EsRastro
    <3>10. QED BY <3>1, <3>7, <3>8, <3>9
  <2>3. QED BY <2>1, <2>2
<1>10. a[n] = b[n] BY <1>8, <1>9 DEF Unicos
<1>11. QED BY <1>4, <1>6, <1>10

LEMMA EstaUnPath ==
  ASSUME NEW t, NEW p, NEW q, NEW i, Esta(t, p, i), Esta(t, q, i)
  PROVE  p = q
<1>1. PICK a : EsRastro(t, a) /\ p = PathDe(t, a) /\ a[Len(a)] = i BY DEF Esta
<1>2. PICK b : EsRastro(t, b) /\ q = PathDe(t, b) /\ b[Len(b)] = i BY DEF Esta
<1>3. a = b BY <1>1, <1>2, RastroUnico
<1>4. QED BY <1>1, <1>2, <1>3

LEMMA EstaTodo ==
  ASSUME NEW t, Cuelgan(t), NEW i \in Nodo, t[i].state # 0
  PROVE  \E p : Esta(t, p, i)
BY DEF Cuelgan, Esta

-----------------------------------------------------------------------------
(* Creations                                                               *)

\* Where a node of the directory in block b would hang: from the root or from a directory.
EsCarpeta(t, b) ==
  \/ b = 0
  \/ \E j \in Nodo : b = j + bloqueInicioTablaDeNodos /\ t[j].state = 2
Libre(t, x, b) ==
  \A i \in Nodo : t[i].state # 0 => ~ (t[i].fname = x /\ t[i].parent_dir_block = b)

Creado(t, m, tipo, x, b) ==
  [t EXCEPT ![m] = [state |-> tipo, fname |-> x, parent_dir_block |-> b]]

\* The new node of u is m, in block b; the others stay where they were.
Agregado(t, u, m, tipo, x, b) ==
  /\ Tabla(u)
  /\ u[m].state = tipo
  /\ \A i \in Nodo : t[i].state # 0 => u[i] = t[i]
  /\ \A p, i : Esta(t, p, i) => Esta(u, p, i)
  /\ \A i \in Nodo : i # m /\ u[i].state # 0 => \E p : Esta(t, p, i)
  /\ b = 0 => Esta(u, <<x>>, m)
  /\ \A q, j : Esta(t, q, j) /\ b = j + bloqueInicioTablaDeNodos => Esta(u, Append(q, x), m)

LEMMA CreadoProps ==
  ASSUME NEW t, Tabla(t), NEW m \in Nodo, t[m].state = 0, NEW tipo \in {1, 2},
         NEW x \in Nombre, NEW b \in Nat, EsCarpeta(t, b), Libre(t, x, b),
         NEW u, u = Creado(t, m, tipo, x, b)
  PROVE  Agregado(t, u, m, tipo, x, b)
<1> DEFINE B == bloqueInicioTablaDeNodos
<1>1. t \in [Nodo -> GFile] /\ Ubicado(t) /\ Unicos(t) /\ Cuelgan(t) BY DEF Tabla
<1>2. /\ u[m] = [state |-> tipo, fname |-> x, parent_dir_block |-> b]
      /\ \A i \in Nodo : i # m => u[i] = t[i]
  BY <1>1 DEF Creado
<1>3. u[m].state = tipo /\ u[m].fname = x /\ u[m].parent_dir_block = b /\ tipo # 0
  BY <1>2
<1>4. u \in [Nodo -> GFile]
  <2>1. [state |-> tipo, fname |-> x, parent_dir_block |-> b] \in GFile BY DEF GFile
  <2>2. QED BY <1>1, <2>1 DEF Creado
<1>5. \A i \in Nodo : t[i].state # 0 => i # m /\ u[i] = t[i] BY <1>2
<1>6. \A i \in Nodo : u[i].state # 0 => i = m \/ t[i].state # 0 BY <1>2
<1>7. Ubicado(u)
  <2>1. ASSUME NEW i \in Nodo, u[i].state # 0
        PROVE  /\ u[i].fname \in Nombre
               /\ \/ u[i].parent_dir_block = 0
                  \/ \E j \in Nodo : u[i].parent_dir_block = j + B /\ u[j].state = 2
    <3>1. CASE i = m
      <4>1. CASE b = 0 BY <3>1, <4>1, <1>3
      <4>2. CASE b # 0
        <5>1. PICK j \in Nodo : b = j + B /\ t[j].state = 2 BY <4>2 DEF EsCarpeta
        <5>2. u[j].state = 2 BY <5>1, <1>5
        <5>3. QED BY <3>1, <5>1, <5>2, <1>3
      <4>3. QED BY <4>1, <4>2
    <3>2. CASE i # m
      <4>1. u[i] = t[i] /\ t[i].state # 0 BY <2>1, <3>2, <1>2
      <4>2. \A j \in Nodo : t[j].state = 2 => u[j].state = 2 BY <1>5
      <4>3. QED BY <1>1, <4>1, <4>2 DEF Ubicado
    <3>3. QED BY <3>1, <3>2
  <2>2. QED BY <2>1 DEF Ubicado
<1>8. Unicos(u)
  <2>1. ASSUME NEW i \in Nodo, NEW j \in Nodo, u[i].state # 0, u[j].state # 0,
               u[i].fname = u[j].fname, u[i].parent_dir_block = u[j].parent_dir_block
        PROVE  i = j
    <3>1. CASE i = m /\ j = m BY <3>1
    <3>2. CASE i = m /\ j # m BY <3>2, <2>1, <1>2, <1>3 DEF Libre
    <3>3. CASE i # m /\ j = m BY <3>3, <2>1, <1>2, <1>3 DEF Libre
    <3>4. CASE i # m /\ j # m
      <4>1. u[i] = t[i] /\ u[j] = t[j] BY <3>4, <1>2
      <4>2. QED BY <2>1, <4>1, <1>1 DEF Unicos
    <3>5. QED BY <3>1, <3>2, <3>3, <3>4
  <2>2. QED BY <2>1 DEF Unicos
<1>9. ASSUME NEW s, EsRastro(t, s)
      PROVE  EsRastro(u, s) /\ PathDe(u, s) = PathDe(t, s)
  <2>1. \A k \in 1 .. Len(s) : s[k] \in Nodo /\ t[s[k]].state # 0
    BY <1>9, RastroTipo DEF EsRastro
  <2>2. \A k \in 1 .. Len(s) : u[s[k]] = t[s[k]] BY <2>1, <1>5
  <2>3. \A k \in 1 .. Len(s) : /\ u[s[k]].state # 0
                               /\ u[s[k]].parent_dir_block = t[s[k]].parent_dir_block
    BY <2>1, <2>2
  <2>4. EsRastro(u, s) BY <1>9, <2>3, RastroQueda
  <2>5. PathDe(u, s) = PathDe(t, s) BY <2>2 DEF PathDe
  <2>6. QED BY <2>4, <2>5
<1>10. ASSUME NEW p, NEW i, Esta(t, p, i) PROVE Esta(u, p, i)
  BY <1>9, <1>10 DEF Esta
<1>11. ASSUME b = 0 PROVE Esta(u, <<x>>, m)
  <2>1. EsRastro(u, <<m>>) BY <1>3, <1>11, RastroRaiz
  <2>2. Len(<<m>>) = 1 /\ <<m>>[1] = m OBVIOUS
  <2>3. PathDe(u, <<m>>) = <<x>>
    <3>1. PathDe(u, <<m>>) = [k \in 1 .. 1 |-> u[<<m>>[k]].fname] BY <2>2 DEF PathDe
    <3>2. \A k \in 1 .. 1 : u[<<m>>[k]].fname = x BY <1>3
    <3>3. PathDe(u, <<m>>) = [k \in 1 .. 1 |-> x] BY <3>1, <3>2
    <3>4. QED BY <3>3
  <2>4. QED BY <2>1, <2>2, <2>3 DEF Esta
<1>12. ASSUME NEW q, NEW j, Esta(t, q, j), b = j + B
       PROVE  Esta(u, Append(q, x), m)
  <2>1. PICK s : EsRastro(t, s) /\ q = PathDe(t, s) /\ s[Len(s)] = j
    BY <1>12 DEF Esta
  <2>2. EsRastro(u, s) /\ PathDe(u, s) = q BY <2>1, <1>9
  <2>3. u[m].state # 0 /\ u[m].parent_dir_block = s[Len(s)] + B BY <1>3, <1>12, <2>1
  <2> DEFINE r == Append(s, m)
  <2> HIDE DEF B
  <2>4. /\ EsRastro(u, r) /\ Len(r) = Len(s) + 1 /\ r[Len(s) + 1] = m
        /\ \A k \in 1 .. Len(s) : r[k] = s[k]
    BY <2>2, <2>3, RastroSigue DEF B
  <2> HIDE DEF r
  <2>5. q \in Seq(Nombre) /\ Len(q) = Len(s) /\ Len(s) \in Nat
        /\ \A k \in 1 .. Len(s) : q[k] = u[s[k]].fname
    BY <1>7, <2>2, PathTipo, RastroTipo
  <2>6. PathDe(u, r) = Append(q, x)
    <3>1. /\ PathDe(u, r) \in Seq(Nombre) /\ Len(PathDe(u, r)) = Len(s) + 1
          /\ \A k \in 1 .. (Len(s) + 1) : PathDe(u, r)[k] = u[r[k]].fname
      BY <1>7, <2>4, PathTipo
    <3>2. /\ Append(q, x) \in Seq(Nombre) /\ Len(Append(q, x)) = Len(s) + 1
          /\ \A k \in 1 .. Len(s) : Append(q, x)[k] = q[k]
          /\ Append(q, x)[Len(s) + 1] = x
      BY <2>5, AppendProperties
    <3>3. ASSUME NEW k \in 1 .. (Len(s) + 1) PROVE PathDe(u, r)[k] = Append(q, x)[k]
      <4>1. CASE k \in 1 .. Len(s) BY <4>1, <3>1, <3>2, <2>4, <2>5
      <4>2. CASE k = Len(s) + 1 BY <4>2, <3>1, <3>2, <2>4, <1>3
      <4>3. QED BY <4>1, <4>2, <2>5
    <3>4. QED BY <3>1, <3>2, <3>3, SeqEqual
  <2>7. r[Len(r)] = m BY <2>4
  <2>8. QED BY <2>4, <2>6, <2>7 DEF Esta
<1>13. Cuelgan(u)
  <2>1. ASSUME NEW i \in Nodo, u[i].state # 0 PROVE \E p : Esta(u, p, i)
    <3>1. CASE i # m
      <4>1. t[i].state # 0 BY <2>1, <3>1, <1>6
      <4>2. \E p : Esta(t, p, i) BY <4>1, <1>1, EstaTodo
      <4>3. QED BY <4>2, <1>10
    <3>2. CASE i = m
      <4>1. CASE b = 0 BY <3>2, <4>1, <1>11
      <4>2. CASE b # 0
        <5>1. PICK j \in Nodo : b = j + B /\ t[j].state = 2 BY <4>2 DEF EsCarpeta
        <5>2. \E q : Esta(t, q, j) BY <5>1, <1>1, EstaTodo
        <5>3. QED BY <3>2, <5>1, <5>2, <1>12
      <4>3. QED BY <4>1, <4>2
    <3>3. QED BY <3>1, <3>2
  <2>2. QED BY <2>1 DEF Cuelgan, Esta
<1>14. ASSUME NEW i \in Nodo, i # m, u[i].state # 0 PROVE \E p : Esta(t, p, i)
  <2>1. t[i].state # 0 BY <1>14, <1>6
  <2>2. QED BY <2>1, <1>1, EstaTodo
<1>15. Tabla(u) BY <1>4, <1>7, <1>8, <1>13 DEF Tabla
<1>16. QED BY <1>3, <1>5, <1>6, <1>10, <1>11, <1>12, <1>14, <1>15 DEF Agregado

-----------------------------------------------------------------------------
(* Prefixes                                                                *)

LEMMA PrefijoEs ==
  ASSUME NEW S, NEW p \in Seq(S), NEW q \in Seq(S)
  PROVE  IsPrefix(p, q) <=> /\ Len(p) <= Len(q)
                            /\ \A k \in 1 .. Len(p) : p[k] = q[k]
<1>1. Len(p) \in Nat /\ Len(q) \in Nat BY LenProperties
<1>2. SubSeq(p, 1, Len(p)) = p BY SubSeqFull
<1>3. ASSUME Len(p) <= Len(q)
      PROVE  /\ SubSeq(q, 1, Len(p)) \in Seq(S) /\ Len(SubSeq(q, 1, Len(p))) = Len(p)
             /\ \A k \in 1 .. Len(p) : SubSeq(q, 1, Len(p))[k] = q[k]
  <2>1. \A k \in 1 .. Len(p) : q[k] \in S
    <3>1. \A k \in 1 .. Len(p) : k \in 1 .. Len(q) BY <1>1, <1>3
    <3>2. QED BY <3>1, ElementOfSeq
  <2>2. /\ SubSeq(q, 1, Len(p)) \in Seq(S)
        /\ Len(SubSeq(q, 1, Len(p))) = IF 1 <= Len(p) THEN Len(p) - 1 + 1 ELSE 0
        /\ \A k \in 1 .. (Len(p) - 1 + 1) : SubSeq(q, 1, Len(p))[k] = q[1 + k - 1]
    BY <1>1, <2>1, SubSeqProperties
  <2>3. QED BY <2>2, <1>1
<1>4. ASSUME IsPrefix(p, q)
      PROVE  Len(p) <= Len(q) /\ \A k \in 1 .. Len(p) : p[k] = q[k]
  <2>1. Len(p) <= Len(q) /\ p = SubSeq(q, 1, Len(p)) BY <1>2, <1>4 DEF IsPrefix
  <2> DEFINE r == SubSeq(q, 1, Len(p))
  <2>2. \A k \in 1 .. Len(p) : r[k] = q[k] BY <1>3, <2>1
  <2>3. p = r BY <2>1
  <2> HIDE DEF r
  <2>4. QED BY <2>1, <2>2, <2>3
<1>5. ASSUME Len(p) <= Len(q), \A k \in 1 .. Len(p) : p[k] = q[k]
      PROVE  IsPrefix(p, q)
  <2> DEFINE r == SubSeq(q, 1, Len(p))
  <2>1. r \in Seq(S) /\ Len(r) = Len(p) /\ \A k \in 1 .. Len(p) : r[k] = q[k]
    BY <1>3, <1>5
  <2> HIDE DEF r
  <2>2. \A k \in 1 .. Len(p) : p[k] = r[k] BY <1>5, <2>1
  <2>3. p = r BY <2>1, <2>2, SeqEqual
  <2>4. SubSeq(p, 1, Len(p)) = SubSeq(q, 1, Len(p)) BY <1>2, <2>3 DEF r
  <2>5. QED BY <2>4, <1>5 DEF IsPrefix
<1>6. QED BY <1>4, <1>5

\* A node of a directory has its path and one name more.
LEMMA EstaHijo ==
  ASSUME NEW t, Ubicado(t), NEW q, NEW j, Esta(t, q, j), NEW i \in Nodo, t[i].state # 0,
         t[i].parent_dir_block = j + bloqueInicioTablaDeNodos
  PROVE  Esta(t, Append(q, t[i].fname), i)
<1>1. PICK s : EsRastro(t, s) /\ q = PathDe(t, s) /\ s[Len(s)] = j BY DEF Esta
<1>2. t[i].parent_dir_block = s[Len(s)] + bloqueInicioTablaDeNodos BY <1>1
<1> DEFINE r == Append(s, i)
           x == t[i].fname
<1>3. /\ EsRastro(t, r) /\ Len(r) = Len(s) + 1 /\ r[Len(s) + 1] = i
      /\ \A k \in 1 .. Len(s) : r[k] = s[k]
  BY <1>1, <1>2, RastroSigue
<1>4. x \in Nombre BY DEF Ubicado
<1> HIDE DEF r
<1>5. q \in Seq(Nombre) /\ Len(q) = Len(s) /\ Len(s) \in Nat
      /\ \A k \in 1 .. Len(s) : q[k] = t[s[k]].fname
  BY <1>1, PathTipo, RastroTipo
<1>6. PathDe(t, r) = Append(q, x)
  <2>1. /\ PathDe(t, r) \in Seq(Nombre) /\ Len(PathDe(t, r)) = Len(s) + 1
        /\ \A k \in 1 .. (Len(s) + 1) : PathDe(t, r)[k] = t[r[k]].fname
    BY <1>3, PathTipo
  <2>2. /\ Append(q, x) \in Seq(Nombre) /\ Len(Append(q, x)) = Len(s) + 1
        /\ \A k \in 1 .. Len(s) : Append(q, x)[k] = q[k]
        /\ Append(q, x)[Len(s) + 1] = x
    BY <1>4, <1>5, AppendProperties
  <2>3. ASSUME NEW k \in 1 .. (Len(s) + 1) PROVE PathDe(t, r)[k] = Append(q, x)[k]
    <3>1. CASE k \in 1 .. Len(s) BY <3>1, <2>1, <2>2, <1>3, <1>5
    <3>2. CASE k = Len(s) + 1 BY <3>2, <2>1, <2>2, <1>3
    <3>3. QED BY <3>1, <3>2, <1>5
  <2>4. QED BY <2>1, <2>2, <2>3, SeqEqual
<1>7. r[Len(r)] = i BY <1>3
<1>8. QED BY <1>3, <1>6, <1>7 DEF Esta

-----------------------------------------------------------------------------
(* Deletions                                                               *)

Cerrada(t, S) ==
  \A j \in S : \A i \in Nodo :
    t[i].state # 0 /\ t[i].parent_dir_block = j + bloqueInicioTablaDeNodos => i \in S
Borrado(t, D) == [i \in Nodo |-> IF i \in D THEN [t[i] EXCEPT !.state = 0] ELSE t[i]]

\* What stays keeps its place.
LEMMA BorradoProps ==
  ASSUME NEW t, Tabla(t), NEW D \in SUBSET Nodo, Cerrada(t, D), NEW u, u = Borrado(t, D)
  PROVE  /\ Tabla(u)
         /\ \A i \in Nodo : u[i].state # 0 <=> t[i].state # 0 /\ i \notin D
         /\ \A i \in Nodo : i \notin D => u[i] = t[i]
         /\ \A p, i : Esta(t, p, i) /\ i \notin D => Esta(u, p, i)
<1> DEFINE B == bloqueInicioTablaDeNodos
<1>1. t \in [Nodo -> GFile] /\ Ubicado(t) /\ Unicos(t) /\ Cuelgan(t) BY DEF Tabla
<1>2. /\ \A i \in Nodo : i \notin D => u[i] = t[i]
      /\ \A i \in Nodo : i \in D => u[i] = [t[i] EXCEPT !.state = 0]
  BY DEF Borrado
<1>3. ASSUME NEW i \in D PROVE u[i] \in GFile /\ u[i].state = 0
  <2>1. i \in Nodo /\ t[i] \in GFile BY <1>1
  <2>2. u[i] = [t[i] EXCEPT !.state = 0] BY <1>2, <2>1
  <2>3. QED BY ONLY <2>1, <2>2 DEF GFile
<1>4. u \in [Nodo -> GFile]
  <2>1. \A i \in Nodo : u[i] \in GFile BY <1>1, <1>2, <1>3
  <2>2. u = [i \in Nodo |-> u[i]] BY DEF Borrado
  <2>3. QED BY <2>1, <2>2
<1>5. \A i \in Nodo : u[i].state # 0 <=> t[i].state # 0 /\ i \notin D BY <1>2, <1>3
<1>6. ASSUME NEW i \in Nodo, t[i].state # 0, i \notin D, NEW j \in Nodo,
             t[i].parent_dir_block = j + B
      PROVE  j \notin D
  BY <1>6 DEF Cerrada
<1>7. Ubicado(u)
  <2>1. ASSUME NEW i \in Nodo, u[i].state # 0
        PROVE  /\ u[i].fname \in Nombre
               /\ \/ u[i].parent_dir_block = 0
                  \/ \E j \in Nodo : u[i].parent_dir_block = j + B /\ u[j].state = 2
    <3>1. t[i].state # 0 /\ i \notin D /\ u[i] = t[i] BY <2>1, <1>2, <1>5
    <3>2. t[i].fname \in Nombre BY <3>1, <1>1 DEF Ubicado
    <3>3. CASE t[i].parent_dir_block = 0 BY <3>1, <3>2, <3>3
    <3>4. CASE t[i].parent_dir_block # 0
      <4>1. PICK j \in Nodo : t[i].parent_dir_block = j + B /\ t[j].state = 2
        BY <3>1, <3>4, <1>1 DEF Ubicado
      <4>2. j \notin D BY <3>1, <4>1, <1>6
      <4>3. u[j] = t[j] BY <4>2, <1>2
      <4>4. QED BY <3>1, <3>2, <4>1, <4>3
    <3>5. QED BY <3>3, <3>4
  <2>2. QED BY <2>1 DEF Ubicado
<1>8. Unicos(u)
  <2>1. ASSUME NEW i \in Nodo, NEW j \in Nodo, u[i].state # 0, u[j].state # 0,
               u[i].fname = u[j].fname, u[i].parent_dir_block = u[j].parent_dir_block
        PROVE  i = j
    <3>1. /\ u[i] = t[i] /\ u[j] = t[j] /\ t[i].state # 0 /\ t[j].state # 0
      BY <2>1, <1>2, <1>5
    <3>2. QED BY <2>1, <3>1, <1>1 DEF Unicos
  <2>2. QED BY <2>1 DEF Unicos
<1>9. ASSUME NEW s, EsRastro(t, s), s[Len(s)] \notin D
      PROVE  EsRastro(u, s) /\ PathDe(u, s) = PathDe(t, s)
  <2>1. PICK n : n = Len(s) /\ n \in Nat /\ n >= 1 BY <1>9, RastroTipo
  <2>2. \A k \in 1 .. n : s[k] \in Nodo /\ t[s[k]].state # 0
    BY <1>9, <2>1, RastroTipo DEF EsRastro
  <2>3. ASSUME NEW k \in 1 .. (n - 1), s[k] \in D PROVE s[k + 1] \in D
    <3>1. k \in 1 .. n /\ k + 1 \in 1 .. n BY <2>1
    <3>2. t[s[k + 1]].parent_dir_block = s[k] + B BY <1>9, <2>1 DEF EsRastro
    <3>3. QED BY <2>2, <2>3, <3>1, <3>2 DEF Cerrada
  <2>4. \A k \in 1 .. n : s[k] \notin D
    <3> DEFINE S == {d \in 0 .. (n - 1) : s[n - d] \in D}
    <3>1. S = {}
      <4>1. SUFFICES ASSUME S # {} PROVE FALSE OBVIOUS
      <4>2. PICK d \in S : \A y \in S : d <= y
        <5>1. S \subseteq Nat OBVIOUS
        <5> HIDE DEF S
        <5>2. QED BY <4>1, <5>1, MinExiste
      <4>3. d \in 0 .. (n - 1) /\ d \in Nat /\ s[n - d] \in D BY <4>2
      <4>4. CASE d = 0
        <5>1. n - d = n BY <2>1, <4>4
        <5>2. QED BY <5>1, <4>3, <1>9, <2>1
      <4>5. CASE d # 0
        <5>1. /\ n - d \in 1 .. (n - 1) /\ d - 1 \in 0 .. (n - 1) /\ ~ (d <= d - 1)
              /\ (n - d) + 1 = n - (d - 1)
          BY <2>1, <4>3, <4>5
        <5>2. s[(n - d) + 1] \in D BY <5>1, <4>3, <2>3
        <5>3. d - 1 \in S BY <5>1, <5>2
        <5>4. QED BY <5>1, <5>3, <4>2
      <4>6. QED BY <4>4, <4>5
    <3>2. ASSUME NEW k \in 1 .. n, s[k] \in D PROVE FALSE
      <4>1. n - k \in 0 .. (n - 1) /\ n - (n - k) = k BY <2>1
      <4>2. n - k \in S BY <4>1, <3>2
      <4>3. QED BY <4>2, <3>1
    <3>3. QED BY <3>2
  <2>5. \A k \in 1 .. Len(s) : u[s[k]] = t[s[k]] BY <2>1, <2>2, <2>4, <1>2
  <2>6. \A k \in 1 .. Len(s) : /\ u[s[k]].state # 0
                               /\ u[s[k]].parent_dir_block = t[s[k]].parent_dir_block
    BY <2>1, <2>2, <2>5
  <2>7. EsRastro(u, s) BY <1>9, <2>6, RastroQueda
  <2>8. PathDe(u, s) = PathDe(t, s) BY <2>5 DEF PathDe
  <2>9. QED BY <2>7, <2>8
<1>10. ASSUME NEW p, NEW i, Esta(t, p, i), i \notin D PROVE Esta(u, p, i)
  BY <1>9, <1>10 DEF Esta
<1>11. Cuelgan(u)
  <2>1. ASSUME NEW i \in Nodo, u[i].state # 0 PROVE \E p : Esta(u, p, i)
    <3>1. t[i].state # 0 /\ i \notin D BY <2>1, <1>5
    <3>2. \E p : Esta(t, p, i) BY <3>1, <1>1, EstaTodo
    <3>3. QED BY <3>1, <3>2, <1>10
  <2>2. QED BY <2>1 DEF Cuelgan, Esta
<1>12. Tabla(u) BY <1>4, <1>7, <1>8, <1>11 DEF Tabla
<1>13. QED BY <1>2, <1>5, <1>10, <1>12

\* The way of a path goes through the nodes of its prefixes, and no others.
LEMMA RastroPasa ==
  ASSUME NEW t, Ubicado(t), Unicos(t), NEW p, NEW n, Esta(t, p, n), NEW s, EsRastro(t, s)
  PROVE  /\ \A j \in 1 .. Len(s) : s[j] = n => j = Len(p) /\ IsPrefix(p, PathDe(t, s))
         /\ IsPrefix(p, PathDe(t, s)) => Len(p) \in 1 .. Len(s) /\ s[Len(p)] = n
<1> DEFINE q == PathDe(t, s)
<1>1. PICK r : EsRastro(t, r) /\ p = PathDe(t, r) /\ r[Len(r)] = n BY DEF Esta
<1>2. /\ p \in Seq(Nombre) /\ Len(p) = Len(r) /\ Len(r) \in Nat /\ Len(r) >= 1
      /\ \A k \in 1 .. Len(r) : p[k] = t[r[k]].fname
  BY <1>1, PathTipo, RastroTipo
<1>3. /\ q \in Seq(Nombre) /\ Len(q) = Len(s) /\ Len(s) \in Nat
      /\ \A k \in 1 .. Len(s) : q[k] = t[s[k]].fname
  BY PathTipo, RastroTipo
<1> HIDE DEF q
<1>4. ASSUME NEW j \in 1 .. Len(s)
      PROVE  \E a : EsRastro(t, a) /\ Len(a) = j /\ \A k \in 1 .. j : a[k] = s[k]
  BY RastroTramo
<1>5. ASSUME NEW j \in 1 .. Len(s), s[j] = n
      PROVE  j = Len(p) /\ IsPrefix(p, q)
  <2>1. PICK a : EsRastro(t, a) /\ Len(a) = j /\ \A k \in 1 .. j : a[k] = s[k] BY <1>4
  <2>2. j \in 1 .. j /\ j \in Nat /\ j <= Len(s) BY <1>3
  <2>3. a[Len(a)] = r[Len(r)] BY <1>1, <1>5, <2>1, <2>2
  <2>4. a = r BY <1>1, <2>1, <2>3, RastroUnico
  <2>5. j = Len(p) BY <1>2, <2>1, <2>4
  <2>6. \A k \in 1 .. Len(p) : p[k] = q[k]
    <3>1. \A k \in 1 .. j : k \in 1 .. Len(s) BY <2>2
    <3>2. QED BY <3>1, <1>2, <1>3, <2>1, <2>4, <2>5
  <2>7. IsPrefix(p, q) BY <1>2, <1>3, <2>2, <2>5, <2>6, PrefijoEs
  <2>8. QED BY <2>5, <2>7
<1>6. ASSUME IsPrefix(p, q)
      PROVE  Len(p) \in 1 .. Len(s) /\ s[Len(p)] = n
  <2>1. Len(p) <= Len(q) /\ \A k \in 1 .. Len(p) : p[k] = q[k]
    BY <1>2, <1>3, <1>6, PrefijoEs
  <2>2. Len(p) \in 1 .. Len(s) BY <1>2, <1>3, <2>1
  <2>3. PICK a : /\ EsRastro(t, a) /\ Len(a) = Len(p)
                 /\ \A k \in 1 .. Len(p) : a[k] = s[k]
    BY <1>4, <2>2
  <2>4. /\ PathDe(t, a) \in Seq(Nombre) /\ Len(PathDe(t, a)) = Len(p)
        /\ \A k \in 1 .. Len(p) : PathDe(t, a)[k] = t[a[k]].fname
    BY <2>3, PathTipo
  <2>5. \A k \in 1 .. Len(p) : PathDe(t, a)[k] = p[k]
    <3>1. \A k \in 1 .. Len(p) : k \in 1 .. Len(s) BY <2>2, <1>3
    <3>2. QED BY <3>1, <2>1, <2>3, <2>4, <1>3
  <2>6. PathDe(t, a) = p BY <1>2, <2>4, <2>5, SeqEqual
  <2>7. Esta(t, p, a[Len(a)]) BY <2>3, <2>6 DEF Esta
  <2>8. a[Len(a)] = n BY <2>7, EstaUnNodo
  <2>9. Len(p) \in 1 .. Len(p) BY <2>2
  <2>10. QED BY <2>2, <2>3, <2>8, <2>9
<1>7. QED BY <1>5, <1>6 DEF q

\* Whatever is closed and has a node has all that is below its path.
LEMMA BajaTodo ==
  ASSUME NEW t, Ubicado(t), Unicos(t), NEW D, Cerrada(t, D), NEW p, NEW n, n \in D,
         Esta(t, p, n), NEW q, NEW i, Esta(t, q, i), IsPrefix(p, q)
  PROVE  i \in D
<1>1. PICK s : EsRastro(t, s) /\ q = PathDe(t, s) /\ s[Len(s)] = i BY DEF Esta
<1>2. PICK h : h = Len(p) /\ h \in 1 .. Len(s) /\ s[h] = n BY <1>1, RastroPasa
<1>3. Len(s) \in Nat /\ h \in Nat /\ h >= 1 /\ h <= Len(s) BY <1>1, <1>2, RastroTipo
<1>4. ASSUME NEW k \in 1 .. (Len(s) - 1), s[k] \in D PROVE s[k + 1] \in D
  <2>1. k + 1 \in 1 .. Len(s) BY <1>3
  <2>2. s[k + 1] \in Nodo BY <1>1, <2>1, RastroTipo
  <2>3. /\ t[s[k + 1]].state # 0
        /\ t[s[k + 1]].parent_dir_block = s[k] + bloqueInicioTablaDeNodos
    BY <1>1, <2>1 DEF EsRastro
  <2>4. QED BY <1>4, <2>2, <2>3 DEF Cerrada
<1> DEFINE S == {k \in h .. Len(s) : s[k] \notin D}
<1>5. S = {}
  <2>1. SUFFICES ASSUME S # {} PROVE FALSE OBVIOUS
  <2>2. PICK k \in S : \A y \in S : k <= y
    <3>1. S \subseteq Nat BY <1>3
    <3> HIDE DEF S
    <3>2. QED BY <2>1, <3>1, MinExiste
  <2>3. k \in h .. Len(s) /\ k \in Nat /\ s[k] \notin D BY <2>2, <1>3
  <2>4. k # h BY <2>3, <1>2
  <2>5. /\ k - 1 \in h .. Len(s) /\ k - 1 \in 1 .. (Len(s) - 1) /\ (k - 1) + 1 = k
        /\ ~ (k <= k - 1)
    BY <1>3, <2>3, <2>4
  <2>6. k - 1 \notin S BY <2>2, <2>5
  <2>7. s[k - 1] \in D BY <2>5, <2>6
  <2>8. s[(k - 1) + 1] \in D BY <1>4, <2>5, <2>7
  <2>9. QED BY <2>3, <2>5, <2>8
<1>6. Len(s) \in h .. Len(s) BY <1>3
<1>7. QED BY <1>1, <1>5, <1>6

\* borrar_directorio deletes what is at the path and below, and nothing else.
LEMMA DescProps ==
  ASSUME UnBloqueDeBitmap, Ubicado(tablaDeNodos), Unicos(tablaDeNodos),
         NEW p, NEW n, Esta(tablaDeNodos, p, n)
  PROVE  /\ Descendencia(n) \in SUBSET Nodo
         /\ Cerrada(tablaDeNodos, Descendencia(n))
         /\ \A q, i : Esta(tablaDeNodos, q, i) =>
              (i \in Descendencia(n) <=> IsPrefix(p, q))
<1> DEFINE t == tablaDeNodos
           D == Descendencia(n)
           X == {i \in Nodo : \E q : Esta(t, q, i) /\ IsPrefix(p, q)}
<1>1. \A S : Cerrado(S) <=> Cerrada(t, S)
  BY DEF Cerrado, Cerrada, Vivo, UnBloqueDeBitmap
<1>2. D = {i \in Nodo : \A S \in SUBSET Nodo : n \in S /\ Cerrada(t, S) => i \in S}
  BY <1>1 DEF Descendencia
<1> HIDE DEF D
<1>3. n \in Nodo /\ p \in Seq(Nombre) BY EstaTipo
<1>4. n \in D BY <1>2, <1>3
<1>5. Cerrada(t, D)
  <2>1. ASSUME NEW j \in D, NEW i \in Nodo, t[i].state # 0,
               t[i].parent_dir_block = j + bloqueInicioTablaDeNodos
        PROVE  i \in D
    <3>1. ASSUME NEW S \in SUBSET Nodo, n \in S, Cerrada(t, S) PROVE i \in S
      <4>1. j \in S BY <1>2, <3>1
      <4>2. QED BY <2>1, <3>1, <4>1 DEF Cerrada
    <3>2. QED BY <3>1, <1>2
  <2>2. QED BY <2>1 DEF Cerrada
<1>6. Cerrada(t, X)
  <2>1. ASSUME NEW j \in X, NEW i \in Nodo, t[i].state # 0,
               t[i].parent_dir_block = j + bloqueInicioTablaDeNodos
        PROVE  i \in X
    <3>1. PICK q : Esta(t, q, j) /\ IsPrefix(p, q) OBVIOUS
    <3> DEFINE w == Append(q, t[i].fname)
    <3>2. Esta(t, w, i) BY <2>1, <3>1, EstaHijo
    <3>3. IsPrefix(p, w)
      <4>1. q \in Seq(Nombre) /\ w \in Seq(Nombre) BY <3>1, <3>2, EstaTipo
      <4>2. t[i].fname \in Nombre BY <2>1 DEF Ubicado
      <4>3. /\ Len(w) = Len(q) + 1 /\ Len(q) \in Nat /\ Len(p) \in Nat
            /\ \A k \in 1 .. Len(q) : w[k] = q[k]
        BY <4>1, <4>2, <1>3, AppendProperties, LenProperties
      <4> HIDE DEF w
      <4>4. Len(p) <= Len(q) /\ \A k \in 1 .. Len(p) : p[k] = q[k]
        BY <1>3, <3>1, <4>1, PrefijoEs
      <4>5. Len(p) <= Len(w) BY <4>3, <4>4
      <4>6. \A k \in 1 .. Len(p) : p[k] = w[k]
        <5>1. \A k \in 1 .. Len(p) : k \in 1 .. Len(q) BY <4>3, <4>4
        <5>2. QED BY <5>1, <4>3, <4>4
      <4>7. QED BY <1>3, <4>1, <4>5, <4>6, PrefijoEs
    <3> HIDE DEF w
    <3>4. QED BY <3>2, <3>3
  <2>2. QED BY <2>1 DEF Cerrada
<1>7. n \in X
  <2>1. IsPrefix(p, p) BY <1>3, LenProperties DEF IsPrefix
  <2>2. QED BY <1>3, <2>1
<1>8. D \subseteq X
  <2>1. X \in SUBSET Nodo OBVIOUS
  <2> HIDE DEF X
  <2>2. QED BY <2>1, <1>2, <1>6, <1>7
<1>9. ASSUME NEW q, NEW i, Esta(t, q, i) PROVE i \in D <=> IsPrefix(p, q)
  <2>1. ASSUME i \in D PROVE IsPrefix(p, q)
    <3>1. PICK w : Esta(t, w, i) /\ IsPrefix(p, w) BY <1>8, <2>1
    <3>2. w = q BY <1>9, <3>1, EstaUnPath
    <3>3. QED BY <3>1, <3>2
  <2>2. ASSUME IsPrefix(p, q) PROVE i \in D BY <1>4, <1>5, <1>9, <2>2, BajaTodo
  <2>3. QED BY <2>1, <2>2
<1>10. D \in SUBSET Nodo BY <1>2
<1>11. QED BY <1>5, <1>9, <1>10 DEF D

-----------------------------------------------------------------------------
(* Moves                                                                   *)

Mudado(t, n, x, b) == [t EXCEPT ![n].fname = x, ![n].parent_dir_block = b]

\* r is the way to the directory of the path nuevo, empty for the root.
EsDestino(t, r, nuevo) ==
  /\ r \in Seq(Nodo) /\ Len(nuevo) = Len(r) + 1
  /\ \A k \in 1 .. Len(r) : nuevo[k] = t[r[k]].fname
  /\ r = <<>> \/ (EsRastro(t, r) /\ t[r[Len(r)]].state = 2)
BloqueDe(r) == IF r = <<>> THEN 0 ELSE r[Len(r)] + bloqueInicioTablaDeNodos

\* The directory of the destination is not below the node that moves.
LEMMA DestinoAparte ==
  ASSUME NEW t, Ubicado(t), Unicos(t), NEW p, NEW n, Esta(t, p, n),
         NEW nuevo \in Seq(Nombre), NEW r, EsDestino(t, r, nuevo), ~IsPrefix(p, nuevo)
  PROVE  \A k \in 1 .. Len(r) : r[k] # n
<1>1. SUFFICES ASSUME NEW k \in 1 .. Len(r), r[k] = n PROVE FALSE OBVIOUS
<1>2. r \in Seq(Nodo) /\ Len(r) \in Nat BY LenProperties DEF EsDestino
<1>3. r # <<>> BY <1>1, <1>2, EmptySeq
<1>4. EsRastro(t, r) BY <1>3 DEF EsDestino
<1>5. k = Len(p) /\ IsPrefix(p, PathDe(t, r)) BY <1>1, <1>4, RastroPasa
<1>6. /\ PathDe(t, r) \in Seq(Nombre) /\ Len(PathDe(t, r)) = Len(r)
      /\ \A j \in 1 .. Len(r) : PathDe(t, r)[j] = t[r[j]].fname
  BY <1>4, PathTipo
<1>7. p \in Seq(Nombre) BY EstaTipo
<1>8. \A j \in 1 .. Len(p) : p[j] = PathDe(t, r)[j] BY <1>5, <1>6, <1>7, PrefijoEs
<1>9. \A j \in 1 .. Len(p) : p[j] = nuevo[j]
  <2>1. \A j \in 1 .. Len(p) : j \in 1 .. Len(r) BY <1>2, <1>5
  <2>2. QED BY <2>1, <1>6, <1>8 DEF EsDestino
<1>10. Len(p) <= Len(nuevo) BY <1>2, <1>5 DEF EsDestino
<1>11. IsPrefix(p, nuevo) BY <1>7, <1>9, <1>10, PrefijoEs
<1>12. QED BY <1>11

\* What is at the path p and below goes to the path nuevo, and the rest stays.
Va(p, nuevo, q) == nuevo \o SubSeq(q, Len(p) + 1, Len(q))

EsVa(p, nuevo, q, z) ==
  /\ z \in Seq(Nombre)
  /\ Len(z) = Len(nuevo) + (Len(q) - Len(p))
  /\ Len(p) <= Len(q)
  /\ \A k \in 1 .. Len(nuevo) : z[k] = nuevo[k]
  /\ \A k \in 1 .. (Len(q) - Len(p)) : z[Len(nuevo) + k] = q[Len(p) + k]

LEMMA VaProps ==
  ASSUME NEW p \in Seq(Nombre), NEW nuevo \in Seq(Nombre), NEW q \in Seq(Nombre),
         IsPrefix(p, q)
  PROVE  EsVa(p, nuevo, q, Va(p, nuevo, q))
<1>1. Len(p) \in Nat /\ Len(q) \in Nat /\ Len(nuevo) \in Nat BY LenProperties
<1>2. Len(p) <= Len(q) BY PrefijoEs
<1> DEFINE c == SubSeq(q, Len(p) + 1, Len(q))
<1>3. /\ c \in Seq(Nombre) /\ Len(c) = Len(q) - Len(p)
      /\ \A k \in 1 .. (Len(q) - Len(p)) : c[k] = q[Len(p) + k]
  <2>1. \A k \in (Len(p) + 1) .. Len(q) : q[k] \in Nombre
    <3>1. \A k \in (Len(p) + 1) .. Len(q) : k \in 1 .. Len(q) BY <1>1
    <3>2. QED BY <3>1, ElementOfSeq
  <2>2. /\ c \in Seq(Nombre)
        /\ Len(c) = IF Len(p) + 1 <= Len(q) THEN Len(q) - (Len(p) + 1) + 1 ELSE 0
        /\ \A k \in 1 .. (Len(q) - (Len(p) + 1) + 1) : c[k] = q[Len(p) + 1 + k - 1]
    BY <1>1, <2>1, SubSeqProperties
  <2>3. QED BY <2>2, <1>1, <1>2
<1>4. Va(p, nuevo, q) = nuevo \o c BY DEF Va
<1> HIDE DEF c
<1>5. /\ nuevo \o c \in Seq(Nombre) /\ Len(nuevo \o c) = Len(nuevo) + Len(c)
      /\ \A k \in 1 .. (Len(nuevo) + Len(c)) :
           (nuevo \o c)[k] = IF k <= Len(nuevo) THEN nuevo[k] ELSE c[k - Len(nuevo)]
  BY <1>3, ConcatProperties
<1> DEFINE v == nuevo \o c
           l == Len(q) - Len(p)
           m == Len(nuevo)
<1>6. /\ \A k \in 1 .. (m + l) : v[k] = IF k <= m THEN nuevo[k] ELSE c[k - m]
      /\ \A k \in 1 .. l : c[k] = q[Len(p) + k]
      /\ m \in Nat /\ l \in Nat
  BY <1>1, <1>2, <1>3, <1>5
<1>7. Len(v) = m + l BY <1>3, <1>5
<1> HIDE DEF v, l, m
<1>8. \A k \in 1 .. m : v[k] = nuevo[k] BY <1>6
<1>9. ASSUME NEW k \in 1 .. l PROVE v[m + k] = q[Len(p) + k]
  <2>1. m + k \in 1 .. (m + l) /\ ~ (m + k <= m) /\ (m + k) - m = k BY <1>6
  <2>2. QED BY <2>1, <1>6
<1>10. EsVa(p, nuevo, q, nuevo \o c) BY <1>2, <1>5, <1>7, <1>8, <1>9 DEF v, l, m, EsVa
<1>11. QED BY <1>4, <1>10

LEMMA MudadoProps ==
  ASSUME NEW t, Tabla(t), NEW p, NEW n, Esta(t, p, n), NEW nuevo \in Seq(Nombre),
         NEW r, EsDestino(t, r, nuevo), Libre(t, nuevo[Len(nuevo)], BloqueDe(r)),
         ~IsPrefix(p, nuevo), NEW u, u = Mudado(t, n, nuevo[Len(nuevo)], BloqueDe(r))
  PROVE  /\ Tabla(u)
         /\ \A i \in Nodo : u[i].state = t[i].state
         /\ \A q, i : Esta(t, q, i) =>
              IF IsPrefix(p, q) THEN Esta(u, Va(p, nuevo, q), i) ELSE Esta(u, q, i)
<1> DEFINE B == bloqueInicioTablaDeNodos
           x == nuevo[Len(nuevo)]
           b == BloqueDe(r)
<1>1. t \in [Nodo -> GFile] /\ Ubicado(t) /\ Unicos(t) /\ Cuelgan(t) BY DEF Tabla
<1>2. n \in Nodo /\ t[n].state # 0 /\ p \in Seq(Nombre) /\ Len(p) \in Nat /\ Len(p) >= 1
  BY <1>1, EstaTipo
<1>3. PICK h : h = Len(r) /\ h \in Nat /\ r \in Seq(Nodo) /\ Len(nuevo) = h + 1
               /\ \A k \in 1 .. h : r[k] \in Nodo
  BY LenProperties, ElementOfSeq DEF EsDestino
<1>4. \A k \in 1 .. h : r[k] # n BY <1>1, <1>3, DestinoAparte
<1>5. h = 0 <=> r = <<>> BY <1>3, EmptySeq
<1>6. x \in Nombre /\ \A k \in 1 .. h : nuevo[k] = t[r[k]].fname
  <2>1. Len(nuevo) \in 1 .. Len(nuevo) BY <1>3
  <2>2. QED BY <2>1, <1>3, ElementOfSeq DEF EsDestino
<1>7. b \in Nat /\ (b = 0 \/ \E j \in Nodo : b = j + B /\ t[j].state = 2)
  <2>1. CASE h = 0 BY <2>1, <1>5 DEF BloqueDe
  <2>2. CASE h # 0
    <3>1. b = r[h] + B /\ t[r[h]].state = 2 BY <2>2, <1>3, <1>5 DEF BloqueDe, EsDestino
    <3>2. r[h] \in Nodo BY <2>2, <1>3
    <3>3. Nodo \subseteq Nat /\ B \in Nat BY NodoProps
    <3> HIDE DEF b, B
    <3>n. r[h] \in Nat BY <3>2, <3>3
    <3>4. b \in Nat BY <3>1, <3>n, <3>3
    <3>5. QED BY <3>1, <3>2, <3>4
  <2>3. QED BY <2>1, <2>2
<1>8. \A i \in Nodo : t[i].state # 0 => ~ (t[i].fname = x /\ t[i].parent_dir_block = b)
  BY DEF Libre
<1> HIDE DEF x, b
<1>9. /\ \A i \in Nodo : i # n => u[i] = t[i]
      /\ u[n].state = t[n].state /\ u[n].fname = x /\ u[n].parent_dir_block = b
      /\ u \in [Nodo -> GFile]
  <2>1. u = Mudado(t, n, x, b) BY DEF x, b
  <2>2. u = [t EXCEPT ![n].fname = x, ![n].parent_dir_block = b] BY <2>1 DEF Mudado
  <2>3. t[n] \in GFile BY <1>1, <1>2
  <2> DEFINE e == [[t[n] EXCEPT !.fname = x] EXCEPT !.parent_dir_block = b]
  <2>4. u = [t EXCEPT ![n] = e] BY <2>2, <1>1, <1>2
  <2>5. /\ e.state = t[n].state /\ e.fname = x /\ e.parent_dir_block = b
        /\ e \in GFile
    BY <2>3, <1>6, <1>7 DEF GFile
  <2> HIDE DEF e
  <2>6. QED BY <2>4, <2>5, <1>1, <1>2
<1>10. \A i \in Nodo : u[i].state = t[i].state BY <1>9
<1>11. Ubicado(u)
  <2>1. ASSUME NEW i \in Nodo, u[i].state # 0
        PROVE  /\ u[i].fname \in Nombre
               /\ \/ u[i].parent_dir_block = 0
                  \/ \E j \in Nodo : u[i].parent_dir_block = j + B /\ u[j].state = 2
    <3>1. CASE i = n BY <3>1, <1>6, <1>7, <1>9, <1>10
    <3>2. CASE i # n
      <4>1. u[i] = t[i] /\ t[i].state # 0 BY <2>1, <3>2, <1>9
      <4>2. QED BY <4>1, <1>1, <1>10 DEF Ubicado
    <3>3. QED BY <3>1, <3>2
  <2>2. QED BY <2>1 DEF Ubicado
<1>12. Unicos(u)
  <2>1. ASSUME NEW i \in Nodo, NEW j \in Nodo, u[i].state # 0, u[j].state # 0,
               u[i].fname = u[j].fname, u[i].parent_dir_block = u[j].parent_dir_block
        PROVE  i = j
    <3>1. t[i].state # 0 /\ t[j].state # 0 BY <2>1, <1>10
    <3>2. CASE i = n /\ j # n BY <3>1, <3>2, <2>1, <1>8, <1>9
    <3>3. CASE i # n /\ j = n BY <3>1, <3>3, <2>1, <1>8, <1>9
    <3>4. CASE i # n /\ j # n
      <4>1. u[i] = t[i] /\ u[j] = t[j] BY <3>4, <1>9
      <4>2. QED BY <2>1, <3>1, <4>1, <1>1 DEF Unicos
    <3>5. QED BY <3>2, <3>3, <3>4
  <2>2. QED BY <2>1 DEF Unicos
<1>13. ASSUME NEW s, EsRastro(t, s), ~IsPrefix(p, PathDe(t, s))
       PROVE  EsRastro(u, s) /\ PathDe(u, s) = PathDe(t, s)
  <2>1. \A k \in 1 .. Len(s) : s[k] \in Nodo /\ t[s[k]].state # 0 /\ s[k] # n
    BY <1>1, <1>13, RastroTipo, RastroPasa DEF EsRastro
  <2>2. \A k \in 1 .. Len(s) : u[s[k]] = t[s[k]] BY <2>1, <1>9
  <2>3. \A k \in 1 .. Len(s) : /\ u[s[k]].state # 0
                               /\ u[s[k]].parent_dir_block = t[s[k]].parent_dir_block
    BY <2>1, <2>2
  <2>4. EsRastro(u, s) BY <1>13, <2>3, RastroQueda
  <2>5. PathDe(u, s) = PathDe(t, s) BY <2>2 DEF PathDe
  <2>6. QED BY <2>4, <2>5
<1>14. ASSUME NEW s, EsRastro(t, s), IsPrefix(p, PathDe(t, s))
       PROVE  Esta(u, Va(p, nuevo, PathDe(t, s)), s[Len(s)])
  <2> DEFINE q == PathDe(t, s)
  <2>1. PICK j : j = Len(p) /\ j \in 1 .. Len(s) /\ s[j] = n BY <1>1, <1>14, RastroPasa
  <2>2. PICK l : l = Len(s) - j /\ l \in Nat /\ Len(s) = j + l /\ j \in Nat /\ j >= 1
    <3>1. Len(s) \in Nat BY <1>14, RastroTipo
    <3>2. QED BY <3>1, <2>1
  <2>3. \A k \in 1 .. (j + l) : s[k] \in Nodo /\ t[s[k]].state # 0
    BY <1>14, <2>2, RastroTipo DEF EsRastro
  <2>4. ASSUME NEW k \in 1 .. (j + l), k # j PROVE s[k] # n
    <3>1. \A i \in 1 .. Len(s) : s[i] = n => i = Len(p) BY <1>1, <1>14, RastroPasa
    <3>2. QED BY <3>1, <2>1, <2>2, <2>4
  <2>5. \A k \in 1 .. (j + l - 1) : t[s[k + 1]].parent_dir_block = s[k] + B
    <3>1. \A k \in 1 .. (Len(s) - 1) : t[s[k + 1]].parent_dir_block = s[k] + B
      BY <1>14 DEF EsRastro
    <3>2. Len(s) - 1 = j + l - 1 BY <2>2
    <3>3. QED BY <3>1, <3>2
  <2> DEFINE w == [m \in 1 .. (h + 1 + l) |-> IF m <= h THEN r[m] ELSE s[j + (m - h - 1)]]
  <2>6. /\ \A m \in 1 .. h : w[m] = r[m]
        /\ \A m \in 0 .. l : w[h + 1 + m] = s[j + m]
    <3>1. \A m \in 1 .. h : m \in 1 .. (h + 1 + l) /\ m <= h BY <1>3, <2>2
    <3>2. ASSUME NEW m \in 0 .. l PROVE w[h + 1 + m] = s[j + m]
      <4>1. h + 1 + m \in 1 .. (h + 1 + l) /\ ~ (h + 1 + m <= h)
            /\ (h + 1 + m) - h - 1 = m
        BY <1>3, <2>2
      <4>2. QED BY <4>1
    <3>3. QED BY <3>1, <3>2
  <2>7. ASSUME NEW m \in 1 .. (h + 1 + l)
        PROVE  m \in 1 .. h \/ \E k \in 0 .. l : m = h + 1 + k
    <3>1. CASE m <= h BY <3>1, <1>3
    <3>2. CASE m > h
      <4>1. m - h - 1 \in 0 .. l /\ m = h + 1 + (m - h - 1) BY <3>2, <1>3, <2>2
      <4>2. QED BY <4>1
    <3>3. QED BY <3>1, <3>2, <1>3, <2>2
  <2>8. w = [m \in 1 .. (h + 1 + l) |-> w[m]] OBVIOUS
  <2> HIDE DEF w
  <2>9. \A k \in 0 .. l : j + k \in 1 .. (j + l) BY <2>2
  <2>10. \A m \in 1 .. (h + 1 + l) : w[m] \in Nodo /\ u[w[m]].state # 0
    <3>1. ASSUME NEW m \in 1 .. h PROVE w[m] \in Nodo /\ u[w[m]].state # 0
      <4>1. r[m] \in Nodo BY <1>3
      <4>2. h # 0 BY <1>3
      <4>3. EsRastro(t, r) BY <4>2, <1>5 DEF EsDestino
      <4>4. t[r[m]].state # 0 BY <4>3, <1>3 DEF EsRastro
      <4>5. QED BY <4>1, <4>4, <2>6, <1>10
    <3>2. ASSUME NEW k \in 0 .. l PROVE w[h + 1 + k] \in Nodo /\ u[w[h + 1 + k]].state # 0
      BY <2>3, <2>6, <2>9, <1>10
    <3>3. QED BY <3>1, <3>2, <2>7
  <2>11. w \in Seq(Nodo) /\ Len(w) = h + 1 + l /\ w # <<>>
    <3>1. w \in [1 .. (h + 1 + l) -> Nodo] BY <2>8, <2>10
    <3>2. h + 1 + l \in Nat /\ h + 1 + l # 0 BY <1>3, <2>2
    <3>3. w \in Seq(Nodo) /\ Len(w) = h + 1 + l BY <3>1, <3>2, SeqDe
    <3>4. QED BY <3>2, <3>3, EmptySeq
  <2>12. w[h + 1] = n
    <3>1. 0 \in 0 .. l /\ h + 1 + 0 = h + 1 /\ j + 0 = j BY <1>3, <2>2
    <3>2. w[h + 1 + 0] = s[j + 0] BY <3>1, <2>6
    <3>3. QED BY <3>1, <3>2, <2>1
  <2>13. u[w[1]].parent_dir_block = 0
    <3>1. CASE h = 0
      <4>1. w[1] = n BY <3>1, <2>12
      <4>2. b = 0 BY <3>1, <1>5 DEF b, BloqueDe
      <4>3. QED BY <4>1, <4>2, <1>9
    <3>2. CASE h # 0
      <4>1. EsRastro(t, r) BY <3>2, <1>5 DEF EsDestino
      <4>2. 1 \in 1 .. h BY <3>2, <1>3
      <4>3. w[1] = r[1] /\ r[1] # n /\ r[1] \in Nodo BY <4>2, <2>6, <1>3, <1>4
      <4>4. t[r[1]].parent_dir_block = 0 BY <4>1 DEF EsRastro
      <4>5. QED BY <4>3, <4>4, <1>9
    <3>3. QED BY <3>1, <3>2
  <2>14. ASSUME NEW m \in 1 .. (h + l)
         PROVE  u[w[m + 1]].parent_dir_block = w[m] + B
    <3>1. CASE m < h
      <4>1. m \in 1 .. h /\ m + 1 \in 1 .. h /\ m \in 1 .. (h - 1) BY <3>1, <1>3
      <4>2. EsRastro(t, r) BY <4>1, <1>5 DEF EsDestino
      <4>3. t[r[m + 1]].parent_dir_block = r[m] + B BY <4>1, <4>2, <1>3 DEF EsRastro
      <4>4. w[m] = r[m] /\ w[m + 1] = r[m + 1] BY <4>1, <2>6
      <4>5. r[m + 1] # n /\ r[m + 1] \in Nodo BY <4>1, <1>3, <1>4
      <4>6. QED BY <4>3, <4>4, <4>5, <1>9
    <3>2. CASE m = h
      <4>1. m \in 1 .. h BY <3>2
      <4>2. w[m + 1] = n /\ w[m] = r[h] BY <3>2, <4>1, <2>6, <2>12
      <4>3. r # <<>> BY <4>1, <1>3, <1>5
      <4>4. b = r[h] + B BY <4>3, <1>3 DEF b, BloqueDe
      <4>5. QED BY <4>2, <4>4, <1>9
    <3>3. CASE m > h
      <4>1. PICK k : k = m - h - 1 /\ k \in 0 .. (l - 1) /\ m = h + 1 + k BY <3>3, <1>3, <2>2
      <4>2. k \in 0 .. l /\ k + 1 \in 0 .. l /\ j + k \in 1 .. (j + l - 1)
            /\ j + k + 1 \in 1 .. (j + l) /\ j + k + 1 # j
            /\ m + 1 = h + 1 + (k + 1) /\ j + (k + 1) = j + k + 1
        BY <4>1, <2>2, <1>3
      <4>3. w[m] = s[j + k] /\ w[m + 1] = s[j + k + 1]
        <5>1. w[h + 1 + k] = s[j + k] BY <4>2, <2>6
        <5>2. w[h + 1 + (k + 1)] = s[j + (k + 1)] BY <4>2, <2>6
        <5>3. QED BY <5>1, <5>2, <4>1, <4>2
      <4>4. t[s[j + k + 1]].parent_dir_block = s[j + k] + B BY <4>2, <2>5
      <4>5. s[j + k + 1] \in Nodo /\ s[j + k + 1] # n BY <4>2, <2>3, <2>4
      <4>6. QED BY <4>3, <4>4, <4>5, <1>9
    <3>4. QED BY <3>1, <3>2, <3>3, <1>3, <2>2
  <2>15. EsRastro(u, w)
    <3>1. Len(w) - 1 = h + l BY <2>11, <1>3, <2>2
    <3>2. \A k \in 1 .. Len(w) : u[w[k]].state # 0 BY <2>10, <2>11
    <3>3. \A k \in 1 .. (Len(w) - 1) :
            u[w[k + 1]].parent_dir_block = w[k] + bloqueInicioTablaDeNodos BY <3>1, <2>14
    <3>4. QED BY <2>11, <2>13, <3>2, <3>3 DEF EsRastro
  <2>16. w[Len(w)] = s[Len(s)]
    <3>1. l \in 0 .. l BY <2>2
    <3>2. w[h + 1 + l] = s[j + l] BY <3>1, <2>6
    <3>3. QED BY <3>2, <2>2, <2>11
  <2>17. /\ q \in Seq(Nombre) /\ Len(q) = j + l
         /\ \A k \in 1 .. (j + l) : q[k] = t[s[k]].fname
    BY <1>1, <1>14, <2>2, PathTipo
  <2> HIDE DEF q
  <2> DEFINE z == Va(p, nuevo, q)
  <2>18. /\ z \in Seq(Nombre) /\ Len(z) = h + 1 + l
         /\ \A k \in 1 .. (h + 1) : z[k] = nuevo[k]
         /\ \A k \in 1 .. l : z[h + 1 + k] = q[j + k]
    <3>1. IsPrefix(p, q) BY <1>14 DEF q
    <3>2. /\ z \in Seq(Nombre) /\ Len(z) = Len(nuevo) + (Len(q) - Len(p))
          /\ \A k \in 1 .. Len(nuevo) : z[k] = nuevo[k]
          /\ \A k \in 1 .. (Len(q) - Len(p)) : z[Len(nuevo) + k] = q[Len(p) + k]
      <4>1. p \in Seq(Nombre) /\ q \in Seq(Nombre) /\ nuevo \in Seq(Nombre)
        BY <1>2, <2>17
      <4>2. EsVa(p, nuevo, q, z) BY <3>1, <4>1, VaProps
      <4> HIDE DEF z
      <4>3. QED BY <4>2 DEF EsVa
    <3>3. Len(q) - Len(p) = l /\ Len(nuevo) = h + 1 /\ Len(p) = j
      BY <1>3, <2>1, <2>2, <2>17
    <3> HIDE DEF z
    <3>4. QED BY <3>2, <3>3
  <2> HIDE DEF z
  <2>19. PathDe(u, w) = z
    <3>1. /\ PathDe(u, w) \in Seq(Nombre) /\ Len(PathDe(u, w)) = h + 1 + l
          /\ \A k \in 1 .. (h + 1 + l) : PathDe(u, w)[k] = u[w[k]].fname
      BY <1>11, <2>11, <2>15, PathTipo
    <3>2. ASSUME NEW k \in 1 .. h PROVE u[w[k]].fname = z[k]
      <4>1. w[k] = r[k] /\ r[k] # n /\ r[k] \in Nodo BY <2>6, <1>3, <1>4
      <4>2. u[w[k]].fname = t[r[k]].fname BY <4>1, <1>9
      <4>3. k \in 1 .. (h + 1) BY <1>3
      <4>4. QED BY <4>2, <4>3, <1>6, <2>18
    <3>3. u[w[h + 1]].fname = z[h + 1]
      <4>1. h + 1 \in 1 .. (h + 1) BY <1>3
      <4>2. z[h + 1] = x BY <4>1, <2>18, <1>3 DEF x
      <4>3. QED BY <4>2, <2>12, <1>9
    <3>4. ASSUME NEW k \in 1 .. l PROVE u[w[h + 1 + k]].fname = z[h + 1 + k]
      <4>1. k \in 0 .. l /\ j + k \in 1 .. (j + l) /\ j + k # j BY <2>2
      <4>2. w[h + 1 + k] = s[j + k] BY <4>1, <2>6
      <4>3. s[j + k] \in Nodo /\ s[j + k] # n BY <4>1, <2>3, <2>4
      <4>4. QED BY <4>1, <4>2, <4>3, <1>9, <2>17, <2>18
    <3>5. ASSUME NEW k \in 1 .. (h + 1 + l) PROVE PathDe(u, w)[k] = z[k]
      <4>1. u[w[k]].fname = z[k]
        <5>1. CASE k \in 1 .. h BY <5>1, <3>2
        <5>2. ASSUME NEW m \in 0 .. l, k = h + 1 + m PROVE u[w[k]].fname = z[k]
          <6>1. CASE m = 0
            <7>1. k = h + 1 BY <5>2, <6>1, <1>3
            <7>2. QED BY <7>1, <3>3
          <6>2. CASE m # 0
            <7>1. m \in 1 .. l BY <6>2, <2>2
            <7>2. QED BY <7>1, <5>2, <3>4
          <6>3. QED BY <6>1, <6>2
        <5>3. QED BY <5>1, <5>2, <2>7
      <4>2. QED BY <4>1, <3>1
    <3>6. QED BY <3>1, <3>5, <2>18, SeqEqual
  <2>20. QED BY <2>15, <2>16, <2>19 DEF Esta, z, q
<1>15. ASSUME NEW q, NEW i, Esta(t, q, i)
       PROVE  IF IsPrefix(p, q) THEN Esta(u, Va(p, nuevo, q), i) ELSE Esta(u, q, i)
  <2>1. PICK s : EsRastro(t, s) /\ q = PathDe(t, s) /\ s[Len(s)] = i BY <1>15 DEF Esta
  <2>2. CASE IsPrefix(p, q) BY <2>1, <2>2, <1>14
  <2>3. CASE ~IsPrefix(p, q)
    <3>1. EsRastro(u, s) /\ PathDe(u, s) = q BY <2>1, <2>3, <1>13
    <3>2. Esta(u, q, i) BY <3>1, <2>1 DEF Esta
    <3>3. QED BY <3>2, <2>3
  <2>4. QED BY <2>2, <2>3
<1>16. Cuelgan(u)
  <2>1. ASSUME NEW i \in Nodo, u[i].state # 0 PROVE \E q : Esta(u, q, i)
    <3>1. t[i].state # 0 BY <2>1, <1>10
    <3>2. \E q : Esta(t, q, i) BY <3>1, <1>1, EstaTodo
    <3>3. QED BY <3>2, <1>15
  <2>2. QED BY <2>1 DEF Cuelgan, Esta
<1>17. Tabla(u) BY <1>9, <1>11, <1>12, <1>16 DEF Tabla
<1>18. QED BY <1>10, <1>15, <1>17

-----------------------------------------------------------------------------
(* Requests                                                                *)

\* A path, the path of its directory and its last name.
LEMMA CaminoProps ==
  ASSUME NEW p \in Camino
  PROVE  /\ p \in Seq(Nombre) /\ p # <<>> /\ Len(p) \in Nat /\ Len(p) >= 1
         /\ Front(p) \in Seq(Nombre) /\ Len(Front(p)) = Len(p) - 1
         /\ \A k \in 1 .. (Len(p) - 1) : Front(p)[k] = p[k]
         /\ Last(p) \in Nombre /\ Last(p) = p[Len(p)]
         /\ Append(Front(p), Last(p)) = p
         /\ Front(p) = <<>> <=> Len(p) = 1
<1>1. PICK n \in 1 .. MaxProf : p \in [1 .. n -> Nombre] BY DEF Camino
<1>2. n \in Nat /\ n >= 1 BY ArbolAssumption
<1>3. p \in Seq(Nombre) /\ Len(p) = n BY <1>1, <1>2, SeqDe
<1>4. \A k \in 1 .. n : p[k] \in Nombre BY <1>1
<1> DEFINE q == Front(p)
           x == Last(p)
<1>5. x \in Nombre /\ x = p[n] BY <1>2, <1>3, <1>4 DEF Last
<1>6. q = SubSeq(p, 1, n - 1) BY <1>3 DEF Front
<1>7. /\ q \in Seq(Nombre) /\ Len(q) = n - 1
      /\ \A k \in 1 .. (n - 1) : q[k] = p[k]
  <2>1. 1 \in Int /\ n - 1 \in Int /\ (\A k \in 1 .. (n - 1) : p[k] \in Nombre)
    BY <1>2, <1>4
  <2>2. /\ q \in Seq(Nombre)
        /\ Len(q) = IF 1 <= n - 1 THEN n - 1 - 1 + 1 ELSE 0
        /\ \A k \in 1 .. (n - 1 - 1 + 1) : q[k] = p[1 + k - 1]
    BY <1>6, <2>1, SubSeqProperties
  <2>3. \A k \in 1 .. (n - 1) : k \in 1 .. (n - 1 - 1 + 1) /\ 1 + k - 1 = k BY <1>2
  <2>4. Len(q) = n - 1 BY <1>2, <2>2
  <2> HIDE DEF q
  <2>5. QED BY <2>2, <2>3, <2>4
<1> HIDE DEF q, x
<1>8. /\ Append(q, x) \in Seq(Nombre) /\ Len(Append(q, x)) = n
      /\ \A k \in 1 .. n : Append(q, x)[k] = p[k]
  <2>1. /\ Append(q, x) \in Seq(Nombre)
        /\ Len(Append(q, x)) = Len(q) + 1
        /\ \A k \in 1 .. Len(q) : Append(q, x)[k] = q[k]
        /\ Append(q, x)[Len(q) + 1] = x
    BY <1>5, <1>7, AppendProperties
  <2>2. n - 1 + 1 = n /\ (\A k \in 1 .. n : k \in 1 .. (n - 1) \/ k = n) BY <1>2
  <2>3. QED BY <1>5, <1>7, <2>1, <2>2
<1>9. Append(q, x) = p BY <1>3, <1>8, SeqEqual
<1>10. q = <<>> <=> n = 1
  <2>1. q = <<>> <=> Len(q) = 0 BY <1>7, EmptySeq
  <2>2. QED BY <1>2, <1>7, <2>1
<1>11. p # <<>> BY <1>2, <1>3, EmptySeq
<1>12. QED BY <1>2, <1>3, <1>5, <1>7, <1>9, <1>10, <1>11 DEF q, x

\* determine_nodo finds the node that is at a path, and nothing where there is none.
LEMMA DetermineEs ==
  ASSUME Ubicado(tablaDeNodos), Unicos(tablaDeNodos), NEW p \in Seq(Nombre), p # <<>>
  PROVE  /\ \A i : Esta(tablaDeNodos, p, i) => determine_nodo(p) = i
         /\ determine_nodo(p) # -1 => Esta(tablaDeNodos, p, determine_nodo(p))
<1>1. ASSUME NEW i, Esta(tablaDeNodos, p, i) PROVE determine_nodo(p) = i
  BY <1>1, Encuentra DEF Esta
<1>2. ASSUME determine_nodo(p) # -1 PROVE Esta(tablaDeNodos, p, determine_nodo(p))
  BY <1>2, Encontrado DEF Esta
<1>3. QED BY <1>1, <1>2

Hay(t, p) == \E i : Esta(t, p, i)
HayCarpeta(t, p) == p = <<>> \/ \E i : Esta(t, p, i) /\ t[i].state = 2

\* A call that the kernel makes with the table t, and that its server serves well.
Legal(t, r) ==
  /\ r \in Pedido
  /\ r.op \in {"mknod", "mkdir"} => ~Hay(t, r.path) /\ HayCarpeta(t, Front(r.path))
  /\ r.op = "unlink" => \E i : Esta(t, r.path, i) /\ t[i].state = 1
  /\ r.op = "rmdir"  => \E i : Esta(t, r.path, i) /\ t[i].state = 2
  /\ r.op = "rename" =>
       /\ Hay(t, r.path) /\ HayCarpeta(t, Front(r.nuevo))
       /\ ~IsPrefix(r.path, r.nuevo) /\ ~IsPrefix(r.nuevo, r.path)
       /\ Len(r.nuevo) = 1 => ~Hay(t, r.nuevo)
       /\ Len(r.nuevo) > 1 => ~Esta(t, Front(r.nuevo), 0)

LEMMA PedidoTipo ==
  ASSUME NEW r \in Pedido
  PROVE  /\ r.op \in {"mknod", "mkdir", "unlink", "rmdir", "rename"}
         /\ r.path \in Camino
         /\ r.op = "rename" => r.nuevo \in Camino
BY DEF Pedido

LEMMA HayCarpetaEs ==
  ASSUME Ubicado(tablaDeNodos), Unicos(tablaDeNodos), NEW p \in Seq(Nombre), Carpeta(p)
  PROVE  HayCarpeta(tablaDeNodos, p)
<1>1. CASE p = <<>> BY <1>1 DEF HayCarpeta
<1>2. CASE p # <<>>
  <2>1. determine_nodo(p) # -1 /\ tablaDeNodos[determine_nodo(p)].state = 2
    BY <1>2 DEF Carpeta
  <2>2. Esta(tablaDeNodos, p, determine_nodo(p)) BY <1>2, <2>1, DetermineEs
  <2>3. QED BY <2>1, <2>2 DEF HayCarpeta
<1>3. QED BY <1>1, <1>2

LEMMA HayEs ==
  ASSUME Ubicado(tablaDeNodos), Unicos(tablaDeNodos), NEW p \in Seq(Nombre), p # <<>>
  PROVE  Hay(tablaDeNodos, p) <=> determine_nodo(p) # -1
<1>1. ASSUME NEW i, Esta(tablaDeNodos, p, i) PROVE determine_nodo(p) # -1
  <2>1. i \in Nat BY <1>1, EstaTipo, NodoProps
  <2>2. determine_nodo(p) = i BY <1>1, DetermineEs
  <2>3. QED BY <2>1, <2>2
<1>2. ASSUME determine_nodo(p) # -1 PROVE Hay(tablaDeNodos, p)
  BY <1>2, DetermineEs DEF Hay
<1>3. QED BY <1>1, <1>2 DEF Hay

\* No client moves anything into the directory that is node 0, which the server takes for
\* the root, or onto a name of the root, where the server does not look for it.
DestinosSanos == Extremos \cap {"pisa", "nodo_cero"} = {}

LEMMA PedidoEs ==
  ASSUME DestinosSanos, Ubicado(tablaDeNodos), Unicos(tablaDeNodos),
         NEW r \in Pedido, Procede(r), Evitado(r) \subseteq Extremos
  PROVE  Legal(tablaDeNodos, r)
<1>1. r.op \in {"mknod", "mkdir", "unlink", "rmdir", "rename"} /\ r.path \in Camino
  BY PedidoTipo
<1> DEFINE p == r.path
           n == determine_nodo(p)
<1>2. /\ p \in Seq(Nombre) /\ p # <<>> /\ Front(p) \in Seq(Nombre)
  BY <1>1, CaminoProps
<1>3. CASE r.op \in {"mknod", "mkdir"}
  <2>1. n = -1 /\ Carpeta(Front(p)) BY <1>3 DEF Procede
  <2>2. ~Hay(tablaDeNodos, p) BY <1>2, <2>1, HayEs
  <2>3. HayCarpeta(tablaDeNodos, Front(p)) BY <1>2, <2>1, HayCarpetaEs
  <2>4. QED BY <1>3, <2>2, <2>3 DEF Legal
<1>4. ASSUME NEW e, n # -1, tablaDeNodos[n].state = e
      PROVE  \E i : Esta(tablaDeNodos, p, i) /\ tablaDeNodos[i].state = e
  <2>1. Esta(tablaDeNodos, p, n) BY <1>2, <1>4, DetermineEs
  <2>2. QED BY <1>4, <2>1
<1>5. CASE r.op = "unlink"
  <2>1. n # -1 /\ tablaDeNodos[n].state = 1 BY <1>5 DEF Procede
  <2>2. QED BY <1>4, <1>5, <2>1 DEF Legal
<1>6. CASE r.op = "rmdir"
  <2>1. n # -1 /\ tablaDeNodos[n].state = 2 BY <1>6 DEF Procede
  <2>2. QED BY <1>4, <1>6, <2>1 DEF Legal
<1>7. CASE r.op = "rename"
  <2> DEFINE v == r.nuevo
  <2>1. v \in Camino BY <1>7, PedidoTipo
  <2>2. /\ v \in Seq(Nombre) /\ v # <<>> /\ Front(v) \in Seq(Nombre)
        /\ Len(v) \in Nat /\ Len(v) >= 1 /\ (Front(v) = <<>> <=> Len(v) = 1)
    BY <2>1, CaminoProps
  <2>3. n # -1 /\ Carpeta(Front(v)) /\ ~IsPrefix(p, v) /\ ~IsPrefix(v, p)
    BY <1>7 DEF Procede
  <2>4. Hay(tablaDeNodos, p) BY <1>2, <2>3, HayEs
  <2>5. HayCarpeta(tablaDeNodos, Front(v)) BY <2>2, <2>3, HayCarpetaEs
  <2>6. /\ Len(v) = 1 /\ determine_nodo(v) # -1 => "pisa" \in Evitado(r)
        /\ Len(v) > 1 /\ determine_nodo(Front(v)) = 0 => "nodo_cero" \in Evitado(r)
    BY <1>7 DEF Evitado
  <2>7. "pisa" \notin Evitado(r) /\ "nodo_cero" \notin Evitado(r) BY DEF DestinosSanos
  <2>8. Len(v) = 1 => ~Hay(tablaDeNodos, v) BY <2>2, <2>6, <2>7, HayEs
  <2>9. ASSUME Len(v) > 1, Esta(tablaDeNodos, Front(v), 0) PROVE FALSE
    <3>1. Front(v) # <<>>
      <4>1. PICK l \in Nat : l = Len(v) BY <2>2
      <4>2. l > 1 BY <4>1, <2>9
      <4>3. l # 1 BY <4>2
      <4>4. QED BY <4>1, <4>3, <2>2
    <3>2. determine_nodo(Front(v)) = 0 BY <2>2, <2>9, <3>1, DetermineEs
    <3>3. QED BY <2>6, <2>7, <2>9, <3>2
  <2>10. QED BY <1>7, <2>3, <2>4, <2>5, <2>8, <2>9 DEF Legal
<1>8. QED BY <1>1, <1>3, <1>5, <1>6, <1>7

-----------------------------------------------------------------------------
(* The tree of paths                                                       *)

Clase(e) == IF e = 1 THEN "archivo" ELSE "directorio"
ArbolDe(t) ==
  [p \in {q \in Seq(Nombre) : Hay(t, q)} |-> Clase(t[CHOOSE i : Esta(t, p, i)].state)]

LEMMA ArbolDeEs ==
  ASSUME NEW t, Tabla(t)
  PROVE  /\ \A p : p \in DOMAIN ArbolDe(t) <=> Hay(t, p)
         /\ \A p, i : Esta(t, p, i) => p \in DOMAIN ArbolDe(t)
                                       /\ ArbolDe(t)[p] = Clase(t[i].state)
<1>1. Ubicado(t) /\ Unicos(t) BY DEF Tabla
<1>2. \A p : Hay(t, p) => p \in Seq(Nombre) BY <1>1, EstaTipo DEF Hay
<1>3. DOMAIN ArbolDe(t) = {q \in Seq(Nombre) : Hay(t, q)} BY DEF ArbolDe
<1>4. \A p : p \in DOMAIN ArbolDe(t) <=> Hay(t, p) BY <1>2, <1>3
<1>5. ASSUME NEW p, NEW i, Esta(t, p, i)
      PROVE  p \in DOMAIN ArbolDe(t) /\ ArbolDe(t)[p] = Clase(t[i].state)
  <2>1. p \in DOMAIN ArbolDe(t) BY <1>4, <1>5 DEF Hay
  <2>2. ArbolDe(t)[p] = Clase(t[CHOOSE j : Esta(t, p, j)].state) BY <2>1, <1>3 DEF ArbolDe
  <2>3. Esta(t, p, CHOOSE j : Esta(t, p, j)) BY <1>5
  <2>4. (CHOOSE j : Esta(t, p, j)) = i BY <1>1, <1>5, <2>3, EstaUnNodo
  <2>5. QED BY <2>1, <2>2, <2>4
<1>6. QED BY <1>4, <1>5

\* The tree of a table, given by its paths and what is at each.
LEMMA ArbolIgual ==
  ASSUME NEW u, Tabla(u), NEW f, f = [q \in DOMAIN f |-> f[q]],
         \A p, i : Esta(u, p, i) => p \in DOMAIN f /\ f[p] = Clase(u[i].state),
         \A p \in DOMAIN f : Hay(u, p)
  PROVE  ArbolDe(u) = f
<1> DEFINE a == ArbolDe(u)
<1>1. a = [q \in DOMAIN a |-> a[q]] BY DEF ArbolDe
<1>2. /\ \A p : p \in DOMAIN a <=> Hay(u, p)
      /\ \A p, i : Esta(u, p, i) => a[p] = Clase(u[i].state)
  BY ArbolDeEs
<1> HIDE DEF a
<1>3. DOMAIN a = DOMAIN f BY <1>2 DEF Hay
<1>4. ASSUME NEW p \in DOMAIN f PROVE a[p] = f[p]
  <2>1. PICK i : Esta(u, p, i) BY <1>4 DEF Hay
  <2>2. QED BY <1>2, <2>1
<1>5. a = f BY <1>1, <1>3, <1>4
<1>6. QED BY <1>5 DEF a

LEMMA AltaEs ==
  ASSUME NEW t, Tabla(t), NEW u, NEW m, NEW p, NEW e, NEW x, NEW b,
         Agregado(t, u, m, e, x, b), ~Hay(t, p), Esta(u, p, m)
  PROVE  ArbolDe(u) = Promesa!Alta(ArbolDe(t), p, Clase(e))
<1>0. /\ Tabla(u) /\ u[m].state = e
      /\ \A i \in Nodo : t[i].state # 0 => u[i] = t[i]
      /\ \A q, i : Esta(t, q, i) => Esta(u, q, i)
      /\ \A i \in Nodo : i # m /\ u[i].state # 0 => \E q : Esta(t, q, i)
  BY DEF Agregado
<1> DEFINE a == ArbolDe(t)
           f == Promesa!Alta(a, p, Clase(e))
<1>1. /\ \A q : q \in DOMAIN a <=> Hay(t, q)
      /\ \A q, i : Esta(t, q, i) => q \in DOMAIN a /\ a[q] = Clase(t[i].state)
  BY ArbolDeEs
<1>2. Ubicado(t) /\ Ubicado(u) BY <1>0 DEF Tabla
<1> HIDE DEF a
<1>3. /\ DOMAIN f = DOMAIN a \cup {p}
      /\ f = [q \in DOMAIN f |-> f[q]]
      /\ \A q \in DOMAIN f : f[q] = IF q = p THEN Clase(e) ELSE a[q]
  BY DEF Promesa!Alta
<1> HIDE DEF f
<1>4. ASSUME NEW q, NEW i, Esta(u, q, i) PROVE q \in DOMAIN f /\ f[q] = Clase(u[i].state)
  <2>1. i \in Nodo /\ u[i].state # 0 BY <1>2, <1>4, EstaTipo
  <2>2. CASE i = m
    <3>1. q = p BY <1>4, <2>2, EstaUnPath
    <3>2. QED BY <1>0, <1>3, <2>2, <3>1
  <2>3. CASE i # m
    <3>1. PICK z : Esta(t, z, i) BY <1>0, <2>1, <2>3
    <3>2. z = q BY <1>0, <1>4, <3>1, EstaUnPath
    <3>3. q # p BY <3>1, <3>2 DEF Hay
    <3>4. t[i].state # 0 BY <1>2, <3>1, EstaTipo
    <3>5. u[i] = t[i] BY <1>0, <2>1, <3>4
    <3>6. QED BY <1>1, <1>3, <3>1, <3>2, <3>3, <3>5
  <2>4. QED BY <2>2, <2>3
<1>5. ASSUME NEW q \in DOMAIN f PROVE Hay(u, q)
  <2>1. CASE q = p BY <2>1 DEF Hay
  <2>2. CASE q \in DOMAIN a BY <1>0, <1>1, <2>2 DEF Hay
  <2>3. QED BY <1>3, <2>1, <2>2
<1>6. ArbolDe(u) = f BY <1>0, <1>3, <1>4, <1>5, ArbolIgual
<1>7. QED BY <1>6 DEF f, a

LEMMA BajaEs ==
  ASSUME NEW t, Tabla(t), NEW u, Tabla(u), NEW D, NEW p,
         \A q, i : Esta(t, q, i) => (i \in D <=> IsPrefix(p, q)),
         \A i \in Nodo : u[i].state # 0 <=> t[i].state # 0 /\ i \notin D,
         \A i \in Nodo : i \notin D => u[i] = t[i],
         \A q, i : Esta(t, q, i) /\ i \notin D => Esta(u, q, i)
  PROVE  ArbolDe(u) = Promesa!Baja(ArbolDe(t), p)
<1> DEFINE a == ArbolDe(t)
           f == Promesa!Baja(a, p)
<1>1. /\ \A q : q \in DOMAIN a <=> Hay(t, q)
      /\ \A q, i : Esta(t, q, i) => q \in DOMAIN a /\ a[q] = Clase(t[i].state)
  BY ArbolDeEs
<1>2. Ubicado(t) /\ Ubicado(u) /\ Cuelgan(t) BY DEF Tabla
<1> HIDE DEF a
<1>3. /\ \A q : q \in DOMAIN f <=> q \in DOMAIN a /\ ~IsPrefix(p, q)
      /\ f = [q \in DOMAIN f |-> f[q]]
      /\ \A q \in DOMAIN f : f[q] = a[q]
  <2> DEFINE D0 == {x \in DOMAIN a : ~IsPrefix(p, x)}
  <2>1. f = [q \in D0 |-> a[q]] BY DEF Promesa!Baja, Promesa!IsPrefix, IsPrefix
  <2>2. \A q : q \in D0 <=> q \in DOMAIN a /\ ~IsPrefix(p, q) OBVIOUS
  <2> HIDE DEF D0, f
  <2>3. QED BY <2>1, <2>2
<1> HIDE DEF f
<1>4. ASSUME NEW q, NEW i, Esta(u, q, i) PROVE q \in DOMAIN f /\ f[q] = Clase(u[i].state)
  <2>1. i \in Nodo /\ u[i].state # 0 BY <1>2, <1>4, EstaTipo
  <2>2. t[i].state # 0 /\ i \notin D /\ u[i] = t[i] BY <2>1
  <2>3. PICK x : Esta(t, x, i) BY <1>2, <2>1, <2>2, EstaTodo
  <2>4. Esta(u, x, i) BY <2>2, <2>3
  <2>5. x = q BY <1>4, <2>4, EstaUnPath
  <2>6. ~IsPrefix(p, q) BY <2>2, <2>3, <2>5
  <2>7. QED BY <1>1, <1>3, <2>2, <2>3, <2>5, <2>6
<1>5. ASSUME NEW q \in DOMAIN f PROVE Hay(u, q)
  <2>1. q \in DOMAIN a /\ ~IsPrefix(p, q) BY <1>3
  <2>2. PICK i : Esta(t, q, i) BY <1>1, <2>1 DEF Hay
  <2>3. Esta(u, q, i) BY <2>1, <2>2
  <2>4. QED BY <2>3 DEF Hay
<1>6. ArbolDe(u) = f BY <1>3, <1>4, <1>5, ArbolIgual
<1>7. QED BY <1>6 DEF f, a

\* What is at a path has what is at each beginning of the path above it.
LEMMA HayPrefijo ==
  ASSUME NEW t, Ubicado(t), NEW p \in Seq(Nombre), p # <<>>, NEW q, Hay(t, q), IsPrefix(p, q)
  PROVE  Hay(t, p)
<1>1. PICK i : Esta(t, q, i) BY DEF Hay
<1>2. PICK s : EsRastro(t, s) /\ q = PathDe(t, s) BY <1>1 DEF Esta
<1>3. /\ q \in Seq(Nombre) /\ Len(q) = Len(s)
      /\ \A k \in 1 .. Len(s) : q[k] = t[s[k]].fname
  BY <1>2, PathTipo
<1>4. PICK n \in Nat : n = Len(p) BY LenProperties
<1>5. n <= Len(s) /\ (\A k \in 1 .. n : p[k] = q[k]) BY <1>3, <1>4, PrefijoEs
<1>6. n # 0 BY <1>4, EmptySeq
<1>7. Len(s) \in Nat BY <1>2, RastroTipo
<1>8. n \in 1 .. Len(s) BY <1>4, <1>5, <1>6, <1>7
<1>9. PICK r : EsRastro(t, r) /\ Len(r) = n /\ (\A k \in 1 .. n : r[k] = s[k])
  BY <1>2, <1>8, RastroTramo
<1>10. /\ PathDe(t, r) \in Seq(Nombre) /\ Len(PathDe(t, r)) = n
       /\ \A k \in 1 .. n : PathDe(t, r)[k] = t[r[k]].fname
  BY <1>9, PathTipo
<1>11. ASSUME NEW k \in 1 .. n PROVE PathDe(t, r)[k] = p[k]
  <2>1. k \in 1 .. Len(s) BY <1>7, <1>8
  <2>2. q[k] = t[s[k]].fname BY <1>3, <2>1
  <2>3. QED BY <1>5, <1>9, <1>10, <2>2
<1>12. PathDe(t, r) = p BY <1>4, <1>10, <1>11, SeqEqual
<1>13. QED BY <1>9, <1>12 DEF Hay, Esta

\* A name that is free in the directory of a path leaves the path free.
LEMMA LibreNada ==
  ASSUME NEW t, Ubicado(t), Unicos(t), NEW nuevo \in Seq(Nombre),
         NEW r, EsDestino(t, r, nuevo), Libre(t, nuevo[Len(nuevo)], BloqueDe(r))
  PROVE  ~Hay(t, nuevo)
<1>1. SUFFICES ASSUME NEW i, Esta(t, nuevo, i) PROVE FALSE BY DEF Hay
<1>2. PICK s : EsRastro(t, s) /\ nuevo = PathDe(t, s) /\ s[Len(s)] = i BY <1>1 DEF Esta
<1>3. /\ Len(nuevo) = Len(s) /\ Len(s) \in Nat /\ Len(s) >= 1
      /\ \A k \in 1 .. Len(s) : nuevo[k] = t[s[k]].fname
  BY <1>2, PathTipo, RastroTipo
<1>4. PICK n : n = Len(s) OBVIOUS
<1>5. i \in Nodo /\ t[i].state # 0 /\ nuevo[n] = t[i].fname
  BY <1>1, <1>3, <1>4, EstaTipo
<1>6. t[i].parent_dir_block # BloqueDe(r) BY <1>3, <1>4, <1>5 DEF Libre
<1>7. /\ r \in Seq(Nodo) /\ n = Len(r) + 1
      /\ \A k \in 1 .. Len(r) : nuevo[k] = t[r[k]].fname
      /\ r = <<>> \/ EsRastro(t, r)
  BY <1>3, <1>4 DEF EsDestino
<1>8. PICK h \in Nat : h = Len(r) BY <1>7, LenProperties
<1>9. CASE r = <<>>
  <2>1. n = 1 BY <1>7, <1>9, EmptySeq
  <2>2. t[s[1]].parent_dir_block = 0 BY <1>2 DEF EsRastro
  <2>3. t[i].parent_dir_block = 0 BY <1>2, <1>4, <2>1, <2>2
  <2>4. QED BY <1>6, <1>9, <2>3 DEF BloqueDe
<1>10. CASE r # <<>>
  <2>1. h # 0 BY <1>7, <1>8, <1>10, EmptySeq
  <2>2. n = h + 1 BY <1>7, <1>8
  <2>3. h \in 1 .. n /\ n - 1 = h BY <2>1, <2>2, <1>8
  <2>4. h \in 1 .. Len(s) /\ h \in 1 .. (Len(s) - 1) BY <2>2, <2>1, <1>4, <1>8
  <2>5. PICK w : EsRastro(t, w) /\ Len(w) = h /\ (\A k \in 1 .. h : w[k] = s[k])
    BY <1>2, <2>4, RastroTramo
  <2>6. EsRastro(t, r) BY <1>7, <1>10
  <2>7. /\ PathDe(t, r) \in Seq(Nombre) /\ Len(PathDe(t, r)) = h
        /\ \A k \in 1 .. h : PathDe(t, r)[k] = t[r[k]].fname
    BY <1>8, <2>6, PathTipo
  <2>8. /\ PathDe(t, w) \in Seq(Nombre) /\ Len(PathDe(t, w)) = h
        /\ \A k \in 1 .. h : PathDe(t, w)[k] = t[w[k]].fname
    BY <2>5, PathTipo
  <2>9. ASSUME NEW k \in 1 .. h PROVE PathDe(t, r)[k] = PathDe(t, w)[k]
    <3>1. k \in 1 .. Len(s) BY <1>8, <2>2, <1>4
    <3>2. nuevo[k] = t[s[k]].fname BY <1>3, <3>1
    <3>3. nuevo[k] = t[r[k]].fname BY <1>7, <1>8
    <3>4. w[k] = s[k] BY <2>5
    <3>5. QED BY <2>7, <2>8, <3>2, <3>3, <3>4
  <2>10. PathDe(t, r) = PathDe(t, w) BY <2>7, <2>8, <2>9, SeqEqual
  <2>11. Esta(t, PathDe(t, r), r[Len(r)]) /\ Esta(t, PathDe(t, r), w[Len(w)])
    BY <2>5, <2>6, <2>10 DEF Esta
  <2>12. r[Len(r)] = w[Len(w)] BY <2>11, EstaUnNodo
  <2>13. r[Len(r)] = s[h] BY <2>3, <2>4, <2>5, <2>12, <1>8
  <2>14. t[s[h + 1]].parent_dir_block = s[h] + bloqueInicioTablaDeNodos
    BY <1>2, <2>4 DEF EsRastro
  <2>15. t[i].parent_dir_block = BloqueDe(r)
    BY <1>2, <1>4, <1>10, <2>2, <2>13, <2>14 DEF BloqueDe
  <2>16. QED BY <1>6, <2>15
<1>11. QED BY <1>9, <1>10

LEMMA MudanzaEs ==
  ASSUME NEW t, Tabla(t), NEW u, Tabla(u), NEW p \in Seq(Nombre),
         NEW nuevo \in Seq(Nombre), nuevo # <<>>, ~Hay(t, nuevo),
         \A i \in Nodo : u[i].state = t[i].state,
         \A q, i : Esta(t, q, i) =>
           IF IsPrefix(p, q) THEN Esta(u, Va(p, nuevo, q), i) ELSE Esta(u, q, i)
  PROVE  ArbolDe(u) = Promesa!Mudanza(ArbolDe(t), p, nuevo)
<1> DEFINE a == ArbolDe(t)
           f == Promesa!Mudanza(a, p, nuevo)
           queda == {x \in DOMAIN a : ~IsPrefix(p, x) /\ ~IsPrefix(nuevo, x)}
           muda == {x \in DOMAIN a : IsPrefix(p, x)}
           D0 == queda \cup {Va(p, nuevo, x) : x \in muda}
<1>1. /\ \A q : q \in DOMAIN a <=> Hay(t, q)
      /\ \A q, i : Esta(t, q, i) => q \in DOMAIN a /\ a[q] = Clase(t[i].state)
  BY ArbolDeEs
<1>2. Ubicado(t) /\ Ubicado(u) /\ Unicos(u) /\ Cuelgan(t) BY DEF Tabla
<1>3. \A x \in DOMAIN a : ~IsPrefix(nuevo, x) BY <1>1, <1>2, HayPrefijo
<1> HIDE DEF a
<1>4. f = [q \in D0 |-> IF q \in queda THEN a[q]
                        ELSE a[CHOOSE x \in muda : Va(p, nuevo, x) = q]]
  BY DEF Promesa!Mudanza, Va, Promesa!IsPrefix, IsPrefix
<1>5. \A q : q \in queda <=> q \in DOMAIN a /\ ~IsPrefix(p, q) BY <1>3
<1>6. \A q : q \in muda <=> q \in DOMAIN a /\ IsPrefix(p, q) OBVIOUS
<1>7. /\ \A q \in queda : q \in D0
      /\ \A x \in muda : Va(p, nuevo, x) \in D0
      /\ \A q \in D0 : q \in queda \/ \E x \in muda : q = Va(p, nuevo, x)
  OBVIOUS
<1> HIDE DEF f, queda, muda, D0
<1>8. /\ DOMAIN f = D0 /\ f = [q \in DOMAIN f |-> f[q]]
      /\ \A q \in D0 : f[q] = IF q \in queda THEN a[q]
                              ELSE a[CHOOSE x \in muda : Va(p, nuevo, x) = q]
  <2> DEFINE g(q) == IF q \in queda THEN a[q]
                     ELSE a[CHOOSE x \in muda : Va(p, nuevo, x) = q]
  <2>1. f = [q \in D0 |-> g(q)] BY <1>4
  <2> HIDE DEF g
  <2>2. /\ DOMAIN f = D0 /\ f = [q \in DOMAIN f |-> f[q]]
        /\ \A q \in D0 : f[q] = g(q)
    BY <2>1
  <2>3. QED BY <2>2 DEF g
<1>9. ASSUME NEW x \in muda PROVE Va(p, nuevo, x) \notin queda
  <2>1. x \in DOMAIN a /\ IsPrefix(p, x) BY <1>6
  <2>2. x \in Seq(Nombre) BY <1>1, <1>2, <2>1, EstaTipo DEF Hay
  <2>3. EsVa(p, nuevo, x, Va(p, nuevo, x)) BY <2>1, <2>2, VaProps
  <2>4. PICK z : z = Va(p, nuevo, x) OBVIOUS
  <2>5. /\ z \in Seq(Nombre) /\ Len(z) = Len(nuevo) + (Len(x) - Len(p)) /\ Len(p) <= Len(x)
        /\ \A k \in 1 .. Len(nuevo) : z[k] = nuevo[k]
    BY <2>3, <2>4 DEF EsVa
  <2>6. Len(nuevo) \in Nat /\ Len(x) \in Nat /\ Len(p) \in Nat BY <2>2, LenProperties
  <2>7. Len(nuevo) <= Len(z) BY <2>5, <2>6
  <2>8. IsPrefix(nuevo, z) BY <2>5, <2>7, PrefijoEs
  <2>9. QED BY <1>3, <1>5, <2>4, <2>8
<1>10. ASSUME NEW q, NEW i, Esta(u, q, i) PROVE q \in DOMAIN f /\ f[q] = Clase(u[i].state)
  <2>1. i \in Nodo /\ u[i].state # 0 BY <1>2, <1>10, EstaTipo
  <2>2. u[i].state = t[i].state /\ t[i].state # 0 BY <2>1
  <2>3. PICK x : Esta(t, x, i) BY <1>2, <2>1, <2>2, EstaTodo
  <2>4. x \in DOMAIN a /\ a[x] = Clase(u[i].state) BY <1>1, <2>2, <2>3
  <2>5. CASE ~IsPrefix(p, x)
    <3>1. Esta(u, x, i) BY <2>3, <2>5
    <3>2. x = q BY <1>10, <3>1, EstaUnPath
    <3>3. q \in queda BY <1>5, <2>4, <2>5, <3>2
    <3>4. q \in D0 BY <1>7, <3>3
    <3>5. QED BY <1>8, <2>4, <3>2, <3>3, <3>4
  <2>6. CASE IsPrefix(p, x)
    <3>1. Esta(u, Va(p, nuevo, x), i) BY <2>3, <2>6
    <3>2. Va(p, nuevo, x) = q BY <1>10, <3>1, EstaUnPath
    <3>3. x \in muda BY <1>6, <2>4, <2>6
    <3>4. q \notin queda /\ q \in D0 BY <1>7, <1>9, <3>2, <3>3
    <3> DEFINE y == CHOOSE z \in muda : Va(p, nuevo, z) = q
    <3>5. y \in muda /\ Va(p, nuevo, y) = q BY <3>2, <3>3
    <3>6. f[q] = a[y] BY <1>8, <3>4
    <3> HIDE DEF y
    <3>7. y \in DOMAIN a /\ IsPrefix(p, y) BY <1>6, <3>5
    <3>8. PICK j : Esta(t, y, j) BY <1>1, <3>7 DEF Hay
    <3>9. Esta(u, q, j) BY <3>5, <3>7, <3>8
    <3>10. j = i BY <1>2, <1>10, <3>9, EstaUnNodo
    <3>11. y = x BY <2>3, <3>8, <3>10, EstaUnPath
    <3>12. QED BY <1>8, <2>4, <3>4, <3>6, <3>11
  <2>7. QED BY <2>5, <2>6
<1>11. ASSUME NEW q \in DOMAIN f PROVE Hay(u, q)
  <2>1. CASE q \in queda
    <3>1. q \in DOMAIN a /\ ~IsPrefix(p, q) BY <1>5, <2>1
    <3>2. PICK i : Esta(t, q, i) BY <1>1, <3>1 DEF Hay
    <3>3. Esta(u, q, i) BY <3>1, <3>2
    <3>4. QED BY <3>3 DEF Hay
  <2>2. ASSUME NEW x \in muda, q = Va(p, nuevo, x) PROVE Hay(u, q)
    <3>1. x \in DOMAIN a /\ IsPrefix(p, x) BY <1>6
    <3>2. PICK i : Esta(t, x, i) BY <1>1, <3>1 DEF Hay
    <3>3. Esta(u, q, i) BY <2>2, <3>1, <3>2
    <3>4. QED BY <3>3 DEF Hay
  <2>3. QED BY <1>7, <1>8, <2>1, <2>2
<1>12. ArbolDe(u) = f BY <1>8, <1>10, <1>11, ArbolIgual
<1>13. QED BY <1>12 DEF f, a

-----------------------------------------------------------------------------
(* What each call does to the tree                                         *)

\* A node of the root has its name for a path.
LEMMA EstaRaiz ==
  ASSUME NEW t, Ubicado(t), NEW i \in Nodo, t[i].state # 0, t[i].parent_dir_block = 0
  PROVE  Esta(t, <<t[i].fname>>, i)
<1> DEFINE s == <<i>>
<1>1. EsRastro(t, s) BY RastroRaiz
<1>2. s[Len(s)] = i /\ Len(s) = 1 OBVIOUS
<1>3. s[1] = i OBVIOUS
<1> HIDE DEF s
<1>4. /\ PathDe(t, s) \in Seq(Nombre) /\ Len(PathDe(t, s)) = 1
      /\ \A k \in 1 .. 1 : PathDe(t, s)[k] = t[s[k]].fname
  BY <1>1, <1>2, PathTipo
<1>5. t[i].fname \in Nombre BY DEF Ubicado
<1> DEFINE z == <<t[i].fname>>
<1>6. z \in Seq(Nombre) /\ Len(z) = 1 /\ z[1] = t[i].fname BY <1>5
<1>7. \A k \in 1 .. 1 : PathDe(t, s)[k] = z[k]
  <2>1. 1 \in 1 .. 1 /\ (\A k \in 1 .. 1 : k = 1) OBVIOUS
  <2>2. PathDe(t, s)[1] = z[1] BY <1>3, <1>4, <1>6, <2>1
  <2>3. QED BY <2>1, <2>2
<1> HIDE DEF z
<1>8. PathDe(t, s) = z BY <1>4, <1>6, <1>7, SeqEqual
<1>9. QED BY <1>1, <1>2, <1>8 DEF Esta, z

LEMMA CreaEs ==
  ASSUME Tabla(tablaDeNodos), NEW p \in Camino, NEW tipo \in {1, 2},
         ~Hay(tablaDeNodos, p), HayCarpeta(tablaDeNodos, Front(p)),
         crear_nuevo_nodo(p, tipo)
  PROVE  \/ tablaDeNodos' = tablaDeNodos
         \/ /\ Tabla(tablaDeNodos')
            /\ ArbolDe(tablaDeNodos') = Promesa!Alta(ArbolDe(tablaDeNodos), p, Clase(tipo))
<1> DEFINE t == tablaDeNodos
           u == tablaDeNodos'
           L == {i \in Nodo : ~Vivo(i)}
           m == Min(L)
           q == Front(p)
           x == Last(p)
           b == IF Len(p) = 1 THEN 0 ELSE determine_nodo(q) + bloqueInicioTablaDeNodos
<1>1. CASE L = {} \/ validar_si_ya_existe_otro(p) BY <1>1 DEF crear_nuevo_nodo
<1>2. CASE ~(L = {} \/ validar_si_ya_existe_otro(p))
  <2>1. u = Creado(t, m, tipo, x, b) BY <1>2 DEF crear_nuevo_nodo, Creado
  <2>2. m \in L
    <3>1. L \in SUBSET Nat /\ L # {} BY <1>2, NodoProps
    <3> HIDE DEF L
    <3>2. QED BY <3>1, MinEsta
  <2>3. m \in Nodo /\ t[m].state = 0 BY <2>2 DEF Vivo
  <2> HIDE DEF m, L
  <2>4. /\ x \in Nombre /\ q \in Seq(Nombre) /\ Append(q, x) = p
        /\ (q = <<>> <=> Len(p) = 1)
    BY CaminoProps
  <2>5. Ubicado(t) /\ Unicos(t) BY DEF Tabla
  <2> HIDE DEF t, u, q, x
  <2>6. CASE Len(p) = 1
    <3>1. b = 0 BY <2>6
    <3>2. <<x>> = p
      <4>1. Append(<<>>, x) = p BY <2>4, <2>6
      <4>2. Append(<<>>, x) = <<x>> OBVIOUS
      <4>3. QED BY <4>1, <4>2
    <3>3. Libre(t, x, 0)
      <4>1. SUFFICES ASSUME NEW i \in Nodo, t[i].state # 0, t[i].fname = x,
                            t[i].parent_dir_block = 0
                     PROVE  FALSE
        BY DEF Libre
      <4>2. Esta(t, <<t[i].fname>>, i) BY <2>5, <4>1, EstaRaiz
      <4>3. QED BY <3>2, <4>1, <4>2 DEF Hay, t
    <3>4. EsCarpeta(t, 0) BY DEF EsCarpeta
    <3>5. Tabla(t) /\ ~Hay(t, p) BY DEF t
    <3>6. u = Creado(t, m, tipo, x, 0) BY <2>1, <3>1
    <3>7. Agregado(t, u, m, tipo, x, 0)
      BY <2>3, <2>4, <3>3, <3>4, <3>5, <3>6, CreadoProps
    <3>8. Esta(u, p, m) BY <3>2, <3>7 DEF Agregado
    <3>9. ArbolDe(u) = Promesa!Alta(ArbolDe(t), p, Clase(tipo))
      BY ONLY <3>5, <3>7, <3>8, AltaEs
    <3>10. QED BY <3>7, <3>9 DEF t, u, Agregado
  <2>7. CASE Len(p) # 1
    <3>1. q # <<>> BY <2>4, <2>7
    <3>2. PICK j : Esta(t, q, j) /\ t[j].state = 2 BY <3>1 DEF HayCarpeta, t, q
    <3>3. determine_nodo(q) = j BY <2>4, <2>5, <3>1, <3>2, DetermineEs DEF t
    <3>4. j \in Nodo /\ j \in Nat BY <2>5, <3>2, EstaTipo, NodoProps
    <3>5. b = j + bloqueInicioTablaDeNodos BY <2>7, <3>3
    <3>6. PICK c \in Nat : c = b BY <3>4, <3>5, NodoProps
    <3> HIDE DEF b
    <3>7. Libre(t, x, c)
      <4>1. SUFFICES ASSUME NEW i \in Nodo, t[i].state # 0, t[i].fname = x,
                            t[i].parent_dir_block = c
                     PROVE  FALSE
        BY DEF Libre
      <4>2. Esta(t, Append(q, t[i].fname), i) BY <2>5, <3>2, <3>5, <3>6, <4>1, EstaHijo
      <4>3. Esta(t, p, i) BY <2>4, <4>1, <4>2
      <4>4. QED BY <4>3 DEF Hay, t
    <3>8. EsCarpeta(t, c) BY <3>2, <3>4, <3>5, <3>6 DEF EsCarpeta
    <3>9. Tabla(t) /\ ~Hay(t, p) BY DEF t
    <3>10. Agregado(t, u, m, tipo, x, c)
      <4>1. /\ Tabla(t) /\ m \in Nodo /\ t[m].state = 0 /\ x \in Nombre
            /\ EsCarpeta(t, c) /\ Libre(t, x, c) /\ u = Creado(t, m, tipo, x, c)
        BY <2>1, <3>6, <2>3, <2>4, <3>7, <3>8, <3>9
      <4>2. QED BY ONLY <4>1, CreadoProps
    <3>11. Esta(u, p, m) BY <2>4, <3>2, <3>5, <3>6, <3>10 DEF Agregado
    <3>12. ArbolDe(u) = Promesa!Alta(ArbolDe(t), p, Clase(tipo))
      BY ONLY <3>9, <3>10, <3>11, AltaEs
    <3>13. QED BY <3>10, <3>12 DEF t, u, Agregado
  <2>8. QED BY <2>6, <2>7
<1>3. QED BY <1>1, <1>2

\* A deletion of what is at the path p and below.
LEMMA BorraEs ==
  ASSUME Tabla(tablaDeNodos), NEW D \in SUBSET Nodo, NEW p, Cerrada(tablaDeNodos, D),
         \A q, i : Esta(tablaDeNodos, q, i) => (i \in D <=> IsPrefix(p, q)),
         borrar(D)
  PROVE  /\ Tabla(tablaDeNodos')
         /\ ArbolDe(tablaDeNodos') = Promesa!Baja(ArbolDe(tablaDeNodos), p)
<1> DEFINE t == tablaDeNodos
           u == tablaDeNodos'
<1>1. u = Borrado(t, D) BY DEF borrar, Borrado
<1>2. Tabla(t) /\ Cerrada(t, D)
      /\ (\A q, i : Esta(t, q, i) => (i \in D <=> IsPrefix(p, q)))
  OBVIOUS
<1> HIDE DEF t, u
<1>3. /\ Tabla(u)
      /\ \A i \in Nodo : u[i].state # 0 <=> t[i].state # 0 /\ i \notin D
      /\ \A i \in Nodo : i \notin D => u[i] = t[i]
      /\ \A q, i : Esta(t, q, i) /\ i \notin D => Esta(u, q, i)
  BY ONLY <1>1, <1>2, BorradoProps
<1>4. ArbolDe(u) = Promesa!Baja(ArbolDe(t), p) BY ONLY <1>2, <1>3, BajaEs
<1>5. QED BY <1>3, <1>4 DEF t, u

LEMMA BorraArchivoEs ==
  ASSUME Tabla(tablaDeNodos), NEW p \in Camino, NEW n, Esta(tablaDeNodos, p, n),
         tablaDeNodos[n].state = 1, borrar_archivo(p)
  PROVE  /\ Tabla(tablaDeNodos')
         /\ ArbolDe(tablaDeNodos') = Promesa!Baja(ArbolDe(tablaDeNodos), p)
<1> DEFINE t == tablaDeNodos
<1>1. Ubicado(t) /\ Unicos(t) BY DEF Tabla
<1>2. p \in Seq(Nombre) /\ p # <<>> BY CaminoProps
<1>3. determine_nodo(p) = n BY <1>1, <1>2, DetermineEs
<1>4. borrar({n}) BY <1>3 DEF borrar_archivo
<1>5. n \in Nodo BY <1>1, EstaTipo
<1>6. Cerrada(t, {n})
  <2>1. SUFFICES ASSUME NEW i \in Nodo, t[i].state # 0,
                        t[i].parent_dir_block = n + bloqueInicioTablaDeNodos
                 PROVE  FALSE
    BY DEF Cerrada
  <2>2. n \in Nat /\ bloqueInicioTablaDeNodos \in Nat /\ bloqueInicioTablaDeNodos >= 2
    BY <1>5, NodoProps
  <2>3. n + bloqueInicioTablaDeNodos # 0 BY <2>2
  <2>4. PICK j \in Nodo : /\ t[i].parent_dir_block = j + bloqueInicioTablaDeNodos
                          /\ t[j].state = 2
    BY <1>1, <2>1, <2>3 DEF Ubicado
  <2>5. j \in Nat BY NodoProps
  <2>6. j = n BY <2>1, <2>2, <2>4, <2>5
  <2>7. QED BY <2>4, <2>6
<1>7. ASSUME NEW q, NEW i, Esta(t, q, i) PROVE i \in {n} <=> IsPrefix(p, q)
  <2>1. CASE i = n
    <3>1. q = p BY <1>7, <2>1, EstaUnPath
    <3>2. IsPrefix(p, p) BY <1>2, PrefijoEs, LenProperties
    <3>3. QED BY <2>1, <3>1, <3>2
  <2>2. ASSUME IsPrefix(p, q) PROVE i \in {n}
    <3>1. n \in {n} OBVIOUS
    <3>2. QED BY <1>1, <1>6, <1>7, <2>2, <3>1, BajaTodo
  <2>3. QED BY <2>1, <2>2
<1>8. {n} \in SUBSET Nodo BY <1>5
<1>9. QED BY <1>4, <1>6, <1>7, <1>8, BorraEs

LEMMA BorraDirectorioEs ==
  ASSUME UnBloqueDeBitmap, Tabla(tablaDeNodos), NEW p \in Camino,
         NEW n, Esta(tablaDeNodos, p, n), borrar_directorio(p)
  PROVE  /\ Tabla(tablaDeNodos')
         /\ ArbolDe(tablaDeNodos') = Promesa!Baja(ArbolDe(tablaDeNodos), p)
<1>1. Ubicado(tablaDeNodos) /\ Unicos(tablaDeNodos) BY DEF Tabla
<1>2. p \in Seq(Nombre) /\ p # <<>> BY CaminoProps
<1>3. determine_nodo(p) = n BY <1>1, <1>2, DetermineEs
<1>4. borrar(Descendencia(n)) BY <1>3 DEF borrar_directorio
<1>5. /\ Descendencia(n) \in SUBSET Nodo
      /\ Cerrada(tablaDeNodos, Descendencia(n))
      /\ \A q, i : Esta(tablaDeNodos, q, i) =>
           (i \in Descendencia(n) <=> IsPrefix(p, q))
  BY <1>1, DescProps
<1>6. QED BY <1>4, <1>5, BorraEs

\* A move that the server makes: the directory is the root, or not node 0, and the name
\* is free in it.
LEMMA MueveEs ==
  ASSUME Tabla(tablaDeNodos), NEW p \in Camino, NEW nuevo \in Camino,
         Hay(tablaDeNodos, p), HayCarpeta(tablaDeNodos, Front(nuevo)), ~IsPrefix(p, nuevo),
         Len(nuevo) = 1 => ~Hay(tablaDeNodos, nuevo),
         Len(nuevo) > 1 => ~Esta(tablaDeNodos, Front(nuevo), 0),
         renombrar_archivo(p, nuevo)
  PROVE  \/ tablaDeNodos' = tablaDeNodos
         \/ /\ Tabla(tablaDeNodos')
            /\ ArbolDe(tablaDeNodos') = Promesa!Mudanza(ArbolDe(tablaDeNodos), p, nuevo)
<1> DEFINE t == tablaDeNodos
           u == tablaDeNodos'
           d == Front(nuevo)
           x == Last(nuevo)
           padre == determine_nodo(d)
           n == determine_nodo(p)
           b == IF padre = 0 THEN 0 ELSE padre + bloqueInicioTablaDeNodos
<1>1. CASE validar_si_ya_existe_otro(nuevo) \/ padre = -1
  BY <1>1 DEF renombrar_archivo
<1>2. CASE ~(validar_si_ya_existe_otro(nuevo) \/ padre = -1)
  <2>1. u = Mudado(t, n, x, b) BY <1>2 DEF renombrar_archivo, Renombrado, Mudado
  <2>2. \A i \in Nodo : ~(/\ t[i].parent_dir_block = padre + bloqueInicioTablaDeNodos
                          /\ t[i].fname = x)
    BY <1>2 DEF validar_si_ya_existe_otro
  <2>3. padre = IF d = <<>> THEN 0 ELSE padre BY DEF determine_nodo
  <2>4. Tabla(t) /\ Ubicado(t) /\ Unicos(t) BY DEF Tabla
  <2>5. p \in Seq(Nombre) /\ p # <<>> BY CaminoProps
  <2>6. Esta(t, p, n) BY <2>4, <2>5, HayEs, DetermineEs
  <2>7. /\ nuevo \in Seq(Nombre) /\ nuevo # <<>> /\ Len(nuevo) \in Nat /\ Len(nuevo) >= 1
        /\ d \in Seq(Nombre) /\ Len(d) = Len(nuevo) - 1
        /\ \A k \in 1 .. (Len(nuevo) - 1) : d[k] = nuevo[k]
        /\ x \in Nombre /\ x = nuevo[Len(nuevo)] /\ Append(d, x) = nuevo
        /\ (d = <<>> <=> Len(nuevo) = 1)
    BY CaminoProps
  <2>8. d # <<>> => Esta(t, d, padre) /\ t[padre].state = 2
    <3>1. ASSUME d # <<>> PROVE Esta(t, d, padre) /\ t[padre].state = 2
      <4>1. PICK i : Esta(t, d, i) /\ t[i].state = 2 BY <3>1 DEF HayCarpeta
      <4>2. padre = i BY <2>4, <2>7, <3>1, <4>1, DetermineEs
      <4>3. QED BY <4>1, <4>2
    <3>2. QED BY <3>1
  <2> HIDE DEF u, d, x, padre, n
  <2>9. \E r : EsDestino(t, r, nuevo) /\ BloqueDe(r) = b /\ Libre(t, x, b)
    <3>1. CASE Len(nuevo) = 1
      <4>1. d = <<>> /\ padre = 0 /\ b = 0 BY <2>3, <2>7, <3>1
      <4>2. Libre(t, x, 0)
        <5>1. SUFFICES ASSUME NEW i \in Nodo, t[i].state # 0, t[i].fname = x,
                              t[i].parent_dir_block = 0
                       PROVE  FALSE
          BY DEF Libre
        <5>2. Esta(t, <<t[i].fname>>, i) BY <2>4, <5>1, EstaRaiz
        <5>3. Append(<<>>, x) = nuevo BY <2>7, <4>1
        <5>4. <<x>> = nuevo
          <6>1. Append(<<>>, x) = <<x>> OBVIOUS
          <6>2. QED BY <5>3, <6>1
        <5>5. QED BY <3>1, <5>1, <5>2, <5>4 DEF Hay
      <4> DEFINE r == <<>>
      <4>3. r \in Seq(Nodo) /\ Len(r) = 0 OBVIOUS
      <4>4. EsDestino(t, r, nuevo) /\ BloqueDe(r) = 0
        BY <3>1, <4>3 DEF EsDestino, BloqueDe
      <4>5. QED BY <4>1, <4>2, <4>4
    <3>2. CASE Len(nuevo) # 1
      <4>1. d # <<>> BY <2>7, <3>2
      <4>2. Esta(t, d, padre) /\ t[padre].state = 2 BY <2>8, <4>1
      <4>3. padre # 0
        <5>1. PICK l \in Nat : l = Len(nuevo) /\ l >= 1 /\ l # 1 BY <2>7, <3>2
        <5>2. l > 1 BY <5>1
        <5>3. Len(nuevo) > 1 BY <5>1, <5>2
        <5>4. QED BY <4>2, <5>3 DEF d
      <4>4. b = padre + bloqueInicioTablaDeNodos BY <4>3
      <4>5. Libre(t, x, b) BY <2>2, <4>4 DEF Libre
      <4>6. PICK r : EsRastro(t, r) /\ d = PathDe(t, r) /\ r[Len(r)] = padre
        BY <4>2 DEF Esta
      <4>7. /\ Len(d) = Len(r) /\ (\A k \in 1 .. Len(r) : d[k] = t[r[k]].fname)
            /\ Len(r) \in Nat
        BY <2>4, <4>6, PathTipo, RastroTipo
      <4>8. r \in Seq(Nodo) /\ r # <<>> BY <4>6 DEF EsRastro
      <4>9. Len(nuevo) = Len(r) + 1 BY <2>7, <4>7
      <4>10. \A k \in 1 .. Len(r) : nuevo[k] = t[r[k]].fname BY <2>7, <4>7, <4>9
      <4>11. EsDestino(t, r, nuevo) BY <4>2, <4>6, <4>8, <4>9, <4>10 DEF EsDestino
      <4>12. BloqueDe(r) = b BY <4>4, <4>6, <4>8 DEF BloqueDe
      <4>13. QED BY <4>5, <4>11, <4>12
    <3>3. QED BY <3>1, <3>2
  <2>10. PICK r : EsDestino(t, r, nuevo) /\ BloqueDe(r) = b /\ Libre(t, x, b) BY <2>9
  <2>11. ~IsPrefix(p, nuevo) OBVIOUS
  <2> HIDE DEF t, b
  <2>12. Libre(t, nuevo[Len(nuevo)], BloqueDe(r)) BY <2>7, <2>10
  <2>13. u = Mudado(t, n, nuevo[Len(nuevo)], BloqueDe(r)) BY <2>1, <2>7, <2>10
  <2>14. nuevo \in Seq(Nombre) /\ nuevo # <<>> BY <2>7
  <2>15. EsDestino(t, r, nuevo) BY <2>10
  <2>16. /\ Tabla(u)
         /\ \A i \in Nodo : u[i].state = t[i].state
         /\ \A q, i : Esta(t, q, i) =>
              IF IsPrefix(p, q) THEN Esta(u, Va(p, nuevo, q), i) ELSE Esta(u, q, i)
    BY ONLY <2>4, <2>6, <2>11, <2>12, <2>13, <2>14, <2>15, MudadoProps
  <2>17. ~Hay(t, nuevo) BY ONLY <2>4, <2>12, <2>14, <2>15, LibreNada
  <2>18. ArbolDe(u) = Promesa!Mudanza(ArbolDe(t), p, nuevo)
    BY ONLY <2>4, <2>5, <2>14, <2>16, <2>17, MudanzaEs
  <2>19. QED BY <2>16, <2>18 DEF t, u
<1>3. QED BY <1>1, <1>2

LEMMA SirveEs ==
  ASSUME UnBloqueDeBitmap, Tabla(tablaDeNodos), Legal(tablaDeNodos, pedido),
         fuse_invoke_function
  PROVE  \/ tablaDeNodos' = tablaDeNodos
         \/ /\ Tabla(tablaDeNodos')
            /\ ArbolDe(tablaDeNodos') = Promesa!Efecto(pedido, ArbolDe(tablaDeNodos))
<1> DEFINE a == ArbolDe(tablaDeNodos)
<1>1. pedido \in Pedido BY DEF Legal
<1>2. pedido.path \in Camino /\ (pedido.op = "rename" => pedido.nuevo \in Camino)
  BY <1>1, PedidoTipo
<1>3. CASE sac_server_mknod
  <2>1. pedido.op = "mknod" /\ crear_nuevo_nodo(pedido.path, 1) BY <1>3 DEF sac_server_mknod
  <2>2. ~Hay(tablaDeNodos, pedido.path) /\ HayCarpeta(tablaDeNodos, Front(pedido.path))
    BY <2>1 DEF Legal
  <2>3. Promesa!Efecto(pedido, a) = Promesa!Alta(a, pedido.path, Clase(1))
    BY <2>1 DEF Promesa!Efecto, Clase
  <2>4. \/ tablaDeNodos' = tablaDeNodos
        \/ /\ Tabla(tablaDeNodos')
           /\ ArbolDe(tablaDeNodos') = Promesa!Alta(a, pedido.path, Clase(1))
    BY <1>2, <2>1, <2>2, CreaEs
  <2>5. QED BY <2>3, <2>4
<1>4. CASE sac_server_mkdir
  <2>1. pedido.op = "mkdir" /\ crear_nuevo_nodo(pedido.path, 2) BY <1>4 DEF sac_server_mkdir
  <2>2. ~Hay(tablaDeNodos, pedido.path) /\ HayCarpeta(tablaDeNodos, Front(pedido.path))
    BY <2>1 DEF Legal
  <2>3. Promesa!Efecto(pedido, a) = Promesa!Alta(a, pedido.path, Clase(2))
    BY <2>1 DEF Promesa!Efecto, Clase
  <2>4. \/ tablaDeNodos' = tablaDeNodos
        \/ /\ Tabla(tablaDeNodos')
           /\ ArbolDe(tablaDeNodos') = Promesa!Alta(a, pedido.path, Clase(2))
    BY <1>2, <2>1, <2>2, CreaEs
  <2>5. QED BY <2>3, <2>4
<1>5. CASE sac_server_unlink
  <2>1. pedido.op = "unlink" /\ borrar_archivo(pedido.path) BY <1>5 DEF sac_server_unlink
  <2>2. PICK n : Esta(tablaDeNodos, pedido.path, n) /\ tablaDeNodos[n].state = 1
    BY <2>1 DEF Legal
  <2>3. Promesa!Efecto(pedido, a) = Promesa!Baja(a, pedido.path)
    BY <2>1 DEF Promesa!Efecto
  <2>4. QED BY <1>2, <2>1, <2>2, <2>3, BorraArchivoEs
<1>6. CASE sac_server_rmdir
  <2>1. pedido.op = "rmdir" /\ borrar_directorio(pedido.path) BY <1>6 DEF sac_server_rmdir
  <2>2. PICK n : Esta(tablaDeNodos, pedido.path, n) BY <2>1 DEF Legal
  <2>3. Promesa!Efecto(pedido, a) = Promesa!Baja(a, pedido.path)
    BY <2>1 DEF Promesa!Efecto
  <2>4. QED BY <1>2, <2>1, <2>2, <2>3, BorraDirectorioEs
<1>7. CASE sac_server_rename
  <2>1. pedido.op = "rename" /\ renombrar_archivo(pedido.path, pedido.nuevo)
    BY <1>7 DEF sac_server_rename
  <2>2. /\ Hay(tablaDeNodos, pedido.path) /\ HayCarpeta(tablaDeNodos, Front(pedido.nuevo))
        /\ ~IsPrefix(pedido.path, pedido.nuevo)
        /\ Len(pedido.nuevo) = 1 => ~Hay(tablaDeNodos, pedido.nuevo)
        /\ Len(pedido.nuevo) > 1 => ~Esta(tablaDeNodos, Front(pedido.nuevo), 0)
    BY <2>1 DEF Legal
  <2>3. Promesa!Efecto(pedido, a) = Promesa!Mudanza(a, pedido.path, pedido.nuevo)
    BY <2>1 DEF Promesa!Efecto
  <2>4. QED BY <1>2, <2>1, <2>2, <2>3, MueveEs
<1>8. QED BY <1>3, <1>4, <1>5, <1>6, <1>7 DEF fuse_invoke_function

-----------------------------------------------------------------------------
(* The theorems                                                            *)

\* The inductive invariant: the table is a tree with no name twice in a directory, and
\* the request that is being served is still one that its table allows.
ArbolInv ==
  /\ Tabla(tablaDeNodos)
  /\ pedido # Ninguno => Legal(tablaDeNodos, pedido)

LEMMA ArbolInicia == Init => ArbolInv
<1> SUFFICES ASSUME Init PROVE ArbolInv OBVIOUS
<1>1. tablaDeNodos = [i \in Nodo |-> [state |-> 0, fname |-> NULL, parent_dir_block |-> 0]]
  BY DEF Init
<1>2. \A i \in Nodo : tablaDeNodos[i].state = 0 BY <1>1
<1>3. tablaDeNodos \in [Nodo -> GFile] BY <1>1 DEF GFile
<1>4. Tabla(tablaDeNodos) BY <1>2, <1>3 DEF Tabla, Ubicado, Unicos, Cuelgan
<1>5. QED BY <1>4 DEF Init, ArbolInv

LEMMA ArbolSigue ==
  ASSUME UnBloqueDeBitmap, DestinosSanos, ArbolInv, [Next]_vars
  PROVE  ArbolInv'
<1>1. CASE UNCHANGED vars BY <1>1 DEF vars, ArbolInv
<1>2. CASE pide
  <2>1. PICK r \in Pedido : Procede(r) /\ Evitado(r) \subseteq Extremos /\ pedido' = r
    BY <1>2 DEF pide
  <2>2. Legal(tablaDeNodos, r) BY <2>1, PedidoEs DEF ArbolInv, Tabla
  <2>3. tablaDeNodos' = tablaDeNodos BY <1>2 DEF pide
  <2>4. QED BY <2>1, <2>2, <2>3 DEF ArbolInv
<1>3. CASE fuse_invoke_function
  <2>1. pedido # Ninguno /\ pedido' = Ninguno BY <1>3 DEF fuse_invoke_function
  <2>2. Tabla(tablaDeNodos') BY <1>3, <2>1, SirveEs DEF ArbolInv
  <2>3. QED BY <2>1, <2>2 DEF ArbolInv
<1>4. QED BY <1>1, <1>2, <1>3 DEF Next

\* Whatever clients create, move and delete, in any order, with the slots of the table
\* used again: every node in use hangs from the root, and its path leads to it.
THEOREM CaminosFieles ==
  ASSUME UnBloqueDeBitmap, DestinosSanos
  PROVE  Spec => []CaminoFiel
<1>1. Init => ArbolInv BY ArbolInicia
<1>2. ArbolInv /\ [Next]_vars => ArbolInv' BY ArbolSigue
<1>3. ArbolInv => CaminoFiel BY CaminoBasta DEF ArbolInv
<1>4. QED BY <1>1, <1>2, <1>3, PTL DEF Spec

\* The tree of paths of the table.
ArbolVisto == Arbol = ArbolDe(tablaDeNodos)

LEMMA ArbolEs == ArbolInv => ArbolVisto
<1> SUFFICES ASSUME ArbolInv PROVE Arbol = ArbolDe(tablaDeNodos) BY DEF ArbolVisto
<1> DEFINE t == tablaDeNodos
           U == Ubicados
           clase(v) == IF t[v[2]].state = 1 THEN "archivo" ELSE "directorio"
           A == {<<v[1], clase(v)>> : v \in U}
           f == [p \in {x[1] : x \in A} |-> (CHOOSE x \in A : x[1] = p)[2]]
<1>1. Arbol = f BY DEF Arbol
<1>2. Tabla(t) /\ Ubicado(t) /\ Unicos(t) BY DEF ArbolInv, Tabla
<1>3. U = {<<PathDe(t, s), s[Len(s)]>> : s \in Rastros} BY <1>2, UbicadosSon
<1>4. \A s : s \in Rastros <=> EsRastro(t, s) BY <1>2, RastrosSon
<1>5. ASSUME NEW p, NEW i, Esta(t, p, i) PROVE <<p, i>> \in U
  BY <1>3, <1>4, <1>5 DEF Esta
<1>6. ASSUME NEW v \in U PROVE v = <<v[1], v[2]>> /\ Esta(t, v[1], v[2])
  <2>1. PICK s \in Rastros : v = <<PathDe(t, s), s[Len(s)]>> BY <1>3
  <2>2. v[1] = PathDe(t, s) /\ v[2] = s[Len(s)] BY <2>1
  <2>3. QED BY <1>4, <2>1, <2>2 DEF Esta
<1>7. \A e : (IF e = 1 THEN "archivo" ELSE "directorio") = Clase(e) BY DEF Clase
<1>8. \A v : clase(v) = Clase(t[v[2]].state) BY <1>7
<1> HIDE DEF U, clase
<1>9. ASSUME NEW p, NEW i, Esta(t, p, i) PROVE <<p, Clase(t[i].state)>> \in A
  <2>1. PICK v : v = <<p, i>> OBVIOUS
  <2>2. v \in U /\ v[1] = p /\ v[2] = i BY <1>5, <1>9, <2>1
  <2>3. <<v[1], clase(v)>> \in A BY <2>2
  <2>4. QED BY <1>8, <2>2, <2>3
<1>10. ASSUME NEW x \in A
       PROVE  \E i : Esta(t, x[1], i) /\ x[2] = Clase(t[i].state)
  <2>1. PICK v \in U : x = <<v[1], clase(v)>> OBVIOUS
  <2>2. x[1] = v[1] /\ x[2] = clase(v) BY <2>1
  <2>3. QED BY <1>6, <1>8, <2>2
<1> HIDE DEF A
<1>11. /\ f = [p \in DOMAIN f |-> f[p]]
       /\ \A p : p \in DOMAIN f <=> \E x \in A : x[1] = p
       /\ \A p \in DOMAIN f : f[p] = (CHOOSE x \in A : x[1] = p)[2]
  OBVIOUS
<1> HIDE DEF f
<1>12. ASSUME NEW p, NEW i, Esta(t, p, i) PROVE p \in DOMAIN f /\ f[p] = Clase(t[i].state)
  <2> DEFINE y == CHOOSE x \in A : x[1] = p
  <2>1. PICK z : z = <<p, Clase(t[i].state)>> OBVIOUS
  <2>2. z \in A /\ z[1] = p BY <1>9, <1>12, <2>1
  <2>3. y \in A /\ y[1] = p BY <2>2
  <2>4. p \in DOMAIN f /\ f[p] = y[2] BY <1>11, <2>2
  <2> HIDE DEF y
  <2>5. PICK j : Esta(t, y[1], j) /\ y[2] = Clase(t[j].state) BY <1>10, <2>3
  <2>6. j = i BY <1>2, <1>12, <2>3, <2>5, EstaUnNodo
  <2>7. QED BY <2>4, <2>5, <2>6
<1>13. ASSUME NEW p \in DOMAIN f PROVE Hay(t, p)
  <2>1. PICK x \in A : x[1] = p BY <1>11
  <2>2. QED BY <1>10, <2>1 DEF Hay
<1>14. ArbolDe(t) = f BY <1>2, <1>11, <1>12, <1>13, ArbolIgual
<1>15. QED BY <1>1, <1>14

\* A request that the table allows is one that its tree allows.
LEMMA ProcedeEs ==
  ASSUME NEW t, Tabla(t), NEW r, Legal(t, r)
  PROVE  Promesa!Procede(r, ArbolDe(t))
<1> DEFINE a == ArbolDe(t)
<1>1. /\ \A p : p \in DOMAIN a <=> Hay(t, p)
      /\ \A p, i : Esta(t, p, i) => p \in DOMAIN a /\ a[p] = Clase(t[i].state)
  BY ArbolDeEs
<1> HIDE DEF a
<1>2. Clase(1) = "archivo" /\ Clase(2) = "directorio" BY DEF Clase
<1>3. \A p : HayCarpeta(t, p) => Promesa!Carpeta(a, p)
  BY <1>1, <1>2 DEF HayCarpeta, Promesa!Carpeta
<1>4. r.op \in {"mknod", "mkdir", "unlink", "rmdir", "rename"}
  BY PedidoTipo DEF Legal
<1>5. \A p : Promesa!Front(p) = Front(p) BY DEF Promesa!Front, Front
<1>6. \A p, q : Promesa!IsPrefix(p, q) <=> IsPrefix(p, q) BY DEF Promesa!IsPrefix, IsPrefix
<1>7. CASE r.op \in {"mknod", "mkdir"}
  <2>1. ~Hay(t, r.path) /\ HayCarpeta(t, Front(r.path)) BY <1>7 DEF Legal
  <2>2. r.path \notin DOMAIN a /\ Promesa!Carpeta(a, Promesa!Front(r.path))
    BY <1>1, <1>3, <1>5, <2>1
  <2>3. QED BY <1>7, <2>2 DEF Promesa!Procede, a
<1>8. CASE r.op = "unlink"
  <2>1. r.path \in DOMAIN a /\ a[r.path] = "archivo" BY <1>1, <1>2, <1>8 DEF Legal
  <2>2. QED BY <1>8, <2>1 DEF Promesa!Procede, a
<1>9. CASE r.op = "rmdir"
  <2>1. r.path \in DOMAIN a /\ a[r.path] = "directorio" BY <1>1, <1>2, <1>9 DEF Legal
  <2>2. QED BY <1>9, <2>1 DEF Promesa!Procede, a
<1>10. CASE r.op = "rename"
  <2>1. /\ Hay(t, r.path) /\ HayCarpeta(t, Front(r.nuevo))
        /\ ~IsPrefix(r.path, r.nuevo) /\ ~IsPrefix(r.nuevo, r.path)
    BY <1>10 DEF Legal
  <2>2. /\ r.path \in DOMAIN a /\ Promesa!Carpeta(a, Promesa!Front(r.nuevo))
        /\ ~Promesa!IsPrefix(r.path, r.nuevo) /\ ~Promesa!IsPrefix(r.nuevo, r.path)
    BY <1>1, <1>3, <1>5, <1>6, <2>1
  <2>3. QED BY <1>10, <2>2 DEF Promesa!Procede, a
<1>11. QED BY <1>4, <1>7, <1>8, <1>9, <1>10

LEMMA PromesaInicia == Init => Promesa!Init
<1> SUFFICES ASSUME Init PROVE Promesa!Init OBVIOUS
<1>1. ArbolInv BY ArbolInicia
<1>2. Arbol = ArbolDe(tablaDeNodos) BY <1>1, ArbolEs DEF ArbolVisto
<1>3. Tabla(tablaDeNodos) /\ Ubicado(tablaDeNodos) BY <1>1 DEF ArbolInv, Tabla
<1>4. \A i \in Nodo : tablaDeNodos[i].state = 0 BY DEF Init
<1>5. \A p, i : ~Esta(tablaDeNodos, p, i)
  <2>1. SUFFICES ASSUME NEW p, NEW i, Esta(tablaDeNodos, p, i) PROVE FALSE OBVIOUS
  <2>2. i \in Nodo /\ tablaDeNodos[i].state # 0 BY <1>3, <2>1, EstaTipo
  <2>3. QED BY <1>4, <2>2
<1> DEFINE f == <<>>
<1>6. f = [q \in DOMAIN f |-> f[q]] /\ DOMAIN f = {} OBVIOUS
<1> HIDE DEF f
<1>7. ArbolDe(tablaDeNodos) = f BY <1>3, <1>5, <1>6, ArbolIgual
<1>8. QED BY <1>2, <1>7 DEF Promesa!Init, Init, f

LEMMA PromesaSigue ==
  ASSUME UnBloqueDeBitmap, DestinosSanos, ArbolInv, ArbolVisto, ArbolVisto', [Next]_vars
  PROVE  [Promesa!Pide \/ Promesa!Responde]_<<Arbol, pedido>>
<1>1. Arbol = ArbolDe(tablaDeNodos) /\ Arbol' = ArbolDe(tablaDeNodos') BY DEF ArbolVisto
<1>2. tablaDeNodos' = tablaDeNodos => Arbol' = Arbol BY <1>1
<1>3. CASE UNCHANGED vars BY <1>2, <1>3 DEF vars
<1>4. CASE pide
  <2>1. PICK r \in Pedido : Procede(r) /\ Evitado(r) \subseteq Extremos /\ pedido' = r
    BY <1>4 DEF pide
  <2>2. Tabla(tablaDeNodos) /\ Legal(tablaDeNodos, r)
    BY <2>1, PedidoEs DEF ArbolInv, Tabla
  <2>3. Promesa!Procede(pedido', Arbol) BY <1>1, <2>1, <2>2, ProcedeEs
  <2>4. pedido' \in Promesa!Pedido BY <2>1 DEF Pedido, Promesa!Pedido
  <2>5. pedido = Ninguno /\ Arbol' = Arbol BY <1>2, <1>4 DEF pide
  <2>6. QED BY <2>3, <2>4, <2>5 DEF Promesa!Pide
<1>5. CASE fuse_invoke_function
  <2>1. pedido # Ninguno /\ pedido' = Ninguno BY <1>5 DEF fuse_invoke_function
  <2>2. Arbol' = Promesa!Efecto(pedido, Arbol) \/ Arbol' = Arbol
    BY <1>1, <1>2, <1>5, <2>1, SirveEs DEF ArbolInv
  <2>3. QED BY <2>1, <2>2 DEF Promesa!Responde
<1>6. QED BY <1>3, <1>4, <1>5 DEF Next

\* The calls change the tree of paths of the table as SacPromesa says, each as a whole or
\* not at all.
THEOREM CumplePromesa ==
  ASSUME UnBloqueDeBitmap, DestinosSanos
  PROVE  Spec => ImplementaPromesa
<1>1. Init => ArbolInv BY ArbolInicia
<1>2. ArbolInv /\ [Next]_vars => ArbolInv' BY ArbolSigue
<1>3. ArbolInv => ArbolVisto BY ArbolEs
<1>4. Init => Promesa!Init BY PromesaInicia
<1>5. ArbolInv /\ ArbolVisto /\ ArbolVisto' /\ [Next]_vars
      => [Promesa!Pide \/ Promesa!Responde]_<<Arbol, pedido>>
  BY PromesaSigue
<1>6. QED
  BY <1>1, <1>2, <1>3, <1>4, <1>5, PTL DEF Spec, ImplementaPromesa, Promesa!Spec
=============================================================================
