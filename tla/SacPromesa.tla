----------------------------- MODULE SacPromesa -----------------------------
(***************************************************************************)
(* What the calls of sac_cliente.h promise to a program that uses the      *)
(* mounted directory: a tree of paths that each call changes as a whole,   *)
(* or not at all when it answers with an error.                            *)
(***************************************************************************)
EXTENDS Sequences, SequencesExt, FiniteSets

CONSTANTS
  Camino,     \* the paths: non-empty sequences of names
  Ninguno     \* no call is under way

VARIABLES
  arbol,      \* path -> "archivo" or "directorio", for the paths that exist
  pedido      \* the call under way

Pedido ==
  [op : {"mknod", "mkdir", "unlink", "rmdir"}, path : Camino]
    \cup [op : {"rename"}, path : Camino, nuevo : Camino]

Carpeta(a, p) == p = <<>> \/ (p \in DOMAIN a /\ a[p] = "directorio")

\* What the kernel has seen to be so, in the tree a, before it makes the call.
Procede(r, a) ==
  CASE r.op \in {"mknod", "mkdir"} -> r.path \notin DOMAIN a /\ Carpeta(a, Front(r.path))
    [] r.op = "unlink" -> r.path \in DOMAIN a /\ a[r.path] = "archivo"
    [] r.op = "rmdir"  -> r.path \in DOMAIN a /\ a[r.path] = "directorio"
    [] r.op = "rename" -> /\ r.path \in DOMAIN a /\ Carpeta(a, Front(r.nuevo))
                          /\ ~IsPrefix(r.path, r.nuevo) /\ ~IsPrefix(r.nuevo, r.path)

Alta(a, p, t) == [q \in DOMAIN a \cup {p} |-> IF q = p THEN t ELSE a[q]]
Baja(a, p)    == [q \in {x \in DOMAIN a : ~IsPrefix(p, x)} |-> a[q]]

\* Everything at p and below goes to n, which takes the place of what was there.
Mudanza(a, p, n) ==
  LET queda == {x \in DOMAIN a : ~IsPrefix(p, x) /\ ~IsPrefix(n, x)}
      muda  == {x \in DOMAIN a : IsPrefix(p, x)}
      va(x) == n \o SubSeq(x, Len(p) + 1, Len(x))
  IN  [q \in queda \cup {va(x) : x \in muda} |->
         IF q \in queda THEN a[q] ELSE a[CHOOSE x \in muda : va(x) = q]]

Efecto(r, a) ==
  CASE r.op = "mknod" -> Alta(a, r.path, "archivo")
    [] r.op = "mkdir" -> Alta(a, r.path, "directorio")
    [] r.op \in {"unlink", "rmdir"} -> Baja(a, r.path)
    [] r.op = "rename" -> Mudanza(a, r.path, r.nuevo)

Init == arbol = <<>> /\ pedido = Ninguno

Pide ==
  /\ pedido = Ninguno /\ pedido' \in Pedido
  /\ Procede(pedido', arbol) /\ UNCHANGED arbol

Responde ==
  /\ pedido # Ninguno /\ pedido' = Ninguno
  /\ arbol' = Efecto(pedido, arbol) \/ UNCHANGED arbol

Spec == Init /\ [][Pide \/ Responde]_<<arbol, pedido>>
=============================================================================
