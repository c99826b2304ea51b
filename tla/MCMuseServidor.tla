--------------------------- MODULE MCMuseServidor ---------------------------
(* Small instances of MuseServidor for TLC. *)
EXTENDS MuseServidor

CONSTANTS p1, p2, t1, t2, t3

\* p1 has two threads, which share its socket.
DeDosYUno == [t \in {t1, t2, t3} |-> IF t = t3 THEN p2 ELSE p1]
\* p1 uses the heap, with memory_get, and p2 a mapped file, with memory_cpy.
HeapYMapa ==
  [p \in {p1, p2} |->
     {c \in Llamada : /\ (c.en = "mapa") = (p = p2)
                      /\ c.tipo # (IF p = p2 THEN "get" ELSE "cpy")}]
=============================================================================
