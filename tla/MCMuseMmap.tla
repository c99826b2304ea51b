----------------------------- MODULE MCMuseMmap -----------------------------
(* Two programs, a file of two pages and one of a page. *)
EXTENDS MuseMmap

CONSTANTS p1, p2, A, B

MCProg    == {p1, p2}
MCPaginas == (A :> 2) @@ (B :> 1)
MCArchivo == {A, B}
Iguales == Permutations(MCProg)
=============================================================================
