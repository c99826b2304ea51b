\* Two programs that free in any order.
\* Pages of 32 bytes, as in configs/memoria.config.
SPECIFICATION FairSpec
CONSTANTS
  p1 = p1
  p2 = p2
  Prog = {p1, p2}
  Tams = {9, 22}
  PAGE_SIZE = 32
  MARCOS = 4
  UINT32 = 64
  MaxVivas <- Vivas
  Nadie = Nadie
CONSTRAINT SinPisar
CHECK_DEADLOCK FALSE
INVARIANTS
  CadenaCubreSegmento
  SeparadasHastaPisar
  FugaExacta
  TodoLibreEsUnBloque
PROPERTY MallocResponde
