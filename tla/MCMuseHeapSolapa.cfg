\* A program that frees in any order.
SPECIFICATION Spec
CONSTANTS
  p1 = p1
  p2 = p2
  Prog = {p1}
  Tams = {4, 22, 40}
  PAGE_SIZE = 32
  MARCOS = 6
  UINT32 = 256
  MaxVivas <- Vivas
  Nadie = Nadie
CHECK_DEADLOCK FALSE
INVARIANT VivasSeparadas
