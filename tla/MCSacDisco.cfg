\* Two clients over five blocks of two bytes, with two pointers in a block of pointers:
\* one file may fill the disk, with two blocks of pointers of the three it has places for.
SPECIFICATION FairSpec
CONSTANTS
  c1 = c1
  c2 = c2
  Cliente = {c1, c2}
  Bloques = 5
  BLOQUE_SIZE = 2
  PUNTEROS_A_BLOQUES_DATOS = 2
  BLKINDIRECT = 3
  MaxTam <- TamUnoGrande
  Extremos = {}
  Nadie = Nadie
CHECK_DEADLOCK FALSE
INVARIANTS
  BloquesPropios
  SinFugas
  LecturaFiel
PROPERTY SigueRespondiendo
