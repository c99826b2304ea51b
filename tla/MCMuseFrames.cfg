SPECIFICATION Spec
CONSTANTS
  NSeg = 2
  MaxPag = 2
  TOTAL_FRAME_NUM = 2
  TOTAL_FRAME_NUM_SWAP = 2
  v1 = v1
  v2 = v2
  Valor = {v1, v2}
SYMMETRY Simetria
INVARIANTS
  BitmapsCoherentes
  UnMarcoPorPagina
  LecturaFiel
PROPERTY
  VictimaUsadaYModificada
CONSTRAINT CasiSanas
