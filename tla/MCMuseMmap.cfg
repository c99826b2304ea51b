SPECIFICATION Spec
CONSTANTS
  p1 = p1
  p2 = p2
  A = A
  B = B
  Prog <- MCProg
  Archivo <- MCArchivo
  Paginas <- MCPaginas
  PAGE_SIZE = 4
  TOTAL_FRAME_NUM = 2
  MaxSeg = 2
  MaxDir = 13
  Valor = {0, 1}
  Cero = 0
  Extremos = {}
INVARIANTS
  DireccionPropia
  CuentaMapeos
  MarcosCoherentes
  LecturaMapeada
  SincronizadoDura
CHECK_DEADLOCK FALSE
SYMMETRY Iguales
