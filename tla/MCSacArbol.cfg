\* Four nodes and two names; the calls in Evitado are left out.
SPECIFICATION FairSpec
CONSTANTS
  n1 = n1
  n2 = n2
  Nombre = {n1, n2}
  MaxProf = 3
  MAX_NUMBER_OF_FILES = 4
  bloqueInicioTablaDeNodos = 2
  Extremos = {}
  NULL = NULL
  Ninguno = Ninguno
CHECK_DEADLOCK FALSE
INVARIANTS
  CaminoFiel
PROPERTIES
  ImplementaPromesa
  TodaLlamadaResponde
