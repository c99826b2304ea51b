\* Clients that close anything at any time and wait before being admitted.
SPECIFICATION Spec
CONSTANTS
  p1 = p1
  p2 = p2
  A = A
  Proc = {p1, p2}
  MaxTid = 1
  Sem = {A}
  SemDesconocido = SemDesconocido
  SemInit <- InitA
  SemMax <- MaxA
  MAX_MULTIPROG = 3
  Libre = Libre
  EstadosCerrables = {"E_READY", "E_EXECUTE", "E_BLOCKED", "E_NEW", "E_EXIT"}
  MainCierraUltimo = FALSE
  EsperaSinEjecutar = TRUE
CHECK_DEADLOCK FALSE
SYMMETRY Simetria
CONSTRAINT CopiasAcotadas
INVARIANTS
  ContadorAcotado
  BloqueadoTieneDespertador
