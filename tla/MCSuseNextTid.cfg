\* The comment of suse.c:879, with orderly clients.
SPECIFICATION Spec
CONSTANTS
  p1 = p1
  p2 = p2
  A = A
  Proc = {p1, p2}
  MaxTid = 2
  Sem = {A}
  SemDesconocido = SemDesconocido
  SemInit <- InitA
  SemMax <- MaxA
  MAX_MULTIPROG = 3
  Libre = Libre
  EstadosCerrables = {"E_READY", "E_EXECUTE"}
  MainCierraUltimo = TRUE
  EsperaSinEjecutar = FALSE
CHECK_DEADLOCK FALSE
SYMMETRY Simetria
INVARIANT SiempreHayULT
