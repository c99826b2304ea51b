\* Liveness, two orderly clients of two ULTs each.
SPECIFICATION FairSpec
CONSTANTS
  p1 = p1
  p2 = p2
  A = A
  Proc = {p1, p2}
  MaxTid = 1
  Sem = {A}
  SemDesconocido = SemDesconocido
  SemInit <- InitA
  SemMax <- MaxA
  MAX_MULTIPROG = 3
  Libre = Libre
  EstadosCerrables = {"E_READY", "E_EXECUTE"}
  MainCierraUltimo = TRUE
  EsperaSinEjecutar = FALSE
CHECK_DEADLOCK FALSE
CONSTRAINT AntesDelCruce
PROPERTIES
  MutexSeLibera
  NextTidResponde
