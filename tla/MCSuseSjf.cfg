\* Three ULTs and two moves of the clock.
SPECIFICATION Spec
CONSTANTS
  m = m
  t1 = t1
  t2 = t2
  ULT = {m, t1, t2}
  Principal = m
  ALPHA_SJF = 50
  Inicio = 100
  Fin = 108
  Avance = {4}
  Nadie = Nadie
CHECK_DEADLOCK FALSE
INVARIANTS
  EstimacionFiel
  DuracionEsIntervalo
PROPERTY MenorPrimero
SYMMETRY Iguales
