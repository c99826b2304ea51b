SPECIFICATION FairSpec
CONSTANTS
  p1 = p1
  p2 = p2
  t1 = t1
  t2 = t2
  t3 = t3
  Proceso = {p1, p2}
  Hilo = {t1, t2, t3}
  de <- DeDosYUno
  usa <- HeapYMapa
  Extremos = {"get_malo"}
  Nadie = Nadie
INVARIANTS
  SeccionExclusiva
  
PROPERTIES
  RespuestaPropia
  
