CONSTANTS
  p1 = p1
  p2 = p2
  p3 = p3
  m = m
  b = b
  x = x
  Procesos = {p1, p2}
  Semaforos = {m, b}
  Candado = m
  Variables = {x}
  Valores = {1}
  Archivos <- UnoYDos
  MaxCambios = 2
  MaxEnVuelo = 2
  Nulo = Nulo
SPECIFICATION SpecJusta
INVARIANTS
  QuienEsperabaSigue
  ExclusionConRecarga
  LeeLoAsignado
PROPERTIES
  PrincipalVuelve
  CambioSeCarga
CHECK_DEADLOCK FALSE
