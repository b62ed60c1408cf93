CONSTANTS
  p1 = p1
  p2 = p2
  p3 = p3
  c1 = c1
  c2 = c2
  m = m
  b = b
  Procesos = {p1, p2}
  CPUs = {c1, c2}
  Semaforos <- UnSemaforo
  SEM_INIT <- InitUno
  OrdenSem <- OrdenUno
  Exclusion = {m}
  Grados = {2}
  QUANTUM = 1
  RoundRobin = TRUE
  MaxValor = 1
  Nulo = Nulo
SPECIFICATION SpecJusta
CHECK_DEADLOCK FALSE
PROPERTIES
  ListoSeDespacha
  DespachoSeEjecuta
  HiloVuelve
