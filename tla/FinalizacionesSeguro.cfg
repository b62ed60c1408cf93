CONSTANTS
  p1 = p1
  p2 = p2
  p3 = p3
  c1 = c1
  c2 = c2
  m = m
  b = b
  Procesos = {p1, p2}
  CPUs = {c1}
  Semaforos <- UnSemaforo
  SEM_INIT <- InitUno
  Exclusion <- UnSemaforo
  OrdenSem <- OrdenUno
  Grados = {2}
  GradosPedidos = {1}
  QUANTUM = 1
  RoundRobin = TRUE
  MaxValor = 1
  MaxOrdenes = 1
  MaxCierres = 1
  Nulo = Nulo
SYMMETRY Simetria
SPECIFICATION SpecC
INVARIANTS
  SenalesAlDia
  NadieAtrapado
CHECK_DEADLOCK FALSE
