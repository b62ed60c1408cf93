CONSTANTS
  p1 = p1
  p2 = p2
  p3 = p3
  c1 = c1
  c2 = c2
  m = m
  b = b
  Procesos = {p1, p2, p3}
  CPUs = {c1, c2}
  Semaforos <- DosSemaforos
  SEM_INIT <- InitDos
  OrdenSem <- OrdenDos
  Exclusion = {m}
  Grados = {2}
  QUANTUM = 2
  RoundRobin = TRUE
  MaxValor = 1
  Nulo = Nulo
SYMMETRY Simetria
SPECIFICATION Spec
INVARIANTS
  TypeOK
  NoCae
  ContadoresExactos
  UnaSolaCola
  CPUUnica
  EjecutaElSuyo
  SinEsperaConUnidades
  ExclusionMutua
  GradoRespetado
PROPERTY
  ImplementaCicloDeVida
CHECK_DEADLOCK FALSE
