CONSTANTS
  c1 = c1
  c2 = c2
  Kernel = Kernel
  CPUs = {c1, c2}
  PIDs = {1, 2}
  Marcos = 6
  MarcoSize = 36
  MaxPaginas = 2
  MaxPedidos = 5
  Valores = {0, 1}
  CACHE_X_PROC = 1
  Configuraciones <- Todas
SPECIFICATION SpecJusta
INVARIANTS
  MarcosDeCadaUno
  CacheCoherente
  LeeLoUltimoConLugar
PROPERTY FinalizarTermina
CHECK_DEADLOCK FALSE
