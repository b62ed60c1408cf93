CONSTANTS
  c1 = c1
  c2 = c2
  Kernel = Kernel
  CPUs = {c1, c2}
  PIDs = {1, 2}
  Marcos = 6
  MarcoSize = 36
  MaxPaginas = 1
  MaxPedidos = 6
  Valores = {0, 1}
  CACHE_X_PROC = 1
  Configuraciones <- Chica
SPECIFICATION Spec
INVARIANT LeeLoUltimo
CHECK_DEADLOCK FALSE
