CONSTANTS
  MaxHilos = 2
  MAXPID = 3
  MaxImpresiones = 1
  MaxPedidos = 2
  KernelCae = TRUE
SPECIFICATION SpecJusta
INVARIANTS
  UnoSoloArranca
  TablaAlDia
  SinHuerfanos
PROPERTY MenuVuelve
CHECK_DEADLOCK FALSE
