CONSTANTS
  p1 = p1
  p2 = p2
  Ninguno = Ninguno
  Procesos = {p1, p2}
  TAMPAG = 36
  Tamanios = {4, 13, 26, 27}
  MarcosHeap = 3
  LiberaDosVeces = FALSE
  MaxPedidos = 5
SPECIFICATION SpecJusta
INVARIANTS
  PaginaPartida
  ReservaVigente
  RegistrosFieles
PROPERTY TodoPedidoTermina
CHECK_DEADLOCK FALSE
