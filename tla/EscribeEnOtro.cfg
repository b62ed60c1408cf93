CONSTANTS
  p1 = p1
  p2 = p2
  a1 = a1
  a2 = a2
  Nada = Nada
  Procesos = {p1, p2}
  Nombres = {a1, a2}
  Permisos <- Banderas
  Cursores = {2}
  ValoresDeA = {0}
  MaxPedidos = 5
SYMMETRY Simetria
SPECIFICATION Spec
CHECK_DEADLOCK FALSE
INVARIANT PathDondeDebe
