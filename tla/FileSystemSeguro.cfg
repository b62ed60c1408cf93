CONSTANTS
  a1 = a1
  a2 = a2
  Ninguno = Ninguno
  Archivos = {a1, a2}
  CANTIDAD_BLOQUES = 3
  TAMANIO_BLOQUES = 2
  BITS = 2
  Accesos <- Cualquiera
  Lecturas <- DeUnoATres
  Valores = {1, 2}
  MaxPedidos = 5
  MaxCaidas = 1
SYMMETRY SimetriaArchivos
SPECIFICATION Spec
INVARIANTS
  BloquesDisjuntos
  BitmapExacto
  LeeLoEscrito
CHECK_DEADLOCK FALSE
