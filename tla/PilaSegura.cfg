CONSTANTS
  c1 = c1
  c2 = c2
  a = a
  b = b
  v0 = v0
  v1 = v1
  Nulo = Nulo
  CPUs = {c1, c2}
  Etiquetas = {a, b}
  Valores = {v0, v1}
  paginasDeCodigo = 1
  stack_size = 3
  tamanio_pag = 8
  MaxContextos = 3
  LlamarTrasVolver = FALSE
SYMMETRY Simetria
SPECIFICATION Spec
CHECK_DEADLOCK FALSE
INVARIANT
  DentroDelStack
PROPERTY
  ImplementaLaPila
