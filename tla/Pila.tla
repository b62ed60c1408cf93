--------------------------------- MODULE Pila ---------------------------------
(***************************************************************************)
(* The stack of a program (CPU/src/primitivas.c, auxiliaresPrimitivas.c):   *)
(* the contexts of its PCB, the addresses its variables get in the pages    *)
(* after the code, and the PCB that travels between the Kernel and the CPUs *)
(* in the middle of it all (serializarPCB, desserializarPCB).               *)
(*                                                                         *)
(* A context is a block of the memory of the CPU, and the list of contexts  *)
(* has pointers: retornar frees the block and leaves the pointer.           *)
(***************************************************************************)
EXTENDS Integers, Sequences, SequencesExt

CONSTANTS CPUs, Nulo,
          Etiquetas, Valores,
          paginasDeCodigo, stack_size, tamanio_pag,
          MaxContextos,       \* bound: calls that have not returned
          LlamarTrasVolver    \* whether programs call again in the quantum of a return

ASSUME TamaniosAssumption ==
  /\ paginasDeCodigo \in Nat \ {0} /\ stack_size \in Nat \ {0}
  /\ tamanio_pag \in Nat \ {0} /\ tamanio_pag % 4 = 0
ASSUME LlamarAssumption == MaxContextos \in Nat /\ LlamarTrasVolver \in BOOLEAN

Bloques == 1 .. MaxContextos + 1
PaginasDeStack == paginasDeCodigo + 1 .. paginasDeCodigo + stack_size
Direcciones ==
  [pagina : PaginasDeStack, offset : {o \in 0 .. tamanio_pag - 1 : o % 4 = 0}]

var_max == tamanio_pag * (stack_size + paginasDeCodigo) - 1

VARIABLES
  contextos,          \* what each block has
  vivos,              \* the blocks not freed
  contextoActual,     \* the list of the PCB: blocks
  sizeContextoActual,
  pendientes,         \* parameters of the call that are still to be defined
  volvio,             \* a call has returned since the PCB reached this CPU
  cpu,                \* the one with the PCB, or Nulo when the Kernel has it
  memoria,            \* what Memoria has in the pages of stack
  estado              \* "corre", "abortado", "finalizado", or "caido": the CPU
                      \* followed a NULL or read memory it had freed

pcb == <<contextoActual, sizeContextoActual>>
vars == <<contextos, vivos, pcb, pendientes, volvio, cpu, memoria, estado>>

t_contexto(retVar) ==
  [args |-> << >>, vars |-> << >>, retVar |-> retVar,
   retEn |-> IF retVar = Nulo THEN Nulo ELSE cpu]
ContextoVacio == t_contexto(Nulo)

Init ==
  /\ contextos = [b \in Bloques |-> ContextoVacio]
  /\ vivos = {1} /\ contextoActual = <<1>> /\ sizeContextoActual = 1
  /\ pendientes = 0 /\ volvio = FALSE /\ cpu = Nulo
  /\ memoria = [d \in Direcciones |-> Nulo]
  /\ estado = "corre"

-----------------------------------------------------------------------------
(* Addresses *)

convertirDireccionAPuntero(d) == d.pagina * tamanio_pag + d.offset
convertirPunteroADireccion(p) == [pagina |-> p \div tamanio_pag, offset |-> p % tamanio_pag]

Siguiente(d) ==
  IF d.offset + 4 >= tamanio_pag
  THEN [pagina |-> d.pagina + 1, offset |-> 0]
  ELSE [pagina |-> d.pagina, offset |-> d.offset + 4]

Contexto(i) == contextos[contextoActual[i]]
Legible(i) == contextoActual[i] \in vivos

(* The next address after variable k of context i; list_get of another     *)
(* position is the NULL that the code follows.                             *)
proximaDireccion(i, k) ==
  IF Legible(i) /\ k \in DOMAIN Contexto(i).vars
  THEN Siguiente(Contexto(i).vars[k].direccion) ELSE Nulo
proximaDireccionArg(i, k) == Siguiente(Contexto(i).args[k])

TrasElAnterior(i) ==
  IF Legible(i - 1) THEN proximaDireccion(i - 1, Len(Contexto(i - 1).vars)) ELSE Nulo

armarDireccionPrimeraPagina == [pagina |-> paginasDeCodigo + 1, offset |-> 0]

(* After the first argument, its position is looked up among the variables. *)
armarDireccionDeArgumento(i) ==
  IF Contexto(i).args = << >>
  THEN TrasElAnterior(i) ELSE proximaDireccion(i, Len(Contexto(i).args))

armarDirecccionDeFuncion(i) ==
  IF Contexto(i).args = << >>
  THEN TrasElAnterior(i) ELSE proximaDireccionArg(i, Len(Contexto(i).args))

armarProximaDireccion(i) == proximaDireccion(i, Len(Contexto(i).vars))

DireccionDeVariable(i) ==
  IF Contexto(i).vars # << >> THEN armarProximaDireccion(i)
  ELSE IF i = 1 THEN armarDireccionPrimeraPagina
  ELSE armarDirecccionDeFuncion(i)

(* Mutant: nothing stops the variables. *)
DesbordaNunca(d) == FALSE

Desborda(d) == convertirDireccionAPuntero(d) + 3 > var_max

-----------------------------------------------------------------------------
(* Instructions *)

Corre == estado = "corre" /\ cpu # Nulo
EntreInstrucciones == Corre /\ pendientes = 0
Actual == sizeContextoActual

(* What follows the use of a NULL or of freed memory is not defined: the   *)
(* program goes no further.                                                *)
Cae ==
  /\ estado' = "caido"
  /\ UNCHANGED <<contextos, vivos, pcb, pendientes, volvio, cpu, memoria>>

(* Pointers are what the parser passes around. *)
Apuntada(d) == convertirPunteroADireccion(convertirDireccionAPuntero(d))
dereferenciar(d) == memoria[Apuntada(d)]
almacenarEnMemoria(d, v) == memoria' = [memoria EXCEPT ![Apuntada(d)] = v]

(* The new element is in the context before the stack is found too small.  *)
Agrega(campo, x, d, v) ==
  /\ contextos' = [contextos EXCEPT ![contextoActual[Actual]][campo] = Append(@, x)]
  /\ IF Desborda(d)
     THEN estado' = "abortado" /\ UNCHANGED memoria
     ELSE almacenarEnMemoria(d, v) /\ UNCHANGED estado

(* The bytes a new variable gets come from an address that was never set   *)
(* (valor, 87): whatever they are, or the fall of the CPU.                 *)
definirVariable(e) ==
  /\ EntreInstrucciones
  /\ \/ Cae
     \/ /\ Legible(Actual)
        /\ LET d == DireccionDeVariable(Actual) IN
             /\ d # Nulo
             /\ \E v \in Valores : Agrega("vars", [etiqueta |-> e, direccion |-> d], d, v)
        /\ UNCHANGED <<vivos, pcb, pendientes, volvio, cpu>>

(* A parameter is a definirVariable of a digit, then its value. *)
definirArgumento(v) ==
  /\ Corre /\ pendientes > 0
  /\ \/ Cae
     \/ /\ Legible(Actual)
        /\ LET d == armarDireccionDeArgumento(Actual) IN
             d # Nulo /\ Agrega("args", d, d, v)
        /\ pendientes' = pendientes - 1
        /\ UNCHANGED <<vivos, pcb, volvio, cpu>>

obtenerPosicionVariable(e) ==
  LET k == SelectLastInSeq(Contexto(Actual).vars, LAMBDA x : x.etiqueta = e)
  IN IF k = 0 THEN Nulo ELSE Contexto(Actual).vars[k].direccion

(* The error path of obtenerPosicionVariable sends from address pid (139). *)
asignar(e, v) ==
  /\ EntreInstrucciones
  /\ IF Legible(Actual) /\ obtenerPosicionVariable(e) # Nulo
     THEN /\ almacenarEnMemoria(obtenerPosicionVariable(e), v)
          /\ UNCHANGED <<contextos, vivos, pcb, pendientes, volvio, cpu, estado>>
     ELSE Cae

(* What malloc may give: a freed block the list still points to, or another *)
(* one; the others are alike, and the first of them stands for them.       *)
Libres ==
  LET otros == Bloques \ (vivos \cup ToSet(contextoActual))
  IN (ToSet(contextoActual) \ vivos) \cup {b \in otros : \A x \in otros : b <= x}

Llamar(retVar, n) ==
  /\ \E b \in Libres :
       /\ contextos' = [contextos EXCEPT ![b] = t_contexto(retVar)]
       /\ vivos' = vivos \cup {b}
       /\ contextoActual' = Append(contextoActual, b)
  /\ sizeContextoActual' = sizeContextoActual + 1
  /\ pendientes' = n
  /\ UNCHANGED <<volvio, cpu, memoria, estado>>

PuedeLlamar ==
  /\ EntreInstrucciones
  /\ sizeContextoActual < MaxContextos
  /\ volvio => LlamarTrasVolver

llamarSinRetorno(n) == PuedeLlamar /\ Llamar(Nulo, n)

llamarConRetorno(e, n) ==
  /\ PuedeLlamar
  /\ IF Legible(Actual) /\ obtenerPosicionVariable(e) # Nulo
     THEN Llamar(obtenerPosicionVariable(e), n)
     ELSE Cae

(* retVar is an address of the CPU that ran the call, and travels as it is. *)
retVarLegible ==
  /\ Legible(Actual)
  /\ Contexto(Actual).retVar # Nulo
  /\ Contexto(Actual).retEn = cpu

retornar(v) ==
  /\ EntreInstrucciones /\ sizeContextoActual > 1
  /\ IF retVarLegible
     THEN /\ almacenarEnMemoria(Contexto(Actual).retVar, v)
          /\ contextos' = [contextos EXCEPT ![contextoActual[Actual]] = ContextoVacio]
          /\ vivos' = vivos \ {contextoActual[Actual]}
          /\ sizeContextoActual' = sizeContextoActual - 1
          /\ volvio' = TRUE
          /\ UNCHANGED <<contextoActual, pendientes, cpu, estado>>
     ELSE Cae

(* destruirPCB and serializarPCB go through every context. *)
PCBEntero == \A i \in 1 .. Actual : Legible(i)

(* The end of any function is the end of the program. *)
finalizar ==
  /\ EntreInstrucciones
  /\ IF PCBEntero
     THEN /\ contextos' = [b \in Bloques |-> ContextoVacio]
          /\ vivos' = {} /\ contextoActual' = << >> /\ sizeContextoActual' = 0
          /\ estado' = "finalizado"
          /\ UNCHANGED <<pendientes, volvio, cpu, memoria>>
     ELSE Cae

-----------------------------------------------------------------------------
(* The PCB goes and comes *)

(* Whoever receives n contexts makes a list and blocks of its own. *)
ListaRecibida(n) == [i \in 1 .. n |-> i]

(* End of quantum or block: the contexts up to sizeContextoActual travel.  *)
serializarPCB ==
  /\ EntreInstrucciones
  /\ IF PCBEntero
     THEN /\ contextos' = [b \in Bloques |-> IF b <= Actual THEN Contexto(b) ELSE ContextoVacio]
          /\ vivos' = 1 .. Actual
          /\ contextoActual' = ListaRecibida(Actual)
          /\ cpu' = Nulo /\ volvio' = FALSE
          /\ UNCHANGED <<sizeContextoActual, pendientes, memoria, estado>>
     ELSE Cae

desserializarPCB(c) ==
  /\ estado = "corre" /\ cpu = Nulo
  /\ cpu' = c
  /\ UNCHANGED <<contextos, vivos, pcb, pendientes, volvio, memoria, estado>>

Next ==
  \/ \E c \in CPUs : desserializarPCB(c)
  \/ \E e \in Etiquetas : definirVariable(e)
  \/ \E v \in Valores :
       \/ definirArgumento(v) \/ retornar(v)
       \/ \E e \in Etiquetas : asignar(e, v)
  \/ \E n \in 0 .. 2 :
       \/ llamarSinRetorno(n)
       \/ \E e \in Etiquetas : llamarConRetorno(e, n)
  \/ serializarPCB
  \/ finalizar

Spec == Init /\ [][Next]_vars

-----------------------------------------------------------------------------
(* Properties *)

(* While the program has not been aborted, whatever its calls define is in *)
(* the pages of stack it has (armarProximaDireccion and its like find the  *)
(* address, and only the comparison with var_max stops them).              *)
DentroDelStack ==
  estado # "abortado" =>
    \A i \in 1 .. sizeContextoActual :
      /\ \A k \in DOMAIN Contexto(i).vars : Contexto(i).vars[k].direccion \in Direcciones
      /\ \A k \in DOMAIN Contexto(i).args : Contexto(i).args[k] \in Direcciones

marcoDe(i) ==
  LET vs == SelectSeq(Contexto(i).vars, LAMBDA x : ~Desborda(x.direccion))
      as == SelectSeq(Contexto(i).args, LAMBDA d : ~Desborda(d))
  IN [args |-> [k \in DOMAIN as |-> dereferenciar(as[k])],
      vars |-> [k \in DOMAIN vs |-> <<vs[k].etiqueta, dereferenciar(vs[k].direccion)>>],
      destino |->
        IF i = 1 THEN 0
        ELSE SelectInSeq(Contexto(i - 1).vars, LAMBDA x : x.direccion = Contexto(i).retVar)]

PL == INSTANCE PilaDeLlamadas WITH
        marcos <- [i \in 1 .. sizeContextoActual |-> marcoDe(i)]

(* Through calls, returns and changes of CPU the program sees a stack of   *)
(* activations: a write or a return changes the variable it names and no   *)
(* other, of this call or of those below.                                  *)
ImplementaLaPila == PL!Spec

(* What the code does not do.  A context that is running can return where  *)
(* it was called from (retornar, 376), whatever CPU it is in.              *)
RetornaDesdeCualquierCPU ==
  Corre => \A i \in 1 .. Actual : Contexto(i).retVar # Nulo => Contexto(i).retEn = cpu

(* Every parameter of a call gets an address (armarDireccionDeArgumento).  *)
ParametrosConDireccion ==
  (pendientes > 0 /\ Legible(Actual) /\ Contexto(1).vars # << >>
      /\ Contexto(Actual - 1).vars # << >>)
    => armarDireccionDeArgumento(Actual) # Nulo

(* A program is aborted for its stack only when it has used it all (77).   *)
AbortaSinLugar ==
  estado = "abortado" =>
    \E i \in 1 .. Actual :
      \/ \E k \in DOMAIN Contexto(i).vars : Contexto(i).vars[k].direccion \notin Direcciones
      \/ \E k \in DOMAIN Contexto(i).args : Contexto(i).args[k] \notin Direcciones
=============================================================================
