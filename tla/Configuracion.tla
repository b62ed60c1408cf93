---------------------------- MODULE Configuracion ----------------------------
(***************************************************************************)
(* The reload of kernel.config while programs run.  The notify thread      *)
(* (verNotify, cargarConfiguracion) replaces the semaphores and the shared *)
(* variables that the main thread serves under mutex_config, after a look  *)
(* at the queues of the semaphores that does not take it.                  *)
(*                                                                         *)
(* Every program has a CPU of its own and does not end: Planificador says  *)
(* how CPUs are shared.  Programs take one lock at a time, and touch the   *)
(* shared variables between a wait and a signal of Candado, as the sample  *)
(* programs (consumidor.ansisop) do between theirs.                        *)
(***************************************************************************)
EXTENDS Integers, FiniteSets, Colas

CONSTANTS
    Procesos,
    Semaforos,       \* the names the programs use, as locks
    Candado,         \* the one that guards the shared variables
    Variables,       \* the shared variables the programs use
    Valores,         \* what is stored in them
    Archivos,        \* kernel.config, as the operator may write it
    MaxCambios,      \* bound: times it is written
    MaxEnVuelo,      \* bound: packets of a CPU the Kernel has not read
    Nulo

ASSUME ProgramasAssumption ==
    /\ IsFiniteSet(Procesos) /\ Nulo \notin Procesos
    /\ Candado \in Semaforos
    /\ Valores \subseteq Nat
    /\ MaxCambios \in Nat /\ MaxEnVuelo \in Nat
ASSUME ArchivosAssumption ==
    \A f \in Archivos :
        /\ f.ids \in Seq(Semaforos) /\ IsInjective(f.ids)
        /\ f.inits \in Seq(Nat) /\ Len(f.inits) = Len(f.ids)
        /\ f.vars \subseteq Variables

VARIABLES
    archivo, eventos, cambios,     \* the file, and what inotify has to say
    config,                        \* sem_ids, sem_inits, shared_vars
    cantidadSemaforos,
    valor_semaforos, cola_semaforos,  \* by position in sem_ids
    valor_shared_vars,
    mutex_config,
    cola_ready, cola_block,
    principal,                     \* the main thread
    notify,                        \* the notify thread
    caido,                         \* the Kernel exited or died
    aKernel, aCPU,                 \* sockets, by program
    programa,                      \* what each program is doing
    dentro,                        \* <<t, s>>: t is past wait(s), before signal(s)
    tomadas,                       \* history: <<t, s>>, units of locks handed out
    heredadas,                     \* history: those handed out at the last reload
    escrito,                       \* history: last value a program assigned
    alMirar                        \* history: who waited when the look began

disco == <<archivo, eventos, cambios>>
semaforos == <<valor_semaforos, cola_semaforos, cola_block, cola_ready>>
carga == <<config, cantidadSemaforos>>
red == <<aKernel, aCPU>>
programas == <<programa, dentro>>
historia == <<tomadas, heredadas, escrito, alMirar>>
vars == <<disco, semaforos, carga, valor_shared_vars, mutex_config, principal,
          notify, caido, red, programas, historia>>

t_paquete(op, nombre, valor) == [op |-> op, nombre |-> nombre, valor |-> valor]

EnSelect == [paso |-> "select", proc |-> Nulo, nombre |-> Nulo, valor |-> 0]
NotifyReposo == [paso |-> "lee", i |-> 1, visto |-> FALSE, restan |-> 0]

(* The positions of a semaphore in sem_ids: one, or none. *)
EnSemIds(s) == {i \in DOMAIN config.ids : config.ids[i] = s}
Esperan == UNION {ToSet(cola_semaforos[i]) : i \in DOMAIN cola_semaforos}
Tomada(s) == {t \in Procesos : <<t, s>> \in tomadas}

SinColas(f) == [i \in DOMAIN f.ids |-> <<>>]

Init ==
    /\ archivo \in Archivos /\ config = archivo /\ eventos = 0 /\ cambios = 0
    /\ cantidadSemaforos = Len(archivo.ids)
    /\ valor_semaforos = archivo.inits /\ cola_semaforos = SinColas(archivo)
    /\ valor_shared_vars = [x \in archivo.vars |-> 0]
    /\ mutex_config = "libre" /\ cola_ready = <<>> /\ cola_block = <<>>
    /\ principal = EnSelect /\ notify = NotifyReposo /\ caido = FALSE
    /\ aKernel = [t \in Procesos |-> <<>>] /\ aCPU = [t \in Procesos |-> <<>>]
    /\ programa = [t \in Procesos |-> [paso |-> "ejecuta", nombre |-> Nulo, valor |-> 0]]
    /\ dentro = {} /\ tomadas = {}
    /\ heredadas = [s \in Semaforos |-> 0]
    /\ escrito = [x \in Variables |-> 0] /\ alMirar = {}

(* exit(0), or a dereference of NULL. *)
Cae ==
    /\ caido' = TRUE
    /\ UNCHANGED <<disco, semaforos, carga, valor_shared_vars, mutex_config,
                   principal, notify, red, programas, historia>>
-----------------------------------------------------------------------------
(* The programs: the kernel primitives of the CPU.                         *)

Ejecuta(t) == ~caido /\ programa[t].paso = "ejecuta" /\ Len(aKernel[t]) < MaxEnVuelo
ConCandado(t) == <<t, Candado>> \in dentro

Envia(t, paq) == aKernel' = [aKernel EXCEPT ![t] = Append(@, paq)]
Pasa(t, paso, nombre, valor) ==
    programa' = [programa EXCEPT ![t] = [paso |-> paso, nombre |-> nombre, valor |-> valor]]
RestoDelSistema ==
    UNCHANGED <<disco, semaforos, carga, valor_shared_vars, mutex_config,
                principal, notify, caido>>

wait_kernel(t, s) ==
    /\ Ejecuta(t)
    /\ \A r \in Semaforos : <<t, r>> \notin dentro
    /\ Envia(t, t_paquete("PEDIR_SEMAFORO", s, 0))
    /\ Pasa(t, "wait", s, 0)
    /\ RestoDelSistema /\ UNCHANGED <<aCPU, dentro, historia>>

signal_kernel(t, s) ==
    /\ Ejecuta(t) /\ <<t, s>> \in dentro
    /\ Envia(t, t_paquete("LIBERAR_SEMAFORO", s, 0))
    /\ Pasa(t, "signal", s, 0)
    /\ dentro' = dentro \ {<<t, s>>}
    /\ RestoDelSistema /\ UNCHANGED <<aCPU, historia>>

(* It answers nothing: the program goes on once both packets are sent. *)
asignarValorCompartida(t, x, v) ==
    /\ Ejecuta(t) /\ ConCandado(t)
    /\ Envia(t, t_paquete("ESCRIBIR_VARIABLE", x, 0))
    /\ Pasa(t, "asigna", x, v)
    /\ RestoDelSistema /\ UNCHANGED <<aCPU, dentro, historia>>

enviarValor(t) ==
    /\ programa[t].paso = "asigna"
    /\ Envia(t, t_paquete("VALOR", Nulo, programa[t].valor))
    /\ escrito' = [escrito EXCEPT ![programa[t].nombre] = programa[t].valor]
    /\ Pasa(t, "ejecuta", Nulo, 0)
    /\ RestoDelSistema /\ UNCHANGED <<aCPU, dentro, tomadas, heredadas, alMirar>>

obtenerValorCompartida(t, x) ==
    /\ Ejecuta(t) /\ ConCandado(t)
    /\ Envia(t, t_paquete("SOLICITAR_VARIABLE", x, 0))
    /\ Pasa(t, "lee", x, 0)
    /\ RestoDelSistema /\ UNCHANGED <<aCPU, dentro, historia>>

(* The answer: PEDIDO_SEMAFORO_FALLO makes the CPU send the PCB back. *)
recibirRespuesta(t) ==
    LET paq == Head(aCPU[t])
        s == programa[t].nombre
        falla == paq.op = "PEDIDO_SEMAFORO_FALLO" IN
    /\ aCPU[t] # <<>>
    /\ aCPU' = [aCPU EXCEPT ![t] = Tail(@)]
    /\ IF falla THEN Pasa(t, "bloqueado", s, 0) ELSE Pasa(t, "ejecuta", Nulo, 0)
    /\ IF falla THEN Envia(t, t_paquete("PROGRAMA_BLOQUEADO_SEMAFORO", s, 0))
                ELSE UNCHANGED aKernel
    /\ dentro' = IF paq.op = "PEDIDO_SEMAFORO_OK" THEN dentro \cup {<<t, s>>} ELSE dentro
    /\ RestoDelSistema /\ UNCHANGED historia

Programa(t) ==
    \/ \E s \in Semaforos : wait_kernel(t, s) \/ signal_kernel(t, s)
    \/ \E x \in Variables : \/ obtenerValorCompartida(t, x)
                            \/ \E v \in Valores : asignarValorCompartida(t, x, v)
CPU(t) == enviarValor(t) \/ recibirRespuesta(t)
-----------------------------------------------------------------------------
(* The main thread: each request is read from the socket, and served once  *)
(* mutex_config is free.                                                   *)

Llega(t, op) ==
    /\ ~caido /\ principal.paso = "select"
    /\ aKernel[t] # <<>> /\ Head(aKernel[t]).op = op
Lee(t) == aKernel' = [aKernel EXCEPT ![t] = Tail(@)]
Sirve(t, paso) ==
    /\ Lee(t)
    /\ principal' = [EnSelect EXCEPT !.paso = paso, !.proc = t, !.nombre = Head(aKernel[t]).nombre]
    /\ UNCHANGED <<disco, semaforos, carga, valor_shared_vars, mutex_config,
                   notify, caido, aCPU, programas, historia>>

pideSemaforo(t) == Llega(t, "PEDIR_SEMAFORO") /\ Sirve(t, "pide")
liberarSemaforo(t) == Llega(t, "LIBERAR_SEMAFORO") /\ Sirve(t, "libera")
solicitaVariable(t) == Llega(t, "SOLICITAR_VARIABLE") /\ Sirve(t, "solicita")
escribirVariable(t) == Llega(t, "ESCRIBIR_VARIABLE") /\ Sirve(t, "valor")

TomaConfig(paso) ==
    ~caido /\ principal.paso = paso /\ mutex_config = "libre"
Contesta(op, valor) ==
    /\ aCPU' = [aCPU EXCEPT ![principal.proc] = Append(@, t_paquete(op, principal.nombre, valor))]
    /\ principal' = EnSelect

(* buscarSemaforo ends the Kernel when the name is not there. *)
semaforoPedido ==
    LET t == principal.proc
        s == principal.nombre IN
    /\ TomaConfig("pide")
    /\ \/ EnSemIds(s) = {} /\ Cae
       \/ \E i \in EnSemIds(s) :
             /\ valor_semaforos[i] <= 0
             /\ aCPU' = [aCPU EXCEPT ![t] = Append(@, t_paquete("PEDIDO_SEMAFORO_FALLO", s, 1))]
             /\ principal' = [principal EXCEPT !.paso = "pidePCB"]
             /\ mutex_config' = "principal"
             /\ UNCHANGED <<disco, semaforos, carga, valor_shared_vars, notify,
                            caido, aKernel, programas, historia>>
       \/ \E i \in EnSemIds(s) :
             /\ valor_semaforos[i] > 0
             /\ valor_semaforos' = [valor_semaforos EXCEPT ![i] = @ - 1]
             /\ tomadas' = tomadas \cup {<<t, s>>}
             /\ Contesta("PEDIDO_SEMAFORO_OK", 0)
             /\ UNCHANGED <<disco, cola_semaforos, cola_block, cola_ready, carga,
                            valor_shared_vars, mutex_config, notify, caido,
                            aKernel, programas, heredadas, escrito, alMirar>>

(* With mutex_config held, the PCB arrives: bloqueoSemaforo. *)
bloquearProceso ==
    LET t == principal.proc
        s == principal.nombre IN
    /\ ~caido /\ principal.paso = "pidePCB" /\ aKernel[t] # <<>>
    /\ Lee(t)
    /\ cola_semaforos' = [i \in DOMAIN cola_semaforos |->
                            IF i \in EnSemIds(s) THEN Append(cola_semaforos[i], t)
                                                   ELSE cola_semaforos[i]]
    /\ cola_block' = Append(cola_block, t)
    /\ mutex_config' = "libre" /\ principal' = EnSelect
    /\ UNCHANGED <<disco, valor_semaforos, cola_ready, carga, valor_shared_vars,
                   notify, caido, aCPU, programas, historia>>

(* Mutant: the unit is added also when it goes to whoever waits. *)
SumaSiempre(i) == valor_semaforos' = [valor_semaforos EXCEPT ![i] = @ + 1]
SumaUnidad(i) ==
    valor_semaforos' = IF cola_semaforos[i] = <<>>
                       THEN [valor_semaforos EXCEPT ![i] = @ + 1] ELSE valor_semaforos

(* With nobody waiting the semaphore goes up; else its unit goes on. *)
semaforoLiberado ==
    LET s == principal.nombre
        sin == tomadas \ {<<principal.proc, s>>} IN
    /\ TomaConfig("libera")
    /\ \/ /\ EnSemIds(s) = {} /\ tomadas' = sin
          /\ UNCHANGED <<semaforos, alMirar>>
       \/ \E i \in EnSemIds(s) :
             /\ SumaUnidad(i)
             /\ IF cola_semaforos[i] = <<>>
                THEN /\ tomadas' = sin
                     /\ UNCHANGED <<cola_semaforos, cola_block, cola_ready, alMirar>>
                ELSE LET despierta == Head(cola_semaforos[i]) IN
                     /\ cola_semaforos' = [cola_semaforos EXCEPT ![i] = Tail(@)]
                     /\ cola_ready' = Append(cola_ready, despierta)
                     /\ cola_block' = Remove(cola_block, despierta)
                     /\ tomadas' = sin \cup {<<despierta, s>>}
                     /\ alMirar' = alMirar \ {despierta}
    /\ Contesta("LIBERAR_SEMAFORO", 0)
    /\ UNCHANGED <<disco, carga, valor_shared_vars, mutex_config, notify, caido,
                   aKernel, programas, heredadas, escrito>>

variableSolicitada ==
    /\ TomaConfig("solicita")
    /\ IF principal.nombre \notin config.vars
       THEN Cae
       ELSE /\ Contesta("SOLICITAR_VARIABLE_OK", valor_shared_vars[principal.nombre])
            /\ UNCHANGED <<disco, semaforos, carga, valor_shared_vars, mutex_config,
                           notify, caido, aKernel, programas, historia>>

(* Mutant: the value is taken from the first packet. *)
ValorDelPrimero(t) == principal.valor
ValorDelPaquete(t) == Head(aKernel[t]).valor

(* The second packet, read from that socket whatever the others have sent. *)
recibirValor ==
    LET t == principal.proc IN
    /\ ~caido /\ principal.paso = "valor" /\ aKernel[t] # <<>>
    /\ Lee(t)
    /\ principal' = [principal EXCEPT !.paso = "escribe", !.valor = ValorDelPaquete(t)]
    /\ UNCHANGED <<disco, semaforos, carga, valor_shared_vars, mutex_config,
                   notify, caido, aCPU, programas, historia>>

variableEscrita ==
    /\ TomaConfig("escribe")
    /\ IF principal.nombre \notin config.vars
       THEN Cae
       ELSE /\ valor_shared_vars' = [valor_shared_vars EXCEPT ![principal.nombre] = principal.valor]
            /\ principal' = EnSelect
            /\ UNCHANGED <<disco, semaforos, carga, mutex_config, notify, caido, red,
                           programas, historia>>

Principal ==
    \/ \E t \in Procesos : \/ pideSemaforo(t) \/ liberarSemaforo(t)
                           \/ solicitaVariable(t) \/ escribirVariable(t)
    \/ semaforoPedido \/ bloquearProceso \/ semaforoLiberado
    \/ variableSolicitada \/ recibirValor \/ variableEscrita

(* The planner takes mutex_config too; there is always a CPU. *)
planificadorCortoPlazo ==
    /\ ~caido /\ cola_ready # <<>> /\ mutex_config = "libre"
    /\ LET t == Head(cola_ready) IN
       /\ dentro' = dentro \cup {<<t, programa[t].nombre>>}
       /\ Pasa(t, "ejecuta", Nulo, 0)
    /\ cola_ready' = Tail(cola_ready)
    /\ UNCHANGED <<disco, valor_semaforos, cola_semaforos, cola_block, carga,
                   valor_shared_vars, mutex_config, principal, notify, caido, red,
                   historia>>
-----------------------------------------------------------------------------
(* The file and the notify thread.                                         *)

escribirArchivo(f) ==
    /\ ~caido /\ cambios < MaxCambios
    /\ archivo' = f /\ eventos' = eventos + 1 /\ cambios' = cambios + 1
    /\ UNCHANGED <<semaforos, carga, valor_shared_vars, mutex_config, principal,
                   notify, caido, red, programas, historia>>

Notifica(paso) == ~caido /\ notify.paso = paso
EnElKernelNadaMas ==
    UNCHANGED <<archivo, cambios, semaforos, carga, valor_shared_vars, principal,
                caido, red, programas, tomadas, heredadas, escrito>>

(* haySemaforos begins: with it, for each event, cargarConfiguracion. *)
EmpiezaAMirar(restan) ==
    /\ notify' = [NotifyReposo EXCEPT !.paso = "mira", !.restan = restan]
    /\ alMirar' = Esperan

(* Mutant: the mutex is taken before the look. *)
verNotifyConMutex ==
    /\ Notifica("lee") /\ eventos > 0 /\ mutex_config = "libre"
    /\ eventos' = 0 /\ mutex_config' = "notify"
    /\ EmpiezaAMirar(eventos - 1)
    /\ EnElKernelNadaMas
(* read() gives all the events there are; an event is one reload. *)
verNotify ==
    /\ Notifica("lee") /\ eventos > 0
    /\ eventos' = 0
    /\ EmpiezaAMirar(eventos - 1)
    /\ EnElKernelNadaMas /\ UNCHANGED mutex_config

(* Mutant: the first queue is not looked at. *)
HayDesdeElSegundo == notify.i > 1 /\ cola_semaforos[notify.i] # <<>>
HayEnEsta == cola_semaforos[notify.i] # <<>>

haySemaforos ==
    /\ Notifica("mira") /\ notify.i \in DOMAIN cola_semaforos
    /\ notify' = [notify EXCEPT !.i = @ + 1, !.visto = @ \/ HayEnEsta]
    /\ EnElKernelNadaMas /\ UNCHANGED <<eventos, mutex_config, alMirar>>

(* Mutant: retorno keeps its value from one look to the next. *)
MiraSinOlvidar ==
    /\ notify' = [notify EXCEPT !.i = 1]
    /\ alMirar' = Esperan
OtraMirada == EmpiezaAMirar(notify.restan)

(* while(haySemaforos()){} *)
terminarDeMirar ==
    /\ Notifica("mira") /\ notify.i \notin DOMAIN cola_semaforos
    /\ IF notify.visto
       THEN OtraMirada
       ELSE notify' = [notify EXCEPT !.paso = "toma"] /\ UNCHANGED alMirar
    /\ EnElKernelNadaMas /\ UNCHANGED <<eventos, mutex_config>>

(* cantidadSemaforos is not reset: convertirConfigEnInt passes the NULL    *)
(* that ends a shorter list to atoi.                                       *)
cargarConfiguracion ==
    /\ Notifica("toma") /\ mutex_config \in {"libre", "notify"}
    /\ IF Len(archivo.ids) < cantidadSemaforos
       THEN Cae
       ELSE /\ config' = archivo /\ cantidadSemaforos' = Len(archivo.ids)
            /\ valor_semaforos' = archivo.inits /\ cola_semaforos' = SinColas(archivo)
            /\ valor_shared_vars' = [x \in archivo.vars |-> 0]
            /\ heredadas' = [s \in Semaforos |-> Cardinality(Tomada(s))]
            /\ escrito' = [x \in Variables |-> 0]
            /\ mutex_config' = "libre"
            /\ notify' = IF notify.restan = 0 THEN NotifyReposo
                         ELSE [NotifyReposo EXCEPT !.paso = "otra", !.restan = notify.restan - 1]
            /\ UNCHANGED <<disco, cola_block, cola_ready, principal, caido, red,
                           programas, tomadas, alMirar>>

(* The next event of the same read(). *)
siguienteEvento ==
    /\ Notifica("otra")
    /\ EmpiezaAMirar(notify.restan)
    /\ EnElKernelNadaMas /\ UNCHANGED <<eventos, mutex_config>>

Notify ==
    \/ verNotify \/ haySemaforos \/ terminarDeMirar \/ cargarConfiguracion
    \/ siguienteEvento

Next ==
    \/ \E t \in Procesos : Programa(t) \/ CPU(t)
    \/ Principal \/ planificadorCortoPlazo \/ Notify
    \/ \E f \in Archivos : escribirArchivo(f)

Spec == Init /\ [][Next]_vars

(* The main and the notify threads of the Kernel run, and the CPUs answer; *)
(* the planner, the programs and the operator owe nothing.                 *)
SpecJusta ==
    /\ Spec
    /\ WF_vars(Principal) /\ WF_vars(Notify)
    /\ WF_vars(\E t \in Procesos : CPU(t))

-----------------------------------------------------------------------------
(* Properties.                                                             *)

(* Blocked processes that are in no queue: a signal will not find them. *)
Perdidos == ToSet(cola_block) \ Esperan

(* A process that waited for a semaphore when the look that let the reload *)
(* go on began, and was not woken since, keeps its place in a queue        *)
(* (haySemaforos, Kernel.c:89): only one that blocks meanwhile is lost.    *)
QuienEsperabaSigue == Perdidos \cap alMirar = {}

(* A lock has as many programs past its wait as kernel.config says, plus   *)
(* those that were inside when it was reloaded with new units              *)
(* (Kernel.c:149).                                                         *)
ExclusionConRecarga ==
    \A s \in Semaforos : \A i \in EnSemIds(s) :
        Cardinality({t \in Procesos : <<t, s>> \in dentro}) <= config.inits[i] + heredadas[s]

(* A program that reads a shared variable with the lock taken gets what    *)
(* the last program that had the lock assigned, although an assignment is  *)
(* two packets without an answer (primitivas.c:235), unless the reload     *)
(* came with the lock taken.                                               *)
LeeLoAsignado ==
    \A t \in Procesos : \A i \in EnSemIds(Candado) :
        config.inits[i] = 1 /\ heredadas[Candado] = 0 =>
            \A k \in DOMAIN aCPU[t] :
                aCPU[t][k].op = "SOLICITAR_VARIABLE_OK" =>
                    aCPU[t][k].valor = escrito[aCPU[t][k].nombre]

(* The main thread always comes back to select(), also while the notify    *)
(* thread waits for the queues (Kernel.c:112): it does so without the      *)
(* mutex.                                                                  *)
PrincipalVuelve == principal.paso # "select" ~> principal.paso = "select" \/ caido

(* What the operator writes is loaded in the end, if from some moment on   *)
(* no process waits for a semaphore.                                       *)
CambioSeCarga ==
    <>[](Esperan = {}) => (eventos > 0 ~> caido \/ (config = archivo /\ eventos = 0))

(* What the code does not do.                                              *)

(* Kernel.c:111, "No se puede cambiar la configuracion hasta que la cola   *)
(* de Semaforos este vacia": nobody loses its place by a reload.           *)
NadieSePierde == Perdidos = {}

(* The operator may write any of the files. *)
SobreviveALaCarga == ~caido
=============================================================================
