---------------------------- MODULE Planificador ----------------------------
(***************************************************************************)
(* The Kernel's process life cycle: the main thread (select loop and its   *)
(* packet handlers), the short-term planner thread, the ansisop semaphores *)
(* and the CPUs that run the processes, talking over FIFO sockets.         *)
(*                                                                         *)
(* One action is one stretch of a thread between two points where another  *)
(* thread can see or change what it uses.  A queue_push and the sem_post   *)
(* that follows it are one action: nobody else can take the element        *)
(* before the post, and the post only lets others go on.                   *)
(*                                                                         *)
(* The kills ordered from a console and the failures of the other          *)
(* processes are added by Finalizaciones, which extends this module.       *)
(*                                                                         *)
(* A definition marked "mutant" is the wrong version of the one after it;  *)
(* no action uses it: it is there to see that a property notices.          *)
(***************************************************************************)
EXTENDS Naturals, FiniteSets, Colas

CONSTANTS
    Procesos,         \* the programs that may be started; each is its own pid
    CPUs,             \* the CPU processes; each stands for its socket
    Semaforos,        \* SEM_IDS
    OrdenSem,         \* position of each semaphore in SEM_IDS, from 1
    SEM_INIT,         \* SEM_INIT: initial value of each semaphore
    Exclusion,        \* the semaphores the programs use as locks
    Grados,           \* the values of GRADO_MULTIPROG considered
    QUANTUM,
    RoundRobin,       \* ALGORITMO: TRUE for RR, FALSE for FIFO
    MaxValor,         \* bound: a program does not signal past this value
    Nulo              \* NULL, and the socket -1

ASSUME ConjuntosAssumption ==
    /\ IsFiniteSet(Procesos) /\ IsFiniteSet(CPUs) /\ IsFiniteSet(Semaforos)
    /\ Nulo \notin Procesos \cup CPUs \cup Semaforos
ASSUME ConfigAssumption ==
    /\ SEM_INIT \in [Semaforos -> Nat]
    /\ OrdenSem \in [Semaforos -> Nat \ {0}]
    /\ \A s, r \in Semaforos : OrdenSem[s] = OrdenSem[r] => s = r
    /\ Exclusion \subseteq Semaforos
    /\ Grados \subseteq Nat /\ QUANTUM \in Nat \ {0}
    /\ RoundRobin \in BOOLEAN /\ MaxValor \in Nat

VARIABLES
    cola_new, cola_ready, cola_exec, cola_block, cola_exit,
    cola_CPU_libres,
    cola_semaforos, valor_semaforos,
    sem_ready, sem_cpu,          \* the counting semaphores of the planner
    cantidadDeProgramas, grado_multiprog,
    estadoPlanificacion, mutex_config,
    creados,                     \* the processes created so far (pidcounter)
    socketCPU, pcb,              \* fields of t_proceso, by process
    hilo,                        \* main thread and operator thread
    planif,                      \* planner thread
    caido,                       \* the Kernel died: it dereferenced NULL
    aCPU, aKernel,               \* sockets, one FIFO per direction and CPU
    cpu,                         \* state of each CPU process
    espera,                      \* semaphore a blocked program waits for
    dentro,                      \* <<t, s>>: t is past wait(s), before signal(s)
    ordenes                      \* orders that came from outside (Finalizaciones)

colas == <<cola_new, cola_ready, cola_exec, cola_block, cola_exit>>
libres == <<cola_CPU_libres, sem_cpu>>
semaforos == <<cola_semaforos, valor_semaforos>>
contadores == <<cantidadDeProgramas, grado_multiprog, estadoPlanificacion>>
cuenta == <<contadores, ordenes>>
procesos == <<creados, socketCPU, pcb>>
red == <<aCPU, aKernel>>
programas == <<espera, dentro>>
kernel == <<colas, libres, semaforos, cuenta, procesos, sem_ready,
            mutex_config, hilo, planif, caido>>
vars == <<kernel, red, cpu, programas>>

Hilos == {"principal", "consola"}

(* What the threads do next.  "select": the main thread waits in select(), *)
(* the operator thread in scanf().                                         *)
PasosHilo == {"select", "grado", "memoria", "listo", "cpu", "pide", "pidePCB",
              "cpuSem", "libera", "exit", "cpuDe", "fin", "buscaNew",
              "buscaReady", "buscaExec", "buscaBlock", "quitaNew",
              "quitaReady", "enExec", "archivo"}
PasosPlanif == {"sem_ready", "estado", "sem_cpu", "popCPU", "popReady",
                "exec", "datos", "pcb"}
PasosCPU == {"desconectada", "espera", "esperaPCB", "ejecuta", "wait",
             "signal", "archivo", "sondeo", "cierre", "cerrada"}

(* What a CPU has in sigusr1_desactivado and programaAbortado, always "no" *)
(* in this module.  "cerrar": the first is 0.  "abortar": the second is 1  *)
(* too.  "ociosa": the CPU exited while it waited for a program.           *)
Senales == {"no", "cerrar", "abortar", "ociosa"}

(* Packets: the operation code and the one datum the protocol looks at.    *)
OpsAborto == {"ABORTADO_CONSOLA", "ABORTADO_CONSOLA_KERNEL"}
OpsACPU == OpsAborto \cup
           {"DATOS_KERNEL", "PCB_SERIALIZADO", "PEDIDO_SEMAFORO_OK",
            "PEDIDO_SEMAFORO_FALLO", "ARCHIVO_NO_SE_PUDO_ABRIR"}
OpsFin == {"PROGRAMA_FINALIZADO", "ABORTADO_STACKOVERFLOW", "ABORTADO_HEAP"}
OpsSemaforo == {"PEDIR_SEMAFORO", "LIBERAR_SEMAFORO"}
OpsAKernel == OpsFin \cup
           {"PROGRAMA_BLOQUEADO_SEMAFORO", "FIN_QUANTUM", "ABRIR_ARCHIVO"}
PaquetesACPU == [op : OpsACPU, dato : Procesos \cup {Nulo}]
                  \cup [op : {"LIBERAR_SEMAFORO"}, dato : Semaforos]
PaquetesAKernel == [op : OpsSemaforo, dato : Semaforos]
                     \cup [op : OpsAKernel, dato : Procesos]
                     \cup [op : OpsAborto, dato : Procesos \cup {Nulo}]
t_paquete(op, dato) == [op |-> op, dato |-> dato]

TipoColas ==
    /\ cola_new \in Seq(Procesos) /\ cola_ready \in Seq(Procesos)
    /\ cola_exec \in Seq(Procesos) /\ cola_block \in Seq(Procesos)
    /\ cola_exit \in Seq(Procesos)
TipoLibres == cola_CPU_libres \in Seq(CPUs) /\ sem_ready \in Nat /\ sem_cpu \in Nat
TipoSemaforos ==
    /\ cola_semaforos \in [Semaforos -> Seq(Procesos)]
    /\ valor_semaforos \in [Semaforos -> Nat]
TipoCuenta ==
    /\ cantidadDeProgramas \in Int /\ grado_multiprog \in Nat
    /\ estadoPlanificacion \in BOOLEAN /\ caido \in BOOLEAN /\ ordenes \in Nat
    /\ mutex_config \in {"libre", "principal", "planificador"}
TipoProcesos ==
    /\ creados \subseteq Procesos
    /\ socketCPU \in [Procesos -> CPUs \cup {Nulo}]
    /\ pcb \in [Procesos -> Procesos \cup {Nulo}]
    /\ espera \in [Procesos -> Semaforos \cup {Nulo}]
    /\ dentro \subseteq Procesos \X Semaforos
TipoRed == aCPU \in [CPUs -> Seq(PaquetesACPU)] /\ aKernel \in [CPUs -> Seq(PaquetesAKernel)]

(* A thread or CPU at a step that uses a process, a CPU or a semaphore has *)
(* it, and a CPU that goes on running has quantum left.                    *)
TipoHilo(H) ==
    /\ H \in [paso : PasosHilo, proc : Procesos \cup {Nulo}, cpu : CPUs \cup {Nulo},
              sem : Semaforos \cup {Nulo}, luego : {"select", "cpu", "archivo"}, a : Nat]
    /\ H.paso \in {"listo", "pide", "pidePCB", "exit", "cpuDe", "fin"} => H.proc \in Procesos
    /\ H.paso \in {"cpu", "pide", "pidePCB", "cpuSem", "libera"} => H.cpu \in CPUs
    /\ H.luego = "cpu" => H.cpu \in CPUs
    /\ H.paso \in {"pide", "pidePCB", "libera"} => H.sem \in Semaforos
TipoHilos == DOMAIN hilo = Hilos /\ \A h \in Hilos : TipoHilo(hilo[h])
TipoPlanif ==
    /\ planif \in [paso : PasosPlanif, proc : Procesos \cup {Nulo},
                   cpu : CPUs \cup {Nulo}, serial : Procesos \cup {Nulo}]
    /\ planif.paso \in {"exec", "datos", "pcb"} => planif.proc \in Procesos
TipoCPU(C) ==
    /\ C \in [paso : PasosCPU, pid : Procesos \cup {Nulo}, quantum : Nat,
              sale : BOOLEAN, sem : Semaforos \cup {Nulo}, senal : Senales,
              yaEnvieCierre : BOOLEAN]
    /\ C.paso \in {"ejecuta", "wait", "signal", "archivo", "sondeo"} => C.pid \in Procesos
    /\ C.paso \in {"esperaPCB", "ejecuta", "wait", "signal"} => C.quantum > 0
    /\ C.paso = "sondeo" /\ ~C.sale => C.quantum > 0
    /\ C.paso = "wait" => C.sem \in Semaforos
TipoCPUs == DOMAIN cpu = CPUs /\ \A c \in CPUs : TipoCPU(cpu[c])

(* Every variable has its type, every packet the datum its operation code  *)
(* announces, and no step uses a field that was not filled in.             *)
TypeOK ==
    /\ TipoColas /\ TipoLibres /\ TipoSemaforos /\ TipoCuenta /\ TipoProcesos
    /\ TipoRed /\ TipoHilos /\ TipoPlanif /\ TipoCPUs

-----------------------------------------------------------------------------
(* Helpers of the Kernel.                                                  *)

EnPaso(h, p) == ~caido /\ hilo[h].paso = p

(* What thread h is doing: its next step, the process, CPU and semaphore   *)
(* it works on, and what its handler does after finalizarProceso or the    *)
(* push to ready: give the CPU back, answer the CPU, or nothing.  a is the *)
(* index of a list (sacarCPUDeListas).                                     *)
Reposo == [paso |-> "select", proc |-> Nulo, cpu |-> Nulo, sem |-> Nulo,
           luego |-> "select", a |-> 0]
Sigue(h, estado) == hilo' = [hilo EXCEPT ![h] = estado]
IrA(h, p) == hilo' = [hilo EXCEPT ![h].paso = p]
VuelveASelect(h) == Sigue(h, Reposo)
PlanifReposo == [paso |-> "sem_ready", proc |-> Nulo, cpu |-> Nulo, serial |-> Nulo]
Termina(h) ==
    IF hilo[h].luego = "select" THEN VuelveASelect(h) ELSE IrA(h, hilo[h].luego)

ConSocket(c) == {t \in Procesos : socketCPU[t] = c}
ConPid(p) == {t \in Procesos : pcb[t] = p}

PrimeroDeExec(c) == IF cola_exec = <<>> THEN Nulo ELSE Head(cola_exec)   \* mutant
obtenerProcesoSocketCPU(c) == Primero(cola_exec, ConSocket(c), Nulo)

SacaElPrimero(q, p) == IF q = <<>> THEN q ELSE Tail(q)                   \* mutant
eliminarProcesoDeCola(q, p) == SinPrimero(q, ConPid(p))

(* The packet at the head of what CPU c sent, when the main thread reads   *)
(* it in manejarSockets.                                                   *)
Llego(c, ops) ==
    /\ EnPaso("principal", "select")
    /\ aKernel[c] # <<>> /\ Head(aKernel[c]).op \in ops
Consume(c) == aKernel' = [aKernel EXCEPT ![c] = Tail(@)]

encolarCPUSinPost(c) ==                                                  \* mutant
    /\ cola_CPU_libres' = Append(cola_CPU_libres, c)
    /\ UNCHANGED sem_cpu
encolarCPU(c) ==
    /\ cola_CPU_libres' = Append(cola_CPU_libres, c)
    /\ sem_cpu' = sem_cpu + 1

alReadySinPost(t) ==                                                     \* mutant
    /\ cola_ready' = Append(cola_ready, t)
    /\ UNCHANGED sem_ready
alPrincipioDeReady(t) ==                                                 \* mutant
    /\ cola_ready' = <<t>> \o cola_ready
    /\ sem_ready' = sem_ready + 1
alReady(t) ==
    /\ cola_ready' = Append(cola_ready, t)
    /\ sem_ready' = sem_ready + 1

GradoPasado == cantidadDeProgramas > grado_multiprog                     \* mutant
GradoAlcanzado == cantidadDeProgramas >= grado_multiprog

HayCero(s) == valor_semaforos[s] >= 0                                    \* mutant
HayUnidades(s) == valor_semaforos[s] > 0

HayVarios(s) == Len(cola_semaforos[s]) > 1                               \* mutant
HayQuienEspera(s) == cola_semaforos[s] # <<>>

TieneCPUEnExec(t) == t \in ToSet(cola_exec)                              \* mutant
TieneCPU(t) == socketCPU[t] # Nulo

NoSueltaConfig == UNCHANGED mutex_config                                 \* mutant
SueltaConfig == mutex_config' = "libre"

(* The Kernel dereferences NULL and dies. *)
Cae ==
    /\ caido' = TRUE
    /\ UNCHANGED <<colas, libres, semaforos, cuenta, procesos, sem_ready,
                   mutex_config, hilo, planif, red, cpu, programas>>
-----------------------------------------------------------------------------
Init ==
    /\ cola_new = <<>> /\ cola_ready = <<>> /\ cola_exec = <<>>
    /\ cola_block = <<>> /\ cola_exit = <<>> /\ cola_CPU_libres = <<>>
    /\ cola_semaforos = [s \in Semaforos |-> <<>>]
    /\ valor_semaforos = SEM_INIT
    /\ sem_ready = 0 /\ sem_cpu = 0
    /\ cantidadDeProgramas = 0 /\ grado_multiprog \in Grados
    /\ estadoPlanificacion = TRUE /\ mutex_config = "libre" /\ ordenes = 0
    /\ creados = {}
    /\ socketCPU = [t \in Procesos |-> Nulo] /\ pcb = [t \in Procesos |-> t]
    /\ hilo = [h \in Hilos |-> Reposo]
    /\ planif = PlanifReposo
    /\ caido = FALSE
    /\ aCPU = [c \in CPUs |-> <<>>] /\ aKernel = [c \in CPUs |-> <<>>]
    /\ cpu = [c \in CPUs |-> [paso |-> "desconectada", pid |-> Nulo,
                quantum |-> 0, sale |-> FALSE, sem |-> Nulo, senal |-> "no",
                yaEnvieCierre |-> FALSE]]
    /\ espera = [t \in Procesos |-> Nulo] /\ dentro = {}
-----------------------------------------------------------------------------
(* Main thread: connections and new programs.                              *)

(* A CPU connects: the handshake, the algorithm and the Kernel's data are  *)
(* exchanged in blocking mode before the CPU enters its loop.              *)
nuevoClienteCPU(c) ==
    /\ EnPaso("principal", "select") /\ cpu[c].paso = "desconectada"
    /\ encolarCPU(c)
    /\ cpu' = [cpu EXCEPT ![c].paso = "espera"]
    /\ UNCHANGED <<colas, semaforos, cuenta, procesos, sem_ready, mutex_config,
                   hilo, planif, caido, red, programas>>

(* A console sends a script: the process is created and queued in new.     *)
nuevoProgramaAnsisop(t) ==
    /\ EnPaso("principal", "select") /\ t \notin creados
    /\ creados' = creados \cup {t}
    /\ cola_new' = Append(cola_new, t)
    /\ Sigue("principal", [Reposo EXCEPT !.paso = "grado", !.proc = t])
    /\ UNCHANGED <<cola_ready, cola_exec, cola_block, cola_exit, libres,
                   semaforos, cuenta, socketCPU, pcb, sem_ready, mutex_config,
                   planif, caido, red, cpu, programas>>

(* Degree reached: the process goes from new to finalizarProceso, which    *)
(* takes back the unit that is added here.                                 *)
rechazarPorGrado ==
    /\ EnPaso("principal", "grado") /\ cola_new # <<>>
    /\ GradoAlcanzado
    /\ cola_new' = Tail(cola_new)
    /\ cantidadDeProgramas' = cantidadDeProgramas + 1
    /\ Sigue("principal", [Reposo EXCEPT !.paso = "exit", !.proc = Head(cola_new)])
    /\ UNCHANGED <<cola_ready, cola_exec, cola_block, cola_exit, libres,
                   semaforos, grado_multiprog, estadoPlanificacion, ordenes, procesos,
                   sem_ready, mutex_config, planif, caido, red, cpu, programas>>

(* Room in the degree: INICIALIZAR_PROCESO and the code go to Memoria, and *)
(* the main thread waits for the answers.                                  *)
pedirMemoria ==
    /\ EnPaso("principal", "grado")
    /\ ~GradoAlcanzado
    /\ IrA("principal", "memoria")
    /\ UNCHANGED <<colas, libres, semaforos, cuenta, procesos, sem_ready,
                   mutex_config, planif, caido, red, cpu, programas>>

(* Memoria accepted: the process is counted and leaves new. *)
admitir ==
    /\ EnPaso("principal", "memoria") /\ cola_new # <<>>
    /\ cantidadDeProgramas' = cantidadDeProgramas + 1
    /\ cola_new' = Tail(cola_new)
    /\ Sigue("principal", [Reposo EXCEPT !.paso = "listo", !.proc = Head(cola_new)])
    /\ UNCHANGED <<cola_ready, cola_exec, cola_block, cola_exit, libres,
                   semaforos, grado_multiprog, estadoPlanificacion, ordenes, procesos,
                   sem_ready, mutex_config, planif, caido, red, cpu, programas>>

(* queue_pop of an empty new queue. *)
newVacia ==
    /\ \/ EnPaso("principal", "grado") /\ GradoAlcanzado
       \/ EnPaso("principal", "memoria")
    /\ cola_new = <<>>
    /\ Cae
-----------------------------------------------------------------------------
(* Steps the handlers share.                                               *)

(* queue_push(cola_ready) and sem_post(sem_ready). *)
encolarReady(h) ==
    /\ EnPaso(h, "listo")
    /\ alReady(hilo[h].proc)
    /\ Termina(h)
    /\ UNCHANGED <<cola_new, cola_exec, cola_block, cola_exit, libres,
                   semaforos, cuenta, procesos, mutex_config, planif, caido,
                   red, cpu, programas>>

(* queue_push(cola_CPU_libres) and sem_post(sem_cpu) at the end of a handler. *)
devolverCPU(h) ==
    /\ EnPaso(h, "cpu")
    /\ encolarCPU(hilo[h].cpu)
    /\ VuelveASelect(h)
    /\ UNCHANGED <<colas, semaforos, cuenta, procesos, sem_ready, mutex_config,
                   planif, caido, red, cpu, programas>>

(* finalizarProceso, first part: the process enters exit. *)
finalizarEnExit(h) ==
    /\ EnPaso(h, "exit")
    /\ cola_exit' = Append(cola_exit, hilo[h].proc)
    /\ IrA(h, "cpuDe")
    /\ UNCHANGED <<cola_new, cola_ready, cola_exec, cola_block, libres,
                   semaforos, cuenta, procesos, sem_ready, mutex_config,
                   planif, caido, red, cpu, programas>>

(* finalizarProceso, second part: the CPU the process last ran on, if any, *)
(* becomes free.                                                           *)
finalizarLiberaCPU(h) ==
    /\ EnPaso(h, "cpuDe")
    /\ IF TieneCPU(hilo[h].proc)
       THEN encolarCPU(socketCPU[hilo[h].proc])
       ELSE UNCHANGED libres
    /\ IrA(h, "fin")
    /\ UNCHANGED <<colas, semaforos, cuenta, procesos, sem_ready, mutex_config,
                   planif, caido, red, cpu, programas>>

(* finalizarProceso, last part: Memoria and the console are told, and the  *)
(* process is no longer counted.                                           *)
finalizarDescuenta(h) ==
    /\ EnPaso(h, "fin")
    /\ cantidadDeProgramas' = cantidadDeProgramas - 1
    /\ Termina(h)
    /\ UNCHANGED <<colas, libres, semaforos, grado_multiprog,
                   estadoPlanificacion, ordenes, procesos, sem_ready, mutex_config,
                   planif, caido, red, cpu, programas>>
-----------------------------------------------------------------------------
(* Main thread: the handlers of what the CPUs send.                        *)

(* A handler looks in exec for the process of the CPU that wrote, and      *)
(* finds none: it goes on to dereference NULL.                             *)
sinProceso(c) ==
    /\ Llego(c, OpsFin \cup {"PEDIR_SEMAFORO", "LIBERAR_SEMAFORO", "FIN_QUANTUM"})
    /\ obtenerProcesoSocketCPU(c) = Nulo
    /\ Cae

(* pideSemaforo: the process leaves exec before mutex_config is taken. *)
pideSemaforo(c) ==
    LET t == obtenerProcesoSocketCPU(c) IN
    /\ Llego(c, {"PEDIR_SEMAFORO"}) /\ t # Nulo
    /\ Consume(c)
    /\ cola_exec' = eliminarProcesoDeCola(cola_exec, pcb[t])
    /\ Sigue("principal", [Reposo EXCEPT !.paso = "pide", !.proc = t, !.cpu = c,
                                         !.sem = Head(aKernel[c]).dato])
    /\ UNCHANGED <<cola_new, cola_ready, cola_block, cola_exit, libres,
                   semaforos, cuenta, procesos, sem_ready, mutex_config,
                   planif, caido, aCPU, cpu, programas>>

(* The semaphore has units: the process takes one and is back in exec. *)
pideSemaforoOK ==
    LET H == hilo["principal"] IN
    /\ EnPaso("principal", "pide") /\ mutex_config = "libre"
    /\ HayUnidades(H.sem)
    /\ valor_semaforos' = [valor_semaforos EXCEPT ![H.sem] = @ - 1]
    /\ cola_exec' = Append(cola_exec, H.proc)
    /\ aCPU' = [aCPU EXCEPT ![H.cpu] = Append(@, t_paquete("PEDIDO_SEMAFORO_OK", Nulo))]
    /\ VuelveASelect("principal")
    /\ UNCHANGED <<cola_new, cola_ready, cola_block, cola_exit, libres,
                   cola_semaforos, cuenta, procesos, sem_ready, mutex_config,
                   planif, caido, aKernel, cpu, programas>>

(* No units: the CPU is told, and the Kernel waits for the process's PCB   *)
(* with mutex_config held.                                                 *)
pideSemaforoFallo ==
    LET H == hilo["principal"] IN
    /\ EnPaso("principal", "pide") /\ mutex_config = "libre"
    /\ ~HayUnidades(H.sem)
    /\ mutex_config' = "principal"
    /\ aCPU' = [aCPU EXCEPT ![H.cpu] = Append(@, t_paquete("PEDIDO_SEMAFORO_FALLO", Nulo))]
    /\ IrA("principal", "pidePCB")
    /\ UNCHANGED <<colas, libres, semaforos, cuenta, procesos, sem_ready,
                   planif, caido, aKernel, cpu, programas>>

(* Whatever packet comes next is taken for the PCB; one that holds no PCB  *)
(* makes desserializarPCB read past it.                                    *)
OpsConPCB == OpsAborto \cup {"PROGRAMA_BLOQUEADO_SEMAFORO", "FIN_QUANTUM"}
bloquear(H) ==
    /\ Consume(H.cpu)
    /\ pcb' = [pcb EXCEPT ![H.proc] = Head(aKernel[H.cpu]).dato]
    /\ cola_semaforos' = [cola_semaforos EXCEPT ![H.sem] = Append(@, H.proc)]
    /\ cola_block' = Append(cola_block, H.proc)
    /\ IrA("principal", "cpuSem")
    /\ UNCHANGED <<cola_new, cola_ready, cola_exec, cola_exit, libres,
                   valor_semaforos, cuenta, creados, socketCPU, sem_ready,
                   mutex_config, planif, caido, aCPU, cpu, programas>>

bloqueoSemaforo ==
    LET H == hilo["principal"] IN
    /\ EnPaso("principal", "pidePCB") /\ aKernel[H.cpu] # <<>>
    /\ IF Head(aKernel[H.cpu]).op \in OpsConPCB THEN bloquear(H) ELSE Cae

devolverCPUBloqueado ==
    /\ EnPaso("principal", "cpuSem")
    /\ encolarCPU(hilo["principal"].cpu)
    /\ SueltaConfig
    /\ VuelveASelect("principal")
    /\ UNCHANGED <<colas, semaforos, cuenta, procesos, sem_ready, planif,
                   caido, red, cpu, programas>>

(* liberarSemaforo: the process is looked up (for the log) and             *)
(* mutex_config is taken.                                                  *)
liberarSemaforo(c) ==
    /\ Llego(c, {"LIBERAR_SEMAFORO"}) /\ obtenerProcesoSocketCPU(c) # Nulo
    /\ Consume(c)
    /\ Sigue("principal", [Reposo EXCEPT !.paso = "libera", !.cpu = c,
                                         !.sem = Head(aKernel[c]).dato])
    /\ UNCHANGED <<colas, libres, semaforos, cuenta, procesos, sem_ready,
                   mutex_config, planif, caido, aCPU, cpu, programas>>

(* The unit goes to the first process of the queue, or to the value. *)
liberarSemaforoUnidad ==
    LET H == hilo["principal"]
        cola == cola_semaforos[H.sem] IN
    /\ EnPaso("principal", "libera") /\ mutex_config = "libre"
    /\ IF HayQuienEspera(H.sem)
       THEN /\ cola_semaforos' = [cola_semaforos EXCEPT ![H.sem] = Tail(@)]
            /\ alReady(Head(cola))
            /\ cola_block' = eliminarProcesoDeCola(cola_block, pcb[Head(cola)])
            /\ UNCHANGED valor_semaforos
       ELSE /\ valor_semaforos' = [valor_semaforos EXCEPT ![H.sem] = @ + 1]
            /\ UNCHANGED <<cola_semaforos, cola_ready, cola_block, sem_ready>>
    /\ aCPU' = [aCPU EXCEPT ![H.cpu] = Append(@, t_paquete("LIBERAR_SEMAFORO", H.sem))]
    /\ VuelveASelect("principal")
    /\ UNCHANGED <<cola_new, cola_exec, cola_exit, libres, cuenta, procesos,
                   mutex_config, planif, caido, aKernel, cpu, programas>>

finQuantum(c) ==
    LET t == obtenerProcesoSocketCPU(c) IN
    /\ Llego(c, {"FIN_QUANTUM"}) /\ t # Nulo
    /\ Consume(c)
    /\ cola_exec' = eliminarProcesoDeCola(cola_exec, pcb[t])
    /\ pcb' = [pcb EXCEPT ![t] = Head(aKernel[c]).dato]
    /\ Sigue("principal", [Reposo EXCEPT !.paso = "listo", !.proc = t, !.cpu = c,
                                         !.luego = "cpu"])
    /\ UNCHANGED <<cola_new, cola_ready, cola_block, cola_exit, libres,
                   semaforos, cuenta, creados, socketCPU, sem_ready,
                   mutex_config, planif, caido, aCPU, cpu, programas>>

finalizarProgramaKernel(c) ==
    LET t == obtenerProcesoSocketCPU(c) IN
    /\ Llego(c, OpsFin) /\ t # Nulo
    /\ Consume(c)
    /\ cola_exec' = eliminarProcesoDeCola(cola_exec, pcb[t])
    /\ Sigue("principal", [Reposo EXCEPT !.paso = "exit", !.proc = t])
    /\ UNCHANGED <<cola_new, cola_ready, cola_block, cola_exit, libres,
                   semaforos, cuenta, procesos, sem_ready, mutex_config,
                   planif, caido, aCPU, cpu, programas>>

(* procesarPaqueteRecibido has no case for it: the packet is dropped. *)
paqueteSinCaso(c) ==
    /\ Llego(c, {"PROGRAMA_BLOQUEADO_SEMAFORO"})
    /\ Consume(c)
    /\ UNCHANGED <<kernel, aCPU, cpu, programas>>
-----------------------------------------------------------------------------
(* The planner thread: planificadorCortoPlazo and mandarAEjecutar.         *)

PlanifEn(p) == ~caido /\ planif.paso = p

esperarReady ==
    /\ PlanifEn("sem_ready") /\ sem_ready > 0
    /\ sem_ready' = sem_ready - 1
    /\ planif' = [planif EXCEPT !.paso = "estado"]
    /\ UNCHANGED <<colas, libres, semaforos, cuenta, procesos, mutex_config,
                   hilo, caido, red, cpu, programas>>

(* While planning is stopped the thread sleeps and looks again. *)
mirarEstado ==
    /\ PlanifEn("estado") /\ estadoPlanificacion
    /\ planif' = [planif EXCEPT !.paso = "sem_cpu"]
    /\ UNCHANGED <<colas, libres, semaforos, cuenta, procesos, sem_ready,
                   mutex_config, hilo, caido, red, cpu, programas>>

esperarCPU ==
    /\ PlanifEn("sem_cpu") /\ sem_cpu > 0
    /\ sem_cpu' = sem_cpu - 1
    /\ planif' = [planif EXCEPT !.paso = "popCPU"]
    /\ UNCHANGED <<colas, cola_CPU_libres, semaforos, cuenta, procesos,
                   sem_ready, mutex_config, hilo, caido, red, cpu, programas>>

(* queue_pop of an empty list of CPUs returns NULL, that is, socket 0. *)
sacarCPU ==
    /\ PlanifEn("popCPU") /\ mutex_config = "libre"
    /\ mutex_config' = "planificador"
    /\ IF cola_CPU_libres = <<>>
       THEN /\ planif' = [planif EXCEPT !.paso = "popReady", !.cpu = Nulo]
            /\ UNCHANGED cola_CPU_libres
       ELSE /\ planif' = [planif EXCEPT !.paso = "popReady",
                                        !.cpu = Head(cola_CPU_libres)]
            /\ cola_CPU_libres' = Tail(cola_CPU_libres)
    /\ UNCHANGED <<colas, sem_cpu, semaforos, cuenta, procesos, sem_ready,
                   hilo, caido, red, cpu, programas>>

sacarReady ==
    /\ PlanifEn("popReady") /\ cola_ready # <<>>
    /\ cola_ready' = Tail(cola_ready)
    /\ planif' = [planif EXCEPT !.paso = "exec", !.proc = Head(cola_ready)]
    /\ UNCHANGED <<cola_new, cola_exec, cola_block, cola_exit, libres,
                   semaforos, cuenta, procesos, sem_ready, mutex_config, hilo,
                   caido, red, cpu, programas>>

readyVacia ==
    /\ PlanifEn("popReady") /\ cola_ready = <<>>
    /\ Cae

(* The PCB that will be sent is serialized before the process is in exec. *)
mandarAEjecutar ==
    /\ PlanifEn("exec")
    /\ socketCPU' = [socketCPU EXCEPT ![planif.proc] = planif.cpu]
    /\ cola_exec' = Append(cola_exec, planif.proc)
    /\ planif' = [planif EXCEPT !.paso = "datos", !.serial = pcb[planif.proc]]
    /\ UNCHANGED <<cola_new, cola_ready, cola_block, cola_exit, libres,
                   semaforos, cuenta, creados, pcb, sem_ready, mutex_config,
                   hilo, caido, red, cpu, programas>>

(* What is sent to socket 0 reaches nobody. *)
EnviaSoloPCB(op, dato) ==                                                \* mutant
    IF planif.cpu = Nulo \/ op = "DATOS_KERNEL"
    THEN UNCHANGED aCPU
    ELSE aCPU' = [aCPU EXCEPT ![planif.cpu] = Append(@, t_paquete(op, dato))]
EnviaPlanif(op, dato) ==
    IF planif.cpu = Nulo
    THEN UNCHANGED aCPU
    ELSE aCPU' = [aCPU EXCEPT ![planif.cpu] = Append(@, t_paquete(op, dato))]

enviarDatosKernel ==
    /\ PlanifEn("datos")
    /\ EnviaPlanif("DATOS_KERNEL", Nulo)
    /\ planif' = [planif EXCEPT !.paso = "pcb"]
    /\ UNCHANGED <<colas, libres, semaforos, cuenta, procesos, sem_ready,
                   mutex_config, hilo, caido, aKernel, cpu, programas>>

enviarPCB ==
    /\ PlanifEn("pcb")
    /\ EnviaPlanif("PCB_SERIALIZADO", planif.serial)
    /\ planif' = PlanifReposo
    /\ SueltaConfig
    /\ UNCHANGED <<colas, libres, semaforos, cuenta, procesos, sem_ready,
                   hilo, caido, aKernel, cpu, programas>>
-----------------------------------------------------------------------------
(* A CPU process: the loop of its main, and the wait, signal and end       *)
(* primitives.                                                             *)

CPUEn(c, p) == cpu[c].paso = p

(* A CPU with a signal pending receives, and makes the requests of its     *)
(* instructions, as any other; the rest it does in another way (CierreCPU).*)
Pendiente(c) == cpu[c].senal \in {"cerrar", "abortar"}
Aborta(c) == cpu[c].senal = "abortar"
RecibeDelKernel(c) == aCPU' = [aCPU EXCEPT ![c] = Tail(@)]
EnviaAlKernel(c, op, dato) ==
    aKernel' = [aKernel EXCEPT ![c] = Append(@, t_paquete(op, dato))]

(* The first packet is taken for the Kernel's data, whatever it is: the    *)
(* quantum of another packet is the number it starts with (a pid, cut off  *)
(* here at QUANTUM), unless the algorithm is FIFO, whose quantum is fixed. *)
recibirDatosKernel(c) ==
    /\ CPUEn(c, "espera") /\ aCPU[c] # <<>>
    /\ RecibeDelKernel(c)
    /\ \E q \in 1..QUANTUM :
          /\ ~RoundRobin \/ Head(aCPU[c]).op = "DATOS_KERNEL" => q = QUANTUM
          /\ cpu' = [cpu EXCEPT ![c].paso = "esperaPCB", ![c].quantum = q,
                                ![c].sale = FALSE]
    /\ UNCHANGED <<kernel, aKernel, programas>>

(* The second one is taken for the PCB; if it holds none the CPU dies, and *)
(* what it does with one that was read from freed memory is not followed.  *)
(* A program that was blocked goes on past its wait.                       *)
recibirPCB(c) ==
    LET paq == Head(aCPU[c]) IN
    /\ CPUEn(c, "esperaPCB") /\ aCPU[c] # <<>> /\ ~Aborta(c)
    /\ RecibeDelKernel(c)
    /\ IF paq.op = "PCB_SERIALIZADO" /\ paq.dato # Nulo
       THEN /\ cpu' = [cpu EXCEPT ![c].paso = "ejecuta", ![c].pid = paq.dato]
            /\ espera' = [espera EXCEPT ![paq.dato] = Nulo]
            /\ dentro' = dentro \cup ({paq.dato} \X ({espera[paq.dato]} \cap Exclusion))
       ELSE /\ cpu' = [cpu EXCEPT ![c].paso = "cerrada", ![c].pid = Nulo]
            /\ UNCHANGED programas
    /\ UNCHANGED <<kernel, aKernel>>

SaleBloqueado(bloqueado, q) == bloqueado                                 \* mutant
SaleSinQuantum(bloqueado, q) == q = 0                                    \* mutant
SaleDelLazo(bloqueado, q) == bloqueado \/ q = 0

(* What the loop does once the instruction returned: the quantum is spent  *)
(* (RR only) and a program that blocked or ran out of it is sent back.     *)
CerrarInstruccion(c, bloqueado) ==
    LET q == IF RoundRobin THEN cpu[c].quantum - 1 ELSE cpu[c].quantum IN
    /\ cpu' = [cpu EXCEPT ![c].paso = "sondeo", ![c].quantum = q,
                          ![c].sale = SaleDelLazo(bloqueado, q), ![c].sem = Nulo]
    /\ IF bloqueado THEN EnviaAlKernel(c, "PROGRAMA_BLOQUEADO_SEMAFORO", cpu[c].pid)
       ELSE IF q = 0 THEN EnviaAlKernel(c, "FIN_QUANTUM", cpu[c].pid)
       ELSE UNCHANGED aKernel

instruccionLocal(c) ==
    /\ CPUEn(c, "ejecuta") /\ ~Pendiente(c)
    /\ CerrarInstruccion(c, FALSE)
    /\ UNCHANGED <<kernel, aCPU, programas>>

(* finalizar, a stack overflow, or a refused heap request. *)
terminarPrograma(c) ==
    /\ CPUEn(c, "ejecuta") /\ ~Pendiente(c)
    /\ \E op \in OpsFin : EnviaAlKernel(c, op, cpu[c].pid)
    /\ cpu' = [cpu EXCEPT ![c].paso = "sondeo", ![c].sale = TRUE]
    /\ UNCHANGED <<kernel, aCPU, programas>>

wait_kernel(c, s) ==
    /\ CPUEn(c, "ejecuta")
    /\ <<cpu[c].pid, s>> \notin dentro
    /\ EnviaAlKernel(c, "PEDIR_SEMAFORO", s)
    /\ cpu' = [cpu EXCEPT ![c].paso = "wait", ![c].sem = s]
    /\ UNCHANGED <<kernel, aCPU, programas>>

(* The number the answer carries goes to programaBloqueado, whatever the   *)
(* answer is: it is 0 for PEDIDO_SEMAFORO_OK and for an answer to signal   *)
(* about the first semaphore, and a pid or 1 for the rest.                 *)
EsCero(paq) == \/ paq.op = "PEDIDO_SEMAFORO_OK"
               \/ paq.op = "LIBERAR_SEMAFORO" /\ OrdenSem[paq.dato] = 1
respuestaWait(c) ==
    LET t == cpu[c].pid
        s == cpu[c].sem
        bloqueado == ~EsCero(Head(aCPU[c])) IN
    /\ CPUEn(c, "wait") /\ aCPU[c] # <<>> /\ ~Pendiente(c)
    /\ RecibeDelKernel(c)
    /\ CerrarInstruccion(c, bloqueado)
    /\ IF bloqueado
       THEN /\ espera' = [espera EXCEPT ![t] = s] /\ UNCHANGED dentro
       ELSE /\ dentro' = dentro \cup ({t} \X ({s} \cap Exclusion))
            /\ UNCHANGED espera
    /\ UNCHANGED kernel

signal_kernel(c, s) ==
    /\ CPUEn(c, "ejecuta")
    /\ IF s \in Exclusion THEN <<cpu[c].pid, s>> \in dentro
                          ELSE valor_semaforos[s] < MaxValor
    /\ EnviaAlKernel(c, "LIBERAR_SEMAFORO", s)
    /\ dentro' = dentro \ {<<cpu[c].pid, s>>}
    /\ cpu' = [cpu EXCEPT ![c].paso = "signal"]
    /\ UNCHANGED <<kernel, aCPU, espera>>

respuestaSignal(c) ==
    /\ CPUEn(c, "signal") /\ aCPU[c] # <<>> /\ ~Pendiente(c)
    /\ RecibeDelKernel(c)
    /\ CerrarInstruccion(c, FALSE)
    /\ UNCHANGED <<kernel, programas>>

(* After every instruction the CPU polls the Kernel's socket without       *)
(* blocking, also when it has already sent the program back.  A packet     *)
(* that is not an abort is read and dropped.  An abort is answered with    *)
(* the PCB, which is freed memory once the program was sent back: its pid  *)
(* may be the old one, or nobody's.                                        *)
sondeo(c) ==
    LET hay == aCPU[c] # <<>>
        paq == Head(aCPU[c])
        aborta == hay /\ paq.op \in OpsAborto
        pids == {cpu[c].pid} \cup IF cpu[c].sale THEN {Nulo} ELSE {} IN
    /\ CPUEn(c, "sondeo") /\ ~Pendiente(c)
    /\ IF hay THEN RecibeDelKernel(c) ELSE UNCHANGED aCPU
    /\ IF aborta THEN \E p \in pids : EnviaAlKernel(c, paq.op, p) ELSE UNCHANGED aKernel
    /\ cpu' = [cpu EXCEPT ![c].paso = IF cpu[c].sale \/ aborta
                                      THEN "espera" ELSE "ejecuta"]
    /\ UNCHANGED <<kernel, programas>>
-----------------------------------------------------------------------------
HiloPrincipal ==
    \/ \E c \in CPUs : nuevoClienteCPU(c)
    \/ \E t \in Procesos : nuevoProgramaAnsisop(t)
    \/ rechazarPorGrado \/ pedirMemoria \/ admitir \/ newVacia
    \/ \E c \in CPUs : \/ pideSemaforo(c) \/ liberarSemaforo(c) \/ finQuantum(c)
                       \/ finalizarProgramaKernel(c) \/ paqueteSinCaso(c)
                       \/ sinProceso(c)
    \/ pideSemaforoOK \/ pideSemaforoFallo \/ bloqueoSemaforo
    \/ devolverCPUBloqueado \/ liberarSemaforoUnidad

PasoCompartido(h) ==
    \/ encolarReady(h) \/ devolverCPU(h)
    \/ finalizarEnExit(h) \/ finalizarLiberaCPU(h) \/ finalizarDescuenta(h)

HiloPlanificador ==
    \/ esperarReady \/ mirarEstado \/ esperarCPU \/ sacarCPU
    \/ sacarReady \/ readyVacia \/ mandarAEjecutar
    \/ enviarDatosKernel \/ enviarPCB

ProcesoCPU(c) ==
    \/ recibirDatosKernel(c) \/ recibirPCB(c)
    \/ instruccionLocal(c) \/ terminarPrograma(c)
    \/ \E s \in Semaforos : wait_kernel(c, s) \/ signal_kernel(c, s)
    \/ respuestaWait(c) \/ respuestaSignal(c) \/ sondeo(c)

Next ==
    \/ HiloPrincipal \/ PasoCompartido("principal")
    \/ HiloPlanificador
    \/ \E c \in CPUs : ProcesoCPU(c)

Spec == Init /\ [][Next]_vars

(* The threads and processes are scheduled by the operating system: none   *)
(* that can go on is left standing for ever.                               *)
Equidad ==
    /\ WF_vars(HiloPrincipal \/ PasoCompartido("principal"))
    /\ WF_vars(HiloPlanificador)
    /\ \A c \in CPUs : WF_vars(ProcesoCPU(c))
SpecJusta == Spec /\ Equidad

-----------------------------------------------------------------------------
(* Properties.                                                             *)

Veces(q, x) == Cardinality(Posiciones(q, {x}))
Uno(b) == IF b THEN 1 ELSE 0

(* The Kernel never dereferences NULL: every packet of a CPU finds its     *)
(* process in exec, the planner never pops an empty queue and no packet is *)
(* mistaken for a PCB (obtenerProcesoSocketCPU and queue_pop, whose        *)
(* results nobody checks).                                                 *)
NoCae == ~caido

(* The planner is past sem_wait(sem_ready), and has not popped yet. *)
TomoReady == planif.paso \in {"estado", "sem_cpu", "popCPU", "popReady"}

(* sem_ready and sem_cpu count what their queues hold, less the unit the   *)
(* planner has taken and not used yet: a sem_post per push and a sem_wait  *)
(* per pop, across three threads and every handler.                        *)
ContadoresExactos ==
    /\ sem_ready + Uno(TomoReady) = Len(cola_ready)
    /\ sem_cpu + Uno(planif.paso = "popCPU") = Len(cola_CPU_libres)

EnManoDe(h, t) == /\ hilo[h].proc = t
                  /\ hilo[h].paso \in {"listo", "pide", "pidePCB", "exit"}

(* Every process created is in exactly one queue, or in the hands of the   *)
(* one thread that is moving it; and it is in block exactly when it waits  *)
(* in the queue of one semaphore.                                          *)
UnaSolaCola ==
    \A t \in Procesos :
        /\ Veces(cola_new, t) + Veces(cola_ready, t) + Veces(cola_exec, t)
             + Veces(cola_block, t) + Veces(cola_exit, t)
             + Cardinality({h \in Hilos : EnManoDe(h, t)})
             + Uno(planif.paso = "exec" /\ planif.proc = t)
           = Uno(t \in creados)
        /\ Veces(cola_block, t) =
             Cardinality({s \in Semaforos : \E i \in DOMAIN cola_semaforos[s] :
                                                cola_semaforos[s][i] = t})

(* Who holds CPU c: the free list, the planner on its way to use it, a     *)
(* process in exec or the main thread that is about to give it back.       *)
RetieneCPU(h, c) ==
    \/ hilo[h].cpu = c /\ hilo[h].paso \in {"listo", "cpu", "pide", "pidePCB", "cpuSem"}
    \/ /\ hilo[h].paso \in {"exit", "cpuDe"}
       /\ socketCPU[hilo[h].proc] = c

(* Every connected CPU is in exactly one of those places: it is never      *)
(* offered twice to the planner and never offered while it still runs a    *)
(* process.                                                                *)
CPUUnica ==
    \A c \in CPUs :
        Veces(cola_CPU_libres, c)
          + Cardinality({t \in ToSet(cola_exec) : socketCPU[t] = c})
          + Cardinality({h \in Hilos : RetieneCPU(h, c)})
          + Uno(planif.paso \in {"popReady", "exec"} /\ planif.cpu = c)
        = Uno(cpu[c].paso # "desconectada")

(* The PCB that comes back from a CPU is the PCB of the t_proceso it is    *)
(* stored in.                                                              *)
PCBPropio == \A t \in Procesos : pcb[t] = t

(* A CPU that executes a program executes the one the Kernel has in exec   *)
(* with that CPU's socket (or is answering for), no two CPUs execute the   *)
(* same one, and what comes back goes to the process it was sent for       *)
(* (obtenerProcesoSocketCPU, Kernel.c:1645).                               *)
Ejecutando(c) == cpu[c].paso \in {"ejecuta", "wait", "signal"}
EjecutaElSuyo ==
    /\ PCBPropio
    /\ \A c \in CPUs : Ejecutando(c) =>
        /\ socketCPU[cpu[c].pid] = c
        /\ \/ cpu[c].pid \in ToSet(cola_exec)
           \/ /\ hilo["principal"].paso \in {"pide", "pidePCB"}
              /\ hilo["principal"].proc = cpu[c].pid
        /\ \A d \in CPUs \ {c} : Ejecutando(d) => cpu[d].pid # cpu[c].pid

(* No wake-up is lost: a semaphore with units has nobody waiting. *)
SinEsperaConUnidades ==
    \A s \in Semaforos : valor_semaforos[s] > 0 => cola_semaforos[s] = <<>>

(* Programs that bracket a section with wait(s) and signal(s) are never    *)
(* more than SEM_INIT[s] inside it, counted on the CPUs' side of the       *)
(* sockets and with the units the Kernel hands to blocked processes.       *)
ExclusionMutua ==
    \A s \in Exclusion : Cardinality({t \in Procesos : <<t, s>> \in dentro}) <= SEM_INIT[s]

(* Processes between their admission and their exit. *)
Admitidos ==
    {t \in creados :
        \/ t \in ToSet(cola_ready) \cup ToSet(cola_exec) \cup ToSet(cola_block)
        \/ planif.paso = "exec" /\ planif.proc = t
        \/ \E h \in Hilos : /\ hilo[h].proc = t
                            /\ \/ hilo[h].paso \in {"listo", "pide", "pidePCB"}
                               \/ /\ hilo[h].paso \in {"exit", "cpuDe", "fin"}
                                  /\ socketCPU[t] # Nulo}

(* cantidadDeProgramas counts the processes admitted and not finished, and *)
(* they never exceed the degree in force.  A rejected program is counted   *)
(* while finalizarProceso runs, and no longer.                             *)
GradoRespetado ==
    /\ Cardinality(Admitidos) <= grado_multiprog
    /\ cantidadDeProgramas = Cardinality(Admitidos)
         + Uno(/\ hilo["principal"].paso \in {"exit", "cpuDe", "fin"}
               /\ hilo["principal"].proc \notin Admitidos)

(* A free CPU that polls its socket finds nothing there to drop. *)
SinDespachoPerdido(c) == cpu[c].paso = "sondeo" => aCPU[c] = <<>>

(* A ready process does not wait for ever while CPUs keep becoming free:   *)
(* cola_ready is FIFO, whatever blocks and unblocks meanwhile.             *)
ListoSeDespacha ==
    []<>(cola_CPU_libres # <<>>) =>
        \A t \in Procesos : (t \in ToSet(cola_ready)) ~> (t \notin ToSet(cola_ready))

(* A process sent to a CPU is executed by it, unless the CPU's poll after  *)
(* the previous program swallowed one of the two packets of the dispatch.  *)
DespachoSeEjecuta ==
    \A c \in CPUs : []SinDespachoPerdido(c) =>
        \A t \in Procesos : (planif.paso = "datos" /\ planif.proc = t /\ planif.cpu = c)
                               ~> (cpu[c].paso = "ejecuta" /\ cpu[c].pid = t)

(* The main thread always comes back to select(): it never waits for ever  *)
(* for mutex_config or for the PCB of a process it blocked.                *)
HiloVuelve == hilo["principal"].paso # "select" ~> hilo["principal"].paso = "select"
=============================================================================
