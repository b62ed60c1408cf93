--------------------------- MODULE Finalizaciones ---------------------------
(***************************************************************************)
(* Planificador with what ends a process from outside it: a console that   *)
(* disconnects its program, the operator of the Kernel (hiloConKer, a      *)
(* thread of its own), a file request that fails, a Memoria without room;  *)
(* and with the operator's changes of degree and stops of the planning.    *)
(*                                                                         *)
(* finalizarProcesoPorPID looks for the process in new, in ready and in    *)
(* exec, under one mutex after the other, and acts on what it saw after it *)
(* let go of them: each look is a step.                                    *)
(***************************************************************************)
EXTENDS Planificador

CONSTANTS
    GradosPedidos,   \* the degrees of multiprogramming the operator may ask for
    MaxOrdenes       \* bound: orders given by consoles, operator and files

ASSUME OrdenesAssumption == GradosPedidos \subseteq Nat /\ MaxOrdenes \in Nat

(* One more order, within the bound. *)
Ordena == ordenes < MaxOrdenes /\ ordenes' = ordenes + 1

ConEsePid(q, p) == Posiciones(q, ConPid(p)) # {}

(* The packet that tells a CPU to give its program back: who orders the    *)
(* end decides it.                                                         *)
OpAborto(h) == IF h = "consola" THEN "ABORTADO_CONSOLA_KERNEL" ELSE "ABORTADO_CONSOLA"

Busca(t) == [Reposo EXCEPT !.paso = "buscaNew", !.proc = t]
-----------------------------------------------------------------------------
(* Orders.                                                                 *)

(* FINALIZAR_PROGRAMA_DESDE_CONSOLA, handled by the main thread. *)
finalizarDesdeConsola(t) ==
    /\ EnPaso("principal", "select") /\ t \in creados /\ Ordena
    /\ Sigue("principal", Busca(t))
    /\ UNCHANGED <<colas, libres, semaforos, contadores, procesos, sem_ready,
                   mutex_config, planif, caido, red, cpu, programas>>

(* Option 5 of the operator's menu. *)
finalizarDesdeKernel(t) ==
    /\ EnPaso("consola", "select") /\ t \in creados /\ Ordena
    /\ Sigue("consola", Busca(t))
    /\ UNCHANGED <<colas, libres, semaforos, contadores, procesos, sem_ready,
                   mutex_config, planif, caido, red, cpu, programas>>

(* Option 4. *)
cambiarGradoMultiprogramacion(n) ==
    /\ EnPaso("consola", "select") /\ n # grado_multiprog /\ Ordena
    /\ grado_multiprog' = n
    /\ UNCHANGED <<colas, libres, semaforos, cantidadDeProgramas,
                   estadoPlanificacion, procesos, sem_ready, mutex_config,
                   hilo, planif, caido, red, cpu, programas>>

(* Option 6: stopping is an order, going on is not bounded. *)
detenerPlanificacion ==
    /\ EnPaso("consola", "select")
    /\ IF estadoPlanificacion THEN Ordena ELSE UNCHANGED ordenes
    /\ estadoPlanificacion' = ~estadoPlanificacion
    /\ UNCHANGED <<colas, libres, semaforos, cantidadDeProgramas,
                   grado_multiprog, procesos, sem_ready, mutex_config, hilo,
                   planif, caido, red, cpu, programas>>

(* Memoria answers INICIALIZAR_PROCESO_FALLO: the process, not counted     *)
(* yet, goes to finalizarProceso.                                          *)
memoriaRechaza ==
    /\ EnPaso("principal", "memoria") /\ cola_new # <<>> /\ Ordena
    /\ cola_new' = Tail(cola_new)
    /\ Sigue("principal", [Reposo EXCEPT !.paso = "exit", !.proc = Head(cola_new)])
    /\ UNCHANGED <<cola_ready, cola_exec, cola_block, cola_exit, libres,
                   semaforos, contadores, procesos, sem_ready, mutex_config,
                   planif, caido, red, cpu, programas>>

(* A program opens a file it may not open. *)
abrirArchivo(c) ==
    /\ CPUEn(c, "ejecuta") /\ Ordena
    /\ EnviaAlKernel(c, "ABRIR_ARCHIVO", cpu[c].pid)
    /\ cpu' = [cpu EXCEPT ![c].paso = "archivo"]
    /\ UNCHANGED <<colas, libres, semaforos, contadores, procesos, sem_ready,
                   mutex_config, hilo, planif, caido, aCPU, programas>>

archivoFallido(c) ==
    /\ Llego(c, {"ABRIR_ARCHIVO"})
    /\ Consume(c)
    /\ Sigue("principal", [Busca(Head(aKernel[c]).dato) EXCEPT
                              !.cpu = c, !.luego = "archivo"])
    /\ UNCHANGED <<colas, libres, semaforos, cuenta, procesos, sem_ready,
                   mutex_config, planif, caido, aCPU, cpu, programas>>

responderArchivo ==
    LET c == hilo["principal"].cpu IN
    /\ EnPaso("principal", "archivo")
    /\ aCPU' = [aCPU EXCEPT ![c] = Append(@, t_paquete("ARCHIVO_NO_SE_PUDO_ABRIR", Nulo))]
    /\ VuelveASelect("principal")
    /\ UNCHANGED <<colas, libres, semaforos, cuenta, procesos, sem_ready,
                   mutex_config, planif, caido, aKernel, cpu, programas>>

(* Any answer but ABRIR_ARCHIVO ends the program on the CPU's side. *)
respuestaArchivo(c) ==
    /\ CPUEn(c, "archivo") /\ aCPU[c] # <<>>
    /\ RecibeDelKernel(c)
    /\ cpu' = [cpu EXCEPT ![c].paso = "sondeo", ![c].sale = TRUE]
    /\ UNCHANGED <<kernel, aKernel, programas>>
-----------------------------------------------------------------------------
(* finalizarProcesoPorPID, run by thread h.                                *)

Mira(h, cola, si, no) ==
    /\ IrA(h, IF ConEsePid(cola, hilo[h].proc) THEN si ELSE no)
    /\ UNCHANGED <<colas, libres, semaforos, cuenta, procesos, sem_ready,
                   mutex_config, planif, caido, red, cpu, programas>>

buscarProcesoEnLasColas(h) ==
    \/ EnPaso(h, "buscaNew") /\ Mira(h, cola_new, "quitaNew", "buscaReady")
    \/ EnPaso(h, "buscaReady") /\ Mira(h, cola_ready, "quitaReady", "buscaExec")
    \/ EnPaso(h, "buscaExec") /\ Mira(h, cola_exec, "enExec", "buscaBlock")

(* The process found is ended, or the order comes to nothing. *)
Finaliza(h, t) == hilo' = [hilo EXCEPT ![h].paso = "exit", ![h].proc = t]

quitarDeNew(h) ==
    LET p == hilo[h].proc IN
    /\ EnPaso(h, "quitaNew")
    /\ cola_new' = eliminarProcesoDeCola(cola_new, p)
    /\ IF ConEsePid(cola_new, p)
       THEN Finaliza(h, Primero(cola_new, ConPid(p), Nulo)) ELSE Termina(h)
    /\ UNCHANGED <<cola_ready, cola_exec, cola_block, cola_exit, libres,
                   semaforos, cuenta, procesos, sem_ready, mutex_config,
                   planif, caido, red, cpu, programas>>

(* sem_ready keeps the unit of the process that leaves. *)
quitarDeReady(h) ==
    LET p == hilo[h].proc IN
    /\ EnPaso(h, "quitaReady")
    /\ cola_ready' = eliminarProcesoDeCola(cola_ready, p)
    /\ IF ConEsePid(cola_ready, p)
       THEN Finaliza(h, Primero(cola_ready, ConPid(p), Nulo)) ELSE Termina(h)
    /\ UNCHANGED <<cola_new, cola_exec, cola_block, cola_exit, libres,
                   semaforos, cuenta, procesos, sem_ready, mutex_config,
                   planif, caido, red, cpu, programas>>

(* In exec, ended by a console: its CPU is told, and nothing else. *)
avisarCPU(h) ==
    LET t == Primero(cola_exec, ConPid(hilo[h].proc), Nulo) IN
    /\ EnPaso(h, "enExec") /\ hilo[h].luego # "archivo" /\ t # Nulo
    /\ IF socketCPU[t] = Nulo
       THEN UNCHANGED aCPU
       ELSE aCPU' = [aCPU EXCEPT ![socketCPU[t]] =
                         Append(@, t_paquete(OpAborto(h), pcb[t]))]
    /\ Termina(h)
    /\ UNCHANGED <<colas, libres, semaforos, cuenta, procesos, sem_ready,
                   mutex_config, planif, caido, aKernel, cpu, programas>>

(* It has left exec since it was seen there. *)
yaNoEstaEnExec(h) ==
    /\ EnPaso(h, "enExec") /\ hilo[h].luego # "archivo"
    /\ ~ConEsePid(cola_exec, hilo[h].proc)
    /\ Cae

(* In exec, ended by a failed file request: it is finished but stays in    *)
(* exec.                                                                   *)
finalizarPorArchivo(h) ==
    LET p == hilo[h].proc IN
    /\ EnPaso(h, "enExec") /\ hilo[h].luego = "archivo"
    /\ IF ConEsePid(cola_exec, p)
       THEN Finaliza(h, Primero(cola_exec, ConPid(p), Nulo)) ELSE Termina(h)
    /\ UNCHANGED <<colas, libres, semaforos, cuenta, procesos, sem_ready,
                   mutex_config, planif, caido, red, cpu, programas>>

(* verSiEstaBloqueado looks, in the queue of the i-th semaphore, at the    *)
(* i-th process only.                                                      *)
SemDonde(p) ==
    {s \in Semaforos : /\ OrdenSem[s] \in DOMAIN cola_semaforos[s]
                       /\ pcb[cola_semaforos[s][OrdenSem[s]]] = p}
verSiEstaBloqueado(h) ==
    LET p == hilo[h].proc
        s == CHOOSE r \in SemDonde(p) : \A q \in SemDonde(p) : OrdenSem[r] <= OrdenSem[q] IN
    /\ EnPaso(h, "buscaBlock")
    /\ IF SemDonde(p) = {}
       THEN Termina(h) /\ UNCHANGED <<cola_semaforos, cola_block>>
       ELSE /\ Finaliza(h, cola_semaforos[s][OrdenSem[s]])
            /\ cola_semaforos' = [cola_semaforos EXCEPT ![s] = RemoveAt(@, OrdenSem[s])]
            /\ cola_block' = eliminarProcesoDeCola(cola_block, p)
    /\ UNCHANGED <<cola_new, cola_ready, cola_exec, cola_exit, libres,
                   valor_semaforos, cuenta, procesos, sem_ready, mutex_config,
                   planif, caido, red, cpu, programas>>
-----------------------------------------------------------------------------
(* deserializarYFinalizar: a CPU gives back the program it was told to     *)
(* abort.  The scan of exec keeps the last process of that CPU; without    *)
(* one, the index is whatever the stack held.  finalizarProceso frees the  *)
(* CPU, and the handler frees it again.                                    *)
Devuelto(c, t) ==
    /\ Consume(c)
    /\ pcb' = [pcb EXCEPT ![t] = Head(aKernel[c]).dato]
    /\ Sigue("principal", [Reposo EXCEPT !.paso = "exit", !.proc = t, !.cpu = c,
                                         !.luego = "cpu"])
    /\ UNCHANGED <<cola_new, cola_ready, cola_block, cola_exit, libres,
                   semaforos, cuenta, creados, socketCPU, sem_ready,
                   mutex_config, planif, caido, aCPU, cpu, programas>>

deserializarYFinalizar(c) ==
    LET S == ConSocket(c) IN
    /\ Llego(c, OpsAborto)
    /\ \/ /\ Posiciones(cola_exec, S) # {}
          /\ cola_exec' = SinUltimo(cola_exec, S)
          /\ Devuelto(c, Ultimo(cola_exec, S, Nulo))
       \/ /\ Posiciones(cola_exec, S) = {}
          /\ \E i \in DOMAIN cola_exec :
                /\ cola_exec' = RemoveAt(cola_exec, i)
                /\ Devuelto(c, cola_exec[i])

(* The stray index is past the end of exec. *)
indiceFueraDeExec(c) ==
    /\ Llego(c, OpsAborto)
    /\ Posiciones(cola_exec, ConSocket(c)) = {}
    /\ Cae
-----------------------------------------------------------------------------
NextF ==
    \/ Next
    \/ PasoCompartido("consola")
    \/ \E t \in Procesos : finalizarDesdeConsola(t) \/ finalizarDesdeKernel(t)
    \/ \E n \in GradosPedidos : cambiarGradoMultiprogramacion(n)
    \/ detenerPlanificacion \/ memoriaRechaza \/ responderArchivo
    \/ \E c \in CPUs : \/ abrirArchivo(c) \/ archivoFallido(c)
                       \/ respuestaArchivo(c) \/ deserializarYFinalizar(c)
                       \/ indiceFueraDeExec(c)
    \/ \E h \in Hilos : \/ buscarProcesoEnLasColas(h) \/ quitarDeNew(h)
                        \/ quitarDeReady(h) \/ avisarCPU(h) \/ yaNoEstaEnExec(h)
                        \/ finalizarPorArchivo(h) \/ verSiEstaBloqueado(h)

SpecF == Init /\ [][NextF]_vars
-----------------------------------------------------------------------------
(* Properties that survive the orders.                                     *)

(* A process in ready has its unit in sem_ready, or in the planner's hand: *)
(* whatever was ended meanwhile, the planner still gets to it.             *)
ReadyTieneSenal == Len(cola_ready) <= sem_ready + Uno(TomoReady)

(* What the comments of the code say, and the orders break.                *)

(* Kernel.c, on sem_wait(sem_ready): "El signal lo tengo cuando envio de   *)
(* New a Ready".  Past that wait the planner has a process to take.        *)
PlanificadorEncuentraProceso == planif.paso = "popReady" => cola_ready # <<>>

(* Kernel.c, on sem_wait(sem_cpu): "Cuando conecta CPU, sumo un signal y   *)
(* sumo una cpuLibre a la lista".  A CPU that connected once is in the     *)
(* list once.                                                              *)
CPULibreUnaVez == SinRepetidos(cola_CPU_libres)

(* Kernel.h, on cantidadDeProgramas: "PID dando vueltas".  While the       *)
(* threads rest it is the number of processes that are still around.       *)
CantidadDandoVueltas ==
    (\A h \in Hilos : hilo[h].paso = "select") /\ ~caido =>
        cantidadDeProgramas = Cardinality(Admitidos)
=============================================================================
