------------------------------ MODULE CierreCPU ------------------------------
(***************************************************************************)
(* Finalizaciones with CPUs that leave.  SIGUSR1 asks a CPU to leave when  *)
(* its program comes back, SIGINT at once; a CPU that waits for a program  *)
(* exits inside the handler of the signal.  The Kernel hears of it through *)
(* PROGRAMA_ABORTADO_CPU or DESCONEXION_CPU, or not at all: when recv()    *)
(* says the peer closed, the Kernel only forgets the descriptor.           *)
(*                                                                         *)
(***************************************************************************)
EXTENDS Finalizaciones

CONSTANT MaxCierres   \* bound: CPUs that get a signal or fail a read

ASSUME CierresAssumption == MaxCierres \in Nat

-----------------------------------------------------------------------------
(* Signals.                                                                *)

Viva(c) == cpu[c].paso \notin {"desconectada", "cerrada"}

(* One CPU more that leaves, within the bound. *)
Cierra(c) ==
    Cardinality({d \in CPUs : cpu[d].senal # "no" \/ cpu[d].yaEnvieCierre} \cup {c})
        <= MaxCierres

(* The process of the CPU is gone: what it had not read goes with it. *)
Sale(c, s) ==
    /\ cpu' = [cpu EXCEPT ![c].paso = "cerrada", ![c].senal = s]
    /\ aCPU' = [aCPU EXCEPT ![c] = <<>>]

(* A signal that comes after the test of the outer loop and before flag    *)
(* is 1 finds the CPU in "espera" and does not make it exit.               *)
Anota(c, s) ==
    /\ cpu' = [cpu EXCEPT ![c].senal = s]
    /\ UNCHANGED red

(* SIGUSR1. *)
sig_handler(c) ==
    /\ Viva(c) /\ cpu[c].senal = "no" /\ Cierra(c)
    /\ \/ Anota(c, "cerrar")
       \/ /\ CPUEn(c, "espera") /\ Sale(c, "ociosa")
          /\ UNCHANGED aKernel
    /\ UNCHANGED <<colas, libres, semaforos, cuenta, procesos, sem_ready,
                   mutex_config, hilo, planif, caido, programas>>

(* SIGINT.  In that same stretch programaAbortado may still be reset. *)
sig_handler2(c) ==
    /\ Viva(c) /\ cpu[c].senal \in {"no", "cerrar"} /\ Cierra(c)
    /\ \/ Anota(c, "abortar")
       \/ CPUEn(c, "espera") /\ Anota(c, "cerrar")
       \/ /\ CPUEn(c, "espera") /\ Sale(c, "ociosa")
          /\ EnviaAlKernel(c, "DESCONEXION_CPU", Nulo)
    /\ UNCHANGED <<colas, libres, semaforos, cuenta, procesos, sem_ready,
                   mutex_config, hilo, planif, caido, programas>>

(* Memoria does not give the next instruction: programaAbortado, with or   *)
(* without a signal.                                                       *)
leerSentenciaFallo(c) ==
    /\ CPUEn(c, "ejecuta") /\ Cierra(c)
    /\ EnviaAlKernel(c, "PROGRAMA_ABORTADO_CPU", cpu[c].pid)
    /\ cpu' = [cpu EXCEPT ![c].paso = "sondeo", ![c].sale = TRUE,
                          ![c].yaEnvieCierre = TRUE]
    /\ UNCHANGED <<colas, libres, semaforos, cuenta, procesos, sem_ready,
                   mutex_config, hilo, planif, caido, aCPU, programas>>
-----------------------------------------------------------------------------
(* The loop of a CPU that has a signal pending.                            *)

(* Aborted before its first instruction: the loop is not entered. *)
recibirPCBAbortado(c) ==
    LET paq == Head(aCPU[c]) IN
    /\ Aborta(c) /\ CPUEn(c, "esperaPCB") /\ aCPU[c] # <<>>
    /\ RecibeDelKernel(c)
    /\ cpu' = IF paq.op = "PCB_SERIALIZADO" /\ paq.dato # Nulo
              THEN [cpu EXCEPT ![c].paso = "cierre", ![c].pid = paq.dato]
              ELSE [cpu EXCEPT ![c].paso = "cerrada", ![c].pid = Nulo]
    /\ UNCHANGED <<kernel, aKernel, programas>>

(* What is sent once the instruction returned: an aborted program goes in  *)
(* PROGRAMA_ABORTADO_CPU, also one that was sent because it blocked.       *)
AvisoCierre == <<t_paquete("PROGRAMA_BLOQUEADO_SIGUSR1", Nulo)>>
PorBloqueo(c) == Append(AvisoCierre, t_paquete("PROGRAMA_BLOQUEADO_SEMAFORO", cpu[c].pid))
PorQuantum(c) == Append(AvisoCierre, t_paquete("FIN_QUANTUM", cpu[c].pid))
PorAborto(p) == <<t_paquete("PROGRAMA_ABORTADO_CPU", p)>>

(* The pid of a PCB that may have been freed. *)
PidLeido(c, liberado) == {cpu[c].pid} \cup IF liberado THEN {Nulo} ELSE {}

CerrarConSenal(c, bloqueado) ==
    LET q == IF RoundRobin THEN cpu[c].quantum - 1 ELSE cpu[c].quantum IN
    /\ cpu' = [cpu EXCEPT ![c].paso = "sondeo", ![c].quantum = q, ![c].sem = Nulo,
                          ![c].sale = bloqueado \/ q = 0 \/ Aborta(c),
                          ![c].yaEnvieCierre = @ \/ Aborta(c)]
    /\ \E p \in PidLeido(c, bloqueado) :
          aKernel' = [aKernel EXCEPT ![c] = @
              \o (IF bloqueado THEN PorBloqueo(c) ELSE <<>>)
              \o (IF Aborta(c) THEN PorAborto(p) ELSE <<>>)
              \o (IF q = 0 /\ ~bloqueado /\ ~Aborta(c) THEN PorQuantum(c) ELSE <<>>)]

instruccionConSenal(c) ==
    /\ CPUEn(c, "ejecuta")
    /\ CerrarConSenal(c, FALSE)
    /\ UNCHANGED <<kernel, aCPU, programas>>

respuestaWaitConSenal(c) ==
    LET t == cpu[c].pid
        s == cpu[c].sem
        bloqueado == ~EsCero(Head(aCPU[c])) IN
    /\ CPUEn(c, "wait") /\ aCPU[c] # <<>>
    /\ RecibeDelKernel(c)
    /\ CerrarConSenal(c, bloqueado)
    /\ IF bloqueado
       THEN espera' = [espera EXCEPT ![t] = s] /\ UNCHANGED dentro
       ELSE dentro' = dentro \cup ({t} \X ({s} \cap Exclusion)) /\ UNCHANGED espera
    /\ UNCHANGED kernel

respuestaSignalConSenal(c) ==
    /\ CPUEn(c, "signal") /\ aCPU[c] # <<>>
    /\ RecibeDelKernel(c)
    /\ CerrarConSenal(c, FALSE)
    /\ UNCHANGED <<kernel, programas>>

(* A stack overflow sets flagStackOverflow, and the abort is not sent. *)
terminarConSenal(c) ==
    /\ CPUEn(c, "ejecuta")
    /\ \E op \in OpsFin :
          LET avisa == Aborta(c) /\ op # "ABORTADO_STACKOVERFLOW" IN
          /\ aKernel' = [aKernel EXCEPT ![c] = Append(@, t_paquete(op, cpu[c].pid))
                            \o (IF avisa THEN PorAborto(cpu[c].pid) ELSE <<>>)]
          /\ cpu' = [cpu EXCEPT ![c].paso = "sondeo", ![c].sale = TRUE,
                                ![c].yaEnvieCierre = @ \/ avisa]
    /\ UNCHANGED <<kernel, aCPU, programas>>

(* The poll, and then the tests of both loops: a CPU to be closed does not *)
(* wait for another program, one whose program was aborted meanwhile does  *)
(* not go on with it.                                                      *)
sondeoConSenal(c) ==
    LET hay == aCPU[c] # <<>>
        paq == Head(aCPU[c])
        aborta == hay /\ paq.op \in OpsAborto
        termina == cpu[c].sale \/ aborta \/ Aborta(c) IN
    /\ CPUEn(c, "sondeo")
    /\ IF hay THEN RecibeDelKernel(c) ELSE UNCHANGED aCPU
    /\ IF aborta THEN \E p \in PidLeido(c, cpu[c].sale) : EnviaAlKernel(c, paq.op, p)
                 ELSE UNCHANGED aKernel
    /\ cpu' = [cpu EXCEPT ![c].paso = IF termina THEN "cierre" ELSE "ejecuta"]
    /\ UNCHANGED <<kernel, programas>>

YaAvisoSiEspera(c) == cpu[c].yaEnvieCierre \/ cpu[c].sale                 \* mutant
YaAviso(c) == cpu[c].yaEnvieCierre

(* "Se cierra CPU": the end of main.  The PCB it sends, if it has not sent *)
(* it yet, may be one that was freed when the program was sent back.       *)
cerrarCPU(c) ==
    /\ CPUEn(c, "cierre")
    /\ Sale(c, cpu[c].senal)
    /\ IF YaAviso(c)
       THEN UNCHANGED aKernel
       ELSE \E p \in PidLeido(c, cpu[c].sale) :
               EnviaAlKernel(c, "PROGRAMA_ABORTADO_CPU", p)
    /\ UNCHANGED <<kernel, programas>>

ProcesoCPUConSenal(c) ==
    /\ Pendiente(c)
    /\ \/ instruccionConSenal(c) \/ respuestaWaitConSenal(c)
       \/ respuestaSignalConSenal(c) \/ terminarConSenal(c)
       \/ sondeoConSenal(c) \/ cerrarCPU(c)
-----------------------------------------------------------------------------
(* The Kernel.                                                             *)

(* The process in exec with the socket of the CPU goes back to ready, once *)
(* the CPU is out of the free list. *)
cpuCerrada(c) ==
    LET t == obtenerProcesoSocketCPU(c) IN
    /\ Llego(c, {"PROGRAMA_ABORTADO_CPU"}) /\ t # Nulo
    /\ Consume(c)
    /\ cola_exec' = eliminarProcesoDeCola(cola_exec, pcb[t])
    /\ pcb' = [pcb EXCEPT ![t] = Head(aKernel[c]).dato]
    /\ Sigue("principal", [Reposo EXCEPT !.paso = "sacaCPU", !.proc = t, !.cpu = c, !.a = 1])
    /\ UNCHANGED <<cola_new, cola_ready, cola_block, cola_exit, libres,
                   semaforos, cuenta, creados, socketCPU, sem_ready,
                   mutex_config, planif, caido, aCPU, cpu, programas>>

(* No process in exec has that socket: NULL is dereferenced. *)
cpuCerradaSinProceso(c) ==
    /\ Llego(c, {"PROGRAMA_ABORTADO_CPU"})
    /\ obtenerProcesoSocketCPU(c) = Nulo
    /\ Cae

desconexionCPU(c) ==
    /\ Llego(c, {"DESCONEXION_CPU"})
    /\ Consume(c)
    /\ Sigue("principal", [Reposo EXCEPT !.paso = "sacaCPU", !.cpu = c, !.a = 1])
    /\ UNCHANGED <<colas, libres, semaforos, cuenta, procesos, sem_ready,
                   mutex_config, planif, caido, aCPU, cpu, programas>>

(* No case for it in procesarPaqueteRecibido. *)
avisoSinCaso(c) ==
    /\ Llego(c, {"PROGRAMA_BLOQUEADO_SIGUSR1"})
    /\ Consume(c)
    /\ UNCHANGED <<kernel, aCPU, cpu, programas>>

(* sacarCPUDeListas looks at one element at a time, without a mutex: the   *)
(* planner may pop meanwhile.  After a removal the index skips an element. *)
sacarCPUDeListas ==
    LET H == hilo["principal"]
        es == cola_CPU_libres[H.a] = H.cpu IN
    /\ EnPaso("principal", "sacaCPU") /\ H.a \in DOMAIN cola_CPU_libres
    /\ cola_CPU_libres' = IF es THEN RemoveAt(cola_CPU_libres, H.a) ELSE cola_CPU_libres
    /\ Sigue("principal", [H EXCEPT !.a = @ + 1, !.paso = IF es THEN "quitaCPU" ELSE @])
    /\ UNCHANGED <<colas, sem_cpu, semaforos, cuenta, procesos, sem_ready,
                   mutex_config, planif, caido, red, cpu, programas>>

(* sem_wait(sem_cpu) of the element removed: the unit may be in the hands  *)
(* of the planner, and then the main thread waits for another one.         *)
descontarCPUSinEsperar ==                                                \* mutant
    /\ EnPaso("principal", "quitaCPU")
    /\ IrA("principal", "sacaCPU")
    /\ UNCHANGED <<colas, libres, semaforos, cuenta, procesos, sem_ready,
                   mutex_config, planif, caido, red, cpu, programas>>
descontarCPU ==
    /\ EnPaso("principal", "quitaCPU") /\ sem_cpu > 0
    /\ sem_cpu' = sem_cpu - 1
    /\ IrA("principal", "sacaCPU")
    /\ UNCHANGED <<colas, cola_CPU_libres, semaforos, cuenta, procesos, sem_ready,
                   mutex_config, planif, caido, red, cpu, programas>>

(* The end of the list: cpuCerrada has a process for ready. *)
listaRecorrida ==
    LET H == hilo["principal"] IN
    /\ EnPaso("principal", "sacaCPU") /\ H.a \notin DOMAIN cola_CPU_libres
    /\ IF H.proc = Nulo THEN VuelveASelect("principal")
                        ELSE Sigue("principal", [H EXCEPT !.paso = "listo", !.a = 0])
    /\ UNCHANGED <<colas, libres, semaforos, cuenta, procesos, sem_ready,
                   mutex_config, planif, caido, red, cpu, programas>>

(* The second packet to a socket whose peer closed raises SIGPIPE, which   *)
(* nobody handles, once the peer has rejected the first.                   *)
enviarACerrada(c) ==
    /\ PlanifEn("pcb") /\ planif.cpu = c
    /\ cpu[c].paso = "cerrada" /\ aCPU[c] # <<>>
    /\ Cae

CierreEnElKernel ==
    \/ sacarCPUDeListas \/ descontarCPU \/ listaRecorrida
    \/ \E c \in CPUs : \/ cpuCerrada(c) \/ cpuCerradaSinProceso(c)
                       \/ desconexionCPU(c) \/ avisoSinCaso(c)
                       \/ enviarACerrada(c)
-----------------------------------------------------------------------------
NextC ==
    \/ NextF
    \/ \E c \in CPUs : \/ sig_handler(c) \/ sig_handler2(c)
                       \/ leerSentenciaFallo(c) \/ recibirPCBAbortado(c)
                       \/ ProcesoCPUConSenal(c)
    \/ CierreEnElKernel

SpecC == Init /\ [][NextC]_vars
-----------------------------------------------------------------------------
(* Properties.                                                             *)

(* No CPU has left, nor given its program back before leaving. *)
NingunaSeFue == \A c \in CPUs : cpu[c].paso # "cerrada" /\ ~cpu[c].yaEnvieCierre

(* Whatever is ended or leaves meanwhile, a process in ready has its unit  *)
(* in sem_ready, and sem_cpu never promises more CPUs than the free list   *)
(* holds, also while one is taken out of the middle of it                  *)
(* (sacarCPUDeListas, Kernel.c:2584); until a CPU leaves it forgets none,  *)
(* however many times the end of a process frees one.                      *)
Unidades == sem_cpu + Uno(planif.paso = "popCPU")
SenalesAlDia ==
    /\ ReadyTieneSenal
    /\ Unidades <= Len(cola_CPU_libres) + Uno(hilo["principal"].paso = "quitaCPU")
    /\ NingunaSeFue => Unidades = Len(cola_CPU_libres)

(* A process in exec whose CPU left after it had received a PCB, and told  *)
(* nobody.                                                                 *)
Vuelve(c) ==
    \E i \in DOMAIN aKernel[c] : aKernel[c][i].op = "PROGRAMA_ABORTADO_CPU"
Atrapado(t) ==
    LET c == socketCPU[t] IN
    /\ c \in CPUs /\ CPUEn(c, "cerrada") /\ Pendiente(c) /\ cpu[c].pid # Nulo
    /\ ~Vuelve(c)

(* While no order ends a process from outside, none is stranded in exec by *)
(* a CPU that was told to leave (CPU.c:262, Kernel.c:2555): the packet     *)
(* that takes it back to ready is on its way, whichever of the four paths  *)
(* the CPU left on, and also if it had gone on past a failed read.         *)
NadieAtrapado == ~caido /\ ordenes = 0 => \A t \in ToSet(cola_exec) : ~Atrapado(t)

(* What the code does not do.                                              *)

(* CPU.c:318, "Se detecto señal SIGUSR1, la CPU se cerrara al finalizar":  *)
(* a CPU that leaves does not bring the Kernel down.                       *)
CierreSinCaida == (\E c \in CPUs : cpu[c].senal # "no") => ~caido

(* A process is not sent to a CPU that had said it was leaving (log of     *)
(* Kernel.c:2592).                                                         *)
NadieEnCPUIda ==
    \A c \in CPUs :
        cpu[c].senal = "ociosa" /\ aKernel[c] = <<>> /\ EnPaso("principal", "select")
            => /\ c \notin ToSet(cola_CPU_libres)
               /\ \A t \in ToSet(cola_exec) : socketCPU[t] # c

(* CPU.c:262 sends the program back whatever was ended before: but the end *)
(* of a process frees the CPU it last ran on, also one that left, and the  *)
(* flag of a CPU that failed a read stays set (Kernel.c:912, CPU.c:193).   *)
SiempreVuelve == ~caido => \A t \in ToSet(cola_exec) : ~Atrapado(t)

(* While no idle CPU leaves, sem_cpu has the units of the free list: but a *)
(* CPU that the end of its program frees before it has gone on from it     *)
(* (Kernel.c:912, 2550) is in the list when it leaves, and the planner may *)
(* have taken its unit: it pops an empty list.                             *)
CierreConUnidad ==
    (\A c \in CPUs : cpu[c].senal # "ociosa") =>
        Unidades = Len(cola_CPU_libres) + Uno(hilo["principal"].paso = "quitaCPU")

(* The main thread does not wait for the planner to give a CPU back. *)
NadieEsperaSemCPU == hilo["principal"].paso = "quitaCPU" => sem_cpu > 0
=============================================================================
