------------------------------ MODULE Consola ------------------------------
(***************************************************************************)
(* The process Consola: the menu (interfaceUsuario.c) and one thread per   *)
(* program (hiloPrograma.c), each with a connection to the Kernel.  The    *)
(* menu reaches a program by its pid, through matriz (descriptors) and     *)
(* matrizHilos (threads); mutexEjecuta keeps the output of one and the     *)
(* start of another apart.                                                 *)
(*                                                                         *)
(* A descriptor is a number the system gives again once it is closed.      *)
(* mutexConexion is left out: a thread takes it while it still has         *)
(* mutexEjecuta.  The other end, the Kernel, is nuevoProgramaAnsisop,      *)
(* finalizarProceso and finalizarProcesoPorPID seen from the socket.       *)
(***************************************************************************)
EXTENDS Integers, FiniteSets, Sequences, SequencesExt, FiniteSetsExt

CONSTANTS
    MaxHilos,         \* bound: programs started
    MAXPID,           \* size of matriz and matrizHilos
    MaxImpresiones,   \* bound: prints of a program
    MaxPedidos,       \* bound: options 2 and 3 chosen
    KernelCae         \* whether the Kernel may go away

ASSUME ConsolaAssumption ==
    /\ MaxHilos \in Nat \ {0} /\ MAXPID \in Nat /\ MaxHilos < MAXPID
    /\ MaxImpresiones \in Nat /\ MaxPedidos \in Nat /\ KernelCae \in BOOLEAN

Hilos == 1 .. MaxHilos
Nadie == 0
Menu == -1          \* the main thread, as owner of the mutex

VARIABLES
    matriz, matrizHilos,   \* by pid; 0 where nothing was stored
    mutexEjecuta,          \* who has it: a thread, Menu, or Nadie
    interfaz,              \* the menu
    hilo,                  \* of each thread: paso, pid, kernel (descriptor), op
    cancelado,             \* threads with a cancellation pending
    abierto,               \* the connection of each descriptor, by thread; or Nadie
    alKernel, deKernel,    \* packets of each connection
    proceso,               \* what the Kernel has of each connection
    pidcounter,            \* its next pid
    kernelVivo,
    impresiones,           \* prints of each program so far
    pedidos,               \* options 2 and 3 so far
    estado,                \* "viva", "saliendo" (SIGINT), "salio" or "cayo"
    cruce                  \* history: a thread was cancelled when it had a
                           \* packet in hand and waited for mutexEjecuta

sockets == <<abierto, alKernel, deKernel>>
tablas == <<matriz, matrizHilos>>
kernel == <<proceso, pidcounter, kernelVivo, impresiones>>
control == <<pedidos, estado>>
cancelacion == <<cancelado, cruce>>
vars == <<tablas, mutexEjecuta, interfaz, hilo, cancelacion, sockets, kernel, control>>

PIDs == 0 .. MAXPID - 1

EnMenu == [paso |-> "menu", i |-> 0]
SinIniciar == [paso |-> "no", pid |-> 0, kernel |-> 0, op |-> "-"]
t_paquete(op, pid) == [op |-> op, pid |-> pid]

Init ==
    /\ matriz = [n \in PIDs |-> 0] /\ matrizHilos = [n \in PIDs |-> Nadie]
    /\ mutexEjecuta = Nadie /\ interfaz = EnMenu
    /\ hilo = [h \in Hilos |-> SinIniciar] /\ cancelado = {} /\ cruce = FALSE
    /\ abierto = [d \in Hilos |-> Nadie]   \* as many descriptors as connections
    /\ alKernel = [h \in Hilos |-> <<>>] /\ deKernel = [h \in Hilos |-> <<>>]
    /\ proceso = [h \in Hilos |-> 0] /\ pidcounter = 1 /\ kernelVivo = TRUE
    /\ impresiones = [h \in Hilos |-> 0]
    /\ pedidos = 0 /\ estado = "viva"

Ops == {"-", "-1", "ENVIAR_SCRIPT", "ENVIAR_PID", "IMPRIMIR_CONSOLA",
        "ERROR_MULTIPROGRAMACION", "SIN_ESPACIO_MEMORIA", "FINALIZAR_PROGRAMA",
        "FINALIZAR_PROGRAMA_DESDE_CONSOLA"}
Paquetes == [op : Ops, pid : Nat]

TipoMenu ==
    /\ matriz \in [PIDs -> Hilos \cup {0}]
    /\ matrizHilos \in [PIDs -> Hilos \cup {Nadie}]
    /\ mutexEjecuta \in Hilos \cup {Menu, Nadie}
    /\ interfaz \in [paso : {"menu", "opcion", "iniciar", "finalizar", "pid",
                             "desconectar", "recorre"}, i : Nat]
    /\ pedidos \in Nat /\ estado \in {"viva", "saliendo", "salio", "cayo"}
TipoHilos ==
    hilo \in [Hilos -> [paso : {"no", "archivo", "pid", "espera", "candado", "fin"},
                       pid : Nat, kernel : Hilos \cup {0}, op : Ops]]
TipoCancelacion == cancelado \in SUBSET Hilos /\ cruce \in BOOLEAN
TipoSockets ==
    /\ abierto \in [Hilos -> Hilos \cup {Nadie}]
    /\ alKernel \in [Hilos -> Seq(Paquetes)] /\ deKernel \in [Hilos -> Seq(Paquetes)]
TipoKernel ==
    /\ proceso \in [Hilos -> Int] /\ pidcounter \in Nat /\ kernelVivo \in BOOLEAN
    /\ impresiones \in [Hilos -> Nat]
TypeOK == TipoMenu /\ TipoHilos /\ TipoCancelacion /\ TipoSockets /\ TipoKernel
-----------------------------------------------------------------------------
(* The menu.                                                               *)

Interfaz(paso) == estado = "viva" /\ interfaz.paso = paso
Elige(paso) == interfaz' = [EnMenu EXCEPT !.paso = paso]

mostrarMenu ==
    /\ Interfaz("menu") /\ mutexEjecuta = Nadie
    /\ Elige("opcion")
    /\ UNCHANGED <<tablas, mutexEjecuta, hilo, cancelacion, sockets, kernel, control>>

(* scanf of the option; 4 and the invalid ones only print. *)
elegirOpcion ==
    /\ Interfaz("opcion")
    /\ \/ \E p \in {"menu", "iniciar"} : Elige(p) /\ UNCHANGED pedidos
       \/ /\ pedidos < MaxPedidos /\ pedidos' = pedidos + 1
          /\ \E p \in {"finalizar", "desconectar"} : Elige(p)
    /\ UNCHANGED <<tablas, mutexEjecuta, hilo, cancelacion, sockets, kernel, estado>>

(* Mutant: the menu gives the mutex back itself. *)
DejaElMutex(h) == mutexEjecuta' = Nadie
(* The new thread will unlock it. *)
PasaElMutex(h) == mutexEjecuta' = h

SinUsar == {h \in Hilos : hilo[h].paso = "no"}
iniciarPrograma ==
    /\ Interfaz("iniciar") /\ mutexEjecuta = Nadie /\ SinUsar # {}
    /\ LET h == Min(SinUsar) IN
       /\ PasaElMutex(h)
       /\ hilo' = [hilo EXCEPT ![h].paso = "archivo"]
    /\ Elige("menu")
    /\ UNCHANGED <<tablas, cancelacion, sockets, kernel, control>>

TomaEjecuta(paso, luego) ==
    /\ Interfaz(paso) /\ mutexEjecuta = Nadie
    /\ mutexEjecuta' = Menu /\ Elige(luego)
    /\ UNCHANGED <<tablas, hilo, cancelacion, sockets, kernel, control>>
finalizarPrograma == TomaEjecuta("finalizar", "pid")
desconectarConsola == TomaEjecuta("desconectar", "recorre")

SueltaEjecuta == mutexEjecuta' = Nadie /\ interfaz' = EnMenu

(* Mutant: the descriptor is closed before anything is sent on it. *)
CierraSinAvisar(n) ==
    LET d == matriz[n] IN
    /\ matriz' = [matriz EXCEPT ![n] = 0] /\ UNCHANGED alKernel
    /\ abierto' = IF d = 0 THEN abierto ELSE [abierto EXCEPT ![d] = Nadie]

(* enviar, close and matriz[n] = 0: nothing goes out through a descriptor  *)
(* that is closed.                                                         *)
CerrarConexion(n) ==
    LET d == matriz[n] IN
    IF d = 0 THEN UNCHANGED <<matriz, alKernel, abierto>>
    ELSE /\ matriz' = [matriz EXCEPT ![n] = 0]
         /\ abierto' = [abierto EXCEPT ![d] = Nadie]
         /\ alKernel' = IF abierto[d] = Nadie THEN alKernel
                        ELSE [alKernel EXCEPT ![abierto[d]] =
                                Append(@, t_paquete("FINALIZAR_PROGRAMA_DESDE_CONSOLA", n))]

pthread_cancel(h) ==
    /\ cancelado' = IF hilo[h].paso = "fin" THEN cancelado ELSE cancelado \cup {h}
    /\ cruce' = (cruce \/ hilo[h].paso = "candado")

(* The cancellation is asked for also when the pid has no descriptor, and  *)
(* for a pid that never was: pthread_cancel(0).                            *)
finalizarPID(n) ==
    /\ Interfaz("pid")
    /\ CerrarConexion(n)
    /\ IF matrizHilos[n] = Nadie
       THEN estado' = "cayo" /\ UNCHANGED cancelacion
       ELSE pthread_cancel(matrizHilos[n]) /\ UNCHANGED estado
    /\ SueltaEjecuta
    /\ UNCHANGED <<matrizHilos, hilo, deKernel, kernel, pedidos>>

(* One pid of the loop of desconectarConsola. *)
desconectarPID ==
    LET n == interfaz.i IN
    /\ estado \in {"viva", "saliendo"} /\ interfaz.paso = "recorre" /\ n \in PIDs
    /\ CerrarConexion(n)
    /\ IF matriz[n] = 0 THEN UNCHANGED cancelacion ELSE pthread_cancel(matrizHilos[n])
    /\ interfaz' = [interfaz EXCEPT !.i = @ + 1]
    /\ UNCHANGED <<matrizHilos, mutexEjecuta, hilo, deKernel, kernel, control>>

terminarDeDesconectar ==
    /\ Interfaz("recorre") /\ interfaz.i \notin PIDs
    /\ SueltaEjecuta
    /\ UNCHANGED <<tablas, hilo, cancelacion, sockets, kernel, control>>

(* SIGINT, on the main thread: the same loop, without the mutex and        *)
(* wherever the menu was ...                                               *)
desconexionConsola ==
    /\ estado = "viva" /\ pedidos < MaxPedidos /\ pedidos' = pedidos + 1
    /\ estado' = "saliendo" /\ Elige("recorre")
    /\ UNCHANGED <<tablas, mutexEjecuta, hilo, cancelacion, sockets, kernel>>

(* ... and exit(0). *)
salir ==
    /\ estado = "saliendo" /\ interfaz.i \notin PIDs
    /\ estado' = "salio" /\ abierto' = [d \in Hilos |-> Nadie]
    /\ UNCHANGED <<tablas, mutexEjecuta, interfaz, hilo, cancelacion, alKernel,
                   deKernel, kernel, pedidos>>

Interface ==
    \/ mostrarMenu \/ elegirOpcion \/ iniciarPrograma \/ finalizarPrograma
    \/ desconectarConsola \/ desconectarPID \/ terminarDeDesconectar
    \/ desconexionConsola \/ salir
    \/ \E n \in PIDs : finalizarPID(n)
-----------------------------------------------------------------------------
(* A thread of a program: hiloNuevoPrograma.                               *)

Corre == estado \in {"viva", "saliendo"}
HiloEn(h, paso) == Corre /\ hilo[h].paso = paso

(* Mutant: the mutex is not given back. *)
sinArchivoConElMutex(h) ==
    /\ HiloEn(h, "archivo")
    /\ hilo' = [hilo EXCEPT ![h].paso = "fin"]
    /\ UNCHANGED <<tablas, mutexEjecuta, interfaz, cancelacion, sockets, kernel, control>>

(* The file does not open. *)
sinArchivo(h) ==
    /\ HiloEn(h, "archivo")
    /\ mutexEjecuta' = Nadie
    /\ hilo' = [hilo EXCEPT ![h].paso = "fin"]
    /\ UNCHANGED <<tablas, interfaz, cancelacion, sockets, kernel, control>>

(* The system gives the lowest descriptor there is.  With no Kernel the    *)
(* whole Consola exits.                                                    *)
DescriptorLibre == Min({d \in Hilos : abierto[d] = Nadie})
conectar(h) ==
    /\ HiloEn(h, "archivo")
    /\ IF kernelVivo
       THEN /\ abierto' = [abierto EXCEPT ![DescriptorLibre] = h]
            /\ hilo' = [hilo EXCEPT ![h].paso = "pid", ![h].kernel = DescriptorLibre]
            /\ alKernel' = [alKernel EXCEPT ![h] = Append(@, t_paquete("ENVIAR_SCRIPT", 0))]
            /\ UNCHANGED estado
       ELSE estado' = "salio" /\ UNCHANGED <<hilo, abierto, alKernel>>
    /\ UNCHANGED <<tablas, mutexEjecuta, interfaz, cancelacion, deKernel, kernel, pedidos>>

(* What recibir gives from a descriptor: nothing from one that is closed,  *)
(* and -1, time after time, once the other end closed.                     *)
HayPaquete(h) ==
    LET c == abierto[hilo[h].kernel] IN c # Nadie /\ deKernel[c] # <<>>
Paquete(h) == Head(deKernel[abierto[hilo[h].kernel]])
LeePaquete(h) ==
    deKernel' = IF Paquete(h).op = "-1" THEN deKernel
                ELSE [deKernel EXCEPT ![abierto[hilo[h].kernel]] = Tail(@)]

(* Without ENVIAR_PID the pid is whatever was in the stack. *)
recibirPID(h) ==
    /\ HiloEn(h, "pid") /\ HayPaquete(h)
    /\ LeePaquete(h)
    /\ mutexEjecuta' = Nadie
    /\ IF Paquete(h).op = "ENVIAR_PID"
       THEN LET n == Paquete(h).pid IN
            /\ matriz' = [matriz EXCEPT ![n] = hilo[h].kernel]
            /\ matrizHilos' = [matrizHilos EXCEPT ![n] = h]
            /\ hilo' = [hilo EXCEPT ![h].paso = "espera", ![h].pid = n]
       ELSE /\ \E n \in PIDs : hilo' = [hilo EXCEPT ![h].paso = "espera", ![h].pid = n]
            /\ UNCHANGED tablas
    /\ UNCHANGED <<interfaz, cancelacion, abierto, alKernel, kernel, control>>

recibir(h) ==
    /\ HiloEn(h, "espera") /\ h \notin cancelado /\ HayPaquete(h)
    /\ LeePaquete(h)
    /\ hilo' = [hilo EXCEPT ![h].paso = "candado", ![h].op = Paquete(h).op]
    /\ UNCHANGED <<tablas, mutexEjecuta, interfaz, cancelacion, abierto, alKernel,
                   kernel, control>>

(* recv() is a cancellation point: it gives nothing to a cancelled thread. *)
morirEnRecibir(h) ==
    /\ HiloEn(h, "espera") /\ h \in cancelado
    /\ hilo' = [hilo EXCEPT ![h].paso = "fin"]
    /\ UNCHANGED <<tablas, mutexEjecuta, interfaz, cancelacion, sockets, kernel, control>>

(* Waiting for a mutex is not; what comes first with it taken (log_info,   *)
(* printf, close) is.                                                      *)
morirConElMutex(h) ==
    /\ HiloEn(h, "candado") /\ h \in cancelado /\ mutexEjecuta = Nadie
    /\ mutexEjecuta' = h
    /\ hilo' = [hilo EXCEPT ![h].paso = "fin"]
    /\ UNCHANGED <<tablas, interfaz, cancelacion, sockets, kernel, control>>

ConElMutex(h) == HiloEn(h, "candado") /\ h \notin cancelado /\ mutexEjecuta = Nadie

(* info_cadena was never given a value: free() may abort. *)
imprimir(h) ==
    /\ ConElMutex(h) /\ hilo[h].op = "IMPRIMIR_CONSOLA"
    /\ \/ hilo' = [hilo EXCEPT ![h].paso = "espera"] /\ UNCHANGED estado
       \/ estado' = "cayo" /\ UNCHANGED hilo
    /\ UNCHANGED <<tablas, mutexEjecuta, interfaz, cancelacion, sockets, kernel, pedidos>>

(* Mutant: the entry of the pid is left as it is. *)
NuncaOlvida(op) == FALSE
(* Only two of the ends put matriz[pid] back to 0. *)
Olvida(op) == op \in {"FINALIZAR_PROGRAMA", "-1"}

finDelPrograma(h) ==
    /\ ConElMutex(h) /\ hilo[h].op # "IMPRIMIR_CONSOLA"
    /\ abierto' = [abierto EXCEPT ![hilo[h].kernel] = Nadie]
    /\ matriz' = IF Olvida(hilo[h].op) THEN [matriz EXCEPT ![hilo[h].pid] = 0] ELSE matriz
    /\ hilo' = [hilo EXCEPT ![h].paso = "fin"]
    /\ UNCHANGED <<matrizHilos, mutexEjecuta, interfaz, cancelacion, alKernel, deKernel,
                   kernel, control>>

Arranca(h) == conectar(h) \/ sinArchivo(h)
Hilo(h) ==
    \/ recibirPID(h) \/ recibir(h) \/ morirEnRecibir(h) \/ morirConElMutex(h)
    \/ imprimir(h) \/ finDelPrograma(h)
-----------------------------------------------------------------------------
(* The Kernel.                                                             *)

Manda(h, ops) == deKernel' = [deKernel EXCEPT ![h] = @ \o ops]
FinalizarPrograma(n) == t_paquete("FINALIZAR_PROGRAMA", n)

(* The pid goes first; a program that is refused is then finalized. *)
nuevoProgramaAnsisop(h) ==
    LET n == pidcounter IN
    /\ kernelVivo /\ alKernel[h] # <<>> /\ Head(alKernel[h]).op = "ENVIAR_SCRIPT"
    /\ alKernel' = [alKernel EXCEPT ![h] = Tail(@)]
    /\ pidcounter' = n + 1
    /\ \/ Manda(h, <<t_paquete("ENVIAR_PID", n)>>) /\ proceso' = [proceso EXCEPT ![h] = n]
       \/ \E op \in {"ERROR_MULTIPROGRAMACION", "SIN_ESPACIO_MEMORIA"} :
             /\ Manda(h, <<t_paquete("ENVIAR_PID", n), t_paquete(op, n), FinalizarPrograma(n)>>)
             /\ proceso' = [proceso EXCEPT ![h] = -n]
    /\ UNCHANGED <<tablas, mutexEjecuta, interfaz, hilo, cancelacion, abierto,
                   kernelVivo, impresiones, control>>

Vive(h) == kernelVivo /\ proceso[h] > 0

imprimirConsola(h) ==
    /\ Vive(h) /\ impresiones[h] < MaxImpresiones
    /\ impresiones' = [impresiones EXCEPT ![h] = @ + 1]
    /\ Manda(h, <<t_paquete("IMPRIMIR_CONSOLA", proceso[h])>>)
    /\ UNCHANGED <<tablas, mutexEjecuta, interfaz, hilo, cancelacion, abierto,
                   alKernel, proceso, pidcounter, kernelVivo, control>>

Termina(h) == proceso' = [proceso EXCEPT ![h] = 0]
finalizarProceso(h) ==
    /\ Vive(h) /\ Termina(h)
    /\ Manda(h, <<FinalizarPrograma(proceso[h])>>)
    /\ UNCHANGED <<tablas, mutexEjecuta, interfaz, hilo, cancelacion, abierto,
                   alKernel, pidcounter, kernelVivo, impresiones, control>>

(* By pid, whatever the connection; the console is not told. *)
finalizarProcesoPorPID(h) ==
    /\ kernelVivo /\ alKernel[h] # <<>>
    /\ Head(alKernel[h]).op = "FINALIZAR_PROGRAMA_DESDE_CONSOLA"
    /\ alKernel' = [alKernel EXCEPT ![h] = Tail(@)]
    /\ proceso' = [g \in Hilos |-> IF proceso[g] = Head(alKernel[h]).pid THEN 0 ELSE proceso[g]]
    /\ UNCHANGED <<tablas, mutexEjecuta, interfaz, hilo, cancelacion, abierto,
                   deKernel, pidcounter, kernelVivo, impresiones, control>>

caeKernel ==
    /\ KernelCae /\ kernelVivo
    /\ kernelVivo' = FALSE
    /\ deKernel' = [h \in Hilos |-> Append(deKernel[h], t_paquete("-1", 0))]
    /\ UNCHANGED <<tablas, mutexEjecuta, interfaz, hilo, cancelacion, abierto,
                   alKernel, proceso, pidcounter, impresiones, control>>

Atiende(h) == nuevoProgramaAnsisop(h) \/ finalizarProcesoPorPID(h)
-----------------------------------------------------------------------------
Next ==
    \/ Interface
    \/ \E h \in Hilos : \/ Arranca(h) \/ Hilo(h) \/ Atiende(h)
                        \/ imprimirConsola(h) \/ finalizarProceso(h)
    \/ caeKernel

Spec == Init /\ [][Next]_vars

(* Threads run and the Kernel answers; the operator types when he likes. *)
SpecJusta ==
    /\ Spec
    /\ WF_vars(mostrarMenu) /\ \A h \in Hilos : WF_vars(Hilo(h)) /\ WF_vars(Atiende(h))
-----------------------------------------------------------------------------
(* Properties.                                                             *)

Arrancan == {h \in Hilos : hilo[h].paso \in {"archivo", "pid"}}
SinRechazos == \A h \in Hilos : proceso[h] >= 0

(* One program starts at a time: nomArchi, archivo and script are global   *)
(* (consola.h:26), and only a mutex that one thread takes and another      *)
(* gives back keeps two starts apart (interfaceUsuario.c:24).              *)
UnoSoloArranca == Cardinality(Arrancan) <= 1

(* What the menu would close and cancel for a pid is the descriptor and    *)
(* the thread of that program, still its own and still open, as long as    *)
(* the Kernel refused none (hiloPrograma.c:150 and 178 do not put          *)
(* matriz[pid] back to 0).                                                 *)
TablaAlDia ==
    SinRechazos /\ Corre => \A n \in PIDs : matriz[n] # 0 =>
        LET h == matrizHilos[n] IN
        /\ hilo[h].paso \in {"espera", "candado"} /\ hilo[h].pid = n
        /\ hilo[h].kernel = matriz[n] /\ abierto[matriz[n]] = h

(* A program whose thread is gone is not left running: the Kernel has been *)
(* told to end it, by the menu that cancelled it (interfaceUsuario.c:73    *)
(* and 101), unless it refused one or went away.                           *)
Avisado(n) ==
    \E g \in Hilos : \E k \in DOMAIN alKernel[g] :
        alKernel[g][k] = t_paquete("FINALIZAR_PROGRAMA_DESDE_CONSOLA", n)
SinHuerfanos ==
    SinRechazos /\ kernelVivo =>
        \A h \in Hilos : hilo[h].paso = "fin" /\ proceso[h] > 0 => Avisado(proceso[h])

(* The menu comes back, if no thread is cancelled with a packet in hand    *)
(* and the operator gives every program he starts a file.                  *)
MenuVuelve ==
    [](~cruce) /\ []<>(\A h \in Hilos : hilo[h].paso # "archivo") =>
        (interfaz.paso = "menu" ~> interfaz.paso = "opcion" \/ estado # "viva")

(* What the code does not do.                                              *)

(* interfaceUsuario.c:53, "Finaliza la ejecucion de un programa": a thread *)
(* that was not cancelled has its own connection open.                     *)
ConexionPropia ==
    estado = "viva" => \A h \in Hilos :
        hilo[h].paso = "espera" /\ h \notin cancelado => abierto[hilo[h].kernel] = h

(* Nobody takes mutexEjecuta to the grave (interfaceUsuario.c:82). *)
MutexDeUnVivo ==
    estado = "viva" /\ mutexEjecuta \in Hilos => hilo[mutexEjecuta].paso # "fin"

(* consola.c:15: a console that leaves with SIGINT leaves no program. *)
NadaAlSalir == estado = "salio" => \A h \in Hilos : proceso[h] > 0 => Avisado(proceso[h])
=============================================================================
