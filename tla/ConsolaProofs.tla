--------------------------- MODULE ConsolaProofs ---------------------------
(***************************************************************************)
(* What Consola promises for any number of programs, pids, prints and      *)
(* orders, and whether the Kernel goes away or not.                        *)
(***************************************************************************)
EXTENDS Consola, ColasProofs, FiniteSetTheorems

(* A program starts with the mutex in its hands; between the question for  *)
(* a pid and the end of the option it is the menu that has it.             *)
MutexDelQueArranca ==
    \A h \in Hilos : hilo[h].paso \in {"archivo", "pid"} => mutexEjecuta = h
MutexDelMenu ==
    estado = "viva" /\ interfaz.paso \in {"pid", "recorre"} => mutexEjecuta = Menu

(* Whose descriptor is whose.                                              *)
Conectado ==
    \A h \in Hilos : hilo[h].paso \in {"pid", "espera", "candado"} => hilo[h].kernel \in Hilos
UnDescriptor ==
    /\ \A d \in Hilos : abierto[d] # Nadie => hilo[abierto[d]].paso \notin {"no", "archivo"}
    /\ \A d, e \in Hilos : abierto[d] # Nadie /\ abierto[d] = abierto[e] => d = e
TablaConHilo == \A n \in PIDs : matriz[n] # 0 => matrizHilos[n] # Nadie

InvMutex == MutexDelQueArranca /\ MutexDelMenu
InvSockets == Conectado /\ UnDescriptor /\ TablaConHilo
Inv == TypeOK /\ InvMutex /\ InvSockets

-----------------------------------------------------------------------------
LEMMA NumerosDeHilos ==
  /\ MaxHilos \in Nat \ {0} /\ MAXPID \in Nat
  /\ \A h \in Hilos : h \in Nat /\ h # Nadie /\ h # Menu
  /\ Menu # Nadie /\ Nadie = 0
  /\ IsFiniteSet(Hilos)
BY ConsolaAssumption, FS_Interval DEF Hilos, Nadie, Menu

(* What an action leaves alone keeps its type. *)
LEMMA Marco ==
  /\ TipoMenu /\ UNCHANGED <<tablas, mutexEjecuta, interfaz, control>> => TipoMenu'
  /\ TipoHilos /\ UNCHANGED hilo => TipoHilos'
  /\ TipoCancelacion /\ UNCHANGED cancelacion => TipoCancelacion'
  /\ TipoSockets /\ UNCHANGED sockets => TipoSockets'
  /\ TipoKernel /\ UNCHANGED kernel => TipoKernel'
<1>1. TipoMenu /\ UNCHANGED <<tablas, mutexEjecuta, interfaz, control>> => TipoMenu'
  BY DEF TipoMenu, tablas, control
<1>2. TipoHilos /\ UNCHANGED hilo => TipoHilos'
  BY DEF TipoHilos
<1>3. TipoCancelacion /\ UNCHANGED cancelacion => TipoCancelacion'
  BY DEF TipoCancelacion, cancelacion
<1>4. TipoSockets /\ UNCHANGED sockets => TipoSockets'
  BY DEF TipoSockets, sockets
<1>5. TipoKernel /\ UNCHANGED kernel => TipoKernel'
  BY DEF TipoKernel, kernel
<1> QED BY <1>1, <1>2, <1>3, <1>4, <1>5

(* Each open descriptor is that of another thread, so that there is one    *)
(* left for a thread that has none.                                        *)
LEMMA HayDescriptor ==
  ASSUME Inv, NEW h \in Hilos, hilo[h].paso = "archivo"
  PROVE  DescriptorLibre \in Hilos /\ abierto[DescriptorLibre] = Nadie
<1> DEFINE L == {d \in Hilos : abierto[d] = Nadie}
<1>1. L # {}
  <2>1. SUFFICES ASSUME \A d \in Hilos : abierto[d] # Nadie
                 PROVE  FALSE
    OBVIOUS
  <2>2. abierto \in [Hilos -> Hilos \ {h}]
    BY <2>1 DEF Inv, TypeOK, TipoSockets, InvSockets, UnDescriptor
  <2>3. /\ IsFiniteSet(Hilos \ {h})
        /\ Cardinality(Hilos \ {h}) = Cardinality(Hilos) - 1
        /\ Cardinality(Hilos) \in Nat
    BY NumerosDeHilos, FS_RemoveElement, FS_CardinalityType
  <2>4. \E d, e \in Hilos : d # e /\ abierto[d] = abierto[e]
    BY <2>2, <2>3, NumerosDeHilos, FS_PigeonHole
  <2> QED BY <2>1, <2>4 DEF Inv, InvSockets, UnDescriptor
<1>2. L \in SUBSET Nat
  BY NumerosDeHilos
<1>3. Min(L) \in L
  BY <1>1, <1>2, MinExiste
<1> QED BY <1>3 DEF DescriptorLibre

LEMMA InicioConsola == Init => Inv
<1> SUFFICES ASSUME Init PROVE Inv
  OBVIOUS
<1> USE NumerosDeHilos DEF Init, EnMenu, SinIniciar
<1>1. TipoMenu
  BY DEF TipoMenu
<1>2. TipoHilos
  <2>1. SinIniciar \in [paso : {"no", "archivo", "pid", "espera", "candado", "fin"},
                       pid : Nat, kernel : Hilos \cup {0}, op : Ops]
    BY DEF Ops
  <2> QED BY <2>1 DEF TipoHilos
<1>3. TipoCancelacion /\ TipoKernel
  <2>1. cancelado \in SUBSET Hilos /\ cruce \in BOOLEAN /\ kernelVivo \in BOOLEAN
    BY Zenon
  <2>2. proceso \in [Hilos -> Int] /\ pidcounter \in Nat /\ impresiones \in [Hilos -> Nat]
    OBVIOUS
  <2> QED BY <2>1, <2>2 DEF TipoCancelacion, TipoKernel
<1>4. TipoSockets
  <2>1. <<>> \in Seq(Paquetes)
    OBVIOUS
  <2> QED BY <2>1 DEF TipoSockets
<1>5. InvMutex /\ InvSockets
  BY DEF InvMutex, InvSockets, MutexDelQueArranca, MutexDelMenu, Conectado,
         UnDescriptor, TablaConHilo
<1> QED BY <1>1, <1>2, <1>3, <1>4, <1>5 DEF Inv, TypeOK

-----------------------------------------------------------------------------
(* The menu.                                                               *)

LEMMA MenuElige ==
  ASSUME Inv, mostrarMenu \/ elegirOpcion \/ finalizarPrograma \/ desconectarConsola
              \/ desconexionConsola \/ salir \/ terminarDeDesconectar
  PROVE  Inv'
<1> USE NumerosDeHilos DEF Inv, TypeOK, Elige, Interfaz, EnMenu, TomaEjecuta, SueltaEjecuta,
        mostrarMenu, elegirOpcion, finalizarPrograma, desconectarConsola,
        desconexionConsola, salir, terminarDeDesconectar
<1>1. TipoMenu'
  BY DEF TipoMenu, tablas, control
<1>2. (TipoHilos /\ TipoCancelacion /\ TipoKernel)'
  BY Marco
<1>3. TipoSockets'
  BY DEF TipoSockets, sockets
<1>4. InvMutex'
  BY DEF TipoMenu, InvMutex, MutexDelQueArranca, MutexDelMenu, control
<1>5. InvSockets'
  BY DEF TipoSockets, InvSockets, Conectado, UnDescriptor, TablaConHilo, tablas, sockets
<1> QED BY <1>1, <1>2, <1>3, <1>4, <1>5

LEMMA MenuInicia ==
  ASSUME Inv, iniciarPrograma
  PROVE  Inv'
<1> USE NumerosDeHilos DEF Inv, TypeOK
<1> DEFINE h == Min(SinUsar)
<1>1. h \in Hilos /\ hilo[h].paso = "no"
  <2>1. SinUsar \in SUBSET Nat /\ SinUsar # {}
    BY DEF SinUsar, iniciarPrograma
  <2> QED BY <2>1, MinExiste DEF SinUsar
<1>2. /\ mutexEjecuta = Nadie /\ mutexEjecuta' = h
      /\ hilo' = [hilo EXCEPT ![h].paso = "archivo"]
      /\ interfaz' = [EnMenu EXCEPT !.paso = "menu"]
      /\ UNCHANGED <<tablas, cancelacion, sockets, kernel, control>>
  BY DEF iniciarPrograma, PasaElMutex, Elige
<1> HIDE DEF h
<1>3. TipoMenu'
  BY <1>1, <1>2 DEF TipoMenu, EnMenu, tablas, control
<1>4. TipoHilos'
  BY <1>1, <1>2 DEF TipoHilos
<1>5. (TipoCancelacion /\ TipoSockets /\ TipoKernel)'
  BY <1>2, Marco
<1>6. InvMutex'
  BY <1>1, <1>2 DEF TipoHilos, InvMutex, MutexDelQueArranca, MutexDelMenu, EnMenu
<1>7. (Conectado /\ TablaConHilo)'
  BY <1>1, <1>2 DEF TipoHilos, InvSockets, Conectado, TablaConHilo, tablas
<1>8. UnDescriptor'
  <2>1. \A d \in Hilos : abierto[d] # Nadie => abierto[d] \in Hilos /\ abierto[d] # h
    BY <1>1 DEF TipoSockets, InvSockets, UnDescriptor
  <2> QED BY <1>1, <1>2, <2>1 DEF TipoHilos, InvSockets, UnDescriptor, sockets
<1> QED BY <1>3, <1>4, <1>5, <1>6, <1>7, <1>8 DEF InvSockets

(* A descriptor is closed and, if it was open, a packet goes out. *)
LEMMA CierraTipo ==
  ASSUME Inv, NEW n \in PIDs, CerrarConexion(n), UNCHANGED <<hilo, matrizHilos, deKernel>>
  PROVE  matriz' \in [PIDs -> Hilos \cup {0}] /\ TipoSockets' /\ InvSockets'
<1> USE NumerosDeHilos DEF Inv, TypeOK
<1>1. n \in Nat
  BY DEF PIDs
<1>2. /\ matriz' \in [PIDs -> Hilos \cup {0}]
      /\ abierto' \in [Hilos -> Hilos \cup {Nadie}]
  BY DEF CerrarConexion, TipoMenu, TipoSockets
<1>3. alKernel' \in [Hilos -> Seq(Paquetes)]
  <2> DEFINE paq == t_paquete("FINALIZAR_PROGRAMA_DESDE_CONSOLA", n)
             d == matriz[n]
  <2>1. paq \in Paquetes
    BY <1>1 DEF t_paquete, Paquetes, Ops
  <2>2. CASE UNCHANGED alKernel
    BY <2>2 DEF TipoSockets
  <2>3. CASE d # 0 /\ abierto[d] # Nadie
    <3>1. abierto[d] \in Hilos
      BY <2>3 DEF TipoMenu, TipoSockets
    <3>2. alKernel' = [alKernel EXCEPT ![abierto[d]] = Append(@, paq)]
      BY <2>3 DEF CerrarConexion
    <3> HIDE DEF paq, d
    <3> QED BY <2>1, <3>1, <3>2, AppendProperties DEF TipoSockets
  <2> QED BY <2>2, <2>3 DEF CerrarConexion
<1>4. (Conectado /\ TablaConHilo)'
  BY DEF CerrarConexion, TipoMenu, InvSockets, TablaConHilo, Conectado
<1>5. UnDescriptor'
  <2>1. \A d \in Hilos : abierto'[d] = abierto[d] \/ abierto'[d] = Nadie
    BY DEF CerrarConexion, TipoSockets
  <2> QED BY <2>1 DEF InvSockets, UnDescriptor
<1>6. deKernel' = deKernel
  OBVIOUS
<1> QED BY <1>2, <1>3, <1>4, <1>5, <1>6 DEF TipoSockets, InvSockets

LEMMA CancelaTipo ==
  ASSUME TipoCancelacion, NEW h \in Hilos, pthread_cancel(h)
  PROVE  TipoCancelacion'
<1>1. cancelado' \in SUBSET Hilos
  BY DEF TipoCancelacion, pthread_cancel
<1>2. cruce' \in BOOLEAN
  BY Zenon DEF TipoCancelacion, pthread_cancel
<1> QED BY <1>1, <1>2 DEF TipoCancelacion

LEMMA MenuFinaliza ==
  ASSUME Inv, (\E n \in PIDs : finalizarPID(n)) \/ desconectarPID
  PROVE  Inv'
<1> USE NumerosDeHilos DEF Inv, TypeOK
<1>1. ASSUME NEW n \in PIDs, finalizarPID(n)
      PROVE  Inv'
  <2>1. CerrarConexion(n) /\ UNCHANGED <<hilo, matrizHilos, deKernel>>
    BY <1>1 DEF finalizarPID
  <2>2. TipoMenu'
    BY <1>1, <2>1, CierraTipo DEF TipoMenu, finalizarPID, SueltaEjecuta, EnMenu
  <2>3. TipoCancelacion'
    <3>1. CASE matrizHilos[n] = Nadie
      BY <1>1, <3>1, Marco DEF finalizarPID
    <3>2. CASE matrizHilos[n] # Nadie
      BY <1>1, <3>2, CancelaTipo DEF TipoMenu, finalizarPID
    <3> QED BY <3>1, <3>2
  <2>4. (TipoHilos /\ TipoKernel)'
    BY <1>1, Marco DEF finalizarPID
  <2>5. InvMutex'
    BY <1>1 DEF TipoMenu, finalizarPID, SueltaEjecuta, EnMenu, InvMutex,
                MutexDelQueArranca, MutexDelMenu, Interfaz
  <2> QED BY <2>1, <2>2, <2>3, <2>4, <2>5, CierraTipo
<1>2. ASSUME desconectarPID
      PROVE  Inv'
  <2> DEFINE n == interfaz.i
  <2>1. n \in PIDs /\ CerrarConexion(n) /\ UNCHANGED <<hilo, matrizHilos, deKernel>>
    BY <1>2 DEF desconectarPID
  <2>2. matriz[n] # 0 => matrizHilos[n] \in Hilos
    BY <2>1 DEF TipoMenu, InvSockets, TablaConHilo
  <2>3. TipoMenu'
    BY <1>2, <2>1, CierraTipo DEF TipoMenu, desconectarPID, control
  <2>4. TipoCancelacion'
    BY <1>2, <2>2, CancelaTipo, Marco DEF desconectarPID
  <2>5. (TipoHilos /\ TipoKernel)'
    BY <1>2, Marco DEF desconectarPID
  <2>6. InvMutex'
    BY <1>2 DEF TipoMenu, desconectarPID, InvMutex, MutexDelQueArranca, MutexDelMenu, control
  <2> QED BY <2>1, <2>3, <2>4, <2>5, <2>6, CierraTipo
<1> QED BY <1>1, <1>2
-----------------------------------------------------------------------------
(* The threads.                                                            *)

(* The descriptor of a thread that waits leads to a queue of packets, and  *)
(* what is read from it is one.                                            *)
LEMMA LeeTipo ==
  ASSUME Inv, NEW h \in Hilos, hilo[h].paso \in {"pid", "espera"},
         HayPaquete(h), LeePaquete(h)
  PROVE  Paquete(h) \in Paquetes /\ deKernel' \in [Hilos -> Seq(Paquetes)]
<1> DEFINE c == abierto[hilo[h].kernel]
<1>1. hilo[h].kernel \in Hilos
  BY DEF Inv, InvSockets, Conectado
<1>2. c \in Hilos /\ deKernel[c] # <<>>
  BY <1>1 DEF Inv, TypeOK, TipoSockets, HayPaquete
<1>3. deKernel \in [Hilos -> Seq(Paquetes)]
  BY DEF Inv, TypeOK, TipoSockets
<1>4. /\ Paquete(h) = Head(deKernel[c])
      /\ deKernel' = IF Paquete(h).op = "-1" THEN deKernel
                     ELSE [deKernel EXCEPT ![c] = Tail(@)]
  BY DEF Paquete, LeePaquete
<1> HIDE DEF c
<1>5. Head(deKernel[c]) \in Paquetes /\ Tail(deKernel[c]) \in Seq(Paquetes)
  BY <1>2, <1>3, HeadTailProperties
<1> QED BY <1>2, <1>3, <1>4, <1>5

(* No thread goes back to its start, and descriptors are only closed. *)
LEMMA DescriptoresSiguen ==
  ASSUME Inv,
         \A g \in Hilos : hilo[g].paso \notin {"no", "archivo"}
                            => hilo'[g].paso \notin {"no", "archivo"},
         \A d \in Hilos : abierto'[d] \in {abierto[d], Nadie}
  PROVE  UnDescriptor'
<1>1. \A d \in Hilos : abierto[d] \in Hilos \cup {Nadie}
  BY DEF Inv, TypeOK, TipoSockets
<1> QED BY <1>1 DEF Inv, InvSockets, UnDescriptor

LEMMA HiloArranca ==
  ASSUME Inv, NEW h \in Hilos, Arranca(h)
  PROVE  Inv'
<1> USE NumerosDeHilos DEF Inv, TypeOK, HiloEn
<1>1. CASE sinArchivo(h)
  <2> USE <1>1 DEF sinArchivo
  <2>1. TipoMenu' /\ TipoHilos'
    BY DEF TipoMenu, TipoHilos, tablas, control
  <2>2. (TipoCancelacion /\ TipoSockets /\ TipoKernel)'
    BY Marco
  <2>3. InvMutex'
    BY DEF TipoHilos, InvMutex, MutexDelQueArranca, MutexDelMenu, control
  <2>4. (Conectado /\ TablaConHilo)'
    BY DEF TipoHilos, InvSockets, Conectado, TablaConHilo, tablas
  <2>5. UnDescriptor'
    BY DescriptoresSiguen DEF TipoHilos, sockets
  <2> QED BY <2>1, <2>2, <2>3, <2>4, <2>5 DEF InvSockets
<1>2. CASE conectar(h) /\ kernelVivo
  <2> DEFINE d == DescriptorLibre
  <2>1. d \in Hilos /\ abierto[d] = Nadie
    BY <1>2, HayDescriptor DEF conectar
  <2>2. /\ hilo[h].paso = "archivo"
        /\ abierto' = [abierto EXCEPT ![d] = h]
        /\ hilo' = [hilo EXCEPT ![h].paso = "pid", ![h].kernel = d]
        /\ alKernel' = [alKernel EXCEPT ![h] = Append(@, t_paquete("ENVIAR_SCRIPT", 0))]
        /\ UNCHANGED <<tablas, mutexEjecuta, interfaz, cancelacion, deKernel, kernel, control>>
    BY <1>2 DEF conectar, control
  <2> HIDE DEF d
  <2>3. (TipoMenu /\ TipoCancelacion /\ TipoKernel)'
    BY <2>2, Marco
  <2>4. TipoHilos'
    BY <2>1, <2>2, ZenonT(40) DEF TipoHilos
  <2>5. t_paquete("ENVIAR_SCRIPT", 0) \in Paquetes
    BY DEF t_paquete, Paquetes, Ops
  <2>6. TipoSockets'
    BY <2>1, <2>2, <2>5, AppendProperties DEF TipoSockets
  <2>7. InvMutex'
    BY <2>2 DEF TipoHilos, InvMutex, MutexDelQueArranca, MutexDelMenu, control
  <2>8. (Conectado /\ TablaConHilo)'
    BY <2>1, <2>2 DEF TipoHilos, InvSockets, Conectado, TablaConHilo, tablas
  <2>9. UnDescriptor'
    <3>1. \A e \in Hilos : abierto[e] # Nadie => abierto[e] \in Hilos /\ abierto[e] # h
      BY <2>2 DEF TipoSockets, InvSockets, UnDescriptor
    <3>2. \A e \in Hilos : abierto'[e] = IF e = d THEN h ELSE abierto[e]
      BY <2>1, <2>2 DEF TipoSockets
    <3>3. \A g \in Hilos : hilo'[g].paso = IF g = h THEN "pid" ELSE hilo[g].paso
      BY <2>2 DEF TipoHilos
    <3> QED BY <2>1, <3>1, <3>2, <3>3 DEF InvSockets, UnDescriptor
  <2> QED BY <2>3, <2>4, <2>6, <2>7, <2>8, <2>9 DEF InvSockets
<1>3. CASE conectar(h) /\ ~kernelVivo
  <2> USE <1>3 DEF conectar
  <2>1. TipoMenu'
    BY DEF TipoMenu, tablas
  <2>2. (TipoHilos /\ TipoCancelacion /\ TipoSockets /\ TipoKernel)'
    BY Marco DEF sockets
  <2>3. InvMutex'
    BY DEF InvMutex, MutexDelQueArranca, MutexDelMenu
  <2>4. InvSockets'
    BY DEF InvSockets, Conectado, UnDescriptor, TablaConHilo, tablas
  <2> QED BY <2>1, <2>2, <2>3, <2>4
<1> QED BY <1>1, <1>2, <1>3 DEF Arranca

LEMMA HiloRecibe ==
  ASSUME Inv, NEW h \in Hilos, recibirPID(h) \/ recibir(h)
  PROVE  Inv'
<1> USE NumerosDeHilos DEF Inv, TypeOK, HiloEn
<1>1. Paquete(h) \in Paquetes /\ deKernel' \in [Hilos -> Seq(Paquetes)]
  BY LeeTipo DEF recibirPID, recibir
<1> DEFINE paq == Paquete(h)
<1>2. paq.op \in Ops /\ paq.pid \in Nat
  BY <1>1 DEF Paquetes
<1>3. TipoSockets'
  BY <1>1 DEF TipoSockets, recibirPID, recibir
<1>4. (TipoCancelacion /\ TipoKernel)'
  BY Marco DEF recibirPID, recibir
<1>5. hilo[h].kernel \in Hilos
  BY DEF InvSockets, Conectado, recibirPID, recibir
<1>6. CASE recibir(h)
  <2>1. TipoHilos'
    <3>1. hilo' = [hilo EXCEPT ![h].paso = "candado", ![h].op = paq.op]
      BY <1>6 DEF recibir
    <3> HIDE DEF paq
    <3> QED BY <1>2, <3>1, ZenonT(40) DEF TipoHilos
  <2>2. TipoMenu'
    BY <1>6, Marco DEF recibir
  <2>3. InvMutex'
    BY <1>6 DEF recibir, TipoHilos, InvMutex, MutexDelQueArranca, MutexDelMenu, control
  <2>4. (Conectado /\ TablaConHilo)'
    BY <1>5, <1>6 DEF recibir, TipoHilos, InvSockets, Conectado, TablaConHilo, tablas
  <2>5. UnDescriptor'
    BY <1>6 DEF recibir, TipoHilos, TipoSockets, InvSockets, UnDescriptor
  <2> QED BY <1>3, <1>4, <2>1, <2>2, <2>3, <2>4, <2>5 DEF InvSockets
<1>7. CASE recibirPID(h)
  <2>1. PICK n \in Nat :
          /\ hilo' = [hilo EXCEPT ![h].paso = "espera", ![h].pid = n]
          /\ \/ UNCHANGED tablas
             \/ /\ matriz' = [matriz EXCEPT ![n] = hilo[h].kernel]
                /\ matrizHilos' = [matrizHilos EXCEPT ![n] = h]
    <3>1. CASE paq.op = "ENVIAR_PID"
      <4>1. /\ hilo' = [hilo EXCEPT ![h].paso = "espera", ![h].pid = paq.pid]
            /\ matriz' = [matriz EXCEPT ![paq.pid] = hilo[h].kernel]
            /\ matrizHilos' = [matrizHilos EXCEPT ![paq.pid] = h]
        BY <1>7, <3>1 DEF recibirPID
      <4> QED BY <1>2, <4>1
    <3>2. CASE paq.op # "ENVIAR_PID"
      <4>1. PICK n \in PIDs : hilo' = [hilo EXCEPT ![h].paso = "espera", ![h].pid = n]
        BY <1>7, <3>2 DEF recibirPID
      <4>2. UNCHANGED tablas /\ n \in Nat
        BY <1>7, <3>2 DEF recibirPID, PIDs
      <4> QED BY <4>1, <4>2
    <3> QED BY <3>1, <3>2
  <2>2. /\ hilo[h].paso = "pid" /\ mutexEjecuta' = Nadie
        /\ UNCHANGED <<interfaz, abierto, control>>
    BY <1>7 DEF recibirPID
  <2>3. TipoHilos'
    BY <2>1, ZenonT(40) DEF TipoHilos
  <2>4. TipoMenu'
    BY <1>5, <2>1, <2>2 DEF TipoMenu, tablas, control
  <2>5. InvMutex'
    BY <2>1, <2>2 DEF TipoHilos, InvMutex, MutexDelQueArranca, MutexDelMenu, control
  <2>6. Conectado'
    BY <1>5, <2>1 DEF TipoHilos, InvSockets, Conectado
  <2>7. TablaConHilo'
    BY <2>1 DEF TipoMenu, InvSockets, TablaConHilo, tablas
  <2>8. UnDescriptor'
    BY <2>1, <2>2 DEF TipoHilos, TipoSockets, InvSockets, UnDescriptor
  <2> QED BY <1>3, <1>4, <2>3, <2>4, <2>5, <2>6, <2>7, <2>8 DEF InvSockets
<1> QED BY <1>6, <1>7

LEMMA HiloMuere ==
  ASSUME Inv, NEW h \in Hilos, morirEnRecibir(h) \/ morirConElMutex(h)
  PROVE  Inv'
<1> USE NumerosDeHilos DEF Inv, TypeOK, HiloEn, morirEnRecibir, morirConElMutex
<1>1. TipoMenu' /\ TipoHilos'
  BY DEF TipoMenu, TipoHilos, tablas, control
<1>2. (TipoCancelacion /\ TipoSockets /\ TipoKernel)'
  BY Marco
<1>3. InvMutex'
  BY DEF TipoHilos, InvMutex, MutexDelQueArranca, MutexDelMenu, control
<1>4. (Conectado /\ TablaConHilo)'
  BY DEF TipoHilos, InvSockets, Conectado, TablaConHilo, tablas
<1>5. UnDescriptor'
  BY DescriptoresSiguen DEF TipoHilos, sockets
<1> QED BY <1>1, <1>2, <1>3, <1>4, <1>5 DEF InvSockets

LEMMA HiloAtiende ==
  ASSUME Inv, NEW h \in Hilos, imprimir(h) \/ finDelPrograma(h)
  PROVE  Inv'
<1> USE NumerosDeHilos DEF Inv, TypeOK, HiloEn, ConElMutex
<1>1. CASE imprimir(h)
  <2> USE <1>1 DEF imprimir
  <2>1. TipoMenu' /\ TipoHilos'
    BY DEF TipoMenu, TipoHilos, tablas
  <2>2. (TipoCancelacion /\ TipoSockets /\ TipoKernel)'
    BY Marco
  <2>3. InvMutex'
    BY DEF TipoHilos, InvMutex, MutexDelQueArranca, MutexDelMenu
  <2>4. (Conectado /\ TablaConHilo)'
    BY DEF TipoHilos, InvSockets, Conectado, TablaConHilo, tablas
  <2>5. UnDescriptor'
    BY DescriptoresSiguen DEF TipoHilos, sockets
  <2> QED BY <2>1, <2>2, <2>3, <2>4, <2>5 DEF InvSockets
<1>2. CASE finDelPrograma(h)
  <2> USE <1>2 DEF finDelPrograma
  <2>1. TipoMenu' /\ TipoHilos'
    BY ZenonT(40) DEF TipoMenu, TipoHilos, control
  <2>2. (TipoCancelacion /\ TipoKernel)'
    BY Marco
  <2>3. TipoSockets'
    BY DEF TipoSockets
  <2>4. InvMutex'
    BY DEF TipoHilos, InvMutex, MutexDelQueArranca, MutexDelMenu, control
  <2>5. (Conectado /\ TablaConHilo)'
    BY DEF TipoMenu, TipoHilos, InvSockets, Conectado, TablaConHilo
  <2>6. UnDescriptor'
    BY DescriptoresSiguen DEF TipoHilos, TipoSockets
  <2> QED BY <2>1, <2>2, <2>3, <2>4, <2>5, <2>6 DEF InvSockets
<1> QED BY <1>1, <1>2
-----------------------------------------------------------------------------
(* The Kernel changes neither the threads nor the mutex nor the            *)
(* descriptors.                                                            *)
LEMMA KernelDeja ==
  ASSUME Inv, TipoSockets', TipoKernel',
         UNCHANGED <<tablas, mutexEjecuta, interfaz, hilo, cancelacion, abierto, control>>
  PROVE  Inv'
<1> USE DEF Inv, TypeOK
<1>1. (TipoMenu /\ TipoHilos /\ TipoCancelacion)'
  BY Marco
<1>2. InvMutex'
  BY DEF InvMutex, MutexDelQueArranca, MutexDelMenu, control
<1>3. InvSockets'
  BY DEF InvSockets, Conectado, UnDescriptor, TablaConHilo, tablas
<1> QED BY <1>1, <1>2, <1>3

LEMMA MandaTipo ==
  ASSUME TipoSockets, NEW h \in Hilos, NEW ops \in Seq(Paquetes), Manda(h, ops)
  PROVE  deKernel' \in [Hilos -> Seq(Paquetes)]
BY ConcatProperties DEF TipoSockets, Manda

LEMMA KernelConsume ==
  ASSUME TipoSockets, NEW h \in Hilos, alKernel[h] # <<>>,
         alKernel' = [alKernel EXCEPT ![h] = Tail(@)]
  PROVE  alKernel' \in [Hilos -> Seq(Paquetes)] /\ Head(alKernel[h]) \in Paquetes
BY HeadTailProperties DEF TipoSockets

LEMMA KernelCrea ==
  ASSUME Inv, NEW h \in Hilos, nuevoProgramaAnsisop(h)
  PROVE  Inv'
<1> USE DEF Inv, TypeOK
<1> DEFINE n == pidcounter
<1>1. n \in Nat
  BY DEF TipoKernel
<1>2. \A op \in Ops : t_paquete(op, n) \in Paquetes
  BY <1>1 DEF t_paquete, Paquetes
<1>3. \E ops \in Seq(Paquetes) : Manda(h, ops)
  <2> DEFINE pid == t_paquete("ENVIAR_PID", n)
             fin == FinalizarPrograma(n)
  <2>1. pid \in Paquetes /\ fin \in Paquetes
    BY <1>2 DEF Ops, FinalizarPrograma
  <2>2. CASE Manda(h, <<pid>>)
    <3>1. <<pid>> \in Seq(Paquetes)
      <4> HIDE DEF pid
      <4> QED BY <2>1
    <3> QED BY <2>2, <3>1
  <2>3. ASSUME NEW op \in {"ERROR_MULTIPROGRAMACION", "SIN_ESPACIO_MEMORIA"},
               Manda(h, <<pid, t_paquete(op, n), fin>>)
        PROVE  \E ops \in Seq(Paquetes) : Manda(h, ops)
    <3>1. t_paquete(op, n) \in Paquetes
      BY <1>2 DEF Ops
    <3> DEFINE q == t_paquete(op, n)
    <3>2. <<pid, q, fin>> \in Seq(Paquetes)
      <4> HIDE DEF pid, q, fin
      <4>1. q \in Paquetes
        BY <3>1 DEF q
      <4> QED BY <2>1, <4>1
    <3> QED BY <2>3, <3>2
  <2> QED BY <2>2, <2>3 DEF nuevoProgramaAnsisop
<1>4. TipoSockets'
  BY <1>3, MandaTipo, KernelConsume DEF nuevoProgramaAnsisop, TipoSockets
<1>5. TipoKernel'
  BY <1>1 DEF TipoKernel, nuevoProgramaAnsisop
<1> QED BY <1>4, <1>5, KernelDeja DEF nuevoProgramaAnsisop

LEMMA KernelSigue ==
  ASSUME Inv,
         \/ \E h \in Hilos : imprimirConsola(h) \/ finalizarProceso(h)
         \/ \E h \in Hilos : finalizarProcesoPorPID(h)
         \/ caeKernel
  PROVE  Inv'
<1> USE DEF Inv, TypeOK
<1>1. ASSUME NEW h \in Hilos, imprimirConsola(h) \/ finalizarProceso(h)
      PROVE  Inv'
  <2>1. proceso[h] \in Nat
    BY <1>1 DEF TipoKernel, imprimirConsola, finalizarProceso, Vive
  <2>2. \A op \in Ops : t_paquete(op, proceso[h]) \in Paquetes
    BY <2>1 DEF t_paquete, Paquetes
  <2>3. PICK paq \in Paquetes : Manda(h, <<paq>>)
    BY <1>1, <2>2 DEF imprimirConsola, finalizarProceso, FinalizarPrograma, Ops
  <2>4. <<paq>> \in Seq(Paquetes)
    OBVIOUS
  <2>5. TipoSockets'
    BY <1>1, <2>3, <2>4, MandaTipo DEF imprimirConsola, finalizarProceso, TipoSockets
  <2>6. TipoKernel'
    BY <1>1 DEF TipoKernel, imprimirConsola, finalizarProceso, Termina
  <2> QED BY <1>1, <2>5, <2>6, KernelDeja DEF imprimirConsola, finalizarProceso
<1>2. ASSUME NEW h \in Hilos, finalizarProcesoPorPID(h)
      PROVE  Inv'
  <2>1. TipoSockets'
    BY <1>2, KernelConsume DEF finalizarProcesoPorPID, TipoSockets
  <2>2. TipoKernel'
    BY <1>2 DEF TipoKernel, finalizarProcesoPorPID
  <2> QED BY <1>2, <2>1, <2>2, KernelDeja DEF finalizarProcesoPorPID
<1>3. ASSUME caeKernel
      PROVE  Inv'
  <2>1. t_paquete("-1", 0) \in Paquetes
    BY DEF t_paquete, Paquetes, Ops
  <2>2. TipoSockets'
    <3> DEFINE q == t_paquete("-1", 0)
    <3>1. deKernel' = [h \in Hilos |-> Append(deKernel[h], q)]
      BY <1>3 DEF caeKernel
    <3>2. q \in Paquetes
      BY <2>1
    <3> HIDE DEF q
    <3>3. deKernel' \in [Hilos -> Seq(Paquetes)]
      BY <3>1, <3>2, AppendProperties DEF TipoSockets
    <3> QED BY <1>3, <3>3 DEF caeKernel, TipoSockets
  <2>3. TipoKernel'
    <3>1. kernelVivo' \in BOOLEAN
      BY <1>3 DEF caeKernel
    <3> QED BY <1>3, <3>1 DEF caeKernel, TipoKernel
  <2> QED BY <1>3, <2>2, <2>3, KernelDeja DEF caeKernel
<1> QED BY <1>1, <1>2, <1>3

-----------------------------------------------------------------------------
LEMMA PasoConsola == Inv /\ [Next]_vars => Inv'
<1> SUFFICES ASSUME Inv, [Next]_vars
             PROVE  Inv'
  OBVIOUS
<1>1. CASE Interface
  BY <1>1, MenuElige, MenuInicia, MenuFinaliza DEF Interface
<1>2. ASSUME NEW h \in Hilos, Arranca(h) \/ Hilo(h)
      PROVE  Inv'
  BY <1>2, HiloArranca, HiloRecibe, HiloMuere, HiloAtiende DEF Hilo
<1>3. ASSUME NEW h \in Hilos, Atiende(h) \/ imprimirConsola(h) \/ finalizarProceso(h)
      PROVE  Inv'
  BY <1>3, KernelCrea, KernelSigue DEF Atiende
<1>4. CASE caeKernel
  BY <1>4, KernelSigue
<1>5. CASE UNCHANGED vars
  <2> USE <1>5 DEF vars, Inv, TypeOK
  <2>1. TypeOK'
    BY Marco
  <2>2. InvMutex'
    BY DEF InvMutex, MutexDelQueArranca, MutexDelMenu, control
  <2>3. InvSockets'
    BY DEF InvSockets, Conectado, UnDescriptor, TablaConHilo, tablas, sockets
  <2> QED BY <2>1, <2>2, <2>3
<1> QED BY <1>1, <1>2, <1>3, <1>4, <1>5 DEF Next

LEMMA InvConsola == Spec => []Inv
BY InicioConsola, PasoConsola, PTL DEF Spec

-----------------------------------------------------------------------------
(* The threads, by pid.                                                    *)

(* A pid that was stored is that of its thread for good; only a thread     *)
(* that has its pid is cancelled.                                          *)
PidDelHilo ==
    \A n \in PIDs : matrizHilos[n] # Nadie =>
        /\ hilo[matrizHilos[n]].pid = n
        /\ hilo[matrizHilos[n]].paso \in {"espera", "candado", "fin"}
CanceladoConPid == \A h \in cancelado : hilo[h].paso \in {"espera", "candado", "fin"}

(* A script goes out first and once, and before it there is no process.    *)
SinConectar ==
    \A h \in Hilos : hilo[h].paso \in {"no", "archivo"} => alKernel[h] = <<>> /\ proceso[h] = 0
UnScript ==
    \A h \in Hilos : \A k \in DOMAIN alKernel[h] :
        alKernel[h][k].op = "ENVIAR_SCRIPT" => k = 1 /\ proceso[h] = 0

ScriptPendiente(h) == \E k \in DOMAIN alKernel[h] : alKernel[h][k].op = "ENVIAR_SCRIPT"

(* The Kernel gave at most a pid for each thread it took a script from.    *)
Atendidos == {h \in Hilos : hilo[h].paso \notin {"no", "archivo"} /\ ~ScriptPendiente(h)}
PidsContados == pidcounter >= 1 /\ pidcounter <= 1 + Cardinality(Atendidos)

InvHilos == PidDelHilo /\ CanceladoConPid /\ SinConectar /\ UnScript /\ PidsContados

(* While none is refused, an entry is of a thread that was not cancelled,  *)
(* and the descriptor of such a thread is open and its own.                *)
EntradaViva ==
    \A n \in PIDs : matriz[n] # 0 =>
        LET h == matrizHilos[n] IN
        /\ hilo[h].paso \in {"espera", "candado"} /\ h \notin cancelado
        /\ hilo[h].kernel = matriz[n] /\ abierto[matriz[n]] = h
Propio ==
    \A h \in Hilos :
        hilo[h].paso \in {"pid", "espera", "candado"} /\ h \notin cancelado =>
            abierto[hilo[h].kernel] = h

(* The pid comes first, and once; after it, prints and an end.              *)
EnOrden ==
    \A h \in Hilos :
        /\ \A k \in DOMAIN deKernel[h] :
             /\ deKernel[h][k].op \in {"ENVIAR_PID", "IMPRIMIR_CONSOLA", "FINALIZAR_PROGRAMA", "-1"}
             /\ deKernel[h][k].op = "ENVIAR_PID" => k = 1 /\ hilo[h].paso = "pid"
        /\ hilo[h].paso = "candado" =>
             hilo[h].op \in {"IMPRIMIR_CONSOLA", "FINALIZAR_PROGRAMA", "-1"}

InvTabla == SinRechazos => (Corre => EntradaViva /\ Propio) /\ EnOrden

(* While the Kernel lives too: nothing has come for a thread whose script   *)
(* waits, and for one without a pid the pid is the next packet.             *)
PidPrimero ==
    \A h \in Hilos :
        /\ hilo[h].paso \in {"no", "archivo"} => deKernel[h] = <<>>
        /\ ScriptPendiente(h) => hilo[h].paso = "pid" /\ deKernel[h] = <<>>
        /\ hilo[h].paso = "pid" /\ ~ScriptPendiente(h) =>
             deKernel[h] # <<>> /\ Head(deKernel[h]).op = "ENVIAR_PID"

(* The pids on the way and those stored are in the table, and different.   *)
PidDado(h) == IF hilo[h].paso = "pid" THEN Head(deKernel[h]).pid ELSE hilo[h].pid
ConPid == {h \in Hilos : \/ hilo[h].paso = "pid" /\ ~ScriptPendiente(h)
                         \/ hilo[h].paso \in {"espera", "candado"}}
PidsDistintos ==
    /\ \A h \in ConPid : PidDado(h) \in PIDs /\ PidDado(h) < pidcounter
                         /\ (proceso[h] > 0 => proceso[h] = PidDado(h))
    /\ \A g, h \in ConPid : PidDado(g) = PidDado(h) => g = h

(* Every thread that was not cancelled has its entry.                       *)
ConEntrada ==
    \A h \in Hilos : hilo[h].paso \in {"espera", "candado"} /\ h \notin cancelado =>
        /\ matriz[hilo[h].pid] = hilo[h].kernel /\ matrizHilos[hilo[h].pid] = h

(* An end was announced only for a process that ended, and the Kernel       *)
(* closed no connection.                                                   *)
FinVerdadero ==
    \A h \in Hilos :
        /\ \A k \in DOMAIN deKernel[h] :
             /\ deKernel[h][k].op # "-1"
             /\ deKernel[h][k].op = "FINALIZAR_PROGRAMA" => proceso[h] = 0
        /\ hilo[h].paso = "candado" =>
             hilo[h].op # "-1" /\ (hilo[h].op = "FINALIZAR_PROGRAMA" => proceso[h] = 0)

Avisados ==
    \A h \in Hilos :
        (hilo[h].paso = "fin" \/ h \in cancelado) /\ proceso[h] > 0 => Avisado(proceso[h])

InvKernel ==
    SinRechazos /\ kernelVivo =>
        PidPrimero /\ PidsDistintos /\ ConEntrada /\ FinVerdadero /\ Avisados

Todo == InvHilos /\ InvTabla /\ InvKernel

LEMMA TodoInicial == Init => Todo
<1> SUFFICES ASSUME Init PROVE Todo
  OBVIOUS
<1> USE NumerosDeHilos DEF Init, SinIniciar
<1>1. PidDelHilo /\ CanceladoConPid /\ SinConectar /\ UnScript
  BY DEF PidDelHilo, CanceladoConPid, SinConectar, UnScript
<1>2. PidsContados
  <2>1. Atendidos = {}
    BY DEF Atendidos
  <2> QED BY <2>1, FS_EmptySet DEF PidsContados
<1>3. EntradaViva /\ Propio /\ EnOrden
  BY DEF EntradaViva, Propio, EnOrden
<1>4. PidPrimero /\ PidsDistintos /\ ConEntrada /\ FinVerdadero /\ Avisados
  BY DEF PidPrimero, PidsDistintos, ConPid, ConEntrada, FinVerdadero, Avisados, ScriptPendiente
<1> QED BY <1>1, <1>2, <1>3, <1>4 DEF Todo, InvHilos, InvTabla, InvKernel

(* A thread that was attended to stays so, and the count of pids with it. *)
LEMMA ContadosSiguen ==
  ASSUME Inv, Inv', PidsContados, pidcounter' = pidcounter, Atendidos \subseteq Atendidos'
  PROVE  PidsContados'
<1>1. Atendidos' \subseteq Hilos /\ Atendidos \subseteq Hilos
  BY DEF Atendidos
<1>2. IsFiniteSet(Atendidos') /\ IsFiniteSet(Atendidos)
  BY <1>1, NumerosDeHilos, FS_Subset
<1>3. /\ Cardinality(Atendidos) <= Cardinality(Atendidos')
      /\ Cardinality(Atendidos) \in Nat /\ Cardinality(Atendidos') \in Nat
  BY <1>2, FS_Subset, FS_CardinalityType
<1>4. pidcounter \in Nat
  BY DEF Inv, TypeOK, TipoKernel
<1> QED BY <1>3, <1>4 DEF PidsContados

(* A step of the menu that touches no thread and no connection; or the end  *)
(* of the process.                                                         *)
LEMMA Quieto ==
  ASSUME Todo,
         UNCHANGED <<tablas, hilo, cancelado, alKernel, deKernel, proceso, pidcounter, kernelVivo>>,
         Corre' => Corre /\ abierto' = abierto
  PROVE  Todo'
<1>1. /\ matriz' = matriz /\ matrizHilos' = matrizHilos /\ hilo' = hilo /\ cancelado' = cancelado
      /\ alKernel' = alKernel /\ deKernel' = deKernel /\ proceso' = proceso
      /\ pidcounter' = pidcounter /\ kernelVivo' = kernelVivo
  BY DEF tablas
<1>2. InvHilos'
  BY <1>1 DEF Todo, InvHilos, PidDelHilo, CanceladoConPid, SinConectar, UnScript,
              PidsContados, Atendidos, ScriptPendiente
<1>3. InvTabla'
  <2>1. SinRechazos' = SinRechazos
    BY <1>1 DEF SinRechazos
  <2>2. Corre' => (EntradaViva' = EntradaViva /\ Propio' = Propio)
    BY <1>1 DEF EntradaViva, Propio
  <2>3. EnOrden' = EnOrden
    BY <1>1 DEF EnOrden
  <2> QED BY <2>1, <2>2, <2>3 DEF Todo, InvTabla
<1>4. InvKernel'
  BY <1>1 DEF Todo, InvKernel, SinRechazos, PidPrimero, PidsDistintos, PidDado, ConPid,
              ConEntrada, FinVerdadero, Avisados, Avisado, ScriptPendiente
<1> QED BY <1>2, <1>3, <1>4 DEF Todo

(* Only the step of thread h changes. *)
SoloPaso(h, paso) ==
  \A g \in Hilos :
    /\ hilo'[g].paso = IF g = h THEN paso ELSE hilo[g].paso
    /\ hilo'[g].pid = hilo[g].pid /\ hilo'[g].kernel = hilo[g].kernel /\ hilo'[g].op = hilo[g].op

LEMMA CambiaElPaso ==
  ASSUME Inv, NEW h \in Hilos, NEW paso, hilo' = [hilo EXCEPT ![h].paso = paso]
  PROVE  SoloPaso(h, paso)
BY DEF Inv, TypeOK, TipoHilos, SoloPaso

(* A thread ends that has no process or was cancelled; or it is created.   *)
LEMMA TerminaSinCerrar ==
  ASSUME Inv, Inv', Todo, NEW h \in Hilos, NEW paso,
         SoloPaso(h, paso),
         \/ hilo[h].paso = "no" /\ paso = "archivo"
         \/ hilo[h].paso = "archivo" /\ paso = "fin"
         \/ hilo[h].paso \in {"espera", "candado"} /\ h \in cancelado /\ paso = "fin",
         UNCHANGED <<tablas, cancelado, alKernel, deKernel, proceso, pidcounter, kernelVivo,
                     abierto, estado>>
  PROVE  Todo'
<1>1. /\ matriz' = matriz /\ matrizHilos' = matrizHilos /\ cancelado' = cancelado
      /\ alKernel' = alKernel /\ deKernel' = deKernel /\ proceso' = proceso
      /\ pidcounter' = pidcounter /\ kernelVivo' = kernelVivo
      /\ abierto' = abierto /\ estado' = estado
  BY DEF tablas
<1>2. \A g \in Hilos :
        /\ hilo'[g].paso = IF g = h THEN paso ELSE hilo[g].paso
        /\ hilo'[g].pid = hilo[g].pid /\ hilo'[g].kernel = hilo[g].kernel /\ hilo'[g].op = hilo[g].op
  BY DEF SoloPaso
<1>3. /\ \A n \in PIDs : matrizHilos[n] # Nadie => matrizHilos[n] \in Hilos
      /\ cancelado \subseteq Hilos
  BY DEF Inv, TypeOK, TipoMenu, TipoCancelacion
<1>4. InvHilos /\ InvTabla /\ InvKernel
  BY DEF Todo
<1>5. InvHilos'
  <2>1. PidDelHilo' /\ CanceladoConPid' /\ UnScript' /\ SinConectar'
    BY <1>1, <1>2, <1>3, <1>4
       DEF InvHilos, PidDelHilo, CanceladoConPid, UnScript, SinConectar
  <2>2. Atendidos \subseteq Atendidos'
    BY <1>1, <1>2 DEF Atendidos, ScriptPendiente
  <2> QED BY <1>1, <1>4, <2>1, <2>2, ContadosSiguen DEF InvHilos
<1>6. InvTabla'
  <2> SUFFICES ASSUME SinRechazos' PROVE (Corre' => EntradaViva' /\ Propio') /\ EnOrden'
    BY DEF InvTabla
  <2>1. SinRechazos /\ (Corre' => Corre)
    BY <1>1 DEF SinRechazos, Corre
  <2>2. EnOrden'
    BY <1>1, <1>2, <1>4, <2>1 DEF InvTabla, EnOrden
  <2>3. Corre' => Propio'
    BY <1>1, <1>2, <1>4, <2>1 DEF InvTabla, Propio
  <2>4. Corre' => EntradaViva'
    <3> SUFFICES ASSUME EntradaViva, NEW n \in PIDs, matriz[n] # 0
                 PROVE  LET g == matrizHilos[n] IN
                        /\ hilo'[g].paso \in {"espera", "candado"} /\ g \notin cancelado
                        /\ hilo'[g].kernel = matriz[n] /\ abierto[matriz[n]] = g
      BY <1>1, <1>4, <2>1 DEF InvTabla, EntradaViva
    <3>1. matrizHilos[n] \in Hilos
      BY <1>3 DEF Inv, InvSockets, TablaConHilo
    <3> QED BY <1>2, <3>1 DEF EntradaViva
  <2> QED BY <2>2, <2>3, <2>4
<1>7. InvKernel'
  <2> SUFFICES ASSUME SinRechazos', kernelVivo'
               PROVE  (PidPrimero /\ PidsDistintos /\ ConEntrada /\ FinVerdadero /\ Avisados)'
    BY DEF InvKernel
  <2>1. SinRechazos /\ kernelVivo
    BY <1>1 DEF SinRechazos
  <2>2. PidPrimero /\ PidsDistintos /\ ConEntrada /\ FinVerdadero /\ Avisados
    BY <1>4, <2>1 DEF InvKernel
  <2>3. PidPrimero'
    BY <1>1, <1>2, <2>2 DEF PidPrimero, ScriptPendiente
  <2>4. ConPid' \subseteq ConPid /\ \A g \in ConPid' : PidDado(g)' = PidDado(g)
    BY <1>1, <1>2 DEF ConPid, PidDado, ScriptPendiente
  <2>5. PidsDistintos'
    BY <1>1, <2>2, <2>4 DEF PidsDistintos
  <2>6. ConEntrada' /\ FinVerdadero'
    BY <1>1, <1>2, <2>2 DEF ConEntrada, FinVerdadero
  <2>7. Avisados'
    <3> SUFFICES ASSUME NEW g \in Hilos, hilo'[g].paso = "fin" \/ g \in cancelado, proceso[g] > 0
                 PROVE  Avisado(proceso[g])
      BY <1>1 DEF Avisados, Avisado
    <3>1. ~(g = h /\ hilo[h].paso \in {"no", "archivo"})
      BY <1>4 DEF InvHilos, SinConectar
    <3> QED BY <1>2, <2>2, <3>1 DEF Avisados
  <2> QED BY <2>3, <2>5, <2>6, <2>7
<1> QED BY <1>5, <1>6, <1>7 DEF Todo

(* The menu closes the descriptor of a pid and cancels its thread; the     *)
(* notice goes out on the connection that thread has open.                 *)
LEMMA CierraYCancela ==
  ASSUME Inv, Inv', Todo, Corre, NEW n \in PIDs, matrizHilos[n] # Nadie,
         CerrarConexion(n), pthread_cancel(matrizHilos[n]),
         UNCHANGED <<matrizHilos, hilo, deKernel, kernel, estado>>
  PROVE  Todo'
<1> DEFINE h == matrizHilos[n]
           d == matriz[n]
           aviso == t_paquete("FINALIZAR_PROGRAMA_DESDE_CONSOLA", n)
<1>0. InvHilos /\ InvTabla /\ InvKernel
  BY DEF Todo
<1>1. /\ matrizHilos' = matrizHilos /\ hilo' = hilo /\ deKernel' = deKernel
      /\ proceso' = proceso /\ pidcounter' = pidcounter /\ kernelVivo' = kernelVivo
      /\ estado' = estado
  BY DEF kernel
<1>2. h \in Hilos /\ d \in Hilos \cup {0}
  BY DEF Inv, TypeOK, TipoMenu
<1>3. cancelado' = IF hilo[h].paso = "fin" THEN cancelado ELSE cancelado \cup {h}
  BY DEF pthread_cancel
<1>4. hilo[h].pid = n /\ hilo[h].paso \in {"espera", "candado", "fin"}
  BY <1>0 DEF InvHilos, PidDelHilo
<1>5. \A m \in PIDs : matriz'[m] = IF m = n THEN 0 ELSE matriz[m]
  BY DEF Inv, TypeOK, TipoMenu, CerrarConexion
<1>6. \A e \in Hilos : abierto'[e] = IF e = d THEN Nadie ELSE abierto[e]
  <2>1. abierto \in [Hilos -> Hilos \cup {Nadie}]
    BY DEF Inv, TypeOK, TipoSockets
  <2> QED BY <2>1, <1>2, NumerosDeHilos DEF CerrarConexion
<1>7. \A g \in Hilos :
        alKernel'[g] = IF d # 0 /\ abierto[d] = g THEN Append(alKernel[g], aviso) ELSE alKernel[g]
  <2>1. alKernel \in [Hilos -> Seq(Paquetes)] /\ abierto \in [Hilos -> Hilos \cup {Nadie}]
    BY DEF Inv, TypeOK, TipoSockets
  <2>2. CASE d = 0 \/ abierto[d] = Nadie
    BY <2>1, <2>2, NumerosDeHilos DEF CerrarConexion
  <2>3. CASE d # 0 /\ abierto[d] # Nadie
    <3>1. abierto[d] \in Hilos /\ alKernel' = [alKernel EXCEPT ![abierto[d]] = Append(@, aviso)]
      BY <1>2, <2>1, <2>3 DEF CerrarConexion
    <3> QED BY <2>1, <2>3, <3>1
  <2> QED BY <2>2, <2>3
<1>8. aviso.op # "ENVIAR_SCRIPT" /\ aviso \in Paquetes
  <2>1. n \in Nat
    BY NumerosDeHilos DEF PIDs
  <2> QED BY <2>1 DEF t_paquete, Paquetes, Ops
<1> HIDE DEF aviso, d
<1>9. \A g \in Hilos :
        /\ alKernel[g] \in Seq(Paquetes) /\ Len(alKernel[g]) \in Nat
        /\ DOMAIN alKernel[g] = 1 .. Len(alKernel[g])
        /\ Len(Append(alKernel[g], aviso)) = Len(alKernel[g]) + 1
        /\ DOMAIN Append(alKernel[g], aviso) = 1 .. Len(alKernel[g]) + 1
        /\ Append(alKernel[g], aviso)[Len(alKernel[g]) + 1] = aviso
        /\ \A k \in 1 .. Len(alKernel[g]) : Append(alKernel[g], aviso)[k] = alKernel[g][k]
  BY <1>8 DEF Inv, TypeOK, TipoSockets
<1>10. \A g \in Hilos : \A k \in DOMAIN alKernel[g] :
         k \in DOMAIN alKernel'[g] /\ alKernel'[g][k] = alKernel[g][k]
  <2> SUFFICES ASSUME NEW g \in Hilos, NEW k \in DOMAIN alKernel[g]
               PROVE  k \in DOMAIN alKernel'[g] /\ alKernel'[g][k] = alKernel[g][k]
    OBVIOUS
  <2>1. k \in 1 .. Len(alKernel[g]) /\ k \in 1 .. Len(alKernel[g]) + 1
    BY <1>9
  <2>2. CASE alKernel'[g] = alKernel[g]
    BY <2>2
  <2>3. CASE alKernel'[g] = Append(alKernel[g], aviso)
    BY <1>9, <2>1, <2>3
  <2> QED BY <1>7, <2>2, <2>3
<1>11. \A g \in Hilos : \A k \in DOMAIN alKernel'[g] :
         \/ k \in DOMAIN alKernel[g] /\ alKernel'[g][k] = alKernel[g][k]
         \/ alKernel'[g][k] = aviso
  <2> SUFFICES ASSUME NEW g \in Hilos, NEW k \in DOMAIN alKernel'[g]
               PROVE  \/ k \in DOMAIN alKernel[g] /\ alKernel'[g][k] = alKernel[g][k]
                      \/ alKernel'[g][k] = aviso
    OBVIOUS
  <2>1. CASE alKernel'[g] = alKernel[g]
    BY <2>1
  <2>2. CASE alKernel'[g] = Append(alKernel[g], aviso)
    <3>1. k \in 1 .. Len(alKernel[g]) \/ k = Len(alKernel[g]) + 1
      BY <1>9, <2>2
    <3> QED BY <1>9, <2>2, <3>1
  <2> QED BY <1>7, <2>1, <2>2
<1>12. \A g \in Hilos : ScriptPendiente(g)' <=> ScriptPendiente(g)
  BY <1>8, <1>10, <1>11 DEF ScriptPendiente
<1>13. InvHilos'
  <2>1. PidDelHilo' /\ CanceladoConPid'
    BY <1>0, <1>1, <1>3, <1>4 DEF InvHilos, PidDelHilo, CanceladoConPid
  <2>2. SinConectar'
    <3> SUFFICES ASSUME NEW g \in Hilos, hilo[g].paso \in {"no", "archivo"}
                 PROVE  alKernel'[g] = <<>> /\ proceso[g] = 0
      BY <1>1 DEF SinConectar
    <3>1. ~(d # 0 /\ abierto[d] = g)
      BY <1>2, NumerosDeHilos DEF Inv, InvSockets, UnDescriptor
    <3> QED BY <1>0, <1>7, <3>1 DEF InvHilos, SinConectar
  <2>3. UnScript'
    BY <1>0, <1>1, <1>8, <1>11 DEF InvHilos, UnScript
  <2>4. Atendidos' = Atendidos
    BY <1>1, <1>12 DEF Atendidos
  <2> QED BY <1>0, <1>1, <2>1, <2>2, <2>3, <2>4, ContadosSiguen DEF InvHilos
<1>14. InvTabla'
  <2> SUFFICES ASSUME SinRechazos' PROVE EntradaViva' /\ Propio' /\ EnOrden'
    BY DEF InvTabla
  <2>1. EntradaViva /\ Propio /\ EnOrden
    BY <1>0, <1>1 DEF InvTabla, SinRechazos
  <2>2. EnOrden'
    BY <1>1, <2>1 DEF EnOrden
  <2>3. EntradaViva'
    <3> SUFFICES ASSUME NEW m \in PIDs, m # n, matriz[m] # 0
                 PROVE  LET g == matrizHilos[m] IN
                        /\ hilo[g].paso \in {"espera", "candado"} /\ g \notin cancelado'
                        /\ hilo[g].kernel = matriz[m] /\ abierto'[matriz[m]] = g
      BY <1>1, <1>5 DEF EntradaViva
    <3> DEFINE g == matrizHilos[m]
    <3>1. /\ hilo[g].paso \in {"espera", "candado"} /\ g \notin cancelado
          /\ hilo[g].kernel = matriz[m] /\ abierto[matriz[m]] = g
      BY <2>1 DEF EntradaViva
    <3>2. g # Nadie /\ g # h /\ matriz[m] \in Hilos
      <4>1. g # Nadie /\ matriz[m] \in Hilos
        BY DEF Inv, TypeOK, TipoMenu, InvSockets, TablaConHilo
      <4> QED BY <1>0, <1>4, <4>1 DEF InvHilos, PidDelHilo
    <3>3. matriz[m] # d
      <4>1. d # 0 => abierto[d] = h
        BY <2>1 DEF EntradaViva, d
      <4> QED BY <3>1, <3>2, <4>1, NumerosDeHilos
    <3> QED BY <1>3, <1>6, <3>1, <3>2, <3>3
  <2>4. Propio'
    <3> SUFFICES ASSUME NEW g \in Hilos, hilo[g].paso \in {"pid", "espera", "candado"},
                        g \notin cancelado'
                 PROVE  abierto'[hilo[g].kernel] = g
      BY <1>1 DEF Propio
    <3>1. g \notin cancelado /\ g # h
      BY <1>3, <1>4
    <3>2. hilo[g].kernel \in Hilos /\ abierto[hilo[g].kernel] = g
      BY <2>1, <3>1 DEF Propio, Inv, InvSockets, Conectado
    <3>3. hilo[g].kernel # d
      <4>1. d # 0 => abierto[d] = h
        BY <2>1 DEF EntradaViva, d
      <4> QED BY <3>1, <3>2, <4>1, NumerosDeHilos
    <3> QED BY <1>6, <3>2, <3>3
  <2> QED BY <2>2, <2>3, <2>4
<1>15. InvKernel'
  <2> SUFFICES ASSUME SinRechazos', kernelVivo'
               PROVE  (PidPrimero /\ PidsDistintos /\ ConEntrada /\ FinVerdadero /\ Avisados)'
    BY DEF InvKernel
  <2>1. SinRechazos /\ kernelVivo
    BY <1>1 DEF SinRechazos
  <2>2. /\ PidPrimero /\ PidsDistintos /\ ConEntrada /\ FinVerdadero /\ Avisados
        /\ EntradaViva
    BY <1>0, <2>1 DEF InvKernel, InvTabla
  <2>3. PidPrimero'
    BY <1>1, <1>12, <2>2 DEF PidPrimero
  <2>4. ConPid' = ConPid /\ \A g \in Hilos : PidDado(g)' = PidDado(g)
    BY <1>1, <1>12 DEF ConPid, PidDado
  <2>5. PidsDistintos'
    <3>1. ConPid \subseteq Hilos
      BY DEF ConPid
    <3> QED BY <1>1, <2>2, <2>4, <3>1 DEF PidsDistintos
  <2>6. ConEntrada'
    <3> SUFFICES ASSUME NEW g \in Hilos, hilo[g].paso \in {"espera", "candado"},
                        g \notin cancelado'
                 PROVE  /\ matriz'[hilo[g].pid] = hilo[g].kernel
                        /\ matrizHilos[hilo[g].pid] = g
      BY <1>1 DEF ConEntrada
    <3>1. g \notin cancelado /\ g # h
      BY <1>3, <1>4
    <3>2. /\ matriz[hilo[g].pid] = hilo[g].kernel /\ matrizHilos[hilo[g].pid] = g
          /\ hilo[g].pid \in PIDs
      BY <2>2, <3>1 DEF ConEntrada, PidsDistintos, ConPid, PidDado
    <3> QED BY <1>5, <3>1, <3>2
  <2>7. FinVerdadero'
    BY <1>1, <2>2 DEF FinVerdadero
  <2>8. Avisados'
    <3> SUFFICES ASSUME NEW g \in Hilos, hilo[g].paso = "fin" \/ g \in cancelado', proceso[g] > 0
                 PROVE  Avisado(proceso[g])'
      BY <1>1 DEF Avisados, Avisado
    <3>1. CASE hilo[g].paso = "fin" \/ g \in cancelado
      <4>1. Avisado(proceso[g])
        BY <2>2, <3>1 DEF Avisados
      <4> QED BY <1>1, <1>10, <4>1 DEF Avisado
    <3>2. CASE g = h /\ hilo[g].paso \in {"espera", "candado"} /\ g \notin cancelado
      <4>1. proceso[h] = n
        BY <1>4, <2>2, <3>2 DEF PidsDistintos, ConPid, PidDado
      <4>2. d \in Hilos
        <5>1. hilo[h].kernel \in Hilos
          BY <3>2 DEF Inv, InvSockets, Conectado
        <5> QED BY <1>4, <2>2, <3>2, <5>1 DEF ConEntrada, d
      <4>3. abierto[d] = h
        BY <2>2, <4>2, NumerosDeHilos DEF EntradaViva, d
      <4>4. alKernel'[h] = Append(alKernel[h], aviso)
        BY <1>2, <1>7, <4>2, <4>3, NumerosDeHilos
      <4>5. Len(alKernel[h]) + 1 \in DOMAIN alKernel'[h]
            /\ alKernel'[h][Len(alKernel[h]) + 1] = aviso
        BY <1>2, <1>9, <4>4
      <4> QED BY <1>1, <1>2, <3>2, <4>1, <4>5 DEF Avisado, aviso
    <3> QED BY <1>3, <1>4, <3>1, <3>2
  <2> QED BY <2>3, <2>5, <2>6, <2>7, <2>8
<1> QED BY <1>13, <1>14, <1>15 DEF Todo

LEMMA MenuTodo ==
  ASSUME Inv, Inv', Todo, Interface
  PROVE  Todo'
<1>1. CASE mostrarMenu \/ elegirOpcion \/ finalizarPrograma \/ desconectarConsola
           \/ terminarDeDesconectar \/ desconexionConsola \/ salir
  <2>1. UNCHANGED <<tablas, hilo, cancelado, alKernel, deKernel, proceso, pidcounter, kernelVivo>>
    BY <1>1 DEF mostrarMenu, elegirOpcion, finalizarPrograma, desconectarConsola, TomaEjecuta,
                terminarDeDesconectar, desconexionConsola, salir, cancelacion, sockets, kernel
  <2>2. Corre' => Corre /\ abierto' = abierto
    BY <1>1 DEF mostrarMenu, elegirOpcion, finalizarPrograma, desconectarConsola, TomaEjecuta,
                terminarDeDesconectar, desconexionConsola, salir, Interfaz, sockets, control, Corre
  <2> QED BY <2>1, <2>2, Quieto
<1>2. CASE iniciarPrograma
  <2> DEFINE h == Min(SinUsar)
  <2>1. h \in Hilos /\ hilo[h].paso = "no"
    <3>1. SinUsar \in SUBSET Nat /\ SinUsar # {}
      BY <1>2, NumerosDeHilos DEF SinUsar, iniciarPrograma
    <3> QED BY <3>1, MinExiste DEF SinUsar
  <2>2. /\ hilo' = [hilo EXCEPT ![h].paso = "archivo"]
        /\ UNCHANGED <<tablas, cancelado, alKernel, deKernel, proceso, pidcounter, kernelVivo,
                       abierto, estado>>
    BY <1>2 DEF iniciarPrograma, cancelacion, sockets, kernel, control
  <2> HIDE DEF h
  <2>3. SoloPaso(h, "archivo")
    BY <2>1, <2>2, CambiaElPaso
  <2> QED BY <2>1, <2>2, <2>3, TerminaSinCerrar
<1>3. ASSUME NEW n \in PIDs, finalizarPID(n)
      PROVE  Todo'
  <2>1. CASE matrizHilos[n] = Nadie
    <3>1. matriz[n] = 0
      BY <2>1 DEF Inv, InvSockets, TablaConHilo
    <3> QED BY <1>3, <2>1, <3>1, Quieto
            DEF finalizarPID, CerrarConexion, Corre, tablas, cancelacion, kernel
  <2>2. CASE matrizHilos[n] # Nadie
    <3>1. /\ CerrarConexion(n) /\ pthread_cancel(matrizHilos[n]) /\ Corre
          /\ UNCHANGED <<matrizHilos, hilo, deKernel, kernel, estado>>
      BY <1>3, <2>2 DEF finalizarPID, Interfaz, Corre
    <3> QED BY <2>2, <3>1, CierraYCancela
  <2> QED BY <2>1, <2>2
<1>4. CASE desconectarPID
  <2> DEFINE n == interfaz.i
  <2>1. /\ n \in PIDs /\ CerrarConexion(n) /\ Corre
        /\ UNCHANGED <<matrizHilos, hilo, deKernel, kernel, estado>>
        /\ IF matriz[n] = 0 THEN UNCHANGED cancelacion ELSE pthread_cancel(matrizHilos[n])
    BY <1>4 DEF desconectarPID, Corre, control
  <2> HIDE DEF n
  <2>2. CASE matriz[n] = 0
    BY <2>1, <2>2, Quieto DEF CerrarConexion, Corre, tablas, cancelacion, kernel
  <2>3. CASE matriz[n] # 0
    <3>1. matrizHilos[n] # Nadie
      BY <2>1, <2>3 DEF Inv, InvSockets, TablaConHilo
    <3> QED BY <2>1, <2>3, <3>1, CierraYCancela
  <2> QED BY <2>2, <2>3
<1> QED BY <1>1, <1>2, <1>3, <1>4 DEF Interface

(* A thread connects: the descriptor was nobody's, and its script is the   *)
(* first thing it sends.                                                   *)
LEMMA ConectaTodo ==
  ASSUME Inv, Inv', Todo, NEW h \in Hilos, Arranca(h)
  PROVE  Todo'
<1>1. CASE sinArchivo(h)
  <2>1. /\ hilo[h].paso = "archivo" /\ hilo' = [hilo EXCEPT ![h].paso = "fin"]
        /\ UNCHANGED <<tablas, cancelado, alKernel, deKernel, proceso, pidcounter, kernelVivo,
                       abierto, estado>>
    BY <1>1 DEF sinArchivo, HiloEn, cancelacion, sockets, kernel, control
  <2>2. SoloPaso(h, "fin")
    BY <2>1, CambiaElPaso
  <2> QED BY <2>1, <2>2, TerminaSinCerrar
<1>2. CASE conectar(h) /\ ~kernelVivo
  <2>1. estado' = "salio"
    BY <1>2 DEF conectar
  <2> QED BY <1>2, <2>1, Quieto DEF conectar, Corre, cancelacion, kernel
<1>3. CASE conectar(h) /\ kernelVivo
  <2> DEFINE d == DescriptorLibre
             envio == t_paquete("ENVIAR_SCRIPT", 0)
  <2>0. InvHilos /\ InvTabla /\ InvKernel
    BY DEF Todo
  <2>1. d \in Hilos /\ abierto[d] = Nadie /\ hilo[h].paso = "archivo"
    BY <1>3, HayDescriptor DEF conectar, HiloEn
  <2>2. alKernel[h] = <<>> /\ proceso[h] = 0
    BY <2>0, <2>1 DEF InvHilos, SinConectar
  <2>3. /\ matriz' = matriz /\ matrizHilos' = matrizHilos /\ cancelado' = cancelado
        /\ deKernel' = deKernel /\ proceso' = proceso /\ pidcounter' = pidcounter
        /\ kernelVivo' = kernelVivo /\ estado' = estado /\ Corre
    BY <1>3 DEF conectar, HiloEn, tablas, cancelacion, kernel
  <2>4. \A g \in Hilos :
          /\ hilo'[g].paso = IF g = h THEN "pid" ELSE hilo[g].paso
          /\ hilo'[g].kernel = IF g = h THEN d ELSE hilo[g].kernel
          /\ hilo'[g].pid = hilo[g].pid /\ hilo'[g].op = hilo[g].op
    <3>1. hilo' = [hilo EXCEPT ![h].paso = "pid", ![h].kernel = d]
      BY <1>3 DEF conectar
    <3> HIDE DEF d
    <3> QED BY <3>1 DEF Inv, TypeOK, TipoHilos
  <2>5. \A e \in Hilos : abierto'[e] = IF e = d THEN h ELSE abierto[e]
    <3>1. abierto' = [abierto EXCEPT ![d] = h]
      BY <1>3 DEF conectar
    <3> HIDE DEF d
    <3> QED BY <2>1, <3>1 DEF Inv, TypeOK, TipoSockets
  <2>6. alKernel'[h] = <<envio>> /\ \A g \in Hilos : g # h => alKernel'[g] = alKernel[g]
    <3>1. alKernel' = [alKernel EXCEPT ![h] = Append(@, envio)]
      BY <1>3 DEF conectar
    <3> HIDE DEF envio
    <3> QED BY <2>2, <3>1 DEF Inv, TypeOK, TipoSockets
  <2>7. envio.op = "ENVIAR_SCRIPT"
    BY DEF t_paquete
  <2> HIDE DEF d, envio
  <2>8. DOMAIN alKernel'[h] = {1} /\ alKernel'[h][1] = envio
    BY <2>6
  <2>9. ScriptPendiente(h)' /\ \A g \in Hilos : g # h => ScriptPendiente(g)' = ScriptPendiente(g)
    BY <2>6, <2>7, <2>8 DEF ScriptPendiente
  <2>10. /\ \A n \in PIDs : matrizHilos[n] # Nadie => matrizHilos[n] \in Hilos /\ matrizHilos[n] # h
         /\ cancelado \subseteq Hilos /\ h \notin cancelado
    BY <2>0, <2>1 DEF Inv, TypeOK, TipoMenu, TipoCancelacion, InvHilos, PidDelHilo, CanceladoConPid
  <2>11. InvHilos'
    <3>1. PidDelHilo' /\ CanceladoConPid'
      BY <2>0, <2>3, <2>4, <2>10 DEF InvHilos, PidDelHilo, CanceladoConPid
    <3>2. SinConectar'
      BY <2>0, <2>3, <2>4, <2>6 DEF InvHilos, SinConectar
    <3>3. UnScript'
      BY <2>0, <2>2, <2>3, <2>6, <2>8 DEF InvHilos, UnScript
    <3>4. Atendidos \subseteq Atendidos'
      BY <2>1, <2>4, <2>9 DEF Atendidos
    <3> QED BY <2>0, <2>3, <3>1, <3>2, <3>3, <3>4, ContadosSiguen DEF InvHilos
  <2>12. InvTabla'
    <3> SUFFICES ASSUME SinRechazos' PROVE EntradaViva' /\ Propio' /\ EnOrden'
      BY DEF InvTabla
    <3>1. EntradaViva /\ Propio /\ EnOrden
      BY <2>0, <2>3 DEF InvTabla, SinRechazos
    <3>2. EnOrden'
      BY <2>1, <2>3, <2>4, <3>1 DEF EnOrden
    <3>3. EntradaViva'
      <4> SUFFICES ASSUME NEW n \in PIDs, matriz[n] # 0
                   PROVE  LET g == matrizHilos[n] IN
                          /\ hilo'[g].paso \in {"espera", "candado"} /\ g \notin cancelado
                          /\ hilo'[g].kernel = matriz[n] /\ abierto'[matriz[n]] = g
        BY <2>3 DEF EntradaViva
      <4> DEFINE g == matrizHilos[n]
      <4>1. /\ hilo[g].paso \in {"espera", "candado"} /\ g \notin cancelado
            /\ hilo[g].kernel = matriz[n] /\ abierto[matriz[n]] = g
        BY <3>1 DEF EntradaViva
      <4>2. g \in Hilos /\ g # h /\ g # Nadie /\ matriz[n] \in Hilos
        BY <2>10 DEF Inv, TypeOK, TipoMenu, InvSockets, TablaConHilo
      <4> QED BY <2>1, <2>4, <2>5, <4>1, <4>2
    <3>4. Propio'
      <4> SUFFICES ASSUME NEW g \in Hilos, hilo'[g].paso \in {"pid", "espera", "candado"},
                          g \notin cancelado
                   PROVE  abierto'[hilo'[g].kernel] = g
        BY <2>3 DEF Propio
      <4>1. CASE g = h
        BY <2>1, <2>4, <2>5, <4>1
      <4>2. CASE g # h
        <5>1. hilo[g].kernel \in Hilos /\ abierto[hilo[g].kernel] = g /\ g # Nadie
          BY <2>4, <3>1, <4>2, NumerosDeHilos DEF Propio, Inv, InvSockets, Conectado
        <5> QED BY <2>1, <2>4, <2>5, <4>2, <5>1
      <4> QED BY <4>1, <4>2
    <3> QED BY <3>2, <3>3, <3>4
  <2>13. InvKernel'
    <3> SUFFICES ASSUME SinRechazos', kernelVivo'
                 PROVE  (PidPrimero /\ PidsDistintos /\ ConEntrada /\ FinVerdadero /\ Avisados)'
      BY DEF InvKernel
    <3>1. SinRechazos
      BY <2>3 DEF SinRechazos
    <3>2. PidPrimero /\ PidsDistintos /\ ConEntrada /\ FinVerdadero /\ Avisados /\ EnOrden
      BY <1>3, <2>0, <3>1 DEF InvKernel, InvTabla
    <3>3. deKernel[h] = <<>>
      BY <2>1, <3>2 DEF PidPrimero
    <3>4. PidPrimero'
      BY <2>3, <2>4, <2>9, <3>2, <3>3 DEF PidPrimero
    <3>5. ConPid' = ConPid /\ h \notin ConPid /\ \A g \in ConPid : PidDado(g)' = PidDado(g)
      BY <2>1, <2>3, <2>4, <2>9 DEF ConPid, PidDado
    <3>6. PidsDistintos'
      BY <2>3, <3>2, <3>5 DEF PidsDistintos
    <3>7. ConEntrada' /\ FinVerdadero'
      BY <2>1, <2>3, <2>4, <3>2 DEF ConEntrada, FinVerdadero
    <3>8. Avisados'
      <4> SUFFICES ASSUME NEW g \in Hilos, g # h, hilo[g].paso = "fin" \/ g \in cancelado,
                          proceso[g] > 0
                   PROVE  Avisado(proceso[g])'
        BY <2>3, <2>4, <2>10 DEF Avisados, Avisado
      <4>1. PICK f \in Hilos : \E k \in DOMAIN alKernel[f] :
              alKernel[f][k] = t_paquete("FINALIZAR_PROGRAMA_DESDE_CONSOLA", proceso[g])
        BY <3>2 DEF Avisados, Avisado
      <4>2. f # h
        BY <2>2, <4>1
      <4> QED BY <2>3, <2>6, <4>1, <4>2 DEF Avisado
    <3> QED BY <3>4, <3>6, <3>7, <3>8
  <2> QED BY <2>11, <2>12, <2>13 DEF Todo
<1> QED BY <1>1, <1>2, <1>3 DEF Arranca

(* What is left in a queue was in it before, and not at its head if the    *)
(* head was taken.                                                         *)
LEMMA QuedaEnLaCola ==
  ASSUME NEW T, NEW q \in Seq(T), q # <<>>
  PROVE  /\ 1 \in DOMAIN q /\ Head(q) = q[1] /\ DOMAIN q \subseteq Nat
         /\ \A k \in DOMAIN Tail(q) : /\ k \in Nat /\ k + 1 \in DOMAIN q /\ k + 1 # 1
                                      /\ Tail(q)[k] = q[k + 1]
         /\ \A k \in DOMAIN q : k # 1 => \E j \in DOMAIN Tail(q) : Tail(q)[j] = q[k]
<1>1. Tail(q) \in Seq(T) /\ Len(Tail(q)) = Len(q) - 1 /\ Len(q) \in Nat /\ Len(q) # 0
      /\ DOMAIN q = 1 .. Len(q)
  OBVIOUS
<1>2. DOMAIN Tail(q) = 1 .. Len(q) - 1
  BY <1>1
<1>3. \A k \in 1 .. Len(q) - 1 : Tail(q)[k] = q[k + 1]
  OBVIOUS
<1>4. \A k \in DOMAIN q : k # 1 => k - 1 \in 1 .. Len(q) - 1 /\ (k - 1) + 1 = k
  BY <1>1
<1>5. 1 \in DOMAIN q /\ Head(q) = q[1] /\ DOMAIN q \subseteq Nat
  BY <1>1
<1> QED BY <1>1, <1>2, <1>3, <1>4, <1>5

(* While none is refused, what a thread receives came for it.              *)
LEMMA LeeLoSuyo ==
  ASSUME Inv, Todo, SinRechazos, Corre, NEW h \in Hilos,
         hilo[h].paso \in {"pid", "espera"}, h \notin cancelado, HayPaquete(h), LeePaquete(h)
  PROVE  /\ deKernel[h] # <<>> /\ Paquete(h) = Head(deKernel[h])
         /\ \A g \in Hilos : g # h => deKernel'[g] = deKernel[g]
         /\ deKernel'[h] = IF Paquete(h).op = "-1" THEN deKernel[h] ELSE Tail(deKernel[h])
         /\ Paquete(h) = deKernel[h][1] /\ 1 \in DOMAIN deKernel[h]
         /\ \A k \in DOMAIN deKernel'[h] : \E l \in DOMAIN deKernel[h] :
              deKernel'[h][k] = deKernel[h][l] /\ (l # 1 \/ Paquete(h).op = "-1")
<1>1. abierto[hilo[h].kernel] = h
  BY DEF Todo, InvTabla, Propio
<1>2. /\ deKernel[h] # <<>> /\ Paquete(h) = Head(deKernel[h])
      /\ \A g \in Hilos : g # h => deKernel'[g] = deKernel[g]
      /\ deKernel'[h] = IF Paquete(h).op = "-1" THEN deKernel[h] ELSE Tail(deKernel[h])
      /\ deKernel[h] \in Seq(Paquetes)
  BY <1>1 DEF HayPaquete, Paquete, LeePaquete, Inv, TypeOK, TipoSockets
<1>3. Paquete(h) = deKernel[h][1] /\ 1 \in DOMAIN deKernel[h]
  BY <1>2, QuedaEnLaCola
<1>4. ASSUME NEW k \in DOMAIN deKernel'[h]
      PROVE  \E l \in DOMAIN deKernel[h] :
               deKernel'[h][k] = deKernel[h][l] /\ (l # 1 \/ Paquete(h).op = "-1")
  <2>1. CASE Paquete(h).op = "-1"
    BY <1>2, <1>4, <2>1
  <2>2. CASE Paquete(h).op # "-1"
    <3>1. k \in DOMAIN Tail(deKernel[h]) /\ deKernel'[h][k] = Tail(deKernel[h])[k]
      BY <1>2, <1>4, <2>2
    <3>2. k + 1 \in DOMAIN deKernel[h] /\ k + 1 # 1 /\ Tail(deKernel[h])[k] = deKernel[h][k + 1]
      BY <1>2, <3>1, QuedaEnLaCola
    <3> QED BY <3>1, <3>2
  <2> QED BY <2>1, <2>2
<1> QED BY <1>2, <1>3, <1>4

(* The pid comes to the thread that asked for it, or the Kernel fell.       *)
LEMMA PidTodo ==
  ASSUME Inv, Inv', Todo, NEW h \in Hilos, recibirPID(h)
  PROVE  Todo'
<1> DEFINE paq == Paquete(h)
<1>0. InvHilos /\ InvTabla /\ InvKernel
  BY DEF Todo
<1>1. /\ Corre /\ hilo[h].paso = "pid" /\ HayPaquete(h) /\ LeePaquete(h)
      /\ cancelado' = cancelado /\ abierto' = abierto /\ alKernel' = alKernel
      /\ proceso' = proceso /\ pidcounter' = pidcounter /\ kernelVivo' = kernelVivo
      /\ estado' = estado
  BY DEF recibirPID, HiloEn, cancelacion, kernel, control
<1>2. h \notin cancelado /\ hilo[h].kernel \in Hilos
      /\ \A n \in PIDs : matrizHilos[n] # Nadie => matrizHilos[n] \in Hilos /\ matrizHilos[n] # h
  BY <1>0, <1>1 DEF InvHilos, CanceladoConPid, PidDelHilo, Inv, InvSockets, Conectado,
                    TypeOK, TipoMenu
<1>3. paq \in Paquetes
  BY <1>1, LeeTipo
<1>4. PICK n \in Nat :
        /\ hilo' = [hilo EXCEPT ![h].paso = "espera", ![h].pid = n]
        /\ \/ paq.op # "ENVIAR_PID" /\ UNCHANGED tablas
           \/ /\ paq.op = "ENVIAR_PID" /\ n = paq.pid
              /\ matriz' = [matriz EXCEPT ![n] = hilo[h].kernel]
              /\ matrizHilos' = [matrizHilos EXCEPT ![n] = h]
  <2>1. CASE paq.op = "ENVIAR_PID"
    <3>1. /\ hilo' = [hilo EXCEPT ![h].paso = "espera", ![h].pid = paq.pid]
          /\ matriz' = [matriz EXCEPT ![paq.pid] = hilo[h].kernel]
          /\ matrizHilos' = [matrizHilos EXCEPT ![paq.pid] = h]
      BY <2>1 DEF recibirPID
    <3>2. paq.pid \in Nat
      BY <1>3 DEF Paquetes
    <3> QED BY <2>1, <3>1, <3>2
  <2>2. CASE paq.op # "ENVIAR_PID"
    <3>1. PICK m \in PIDs : hilo' = [hilo EXCEPT ![h].paso = "espera", ![h].pid = m]
      BY <2>2 DEF recibirPID
    <3>2. UNCHANGED tablas /\ m \in Nat
      BY <2>2, NumerosDeHilos DEF recibirPID, PIDs
    <3> QED BY <2>2, <3>1, <3>2
  <2> QED BY <2>1, <2>2
<1>5. \A g \in Hilos :
        /\ hilo'[g].paso = IF g = h THEN "espera" ELSE hilo[g].paso
        /\ hilo'[g].pid = IF g = h THEN n ELSE hilo[g].pid
        /\ hilo'[g].kernel = hilo[g].kernel /\ hilo'[g].op = hilo[g].op
  BY <1>4 DEF Inv, TypeOK, TipoHilos
<1>6. \A m \in PIDs :
        \/ matriz'[m] = matriz[m] /\ matrizHilos'[m] = matrizHilos[m]
        \/ m = n /\ matriz'[m] = hilo[h].kernel /\ matrizHilos'[m] = h
  BY <1>4 DEF Inv, TypeOK, TipoMenu, tablas
<1> HIDE DEF paq
<1>7. InvHilos'
  <2>1. PidDelHilo'
    <3> SUFFICES ASSUME NEW m \in PIDs, matrizHilos'[m] # Nadie
                 PROVE  /\ hilo'[matrizHilos'[m]].pid = m
                        /\ hilo'[matrizHilos'[m]].paso \in {"espera", "candado", "fin"}
      BY DEF PidDelHilo
    <3> QED BY <1>0, <1>2, <1>5, <1>6 DEF InvHilos, PidDelHilo
  <2>2. CanceladoConPid' /\ SinConectar' /\ UnScript'
    BY <1>0, <1>1, <1>2, <1>5
       DEF InvHilos, CanceladoConPid, SinConectar, UnScript, Inv, TypeOK, TipoCancelacion
  <2>3. Atendidos \subseteq Atendidos'
    BY <1>1, <1>5 DEF Atendidos, ScriptPendiente
  <2> QED BY <1>0, <1>1, <2>1, <2>2, <2>3, ContadosSiguen DEF InvHilos
<1>8. ASSUME SinRechazos'
      PROVE  /\ SinRechazos /\ EntradaViva /\ Propio /\ EnOrden
             /\ deKernel[h] # <<>> /\ paq = Head(deKernel[h])
             /\ \A g \in Hilos : g # h => deKernel'[g] = deKernel[g]
             /\ paq = deKernel[h][1]
             /\ \A k \in DOMAIN deKernel'[h] : \E l \in DOMAIN deKernel[h] :
                  deKernel'[h][k] = deKernel[h][l] /\ (l # 1 \/ paq.op = "-1")
  <2>1. SinRechazos
    BY <1>1, <1>8 DEF SinRechazos
  <2>2. EntradaViva /\ Propio /\ EnOrden
    BY <1>0, <1>1, <2>1 DEF InvTabla
  <2> QED BY <1>1, <1>2, <2>1, <2>2, LeeLoSuyo DEF paq
<1>9. InvTabla'
  <2> SUFFICES ASSUME SinRechazos' PROVE EntradaViva' /\ Propio' /\ EnOrden'
    BY DEF InvTabla
  <2>1. EntradaViva /\ Propio /\ EnOrden
    BY <1>8
  <2>2. EntradaViva'
    <3> SUFFICES ASSUME NEW m \in PIDs, matriz'[m] # 0
                 PROVE  LET g == matrizHilos'[m] IN
                        /\ hilo'[g].paso \in {"espera", "candado"} /\ g \notin cancelado
                        /\ hilo'[g].kernel = matriz'[m] /\ abierto[matriz'[m]] = g
      BY <1>1 DEF EntradaViva
    <3>1. CASE m = n /\ matriz'[m] = hilo[h].kernel /\ matrizHilos'[m] = h
      BY <1>1, <1>2, <1>5, <2>1, <3>1 DEF Propio
    <3>2. CASE matriz'[m] = matriz[m] /\ matrizHilos'[m] = matrizHilos[m]
      <4> DEFINE g == matrizHilos[m]
      <4>1. /\ hilo[g].paso \in {"espera", "candado"} /\ g \notin cancelado
            /\ hilo[g].kernel = matriz[m] /\ abierto[matriz[m]] = g
        BY <2>1, <3>2 DEF EntradaViva
      <4>2. g \in Hilos /\ g # h
        BY <1>2, <3>2 DEF Inv, InvSockets, TablaConHilo
      <4> QED BY <1>5, <3>2, <4>1, <4>2
    <3> QED BY <1>6, <3>1, <3>2
  <2>3. Propio'
    BY <1>1, <1>2, <1>5, <2>1 DEF Propio
  <2>4. EnOrden'
    <3>1. ASSUME NEW k \in DOMAIN deKernel'[h]
          PROVE  deKernel'[h][k].op \in {"IMPRIMIR_CONSOLA", "FINALIZAR_PROGRAMA", "-1"}
      <4>1. PICK l \in DOMAIN deKernel[h] :
              deKernel'[h][k] = deKernel[h][l] /\ (l # 1 \/ paq.op = "-1")
        BY <1>8, <3>1
      <4>2. /\ deKernel[h][l].op \in {"ENVIAR_PID", "IMPRIMIR_CONSOLA", "FINALIZAR_PROGRAMA", "-1"}
            /\ deKernel[h][l].op = "ENVIAR_PID" => l = 1
        BY <2>1 DEF EnOrden
      <4>3. paq = deKernel[h][1]
        BY <1>8
      <4> QED BY <4>1, <4>2, <4>3
    <3> QED BY <1>5, <1>8, <2>1, <3>1 DEF EnOrden
  <2> QED BY <2>2, <2>3, <2>4
<1>10. InvKernel'
  <2> SUFFICES ASSUME SinRechazos', kernelVivo'
               PROVE  (PidPrimero /\ PidsDistintos /\ ConEntrada /\ FinVerdadero /\ Avisados)'
    BY DEF InvKernel
  <2>1. PidPrimero /\ PidsDistintos /\ ConEntrada /\ FinVerdadero /\ Avisados
    BY <1>0, <1>1, <1>8 DEF InvKernel
  <2>2. ~ScriptPendiente(h) /\ paq.op = "ENVIAR_PID"
    BY <1>1, <1>8, <2>1 DEF PidPrimero
  <2>3. \A g \in Hilos : ScriptPendiente(g)' = ScriptPendiente(g)
    BY <1>1 DEF ScriptPendiente
  <2>4. PidPrimero'
    BY <1>5, <1>8, <2>1, <2>2, <2>3 DEF PidPrimero
  <2>5. n = PidDado(h) /\ h \in ConPid
    BY <1>1, <1>4, <1>8, <2>2 DEF PidDado, ConPid
  <2>6. ConPid' = ConPid /\ \A g \in ConPid : g \in Hilos /\ PidDado(g)' = PidDado(g)
    <3>1. ConPid' = ConPid
      BY <1>1, <1>5, <2>2, <2>3 DEF ConPid
    <3>2. \A g \in Hilos : g # h => PidDado(g)' = PidDado(g)
      BY <1>5, <1>8 DEF PidDado
    <3>3. PidDado(h)' = n
      BY <1>5 DEF PidDado
    <3>4. ConPid \subseteq Hilos
      BY DEF ConPid
    <3> QED BY <2>5, <3>1, <3>2, <3>3, <3>4
  <2>7. PidsDistintos'
    BY <1>1, <2>1, <2>6 DEF PidsDistintos
  <2>8. n \in PIDs
    BY <2>1, <2>5 DEF PidsDistintos
  <2>9. ConEntrada'
    <3> SUFFICES ASSUME NEW g \in Hilos, hilo'[g].paso \in {"espera", "candado"}, g \notin cancelado
                 PROVE  /\ matriz'[hilo'[g].pid] = hilo'[g].kernel
                        /\ matrizHilos'[hilo'[g].pid] = g
      BY <1>1 DEF ConEntrada
    <3>1. CASE g = h
      <4>1. /\ matriz' = [matriz EXCEPT ![n] = hilo[h].kernel]
            /\ matrizHilos' = [matrizHilos EXCEPT ![n] = h]
        BY <1>4, <2>2
      <4>2. n \in DOMAIN matriz /\ n \in DOMAIN matrizHilos
        BY <2>8 DEF Inv, TypeOK, TipoMenu
      <4> QED BY <1>5, <3>1, <4>1, <4>2
    <3>2. CASE g # h
      <4>1. g \in ConPid /\ PidDado(g) = hilo[g].pid /\ hilo[g].pid \in PIDs
        BY <1>5, <2>1, <3>2 DEF ConPid, PidDado, PidsDistintos
      <4>2. hilo[g].pid # n
        BY <2>1, <2>5, <3>2, <4>1 DEF PidsDistintos
      <4>3. matriz[hilo[g].pid] = hilo[g].kernel /\ matrizHilos[hilo[g].pid] = g
        BY <1>5, <2>1, <3>2 DEF ConEntrada
      <4> QED BY <1>5, <1>6, <3>2, <4>1, <4>2, <4>3
    <3> QED BY <3>1, <3>2
  <2>10. FinVerdadero'
    <3>1. ASSUME NEW k \in DOMAIN deKernel'[h]
          PROVE  /\ deKernel'[h][k].op # "-1"
                 /\ deKernel'[h][k].op = "FINALIZAR_PROGRAMA" => proceso[h] = 0
      <4>1. PICK l \in DOMAIN deKernel[h] : deKernel'[h][k] = deKernel[h][l]
        BY <1>8, <3>1
      <4> QED BY <2>1, <4>1 DEF FinVerdadero
    <3> QED BY <1>1, <1>5, <1>8, <2>1, <3>1 DEF FinVerdadero
  <2>11. Avisados'
    BY <1>1, <1>2, <1>5, <2>1 DEF Avisados, Avisado
  <2> QED BY <2>4, <2>7, <2>9, <2>10, <2>11
<1> QED BY <1>7, <1>9, <1>10 DEF Todo


LEMMA RecibeTodo ==
  ASSUME Inv, Inv', Todo, NEW h \in Hilos, recibir(h)
  PROVE  Todo'
<1> DEFINE paq == Paquete(h)
<1>0. InvHilos /\ InvTabla /\ InvKernel
  BY DEF Todo
<1>1. /\ Corre /\ hilo[h].paso = "espera" /\ h \notin cancelado /\ HayPaquete(h) /\ LeePaquete(h)
      /\ matriz' = matriz /\ matrizHilos' = matrizHilos
      /\ cancelado' = cancelado /\ abierto' = abierto /\ alKernel' = alKernel
      /\ proceso' = proceso /\ pidcounter' = pidcounter /\ kernelVivo' = kernelVivo
      /\ estado' = estado
  BY DEF recibir, HiloEn, tablas, cancelacion, kernel, control
<1>2. \A g \in Hilos :
        /\ hilo'[g].paso = IF g = h THEN "candado" ELSE hilo[g].paso
        /\ hilo'[g].op = IF g = h THEN paq.op ELSE hilo[g].op
        /\ hilo'[g].kernel = hilo[g].kernel /\ hilo'[g].pid = hilo[g].pid
  <2>1. hilo' = [hilo EXCEPT ![h].paso = "candado", ![h].op = paq.op]
    BY DEF recibir
  <2> HIDE DEF paq
  <2> QED BY <2>1 DEF Inv, TypeOK, TipoHilos
<1> HIDE DEF paq
<1>3. /\ \A n \in PIDs : matrizHilos[n] # Nadie => matrizHilos[n] \in Hilos
      /\ cancelado \subseteq Hilos
  BY DEF Inv, TypeOK, TipoMenu, TipoCancelacion
<1>4. InvHilos'
  <2>1. PidDelHilo' /\ CanceladoConPid' /\ UnScript' /\ SinConectar'
    BY <1>0, <1>1, <1>2, <1>3
       DEF InvHilos, PidDelHilo, CanceladoConPid, UnScript, SinConectar
  <2>2. Atendidos \subseteq Atendidos'
    BY <1>1, <1>2 DEF Atendidos, ScriptPendiente
  <2> QED BY <1>0, <1>1, <2>1, <2>2, ContadosSiguen DEF InvHilos
<1>5. ASSUME SinRechazos'
      PROVE  /\ SinRechazos /\ EntradaViva /\ Propio /\ EnOrden
             /\ deKernel[h] # <<>> /\ paq = Head(deKernel[h])
             /\ \A g \in Hilos : g # h => deKernel'[g] = deKernel[g]
             /\ paq = deKernel[h][1] /\ 1 \in DOMAIN deKernel[h]
             /\ \A k \in DOMAIN deKernel'[h] : \E l \in DOMAIN deKernel[h] :
                  deKernel'[h][k] = deKernel[h][l] /\ (l # 1 \/ paq.op = "-1")
  <2>1. SinRechazos
    BY <1>1, <1>5 DEF SinRechazos
  <2>2. EntradaViva /\ Propio /\ EnOrden
    BY <1>0, <1>1, <2>1 DEF InvTabla
  <2> QED BY <1>1, <2>1, <2>2, LeeLoSuyo DEF paq
<1>6. InvTabla'
  <2> SUFFICES ASSUME SinRechazos' PROVE EntradaViva' /\ Propio' /\ EnOrden'
    BY DEF InvTabla
  <2>1. EntradaViva /\ Propio /\ EnOrden
    BY <1>5
  <2>2. EntradaViva'
    <3> SUFFICES ASSUME NEW n \in PIDs, matriz[n] # 0
                 PROVE  LET g == matrizHilos[n] IN
                        /\ hilo'[g].paso \in {"espera", "candado"} /\ g \notin cancelado
                        /\ hilo'[g].kernel = matriz[n] /\ abierto[matriz[n]] = g
      BY <1>1 DEF EntradaViva
    <3>1. matrizHilos[n] \in Hilos
      BY <1>3 DEF Inv, InvSockets, TablaConHilo
    <3> QED BY <1>2, <2>1, <3>1 DEF EntradaViva
  <2>3. Propio'
    BY <1>1, <1>2, <2>1 DEF Propio
  <2>4. EnOrden'
    <3>1. ASSUME NEW k \in DOMAIN deKernel'[h]
          PROVE  deKernel'[h][k].op \in {"IMPRIMIR_CONSOLA", "FINALIZAR_PROGRAMA", "-1"}
      <4>1. PICK l \in DOMAIN deKernel[h] : deKernel'[h][k] = deKernel[h][l]
        BY <1>5, <3>1
      <4> QED BY <1>1, <2>1, <4>1 DEF EnOrden
    <3>2. paq.op \in {"IMPRIMIR_CONSOLA", "FINALIZAR_PROGRAMA", "-1"}
      BY <1>1, <1>5 DEF EnOrden
    <3> QED BY <1>2, <1>5, <2>1, <3>1, <3>2 DEF EnOrden
  <2> QED BY <2>2, <2>3, <2>4
<1>7. InvKernel'
  <2> SUFFICES ASSUME SinRechazos', kernelVivo'
               PROVE  (PidPrimero /\ PidsDistintos /\ ConEntrada /\ FinVerdadero /\ Avisados)'
    BY DEF InvKernel
  <2>1. PidPrimero /\ PidsDistintos /\ ConEntrada /\ FinVerdadero /\ Avisados
    BY <1>0, <1>1, <1>5 DEF InvKernel
  <2>2. \A g \in Hilos : ScriptPendiente(g)' = ScriptPendiente(g)
    BY <1>1 DEF ScriptPendiente
  <2>3. PidPrimero'
    BY <1>1, <1>2, <1>5, <2>1, <2>2 DEF PidPrimero
  <2>4. ConPid' = ConPid /\ \A g \in ConPid : g \in Hilos /\ PidDado(g)' = PidDado(g)
    <3>1. ConPid' = ConPid
      BY <1>1, <1>2, <2>2 DEF ConPid
    <3>2. \A g \in Hilos : PidDado(g)' = PidDado(g)
      BY <1>1, <1>2, <1>5 DEF PidDado
    <3>3. ConPid \subseteq Hilos
      BY DEF ConPid
    <3> QED BY <3>1, <3>2, <3>3
  <2>5. PidsDistintos'
    BY <1>1, <2>1, <2>4 DEF PidsDistintos
  <2>6. ConEntrada'
    BY <1>1, <1>2, <2>1 DEF ConEntrada
  <2>7. FinVerdadero'
    <3>1. ASSUME NEW k \in DOMAIN deKernel'[h]
          PROVE  /\ deKernel'[h][k].op # "-1"
                 /\ deKernel'[h][k].op = "FINALIZAR_PROGRAMA" => proceso[h] = 0
      <4>1. PICK l \in DOMAIN deKernel[h] : deKernel'[h][k] = deKernel[h][l]
        BY <1>5, <3>1
      <4> QED BY <2>1, <4>1 DEF FinVerdadero
    <3>2. paq.op # "-1" /\ (paq.op = "FINALIZAR_PROGRAMA" => proceso[h] = 0)
      BY <1>5, <2>1 DEF FinVerdadero
    <3> QED BY <1>1, <1>2, <1>5, <2>1, <3>1, <3>2 DEF FinVerdadero
  <2>8. Avisados'
    BY <1>1, <1>2, <2>1 DEF Avisados, Avisado
  <2> QED BY <2>3, <2>5, <2>6, <2>7, <2>8
<1> QED BY <1>4, <1>6, <1>7 DEF Todo

(* The end of a program that was not cancelled: its process had ended, and  *)
(* both its descriptor and its entry are its own.                          *)
LEMMA FinTodo ==
  ASSUME Inv, Inv', Todo, NEW h \in Hilos, finDelPrograma(h)
  PROVE  Todo'
<1>0. InvHilos /\ InvTabla /\ InvKernel
  BY DEF Todo
<1>1. /\ Corre /\ hilo[h].paso = "candado" /\ h \notin cancelado /\ hilo[h].op # "IMPRIMIR_CONSOLA"
      /\ matrizHilos' = matrizHilos /\ cancelado' = cancelado /\ alKernel' = alKernel
      /\ deKernel' = deKernel /\ proceso' = proceso /\ pidcounter' = pidcounter
      /\ kernelVivo' = kernelVivo /\ estado' = estado
  BY DEF finDelPrograma, ConElMutex, HiloEn, cancelacion, kernel, control
<1>2. \A g \in Hilos :
        /\ hilo'[g].paso = IF g = h THEN "fin" ELSE hilo[g].paso
        /\ hilo'[g].pid = hilo[g].pid /\ hilo'[g].kernel = hilo[g].kernel /\ hilo'[g].op = hilo[g].op
  BY CambiaElPaso DEF finDelPrograma, SoloPaso
<1>3. /\ \A n \in PIDs : matrizHilos[n] # Nadie => matrizHilos[n] \in Hilos
      /\ cancelado \subseteq Hilos
  BY DEF Inv, TypeOK, TipoMenu, TipoCancelacion
<1>4. \A e \in Hilos : abierto'[e] = IF e = hilo[h].kernel THEN Nadie ELSE abierto[e]
  BY DEF finDelPrograma, Inv, TypeOK, TipoSockets
<1>5. \A n \in PIDs : matriz'[n] = matriz[n] \/ (n = hilo[h].pid /\ matriz'[n] = 0)
  BY DEF finDelPrograma, Inv, TypeOK, TipoMenu
<1>6. Olvida(hilo[h].op) => \A n \in PIDs : n = hilo[h].pid => matriz'[n] = 0
  BY DEF finDelPrograma, Inv, TypeOK, TipoMenu
<1>7. InvHilos'
  <2>1. PidDelHilo' /\ CanceladoConPid' /\ UnScript' /\ SinConectar'
    BY <1>0, <1>1, <1>2, <1>3
       DEF InvHilos, PidDelHilo, CanceladoConPid, UnScript, SinConectar
  <2>2. Atendidos \subseteq Atendidos'
    BY <1>1, <1>2 DEF Atendidos, ScriptPendiente
  <2> QED BY <1>0, <1>1, <2>1, <2>2, ContadosSiguen DEF InvHilos
<1>8. InvTabla'
  <2> SUFFICES ASSUME SinRechazos' PROVE EntradaViva' /\ Propio' /\ EnOrden'
    BY DEF InvTabla
  <2>1. EntradaViva /\ Propio /\ EnOrden
    BY <1>0, <1>1 DEF InvTabla, SinRechazos
  <2>2. Olvida(hilo[h].op)
    BY <1>1, <2>1 DEF EnOrden, Olvida
  <2>3. hilo[h].kernel \in Hilos /\ abierto[hilo[h].kernel] = h
    BY <1>1, <2>1 DEF Propio, Inv, InvSockets, Conectado
  <2>4. EntradaViva'
    <3> SUFFICES ASSUME NEW n \in PIDs, matriz'[n] # 0
                 PROVE  LET g == matrizHilos[n] IN
                        /\ hilo'[g].paso \in {"espera", "candado"} /\ g \notin cancelado
                        /\ hilo'[g].kernel = matriz'[n] /\ abierto'[matriz'[n]] = g
      BY <1>1 DEF EntradaViva
    <3> DEFINE g == matrizHilos[n]
    <3>1. matriz'[n] = matriz[n] /\ n # hilo[h].pid
      BY <1>5, <1>6, <2>2
    <3>2. g \in Hilos /\ g # Nadie /\ matriz[n] \in Hilos
      BY <1>3, <3>1 DEF Inv, InvSockets, TablaConHilo, TypeOK, TipoMenu
    <3>3. /\ hilo[g].paso \in {"espera", "candado"} /\ g \notin cancelado
          /\ hilo[g].kernel = matriz[n] /\ abierto[matriz[n]] = g
      BY <2>1, <3>1 DEF EntradaViva
    <3>4. g # h
      BY <1>0, <3>1, <3>2 DEF InvHilos, PidDelHilo
    <3> QED BY <1>2, <1>4, <2>3, <3>1, <3>2, <3>3, <3>4
  <2>5. Propio'
    <3> SUFFICES ASSUME NEW g \in Hilos, g # h,
                        hilo[g].paso \in {"pid", "espera", "candado"}, g \notin cancelado
                 PROVE  abierto'[hilo[g].kernel] = g
      BY <1>1, <1>2 DEF Propio
    <3>1. hilo[g].kernel \in Hilos /\ abierto[hilo[g].kernel] = g
      BY <2>1 DEF Propio, Inv, InvSockets, Conectado
    <3> QED BY <1>4, <2>3, <3>1
  <2>6. EnOrden'
    BY <1>1, <1>2, <2>1 DEF EnOrden
  <2> QED BY <2>4, <2>5, <2>6
<1>9. InvKernel'
  <2> SUFFICES ASSUME SinRechazos', kernelVivo'
               PROVE  (PidPrimero /\ PidsDistintos /\ ConEntrada /\ FinVerdadero /\ Avisados)'
    BY DEF InvKernel
  <2>1. PidPrimero /\ PidsDistintos /\ ConEntrada /\ FinVerdadero /\ Avisados /\ EnOrden
    BY <1>0, <1>1 DEF InvKernel, InvTabla, SinRechazos
  <2>2. \A g \in Hilos : ScriptPendiente(g)' = ScriptPendiente(g)
    BY <1>1 DEF ScriptPendiente
  <2>3. PidPrimero' /\ FinVerdadero'
    BY <1>1, <1>2, <2>1, <2>2 DEF PidPrimero, FinVerdadero
  <2>4. ConPid' \subseteq ConPid /\ \A g \in ConPid' : PidDado(g)' = PidDado(g)
    BY <1>1, <1>2, <2>2 DEF ConPid, PidDado
  <2>5. PidsDistintos'
    BY <1>1, <2>1, <2>4 DEF PidsDistintos
  <2>6. ConEntrada'
    <3> SUFFICES ASSUME NEW g \in Hilos, g # h, hilo[g].paso \in {"espera", "candado"},
                        g \notin cancelado
                 PROVE  /\ matriz'[hilo[g].pid] = hilo[g].kernel
                        /\ matrizHilos[hilo[g].pid] = g
      BY <1>1, <1>2 DEF ConEntrada
    <3>1. /\ matriz[hilo[g].pid] = hilo[g].kernel /\ matrizHilos[hilo[g].pid] = g
      BY <2>1 DEF ConEntrada
    <3>2. hilo[g].pid \in PIDs /\ hilo[g].pid # hilo[h].pid
      BY <1>1, <2>1 DEF PidsDistintos, ConPid, PidDado
    <3> QED BY <1>5, <3>1, <3>2
  <2>7. Avisados'
    <3>1. proceso[h] = 0
      BY <1>1, <2>1 DEF EnOrden, FinVerdadero
    <3> QED BY <1>1, <1>2, <2>1, <3>1 DEF Avisados, Avisado
  <2> QED BY <2>3, <2>5, <2>6, <2>7
<1> QED BY <1>7, <1>8, <1>9 DEF Todo

LEMMA HiloTodo ==
  ASSUME Inv, Inv', Todo, NEW h \in Hilos, Hilo(h)
  PROVE  Todo'
<1>1. CASE morirEnRecibir(h) \/ morirConElMutex(h)
  <2>1. /\ hilo[h].paso \in {"espera", "candado"} /\ h \in cancelado
        /\ hilo' = [hilo EXCEPT ![h].paso = "fin"]
        /\ UNCHANGED <<tablas, cancelado, alKernel, deKernel, proceso, pidcounter, kernelVivo,
                       abierto, estado>>
    BY <1>1 DEF morirEnRecibir, morirConElMutex, HiloEn, cancelacion, sockets, kernel, control
  <2>2. SoloPaso(h, "fin")
    BY <2>1, CambiaElPaso
  <2> QED BY <2>1, <2>2, TerminaSinCerrar
<1>2. CASE imprimir(h)
  <2>0. InvHilos /\ InvTabla /\ InvKernel
    BY DEF Todo
  <2>1. /\ hilo[h].paso = "candado" /\ Corre
        /\ matriz' = matriz /\ matrizHilos' = matrizHilos /\ cancelado' = cancelado
        /\ alKernel' = alKernel /\ deKernel' = deKernel /\ proceso' = proceso
        /\ pidcounter' = pidcounter /\ kernelVivo' = kernelVivo /\ abierto' = abierto
    BY <1>2 DEF imprimir, ConElMutex, HiloEn, tablas, cancelacion, sockets, kernel
  <2>2. CASE estado' = "cayo" /\ hilo' = hilo
    BY <2>1, <2>2, Quieto DEF Corre, tablas
  <2>3. CASE hilo' = [hilo EXCEPT ![h].paso = "espera"] /\ estado' = estado
    <3>1. \A g \in Hilos :
            /\ hilo'[g].paso = IF g = h THEN "espera" ELSE hilo[g].paso
            /\ hilo'[g].pid = hilo[g].pid /\ hilo'[g].kernel = hilo[g].kernel
            /\ hilo'[g].op = hilo[g].op
      BY <2>3, CambiaElPaso DEF SoloPaso
    <3>2. /\ \A n \in PIDs : matrizHilos[n] # Nadie => matrizHilos[n] \in Hilos
          /\ cancelado \subseteq Hilos
      BY DEF Inv, TypeOK, TipoMenu, TipoCancelacion
    <3>3. InvHilos'
      <4>1. PidDelHilo' /\ CanceladoConPid' /\ UnScript' /\ SinConectar'
        BY <2>0, <2>1, <3>1, <3>2
           DEF InvHilos, PidDelHilo, CanceladoConPid, UnScript, SinConectar
      <4>2. Atendidos \subseteq Atendidos'
        BY <2>1, <3>1 DEF Atendidos, ScriptPendiente
      <4> QED BY <2>0, <2>1, <4>1, <4>2, ContadosSiguen DEF InvHilos
    <3>4. InvTabla'
      <4> SUFFICES ASSUME SinRechazos' PROVE EntradaViva' /\ Propio' /\ EnOrden'
        BY DEF InvTabla
      <4>1. EntradaViva /\ Propio /\ EnOrden
        BY <2>0, <2>1 DEF InvTabla, SinRechazos
      <4>2. EntradaViva'
        <5> SUFFICES ASSUME NEW n \in PIDs, matriz[n] # 0
                     PROVE  LET g == matrizHilos[n] IN
                            /\ hilo'[g].paso \in {"espera", "candado"} /\ g \notin cancelado
                            /\ hilo'[g].kernel = matriz[n] /\ abierto[matriz[n]] = g
          BY <2>1 DEF EntradaViva
        <5>1. matrizHilos[n] \in Hilos
          BY <3>2 DEF Inv, InvSockets, TablaConHilo
        <5> QED BY <3>1, <4>1, <5>1 DEF EntradaViva
      <4>3. Propio' /\ EnOrden'
        BY <2>1, <3>1, <4>1 DEF Propio, EnOrden
      <4> QED BY <4>2, <4>3
    <3>5. InvKernel'
      <4> SUFFICES ASSUME SinRechazos', kernelVivo'
                   PROVE  (PidPrimero /\ PidsDistintos /\ ConEntrada /\ FinVerdadero /\ Avisados)'
        BY DEF InvKernel
      <4>1. PidPrimero /\ PidsDistintos /\ ConEntrada /\ FinVerdadero /\ Avisados
        BY <2>0, <2>1 DEF InvKernel, SinRechazos
      <4>2. \A g \in Hilos : ScriptPendiente(g)' = ScriptPendiente(g)
        BY <2>1 DEF ScriptPendiente
      <4>3. PidPrimero' /\ ConEntrada' /\ FinVerdadero'
        BY <2>1, <3>1, <4>1, <4>2 DEF PidPrimero, ConEntrada, FinVerdadero
      <4>4. ConPid' = ConPid /\ \A g \in ConPid : PidDado(g)' = PidDado(g)
        BY <2>1, <3>1, <4>2 DEF ConPid, PidDado
      <4>5. PidsDistintos'
        BY <2>1, <4>1, <4>4 DEF PidsDistintos
      <4>6. Avisados'
        BY <2>1, <3>1, <4>1 DEF Avisados, Avisado
      <4> QED BY <4>3, <4>5, <4>6
    <3> QED BY <3>3, <3>4, <3>5 DEF Todo
  <2> QED BY <1>2, <2>2, <2>3 DEF imprimir
<1>3. CASE recibirPID(h) \/ recibir(h) \/ finDelPrograma(h)
  BY <1>3, PidTodo, RecibeTodo, FinTodo
<1> QED BY <1>1, <1>2, <1>3 DEF Hilo

-----------------------------------------------------------------------------
(* The Kernel.                                                             *)

LEMMA UnPaqueteMas ==
  ASSUME NEW T, NEW q \in Seq(T), NEW x \in T
  PROVE  /\ \A k \in DOMAIN (q \o <<x>>) :
              (k \in DOMAIN q /\ (q \o <<x>>)[k] = q[k]) \/ (q \o <<x>>)[k] = x
         /\ q # <<>> => q \o <<x>> # <<>> /\ Head(q \o <<x>>) = Head(q)
         /\ q # <<>> => \A k \in DOMAIN (q \o <<x>>) :
              k = 1 => k \in DOMAIN q /\ (q \o <<x>>)[k] = q[k]
         /\ q = <<>> => q \o <<x>> = <<x>>
<1> DEFINE r == q \o <<x>>
<1>1. r \in Seq(T) /\ Len(r) = Len(q) + 1 /\ Len(q) \in Nat
      /\ DOMAIN q = 1 .. Len(q)
  OBVIOUS
<1>2. DOMAIN r = 1 .. Len(q) + 1
  BY <1>1
<1>3. (\A k \in 1 .. Len(q) : r[k] = q[k]) /\ r[Len(q) + 1] = x
  OBVIOUS
<1>4. q # <<>> => Len(q) # 0 /\ Head(q) = q[1] /\ Head(r) = r[1] /\ r # <<>>
  BY <1>1
<1>5. q = <<>> => r = <<x>>
  OBVIOUS
<1> HIDE DEF r
<1>6. \A k \in 1 .. Len(q) + 1 : k \in 1 .. Len(q) \/ k = Len(q) + 1
  BY <1>1
<1>7. \A k \in DOMAIN r : (k \in DOMAIN q /\ r[k] = q[k]) \/ r[k] = x
  BY <1>1, <1>2, <1>3, <1>6
<1>8. q # <<>> => 1 \in 1 .. Len(q)
  BY <1>1, <1>4
<1>9. q # <<>> => r # <<>> /\ Head(r) = Head(q)
  BY <1>3, <1>4, <1>8
<1>10. q # <<>> => \A k \in DOMAIN r : k = 1 => k \in DOMAIN q /\ r[k] = q[k]
  BY <1>1, <1>3, <1>8
<1> QED BY <1>5, <1>7, <1>9, <1>10 DEF r

(* A print, or the end, of a process that lives: its thread has or will    *)
(* have a pid, and the packet goes after it.                               *)
LEMMA KernelAvisa ==
  ASSUME Inv, Inv', Todo, NEW h \in Hilos, imprimirConsola(h) \/ finalizarProceso(h)
  PROVE  Todo'
<1>0. InvHilos /\ InvTabla /\ InvKernel
  BY DEF Todo
<1>1. /\ proceso[h] > 0 /\ kernelVivo
      /\ matriz' = matriz /\ matrizHilos' = matrizHilos /\ hilo' = hilo
      /\ cancelado' = cancelado /\ abierto' = abierto /\ alKernel' = alKernel
      /\ pidcounter' = pidcounter /\ kernelVivo' = kernelVivo /\ estado' = estado
  BY DEF imprimirConsola, finalizarProceso, Vive, tablas, cancelacion, control
<1>2. PICK q \in Paquetes :
        /\ deKernel' = [deKernel EXCEPT ![h] = @ \o <<q>>]
        /\ \/ q.op = "IMPRIMIR_CONSOLA" /\ proceso' = proceso
           \/ q.op = "FINALIZAR_PROGRAMA" /\ proceso' = [proceso EXCEPT ![h] = 0]
  <2>1. proceso[h] \in Nat
    BY <1>1 DEF Inv, TypeOK, TipoKernel
  <2>2. /\ t_paquete("IMPRIMIR_CONSOLA", proceso[h]) \in Paquetes
        /\ FinalizarPrograma(proceso[h]) \in Paquetes
        /\ t_paquete("IMPRIMIR_CONSOLA", proceso[h]).op = "IMPRIMIR_CONSOLA"
        /\ FinalizarPrograma(proceso[h]).op = "FINALIZAR_PROGRAMA"
    BY <2>1 DEF t_paquete, FinalizarPrograma, Paquetes, Ops
  <2> QED BY <2>2 DEF imprimirConsola, finalizarProceso, Manda, Termina
<1>3. /\ \A g \in Hilos : g # h => proceso'[g] = proceso[g]
      /\ proceso'[h] \in {proceso[h], 0} /\ (q.op = "FINALIZAR_PROGRAMA" => proceso'[h] = 0)
  BY <1>2 DEF Inv, TypeOK, TipoKernel
<1>4. /\ \A g \in Hilos : g # h => deKernel'[g] = deKernel[g]
      /\ deKernel'[h] = deKernel[h] \o <<q>> /\ deKernel[h] \in Seq(Paquetes)
  BY <1>2 DEF Inv, TypeOK, TipoSockets
<1>5. /\ \A k \in DOMAIN deKernel'[h] :
           (k \in DOMAIN deKernel[h] /\ deKernel'[h][k] = deKernel[h][k]) \/ deKernel'[h][k] = q
      /\ deKernel[h] # <<>> => deKernel'[h] # <<>> /\ Head(deKernel'[h]) = Head(deKernel[h])
  BY <1>4, UnPaqueteMas
<1>6. ~ScriptPendiente(h) /\ hilo[h].paso \notin {"no", "archivo"}
  BY <1>0, <1>1 DEF InvHilos, UnScript, SinConectar, ScriptPendiente
<1>7. SinRechazos' => SinRechazos
  BY <1>1, <1>3 DEF SinRechazos, Inv, TypeOK, TipoKernel
<1>8. \A g \in Hilos : ScriptPendiente(g)' = ScriptPendiente(g)
  BY <1>1 DEF ScriptPendiente
<1>9. InvHilos'
  <2>1. PidDelHilo' /\ CanceladoConPid' /\ SinConectar' /\ UnScript'
    BY <1>0, <1>1, <1>3, <1>6
       DEF InvHilos, PidDelHilo, CanceladoConPid, SinConectar, UnScript, ScriptPendiente
  <2>2. Atendidos' = Atendidos
    BY <1>1, <1>8 DEF Atendidos
  <2> QED BY <1>0, <1>1, <2>1, <2>2, ContadosSiguen DEF InvHilos
<1>10. InvTabla'
  <2>1. Corre' = Corre /\ EntradaViva' = EntradaViva /\ Propio' = Propio
    BY <1>1 DEF Corre, EntradaViva, Propio
  <2>2. EnOrden => EnOrden'
    BY <1>1, <1>2, <1>4, <1>5 DEF EnOrden
  <2> QED BY <1>0, <1>7, <2>1, <2>2 DEF InvTabla
<1>11. InvKernel'
  <2> SUFFICES ASSUME SinRechazos', kernelVivo'
               PROVE  (PidPrimero /\ PidsDistintos /\ ConEntrada /\ FinVerdadero /\ Avisados)'
    BY DEF InvKernel
  <2>1. PidPrimero /\ PidsDistintos /\ ConEntrada /\ FinVerdadero /\ Avisados
    BY <1>0, <1>1, <1>7 DEF InvKernel
  <2>2. PidPrimero'
    BY <1>1, <1>4, <1>5, <1>6, <1>8, <2>1 DEF PidPrimero
  <2>3. ConPid' = ConPid /\ \A g \in ConPid : g \in Hilos /\ PidDado(g)' = PidDado(g)
    <3>1. ConPid' = ConPid
      BY <1>1, <1>8 DEF ConPid
    <3>2. PidDado(h)' = PidDado(h)
      BY <1>1, <1>5, <1>6, <2>1 DEF PidDado, PidPrimero
    <3>3. \A g \in Hilos : g # h => PidDado(g)' = PidDado(g)
      BY <1>1, <1>4 DEF PidDado
    <3>4. ConPid \subseteq Hilos
      BY DEF ConPid
    <3> QED BY <3>1, <3>2, <3>3, <3>4
  <2>4. PidsDistintos'
    BY <1>1, <1>3, <2>1, <2>3 DEF PidsDistintos
  <2>5. ConEntrada'
    BY <1>1, <2>1 DEF ConEntrada
  <2>6. FinVerdadero'
    BY <1>1, <1>2, <1>3, <1>4, <1>5, <2>1 DEF FinVerdadero
  <2>7. Avisados'
    BY <1>1, <1>3, <2>1 DEF Avisados, Avisado
  <2> QED BY <2>2, <2>4, <2>5, <2>6, <2>7
<1> QED BY <1>9, <1>10, <1>11 DEF Todo

(* A notice is consumed: whoever had that pid ends.                        *)
LEMMA KernelMata ==
  ASSUME Inv, Inv', Todo, NEW h \in Hilos, finalizarProcesoPorPID(h)
  PROVE  Todo'
<1> DEFINE n == Head(alKernel[h]).pid
<1>0. InvHilos /\ InvTabla /\ InvKernel
  BY DEF Todo
<1>1. /\ alKernel[h] # <<>> /\ Head(alKernel[h]).op = "FINALIZAR_PROGRAMA_DESDE_CONSOLA"
      /\ matriz' = matriz /\ matrizHilos' = matrizHilos /\ hilo' = hilo
      /\ cancelado' = cancelado /\ abierto' = abierto /\ deKernel' = deKernel
      /\ pidcounter' = pidcounter /\ kernelVivo' = kernelVivo /\ estado' = estado
  BY DEF finalizarProcesoPorPID, tablas, cancelacion, control
<1>2. /\ \A g \in Hilos : g # h => alKernel'[g] = alKernel[g]
      /\ alKernel'[h] = Tail(alKernel[h]) /\ alKernel[h] \in Seq(Paquetes)
  BY DEF finalizarProcesoPorPID, Inv, TypeOK, TipoSockets
<1>3. /\ 1 \in DOMAIN alKernel[h] /\ Head(alKernel[h]) = alKernel[h][1]
      /\ DOMAIN alKernel[h] \subseteq Nat
      /\ \A k \in DOMAIN alKernel'[h] : /\ k \in Nat /\ k + 1 \in DOMAIN alKernel[h] /\ k + 1 # 1
                                        /\ alKernel'[h][k] = alKernel[h][k + 1]
      /\ \A k \in DOMAIN alKernel[h] : k # 1 =>
           \E j \in DOMAIN alKernel'[h] : alKernel'[h][j] = alKernel[h][k]
  <2>1. /\ 1 \in DOMAIN alKernel[h] /\ Head(alKernel[h]) = alKernel[h][1]
        /\ DOMAIN alKernel[h] \subseteq Nat
        /\ \A k \in DOMAIN Tail(alKernel[h]) :
             /\ k \in Nat /\ k + 1 \in DOMAIN alKernel[h] /\ k + 1 # 1
             /\ Tail(alKernel[h])[k] = alKernel[h][k + 1]
        /\ \A k \in DOMAIN alKernel[h] : k # 1 =>
             \E j \in DOMAIN Tail(alKernel[h]) : Tail(alKernel[h])[j] = alKernel[h][k]
    BY <1>1, <1>2, QuedaEnLaCola
  <2> QED BY <1>2, <2>1
<1>4. n \in Nat
  <2>1. Head(alKernel[h]) \in Paquetes
    BY <1>1, <1>2, HeadTailProperties
  <2> QED BY <2>1 DEF Paquetes
<1>5. \A g \in Hilos : proceso'[g] = IF proceso[g] = n THEN 0 ELSE proceso[g]
  BY DEF finalizarProcesoPorPID
<1> HIDE DEF n
<1>6. SinRechazos' => SinRechazos
  BY <1>4, <1>5 DEF SinRechazos, Inv, TypeOK, TipoKernel
<1>7. ~ScriptPendiente(h) /\ ~ScriptPendiente(h)'
  <2>1. \A k \in DOMAIN alKernel[h] : alKernel[h][k].op # "ENVIAR_SCRIPT"
    BY <1>0, <1>1, <1>3 DEF InvHilos, UnScript
  <2> QED BY <1>3, <2>1 DEF ScriptPendiente
<1>8. \A g \in Hilos : ScriptPendiente(g)' = ScriptPendiente(g)
  <2>1. \A g \in Hilos : g # h => ScriptPendiente(g)' = ScriptPendiente(g)
    BY <1>2 DEF ScriptPendiente
  <2>2. ScriptPendiente(h)' = ScriptPendiente(h)
    BY <1>7 DEF ScriptPendiente
  <2> QED BY <2>1, <2>2
<1>9. InvHilos'
  <2>1. PidDelHilo' /\ CanceladoConPid'
    BY <1>0, <1>1 DEF InvHilos, PidDelHilo, CanceladoConPid
  <2>2. SinConectar'
    BY <1>0, <1>1, <1>2, <1>5 DEF InvHilos, SinConectar
  <2>3. UnScript'
    <3> SUFFICES ASSUME NEW g \in Hilos, NEW k \in DOMAIN alKernel'[g],
                        alKernel'[g][k].op = "ENVIAR_SCRIPT"
                 PROVE  k = 1 /\ proceso'[g] = 0
      BY DEF UnScript
    <3>1. g # h
      BY <1>7 DEF ScriptPendiente
    <3> QED BY <1>0, <1>2, <1>5, <3>1 DEF InvHilos, UnScript
  <2>4. Atendidos' = Atendidos
    BY <1>1, <1>8 DEF Atendidos
  <2> QED BY <1>0, <1>1, <2>1, <2>2, <2>3, <2>4, ContadosSiguen DEF InvHilos
<1>10. InvTabla'
  <2>1. Corre' = Corre /\ EntradaViva' = EntradaViva /\ Propio' = Propio /\ EnOrden' = EnOrden
    BY <1>1 DEF Corre, EntradaViva, Propio, EnOrden
  <2> QED BY <1>0, <1>6, <2>1 DEF InvTabla
<1>11. InvKernel'
  <2> SUFFICES ASSUME SinRechazos', kernelVivo'
               PROVE  (PidPrimero /\ PidsDistintos /\ ConEntrada /\ FinVerdadero /\ Avisados)'
    BY DEF InvKernel
  <2>1. PidPrimero /\ PidsDistintos /\ ConEntrada /\ FinVerdadero /\ Avisados
    BY <1>0, <1>1, <1>6 DEF InvKernel
  <2>2. PidPrimero' /\ ConEntrada'
    BY <1>1, <1>8, <2>1 DEF PidPrimero, ConEntrada
  <2>3. ConPid' = ConPid /\ \A g \in ConPid : g \in Hilos /\ PidDado(g)' = PidDado(g)
    BY <1>1, <1>8 DEF ConPid, PidDado
  <2>4. PidsDistintos' /\ FinVerdadero'
    BY <1>1, <1>5, <2>1, <2>3 DEF PidsDistintos, FinVerdadero
  <2>5. Avisados'
    <3> SUFFICES ASSUME NEW g \in Hilos, hilo[g].paso = "fin" \/ g \in cancelado, proceso'[g] > 0
                 PROVE  Avisado(proceso[g])'
      BY <1>1, <1>5 DEF Avisados, Avisado
    <3>1. proceso'[g] = proceso[g] /\ proceso[g] # n
      BY <1>5
    <3>2. PICK f \in Hilos : \E k \in DOMAIN alKernel[f] :
            alKernel[f][k] = t_paquete("FINALIZAR_PROGRAMA_DESDE_CONSOLA", proceso[g])
      BY <2>1, <3>1 DEF Avisados, Avisado
    <3>3. PICK k \in DOMAIN alKernel[f] :
            alKernel[f][k] = t_paquete("FINALIZAR_PROGRAMA_DESDE_CONSOLA", proceso[g])
      BY <3>2
    <3>4. ~(f = h /\ k = 1)
      BY <1>3, <3>1, <3>3 DEF t_paquete, n
    <3>5. \E j \in DOMAIN alKernel'[f] : alKernel'[f][j] = alKernel[f][k]
      <4>1. CASE f = h
        <5>1. k \in DOMAIN alKernel[h] /\ k # 1
          BY <3>3, <3>4, <4>1
        <5> QED BY <1>3, <4>1, <5>1
      <4>2. CASE f # h
        <5>1. alKernel'[f] = alKernel[f]
          BY <1>2, <4>2
        <5> QED BY <3>3, <5>1
      <4> QED BY <4>1, <4>2
    <3> QED BY <3>1, <3>3, <3>5 DEF Avisado
  <2> QED BY <2>2, <2>4, <2>5
<1> QED BY <1>9, <1>10, <1>11 DEF Todo

(* A script is attended to: its thread gets a pid nobody had.              *)
LEMMA KernelAtiende ==
  ASSUME Inv, Inv', Todo, NEW h \in Hilos, nuevoProgramaAnsisop(h)
  PROVE  Todo'
<1> DEFINE n == pidcounter
           dado == t_paquete("ENVIAR_PID", n)
<1>0. InvHilos /\ InvTabla /\ InvKernel
  BY DEF Todo
<1>1. /\ kernelVivo /\ alKernel[h] # <<>> /\ Head(alKernel[h]).op = "ENVIAR_SCRIPT"
      /\ matriz' = matriz /\ matrizHilos' = matrizHilos /\ hilo' = hilo
      /\ cancelado' = cancelado /\ abierto' = abierto
      /\ pidcounter' = n + 1 /\ kernelVivo' = kernelVivo /\ estado' = estado
  BY DEF nuevoProgramaAnsisop, tablas, cancelacion, control
<1>2. /\ \A g \in Hilos : g # h => alKernel'[g] = alKernel[g]
      /\ alKernel'[h] = Tail(alKernel[h]) /\ alKernel[h] \in Seq(Paquetes)
  BY DEF nuevoProgramaAnsisop, Inv, TypeOK, TipoSockets
<1>3. /\ 1 \in DOMAIN alKernel[h] /\ Head(alKernel[h]) = alKernel[h][1]
      /\ DOMAIN alKernel[h] \subseteq Nat
      /\ \A k \in DOMAIN alKernel'[h] : /\ k \in Nat /\ k + 1 \in DOMAIN alKernel[h] /\ k + 1 # 1
                                        /\ alKernel'[h][k] = alKernel[h][k + 1]
      /\ \A k \in DOMAIN alKernel[h] : k # 1 =>
           \E j \in DOMAIN alKernel'[h] : alKernel'[h][j] = alKernel[h][k]
  <2>1. /\ 1 \in DOMAIN alKernel[h] /\ Head(alKernel[h]) = alKernel[h][1]
        /\ DOMAIN alKernel[h] \subseteq Nat
        /\ \A k \in DOMAIN Tail(alKernel[h]) :
             /\ k \in Nat /\ k + 1 \in DOMAIN alKernel[h] /\ k + 1 # 1
             /\ Tail(alKernel[h])[k] = alKernel[h][k + 1]
        /\ \A k \in DOMAIN alKernel[h] : k # 1 =>
             \E j \in DOMAIN Tail(alKernel[h]) : Tail(alKernel[h])[j] = alKernel[h][k]
    BY <1>1, <1>2, QuedaEnLaCola
  <2> QED BY <1>2, <2>1
<1>4. ScriptPendiente(h) /\ ~ScriptPendiente(h)'
      /\ \A g \in Hilos : g # h => ScriptPendiente(g)' = ScriptPendiente(g)
  <2>1. ScriptPendiente(h)
    BY <1>1, <1>3 DEF ScriptPendiente
  <2>2. ~ScriptPendiente(h)'
    BY <1>0, <1>3 DEF InvHilos, UnScript, ScriptPendiente
  <2>3. \A g \in Hilos : g # h => ScriptPendiente(g)' = ScriptPendiente(g)
    BY <1>2 DEF ScriptPendiente
  <2> QED BY <2>1, <2>2, <2>3
<1>5. proceso[h] = 0 /\ hilo[h].paso \notin {"no", "archivo"}
      /\ n \in Nat /\ n >= 1
  BY <1>0, <1>1, <1>3 DEF InvHilos, UnScript, SinConectar, PidsContados, Inv, TypeOK, TipoKernel
<1>6. \/ Manda(h, <<dado>>) /\ proceso' = [proceso EXCEPT ![h] = n]
      \/ proceso' = [proceso EXCEPT ![h] = -n]
  BY DEF nuevoProgramaAnsisop
<1>7. \A g \in Hilos : g # h => proceso'[g] = proceso[g]
  BY <1>6 DEF Inv, TypeOK, TipoKernel
<1>8. /\ h \notin Atendidos /\ Atendidos' = Atendidos \cup {h}
      /\ IsFiniteSet(Atendidos) /\ Cardinality(Atendidos) \in Nat
      /\ Cardinality(Atendidos') = Cardinality(Atendidos) + 1
      /\ Cardinality(Atendidos') <= MaxHilos
  <2>1. h \notin Atendidos /\ Atendidos' = Atendidos \cup {h}
    BY <1>1, <1>4, <1>5 DEF Atendidos
  <2>2. Atendidos \subseteq Hilos /\ Atendidos' \subseteq Hilos
    BY DEF Atendidos
  <2>3. IsFiniteSet(Atendidos) /\ Cardinality(Atendidos) \in Nat
    BY <2>2, NumerosDeHilos, FS_Subset, FS_CardinalityType
  <2>4. Cardinality(Hilos) = MaxHilos
    <3>1. 1 \in Int /\ MaxHilos \in Int /\ MaxHilos >= 1
      BY NumerosDeHilos
    <3> QED BY <3>1, FS_Interval DEF Hilos
  <2>5. Cardinality(Atendidos') <= Cardinality(Hilos)
    BY <2>2, NumerosDeHilos, FS_Subset
  <2> QED BY <2>1, <2>3, <2>4, <2>5, FS_AddElement
<1>9. n <= MaxHilos /\ n \in PIDs
  <2>1. n <= 1 + Cardinality(Atendidos)
    BY <1>0 DEF InvHilos, PidsContados
  <2>2. MaxHilos < MAXPID
    BY ConsolaAssumption
  <2> QED BY <1>5, <1>8, <2>1, <2>2, NumerosDeHilos DEF PIDs
<1> HIDE DEF n
<1>10. InvHilos'
  <2>1. PidDelHilo' /\ CanceladoConPid'
    BY <1>0, <1>1 DEF InvHilos, PidDelHilo, CanceladoConPid
  <2>2. SinConectar'
    BY <1>0, <1>1, <1>2, <1>5, <1>7 DEF InvHilos, SinConectar
  <2>3. UnScript'
    <3> SUFFICES ASSUME NEW g \in Hilos, NEW k \in DOMAIN alKernel'[g],
                        alKernel'[g][k].op = "ENVIAR_SCRIPT"
                 PROVE  k = 1 /\ proceso'[g] = 0
      BY DEF UnScript
    <3>1. g # h
      BY <1>4 DEF ScriptPendiente
    <3> QED BY <1>0, <1>2, <1>7, <3>1 DEF InvHilos, UnScript
  <2>4. PidsContados'
    <3>1. n <= 1 + Cardinality(Atendidos)
      BY <1>0 DEF InvHilos, PidsContados, n
    <3> QED BY <1>1, <1>5, <1>8, <3>1 DEF PidsContados
  <2> QED BY <2>1, <2>2, <2>3, <2>4 DEF InvHilos
<1>11. ASSUME SinRechazos'
       PROVE  /\ SinRechazos /\ EnOrden /\ (Corre => EntradaViva /\ Propio)
              /\ PidPrimero /\ PidsDistintos /\ ConEntrada /\ FinVerdadero /\ Avisados
              /\ hilo[h].paso = "pid"
              /\ deKernel'[h] = <<dado>> /\ \A g \in Hilos : g # h => deKernel'[g] = deKernel[g]
              /\ proceso'[h] = n
  <2>1. SinRechazos
    BY <1>5, <1>7, <1>11 DEF SinRechazos
  <2>2. /\ EnOrden /\ (Corre => EntradaViva /\ Propio)
        /\ PidPrimero /\ PidsDistintos /\ ConEntrada /\ FinVerdadero /\ Avisados
    BY <1>0, <1>1, <2>1 DEF InvTabla, InvKernel
  <2>3. hilo[h].paso = "pid" /\ deKernel[h] = <<>>
    BY <1>4, <2>2 DEF PidPrimero
  <2>4. ~(proceso' = [proceso EXCEPT ![h] = -n])
    BY <1>5, <1>11 DEF SinRechazos, Inv, TypeOK, TipoKernel
  <2>5. Manda(h, <<dado>>) /\ proceso' = [proceso EXCEPT ![h] = n]
    BY <1>6, <2>4
  <2>6. deKernel'[h] = deKernel[h] \o <<dado>> /\ \A g \in Hilos : g # h => deKernel'[g] = deKernel[g]
    <3> HIDE DEF dado
    <3> QED BY <2>5 DEF Manda, Inv, TypeOK, TipoSockets
  <2>7. deKernel'[h] = <<dado>>
    <3> HIDE DEF dado
    <3> QED BY <2>3, <2>6
  <2>8. proceso'[h] = n
    BY <2>5 DEF Inv, TypeOK, TipoKernel
  <2> QED BY <2>1, <2>2, <2>3, <2>6, <2>7, <2>8
<1>12. dado.op = "ENVIAR_PID" /\ dado.pid = n
  BY DEF t_paquete
<1> HIDE DEF dado
<1>13. ASSUME SinRechazos'
       PROVE  DOMAIN deKernel'[h] = {1} /\ deKernel'[h][1] = dado
              /\ deKernel'[h] # <<>> /\ Head(deKernel'[h]) = dado
  BY <1>11, <1>13, SMTT(90)
<1>14. InvTabla'
  <2> SUFFICES ASSUME SinRechazos' PROVE (Corre' => EntradaViva' /\ Propio') /\ EnOrden'
    BY DEF InvTabla
  <2>1. Corre' = Corre /\ EntradaViva' = EntradaViva /\ Propio' = Propio
    BY <1>1 DEF Corre, EntradaViva, Propio
  <2>2. EnOrden'
    BY <1>1, <1>11, <1>12, <1>13 DEF EnOrden
  <2> QED BY <1>11, <2>1, <2>2
<1>15. InvKernel'
  <2> SUFFICES ASSUME SinRechazos', kernelVivo'
               PROVE  (PidPrimero /\ PidsDistintos /\ ConEntrada /\ FinVerdadero /\ Avisados)'
    BY DEF InvKernel
  <2>1. PidPrimero /\ PidsDistintos /\ ConEntrada /\ FinVerdadero /\ Avisados
    BY <1>11
  <2>2. PidPrimero'
    BY <1>1, <1>4, <1>5, <1>11, <1>12, <1>13, <2>1 DEF PidPrimero
  <2>3. ConPid' = ConPid \cup {h} /\ ConPid \subseteq Hilos /\ h \notin ConPid
    BY <1>1, <1>4, <1>11 DEF ConPid
  <2>4. PidDado(h)' = n /\ \A g \in ConPid : PidDado(g)' = PidDado(g)
    <3>1. PidDado(h)' = n
      BY <1>1, <1>11, <1>12, <1>13 DEF PidDado
    <3>2. \A g \in Hilos : g # h => PidDado(g)' = PidDado(g)
      BY <1>1, <1>11 DEF PidDado
    <3> QED BY <2>3, <3>1, <3>2
  <2>5. PidsDistintos'
    <3>1. \A g \in ConPid : PidDado(g) \in PIDs /\ PidDado(g) < n
                            /\ (proceso[g] > 0 => proceso[g] = PidDado(g)) /\ g # h
      BY <2>1, <2>3 DEF PidsDistintos, n
    <3>2. \A g \in ConPid' : PidDado(g)' \in PIDs /\ PidDado(g)' < pidcounter'
                             /\ (proceso'[g] > 0 => proceso'[g] = PidDado(g)')
      <4>1. \A m \in PIDs : m < n => m < n + 1
        BY <1>5, NumerosDeHilos DEF PIDs
      <4>2. \A g \in ConPid : PidDado(g)' = PidDado(g) /\ proceso'[g] = proceso[g]
        BY <1>7, <2>3, <2>4, <3>1
      <4>3. \A g \in ConPid : PidDado(g)' \in PIDs /\ PidDado(g)' < n + 1
                              /\ (proceso'[g] > 0 => proceso'[g] = PidDado(g)')
        BY <3>1, <4>1, <4>2
      <4>4. PidDado(h)' \in PIDs /\ PidDado(h)' < n + 1 /\ proceso'[h] = PidDado(h)'
        BY <1>5, <1>9, <1>11, <2>4
      <4> QED BY <1>1, <2>3, <4>3, <4>4
    <3>3. \A f, g \in ConPid : PidDado(f) = PidDado(g) => f = g
      BY <2>1 DEF PidsDistintos
    <3>4. \A g \in ConPid : PidDado(g) # n
      BY <1>5, <3>1, NumerosDeHilos DEF PIDs
    <3>5. \A f, g \in ConPid' : PidDado(f)' = PidDado(g)' => f = g
      BY <2>3, <2>4, <3>3, <3>4
    <3> QED BY <3>2, <3>5 DEF PidsDistintos
  <2>6. ConEntrada'
    BY <1>1, <2>1 DEF ConEntrada
  <2>7. FinVerdadero'
    BY <1>1, <1>7, <1>11, <1>12, <1>13, <2>1 DEF FinVerdadero
  <2>8. Avisados'
    <3>0. hilo[h].paso = "pid" /\ h \notin cancelado
      BY <1>0, <1>11 DEF InvHilos, CanceladoConPid
    <3> SUFFICES ASSUME NEW g \in Hilos, g # h, hilo[g].paso = "fin" \/ g \in cancelado,
                        proceso[g] > 0
                 PROVE  Avisado(proceso[g])'
      BY <1>1, <1>7, <3>0 DEF Avisados, Avisado
    <3>1. g # h
      OBVIOUS
    <3>2. PICK f \in Hilos : \E k \in DOMAIN alKernel[f] :
            alKernel[f][k] = t_paquete("FINALIZAR_PROGRAMA_DESDE_CONSOLA", proceso[g])
      BY <1>7, <2>1, <3>1 DEF Avisados, Avisado
    <3>3. PICK k \in DOMAIN alKernel[f] :
            alKernel[f][k] = t_paquete("FINALIZAR_PROGRAMA_DESDE_CONSOLA", proceso[g])
      BY <3>2
    <3>4. ~(f = h /\ k = 1)
      BY <1>1, <1>3, <3>3 DEF t_paquete
    <3>5. \E j \in DOMAIN alKernel'[f] : alKernel'[f][j] = alKernel[f][k]
      <4>1. CASE f = h
        <5>1. k \in DOMAIN alKernel[h] /\ k # 1
          BY <3>3, <3>4, <4>1
        <5> QED BY <1>3, <4>1, <5>1
      <4>2. CASE f # h
        <5>1. alKernel'[f] = alKernel[f]
          BY <1>2, <4>2
        <5> QED BY <3>3, <5>1
      <4> QED BY <4>1, <4>2
    <3> QED BY <1>7, <3>1, <3>3, <3>5 DEF Avisado
  <2> QED BY <2>2, <2>5, <2>6, <2>7, <2>8
<1> QED BY <1>10, <1>14, <1>15 DEF Todo

(* The Kernel falls: every connection ends. *)
LEMMA KernelCaeTodo ==
  ASSUME Inv, Inv', Todo, caeKernel
  PROVE  Todo'
<1> DEFINE q == t_paquete("-1", 0)
<1>0. InvHilos /\ InvTabla
  BY DEF Todo
<1>1. /\ matriz' = matriz /\ matrizHilos' = matrizHilos /\ hilo' = hilo
      /\ cancelado' = cancelado /\ abierto' = abierto /\ alKernel' = alKernel
      /\ proceso' = proceso /\ pidcounter' = pidcounter /\ kernelVivo' = FALSE /\ estado' = estado
  BY DEF caeKernel, tablas, cancelacion, control
<1>2. InvHilos'
  <2>1. PidDelHilo' /\ CanceladoConPid' /\ SinConectar' /\ UnScript'
    BY <1>0, <1>1 DEF InvHilos, PidDelHilo, CanceladoConPid, SinConectar, UnScript
  <2>2. Atendidos' = Atendidos
    BY <1>1 DEF Atendidos, ScriptPendiente
  <2> QED BY <1>0, <1>1, <2>1, <2>2, ContadosSiguen DEF InvHilos
<1>3. InvTabla'
  <2>1. Corre' = Corre /\ EntradaViva' = EntradaViva /\ Propio' = Propio /\ SinRechazos' = SinRechazos
    BY <1>1 DEF Corre, EntradaViva, Propio, SinRechazos
  <2>2. q \in Paquetes /\ q.op = "-1"
    BY DEF t_paquete, Paquetes, Ops
  <2>3. \A g \in Hilos : deKernel'[g] = Append(deKernel[g], q) /\ deKernel[g] \in Seq(Paquetes)
    BY DEF caeKernel, Inv, TypeOK, TipoSockets
  <2> HIDE DEF q
  <2>4. \A g \in Hilos : \A k \in DOMAIN deKernel'[g] :
          (k \in DOMAIN deKernel[g] /\ deKernel'[g][k] = deKernel[g][k]) \/ deKernel'[g][k] = q
    <3> SUFFICES ASSUME NEW g \in Hilos, NEW k \in DOMAIN deKernel'[g]
                 PROVE  \/ k \in DOMAIN deKernel[g] /\ deKernel'[g][k] = deKernel[g][k]
                        \/ deKernel'[g][k] = q
      OBVIOUS
    <3> QED BY <2>2, <2>3, AppendProperties
  <2>5. EnOrden => EnOrden'
    BY <1>1, <2>2, <2>4 DEF EnOrden
  <2> QED BY <1>0, <2>1, <2>5 DEF InvTabla
<1>4. InvKernel'
  BY <1>1 DEF InvKernel
<1> QED BY <1>2, <1>3, <1>4 DEF Todo

LEMMA PasoTodo == Inv /\ Inv' /\ Todo /\ [Next]_vars => Todo'
<1> SUFFICES ASSUME Inv, Inv', Todo, [Next]_vars
             PROVE  Todo'
  OBVIOUS
<1>1. CASE Interface
  BY <1>1, MenuTodo
<1>2. ASSUME NEW h \in Hilos, Arranca(h) \/ Hilo(h)
      PROVE  Todo'
  BY <1>2, ConectaTodo, HiloTodo
<1>3. ASSUME NEW h \in Hilos, Atiende(h) \/ imprimirConsola(h) \/ finalizarProceso(h)
      PROVE  Todo'
  BY <1>3, KernelAtiende, KernelMata, KernelAvisa DEF Atiende
<1>4. CASE caeKernel
  BY <1>4, KernelCaeTodo
<1>5. CASE UNCHANGED vars
  BY <1>5, Quieto DEF vars, tablas, cancelacion, sockets, kernel, control, Corre
<1> QED BY <1>1, <1>2, <1>3, <1>4, <1>5 DEF Next

LEMMA TodoConsola == Spec => []Todo
<1>1. Init => Todo
  BY TodoInicial
<1>2. Inv /\ Inv' /\ Todo /\ [Next]_vars => Todo'
  BY PasoTodo
<1> QED BY <1>1, <1>2, InvConsola, PTL DEF Spec

-----------------------------------------------------------------------------
(* The tables, the threads, the sockets and what the Kernel knows keep     *)
(* their types: the system always has a descriptor to give (conectar).     *)
THEOREM TipoCorrecto == Spec => []TypeOK
<1>1. Inv => TypeOK
  BY DEF Inv
<1> QED BY <1>1, InvConsola, PTL

(* Two programs never start at once, however the menu, the signal, the     *)
(* cancellations and the Kernel interleave: the global nomArchi, archivo   *)
(* and script have one user (interfaceUsuario.c:24, hiloPrograma.c:72).    *)
THEOREM ArrancaUnoSolo == Spec => []UnoSoloArranca
<1>1. Inv => UnoSoloArranca
  <2> SUFFICES ASSUME Inv PROVE UnoSoloArranca
    OBVIOUS
  <2>1. Arrancan \in SUBSET {mutexEjecuta}
    BY DEF Inv, InvMutex, MutexDelQueArranca, Arrancan
  <2>2. IsFiniteSet({mutexEjecuta}) /\ Cardinality({mutexEjecuta}) = 1
    BY FS_Singleton
  <2>3. Cardinality(Arrancan) <= Cardinality({mutexEjecuta})
    BY <2>1, <2>2, FS_Subset
  <2> QED BY <2>2, <2>3 DEF UnoSoloArranca
<1> QED BY <1>1, InvConsola, PTL

(* While the Kernel refuses no program, what the menu would close and      *)
(* cancel for a pid is the descriptor and the thread of that program, its  *)
(* own and open (interfaceUsuario.c:53-103, hiloPrograma.c:133-178),        *)
(* however threads end, are cancelled or lose the Kernel.                  *)
THEOREM TablaCorrecta == Spec => []TablaAlDia
<1>1. Inv /\ Todo => TablaAlDia
  <2> SUFFICES ASSUME Inv, Todo, SinRechazos, Corre, NEW n \in PIDs, matriz[n] # 0
               PROVE  LET h == matrizHilos[n] IN
                      /\ hilo[h].paso \in {"espera", "candado"} /\ hilo[h].pid = n
                      /\ hilo[h].kernel = matriz[n] /\ abierto[matriz[n]] = h
    BY DEF TablaAlDia
  <2>1. matrizHilos[n] # Nadie
    BY DEF Inv, InvSockets, TablaConHilo
  <2> QED BY <2>1 DEF Todo, InvHilos, PidDelHilo, InvTabla, EntradaViva
<1> QED BY <1>1, InvConsola, TodoConsola, PTL

(* And no program whose thread is gone is left running without the Kernel  *)
(* having been told: a thread ends after its process did, or after the     *)
(* menu that cancelled it sent the notice on its own connection            *)
(* (interfaceUsuario.c:73 and 101).                                        *)
THEOREM NingunHuerfano == Spec => []SinHuerfanos
<1>1. Todo => SinHuerfanos
  BY DEF Todo, InvKernel, Avisados, SinHuerfanos
<1> QED BY <1>1, TodoConsola, PTL
=============================================================================
