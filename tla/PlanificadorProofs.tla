------------------------ MODULE PlanificadorProofs ------------------------
(***************************************************************************)
(* Theorems about Planificador, for any set of programs, CPUs and          *)
(* semaphores, any degree, quantum and algorithm: where each process is,   *)
(* what may be in a socket, that its semaphores exclude, that the degree   *)
(* of multiprogramming is respected and counted exactly, and that it       *)
(* implements the life cycle of CicloDeVida, step by step; and, with what  *)
(* CierreCPU adds to it, that no unit of its semaphores is lost.           *)
(***************************************************************************)
EXTENDS PlanificadorRefina, CierreCPU, ColasProofs, FiniteSetTheorems

-----------------------------------------------------------------------------
(* Typing.                                                                 *)

(* A part of the state that a step leaves alone keeps its type. *)
LEMMA Marco ==
  ASSUME TypeOK
  PROVE  /\ UNCHANGED colas => TipoColas'
         /\ UNCHANGED <<libres, sem_ready>> => TipoLibres'
         /\ UNCHANGED semaforos => TipoSemaforos'
         /\ UNCHANGED <<cuenta, mutex_config, caido>> => TipoCuenta'
         /\ UNCHANGED <<procesos, programas>> => TipoProcesos'
         /\ UNCHANGED red => TipoRed'
         /\ UNCHANGED hilo => TipoHilos'
         /\ UNCHANGED planif => TipoPlanif'
         /\ UNCHANGED cpu => TipoCPUs'
<1>1. UNCHANGED colas => TipoColas'
  BY DEF TypeOK, TipoColas, colas
<1>2. UNCHANGED <<libres, sem_ready>> => TipoLibres'
  BY DEF TypeOK, TipoLibres, libres
<1>3. UNCHANGED semaforos => TipoSemaforos'
  BY DEF TypeOK, TipoSemaforos, semaforos
<1>4. UNCHANGED <<cuenta, mutex_config, caido>> => TipoCuenta'
  BY DEF TypeOK, TipoCuenta, cuenta, contadores
<1>5. UNCHANGED <<procesos, programas>> => TipoProcesos'
  BY DEF TypeOK, TipoProcesos, procesos, programas
<1>6. UNCHANGED red => TipoRed'
  BY DEF TypeOK, TipoRed, red
<1>7. UNCHANGED hilo => TipoHilos'
  BY DEF TypeOK, TipoHilos
<1>8. UNCHANGED planif => TipoPlanif'
  BY DEF TypeOK, TipoPlanif
<1>9. UNCHANGED cpu => TipoCPUs'
  BY DEF TypeOK, TipoCPUs
<1> QED BY <1>1, <1>2, <1>3, <1>4, <1>5, <1>6, <1>7, <1>8, <1>9

(* A thread that goes on to a well-formed state keeps the threads typed. *)
LEMMA SigueTipo ==
  ASSUME TipoHilos, NEW h \in Hilos, NEW H, TipoHilo(H), Sigue(h, H)
  PROVE  TipoHilos'
<1>1. DOMAIN hilo' = Hilos
  BY DEF TipoHilos, Sigue
<1>2. ASSUME NEW g \in Hilos
      PROVE  TipoHilo(hilo'[g])
  BY DEF TipoHilos, Sigue
<1> QED BY <1>1, <1>2 DEF TipoHilos

(* Only the step changes. *)
LEMMA IrATipo ==
  ASSUME TipoHilos, NEW h \in Hilos, NEW p \in PasosHilo, IrA(h, p),
         p \in {"listo", "pide", "pidePCB", "exit", "cpuDe", "fin"} =>
             hilo[h].proc \in Procesos,
         p \in {"cpu", "pide", "pidePCB", "cpuSem", "libera"} => hilo[h].cpu \in CPUs,
         p \in {"pide", "pidePCB", "libera"} => hilo[h].sem \in Semaforos
  PROVE  TipoHilos'
<1>1. TipoHilo(hilo[h])
  BY DEF TipoHilos
<1>2. TipoHilo([hilo[h] EXCEPT !.paso = p])
  BY <1>1 DEF TipoHilo
<1>3. Sigue(h, [hilo[h] EXCEPT !.paso = p])
  BY DEF IrA, Sigue
<1> QED BY <1>2, <1>3, SigueTipo

(* Back to select, or on to what the handler left for the end. *)
LEMMA TerminaTipo ==
  ASSUME TipoHilos, NEW h \in Hilos, Termina(h) \/ VuelveASelect(h)
  PROVE  TipoHilos'
<1>1. TipoHilo(Reposo)
  BY DEF TipoHilo, Reposo, PasosHilo
<1>2. CASE VuelveASelect(h)
  BY <1>1, <1>2, SigueTipo DEF VuelveASelect
<1>3. CASE hilo[h].luego # "select" /\ IrA(h, hilo[h].luego)
  <2>1. TipoHilo(hilo[h])
    BY DEF TipoHilos
  <2>2. /\ hilo[h].luego \in {"cpu", "archivo"}
        /\ hilo[h].luego = "cpu" => hilo[h].cpu \in CPUs
    BY <1>3, <2>1 DEF TipoHilo
  <2>3. hilo[h].luego \in PasosHilo
    BY <2>2 DEF PasosHilo
  <2> QED BY <1>3, <2>2, <2>3, IrATipo
<1> QED BY <1>2, <1>3 DEF Termina

(* The kernel stops: nothing else changes. *)
LEMMA CaeTipo ==
  ASSUME TypeOK, Cae
  PROVE  TypeOK'
<1>1. TipoCuenta'
  BY DEF TypeOK, TipoCuenta, Cae, cuenta, contadores
<1> QED BY <1>1, Marco DEF TypeOK, Cae

(* The main thread, from the program that arrives to its admission. *)
LEMMA AdmisionTipo ==
  ASSUME TypeOK,
         \/ \E c \in CPUs : nuevoClienteCPU(c)
         \/ \E t \in Procesos : nuevoProgramaAnsisop(t)
         \/ rechazarPorGrado \/ pedirMemoria \/ admitir \/ newVacia
  PROVE  TypeOK'
<1> USE "principal" \in Hilos DEF Hilos
<1>1. ASSUME NEW c \in CPUs, nuevoClienteCPU(c)
      PROVE  TypeOK'
  <2>1. TipoLibres'
    BY <1>1, AppendProperties DEF TypeOK, TipoLibres, nuevoClienteCPU, encolarCPU
  <2>2. TipoCPUs'
    BY <1>1 DEF TypeOK, TipoCPUs, TipoCPU, PasosCPU, nuevoClienteCPU
  <2> QED BY <1>1, <2>1, <2>2, Marco DEF TypeOK, nuevoClienteCPU
<1>2. ASSUME NEW t \in Procesos, nuevoProgramaAnsisop(t)
      PROVE  TypeOK'
  <2>1. TipoColas'
    BY <1>2, AppendProperties DEF TypeOK, TipoColas, nuevoProgramaAnsisop
  <2>2. TipoProcesos'
    BY <1>2 DEF TypeOK, TipoProcesos, nuevoProgramaAnsisop, programas
  <2>3. TipoHilo([Reposo EXCEPT !.paso = "grado", !.proc = t])
    BY DEF TipoHilo, Reposo, PasosHilo
  <2>4. TipoHilos'
    BY <1>2, <2>3, SigueTipo DEF TypeOK, nuevoProgramaAnsisop
  <2> QED BY <1>2, <2>1, <2>2, <2>4, Marco DEF TypeOK, nuevoProgramaAnsisop
<1>3. ASSUME rechazarPorGrado \/ admitir
      PROVE  TypeOK'
  <2>1. Head(cola_new) \in Procesos /\ TipoColas'
    BY <1>3, HeadTailProperties DEF TypeOK, TipoColas, rechazarPorGrado, admitir
  <2>2. TipoCuenta'
    BY <1>3 DEF TypeOK, TipoCuenta, rechazarPorGrado, admitir
  <2>3. /\ TipoHilo([Reposo EXCEPT !.paso = "exit", !.proc = Head(cola_new)])
        /\ TipoHilo([Reposo EXCEPT !.paso = "listo", !.proc = Head(cola_new)])
    BY <2>1 DEF TipoHilo, Reposo, PasosHilo
  <2>4. TipoHilos'
    BY <1>3, <2>3, SigueTipo DEF TypeOK, rechazarPorGrado, admitir
  <2> QED BY <1>3, <2>1, <2>2, <2>4, Marco DEF TypeOK, rechazarPorGrado, admitir
<1>4. ASSUME pedirMemoria
      PROVE  TypeOK'
  <2>1. TipoHilos'
    BY <1>4, IrATipo DEF TypeOK, pedirMemoria, PasosHilo
  <2> QED BY <1>4, <2>1, Marco DEF TypeOK, pedirMemoria
<1>5. ASSUME newVacia
      PROVE  TypeOK'
  BY <1>5, CaeTipo DEF newVacia
<1> QED BY <1>1, <1>2, <1>3, <1>4, <1>5

(* The steps that end a handler. *)
LEMMA CompartidoTipo ==
  ASSUME TypeOK, NEW h \in Hilos, PasoCompartido(h)
  PROVE  TypeOK'
<1>h. TipoHilo(hilo[h])
  BY DEF TypeOK, TipoHilos
<1>1. ASSUME encolarReady(h)
      PROVE  TypeOK'
  <2>1. hilo[h].proc \in Procesos
    BY <1>1, <1>h DEF TipoHilo, encolarReady, EnPaso
  <2>2. TipoColas'
    BY <1>1, <2>1, AppendProperties DEF TypeOK, TipoColas, encolarReady, alReady
  <2>3. TipoLibres'
    BY <1>1 DEF TypeOK, TipoLibres, encolarReady, alReady, libres
  <2>4. TipoHilos'
    BY <1>1, TerminaTipo DEF TypeOK, encolarReady
  <2> QED BY <1>1, <2>2, <2>3, <2>4, Marco DEF TypeOK, encolarReady
<1>2. ASSUME devolverCPU(h)
      PROVE  TypeOK'
  <2>1. hilo[h].cpu \in CPUs
    BY <1>2, <1>h DEF TipoHilo, devolverCPU, EnPaso
  <2>2. TipoLibres'
    BY <1>2, <2>1, AppendProperties
      DEF TypeOK, TipoLibres, devolverCPU, encolarCPU
  <2>3. TipoHilos'
    BY <1>2, TerminaTipo DEF TypeOK, devolverCPU
  <2> QED BY <1>2, <2>2, <2>3, Marco DEF TypeOK, devolverCPU
<1>3. ASSUME finalizarEnExit(h)
      PROVE  TypeOK'
  <2>1. hilo[h].proc \in Procesos
    BY <1>3, <1>h DEF TipoHilo, finalizarEnExit, EnPaso
  <2>2. TipoColas'
    BY <1>3, <2>1, AppendProperties DEF TypeOK, TipoColas, finalizarEnExit
  <2>3. TipoHilos'
    BY <1>3, <2>1, IrATipo DEF TypeOK, finalizarEnExit, PasosHilo
  <2> QED BY <1>3, <2>2, <2>3, Marco DEF TypeOK, finalizarEnExit
<1>4. ASSUME finalizarLiberaCPU(h)
      PROVE  TypeOK'
  <2>1. hilo[h].proc \in Procesos
    BY <1>4, <1>h DEF TipoHilo, finalizarLiberaCPU, EnPaso
  <2>2. socketCPU[hilo[h].proc] \in CPUs \cup {Nulo}
    BY <2>1 DEF TypeOK, TipoProcesos
  <2>3. TipoLibres'
    BY <1>4, <2>2, AppendProperties
    DEF TypeOK, TipoLibres, finalizarLiberaCPU, TieneCPU, encolarCPU, libres
  <2>4. TipoHilos'
    BY <1>4, <2>1, IrATipo DEF TypeOK, finalizarLiberaCPU, PasosHilo
  <2> QED BY <1>4, <2>3, <2>4, Marco DEF TypeOK, finalizarLiberaCPU
<1>5. ASSUME finalizarDescuenta(h)
      PROVE  TypeOK'
  <2>1. TipoCuenta'
    BY <1>5 DEF TypeOK, TipoCuenta, finalizarDescuenta
  <2>2. TipoHilos'
    BY <1>5, TerminaTipo DEF TypeOK, finalizarDescuenta
  <2> QED BY <1>5, <2>1, <2>2, Marco DEF TypeOK, finalizarDescuenta
<1> QED BY <1>1, <1>2, <1>3, <1>4, <1>5 DEF PasoCompartido

(* What a handler finds: the packet is a packet, and the process is one. *)
LEMMA LlegoTipo ==
  ASSUME TypeOK, NEW c \in CPUs, NEW ops, Llego(c, ops)
  PROVE  /\ Head(aKernel[c]) \in PaquetesAKernel
         /\ Head(aKernel[c]).op \in ops
         /\ UNCHANGED aCPU /\ Consume(c) => TipoRed'
<1>1. aKernel[c] \in Seq(PaquetesAKernel) /\ aKernel[c] # <<>>
  BY DEF TypeOK, TipoRed, Llego
<1>2. Head(aKernel[c]) \in PaquetesAKernel /\ Tail(aKernel[c]) \in Seq(PaquetesAKernel)
  BY <1>1, HeadTailProperties
<1>3. UNCHANGED aCPU /\ Consume(c) => TipoRed'
  BY <1>2 DEF TypeOK, TipoRed, Consume
<1> QED BY <1>2, <1>3 DEF Llego

(* The process found in exec is one, and so is what is left there. *)
LEMMA ProcesoTipo ==
  ASSUME TypeOK, NEW c, obtenerProcesoSocketCPU(c) # Nulo
  PROVE  /\ obtenerProcesoSocketCPU(c) \in Procesos
         /\ \A p : eliminarProcesoDeCola(cola_exec, p) \in Seq(Procesos)
<1>1. cola_exec \in Seq(Procesos)
  BY DEF TypeOK, TipoColas
<1>2. obtenerProcesoSocketCPU(c) \in Procesos
  BY <1>1, PrimeroTipo DEF obtenerProcesoSocketCPU, ConSocket
<1>3. \A p : eliminarProcesoDeCola(cola_exec, p) \in Seq(Procesos)
  BY <1>1, SinPrimeroTipo DEF eliminarProcesoDeCola
<1> QED BY <1>2, <1>3

(* The handlers of the CPUs' packets. *)
LEMMA ManejadoresTipo ==
  ASSUME TypeOK,
         \/ \E c \in CPUs : \/ pideSemaforo(c) \/ liberarSemaforo(c) \/ finQuantum(c)
                            \/ finalizarProgramaKernel(c) \/ paqueteSinCaso(c)
                            \/ sinProceso(c)
         \/ pideSemaforoOK \/ pideSemaforoFallo \/ bloqueoSemaforo
         \/ devolverCPUBloqueado \/ liberarSemaforoUnidad
  PROVE  TypeOK'
<1> USE "principal" \in Hilos DEF Hilos
<1> DEFINE H == hilo["principal"]
<1>h. TipoHilo(H)
  BY DEF TypeOK, TipoHilos
<1>1. ASSUME NEW c \in CPUs, pideSemaforo(c)
      PROVE  TypeOK'
  <2> DEFINE t == obtenerProcesoSocketCPU(c)
             E == [Reposo EXCEPT !.paso = "pide", !.proc = t, !.cpu = c,
                                 !.sem = Head(aKernel[c]).dato]
  <2>1. t \in Procesos /\ TipoColas'
    BY <1>1, ProcesoTipo DEF TypeOK, TipoColas, pideSemaforo
  <2>2. /\ Head(aKernel[c]) \in PaquetesAKernel
        /\ Head(aKernel[c]).op \in {"PEDIR_SEMAFORO"}
        /\ TipoRed'
    BY <1>1, LlegoTipo DEF pideSemaforo
  <2>3. Head(aKernel[c]).dato \in Semaforos
    BY <2>2 DEF PaquetesAKernel, OpsSemaforo, OpsAKernel, OpsFin, OpsAborto
  <2>4. TipoHilo(E)
    BY <2>1, <2>3 DEF TipoHilo, Reposo, PasosHilo
  <2>5. TipoHilos'
    BY <1>1, <2>4, SigueTipo DEF TypeOK, pideSemaforo
  <2> QED BY <1>1, <2>1, <2>2, <2>5, Marco DEF TypeOK, pideSemaforo
<1>2. ASSUME NEW c \in CPUs, liberarSemaforo(c)
      PROVE  TypeOK'
  <2>1. /\ Head(aKernel[c]) \in PaquetesAKernel
        /\ Head(aKernel[c]).op \in {"LIBERAR_SEMAFORO"}
        /\ TipoRed'
    BY <1>2, LlegoTipo DEF liberarSemaforo
  <2>2. Head(aKernel[c]).dato \in Semaforos
    BY <2>1 DEF PaquetesAKernel, OpsSemaforo, OpsAKernel, OpsFin, OpsAborto
  <2>3. TipoHilo([Reposo EXCEPT !.paso = "libera", !.cpu = c,
                                !.sem = Head(aKernel[c]).dato])
    BY <2>2 DEF TipoHilo, Reposo, PasosHilo
  <2>4. TipoHilos'
    BY <1>2, <2>3, SigueTipo DEF TypeOK, liberarSemaforo
  <2> QED BY <1>2, <2>1, <2>4, Marco DEF TypeOK, liberarSemaforo
<1>3. ASSUME NEW c \in CPUs, finQuantum(c)
      PROVE  TypeOK'
  <2> DEFINE t == obtenerProcesoSocketCPU(c)
  <2>1. t \in Procesos /\ TipoColas'
    BY <1>3, ProcesoTipo DEF TypeOK, TipoColas, finQuantum
  <2>2. /\ Head(aKernel[c]) \in PaquetesAKernel
        /\ Head(aKernel[c]).op \in {"FIN_QUANTUM"}
        /\ TipoRed'
    BY <1>3, LlegoTipo DEF finQuantum
  <2>3. Head(aKernel[c]).dato \in Procesos
    BY <2>2 DEF PaquetesAKernel, OpsSemaforo, OpsAborto
  <2>4. TipoProcesos'
    BY <1>3, <2>1, <2>3 DEF TypeOK, TipoProcesos, finQuantum, programas
  <2>5. TipoHilo([Reposo EXCEPT !.paso = "listo", !.proc = t, !.cpu = c,
                                !.luego = "cpu"])
    BY <2>1 DEF TipoHilo, Reposo, PasosHilo
  <2>6. TipoHilos'
    BY <1>3, <2>5, SigueTipo DEF TypeOK, finQuantum
  <2> QED BY <1>3, <2>1, <2>2, <2>4, <2>6, Marco DEF TypeOK, finQuantum
<1>4. ASSUME NEW c \in CPUs, finalizarProgramaKernel(c)
      PROVE  TypeOK'
  <2> DEFINE t == obtenerProcesoSocketCPU(c)
  <2>1. t \in Procesos /\ TipoColas'
    BY <1>4, ProcesoTipo DEF TypeOK, TipoColas, finalizarProgramaKernel
  <2>2. TipoRed'
    BY <1>4, LlegoTipo DEF finalizarProgramaKernel
  <2>3. TipoHilo([Reposo EXCEPT !.paso = "exit", !.proc = t])
    BY <2>1 DEF TipoHilo, Reposo, PasosHilo
  <2>4. TipoHilos'
    BY <1>4, <2>3, SigueTipo DEF TypeOK, finalizarProgramaKernel
  <2> QED BY <1>4, <2>1, <2>2, <2>4, Marco DEF TypeOK, finalizarProgramaKernel
<1>5. ASSUME NEW c \in CPUs, paqueteSinCaso(c)
      PROVE  TypeOK'
  <2>1. TipoRed'
    BY <1>5, LlegoTipo DEF paqueteSinCaso
  <2> QED BY <1>5, <2>1, Marco DEF TypeOK, paqueteSinCaso, kernel
<1>6. ASSUME NEW c \in CPUs, sinProceso(c)
      PROVE  TypeOK'
  BY <1>6, CaeTipo DEF sinProceso
<1>7. ASSUME pideSemaforoOK
      PROVE  TypeOK'
  <2>1. H.proc \in Procesos /\ H.cpu \in CPUs /\ H.sem \in Semaforos
    BY <1>7, <1>h DEF TipoHilo, pideSemaforoOK, EnPaso
  <2>2. TipoColas'
    BY <1>7, <2>1, AppendProperties DEF TypeOK, TipoColas, pideSemaforoOK
  <2>3. TipoSemaforos'
    BY <1>7, <2>1 DEF TypeOK, TipoSemaforos, pideSemaforoOK, HayUnidades
  <2>4. t_paquete("PEDIDO_SEMAFORO_OK", Nulo) \in PaquetesACPU
    BY DEF t_paquete, PaquetesACPU, OpsACPU
  <2>5. TipoRed'
    BY <1>7, <2>1, <2>4, AppendProperties DEF TypeOK, TipoRed, pideSemaforoOK
  <2>6. TipoHilos'
    BY <1>7, TerminaTipo DEF TypeOK, pideSemaforoOK
  <2> QED BY <1>7, <2>2, <2>3, <2>5, <2>6, Marco DEF TypeOK, pideSemaforoOK
<1>8. ASSUME pideSemaforoFallo
      PROVE  TypeOK'
  <2>1. H.proc \in Procesos /\ H.cpu \in CPUs /\ H.sem \in Semaforos
    BY <1>8, <1>h DEF TipoHilo, pideSemaforoFallo, EnPaso
  <2>2. TipoCuenta'
    BY <1>8 DEF TypeOK, TipoCuenta, pideSemaforoFallo, cuenta, contadores
  <2>3. t_paquete("PEDIDO_SEMAFORO_FALLO", Nulo) \in PaquetesACPU
    BY DEF t_paquete, PaquetesACPU, OpsACPU
  <2>4. TipoRed'
    BY <1>8, <2>1, <2>3, AppendProperties DEF TypeOK, TipoRed, pideSemaforoFallo
  <2>5. TipoHilos'
    BY <1>8, <2>1, IrATipo DEF TypeOK, pideSemaforoFallo, PasosHilo
  <2> QED BY <1>8, <2>2, <2>4, <2>5, Marco DEF TypeOK, pideSemaforoFallo
<1>9. ASSUME bloqueoSemaforo, Head(aKernel[H.cpu]).op \in OpsConPCB
      PROVE  TypeOK'
  <2>0. bloquear(H)
    BY <1>9 DEF bloqueoSemaforo
  <2>1. H.proc \in Procesos /\ H.cpu \in CPUs /\ H.sem \in Semaforos
    BY <1>9, <1>h DEF TipoHilo, bloqueoSemaforo, EnPaso
  <2>2. /\ Head(aKernel[H.cpu]) \in PaquetesAKernel
        /\ Tail(aKernel[H.cpu]) \in Seq(PaquetesAKernel)
    BY <1>9, <2>1, HeadTailProperties DEF TypeOK, TipoRed, bloqueoSemaforo
  <2>3. Head(aKernel[H.cpu]).dato \in Procesos \cup {Nulo}
    BY <1>9, <2>2 DEF PaquetesAKernel, OpsSemaforo, OpsConPCB, OpsAborto
  <2>4. TipoRed'
    BY <2>0, <2>1, <2>2 DEF TypeOK, TipoRed, bloquear, Consume
  <2>5. TipoProcesos'
    BY <2>0, <2>1, <2>3 DEF TypeOK, TipoProcesos, bloquear, programas
  <2>6. TipoSemaforos'
    BY <2>0, <2>1, AppendProperties DEF TypeOK, TipoSemaforos, bloquear
  <2>7. TipoColas'
    BY <2>0, <2>1, AppendProperties DEF TypeOK, TipoColas, bloquear
  <2>8. TipoHilos'
    BY <2>0, <2>1, IrATipo DEF TypeOK, bloquear, PasosHilo
  <2> QED BY <2>0, <2>4, <2>5, <2>6, <2>7, <2>8, Marco DEF TypeOK, bloquear
<1>10. ASSUME bloqueoSemaforo, Head(aKernel[H.cpu]).op \notin OpsConPCB
       PROVE  TypeOK'
  BY <1>10, CaeTipo DEF bloqueoSemaforo
<1>11. ASSUME devolverCPUBloqueado
       PROVE  TypeOK'
  <2>1. H.cpu \in CPUs
    BY <1>11, <1>h DEF TipoHilo, devolverCPUBloqueado, EnPaso
  <2>2. TipoLibres'
    BY <1>11, <2>1, AppendProperties
    DEF TypeOK, TipoLibres, devolverCPUBloqueado, encolarCPU
  <2>3. TipoCuenta'
    BY <1>11 DEF TypeOK, TipoCuenta, devolverCPUBloqueado, SueltaConfig, cuenta, contadores
  <2>4. TipoHilos'
    BY <1>11, TerminaTipo DEF TypeOK, devolverCPUBloqueado
  <2> QED BY <1>11, <2>2, <2>3, <2>4, Marco DEF TypeOK, devolverCPUBloqueado
<1>12. ASSUME liberarSemaforoUnidad
       PROVE  TypeOK'
  <2>1. H.cpu \in CPUs /\ H.sem \in Semaforos
    BY <1>12, <1>h DEF TipoHilo, liberarSemaforoUnidad, EnPaso
  <2>2. t_paquete("LIBERAR_SEMAFORO", H.sem) \in PaquetesACPU
    BY <2>1 DEF t_paquete, PaquetesACPU
  <2>3. TipoRed'
    BY <1>12, <2>1, <2>2, AppendProperties
      DEF TypeOK, TipoRed, liberarSemaforoUnidad
  <2>4. TipoHilos'
    BY <1>12, TerminaTipo DEF TypeOK, liberarSemaforoUnidad
  <2>5. CASE cola_semaforos[H.sem] # <<>>
    <3>1. /\ Head(cola_semaforos[H.sem]) \in Procesos
          /\ Tail(cola_semaforos[H.sem]) \in Seq(Procesos)
      BY <2>1, <2>5, HeadTailProperties DEF TypeOK, TipoSemaforos
    <3>2. TipoSemaforos'
      BY <1>12, <2>1, <2>5, <3>1
        DEF TypeOK, TipoSemaforos, liberarSemaforoUnidad, alReady, HayQuienEspera
    <3>3. \A p : eliminarProcesoDeCola(cola_block, p) \in Seq(Procesos)
      BY SinPrimeroTipo DEF TypeOK, TipoColas, eliminarProcesoDeCola
    <3>4. /\ cola_ready' = Append(cola_ready, Head(cola_semaforos[H.sem]))
          /\ cola_block' = eliminarProcesoDeCola(cola_block, pcb[Head(cola_semaforos[H.sem])])
          /\ UNCHANGED <<cola_new, cola_exec, cola_exit>>
      BY <1>12, <2>5 DEF liberarSemaforoUnidad, alReady, HayQuienEspera
    <3>6. TipoColas'
      BY <3>1, <3>3, <3>4, AppendProperties DEF TypeOK, TipoColas
    <3>5. TipoLibres'
      BY <1>12, <2>5
        DEF TypeOK, TipoLibres, liberarSemaforoUnidad, alReady, HayQuienEspera, libres
    <3> QED BY <1>12, <2>3, <2>4, <3>2, <3>5, <3>6, Marco
        DEF TypeOK, liberarSemaforoUnidad
  <2>6. CASE cola_semaforos[H.sem] = <<>>
    <3>1. TipoSemaforos'
      BY <1>12, <2>1, <2>6
        DEF TypeOK, TipoSemaforos, liberarSemaforoUnidad, alReady, HayQuienEspera
    <3> QED BY <1>12, <2>3, <2>4, <2>6, <3>1, Marco
        DEF TypeOK, liberarSemaforoUnidad, alReady, HayQuienEspera, colas
  <2> QED BY <2>5, <2>6
<1> QED BY <1>1, <1>2, <1>3, <1>4, <1>5, <1>6, <1>7, <1>8, <1>9, <1>10,
           <1>11, <1>12

(* The planner thread. *)
LEMMA PlanificadorTipo ==
  ASSUME TypeOK, HiloPlanificador
  PROVE  TypeOK'
<1>1. ASSUME esperarReady
      PROVE  TypeOK'
  <2>1. TipoLibres'
    BY <1>1 DEF TypeOK, TipoLibres, esperarReady, PlanifEn, libres
  <2>2. TipoPlanif'
    BY <1>1 DEF TypeOK, TipoPlanif, PasosPlanif, esperarReady
  <2> QED BY <1>1, <2>1, <2>2, Marco DEF TypeOK, esperarReady
<1>2. ASSUME mirarEstado
      PROVE  TypeOK'
  <2>1. TipoPlanif'
    BY <1>2 DEF TypeOK, TipoPlanif, PasosPlanif, mirarEstado
  <2> QED BY <1>2, <2>1, Marco DEF TypeOK, mirarEstado
<1>3. ASSUME esperarCPU
      PROVE  TypeOK'
  <2>1. TipoLibres'
    BY <1>3 DEF TypeOK, TipoLibres, esperarCPU, PlanifEn
  <2>2. TipoPlanif'
    BY <1>3 DEF TypeOK, TipoPlanif, PasosPlanif, esperarCPU
  <2> QED BY <1>3, <2>1, <2>2, Marco DEF TypeOK, esperarCPU
<1>4. ASSUME sacarCPU
      PROVE  TypeOK'
  <2>1. cola_CPU_libres # <<>> =>
          Head(cola_CPU_libres) \in CPUs /\ Tail(cola_CPU_libres) \in Seq(CPUs)
    BY HeadTailProperties DEF TypeOK, TipoLibres
  <2>2. TipoLibres'
    BY <1>4, <2>1 DEF TypeOK, TipoLibres, sacarCPU
  <2>3. TipoPlanif'
    BY <1>4, <2>1 DEF TypeOK, TipoPlanif, PasosPlanif, sacarCPU
  <2>4. TipoCuenta'
    BY <1>4 DEF TypeOK, TipoCuenta, sacarCPU, cuenta, contadores
  <2> QED BY <1>4, <2>2, <2>3, <2>4, Marco DEF TypeOK, sacarCPU
<1>5. ASSUME sacarReady
      PROVE  TypeOK'
  <2>1. Head(cola_ready) \in Procesos /\ Tail(cola_ready) \in Seq(Procesos)
    BY <1>5, HeadTailProperties DEF TypeOK, TipoColas, sacarReady
  <2>2. TipoColas'
    BY <1>5, <2>1 DEF TypeOK, TipoColas, sacarReady
  <2>3. TipoPlanif'
    BY <1>5, <2>1 DEF TypeOK, TipoPlanif, PasosPlanif, sacarReady
  <2> QED BY <1>5, <2>2, <2>3, Marco DEF TypeOK, sacarReady
<1>6. ASSUME readyVacia
      PROVE  TypeOK'
  BY <1>6, CaeTipo DEF readyVacia
<1>7. ASSUME mandarAEjecutar
      PROVE  TypeOK'
  <2>1. planif.proc \in Procesos /\ planif.cpu \in CPUs \cup {Nulo}
    BY <1>7 DEF TypeOK, TipoPlanif, mandarAEjecutar, PlanifEn
  <2>2. TipoColas'
    BY <1>7, <2>1, AppendProperties DEF TypeOK, TipoColas, mandarAEjecutar
  <2>3. TipoProcesos'
    BY <1>7, <2>1 DEF TypeOK, TipoProcesos, mandarAEjecutar, programas
  <2>4. TipoPlanif'
    BY <1>7, <2>1 DEF TypeOK, TipoPlanif, TipoProcesos, PasosPlanif, mandarAEjecutar
  <2> QED BY <1>7, <2>2, <2>3, <2>4, Marco DEF TypeOK, mandarAEjecutar
<1>8. ASSUME NEW op, NEW dato, EnviaPlanif(op, dato), UNCHANGED aKernel,
             t_paquete(op, dato) \in PaquetesACPU
      PROVE  TipoRed'
  <2>1. planif.cpu \in CPUs \cup {Nulo}
    BY DEF TypeOK, TipoPlanif
  <2>2. aCPU \in [CPUs -> Seq(PaquetesACPU)] /\ aKernel \in [CPUs -> Seq(PaquetesAKernel)]
    BY DEF TypeOK, TipoRed
  <2>3. CASE planif.cpu = Nulo
    BY <1>8, <2>2, <2>3 DEF TipoRed, EnviaPlanif
  <2>4. CASE planif.cpu # Nulo
    <3>1. Append(aCPU[planif.cpu], t_paquete(op, dato)) \in Seq(PaquetesACPU)
      BY <1>8, <2>1, <2>2, <2>4, AppendProperties
    <3> QED BY <1>8, <2>1, <2>2, <2>4, <3>1 DEF TipoRed, EnviaPlanif
  <2> QED BY <2>3, <2>4
<1>9. ASSUME enviarDatosKernel
      PROVE  TypeOK'
  <2>1. t_paquete("DATOS_KERNEL", Nulo) \in PaquetesACPU
    BY DEF t_paquete, PaquetesACPU, OpsACPU
  <2>2. TipoRed'
    BY <1>8, <1>9, <2>1 DEF enviarDatosKernel
  <2>3. TipoPlanif'
    BY <1>9 DEF TypeOK, TipoPlanif, PasosPlanif, enviarDatosKernel, PlanifEn
  <2> QED BY <1>9, <2>2, <2>3, Marco DEF TypeOK, enviarDatosKernel
<1>10. ASSUME enviarPCB
       PROVE  TypeOK'
  <2>1. planif.serial \in Procesos \cup {Nulo}
    BY <1>10 DEF TypeOK, TipoPlanif, TipoProcesos, enviarPCB, PlanifEn
  <2>2. t_paquete("PCB_SERIALIZADO", planif.serial) \in PaquetesACPU
    BY <2>1 DEF t_paquete, PaquetesACPU, OpsACPU
  <2>3. TipoRed'
    BY <1>8, <1>10, <2>2 DEF enviarPCB
  <2>4. TipoPlanif'
    BY <1>10 DEF TypeOK, TipoPlanif, PasosPlanif, PlanifReposo, enviarPCB
  <2>5. TipoCuenta'
    BY <1>10 DEF TypeOK, TipoCuenta, enviarPCB, SueltaConfig, cuenta, contadores
  <2> QED BY <1>10, <2>3, <2>4, <2>5, Marco DEF TypeOK, enviarPCB
<1> QED BY <1>1, <1>2, <1>3, <1>4, <1>5, <1>6, <1>7, <1>9, <1>10
    DEF HiloPlanificador

(* A CPU that goes on to a well-formed state keeps the CPUs typed. *)
LEMMA CPUSigueTipo ==
  ASSUME TipoCPUs, NEW c \in CPUs, NEW C, TipoCPU(C), cpu' = [cpu EXCEPT ![c] = C]
  PROVE  TipoCPUs'
<1>1. DOMAIN cpu' = CPUs
  BY DEF TipoCPUs
<1>2. ASSUME NEW d \in CPUs
      PROVE  TipoCPU(cpu'[d])
  BY DEF TipoCPUs
<1> QED BY <1>1, <1>2 DEF TipoCPUs

(* What a CPU sends and receives are packets. *)
LEMMA RedTipo ==
  ASSUME TypeOK, NEW c \in CPUs
  PROVE  /\ aCPU[c] # <<>> => Head(aCPU[c]) \in PaquetesACPU
         /\ /\ aKernel' = aKernel
            /\ aCPU' = aCPU \/ (aCPU[c] # <<>> /\ RecibeDelKernel(c))
            => TipoRed'
         /\ \A op, dato :
               /\ \/ UNCHANGED aCPU
                  \/ aCPU[c] # <<>> /\ RecibeDelKernel(c)
               /\ \/ UNCHANGED aKernel
                  \/ /\ EnviaAlKernel(c, op, dato)
                     /\ t_paquete(op, dato) \in PaquetesAKernel
               => TipoRed'
<1>1. aCPU[c] \in Seq(PaquetesACPU) /\ aKernel[c] \in Seq(PaquetesAKernel)
  BY DEF TypeOK, TipoRed
<1>2. aCPU[c] # <<>> => /\ Head(aCPU[c]) \in PaquetesACPU
                        /\ Tail(aCPU[c]) \in Seq(PaquetesACPU)
  BY <1>1, HeadTailProperties
<1>3. ASSUME \/ UNCHANGED aCPU
             \/ aCPU[c] # <<>> /\ RecibeDelKernel(c)
      PROVE  aCPU' \in [CPUs -> Seq(PaquetesACPU)]
  BY <1>2, <1>3 DEF TypeOK, TipoRed, RecibeDelKernel
<1>4. ASSUME NEW op, NEW dato,
             \/ UNCHANGED aKernel
             \/ /\ EnviaAlKernel(c, op, dato)
                /\ t_paquete(op, dato) \in PaquetesAKernel
      PROVE  aKernel' \in [CPUs -> Seq(PaquetesAKernel)]
  <2>1. t_paquete(op, dato) \in PaquetesAKernel =>
          Append(aKernel[c], t_paquete(op, dato)) \in Seq(PaquetesAKernel)
    BY <1>1, AppendProperties
  <2> QED BY <1>4, <2>1 DEF TypeOK, TipoRed, EnviaAlKernel
<1>5. aKernel' = aKernel => aKernel' \in [CPUs -> Seq(PaquetesAKernel)]
  BY DEF TypeOK, TipoRed
<1> QED BY <1>2, <1>3, <1>4, <1>5 DEF TipoRed

(* The end of an instruction. *)
LEMMA CerrarTipo ==
  ASSUME TypeOK, NEW c \in CPUs, NEW b \in BOOLEAN,
         cpu[c].paso \in {"ejecuta", "wait", "signal"}, CerrarInstruccion(c, b),
         \/ aCPU' = aCPU
         \/ aCPU[c] # <<>> /\ RecibeDelKernel(c)
  PROVE  TipoCPUs' /\ TipoRed'
<1> DEFINE q == IF RoundRobin THEN cpu[c].quantum - 1 ELSE cpu[c].quantum
           C == [cpu[c] EXCEPT !.paso = "sondeo", !.quantum = q,
                               !.sale = b \/ q = 0, !.sem = Nulo]
<1>1. TipoCPU(cpu[c])
  BY DEF TypeOK, TipoCPUs
<1>2. q \in Nat
  BY <1>1 DEF TipoCPU
<1>4. cpu' = [cpu EXCEPT ![c] = C]
  BY DEF CerrarInstruccion, SaleDelLazo
<1>3. TipoCPU(C)
  <2> HIDE DEF q
  <2>1. (b \/ q = 0) \in BOOLEAN
    OBVIOUS
  <2>2. ~(b \/ q = 0) => q > 0
    BY <1>2
  <2>3. cpu[c].pid \in Procesos
    BY <1>1 DEF TipoCPU
  <2> DEFINE sale == b \/ q = 0
  <2> HIDE DEF sale
  <2>4. C = [cpu[c] EXCEPT !.paso = "sondeo", !.quantum = q, !.sale = sale, !.sem = Nulo]
    BY DEF sale
  <2> HIDE DEF C
  <2>5. sale \in BOOLEAN /\ (~sale => q > 0)
    BY <2>1, <2>2 DEF sale
  <2> QED BY <1>1, <1>2, <2>3, <2>4, <2>5 DEF TipoCPU, PasosCPU
<1>5. TipoCPUs'
  BY <1>3, <1>4, CPUSigueTipo DEF TypeOK
<1>6. cpu[c].pid \in Procesos
  BY <1>1 DEF TipoCPU
<1>7. /\ t_paquete("PROGRAMA_BLOQUEADO_SEMAFORO", cpu[c].pid) \in PaquetesAKernel
      /\ t_paquete("FIN_QUANTUM", cpu[c].pid) \in PaquetesAKernel
  BY <1>6 DEF t_paquete, PaquetesAKernel, OpsAKernel
<1>8. TipoRed'
  BY <1>7, RedTipo DEF CerrarInstruccion
<1> QED BY <1>5, <1>8

(* A CPU process. *)
LEMMA CPUTipo ==
  ASSUME TypeOK, NEW c \in CPUs, ProcesoCPU(c)
  PROVE  TypeOK'
<1>k. UNCHANGED kernel => /\ TipoColas' /\ TipoLibres' /\ TipoSemaforos'
                          /\ TipoCuenta' /\ TipoHilos' /\ TipoPlanif'
                          /\ UNCHANGED procesos
  BY Marco DEF kernel
<1>c. TipoCPU(cpu[c])
  BY DEF TypeOK, TipoCPUs
<1>1. ASSUME recibirDatosKernel(c)
      PROVE  TypeOK'
  <2>0. PICK q \in 1..QUANTUM :
          cpu' = [cpu EXCEPT ![c].paso = "esperaPCB", ![c].quantum = q, ![c].sale = FALSE]
    BY <1>1 DEF recibirDatosKernel
  <2>1. TipoCPU([cpu[c] EXCEPT !.paso = "esperaPCB", !.quantum = q, !.sale = FALSE])
    <3>1. q \in Nat /\ q > 0
      BY ConfigAssumption
    <3> QED BY <1>c, <3>1 DEF TipoCPU, PasosCPU
  <2>2. TipoCPUs'
    BY <2>0, <2>1, CPUSigueTipo DEF TypeOK
  <2>3. TipoRed'
    BY <1>1, RedTipo DEF recibirDatosKernel
  <2> QED BY <1>1, <1>k, <2>2, <2>3, Marco DEF TypeOK, recibirDatosKernel
<1>2. ASSUME recibirPCB(c)
      PROVE  TypeOK'
  <2> DEFINE paq == Head(aCPU[c])
  <2>1. paq \in PaquetesACPU /\ TipoRed'
    BY <1>2, RedTipo DEF recibirPCB
  <2>2. CASE paq.op = "PCB_SERIALIZADO" /\ paq.dato # Nulo
    <3>1. paq.dato \in Procesos
      BY <2>1, <2>2 DEF PaquetesACPU, OpsACPU
    <3>2. TipoCPU([cpu[c] EXCEPT !.paso = "ejecuta", !.pid = paq.dato])
      <4>1. cpu[c].quantum > 0
        BY <1>2, <1>c DEF TipoCPU, recibirPCB, CPUEn
      <4> QED BY <1>c, <3>1, <4>1 DEF TipoCPU, PasosCPU
    <3>3. cpu' = [cpu EXCEPT ![c] = [cpu[c] EXCEPT !.paso = "ejecuta", !.pid = paq.dato]]
      BY <1>2, <2>2 DEF recibirPCB
    <3>5. TipoCPUs'
      BY <3>2, <3>3, CPUSigueTipo DEF TypeOK
    <3>4. TipoProcesos'
      <4>1. Exclusion \subseteq Semaforos
        BY ConfigAssumption
      <4>2. /\ espera' = [espera EXCEPT ![paq.dato] = Nulo]
            /\ dentro' = dentro \cup ({paq.dato} \X ({espera[paq.dato]} \cap Exclusion))
        BY <1>2, <2>2 DEF recibirPCB
      <4> QED BY <1>2, <1>k, <3>1, <4>1, <4>2
        DEF TypeOK, TipoProcesos, recibirPCB, procesos
    <3> QED BY <1>2, <1>k, <2>1, <3>4, <3>5 DEF TypeOK, recibirPCB
  <2>3. CASE ~(paq.op = "PCB_SERIALIZADO" /\ paq.dato # Nulo)
    <3>1. TipoCPU([cpu[c] EXCEPT !.paso = "cerrada"])
      BY <1>c DEF TipoCPU, PasosCPU
    <3>2. TipoCPUs'
      BY <1>2, <2>3, <3>1, CPUSigueTipo DEF TypeOK, recibirPCB
    <3> QED BY <1>2, <1>k, <2>1, <2>3, <3>2, Marco DEF TypeOK, recibirPCB
  <2> QED BY <2>2, <2>3
<1>3. ASSUME instruccionLocal(c)
      PROVE  TypeOK'
  <2>1. cpu[c].paso = "ejecuta" /\ CerrarInstruccion(c, FALSE) /\ UNCHANGED aCPU
    BY <1>3 DEF instruccionLocal, CPUEn
  <2>2. TipoCPUs' /\ TipoRed'
    <3>1. aCPU' = aCPU /\ cpu[c].paso \in {"ejecuta", "wait", "signal"}
      BY <2>1
    <3>2. CerrarInstruccion(c, FALSE) => TipoCPUs' /\ TipoRed'
      BY <3>1, CerrarTipo
    <3> QED BY <2>1, <3>2
  <2> QED BY <1>3, <1>k, <2>2, Marco DEF TypeOK, instruccionLocal
<1>4. ASSUME terminarPrograma(c)
      PROVE  TypeOK'
  <2>1. TipoCPU([cpu[c] EXCEPT !.paso = "sondeo", !.sale = TRUE])
    BY <1>4, <1>c DEF TipoCPU, PasosCPU, terminarPrograma, CPUEn
  <2>2. TipoCPUs'
    BY <1>4, <2>1, CPUSigueTipo DEF TypeOK, terminarPrograma
  <2>3. \A op \in OpsFin : t_paquete(op, cpu[c].pid) \in PaquetesAKernel
    BY <1>4, <1>c
      DEF TipoCPU, terminarPrograma, CPUEn, t_paquete, PaquetesAKernel,
                      OpsAKernel
  <2>4. TipoRed'
    BY <1>4, <2>3, RedTipo DEF terminarPrograma
  <2> QED BY <1>4, <1>k, <2>2, <2>4, Marco DEF TypeOK, terminarPrograma
<1>5. ASSUME NEW s \in Semaforos, wait_kernel(c, s)
      PROVE  TypeOK'
  <2>1. TipoCPU([cpu[c] EXCEPT !.paso = "wait", !.sem = s])
    BY <1>5, <1>c DEF TipoCPU, PasosCPU, wait_kernel, CPUEn
  <2>2. TipoCPUs'
    BY <1>5, <2>1, CPUSigueTipo DEF TypeOK, wait_kernel
  <2>3. t_paquete("PEDIR_SEMAFORO", s) \in PaquetesAKernel
    BY DEF t_paquete, PaquetesAKernel, OpsSemaforo
  <2>4. TipoRed'
    BY <1>5, <2>3, RedTipo DEF wait_kernel
  <2> QED BY <1>5, <1>k, <2>2, <2>4, Marco DEF TypeOK, wait_kernel
<1>6. ASSUME NEW s \in Semaforos, signal_kernel(c, s)
      PROVE  TypeOK'
  <2>1. TipoCPU([cpu[c] EXCEPT !.paso = "signal"])
    BY <1>6, <1>c DEF TipoCPU, PasosCPU, signal_kernel, CPUEn
  <2>2. TipoCPUs'
    BY <1>6, <2>1, CPUSigueTipo DEF TypeOK, signal_kernel
  <2>3. t_paquete("LIBERAR_SEMAFORO", s) \in PaquetesAKernel
    BY DEF t_paquete, PaquetesAKernel, OpsSemaforo
  <2>4. TipoRed'
    BY <1>6, <2>3, RedTipo DEF signal_kernel
  <2>5. TipoProcesos'
    BY <1>6, <1>k DEF TypeOK, TipoProcesos, signal_kernel, procesos
  <2> QED BY <1>6, <1>k, <2>2, <2>4, <2>5 DEF TypeOK, signal_kernel
<1>7. ASSUME respuestaWait(c)
      PROVE  TypeOK'
  <2> DEFINE bloqueado == ~EsCero(Head(aCPU[c]))
  <2>1. cpu[c].pid \in Procesos /\ cpu[c].sem \in Semaforos
    BY <1>7, <1>c DEF TipoCPU, respuestaWait, CPUEn
  <2>2. CerrarInstruccion(c, bloqueado) /\ bloqueado \in BOOLEAN
    BY <1>7 DEF respuestaWait, EsCero
  <2>3. TipoCPUs' /\ TipoRed'
    BY <1>7, <2>2, CerrarTipo DEF respuestaWait, CPUEn
  <2>4. TipoProcesos'
    <3>1. CASE bloqueado
      BY <1>7, <1>k, <2>1, <3>1
      DEF TypeOK, TipoProcesos, respuestaWait, procesos
    <3>2. CASE ~bloqueado
      <4>1. dentro' = dentro \cup ({cpu[c].pid} \X ({cpu[c].sem} \cap Exclusion))
        BY <1>7, <3>2 DEF respuestaWait
      <4>2. dentro' \subseteq Procesos \X Semaforos
        BY <2>1, <4>1 DEF TypeOK, TipoProcesos
      <4> QED
        BY <1>7, <1>k, <3>2, <4>2
        DEF TypeOK, TipoProcesos, respuestaWait, procesos
    <3> QED BY <3>1, <3>2
  <2> QED BY <1>7, <1>k, <2>3, <2>4 DEF TypeOK, respuestaWait
<1>8. ASSUME respuestaSignal(c)
      PROVE  TypeOK'
  <2>1. TipoCPUs' /\ TipoRed'
    BY <1>8, CerrarTipo DEF respuestaSignal, CPUEn
  <2> QED BY <1>8, <1>k, <2>1, Marco DEF TypeOK, respuestaSignal
<1>9. ASSUME sondeo(c)
      PROVE  TypeOK'
  <2> DEFINE paq == Head(aCPU[c])
             aborta == aCPU[c] # <<>> /\ paq.op \in OpsAborto
             p == IF cpu[c].sale \/ aborta THEN "espera" ELSE "ejecuta"
  <2>1. TipoCPU([cpu[c] EXCEPT !.paso = p])
    BY <1>9, <1>c DEF TipoCPU, PasosCPU, sondeo, CPUEn
  <2>2. TipoCPUs'
    BY <1>9, <2>1, CPUSigueTipo DEF TypeOK, sondeo
  <2>3. cpu[c].pid \in Procesos
    BY <1>9, <1>c DEF TipoCPU, sondeo, CPUEn
  <2>4. ASSUME aborta
        PROVE  TipoRed'
    <3>1. PICK d \in {cpu[c].pid} \cup (IF cpu[c].sale THEN {Nulo} ELSE {}) :
             EnviaAlKernel(c, paq.op, d)
      BY <1>9, <2>4 DEF sondeo
    <3>2. t_paquete(paq.op, d) \in PaquetesAKernel
      BY <2>3, <2>4, <3>1 DEF t_paquete, PaquetesAKernel
    <3>3. aCPU[c] # <<>> /\ RecibeDelKernel(c)
      BY <1>9, <2>4 DEF sondeo
    <3> QED BY <3>1, <3>2, <3>3, RedTipo
  <2>5. ASSUME ~aborta
        PROVE  TipoRed'
    <3>1. aKernel' = aKernel
      BY <1>9, <2>5 DEF sondeo
    <3>2. aCPU' = aCPU \/ (aCPU[c] # <<>> /\ RecibeDelKernel(c))
      BY <1>9 DEF sondeo
    <3> QED BY <3>1, <3>2, RedTipo
  <2>6. TipoRed'
    BY <2>4, <2>5
  <2> QED BY <1>9, <1>k, <2>2, <2>6, Marco DEF TypeOK, sondeo
<1> QED BY <1>1, <1>2, <1>3, <1>4, <1>5, <1>6, <1>7, <1>8, <1>9 DEF ProcesoCPU

(* The initial state is well typed. *)
LEMMA InitTipo == Init => TypeOK
<1> SUFFICES ASSUME Init PROVE TypeOK
  OBVIOUS
<1>1. TipoColas /\ TipoLibres /\ TipoSemaforos /\ TipoRed
  BY ConfigAssumption, EmptySeq
    DEF Init, TipoColas, TipoLibres, TipoSemaforos, TipoRed
<1>3. TipoCuenta
  <2>1. estadoPlanificacion \in BOOLEAN /\ caido \in BOOLEAN
    BY Zenon DEF Init
  <2> QED BY <2>1, ConfigAssumption DEF Init, TipoCuenta
<1>4. TipoProcesos
  BY DEF Init, TipoProcesos
<1>2. TipoHilos /\ TipoPlanif /\ TipoCPUs
  <2>1. TipoHilos
    BY DEF Init, TipoHilos, TipoHilo, Reposo, PasosHilo
  <2>2. TipoPlanif
    BY DEF Init, TipoPlanif, PasosPlanif, PlanifReposo
  <2>3. TipoCPUs
    BY DEF Init, TipoCPUs, TipoCPU, PasosCPU, Senales
  <2> QED BY <2>1, <2>2, <2>3
<1> QED BY <1>1, <1>2, <1>3, <1>4 DEF TypeOK

(* Every step of the system keeps the types. *)
LEMMA PasoTipo ==
  ASSUME TypeOK, [Next]_vars
  PROVE  TypeOK'
<1>1. CASE HiloPrincipal
  BY <1>1, AdmisionTipo, ManejadoresTipo DEF HiloPrincipal
<1>2. CASE PasoCompartido("principal")
  BY <1>2, CompartidoTipo DEF Hilos
<1>3. CASE HiloPlanificador
  BY <1>3, PlanificadorTipo
<1>4. CASE \E c \in CPUs : ProcesoCPU(c)
  BY <1>4, CPUTipo
<1>5. CASE UNCHANGED vars
  BY <1>5, Marco DEF TypeOK, vars, kernel
<1> QED BY <1>1, <1>2, <1>3, <1>4, <1>5 DEF Next

(* Type correctness: also, no step uses a field that nobody filled in.     *)
THEOREM TipoCorrecto == Spec => []TypeOK
<1> QED BY InitTipo, PasoTipo, PTL DEF Spec

-----------------------------------------------------------------------------
(* The counting semaphores of the planner.                                 *)

(* The free list and sem_cpu grow together. *)
LEMMA EncolarCPUCuenta ==
  ASSUME TypeOK, ContadoresExactos, NEW c \in CPUs, encolarCPU(c),
         UNCHANGED <<cola_ready, sem_ready, planif>>
  PROVE  ContadoresExactos'
<1>1. Len(cola_CPU_libres') = Len(cola_CPU_libres) + 1
  BY AppendProperties DEF TypeOK, TipoLibres, encolarCPU
<1>2. Len(cola_CPU_libres) \in Nat /\ sem_cpu \in Nat
  BY LenProperties DEF TypeOK, TipoLibres
<1> QED BY <1>1, <1>2 DEF ContadoresExactos, encolarCPU, TomoReady, Uno

(* So do ready and sem_ready. *)
LEMMA EncolarReadyCuenta ==
  ASSUME TypeOK, ContadoresExactos, NEW t \in Procesos,
         cola_ready' = Append(cola_ready, t), sem_ready' = sem_ready + 1,
         UNCHANGED <<libres, planif>>
  PROVE  ContadoresExactos'
<1>1. Len(cola_ready') = Len(cola_ready) + 1
  BY AppendProperties DEF TypeOK, TipoColas
<1>2. Len(cola_ready) \in Nat /\ sem_ready \in Nat
  BY LenProperties DEF TypeOK, TipoLibres, TipoColas
<1> QED BY <1>1, <1>2 DEF ContadoresExactos, libres, TomoReady, Uno

(* A step that leaves the two queues, their semaphores and the planner     *)
(* alone.                                                                  *)
LEMMA CuentaMarco ==
  ASSUME ContadoresExactos, UNCHANGED <<cola_ready, sem_ready, libres, planif>>
  PROVE  ContadoresExactos'
BY DEF ContadoresExactos, libres, TomoReady, Uno

(* Every step of the planner takes from a queue what it took from its      *)
(* semaphore.                                                              *)
LEMMA PlanificadorCuenta ==
  ASSUME TypeOK, ContadoresExactos, HiloPlanificador
  PROVE  ContadoresExactos'
<1> USE DEF Uno, TomoReady, PlanifEn
<1>t. /\ sem_ready \in Nat /\ sem_cpu \in Nat
      /\ cola_ready \in Seq(Procesos) /\ cola_CPU_libres \in Seq(CPUs)
      /\ DOMAIN planif = {"paso", "proc", "cpu", "serial"}
  BY DEF TypeOK, TipoLibres, TipoColas, TipoPlanif
<1>l. Len(cola_ready) \in Nat /\ Len(cola_CPU_libres) \in Nat
  BY <1>t, LenProperties
<1>1. CASE esperarReady
  <2>1. planif.paso = "sem_ready" /\ planif'.paso = "estado"
    BY <1>1, <1>t DEF esperarReady
  <2> QED BY <1>1, <1>t, <1>l, <2>1
    DEF ContadoresExactos, esperarReady, colas, libres
<1>2. CASE mirarEstado
  <2>1. planif.paso = "estado" /\ planif'.paso = "sem_cpu"
    BY <1>2, <1>t DEF mirarEstado
  <2> QED BY <1>2, <1>t, <2>1 DEF ContadoresExactos, mirarEstado, colas, libres
<1>3. CASE esperarCPU
  <2>1. planif.paso = "sem_cpu" /\ planif'.paso = "popCPU"
    BY <1>3, <1>t DEF esperarCPU
  <2> QED BY <1>3, <1>t, <1>l, <2>1 DEF ContadoresExactos, esperarCPU, colas
<1>4. CASE sacarCPU
  <2>1. planif.paso = "popCPU" /\ planif'.paso = "popReady"
    BY <1>4, <1>t DEF sacarCPU
  <2>2. Len(cola_CPU_libres) = sem_cpu + 1
    BY <1>t, <2>1 DEF ContadoresExactos
  <2>3. cola_CPU_libres # <<>>
    BY <1>t, <2>2, EmptySeq
  <2>4. Len(cola_CPU_libres') = Len(cola_CPU_libres) - 1
    BY <1>4, <1>t, <2>3, HeadTailProperties DEF sacarCPU
  <2> QED BY <1>4, <1>t, <1>l, <2>1, <2>2, <2>4
    DEF ContadoresExactos, sacarCPU, colas
<1>5. CASE sacarReady
  <2>1. planif.paso = "popReady" /\ planif'.paso = "exec"
    BY <1>5, <1>t DEF sacarReady
  <2>2. Len(cola_ready') = Len(cola_ready) - 1
    BY <1>5, <1>t, HeadTailProperties DEF sacarReady
  <2> QED BY <1>5, <1>t, <1>l, <2>1, <2>2
    DEF ContadoresExactos, sacarReady, libres
<1>6. CASE readyVacia
  BY <1>6, CuentaMarco DEF readyVacia, Cae, colas
<1>7. CASE mandarAEjecutar
  <2>1. planif.paso = "exec" /\ planif'.paso = "datos"
    BY <1>7, <1>t DEF mandarAEjecutar
  <2> QED BY <1>7, <2>1 DEF ContadoresExactos, mandarAEjecutar, libres
<1>8. CASE enviarDatosKernel
  <2>1. planif.paso = "datos" /\ planif'.paso = "pcb"
    BY <1>8, <1>t DEF enviarDatosKernel
  <2> QED BY <1>8, <2>1 DEF ContadoresExactos, enviarDatosKernel, libres, colas
<1>9. CASE enviarPCB
  <2>1. planif.paso = "pcb" /\ planif'.paso = "sem_ready"
    BY <1>9 DEF enviarPCB, PlanifEn, PlanifReposo
  <2> QED BY <1>9, <2>1 DEF ContadoresExactos, enviarPCB, libres, colas
<1> QED BY <1>1, <1>2, <1>3, <1>4, <1>5, <1>6, <1>7, <1>8, <1>9
    DEF HiloPlanificador

(* Every step of the system. *)
LEMMA PasoCuenta ==
  ASSUME TypeOK, ContadoresExactos, [Next]_vars
  PROVE  ContadoresExactos'
<1>h. TipoHilo(hilo["principal"])
  BY DEF TypeOK, TipoHilos, Hilos
<1>1. ASSUME NEW c \in CPUs, nuevoClienteCPU(c)
      PROVE  ContadoresExactos'
  BY <1>1, EncolarCPUCuenta DEF nuevoClienteCPU, colas
<1>2. CASE devolverCPUBloqueado
  <2>1. hilo["principal"].cpu \in CPUs
    BY <1>2, <1>h DEF TipoHilo, devolverCPUBloqueado, EnPaso
  <2> QED BY <1>2, <2>1, EncolarCPUCuenta DEF devolverCPUBloqueado, colas
<1>3. CASE liberarSemaforoUnidad
  <2> DEFINE H == hilo["principal"]
  <2>1. H.sem \in Semaforos
    BY <1>3, <1>h DEF TipoHilo, liberarSemaforoUnidad, EnPaso
  <2>2. CASE cola_semaforos[H.sem] # <<>>
    <3>1. Head(cola_semaforos[H.sem]) \in Procesos
      BY <2>1, <2>2, HeadTailProperties DEF TypeOK, TipoSemaforos
    <3> QED BY <1>3, <2>2, <3>1, EncolarReadyCuenta
      DEF liberarSemaforoUnidad, alReady, HayQuienEspera
  <2>3. CASE cola_semaforos[H.sem] = <<>>
    BY <1>3, <2>3, CuentaMarco DEF liberarSemaforoUnidad, alReady, HayQuienEspera
  <2> QED BY <2>2, <2>3
<1>4. CASE encolarReady("principal")
  <2>1. hilo["principal"].proc \in Procesos
    BY <1>4, <1>h DEF TipoHilo, encolarReady, EnPaso
  <2> QED BY <1>4, <2>1, EncolarReadyCuenta DEF encolarReady, alReady
<1>5. CASE devolverCPU("principal")
  <2>1. hilo["principal"].cpu \in CPUs
    BY <1>5, <1>h DEF TipoHilo, devolverCPU, EnPaso
  <2> QED BY <1>5, <2>1, EncolarCPUCuenta DEF devolverCPU, colas
<1>6. CASE finalizarLiberaCPU("principal")
  <2> DEFINE t == hilo["principal"].proc
  <2>1. t \in Procesos
    BY <1>6, <1>h DEF TipoHilo, finalizarLiberaCPU, EnPaso
  <2>2. socketCPU[t] \in CPUs \cup {Nulo}
    BY <2>1 DEF TypeOK, TipoProcesos
  <2>3. CASE socketCPU[t] = Nulo
    BY <1>6, <2>3, CuentaMarco DEF finalizarLiberaCPU, TieneCPU, colas
  <2>4. CASE socketCPU[t] # Nulo
    BY <1>6, <2>2, <2>4, EncolarCPUCuenta DEF finalizarLiberaCPU, TieneCPU, colas
  <2> QED BY <2>3, <2>4
<1>7. CASE \/ \E t \in Procesos : nuevoProgramaAnsisop(t)
           \/ rechazarPorGrado \/ pedirMemoria \/ admitir \/ newVacia
  BY <1>7, CuentaMarco DEF nuevoProgramaAnsisop, rechazarPorGrado, pedirMemoria,
     admitir, newVacia, Cae, colas
<1>8. CASE \E c \in CPUs : \/ pideSemaforo(c) \/ liberarSemaforo(c) \/ finQuantum(c)
                           \/ finalizarProgramaKernel(c) \/ paqueteSinCaso(c)
                           \/ sinProceso(c)
  BY <1>8, CuentaMarco DEF pideSemaforo, liberarSemaforo, finQuantum,
     finalizarProgramaKernel, paqueteSinCaso, sinProceso, Cae, colas, kernel
<1>9. CASE pideSemaforoOK \/ pideSemaforoFallo \/ bloqueoSemaforo
  BY <1>9, CuentaMarco DEF pideSemaforoOK, pideSemaforoFallo, bloqueoSemaforo,
     bloquear, Cae, colas
<1>10. CASE finalizarEnExit("principal") \/ finalizarDescuenta("principal")
  BY <1>10, CuentaMarco DEF finalizarEnExit, finalizarDescuenta, colas
<1>11. CASE HiloPlanificador
  BY <1>11, PlanificadorCuenta
<1>12. CASE \E c \in CPUs : ProcesoCPU(c)
  <2>1. UNCHANGED kernel
    BY <1>12 DEF ProcesoCPU, recibirDatosKernel, recibirPCB, instruccionLocal,
       terminarPrograma, wait_kernel, signal_kernel, respuestaWait,
       respuestaSignal, sondeo
  <2> QED BY <2>1, CuentaMarco DEF kernel, colas
<1>13. CASE UNCHANGED vars
  BY <1>13, CuentaMarco DEF vars, kernel, colas
<1> QED BY <1>1, <1>2, <1>3, <1>4, <1>5, <1>6, <1>7, <1>8, <1>9, <1>10, <1>11,
           <1>12, <1>13 DEF Next, HiloPrincipal, PasoCompartido

(* ready and the free list hold exactly what sem_ready and sem_cpu count.  *)
(* It is inductive relative to the types.                                  *)
THEOREM ContadoresCorrectos == Spec => []ContadoresExactos
<1>1. Init => ContadoresExactos
  BY EmptySeq DEF Init, ContadoresExactos, PlanifReposo, TomoReady, Uno
<1>2. TypeOK /\ ContadoresExactos /\ [Next]_vars => ContadoresExactos'
  BY PasoCuenta
<1> QED BY <1>1, <1>2, TipoCorrecto, PTL DEF Spec

(* So the planner never pops an empty queue: neither NULL process nor      *)
(* socket 0.                                                               *)
THEOREM PlanificadorSacaAlgo ==
  Spec => [](/\ planif.paso = "popReady" => cola_ready # <<>>
             /\ planif.paso = "popCPU" => cola_CPU_libres # <<>>)
<1> DEFINE Saca == /\ planif.paso = "popReady" => cola_ready # <<>>
                   /\ planif.paso = "popCPU" => cola_CPU_libres # <<>>
<1>1. TypeOK /\ ContadoresExactos => Saca
  BY EmptySeq DEF TypeOK, TipoLibres, TipoColas, ContadoresExactos, TomoReady, Uno
<1> QED BY <1>1, TipoCorrecto, ContadoresCorrectos, PTL

-----------------------------------------------------------------------------
(* The semaphores of the programs.                                         *)

(* While the main thread waits for the PCB of a process it is going to     *)
(* block, the semaphore has no units: nobody else changes it.              *)
BloqueaSinUnidades ==
    hilo["principal"].paso = "pidePCB" => valor_semaforos[hilo["principal"].sem] = 0
InvSemaforos == SinEsperaConUnidades /\ BloqueaSinUnidades

(* A step that leaves the semaphores alone and does not go to wait for a   *)
(* PCB.                                                                    *)
LEMMA SemaforosMarco ==
  ASSUME InvSemaforos, UNCHANGED semaforos,
         (UNCHANGED hilo) \/ hilo'["principal"].paso # "pidePCB"
  PROVE  InvSemaforos'
BY DEF InvSemaforos, SinEsperaConUnidades, BloqueaSinUnidades, semaforos

(* Where the main thread goes after each of its steps. *)
LEMMA SiguePaso ==
  ASSUME TypeOK, NEW E, Sigue("principal", E)
  PROVE  hilo'["principal"] = E
BY DEF TypeOK, TipoHilos, Hilos, Sigue

(* The same, when only the step changes. *)
LEMMA IrAPaso ==
  ASSUME TypeOK, NEW p, IrA("principal", p)
  PROVE  hilo'["principal"].paso = p /\ hilo'["principal"].sem = hilo["principal"].sem
BY DEF TypeOK, TipoHilos, TipoHilo, Hilos, IrA

(* The same, at the end of a handler. *)
LEMMA TerminaPaso ==
  ASSUME TypeOK, Termina("principal") \/ VuelveASelect("principal")
  PROVE  hilo'["principal"].paso \in {"select", "cpu", "archivo"}
<1>1. CASE VuelveASelect("principal")
  BY <1>1, SiguePaso DEF VuelveASelect, Reposo
<1>2. CASE hilo["principal"].luego # "select" /\ IrA("principal", hilo["principal"].luego)
  <2>1. hilo["principal"].luego \in {"cpu", "archivo"}
    BY <1>2 DEF TypeOK, TipoHilos, TipoHilo, Hilos
  <2> QED BY <1>2, <2>1, IrAPaso
<1> QED BY <1>1, <1>2 DEF Termina

(* Every step of the system. *)
LEMMA PasoSemaforos ==
  ASSUME TypeOK, InvSemaforos, [Next]_vars
  PROVE  InvSemaforos'
<1> DEFINE H == hilo["principal"]
<1>h. TipoHilo(H)
  BY DEF TypeOK, TipoHilos, Hilos
<1>t. cola_semaforos \in [Semaforos -> Seq(Procesos)] /\ valor_semaforos \in [Semaforos -> Nat]
  BY DEF TypeOK, TipoSemaforos
<1>1. CASE pideSemaforoOK
  <2>1. H.sem \in Semaforos
    BY <1>1, <1>h DEF TipoHilo, pideSemaforoOK, EnPaso
  <2>2. \A s \in Semaforos : valor_semaforos'[s] > 0 => valor_semaforos[s] > 0
    BY <1>1, <1>t, <2>1 DEF pideSemaforoOK, HayUnidades
  <2>3. SinEsperaConUnidades'
    BY <1>1, <2>2 DEF InvSemaforos, SinEsperaConUnidades, pideSemaforoOK
  <2>4. hilo'["principal"].paso # "pidePCB"
    BY <1>1, TerminaPaso DEF pideSemaforoOK
  <2> QED BY <2>3, <2>4 DEF InvSemaforos, BloqueaSinUnidades
<1>2. CASE pideSemaforoFallo
  <2>1. H.sem \in Semaforos /\ hilo'["principal"].sem = H.sem
    BY <1>2, <1>h, IrAPaso DEF TipoHilo, pideSemaforoFallo, EnPaso
  <2>2. valor_semaforos[H.sem] = 0
    BY <1>2, <1>t, <2>1 DEF pideSemaforoFallo, HayUnidades
  <2>3. UNCHANGED <<cola_semaforos, valor_semaforos>>
    BY <1>2 DEF pideSemaforoFallo, semaforos
  <2>4. SinEsperaConUnidades'
    BY <2>3 DEF InvSemaforos, SinEsperaConUnidades
  <2> QED BY <2>1, <2>2, <2>3, <2>4 DEF InvSemaforos, BloqueaSinUnidades
<1>3. CASE bloqueoSemaforo /\ Head(aKernel[H.cpu]).op \in OpsConPCB
  <2>0. bloquear(H)
    BY <1>3 DEF bloqueoSemaforo
  <2>1. H.sem \in Semaforos /\ valor_semaforos[H.sem] = 0
    BY <1>3, <1>h
      DEF TipoHilo, bloqueoSemaforo, EnPaso, InvSemaforos, BloqueaSinUnidades
  <2>2. \A s \in Semaforos : s # H.sem => cola_semaforos'[s] = cola_semaforos[s]
    BY <2>0, <1>t DEF bloquear
  <2>3. valor_semaforos' = valor_semaforos
    BY <2>0 DEF bloquear
  <2>4. SinEsperaConUnidades'
    BY <2>1, <2>2, <2>3 DEF InvSemaforos, SinEsperaConUnidades
  <2>5. hilo'["principal"].paso # "pidePCB"
    BY <2>0, IrAPaso DEF bloquear
  <2> QED BY <2>4, <2>5 DEF InvSemaforos, BloqueaSinUnidades
<1>4. CASE liberarSemaforoUnidad
  <2>1. H.sem \in Semaforos
    BY <1>4, <1>h DEF TipoHilo, liberarSemaforoUnidad, EnPaso
  <2>2. hilo'["principal"].paso # "pidePCB"
    BY <1>4, TerminaPaso DEF liberarSemaforoUnidad
  <2>3. CASE cola_semaforos[H.sem] # <<>>
    <3>1. ~(valor_semaforos[H.sem] > 0) /\ valor_semaforos' = valor_semaforos
      BY <1>4, <2>1, <2>3
      DEF liberarSemaforoUnidad, alReady, HayQuienEspera, InvSemaforos, SinEsperaConUnidades
    <3>2. \A s \in Semaforos : s # H.sem => cola_semaforos'[s] = cola_semaforos[s]
      BY <1>4, <1>t, <2>3 DEF liberarSemaforoUnidad
    <3> QED BY <2>2, <3>1, <3>2
      DEF InvSemaforos, SinEsperaConUnidades, BloqueaSinUnidades
  <2>4. CASE cola_semaforos[H.sem] = <<>>
    <3>1. cola_semaforos' = cola_semaforos
      BY <1>4, <2>4 DEF liberarSemaforoUnidad, alReady, HayQuienEspera
    <3>2. \A s \in Semaforos : s # H.sem => valor_semaforos'[s] = valor_semaforos[s]
      BY <1>4, <1>t, <2>4 DEF liberarSemaforoUnidad
    <3> QED BY <2>2, <2>4, <3>1, <3>2
        DEF InvSemaforos, SinEsperaConUnidades, BloqueaSinUnidades
  <2> QED BY <2>3, <2>4
<1>5. CASE \E c \in CPUs : nuevoClienteCPU(c) \/ paqueteSinCaso(c) \/ sinProceso(c)
  BY <1>5, SemaforosMarco
    DEF nuevoClienteCPU, paqueteSinCaso, sinProceso, Cae, kernel
<1>6. CASE \E t \in Procesos : nuevoProgramaAnsisop(t)
  BY <1>6, SiguePaso, SemaforosMarco DEF nuevoProgramaAnsisop, Reposo
<1>7. CASE rechazarPorGrado \/ admitir
  BY <1>7, SiguePaso, SemaforosMarco DEF rechazarPorGrado, admitir, Reposo
<1>8. CASE pedirMemoria
  BY <1>8, IrAPaso, SemaforosMarco DEF pedirMemoria
<1>9. CASE newVacia \/ (bloqueoSemaforo /\ Head(aKernel[H.cpu]).op \notin OpsConPCB)
  BY <1>9, SemaforosMarco DEF newVacia, bloqueoSemaforo, Cae
<1>10. ASSUME NEW c \in CPUs,
              \/ pideSemaforo(c) \/ liberarSemaforo(c) \/ finQuantum(c)
              \/ finalizarProgramaKernel(c)
       PROVE  InvSemaforos'
  <2>1. hilo'["principal"].paso # "pidePCB"
    BY <1>10, SiguePaso
    DEF pideSemaforo, liberarSemaforo, finQuantum, finalizarProgramaKernel, Reposo
  <2>2. UNCHANGED semaforos
    BY <1>10
      DEF pideSemaforo, liberarSemaforo, finQuantum, finalizarProgramaKernel
  <2> QED BY <2>1, <2>2, SemaforosMarco
<1>11. CASE devolverCPUBloqueado
  BY <1>11, TerminaPaso, SemaforosMarco DEF devolverCPUBloqueado
<1>12. CASE PasoCompartido("principal")
  <2>1. UNCHANGED semaforos
    BY <1>12 DEF PasoCompartido, encolarReady, devolverCPU, finalizarEnExit,
       finalizarLiberaCPU, finalizarDescuenta
  <2>2. \/ Termina("principal") \/ VuelveASelect("principal")
        \/ IrA("principal", "cpuDe") \/ IrA("principal", "fin")
    BY <1>12 DEF PasoCompartido, encolarReady, devolverCPU, finalizarEnExit,
       finalizarLiberaCPU, finalizarDescuenta
  <2>3. hilo'["principal"].paso # "pidePCB"
    BY <2>2, TerminaPaso, IrAPaso
  <2> QED BY <2>1, <2>3, SemaforosMarco
<1>13. CASE HiloPlanificador
  <2>1. UNCHANGED <<semaforos, hilo>>
    BY <1>13
      DEF HiloPlanificador, esperarReady, mirarEstado, esperarCPU, sacarCPU,
       sacarReady, readyVacia, Cae, mandarAEjecutar, enviarDatosKernel, enviarPCB
  <2> QED BY <2>1, SemaforosMarco
<1>14. CASE \E c \in CPUs : ProcesoCPU(c)
  <2>1. UNCHANGED kernel
    BY <1>14 DEF ProcesoCPU, recibirDatosKernel, recibirPCB, instruccionLocal,
       terminarPrograma, wait_kernel, signal_kernel, respuestaWait,
       respuestaSignal, sondeo
  <2> QED BY <2>1, SemaforosMarco DEF kernel
<1>15. CASE UNCHANGED vars
  BY <1>15, SemaforosMarco DEF vars, kernel
<1> QED BY <1>1, <1>2, <1>3, <1>4, <1>5, <1>6, <1>7, <1>8, <1>9, <1>10, <1>11,
           <1>12, <1>13, <1>14, <1>15 DEF Next, HiloPrincipal

LEMMA SemaforosCorrectos == Spec => []InvSemaforos
<1>1. Init => InvSemaforos
  BY DEF Init, InvSemaforos, SinEsperaConUnidades, BloqueaSinUnidades, Hilos, Reposo
<1>2. TypeOK /\ InvSemaforos /\ [Next]_vars => InvSemaforos'
  BY PasoSemaforos
<1> QED BY <1>1, <1>2, TipoCorrecto, PTL DEF Spec

(* No wake-up is lost: whatever the initial values and the programs do, a  *)
(* semaphore with units has nobody in its queue.                           *)
THEOREM NadieEsperaConUnidades == Spec => []SinEsperaConUnidades
<1>1. InvSemaforos => SinEsperaConUnidades
  BY DEF InvSemaforos
<1> QED BY <1>1, SemaforosCorrectos, PTL

-----------------------------------------------------------------------------
(* The Kernel's protocol with its CPUs: where each process is, who has     *)
(* each CPU, what a CPU is doing and what is in its sockets.  Inv is the   *)
(* inductive invariant; the theorems at the end say what follows from it.  *)

Principal == hilo["principal"]

(* Where a process is.  Lleva: the main thread has it in its hands, out of *)
(* every queue; Despacha: the planner.                                     *)
Lleva(t) == EnManoDe("principal", t)
Despacha(t) == planif.paso = "exec" /\ planif.proc = t
EnCola(t) ==
    t \in ToSet(cola_new) \cup ToSet(cola_ready) \cup ToSet(cola_exec)
            \cup ToSet(cola_block) \cup ToSet(cola_exit)

UnLugar(t) ==
    /\ t \in ToSet(cola_new) =>
          t \notin ToSet(cola_ready) \cup ToSet(cola_exec) \cup ToSet(cola_block) \cup ToSet(cola_exit)
    /\ t \in ToSet(cola_ready) => t \notin ToSet(cola_exec) \cup ToSet(cola_block) \cup ToSet(cola_exit)
    /\ t \in ToSet(cola_exec) => t \notin ToSet(cola_block) \cup ToSet(cola_exit)
    /\ t \in ToSet(cola_block) => t \notin ToSet(cola_exit)
    /\ Lleva(t) => ~EnCola(t) /\ ~Despacha(t)
    /\ Despacha(t) => ~EnCola(t)
    /\ t \in creados <=> EnCola(t) \/ Lleva(t) \/ Despacha(t)
ColasSinRepetidos ==
    /\ SinRepetidos(cola_ready) /\ SinRepetidos(cola_exec)
    /\ SinRepetidos(cola_block) /\ SinRepetidos(cola_exit)

(* The new queue has the program that is being admitted, and no other. *)
Nuevos ==
    IF Principal.paso \in {"grado", "memoria"} THEN cola_new = <<Principal.proc>>
                                                ELSE cola_new = << >>
Lugares ==
    /\ Nuevos /\ ColasSinRepetidos
    /\ \A t \in Procesos : UnLugar(t)

(* A process in block is in the queue of one semaphore, once. *)
Esperas ==
    /\ \A s \in Semaforos : SinRepetidos(cola_semaforos[s])
    /\ \A s, r \in Semaforos : \A t \in Procesos :
          t \in ToSet(cola_semaforos[s]) /\ t \in ToSet(cola_semaforos[r]) => s = r
    /\ \A t \in Procesos :
          t \in ToSet(cola_block) <=> \E s \in Semaforos : t \in ToSet(cola_semaforos[s])

(* What the main thread remembers of the CPU it serves. *)
HiloCoherente ==
    /\ hilo["consola"] = Reposo
    /\ Principal.paso \in {"select", "grado", "memoria", "listo", "cpu", "pide", "pidePCB",
                           "cpuSem", "libera", "exit", "cpuDe", "fin"}
    /\ Principal.paso = "listo" =>
          \/ Principal.luego = "cpu"
          \/ Principal.luego = "select" /\ Principal.cpu = Nulo
    /\ Principal.paso \in {"exit", "cpuDe", "fin"} => Principal.luego = "select"
    /\ Principal.paso \in {"cpuDe", "fin"} => Principal.proc \in ToSet(cola_exit)

(* Who has a CPU: the free list, a process in exec, a thread. *)
Ocupada(c) == \E t \in ToSet(cola_exec) : socketCPU[t] = c
Retenida(c) == RetieneCPU("principal", c)
Tomada(c) == planif.paso \in {"popReady", "exec"} /\ planif.cpu = c
UnDueno(c) ==
    /\ c \in ToSet(cola_CPU_libres) => ~Ocupada(c) /\ ~Retenida(c) /\ ~Tomada(c)
    /\ Ocupada(c) => ~Retenida(c) /\ ~Tomada(c)
    /\ Retenida(c) => ~Tomada(c)
    /\ cpu[c].paso # "desconectada" <=>
          c \in ToSet(cola_CPU_libres) \/ Ocupada(c) \/ Retenida(c) \/ Tomada(c)

(* The sockets the Kernel has written in its processes. *)
Sockets ==
    /\ \A t \in Procesos : t \notin creados \/ t \in ToSet(cola_new) => socketCPU[t] = Nulo
    /\ \A t \in ToSet(cola_exec) : socketCPU[t] \in CPUs
    /\ \A t, u \in ToSet(cola_exec) : socketCPU[t] = socketCPU[u] => t = u
    /\ Principal.paso \in {"listo", "pide", "pidePCB"} =>
          socketCPU[Principal.proc] = Principal.cpu
Duenos ==
    /\ SinRepetidos(cola_CPU_libres)
    /\ \A c \in CPUs : UnDueno(c)

Despachos ==
    /\ planif.paso \in {"popReady", "exec", "datos", "pcb"} => planif.cpu \in CPUs
    /\ planif.paso \in {"datos", "pcb"} =>
          /\ planif.proc \in ToSet(cola_exec)
          /\ socketCPU[planif.proc] = planif.cpu
          /\ planif.serial = planif.proc

(* The protocol of a CPU: what it does, what is in its sockets, and what   *)
(* the Kernel thinks of it.                                                *)
Datos == t_paquete("DATOS_KERNEL", Nulo)
PCBDe(t) == t_paquete("PCB_SERIALIZADO", t)

Parada(c) == \/ cpu[c].paso = "espera"
             \/ cpu[c].paso = "sondeo" /\ cpu[c].sale
Callada(c) == aKernel[c] = << >>
Sorda(c) == aCPU[c] = << >>
Quieta(c) == Parada(c) /\ Callada(c) /\ Sorda(c)

ConDatos(c) ==
    /\ Callada(c)
    /\ \/ Parada(c) /\ aCPU[c] = <<Datos>>
       \/ cpu[c].paso \in {"espera", "esperaPCB"} /\ Sorda(c)
EnViaje(c, t) ==
    /\ Callada(c)
    /\ \/ Parada(c) /\ aCPU[c] = <<Datos, PCBDe(t)>>
       \/ cpu[c].paso \in {"espera", "esperaPCB"} /\ aCPU[c] = <<PCBDe(t)>>
       \/ cpu[c].paso = "esperaPCB" /\ Sorda(c)
Andando(c, t) ==
    /\ cpu[c].pid = t /\ Callada(c) /\ Sorda(c)
    /\ \/ cpu[c].paso = "ejecuta"
       \/ cpu[c].paso = "sondeo" /\ ~cpu[c].sale
EnWait(c, t) ==
    /\ cpu[c].pid = t /\ cpu[c].paso = "wait"
    /\ \/ aKernel[c] = <<t_paquete("PEDIR_SEMAFORO", cpu[c].sem)>> /\ Sorda(c)
       \/ Callada(c) /\ aCPU[c] = <<t_paquete("PEDIDO_SEMAFORO_OK", Nulo)>>
EnSignal(c, t) ==
    /\ cpu[c].pid = t /\ cpu[c].paso = "signal"
    /\ \/ Sorda(c) /\ \E s \in Semaforos : aKernel[c] = <<t_paquete("LIBERAR_SEMAFORO", s)>>
       \/ Callada(c) /\ Sorda(c) /\ Principal.paso = "libera" /\ Principal.cpu = c
       \/ Callada(c) /\ \E s \in Semaforos : aCPU[c] = <<t_paquete("LIBERAR_SEMAFORO", s)>>
Saliendo(c, t) ==
    /\ Parada(c) /\ Sorda(c)
    /\ \E op \in OpsFin \cup {"FIN_QUANTUM"} : aKernel[c] = <<t_paquete(op, t)>>

ConPrograma(c, t) ==
    \/ EnViaje(c, t) \/ Andando(c, t) \/ EnWait(c, t) \/ EnSignal(c, t) \/ Saliendo(c, t)

EnDespacho(c) == planif.paso \in {"datos", "pcb"} /\ planif.cpu = c

SinPrograma(c) ==
    \/ c \in ToSet(cola_CPU_libres) \/ Tomada(c)
    \/ Retenida(c) /\ Principal.paso \notin {"pide", "pidePCB"}
    \/ EnDespacho(c) /\ planif.paso = "datos"

PidePCB(c, t) ==
    /\ cpu[c].pid = t
    /\ \/ cpu[c].paso = "wait" /\ Callada(c) /\ cpu[c].sem = Principal.sem
          /\ aCPU[c] = <<t_paquete("PEDIDO_SEMAFORO_FALLO", Nulo)>>
       \/ Parada(c) /\ Sorda(c)
          /\ aKernel[c] = <<t_paquete("PROGRAMA_BLOQUEADO_SEMAFORO", t)>>

(* The main thread answers c: to a wait it looked up, and to a signal.     *)
Pide(c, t) ==
    /\ cpu[c].pid = t /\ cpu[c].paso = "wait" /\ cpu[c].sem = Principal.sem
    /\ Callada(c) /\ Sorda(c)
Libera(c) == cpu[c].paso = "signal" /\ Callada(c) /\ Sorda(c) /\ Ocupada(c)

ProtocoloDe(c) ==
    /\ cpu[c].paso = "desconectada" => Callada(c) /\ Sorda(c)
    /\ SinPrograma(c) => Quieta(c)
    /\ EnDespacho(c) /\ planif.paso = "pcb" => ConDatos(c)
    /\ ~EnDespacho(c) =>
          \A t \in ToSet(cola_exec) : socketCPU[t] = c => ConPrograma(c, t)
    /\ Principal.paso = "pide" /\ Principal.cpu = c => Pide(c, Principal.proc)
    /\ Principal.paso = "pidePCB" /\ Principal.cpu = c => PidePCB(c, Principal.proc)
    /\ Principal.paso = "libera" /\ Principal.cpu = c => Libera(c)
Protocolo == \A c \in CPUs : ProtocoloDe(c)

Inv ==
    /\ NoCae /\ PCBPropio
    /\ Lugares /\ Esperas /\ HiloCoherente /\ Sockets /\ Duenos /\ Despachos /\ Protocolo
-----------------------------------------------------------------------------
(* What a CPU does and what is in its sockets stay, and the Kernel does not *)
(* begin to think otherwise of it.                                          *)
LEMMA ProtocoloSigue ==
  ASSUME NEW d, ProtocoloDe(d),
         cpu'[d] = cpu[d], aCPU'[d] = aCPU[d], aKernel'[d] = aKernel[d],
         SinPrograma(d)' => SinPrograma(d),
         EnDespacho(d)' /\ planif'.paso = "pcb" => EnDespacho(d) /\ planif.paso = "pcb",
         ~ EnDespacho(d)' => \A t \in ToSet(cola_exec') : socketCPU'[t] = d =>
                               ~ EnDespacho(d) /\ t \in ToSet(cola_exec) /\ socketCPU[t] = d,
         \/ Principal' = Principal /\ (Ocupada(d) => Ocupada(d)')
         \/ /\ Principal.cpu = d => Principal.paso # "libera"
            /\ Principal'.cpu = d => Principal'.paso \notin {"pide", "pidePCB", "libera"}
  PROVE  ProtocoloDe(d)'
<1>1. /\ (Parada(d)' <=> Parada(d)) /\ (Callada(d)' <=> Callada(d)) /\ (Sorda(d)' <=> Sorda(d))
      /\ (Quieta(d)' <=> Quieta(d)) /\ (ConDatos(d)' <=> ConDatos(d))
  BY DEF Parada, Callada, Sorda, Quieta, ConDatos
<1>2. ASSUME NEW t PROVE ConPrograma(d, t) => ConPrograma(d, t)'
  <2>1. EnViaje(d, t) => EnViaje(d, t)'
    BY <1>1 DEF EnViaje
  <2>2. Andando(d, t) => Andando(d, t)'
    BY <1>1 DEF Andando
  <2>3. EnWait(d, t) => EnWait(d, t)'
    BY <1>1 DEF EnWait
  <2>4. EnSignal(d, t) => EnSignal(d, t)'
    BY <1>1 DEF EnSignal
  <2>5. Saliendo(d, t) => Saliendo(d, t)'
    BY <1>1 DEF Saliendo
  <2> QED BY <2>1, <2>2, <2>3, <2>4, <2>5 DEF ConPrograma
<1>3. ~ EnDespacho(d)' => \A t \in ToSet(cola_exec') : socketCPU'[t] = d => ConPrograma(d, t)'
  BY <1>2 DEF ProtocoloDe
<1>4. /\ Principal'.paso = "pide" /\ Principal'.cpu = d => Pide(d, Principal.proc)'
      /\ Principal'.paso = "pidePCB" /\ Principal'.cpu = d => PidePCB(d, Principal.proc)'
      /\ Principal'.paso = "libera" /\ Principal'.cpu = d => Libera(d)'
  BY <1>1 DEF ProtocoloDe, Pide, PidePCB, Libera
<1> QED BY <1>1, <1>3, <1>4 DEF ProtocoloDe

-----------------------------------------------------------------------------
(* Short queues: a socket holds at most two packets.                       *)

LEMMA Cortas ==
  /\ \A x : Append(<<>>, x) = <<x>> /\ Head(<<x>>) = x /\ Tail(<<x>>) = <<>>
  /\ \A x, y : /\ Append(<<x>>, y) = <<x, y>>
               /\ Head(<<x, y>>) = x /\ Tail(<<x, y>>) = <<y>>
  /\ \A x, y : <<x>> # <<>> /\ <<x, y>> # <<>> /\ (<<x>> = <<y>> => x = y)
<1>1. ASSUME NEW x
      PROVE  Append(<<>>, x) = <<x>> /\ Head(<<x>>) = x /\ Tail(<<x>>) = <<>> /\ <<x>> # <<>>
  OBVIOUS
<1>2. ASSUME NEW x, NEW y
      PROVE  /\ Append(<<x>>, y) = <<x, y>>
             /\ Head(<<x, y>>) = x /\ Tail(<<x, y>>) = <<y>> /\ <<x, y>> # <<>>
             /\ <<x>> = <<y>> => x = y
  <2>1. Append(<<x>>, y) = <<x, y>>
    <3>1. /\ <<x>> \in Seq({x, y}) /\ Len(<<x>>) = 1
          /\ <<x, y>> \in Seq({x, y}) /\ Len(<<x, y>>) = 2
      OBVIOUS
    <3>2. /\ Append(<<x>>, y) \in Seq({x, y}) /\ Len(Append(<<x>>, y)) = 2
          /\ Append(<<x>>, y)[1] = x /\ Append(<<x>>, y)[2] = y
      BY <3>1, AppendProperties
    <3>3. \A i \in 1..2 : Append(<<x>>, y)[i] = <<x, y>>[i]
      BY <3>2
    <3> QED BY <3>1, <3>2, <3>3, SeqEqual
  <2>2. Head(<<x, y>>) = x
    OBVIOUS
  <2>3. Tail(<<x, y>>) = <<y>>
    OBVIOUS
  <2>4. <<x, y>> # <<>>
    OBVIOUS
  <2>5. <<x>> = <<y>> => x = y
    OBVIOUS
  <2> QED BY <2>1, <2>2, <2>3, <2>4, <2>5
<1> QED BY <1>1, <1>2

(* What the main thread does next, by the way its step ends.               *)

LEMMA AlSeguir ==
  ASSUME TypeOK, NEW E, Sigue("principal", E)
  PROVE  Principal' = E /\ hilo'["consola"] = hilo["consola"]
BY DEF TypeOK, TipoHilos, Hilos, Sigue, Principal

LEMMA AlIr ==
  ASSUME TypeOK, NEW p, IrA("principal", p)
  PROVE  /\ Principal'.paso = p /\ Principal'.proc = Principal.proc
         /\ Principal'.cpu = Principal.cpu /\ Principal'.sem = Principal.sem
         /\ Principal'.luego = Principal.luego
         /\ hilo'["consola"] = hilo["consola"]
BY DEF TypeOK, TipoHilos, TipoHilo, Hilos, IrA, Principal

LEMMA AlTerminar ==
  ASSUME TypeOK, Termina("principal")
  PROVE  /\ hilo'["consola"] = hilo["consola"]
         /\ IF Principal.luego = "select" THEN Principal' = Reposo
            ELSE /\ Principal'.paso = Principal.luego
                 /\ Principal'.proc = Principal.proc
                 /\ Principal'.cpu = Principal.cpu /\ Principal'.sem = Principal.sem
                 /\ Principal'.luego = Principal.luego
<1>1. CASE Principal.luego = "select"
  BY <1>1, AlSeguir DEF Termina, VuelveASelect, Principal
<1>2. CASE Principal.luego # "select"
  BY <1>2, AlIr DEF Termina, Principal
<1> QED BY <1>1, <1>2

(* The queues are sequences, and what they hold are processes.             *)
LEMMA TiposColas ==
  ASSUME TypeOK
  PROVE  /\ cola_new \in Seq(Procesos) /\ cola_ready \in Seq(Procesos)
         /\ cola_exec \in Seq(Procesos) /\ cola_block \in Seq(Procesos)
         /\ cola_exit \in Seq(Procesos) /\ cola_CPU_libres \in Seq(CPUs)
         /\ cola_semaforos \in [Semaforos -> Seq(Procesos)]
         /\ ToSet(cola_new) \subseteq Procesos /\ ToSet(cola_ready) \subseteq Procesos
         /\ ToSet(cola_exec) \subseteq Procesos /\ ToSet(cola_block) \subseteq Procesos
         /\ ToSet(cola_exit) \subseteq Procesos /\ ToSet(cola_CPU_libres) \subseteq CPUs
         /\ \A s \in Semaforos : ToSet(cola_semaforos[s]) \subseteq Procesos
<1>1. /\ cola_new \in Seq(Procesos) /\ cola_ready \in Seq(Procesos)
      /\ cola_exec \in Seq(Procesos) /\ cola_block \in Seq(Procesos)
      /\ cola_exit \in Seq(Procesos) /\ cola_CPU_libres \in Seq(CPUs)
      /\ cola_semaforos \in [Semaforos -> Seq(Procesos)]
  BY DEF TypeOK, TipoColas, TipoLibres, TipoSemaforos
<1> QED BY <1>1, ElementosTipo

(* With every PCB in its process, a pid names one process.                 *)
LEMMA PidDe ==
  ASSUME TypeOK, PCBPropio, NEW t \in Procesos
  PROVE  pcb[t] = t /\ ConPid(pcb[t]) = {t}
BY DEF PCBPropio, ConPid

(* A CPU that wrote something has a process in exec, and only one: the     *)
(* search by socket finds it, and taking it out of exec takes out nothing  *)
(* else.                                                                   *)
LEMMA ElQueEscribe ==
  ASSUME TypeOK, Inv, NEW c \in CPUs, aKernel[c] # <<>>,
         Principal.paso # "pidePCB"
  PROVE  Ocupada(c) /\ ~EnDespacho(c) /\ ~Retenida(c) /\ cpu[c].paso # "desconectada"
<1>1. UnDueno(c) /\ ProtocoloDe(c)
  BY DEF Inv, Duenos, Protocolo
<1>2. ~SinPrograma(c)
  BY <1>1 DEF ProtocoloDe, Quieta, Callada
<1>3. ~EnDespacho(c)
  BY <1>1, <1>2 DEF ProtocoloDe, ConDatos, Callada, EnDespacho, SinPrograma
<1>4. cpu[c].paso # "desconectada"
  BY <1>1 DEF ProtocoloDe, Callada
<1>5. ~Retenida(c)
  BY <1>1, <1>2 DEF ProtocoloDe, SinPrograma, Pide, Callada, Retenida, RetieneCPU, Principal
<1> QED BY <1>1, <1>2, <1>3, <1>4, <1>5 DEF UnDueno, SinPrograma

LEMMA SuProceso ==
  ASSUME TypeOK, Inv, NEW c \in CPUs, Ocupada(c), ~EnDespacho(c),
         NEW t, t = obtenerProcesoSocketCPU(c)
  PROVE  /\ t # Nulo /\ t \in Procesos /\ t \in ToSet(cola_exec) /\ socketCPU[t] = c
         /\ pcb[t] = t /\ ConPrograma(c, t)
         /\ \A u \in ToSet(cola_exec) : socketCPU[u] = c => u = t
         /\ ToSet(eliminarProcesoDeCola(cola_exec, pcb[t])) = ToSet(cola_exec) \ {t}
         /\ SinRepetidos(eliminarProcesoDeCola(cola_exec, pcb[t]))
<1>1. cola_exec \in Seq(Procesos) /\ ToSet(cola_exec) \subseteq Procesos
  BY TiposColas
<1>2. ToSet(cola_exec) \cap ConSocket(c) # {}
  BY <1>1 DEF Ocupada, ConSocket
<1>3. t \in ToSet(cola_exec) /\ t \in ConSocket(c)
  BY <1>1, <1>2, PrimeroDelConjunto DEF obtenerProcesoSocketCPU
<1>4. t \in Procesos /\ socketCPU[t] = c /\ t # Nulo
  BY <1>3, ConjuntosAssumption DEF ConSocket
<1>5. \A u \in ToSet(cola_exec) : socketCPU[u] = c => u = t
  BY <1>3, <1>4 DEF Inv, Sockets
<1>6. ConPrograma(c, t)
  BY <1>3, <1>4 DEF Inv, Protocolo, ProtocoloDe
<1>7. pcb[t] = t /\ ConPid(pcb[t]) = {t}
  BY <1>4, PidDe DEF Inv
<1>8. SinRepetidos(cola_exec)
  BY DEF Inv, Lugares, ColasSinRepetidos
<1>9. /\ ToSet(eliminarProcesoDeCola(cola_exec, pcb[t])) = ToSet(cola_exec) \ {t}
      /\ SinRepetidos(eliminarProcesoDeCola(cola_exec, pcb[t]))
  BY <1>1, <1>7, <1>8, ElementosSinPrimero DEF eliminarProcesoDeCola
<1> QED BY <1>3, <1>4, <1>5, <1>6, <1>7, <1>9

(* What a CPU with a program can have written: a wait, a signal or the     *)
(* program back, and nothing else.                                         *)
LEMMA LoQueEscribe ==
  ASSUME NEW c, NEW t, ConPrograma(c, t), aKernel[c] # <<>>,
         NEW op, op = Head(aKernel[c]).op
  PROVE  /\ Sorda(c) /\ Tail(aKernel[c]) = <<>>
         /\ \/ /\ op = "PEDIR_SEMAFORO" /\ Head(aKernel[c]).dato = cpu[c].sem
               /\ cpu[c].pid = t /\ cpu[c].paso = "wait"
            \/ /\ op = "LIBERAR_SEMAFORO" /\ Head(aKernel[c]).dato \in Semaforos
               /\ cpu[c].pid = t /\ cpu[c].paso = "signal"
            \/ /\ op \in OpsFin \cup {"FIN_QUANTUM"} /\ Head(aKernel[c]).dato = t
               /\ Parada(c)
<1>1. \/ /\ cpu[c].pid = t /\ cpu[c].paso = "wait" /\ Sorda(c)
         /\ aKernel[c] = <<t_paquete("PEDIR_SEMAFORO", cpu[c].sem)>>
      \/ /\ cpu[c].pid = t /\ cpu[c].paso = "signal" /\ Sorda(c)
         /\ \E s \in Semaforos : aKernel[c] = <<t_paquete("LIBERAR_SEMAFORO", s)>>
      \/ Saliendo(c, t)
  BY DEF ConPrograma, EnViaje, Andando, EnWait, EnSignal, Callada
<1>2. ASSUME NEW o, NEW d, aKernel[c] = <<t_paquete(o, d)>>
      PROVE  op = o /\ Head(aKernel[c]).dato = d /\ Tail(aKernel[c]) = <<>>
  <2>1. Head(aKernel[c]) = t_paquete(o, d) /\ Tail(aKernel[c]) = <<>>
    BY <1>2, Cortas
  <2> QED BY <2>1 DEF t_paquete
<1>3. CASE Saliendo(c, t)
  BY <1>2, <1>3 DEF Saliendo
<1>4. CASE /\ cpu[c].pid = t /\ cpu[c].paso = "wait" /\ Sorda(c)
           /\ aKernel[c] = <<t_paquete("PEDIR_SEMAFORO", cpu[c].sem)>>
  BY <1>2, <1>4
<1>5. CASE /\ cpu[c].pid = t /\ cpu[c].paso = "signal" /\ Sorda(c)
           /\ \E s \in Semaforos : aKernel[c] = <<t_paquete("LIBERAR_SEMAFORO", s)>>
  BY <1>2, <1>5
<1> QED BY <1>1, <1>3, <1>4, <1>5

(* pideSemaforo: the process leaves exec, and the main thread has it and   *)
(* its CPU.                                                                *)
LEMMA InvPideSemaforo ==
  ASSUME TypeOK, Inv, NEW c \in CPUs, pideSemaforo(c)
  PROVE  Inv'
<1> PICK t : t = obtenerProcesoSocketCPU(c)
  OBVIOUS
<1>1. /\ Principal.paso = "select" /\ ~caido /\ aKernel[c] # <<>>
      /\ Head(aKernel[c]).op = "PEDIR_SEMAFORO"
  BY DEF pideSemaforo, Llego, EnPaso, Principal
<1>2. Ocupada(c) /\ ~EnDespacho(c) /\ ~Retenida(c) /\ cpu[c].paso # "desconectada"
  BY <1>1, ElQueEscribe
<1>3. /\ t # Nulo /\ t \in Procesos /\ t \in ToSet(cola_exec) /\ socketCPU[t] = c
      /\ pcb[t] = t /\ ConPrograma(c, t)
      /\ \A u \in ToSet(cola_exec) : socketCPU[u] = c => u = t
      /\ ToSet(eliminarProcesoDeCola(cola_exec, pcb[t])) = ToSet(cola_exec) \ {t}
      /\ SinRepetidos(eliminarProcesoDeCola(cola_exec, pcb[t]))
  BY <1>2, SuProceso
<1>4. /\ cpu[c].pid = t /\ cpu[c].paso = "wait" /\ Sorda(c)
      /\ Head(aKernel[c]).dato = cpu[c].sem
      /\ Tail(aKernel[c]) = <<>>
  BY <1>1, <1>3, LoQueEscribe DEF OpsFin
<1>5. /\ Principal'.paso = "pide" /\ Principal'.proc = t /\ Principal'.cpu = c
      /\ Principal'.sem = cpu[c].sem /\ Principal'.luego = "select"
      /\ hilo'["consola"] = hilo["consola"]
  <2>1. Sigue("principal", [Reposo EXCEPT !.paso = "pide", !.proc = t, !.cpu = c,
                                          !.sem = Head(aKernel[c]).dato])
    BY DEF pideSemaforo
  <2>2. /\ Principal' = [Reposo EXCEPT !.paso = "pide", !.proc = t, !.cpu = c,
                                       !.sem = Head(aKernel[c]).dato]
        /\ hilo'["consola"] = hilo["consola"]
    BY <2>1, AlSeguir
  <2> QED BY <1>4, <2>2 DEF Reposo
<1>6. /\ aKernel'[c] = <<>> /\ \A d \in CPUs : d # c => aKernel'[d] = aKernel[d]
  BY <1>4, Cortas DEF pideSemaforo, Consume, TypeOK, TipoRed
<1>7. /\ cola_exec' = eliminarProcesoDeCola(cola_exec, pcb[t])
      /\ UNCHANGED <<cola_new, cola_ready, cola_block, cola_exit, libres,
                   semaforos, cuenta, procesos, sem_ready, mutex_config,
                   planif, caido, aCPU, cpu, programas>>
  BY DEF pideSemaforo
<1>8. Lugares'
  <2>1. Nuevos' /\ ColasSinRepetidos'
    BY <1>1, <1>3, <1>5, <1>7
    DEF Inv, Lugares, Nuevos, ColasSinRepetidos
  <2>2. ASSUME NEW u \in Procesos
        PROVE  UnLugar(u)'
    BY <1>1, <1>3, <1>5, <1>7
    DEF Inv, Lugares, UnLugar, EnCola, Lleva, EnManoDe, Despacha, Principal, procesos
  <2> QED BY <2>1, <2>2 DEF Lugares
<1>9. Esperas' /\ NoCae' /\ PCBPropio'
  BY <1>1, <1>7 DEF Inv, Esperas, NoCae, PCBPropio, semaforos, procesos
<1>10. HiloCoherente'
  BY <1>5 DEF Inv, HiloCoherente, Principal
<1>11. Sockets'
  BY <1>3, <1>5, <1>7 DEF Inv, Sockets, procesos, Principal
<1>12. Duenos'
  <2>1. ASSUME NEW d \in CPUs
        PROVE  UnDueno(d)'
    BY <1>1, <1>2, <1>3, <1>5, <1>7
    DEF Inv, Duenos, UnDueno, Ocupada, Retenida, RetieneCPU, Tomada, Principal, procesos, libres
  <2> QED BY <2>1, <1>7 DEF Inv, Duenos, libres
<1>13. Despachos'
  BY <1>2, <1>3, <1>7 DEF Inv, Despachos, EnDespacho, procesos
<1>14. ASSUME NEW d \in CPUs
       PROVE  ProtocoloDe(d)'
  <2>1. CASE d = c
    BY <2>1, <1>1, <1>2, <1>3, <1>4, <1>5, <1>6, <1>7
    DEF ProtocoloDe, Inv, Duenos, UnDueno, Callada, Sorda, SinPrograma, Retenida, RetieneCPU,
      Tomada, EnDespacho, Pide, Principal, libres, procesos
  <2>2. CASE d # c
    BY <2>2, <1>1, <1>2, <1>3, <1>4, <1>5, <1>6, <1>7
    DEF Inv, Protocolo, ProtocoloDe, Callada, Sorda, Quieta, Parada, ConDatos, ConPrograma, EnViaje, EnWait, EnSignal,
       Andando, Saliendo, SinPrograma, Retenida, RetieneCPU, Tomada, EnDespacho, Pide, Principal, libres, procesos
  <2> QED BY <2>1, <2>2
<1> QED BY <1>8, <1>9, <1>10, <1>11, <1>12, <1>13, <1>14 DEF Inv, Protocolo

(* A CPU enters the free list, with nothing in its sockets.                *)
LEMMA InvNuevaCPU ==
  ASSUME TypeOK, Inv, NEW c \in CPUs, nuevoClienteCPU(c)
  PROVE  Inv'
<1>1. /\ cpu[c].paso = "desconectada" /\ cpu'[c].paso = "espera"
      /\ \A d \in CPUs : d # c => cpu'[d] = cpu[d]
  BY DEF nuevoClienteCPU, TypeOK, TipoCPUs, TipoCPU
<1>2. UnDueno(c) /\ ProtocoloDe(c)
  BY DEF Inv, Duenos, Protocolo
<1>3. /\ ToSet(cola_CPU_libres') = ToSet(cola_CPU_libres) \cup {c}
      /\ SinRepetidos(cola_CPU_libres')
  <2>1. cola_CPU_libres' = Append(cola_CPU_libres, c)
    BY DEF nuevoClienteCPU, encolarCPU
  <2>2. c \notin ToSet(cola_CPU_libres)
    BY <1>1, <1>2 DEF UnDueno
  <2> QED BY <2>1, <2>2, TiposColas, ElementosAppend DEF Inv, Duenos
<1>4. UNCHANGED <<cola_new, cola_ready, cola_exec, cola_block, cola_exit,
                  cola_semaforos, creados, socketCPU, pcb, hilo, planif, caido,
                  aCPU, aKernel>>
  BY DEF nuevoClienteCPU, colas, semaforos, procesos, red
<1>5. Lugares'
  <2>1. Nuevos' /\ ColasSinRepetidos'
    BY <1>1, <1>2, <1>3, <1>4 DEF Inv, Lugares, Nuevos, ColasSinRepetidos, Principal
  <2>2. ASSUME NEW u \in Procesos
        PROVE  UnLugar(u)'
    BY <1>1, <1>2, <1>3, <1>4
    DEF Inv, Lugares, UnLugar, EnCola, Lleva, EnManoDe, Despacha, Principal
  <2> QED BY <2>1, <2>2 DEF Lugares
<1>6. NoCae' /\ PCBPropio' /\ Esperas' /\ HiloCoherente'
  BY <1>1, <1>2, <1>3, <1>4 DEF Inv, NoCae, PCBPropio, Esperas, HiloCoherente, Principal
<1>7. Sockets' /\ Despachos'
  BY <1>1, <1>2, <1>3, <1>4 DEF Inv, Sockets, Despachos, EnDespacho, UnDueno, Ocupada, Principal
<1>8. Duenos'
  <2>1. ASSUME NEW d \in CPUs
        PROVE  UnDueno(d)'
    BY <1>1, <1>2, <1>3, <1>4
    DEF Inv, Duenos, UnDueno, Ocupada, Retenida, RetieneCPU, Tomada, Principal
  <2> QED BY <2>1, <1>1, <1>2, <1>3, <1>4 DEF Inv, Duenos
<1>9. ASSUME NEW d \in CPUs
     PROVE  ProtocoloDe(d)'
  BY <1>1, <1>2, <1>3, <1>4
  DEF Inv, Protocolo, ProtocoloDe, SinPrograma, Retenida, RetieneCPU, Tomada,
      EnDespacho, Quieta, Parada, Callada, Sorda, ConDatos, ConPrograma,
      EnViaje, Andando, EnWait, EnSignal, Saliendo, Pide, PidePCB, Libera,
      Ocupada, Principal
<1> QED BY <1>5, <1>6, <1>7, <1>8, <1>9 DEF Inv, Protocolo

(* A program arrives: its process is in new, and the main thread sees to   *)
(* it until it is admitted or rejected.                                    *)
LEMMA InvNuevoPrograma ==
  ASSUME TypeOK, Inv, NEW t \in Procesos, nuevoProgramaAnsisop(t)
  PROVE  Inv'
<1>1. Principal.paso = "select" /\ t \notin creados /\ creados' = creados \cup {t}
  BY DEF nuevoProgramaAnsisop, EnPaso, Principal
<1>2. cola_new = <<>> /\ UnLugar(t) /\ socketCPU[t] = Nulo
  BY <1>1 DEF Inv, Lugares, Nuevos, Sockets
<1>3. cola_new' = <<t>> /\ ToSet(cola_new) = {} /\ ToSet(cola_new') = {t}
  <2>1. cola_new' = Append(cola_new, t)
    BY DEF nuevoProgramaAnsisop
  <2>2. cola_new' = <<t>>
    BY <1>2, <2>1, Cortas
  <2> QED BY <1>2, <2>2, ElementosCortos
<1>4. /\ Principal'.paso = "grado" /\ Principal'.proc = t /\ Principal'.cpu = Nulo
      /\ Principal'.luego = "select" /\ hilo'["consola"] = hilo["consola"]
  <2>1. Sigue("principal", [Reposo EXCEPT !.paso = "grado", !.proc = t])
    BY DEF nuevoProgramaAnsisop
  <2>2. /\ Principal' = [Reposo EXCEPT !.paso = "grado", !.proc = t]
        /\ hilo'["consola"] = hilo["consola"]
    BY <2>1, AlSeguir
  <2> QED BY <2>2 DEF Reposo
<1>5. UNCHANGED <<cola_ready, cola_exec, cola_block, cola_exit, cola_CPU_libres,
                  cola_semaforos, socketCPU, pcb, planif, caido, aCPU, aKernel, cpu>>
  BY DEF nuevoProgramaAnsisop, libres, semaforos, red
<1>6. Lugares'
  <2>1. Nuevos' /\ ColasSinRepetidos'
    BY <1>1, <1>2, <1>3, <1>4, <1>5 DEF Inv, Lugares, Nuevos, ColasSinRepetidos, Principal
  <2>2. ASSUME NEW u \in Procesos
        PROVE  UnLugar(u)'
    BY <1>1, <1>2, <1>3, <1>4, <1>5
    DEF Inv, Lugares, UnLugar, EnCola, Lleva, EnManoDe, Despacha, Principal
  <2> QED BY <2>1, <2>2 DEF Lugares
<1>7. NoCae' /\ PCBPropio' /\ Esperas' /\ HiloCoherente'
  BY <1>1, <1>2, <1>3, <1>4, <1>5 DEF Inv, NoCae, PCBPropio, Esperas, HiloCoherente, Principal
<1>8. Sockets' /\ Despachos'
  BY <1>1, <1>2, <1>3, <1>4, <1>5 DEF Inv, Sockets, Despachos, EnDespacho, UnDueno, Ocupada, Principal
<1>9. Duenos'
  <2>1. ASSUME NEW d \in CPUs
        PROVE  UnDueno(d)'
    BY <1>1, <1>2, <1>3, <1>4, <1>5
    DEF Inv, Duenos, UnDueno, Ocupada, Retenida, RetieneCPU, Tomada, Principal
  <2> QED BY <2>1, <1>1, <1>2, <1>3, <1>4, <1>5 DEF Inv, Duenos
<1>10. ASSUME NEW d \in CPUs
     PROVE  ProtocoloDe(d)'
  BY <1>1, <1>2, <1>3, <1>4, <1>5
  DEF Inv, Protocolo, ProtocoloDe, SinPrograma, Retenida, RetieneCPU, Tomada,
      EnDespacho, Quieta, Parada, Callada, Sorda, ConDatos, ConPrograma,
      EnViaje, Andando, EnWait, EnSignal, Saliendo, Pide, PidePCB, Libera,
      Ocupada, Principal
<1> QED BY <1>6, <1>7, <1>8, <1>9, <1>10 DEF Inv, Protocolo

(* It leaves new: rejected, on its way to exit, or admitted, to ready.     *)
LEMMA InvSaleDeNew ==
  ASSUME TypeOK, Inv, rechazarPorGrado \/ admitir
  PROVE  Inv'
<1> PICK t : t = Principal.proc
  OBVIOUS
<1>1. Principal.paso \in {"grado", "memoria"} /\ cola_new = <<t>>
  BY DEF rechazarPorGrado, admitir, EnPaso, Principal, Inv, Lugares, Nuevos
<1>2. Head(cola_new) = t /\ cola_new' = <<>>
  BY <1>1, Cortas DEF rechazarPorGrado, admitir
<1>3. /\ ToSet(cola_new') = {} /\ ToSet(cola_new) = {t} /\ t \in Procesos
      /\ UnLugar(t) /\ socketCPU[t] = Nulo /\ Nulo \notin CPUs
  <2>1. ToSet(cola_new') = {} /\ ToSet(cola_new) = {t}
    BY <1>1, <1>2, ElementosCortos
  <2>2. t \in Procesos
    BY <2>1, TiposColas
  <2> QED BY <2>1, <2>2, ConjuntosAssumption DEF Inv, Lugares, Sockets
<1>4. /\ Principal'.paso \in {"exit", "listo"} /\ Principal'.proc = t
      /\ Principal'.cpu = Nulo
      /\ Principal'.luego = "select" /\ hilo'["consola"] = hilo["consola"]
  <2>1. \/ Sigue("principal", [Reposo EXCEPT !.paso = "exit", !.proc = t])
        \/ Sigue("principal", [Reposo EXCEPT !.paso = "listo", !.proc = t])
    BY <1>2 DEF rechazarPorGrado, admitir
  <2>2. /\ \/ Principal' = [Reposo EXCEPT !.paso = "exit", !.proc = t]
           \/ Principal' = [Reposo EXCEPT !.paso = "listo", !.proc = t]
        /\ hilo'["consola"] = hilo["consola"]
    BY <2>1, AlSeguir
  <2> QED BY <2>2 DEF Reposo
<1>5. UNCHANGED <<cola_ready, cola_exec, cola_block, cola_exit, cola_CPU_libres,
                  cola_semaforos, creados, socketCPU, pcb, planif, caido, aCPU,
                  aKernel, cpu>>
  BY DEF rechazarPorGrado, admitir, libres, semaforos, red, procesos
<1>6. Lugares'
  <2>1. Nuevos' /\ ColasSinRepetidos'
    BY <1>1, <1>2, <1>3, <1>4, <1>5 DEF Inv, Lugares, Nuevos, ColasSinRepetidos, Principal
  <2>2. ASSUME NEW u \in Procesos
        PROVE  UnLugar(u)'
    BY <1>1, <1>2, <1>3, <1>4, <1>5
    DEF Inv, Lugares, UnLugar, EnCola, Lleva, EnManoDe, Despacha, Principal
  <2> QED BY <2>1, <2>2 DEF Lugares
<1>7. NoCae' /\ PCBPropio' /\ Esperas' /\ HiloCoherente'
  BY <1>1, <1>2, <1>3, <1>4, <1>5 DEF Inv, NoCae, PCBPropio, Esperas, HiloCoherente, Principal
<1>8. Sockets' /\ Despachos'
  BY <1>1, <1>2, <1>3, <1>4, <1>5 DEF Inv, Sockets, Despachos, EnDespacho, UnDueno, Ocupada, Principal
<1>9. Duenos'
  <2>1. ASSUME NEW d \in CPUs
        PROVE  UnDueno(d)'
    BY <1>1, <1>2, <1>3, <1>4, <1>5
    DEF Inv, Duenos, UnDueno, Ocupada, Retenida, RetieneCPU, Tomada, Principal
  <2> QED BY <2>1, <1>1, <1>2, <1>3, <1>4, <1>5 DEF Inv, Duenos
<1>10. ASSUME NEW d \in CPUs
     PROVE  ProtocoloDe(d)'
  BY <1>1, <1>2, <1>3, <1>4, <1>5
  DEF Inv, Protocolo, ProtocoloDe, SinPrograma, Retenida, RetieneCPU, Tomada,
      EnDespacho, Quieta, Parada, Callada, Sorda, ConDatos, ConPrograma,
      EnViaje, Andando, EnWait, EnSignal, Saliendo, Pide, PidePCB, Libera,
      Ocupada, Principal
<1> QED BY <1>6, <1>7, <1>8, <1>9, <1>10 DEF Inv, Protocolo

(* What the main thread has at hand has its type.                          *)
LEMMA EnLaMano ==
  ASSUME TypeOK
  PROVE  /\ Principal.paso \in {"listo", "pide", "pidePCB", "exit", "cpuDe", "fin"} =>
               Principal.proc \in Procesos
         /\ Principal.paso \in {"cpu", "pide", "pidePCB", "cpuSem", "libera"} =>
               Principal.cpu \in CPUs
         /\ Principal.luego = "cpu" => Principal.cpu \in CPUs
         /\ Principal.paso \in {"pide", "pidePCB", "libera"} => Principal.sem \in Semaforos
         /\ Principal.cpu \in CPUs \cup {Nulo}
BY DEF TypeOK, TipoHilos, TipoHilo, Hilos, Principal

(* The main thread asks Memoria for room.                                  *)
LEMMA InvPedirMemoria ==
  ASSUME TypeOK, Inv, pedirMemoria
  PROVE  Inv'
<1>1. Principal.paso = "grado"
  BY DEF pedirMemoria, EnPaso, Principal
<1>2. /\ Principal'.paso = "memoria" /\ Principal'.proc = Principal.proc
      /\ Principal'.cpu = Principal.cpu /\ Principal'.luego = Principal.luego
      /\ hilo'["consola"] = hilo["consola"]
  BY AlIr DEF pedirMemoria
<1>3. UNCHANGED <<cola_new, cola_ready, cola_exec, cola_block, cola_exit,
                  cola_CPU_libres, cola_semaforos, creados, socketCPU, pcb, planif,
                  caido, aCPU, aKernel, cpu>>
  BY DEF pedirMemoria, colas, libres, semaforos, red, procesos
<1>4. Lugares'
  <2>1. Nuevos' /\ ColasSinRepetidos'
    BY <1>1, <1>2, <1>3 DEF Inv, Lugares, Nuevos, ColasSinRepetidos, Principal
  <2>2. ASSUME NEW u \in Procesos
        PROVE  UnLugar(u)'
    BY <1>1, <1>2, <1>3
    DEF Inv, Lugares, UnLugar, EnCola, Lleva, EnManoDe, Despacha, Principal
  <2> QED BY <2>1, <2>2 DEF Lugares
<1>5. NoCae' /\ PCBPropio' /\ Esperas' /\ HiloCoherente'
  BY <1>1, <1>2, <1>3 DEF Inv, NoCae, PCBPropio, Esperas, HiloCoherente, Principal
<1>6. Sockets' /\ Despachos'
  BY <1>1, <1>2, <1>3 DEF Inv, Sockets, Despachos, EnDespacho, UnDueno, Ocupada, Principal
<1>7. Duenos'
  <2>1. ASSUME NEW d \in CPUs
        PROVE  UnDueno(d)'
    BY <1>1, <1>2, <1>3
    DEF Inv, Duenos, UnDueno, Ocupada, Retenida, RetieneCPU, Tomada, Principal
  <2> QED BY <2>1, <1>1, <1>2, <1>3 DEF Inv, Duenos
<1>8. ASSUME NEW d \in CPUs
     PROVE  ProtocoloDe(d)'
  BY <1>1, <1>2, <1>3
  DEF Inv, Protocolo, ProtocoloDe, SinPrograma, Retenida, RetieneCPU, Tomada,
      EnDespacho, Quieta, Parada, Callada, Sorda, ConDatos, ConPrograma,
      EnViaje, Andando, EnWait, EnSignal, Saliendo, Pide, PidePCB, Libera,
      Ocupada, Principal
<1> QED BY <1>4, <1>5, <1>6, <1>7, <1>8 DEF Inv, Protocolo

(* liberarSemaforo: the main thread holds nothing, and will answer.        *)
LEMMA InvLiberarSemaforo ==
  ASSUME TypeOK, Inv, NEW c \in CPUs, liberarSemaforo(c)
  PROVE  Inv'
<1> PICK t : t = obtenerProcesoSocketCPU(c)
  OBVIOUS
<1>1. /\ Principal.paso = "select" /\ aKernel[c] # <<>>
      /\ Head(aKernel[c]).op = "LIBERAR_SEMAFORO"
  BY DEF liberarSemaforo, Llego, EnPaso, Principal
<1>2. Ocupada(c) /\ ~EnDespacho(c) /\ ~Retenida(c) /\ cpu[c].paso # "desconectada"
  BY <1>1, ElQueEscribe
<1>3. /\ t # Nulo /\ t \in Procesos /\ t \in ToSet(cola_exec) /\ socketCPU[t] = c
      /\ pcb[t] = t /\ ConPrograma(c, t)
      /\ \A u \in ToSet(cola_exec) : socketCPU[u] = c => u = t
      /\ ToSet(eliminarProcesoDeCola(cola_exec, pcb[t])) = ToSet(cola_exec) \ {t}
      /\ SinRepetidos(eliminarProcesoDeCola(cola_exec, pcb[t]))
  BY <1>2, SuProceso
<1>4. /\ cpu[c].pid = t /\ cpu[c].paso = "signal" /\ Sorda(c)
      /\ Tail(aKernel[c]) = <<>>
  BY <1>1, <1>3, LoQueEscribe DEF OpsFin
<1>5. /\ Principal'.paso = "libera" /\ Principal'.proc = Nulo /\ Principal'.cpu = c
      /\ Principal'.luego = "select" /\ hilo'["consola"] = hilo["consola"]
  <2>1. Sigue("principal", [Reposo EXCEPT !.paso = "libera", !.cpu = c,
                                          !.sem = Head(aKernel[c]).dato])
    BY DEF liberarSemaforo
  <2>2. /\ Principal' = [Reposo EXCEPT !.paso = "libera", !.cpu = c,
                                       !.sem = Head(aKernel[c]).dato]
        /\ hilo'["consola"] = hilo["consola"]
    BY <2>1, AlSeguir
  <2> QED BY <2>2 DEF Reposo
<1>6. /\ aKernel'[c] = <<>> /\ \A d \in CPUs : d # c => aKernel'[d] = aKernel[d]
  BY <1>4 DEF liberarSemaforo, Consume, TypeOK, TipoRed
<1>7. UNCHANGED <<cola_new, cola_ready, cola_exec, cola_block, cola_exit,
                  cola_CPU_libres, cola_semaforos, creados, socketCPU, pcb, planif,
                  caido, aCPU, cpu>>
  BY DEF liberarSemaforo, colas, libres, semaforos, procesos
<1>8. Lugares'
  <2>1. Nuevos' /\ ColasSinRepetidos'
    BY <1>1, <1>2, <1>3, <1>4, <1>5, <1>6, <1>7 DEF Inv, Lugares, Nuevos, ColasSinRepetidos, Principal
  <2>2. ASSUME NEW u \in Procesos
        PROVE  UnLugar(u)'
    BY <1>1, <1>2, <1>3, <1>4, <1>5, <1>6, <1>7
    DEF Inv, Lugares, UnLugar, EnCola, Lleva, EnManoDe, Despacha, Principal
  <2> QED BY <2>1, <2>2 DEF Lugares
<1>9. NoCae' /\ PCBPropio' /\ Esperas' /\ HiloCoherente'
  BY <1>1, <1>2, <1>3, <1>4, <1>5, <1>6, <1>7 DEF Inv, NoCae, PCBPropio, Esperas, HiloCoherente, Principal
<1>10. Sockets' /\ Despachos'
  BY <1>1, <1>2, <1>3, <1>4, <1>5, <1>6, <1>7 DEF Inv, Sockets, Despachos, EnDespacho, UnDueno, Ocupada, Principal
<1>11. Duenos'
  <2>1. ASSUME NEW d \in CPUs
        PROVE  UnDueno(d)'
    BY <1>1, <1>2, <1>3, <1>4, <1>5, <1>6, <1>7
    DEF Inv, Duenos, UnDueno, Ocupada, Retenida, RetieneCPU, Tomada, Principal
  <2> QED BY <2>1, <1>1, <1>2, <1>3, <1>4, <1>5, <1>6, <1>7 DEF Inv, Duenos
<1>12. ASSUME NEW d \in CPUs
     PROVE  ProtocoloDe(d)'
  BY <1>1, <1>2, <1>3, <1>4, <1>5, <1>6, <1>7
  DEF Inv, Protocolo, ProtocoloDe, SinPrograma, Retenida, RetieneCPU, Tomada,
      EnDespacho, Quieta, Parada, Callada, Sorda, ConDatos, ConPrograma,
      EnViaje, Andando, EnWait, EnSignal, Saliendo, Pide, PidePCB, Libera,
      Ocupada, Principal
<1> QED BY <1>8, <1>9, <1>10, <1>11, <1>12 DEF Inv, Protocolo

(* The quantum of a process ended, or the process itself: the CPU gave it  *)
(* back and waits for another one; the main thread has both.               *)
LEMMA InvVuelveElPrograma ==
  ASSUME TypeOK, Inv, NEW c \in CPUs, finQuantum(c) \/ finalizarProgramaKernel(c)
  PROVE  Inv'
<1> PICK t : t = obtenerProcesoSocketCPU(c)
  OBVIOUS
<1>1. /\ Principal.paso = "select" /\ aKernel[c] # <<>>
      /\ Head(aKernel[c]).op \in OpsFin \cup {"FIN_QUANTUM"}
  BY DEF finQuantum, finalizarProgramaKernel, Llego, EnPaso, Principal
<1>2. Ocupada(c) /\ ~EnDespacho(c) /\ ~Retenida(c) /\ cpu[c].paso # "desconectada"
  BY <1>1, ElQueEscribe
<1>3. /\ t # Nulo /\ t \in Procesos /\ t \in ToSet(cola_exec) /\ socketCPU[t] = c
      /\ pcb[t] = t /\ ConPrograma(c, t)
      /\ \A u \in ToSet(cola_exec) : socketCPU[u] = c => u = t
      /\ ToSet(eliminarProcesoDeCola(cola_exec, pcb[t])) = ToSet(cola_exec) \ {t}
      /\ SinRepetidos(eliminarProcesoDeCola(cola_exec, pcb[t]))
  BY <1>2, SuProceso
<1>4. /\ Head(aKernel[c]).dato = t /\ Parada(c) /\ Sorda(c) /\ Tail(aKernel[c]) = <<>>
  BY <1>1, <1>3, LoQueEscribe DEF OpsFin
<1>5. /\ \/ Principal'.paso = "listo" /\ Principal'.cpu = c /\ Principal'.luego = "cpu"
         \/ Principal'.paso = "exit" /\ Principal'.luego = "select"
      /\ Principal'.proc = t /\ hilo'["consola"] = hilo["consola"]
  <2>1. \/ Sigue("principal", [Reposo EXCEPT !.paso = "listo", !.proc = t, !.cpu = c,
                                             !.luego = "cpu"])
        \/ Sigue("principal", [Reposo EXCEPT !.paso = "exit", !.proc = t])
    BY DEF finQuantum, finalizarProgramaKernel
  <2>2. /\ \/ Principal' = [Reposo EXCEPT !.paso = "listo", !.proc = t, !.cpu = c,
                                          !.luego = "cpu"]
           \/ Principal' = [Reposo EXCEPT !.paso = "exit", !.proc = t]
        /\ hilo'["consola"] = hilo["consola"]
    BY <2>1, AlSeguir
  <2> QED BY <2>2 DEF Reposo
<1>6. /\ aKernel'[c] = <<>> /\ \A d \in CPUs : d # c => aKernel'[d] = aKernel[d]
  BY <1>4 DEF finQuantum, finalizarProgramaKernel, Consume, TypeOK, TipoRed
<1>7. /\ cola_exec' = eliminarProcesoDeCola(cola_exec, pcb[t])
      /\ pcb' = pcb
  <2>1. pcb' = [pcb EXCEPT ![t] = Head(aKernel[c]).dato] \/ pcb' = pcb
    BY DEF finQuantum, finalizarProgramaKernel, procesos
  <2> QED BY <2>1, <1>3, <1>4 DEF finQuantum, finalizarProgramaKernel, TypeOK, TipoProcesos
<1>8. UNCHANGED <<cola_new, cola_ready, cola_block, cola_exit, cola_CPU_libres,
                  cola_semaforos, creados, socketCPU, planif, caido, aCPU, cpu>>
  BY DEF finQuantum, finalizarProgramaKernel, libres, semaforos, procesos
<1>9. c # Nulo
  BY ConjuntosAssumption
<1>10. Lugares'
  <2>1. Nuevos' /\ ColasSinRepetidos'
    BY <1>1, <1>2, <1>3, <1>4, <1>5, <1>6, <1>7, <1>8, <1>9 DEF Inv, Lugares, Nuevos, ColasSinRepetidos, Principal
  <2>2. ASSUME NEW u \in Procesos
        PROVE  UnLugar(u)'
    BY <1>1, <1>2, <1>3, <1>4, <1>5, <1>6, <1>7, <1>8, <1>9
    DEF Inv, Lugares, UnLugar, EnCola, Lleva, EnManoDe, Despacha, Principal
  <2> QED BY <2>1, <2>2 DEF Lugares
<1>11. NoCae' /\ PCBPropio' /\ Esperas' /\ HiloCoherente'
  BY <1>1, <1>2, <1>3, <1>4, <1>5, <1>6, <1>7, <1>8, <1>9 DEF Inv, NoCae, PCBPropio, Esperas, HiloCoherente, Principal
<1>12. Sockets' /\ Despachos'
  BY <1>1, <1>2, <1>3, <1>4, <1>5, <1>6, <1>7, <1>8, <1>9 DEF Inv, Sockets, Despachos, EnDespacho, UnDueno, Ocupada, Principal
<1>13. Duenos'
  <2>1. ASSUME NEW d \in CPUs
        PROVE  UnDueno(d)'
    BY <1>1, <1>2, <1>3, <1>4, <1>5, <1>6, <1>7, <1>8, <1>9
    DEF Inv, Duenos, UnDueno, Ocupada, Retenida, RetieneCPU, Tomada, Principal
  <2> QED BY <2>1, <1>1, <1>2, <1>3, <1>4, <1>5, <1>6, <1>7, <1>8, <1>9 DEF Inv, Duenos
<1>14. ASSUME NEW d \in CPUs
     PROVE  ProtocoloDe(d)'
  BY <1>1, <1>2, <1>3, <1>4, <1>5, <1>6, <1>7, <1>8, <1>9
  DEF Inv, Protocolo, ProtocoloDe, SinPrograma, Retenida, RetieneCPU, Tomada,
      EnDespacho, Quieta, Parada, Callada, Sorda, ConDatos, ConPrograma,
      EnViaje, Andando, EnWait, EnSignal, Saliendo, Pide, PidePCB, Libera,
      Ocupada, Principal
<1> QED BY <1>10, <1>11, <1>12, <1>13, <1>14 DEF Inv, Protocolo

(* The semaphore has units: the process is back in exec, and its CPU will  *)
(* read that it may go on.                                                 *)
LEMMA InvPideSemaforoOK ==
  ASSUME TypeOK, Inv, pideSemaforoOK
  PROVE  Inv'
<1> PICK t, c : t = Principal.proc /\ c = Principal.cpu
  OBVIOUS
<1>1. Principal.paso = "pide"
  BY DEF pideSemaforoOK, EnPaso, Principal
<1>2. t \in Procesos /\ c \in CPUs /\ Retenida(c) /\ Lleva(t)
  BY <1>1, EnLaMano DEF Retenida, RetieneCPU, Lleva, EnManoDe, Principal
<1>3. UnLugar(t) /\ UnDueno(c) /\ ProtocoloDe(c) /\ socketCPU[t] = c /\ Pide(c, t)
  BY <1>1, <1>2 DEF Inv, Lugares, Duenos, Protocolo, ProtocoloDe, Sockets
<1>4. /\ ToSet(cola_exec') = ToSet(cola_exec) \cup {t}
      /\ SinRepetidos(cola_exec')
  <2>1. cola_exec' = Append(cola_exec, t)
    BY DEF pideSemaforoOK, Principal
  <2>2. t \notin ToSet(cola_exec)
    BY <1>2, <1>3 DEF UnLugar, EnCola
  <2> QED BY <1>2, <2>1, <2>2, TiposColas, ElementosAppend
      DEF Inv, Lugares, ColasSinRepetidos
<1>5. /\ aCPU'[c] = <<t_paquete("PEDIDO_SEMAFORO_OK", Nulo)>>
      /\ \A d \in CPUs : d # c => aCPU'[d] = aCPU[d]
  BY <1>2, <1>3, Cortas
  DEF pideSemaforoOK, Pide, Sorda, TypeOK, TipoRed, Principal
<1>6. /\ Principal'.paso = "select" /\ Principal'.luego = "select"
      /\ hilo'["consola"] = hilo["consola"]
  BY AlSeguir DEF pideSemaforoOK, VuelveASelect, Reposo
<1>7. UNCHANGED <<cola_new, cola_ready, cola_block, cola_exit, cola_CPU_libres,
                  cola_semaforos, creados, socketCPU, pcb, planif, caido,
                  aKernel, cpu>>
  BY DEF pideSemaforoOK, libres, procesos
<1>8. Lugares'
  <2>1. Nuevos' /\ ColasSinRepetidos'
    BY <1>1, <1>2, <1>3, <1>4, <1>5, <1>6, <1>7 DEF Inv, Lugares, Nuevos, ColasSinRepetidos, Principal
  <2>2. ASSUME NEW u \in Procesos
        PROVE  UnLugar(u)'
    BY <1>1, <1>2, <1>3, <1>4, <1>5, <1>6, <1>7
    DEF Inv, Lugares, UnLugar, EnCola, Lleva, EnManoDe, Despacha, Principal
  <2> QED BY <2>1, <2>2 DEF Lugares
<1>9. NoCae' /\ PCBPropio' /\ Esperas' /\ HiloCoherente'
  BY <1>1, <1>2, <1>3, <1>4, <1>5, <1>6, <1>7 DEF Inv, NoCae, PCBPropio, Esperas, HiloCoherente, Principal
<1>10. Sockets' /\ Despachos'
  BY <1>1, <1>2, <1>3, <1>4, <1>5, <1>6, <1>7 DEF Inv, Sockets, Despachos, EnDespacho, UnDueno, Ocupada, Principal
<1>11. Duenos'
  <2>1. ASSUME NEW d \in CPUs
        PROVE  UnDueno(d)'
    BY <1>1, <1>2, <1>3, <1>4, <1>5, <1>6, <1>7
    DEF Inv, Duenos, UnDueno, Ocupada, Retenida, RetieneCPU, Tomada, Principal
  <2> QED BY <2>1, <1>1, <1>2, <1>3, <1>4, <1>5, <1>6, <1>7 DEF Inv, Duenos
<1>12. ASSUME NEW d \in CPUs
     PROVE  ProtocoloDe(d)'
  BY <1>1, <1>2, <1>3, <1>4, <1>5, <1>6, <1>7
  DEF Inv, Protocolo, ProtocoloDe, SinPrograma, Retenida, RetieneCPU, Tomada,
      EnDespacho, Quieta, Parada, Callada, Sorda, ConDatos, ConPrograma,
      EnViaje, Andando, EnWait, EnSignal, Saliendo, Pide, PidePCB, Libera,
      Ocupada, Principal
<1> QED BY <1>8, <1>9, <1>10, <1>11, <1>12 DEF Inv, Protocolo

(* No units: the CPU will read that its program blocks, and send it back.  *)
LEMMA InvPideSemaforoFallo ==
  ASSUME TypeOK, Inv, pideSemaforoFallo
  PROVE  Inv'
<1> PICK t, c : t = Principal.proc /\ c = Principal.cpu
  OBVIOUS
<1>1. Principal.paso = "pide"
  BY DEF pideSemaforoFallo, EnPaso, Principal
<1>2. t \in Procesos /\ c \in CPUs /\ Retenida(c)
  BY <1>1, EnLaMano DEF Retenida, RetieneCPU, Principal
<1>3. UnDueno(c) /\ ProtocoloDe(c) /\ socketCPU[t] = c /\ Pide(c, t)
  BY <1>1, <1>2 DEF Inv, Duenos, Protocolo, ProtocoloDe, Sockets
<1>4. /\ aCPU'[c] = <<t_paquete("PEDIDO_SEMAFORO_FALLO", Nulo)>>
      /\ \A d \in CPUs : d # c => aCPU'[d] = aCPU[d]
  BY <1>2, <1>3, Cortas
  DEF pideSemaforoFallo, Pide, Sorda, TypeOK, TipoRed, Principal
<1>5. /\ Principal'.paso = "pidePCB" /\ Principal'.proc = t
      /\ Principal'.cpu = c /\ Principal'.luego = Principal.luego
      /\ Principal'.sem = Principal.sem
      /\ hilo'["consola"] = hilo["consola"]
  BY AlIr DEF pideSemaforoFallo
<1>6. UNCHANGED <<cola_new, cola_ready, cola_exec, cola_block, cola_exit,
                  cola_CPU_libres, cola_semaforos, creados, socketCPU, pcb, planif,
                  caido, aKernel, cpu>>
  BY DEF pideSemaforoFallo, colas, libres, semaforos, procesos
<1>7. Lugares'
  <2>1. Nuevos' /\ ColasSinRepetidos'
    BY <1>1, <1>2, <1>3, <1>4, <1>5, <1>6 DEF Inv, Lugares, Nuevos, ColasSinRepetidos, Principal
  <2>2. ASSUME NEW u \in Procesos
        PROVE  UnLugar(u)'
    BY <1>1, <1>2, <1>3, <1>4, <1>5, <1>6
    DEF Inv, Lugares, UnLugar, EnCola, Lleva, EnManoDe, Despacha, Principal
  <2> QED BY <2>1, <2>2 DEF Lugares
<1>8. NoCae' /\ PCBPropio' /\ Esperas' /\ HiloCoherente'
  BY <1>1, <1>2, <1>3, <1>4, <1>5, <1>6 DEF Inv, NoCae, PCBPropio, Esperas, HiloCoherente, Principal
<1>9. Sockets' /\ Despachos'
  BY <1>1, <1>2, <1>3, <1>4, <1>5, <1>6 DEF Inv, Sockets, Despachos, EnDespacho, UnDueno, Ocupada, Principal
<1>10. Duenos'
  <2>1. ASSUME NEW d \in CPUs
        PROVE  UnDueno(d)'
    BY <1>1, <1>2, <1>3, <1>4, <1>5, <1>6
    DEF Inv, Duenos, UnDueno, Ocupada, Retenida, RetieneCPU, Tomada, Principal
  <2> QED BY <2>1, <1>1, <1>2, <1>3, <1>4, <1>5, <1>6 DEF Inv, Duenos
<1>11. ASSUME NEW d \in CPUs
     PROVE  ProtocoloDe(d)'
  BY <1>1, <1>2, <1>3, <1>4, <1>5, <1>6
  DEF Inv, Protocolo, ProtocoloDe, SinPrograma, Retenida, RetieneCPU, Tomada,
      EnDespacho, Quieta, Parada, Callada, Sorda, ConDatos, ConPrograma,
      EnViaje, Andando, EnWait, EnSignal, Saliendo, Pide, PidePCB, Libera,
      Ocupada, Principal
<1> QED BY <1>7, <1>8, <1>9, <1>10, <1>11 DEF Inv, Protocolo

(* The PCB of the blocked process arrives: it enters block and the queue   *)
(* of the semaphore.                                                       *)
LEMMA InvBloquear ==
  ASSUME TypeOK, Inv, bloqueoSemaforo
  PROVE  Inv'
<1> PICK t, c, s : t = Principal.proc /\ c = Principal.cpu /\ s = Principal.sem
  OBVIOUS
<1>1. Principal.paso = "pidePCB" /\ aKernel[c] # <<>>
  BY DEF bloqueoSemaforo, EnPaso, Principal
<1>2. t \in Procesos /\ c \in CPUs /\ s \in Semaforos /\ Retenida(c) /\ Lleva(t)
  BY <1>1, EnLaMano DEF Retenida, RetieneCPU, Lleva, EnManoDe, Principal
<1>3. UnLugar(t) /\ UnDueno(c) /\ ProtocoloDe(c) /\ socketCPU[t] = c /\ PidePCB(c, t)
      /\ pcb[t] = t
  BY <1>1, <1>2 DEF Inv, Lugares, Duenos, Protocolo, ProtocoloDe, Sockets, PCBPropio
<1>4. /\ Parada(c) /\ Sorda(c) /\ Tail(aKernel[c]) = <<>>
      /\ Head(aKernel[c]).op = "PROGRAMA_BLOQUEADO_SEMAFORO"
      /\ Head(aKernel[c]).dato = t
  <2>1. /\ Parada(c) /\ Sorda(c)
        /\ aKernel[c] = <<t_paquete("PROGRAMA_BLOQUEADO_SEMAFORO", t)>>
    BY <1>1, <1>3 DEF PidePCB, Callada
  <2>2. /\ Head(aKernel[c]) = t_paquete("PROGRAMA_BLOQUEADO_SEMAFORO", t)
        /\ Tail(aKernel[c]) = <<>>
    BY <2>1, Cortas
  <2> QED BY <2>1, <2>2 DEF t_paquete
<1>5. bloquear(Principal)
  BY <1>4 DEF bloqueoSemaforo, OpsConPCB, Principal
<1>6. /\ ToSet(cola_block') = ToSet(cola_block) \cup {t} /\ SinRepetidos(cola_block')
      /\ t \notin ToSet(cola_block)
  <2>1. cola_block' = Append(cola_block, t)
    BY <1>5 DEF bloquear
  <2>2. t \notin ToSet(cola_block)
    BY <1>2, <1>3 DEF UnLugar, EnCola
  <2> QED BY <1>2, <2>1, <2>2, TiposColas, ElementosAppend
      DEF Inv, Lugares, ColasSinRepetidos
<1>7. /\ ToSet(cola_semaforos'[s]) = ToSet(cola_semaforos[s]) \cup {t}
      /\ SinRepetidos(cola_semaforos'[s])
      /\ \A r \in Semaforos : r # s => cola_semaforos'[r] = cola_semaforos[r]
      /\ \A r \in Semaforos : t \notin ToSet(cola_semaforos[r])
  <2>1. /\ cola_semaforos'[s] = Append(cola_semaforos[s], t)
        /\ \A r \in Semaforos : r # s => cola_semaforos'[r] = cola_semaforos[r]
    BY <1>2, <1>5 DEF bloquear, TypeOK, TipoSemaforos
  <2>2. \A r \in Semaforos : t \notin ToSet(cola_semaforos[r])
    BY <1>2, <1>6 DEF Inv, Esperas
  <2> QED BY <1>2, <2>1, <2>2, TiposColas, ElementosAppend DEF Inv, Esperas
<1>8. /\ Principal'.paso = "cpuSem" /\ Principal'.proc = t
      /\ Principal'.cpu = c /\ hilo'["consola"] = hilo["consola"]
  BY <1>5, AlIr DEF bloquear
<1>9. /\ aKernel'[c] = <<>> /\ \A d \in CPUs : d # c => aKernel'[d] = aKernel[d]
  BY <1>2, <1>4, <1>5 DEF bloquear, Consume, TypeOK, TipoRed
<1>10. pcb' = pcb
  BY <1>2, <1>3, <1>4, <1>5 DEF bloquear, TypeOK, TipoProcesos
<1>11. UNCHANGED <<cola_new, cola_ready, cola_exec, cola_exit, cola_CPU_libres,
                   creados, socketCPU, planif, caido, aCPU, cpu>>
  BY <1>5 DEF bloquear, libres, procesos
<1>12. Lugares'
  <2>1. Nuevos' /\ ColasSinRepetidos'
    BY <1>1, <1>2, <1>3, <1>4, <1>6, <1>8, <1>9, <1>10, <1>11 DEF Inv, Lugares, Nuevos, ColasSinRepetidos, Principal
  <2>2. ASSUME NEW u \in Procesos
        PROVE  UnLugar(u)'
    BY <1>1, <1>2, <1>3, <1>4, <1>6, <1>8, <1>9, <1>10, <1>11
    DEF Inv, Lugares, UnLugar, EnCola, Lleva, EnManoDe, Despacha, Principal
  <2> QED BY <2>1, <2>2 DEF Lugares
<1>13. NoCae' /\ PCBPropio' /\ HiloCoherente'
  BY <1>1, <1>2, <1>3, <1>4, <1>6, <1>8, <1>9, <1>10, <1>11 DEF Inv, NoCae, PCBPropio, HiloCoherente, Principal
<1>14. Sockets' /\ Despachos'
  BY <1>1, <1>2, <1>3, <1>4, <1>6, <1>8, <1>9, <1>10, <1>11 DEF Inv, Sockets, Despachos, EnDespacho, UnDueno, Ocupada, Principal
<1>15. Duenos'
  <2>1. ASSUME NEW d \in CPUs
        PROVE  UnDueno(d)'
    BY <1>1, <1>2, <1>3, <1>4, <1>6, <1>8, <1>9, <1>10, <1>11
    DEF Inv, Duenos, UnDueno, Ocupada, Retenida, RetieneCPU, Tomada, Principal
  <2> QED BY <2>1, <1>1, <1>2, <1>3, <1>4, <1>6, <1>8, <1>9, <1>10, <1>11 DEF Inv, Duenos
<1>16. ASSUME NEW d \in CPUs
     PROVE  ProtocoloDe(d)'
  <2>1. CASE d = c
    BY <2>1, <1>1, <1>2, <1>3, <1>4, <1>6, <1>8, <1>9, <1>10, <1>11
    DEF Inv, Protocolo, ProtocoloDe, SinPrograma, Retenida, RetieneCPU, Tomada,
        EnDespacho, Quieta, Parada, Callada, Sorda, ConDatos, ConPrograma,
        EnViaje, Andando, EnWait, EnSignal, Saliendo, Pide, PidePCB, Libera,
        UnDueno, Ocupada, Principal
  <2>2. CASE d # c
    <3>1. ProtocoloDe(d) /\ cpu'[d] = cpu[d] /\ aCPU'[d] = aCPU[d] /\ aKernel'[d] = aKernel[d]
      BY <2>2, <1>1, <1>2, <1>3, <1>4, <1>6, <1>8, <1>9, <1>10, <1>11 DEF Inv, Protocolo
    <3>2. SinPrograma(d)' => SinPrograma(d)
      BY <2>2, <1>1, <1>2, <1>3, <1>4, <1>6, <1>8, <1>9, <1>10, <1>11
      DEF SinPrograma, Retenida, RetieneCPU, Tomada, EnDespacho, Principal
    <3>3. EnDespacho(d)' /\ planif'.paso = "pcb" => EnDespacho(d) /\ planif.paso = "pcb"
      BY <2>2, <1>1, <1>2, <1>3, <1>4, <1>6, <1>8, <1>9, <1>10, <1>11 DEF EnDespacho
    <3>4. ~ EnDespacho(d)' => \A u \in ToSet(cola_exec') : socketCPU'[u] = d =>
            ~ EnDespacho(d) /\ u \in ToSet(cola_exec) /\ socketCPU[u] = d
      BY <2>2, <1>1, <1>2, <1>3, <1>4, <1>6, <1>8, <1>9, <1>10, <1>11 DEF EnDespacho
    <3>5. \/ Principal' = Principal /\ (Ocupada(d) => Ocupada(d)')
         \/ /\ Principal.cpu = d => Principal.paso # "libera"
            /\ Principal'.cpu = d => Principal'.paso \notin {"pide", "pidePCB", "libera"}
      BY <2>2, <1>1, <1>2, <1>3, <1>4, <1>6, <1>8, <1>9, <1>10, <1>11 DEF Ocupada, Principal
    <3> QED BY <3>1, <3>2, <3>3, <3>4, <3>5, ProtocoloSigue
  <2> QED BY <2>1, <2>2
<1>17. Esperas'
  BY <1>2, <1>6, <1>7 DEF Inv, Esperas
<1> QED BY <1>12, <1>13, <1>14, <1>15, <1>16, <1>17 DEF Inv, Protocolo

(* A handler ends and gives its CPU back.                                  *)
LEMMA InvDevolverCPU ==
  ASSUME TypeOK, Inv, devolverCPUBloqueado \/ devolverCPU("principal")
  PROVE  Inv'
<1> PICK c : c = Principal.cpu
  OBVIOUS
<1>1. Principal.paso \in {"cpu", "cpuSem"}
  BY DEF devolverCPUBloqueado, devolverCPU, EnPaso, Principal
<1>2. c \in CPUs /\ Retenida(c)
  BY <1>1, EnLaMano DEF Retenida, RetieneCPU, Principal
<1>3. UnDueno(c) /\ ProtocoloDe(c)
  BY <1>2 DEF Inv, Duenos, Protocolo
<1>4. /\ ToSet(cola_CPU_libres') = ToSet(cola_CPU_libres) \cup {c}
      /\ SinRepetidos(cola_CPU_libres')
  <2>1. cola_CPU_libres' = Append(cola_CPU_libres, c)
    BY DEF devolverCPUBloqueado, devolverCPU, encolarCPU, Principal
  <2>2. c \notin ToSet(cola_CPU_libres)
    BY <1>2, <1>3 DEF UnDueno
  <2> QED BY <1>2, <2>1, <2>2, TiposColas, ElementosAppend DEF Inv, Duenos
<1>5. /\ Principal'.paso = "select" /\ Principal'.luego = "select"
      /\ hilo'["consola"] = hilo["consola"]
  BY AlSeguir DEF devolverCPUBloqueado, devolverCPU, VuelveASelect, Reposo
<1>6. UNCHANGED <<cola_new, cola_ready, cola_exec, cola_block, cola_exit,
                  cola_semaforos, creados, socketCPU, pcb, planif, caido,
                  aCPU, aKernel, cpu>>
  BY DEF devolverCPUBloqueado, devolverCPU, colas, semaforos, procesos, red
<1>7. Lugares'
  <2>1. Nuevos' /\ ColasSinRepetidos'
    BY <1>1, <1>2, <1>3, <1>4, <1>5, <1>6 DEF Inv, Lugares, Nuevos, ColasSinRepetidos, Principal
  <2>2. ASSUME NEW u \in Procesos
        PROVE  UnLugar(u)'
    BY <1>1, <1>2, <1>3, <1>4, <1>5, <1>6
    DEF Inv, Lugares, UnLugar, EnCola, Lleva, EnManoDe, Despacha, Principal
  <2> QED BY <2>1, <2>2 DEF Lugares
<1>8. NoCae' /\ PCBPropio' /\ Esperas' /\ HiloCoherente'
  BY <1>1, <1>2, <1>3, <1>4, <1>5, <1>6 DEF Inv, NoCae, PCBPropio, Esperas, HiloCoherente, Principal
<1>9. Sockets' /\ Despachos'
  BY <1>1, <1>2, <1>3, <1>4, <1>5, <1>6 DEF Inv, Sockets, Despachos, EnDespacho, UnDueno, Ocupada, Principal
<1>10. Duenos'
  <2>1. ASSUME NEW d \in CPUs
        PROVE  UnDueno(d)'
    BY <1>1, <1>2, <1>3, <1>4, <1>5, <1>6
    DEF Inv, Duenos, UnDueno, Ocupada, Retenida, RetieneCPU, Tomada, Principal
  <2> QED BY <2>1, <1>1, <1>2, <1>3, <1>4, <1>5, <1>6 DEF Inv, Duenos
<1>11. ASSUME NEW d \in CPUs
     PROVE  ProtocoloDe(d)'
  <2>1. ProtocoloDe(d) /\ cpu'[d] = cpu[d] /\ aCPU'[d] = aCPU[d] /\ aKernel'[d] = aKernel[d]
    BY <1>1, <1>2, <1>3, <1>4, <1>5, <1>6 DEF Inv, Protocolo
  <2>2. SinPrograma(d)' => SinPrograma(d)
    BY <1>1, <1>2, <1>3, <1>4, <1>5, <1>6
    DEF SinPrograma, Retenida, RetieneCPU, Tomada, EnDespacho, Principal
  <2>3. EnDespacho(d)' /\ planif'.paso = "pcb" => EnDespacho(d) /\ planif.paso = "pcb"
    BY <1>1, <1>2, <1>3, <1>4, <1>5, <1>6 DEF EnDespacho
  <2>4. ~ EnDespacho(d)' => \A u \in ToSet(cola_exec') : socketCPU'[u] = d =>
          ~ EnDespacho(d) /\ u \in ToSet(cola_exec) /\ socketCPU[u] = d
    BY <1>1, <1>2, <1>3, <1>4, <1>5, <1>6 DEF EnDespacho
  <2>5. \/ Principal' = Principal /\ (Ocupada(d) => Ocupada(d)')
       \/ /\ Principal.cpu = d => Principal.paso # "libera"
          /\ Principal'.cpu = d => Principal'.paso \notin {"pide", "pidePCB", "libera"}
    BY <1>1, <1>2, <1>3, <1>4, <1>5, <1>6 DEF Ocupada, Principal
  <2> QED BY <2>1, <2>2, <2>3, <2>4, <2>5, ProtocoloSigue
<1> QED BY <1>7, <1>8, <1>9, <1>10, <1>11 DEF Inv, Protocolo

(* The process the main thread carries enters ready.                       *)
LEMMA InvEncolarReady ==
  ASSUME TypeOK, Inv, encolarReady("principal")
  PROVE  Inv'
<1> PICK t : t = Principal.proc
  OBVIOUS
<1>1. Principal.paso = "listo"
  BY DEF encolarReady, EnPaso, Principal
<1>2. t \in Procesos /\ Lleva(t) /\ UnLugar(t) /\ Nulo \notin CPUs
  BY <1>1, EnLaMano, ConjuntosAssumption
  DEF Lleva, EnManoDe, Principal, Inv, Lugares
<1>3. ToSet(cola_ready') = ToSet(cola_ready) \cup {t} /\ SinRepetidos(cola_ready')
  <2>1. cola_ready' = Append(cola_ready, t)
    BY DEF encolarReady, alReady, Principal
  <2>2. t \notin ToSet(cola_ready)
    BY <1>2 DEF UnLugar, EnCola
  <2> QED BY <1>2, <2>1, <2>2, TiposColas, ElementosAppend
      DEF Inv, Lugares, ColasSinRepetidos
<1>4. /\ hilo'["consola"] = hilo["consola"]
      /\ \/ /\ Principal'.paso = "select" /\ Principal'.luego = "select"
            /\ Principal.cpu = Nulo
         \/ Principal'.paso = "cpu" /\ Principal'.luego = "cpu"
            /\ Principal'.cpu = Principal.cpu
  <2>1. \/ Principal.luego = "cpu"
        \/ Principal.luego = "select" /\ Principal.cpu = Nulo
    BY <1>1 DEF Inv, HiloCoherente
  <2>2. Termina("principal")
    BY DEF encolarReady
  <2> QED BY <2>1, <2>2, AlTerminar DEF Reposo
<1>5. UNCHANGED <<cola_new, cola_exec, cola_block, cola_exit, cola_CPU_libres,
                  cola_semaforos, creados, socketCPU, pcb, planif, caido, aCPU,
                  aKernel, cpu>>
  BY DEF encolarReady, libres, semaforos, procesos, red
<1>6. Lugares'
  <2>1. Nuevos' /\ ColasSinRepetidos'
    BY <1>1, <1>2, <1>3, <1>4, <1>5 DEF Inv, Lugares, Nuevos, ColasSinRepetidos, Principal
  <2>2. ASSUME NEW u \in Procesos
        PROVE  UnLugar(u)'
    BY <1>1, <1>2, <1>3, <1>4, <1>5
    DEF Inv, Lugares, UnLugar, EnCola, Lleva, EnManoDe, Despacha, Principal
  <2> QED BY <2>1, <2>2 DEF Lugares
<1>7. NoCae' /\ PCBPropio' /\ Esperas' /\ HiloCoherente'
  BY <1>1, <1>2, <1>3, <1>4, <1>5 DEF Inv, NoCae, PCBPropio, Esperas, HiloCoherente, Principal
<1>8. Sockets' /\ Despachos'
  BY <1>1, <1>2, <1>3, <1>4, <1>5 DEF Inv, Sockets, Despachos, EnDespacho, UnDueno, Ocupada, Principal
<1>9. Duenos'
  <2>1. ASSUME NEW d \in CPUs
        PROVE  UnDueno(d)'
    BY <1>1, <1>2, <1>3, <1>4, <1>5
    DEF Inv, Duenos, UnDueno, Ocupada, Retenida, RetieneCPU, Tomada, Principal
  <2> QED BY <2>1, <1>1, <1>2, <1>3, <1>4, <1>5 DEF Inv, Duenos
<1>10. ASSUME NEW d \in CPUs
     PROVE  ProtocoloDe(d)'
  BY <1>1, <1>2, <1>3, <1>4, <1>5
  DEF Inv, Protocolo, ProtocoloDe, SinPrograma, Retenida, RetieneCPU, Tomada,
      EnDespacho, Quieta, Parada, Callada, Sorda, ConDatos, ConPrograma,
      EnViaje, Andando, EnWait, EnSignal, Saliendo, Pide, PidePCB, Libera,
      Ocupada, Principal
<1> QED BY <1>6, <1>7, <1>8, <1>9, <1>10 DEF Inv, Protocolo

(* finalizarProceso: the process enters exit.                              *)
LEMMA InvEnExit ==
  ASSUME TypeOK, Inv, finalizarEnExit("principal")
  PROVE  Inv'
<1> PICK t : t = Principal.proc
  OBVIOUS
<1>1. Principal.paso = "exit"
  BY DEF finalizarEnExit, EnPaso, Principal
<1>2. t \in Procesos /\ Lleva(t) /\ UnLugar(t)
  BY <1>1, EnLaMano DEF Lleva, EnManoDe, Principal, Inv, Lugares
<1>3. ToSet(cola_exit') = ToSet(cola_exit) \cup {t} /\ SinRepetidos(cola_exit')
  <2>1. cola_exit' = Append(cola_exit, t)
    BY DEF finalizarEnExit, Principal
  <2>2. t \notin ToSet(cola_exit)
    BY <1>2 DEF UnLugar, EnCola
  <2> QED BY <1>2, <2>1, <2>2, TiposColas, ElementosAppend
      DEF Inv, Lugares, ColasSinRepetidos
<1>4. /\ hilo'["consola"] = hilo["consola"]
      /\ Principal'.paso = "cpuDe" /\ Principal'.luego = Principal.luego
      /\ Principal'.proc = t
  BY AlIr DEF finalizarEnExit
<1>5. UNCHANGED <<cola_new, cola_ready, cola_exec, cola_block, cola_CPU_libres,
                  cola_semaforos, creados, socketCPU, pcb, planif, caido, aCPU,
                  aKernel, cpu>>
  BY DEF finalizarEnExit, libres, semaforos, procesos, red
<1>6. Lugares'
  <2>1. Nuevos' /\ ColasSinRepetidos'
    BY <1>1, <1>2, <1>3, <1>4, <1>5 DEF Inv, Lugares, Nuevos, ColasSinRepetidos, Principal
  <2>2. ASSUME NEW u \in Procesos
        PROVE  UnLugar(u)'
    BY <1>1, <1>2, <1>3, <1>4, <1>5
    DEF Inv, Lugares, UnLugar, EnCola, Lleva, EnManoDe, Despacha, Principal
  <2> QED BY <2>1, <2>2 DEF Lugares
<1>7. NoCae' /\ PCBPropio' /\ Esperas' /\ HiloCoherente'
  BY <1>1, <1>2, <1>3, <1>4, <1>5 DEF Inv, NoCae, PCBPropio, Esperas, HiloCoherente, Principal
<1>8. Sockets' /\ Despachos'
  BY <1>1, <1>2, <1>3, <1>4, <1>5 DEF Inv, Sockets, Despachos, EnDespacho, UnDueno, Ocupada, Principal
<1>9. Duenos'
  <2>1. ASSUME NEW d \in CPUs
        PROVE  UnDueno(d)'
    BY <1>1, <1>2, <1>3, <1>4, <1>5
    DEF Inv, Duenos, UnDueno, Ocupada, Retenida, RetieneCPU, Tomada, Principal
  <2> QED BY <2>1, <1>1, <1>2, <1>3, <1>4, <1>5 DEF Inv, Duenos
<1>10. ASSUME NEW d \in CPUs
     PROVE  ProtocoloDe(d)'
  BY <1>1, <1>2, <1>3, <1>4, <1>5
  DEF Inv, Protocolo, ProtocoloDe, SinPrograma, Retenida, RetieneCPU, Tomada,
      EnDespacho, Quieta, Parada, Callada, Sorda, ConDatos, ConPrograma,
      EnViaje, Andando, EnWait, EnSignal, Saliendo, Pide, PidePCB, Libera,
      Ocupada, Principal
<1> QED BY <1>6, <1>7, <1>8, <1>9, <1>10 DEF Inv, Protocolo

(* finalizarProceso: the CPU of the process, if it had one, is free.       *)
LEMMA InvLiberaCPU ==
  ASSUME TypeOK, Inv, finalizarLiberaCPU("principal")
  PROVE  Inv'
<1> PICK t, c : t = Principal.proc /\ c = socketCPU[t]
  OBVIOUS
<1>1. Principal.paso = "cpuDe" /\ Nulo \notin CPUs
  BY ConjuntosAssumption DEF finalizarLiberaCPU, EnPaso, Principal
<1>2. t \in Procesos /\ c \in CPUs \cup {Nulo} /\ (c \in CPUs => Retenida(c))
  BY <1>1, EnLaMano DEF Retenida, RetieneCPU, Principal, TypeOK, TipoProcesos
<1>3. c \in CPUs => UnDueno(c) /\ ProtocoloDe(c)
  BY <1>2 DEF Inv, Duenos, Protocolo
<1>4. /\ ToSet(cola_CPU_libres') = ToSet(cola_CPU_libres) \cup ({c} \cap CPUs)
      /\ SinRepetidos(cola_CPU_libres')
  <2>1. CASE c = Nulo
    <3>1. cola_CPU_libres' = cola_CPU_libres
      BY <2>1 DEF finalizarLiberaCPU, TieneCPU, libres, Principal
    <3> QED BY <2>1, <3>1, <1>1 DEF Inv, Duenos
  <2>2. CASE c \in CPUs
    <3>1. cola_CPU_libres' = Append(cola_CPU_libres, c)
      BY <1>1, <2>2 DEF finalizarLiberaCPU, TieneCPU, encolarCPU, Principal
    <3>2. c \notin ToSet(cola_CPU_libres)
      BY <1>2, <1>3, <2>2 DEF UnDueno
    <3> QED BY <2>2, <3>1, <3>2, TiposColas, ElementosAppend DEF Inv, Duenos
  <2> QED BY <1>2, <2>1, <2>2
<1>5. /\ hilo'["consola"] = hilo["consola"]
      /\ Principal'.paso = "fin" /\ Principal'.luego = Principal.luego
      /\ Principal'.proc = t
  BY AlIr DEF finalizarLiberaCPU
<1>6. UNCHANGED <<cola_new, cola_ready, cola_exec, cola_block, cola_exit,
                  cola_semaforos, creados, socketCPU, pcb, planif, caido,
                  aCPU, aKernel, cpu>>
  BY DEF finalizarLiberaCPU, colas, semaforos, procesos, red
<1>7. Lugares'
  <2>1. Nuevos' /\ ColasSinRepetidos'
    BY <1>1, <1>2, <1>3, <1>4, <1>5, <1>6 DEF Inv, Lugares, Nuevos, ColasSinRepetidos, Principal
  <2>2. ASSUME NEW u \in Procesos
        PROVE  UnLugar(u)'
    BY <1>1, <1>2, <1>3, <1>4, <1>5, <1>6
    DEF Inv, Lugares, UnLugar, EnCola, Lleva, EnManoDe, Despacha, Principal
  <2> QED BY <2>1, <2>2 DEF Lugares
<1>8. NoCae' /\ PCBPropio' /\ Esperas' /\ HiloCoherente'
  BY <1>1, <1>2, <1>3, <1>4, <1>5, <1>6 DEF Inv, NoCae, PCBPropio, Esperas, HiloCoherente, Principal
<1>9. Sockets' /\ Despachos'
  BY <1>1, <1>2, <1>3, <1>4, <1>5, <1>6 DEF Inv, Sockets, Despachos, EnDespacho, UnDueno, Ocupada, Principal
<1>10. Duenos'
  <2>1. ASSUME NEW d \in CPUs
        PROVE  UnDueno(d)'
    BY <1>1, <1>2, <1>3, <1>4, <1>5, <1>6
    DEF Inv, Duenos, UnDueno, Ocupada, Retenida, RetieneCPU, Tomada, Principal
  <2> QED BY <2>1, <1>1, <1>2, <1>3, <1>4, <1>5, <1>6 DEF Inv, Duenos
<1>11. ASSUME NEW d \in CPUs
     PROVE  ProtocoloDe(d)'
  <2>1. ProtocoloDe(d) /\ cpu'[d] = cpu[d] /\ aCPU'[d] = aCPU[d] /\ aKernel'[d] = aKernel[d]
    BY <1>1, <1>2, <1>3, <1>4, <1>5, <1>6 DEF Inv, Protocolo
  <2>2. SinPrograma(d)' => SinPrograma(d)
    BY <1>1, <1>2, <1>3, <1>4, <1>5, <1>6
    DEF SinPrograma, Retenida, RetieneCPU, Tomada, EnDespacho, Principal
  <2>3. EnDespacho(d)' /\ planif'.paso = "pcb" => EnDespacho(d) /\ planif.paso = "pcb"
    BY <1>1, <1>2, <1>3, <1>4, <1>5, <1>6 DEF EnDespacho
  <2>4. ~ EnDespacho(d)' => \A u \in ToSet(cola_exec') : socketCPU'[u] = d =>
          ~ EnDespacho(d) /\ u \in ToSet(cola_exec) /\ socketCPU[u] = d
    BY <1>1, <1>2, <1>3, <1>4, <1>5, <1>6 DEF EnDespacho
  <2>5. \/ Principal' = Principal /\ (Ocupada(d) => Ocupada(d)')
       \/ /\ Principal.cpu = d => Principal.paso # "libera"
          /\ Principal'.cpu = d => Principal'.paso \notin {"pide", "pidePCB", "libera"}
    BY <1>1, <1>2, <1>3, <1>4, <1>5, <1>6 DEF Ocupada, Principal
  <2> QED BY <2>1, <2>2, <2>3, <2>4, <2>5, ProtocoloSigue
<1> QED BY <1>7, <1>8, <1>9, <1>10, <1>11 DEF Inv, Protocolo

(* finalizarProceso: the process is no longer counted.                     *)
LEMMA InvDescuenta ==
  ASSUME TypeOK, Inv, finalizarDescuenta("principal")
  PROVE  Inv'
<1>1. Principal.paso = "fin"
  BY DEF finalizarDescuenta, EnPaso, Principal
<1>2. /\ hilo'["consola"] = hilo["consola"]
      /\ Principal'.paso = "select" /\ Principal'.luego = "select"
  <2>1. Principal.luego = "select"
    BY <1>1 DEF Inv, HiloCoherente
  <2>2. Termina("principal")
    BY DEF finalizarDescuenta
  <2> QED BY <2>1, <2>2, AlTerminar DEF Reposo
<1>3. UNCHANGED <<cola_new, cola_ready, cola_exec, cola_block, cola_exit,
                  cola_CPU_libres, cola_semaforos, creados, socketCPU, pcb, planif,
                  caido, aCPU, aKernel, cpu>>
  BY DEF finalizarDescuenta, colas, libres, semaforos, procesos, red
<1>4. Lugares'
  <2>1. Nuevos' /\ ColasSinRepetidos'
    BY <1>1, <1>2, <1>3 DEF Inv, Lugares, Nuevos, ColasSinRepetidos, Principal
  <2>2. ASSUME NEW u \in Procesos
        PROVE  UnLugar(u)'
    BY <1>1, <1>2, <1>3
    DEF Inv, Lugares, UnLugar, EnCola, Lleva, EnManoDe, Despacha, Principal
  <2> QED BY <2>1, <2>2 DEF Lugares
<1>5. NoCae' /\ PCBPropio' /\ Esperas' /\ HiloCoherente'
  BY <1>1, <1>2, <1>3 DEF Inv, NoCae, PCBPropio, Esperas, HiloCoherente, Principal
<1>6. Sockets' /\ Despachos'
  BY <1>1, <1>2, <1>3 DEF Inv, Sockets, Despachos, EnDespacho, UnDueno, Ocupada, Principal
<1>7. Duenos'
  <2>1. ASSUME NEW d \in CPUs
        PROVE  UnDueno(d)'
    BY <1>1, <1>2, <1>3
    DEF Inv, Duenos, UnDueno, Ocupada, Retenida, RetieneCPU, Tomada, Principal
  <2> QED BY <2>1, <1>1, <1>2, <1>3 DEF Inv, Duenos
<1>8. ASSUME NEW d \in CPUs
     PROVE  ProtocoloDe(d)'
  BY <1>1, <1>2, <1>3
  DEF Inv, Protocolo, ProtocoloDe, SinPrograma, Retenida, RetieneCPU, Tomada,
      EnDespacho, Quieta, Parada, Callada, Sorda, ConDatos, ConPrograma,
      EnViaje, Andando, EnWait, EnSignal, Saliendo, Pide, PidePCB, Libera,
      Ocupada, Principal
<1> QED BY <1>4, <1>5, <1>6, <1>7, <1>8 DEF Inv, Protocolo

(* The unit goes to the first process that waits, which leaves the queue   *)
(* and block and enters ready, or to the value; the CPU is answered.       *)
LEMMA InvLiberarUnidad ==
  ASSUME TypeOK, Inv, liberarSemaforoUnidad
  PROVE  Inv'
<1> PICK c, s, w : c = Principal.cpu /\ s = Principal.sem /\ w = Head(cola_semaforos[s])
  OBVIOUS
<1>1. Principal.paso = "libera"
  BY DEF liberarSemaforoUnidad, EnPaso, Principal
<1>2. c \in CPUs /\ s \in Semaforos
  BY <1>1, EnLaMano
<1>3. /\ cpu[c].paso = "signal" /\ Callada(c) /\ Sorda(c) /\ Ocupada(c)
      /\ UnDueno(c) /\ ProtocoloDe(c)
  BY <1>1, <1>2 DEF Inv, Duenos, Protocolo, ProtocoloDe, Libera
<1>4. /\ aCPU'[c] = <<t_paquete("LIBERAR_SEMAFORO", s)>>
      /\ \A d \in CPUs : d # c => aCPU'[d] = aCPU[d]
  BY <1>2, <1>3, Cortas
  DEF liberarSemaforoUnidad, Sorda, TypeOK, TipoRed, Principal
<1>5. /\ Principal'.paso = "select" /\ Principal'.luego = "select"
      /\ hilo'["consola"] = hilo["consola"]
  BY AlSeguir DEF liberarSemaforoUnidad, VuelveASelect, Reposo
<1>6. UNCHANGED <<cola_new, cola_exec, cola_exit, cola_CPU_libres, creados,
                  socketCPU, pcb, planif, caido, aKernel, cpu>>
  BY DEF liberarSemaforoUnidad, libres, procesos
<1>7. ASSUME HayQuienEspera(s)
      PROVE  Lugares' /\ Esperas'
  <2>1. /\ cola_semaforos[s] # <<>> /\ cola_semaforos[s] \in Seq(Procesos)
        /\ SinRepetidos(cola_semaforos[s])
    BY <1>2, <1>7, TiposColas DEF HayQuienEspera, Inv, Esperas
  <2>2. /\ w \in ToSet(cola_semaforos[s]) /\ w \in Procesos
        /\ ToSet(Tail(cola_semaforos[s])) = ToSet(cola_semaforos[s]) \ {w}
        /\ SinRepetidos(Tail(cola_semaforos[s]))
    BY <2>1, ElementosTail, ElementosTipo
  <2>3. w \in ToSet(cola_block) /\ UnLugar(w) /\ pcb[w] = w /\ ConPid(pcb[w]) = {w}
    BY <1>2, <2>2, PidDe DEF Inv, Esperas, Lugares
  <2>4. /\ cola_semaforos'[s] = Tail(cola_semaforos[s])
        /\ \A r \in Semaforos : r # s => cola_semaforos'[r] = cola_semaforos[r]
    BY <1>2, <1>7 DEF liberarSemaforoUnidad, TypeOK, TipoSemaforos, Principal
  <2>5. cola_ready' = Append(cola_ready, w)
    BY <1>7 DEF liberarSemaforoUnidad, alReady, Principal
  <2>6. cola_block' = SinPrimero(cola_block, {w})
    BY <1>7, <2>3 DEF liberarSemaforoUnidad, Principal, eliminarProcesoDeCola
  <2>7. w \notin ToSet(cola_ready)
    BY <2>3 DEF UnLugar
  <2>8. ToSet(cola_ready') = ToSet(cola_ready) \cup {w} /\ SinRepetidos(cola_ready')
    BY <2>2, <2>5, <2>7, TiposColas, ElementosAppend DEF Inv, Lugares, ColasSinRepetidos
  <2>9. ToSet(cola_block') = ToSet(cola_block) \ {w} /\ SinRepetidos(cola_block')
    BY <2>6, TiposColas, ElementosSinPrimero DEF Inv, Lugares, ColasSinRepetidos
  <2>10. Lugares'
    <3>1. Nuevos' /\ ColasSinRepetidos'
      BY <1>1, <1>5, <1>6, <2>8, <2>9
      DEF Inv, Lugares, Nuevos, ColasSinRepetidos, Principal
    <3>2. ASSUME NEW u \in Procesos
          PROVE  UnLugar(u)'
      BY <1>1, <1>5, <1>6, <2>2, <2>3, <2>8, <2>9
      DEF Inv, Lugares, UnLugar, EnCola, Lleva, EnManoDe, Despacha, Principal
    <3> QED BY <3>1, <3>2 DEF Lugares
  <2>11. Esperas'
    BY <1>2, <2>1, <2>2, <2>4, <2>9 DEF Inv, Esperas
  <2> QED BY <2>10, <2>11
<1>8. ASSUME ~HayQuienEspera(s)
      PROVE  Lugares' /\ Esperas'
  <2>1. UNCHANGED <<cola_semaforos, cola_ready, cola_block>>
    BY <1>8 DEF liberarSemaforoUnidad, Principal
  <2>2. Lugares'
    <3>1. Nuevos' /\ ColasSinRepetidos'
      BY <1>1, <1>5, <1>6, <2>1
      DEF Inv, Lugares, Nuevos, ColasSinRepetidos, Principal
    <3>2. ASSUME NEW u \in Procesos
          PROVE  UnLugar(u)'
      BY <1>1, <1>5, <1>6, <2>1
      DEF Inv, Lugares, UnLugar, EnCola, Lleva, EnManoDe, Despacha, Principal
    <3> QED BY <3>1, <3>2 DEF Lugares
  <2>3. Esperas'
    BY <2>1 DEF Inv, Esperas
  <2> QED BY <2>2, <2>3
<1>9. Lugares' /\ Esperas'
  BY <1>7, <1>8
<1>10. Sockets'
  BY <1>5, <1>6 DEF Inv, Sockets, Principal
<1>12. NoCae' /\ PCBPropio' /\ HiloCoherente'
  BY <1>1, <1>2, <1>3, <1>4, <1>5, <1>6 DEF Inv, NoCae, PCBPropio, HiloCoherente, Principal
<1>13. Despachos'
  BY <1>1, <1>2, <1>3, <1>4, <1>5, <1>6 DEF Inv, Despachos, EnDespacho, Principal
<1>14. Duenos'
  <2>1. ASSUME NEW d \in CPUs
        PROVE  UnDueno(d)'
    BY <1>1, <1>2, <1>3, <1>4, <1>5, <1>6
    DEF Inv, Duenos, UnDueno, Ocupada, Retenida, RetieneCPU, Tomada, Principal
  <2> QED BY <2>1, <1>1, <1>2, <1>3, <1>4, <1>5, <1>6 DEF Inv, Duenos
<1>15. ASSUME NEW d \in CPUs
     PROVE  ProtocoloDe(d)'
  <2>1. CASE d = c
    BY <2>1, <1>1, <1>2, <1>3, <1>4, <1>5, <1>6
    DEF Inv, Protocolo, ProtocoloDe, SinPrograma, Retenida, RetieneCPU, Tomada,
        EnDespacho, Quieta, Parada, Callada, Sorda, ConDatos, ConPrograma,
        EnViaje, Andando, EnWait, EnSignal, Saliendo, Pide, PidePCB, Libera,
        UnDueno, Ocupada, Principal
  <2>2. CASE d # c
    BY <2>2, <1>1, <1>2, <1>3, <1>4, <1>5, <1>6
    DEF Inv, Protocolo, ProtocoloDe, SinPrograma, Retenida, RetieneCPU, Tomada,
        EnDespacho, Quieta, Parada, Callada, Sorda, ConDatos, ConPrograma,
        EnViaje, Andando, EnWait, EnSignal, Saliendo, Pide, PidePCB, Libera,
        Ocupada, Principal
  <2> QED BY <2>1, <2>2
<1> QED BY <1>9, <1>10, <1>12, <1>13, <1>14, <1>15 DEF Inv, Protocolo

(* What the Kernel dies of never happens: new has the program it is asked  *)
(* for, a CPU that writes has a process in exec, ready has a process for   *)
(* each unit of sem_ready, and the PCB waited for is a PCB.                *)
LEMMA NadieCae ==
  ASSUME TypeOK, ContadoresExactos, Inv
  PROVE  /\ ~newVacia /\ ~readyVacia
         /\ \A c \in CPUs : ~sinProceso(c) /\ ~paqueteSinCaso(c)
<1>1. ~newVacia
  <2> SUFFICES ASSUME newVacia PROVE FALSE
    OBVIOUS
  <2>1. Principal.paso \in {"grado", "memoria"} /\ cola_new = <<>>
    BY DEF newVacia, EnPaso, Principal
  <2>2. cola_new = <<Principal.proc>>
    BY <2>1 DEF Inv, Lugares, Nuevos
  <2> QED BY <2>1, <2>2, Cortas
<1>2. ~readyVacia
  BY EmptySeq DEF readyVacia, PlanifEn, TypeOK, TipoLibres, TipoColas,
                  ContadoresExactos, TomoReady, Uno
<1>3. ASSUME NEW c \in CPUs, sinProceso(c) \/ paqueteSinCaso(c)
      PROVE  FALSE
  <2>1. Principal.paso = "select" /\ aKernel[c] # <<>>
    BY <1>3 DEF sinProceso, paqueteSinCaso, Llego, EnPaso, Principal
  <2>2. Ocupada(c) /\ ~EnDespacho(c)
    BY <2>1, ElQueEscribe
  <2>3. PICK t : t = obtenerProcesoSocketCPU(c)
    OBVIOUS
  <2>4. t # Nulo /\ ConPrograma(c, t)
    BY <2>2, <2>3, SuProceso
  <2>5. Head(aKernel[c]).op = "PROGRAMA_BLOQUEADO_SEMAFORO"
    BY <1>3, <2>3, <2>4 DEF sinProceso, paqueteSinCaso, Llego
  <2> QED BY <2>1, <2>4, <2>5, LoQueEscribe DEF OpsFin
<1> QED BY <1>1, <1>2, <1>3

(* The planner, until it has a unit of sem_ready and one of sem_cpu.       *)
LEMMA InvPlanifEspera ==
  ASSUME TypeOK, Inv, esperarReady \/ mirarEstado \/ esperarCPU
  PROVE  Inv'
<1>1. /\ planif.paso \in {"sem_ready", "estado", "sem_cpu"}
      /\ planif'.paso \in {"estado", "sem_cpu", "popCPU"}
  BY DEF esperarReady, mirarEstado, esperarCPU, PlanifEn, TypeOK, TipoPlanif
<1>2. UNCHANGED <<cola_new, cola_ready, cola_exec, cola_block, cola_exit,
                  cola_CPU_libres, cola_semaforos, creados, socketCPU, pcb, hilo,
                  caido, aCPU, aKernel, cpu>>
  BY DEF esperarReady, mirarEstado, esperarCPU, colas, libres, semaforos, procesos, red
<1>3. Lugares'
  <2>1. Nuevos' /\ ColasSinRepetidos'
    BY <1>1, <1>2 DEF Inv, Lugares, Nuevos, ColasSinRepetidos, Principal
  <2>2. ASSUME NEW u \in Procesos
        PROVE  UnLugar(u)'
    BY <1>1, <1>2
    DEF Inv, Lugares, UnLugar, EnCola, Lleva, EnManoDe, Despacha, Principal
  <2> QED BY <2>1, <2>2 DEF Lugares
<1>4. NoCae' /\ PCBPropio' /\ Esperas' /\ HiloCoherente'
  BY <1>1, <1>2 DEF Inv, NoCae, PCBPropio, Esperas, HiloCoherente, Principal
<1>5. Sockets' /\ Despachos'
  BY <1>1, <1>2 DEF Inv, Sockets, Despachos, EnDespacho, UnDueno, Ocupada, Principal
<1>6. Duenos'
  <2>1. ASSUME NEW d \in CPUs
        PROVE  UnDueno(d)'
    BY <1>1, <1>2
    DEF Inv, Duenos, UnDueno, Ocupada, Retenida, RetieneCPU, Tomada, Principal
  <2> QED BY <2>1, <1>1, <1>2 DEF Inv, Duenos
<1>7. ASSUME NEW d \in CPUs
     PROVE  ProtocoloDe(d)'
  BY <1>1, <1>2
  DEF Inv, Protocolo, ProtocoloDe, SinPrograma, Retenida, RetieneCPU, Tomada,
      EnDespacho, Quieta, Parada, Callada, Sorda, ConDatos, ConPrograma,
      EnViaje, Andando, EnWait, EnSignal, Saliendo, Pide, PidePCB, Libera,
      Ocupada, Principal
<1> QED BY <1>3, <1>4, <1>5, <1>6, <1>7 DEF Inv, Protocolo

(* It takes the first free CPU.                                            *)
LEMMA InvSacarCPU ==
  ASSUME TypeOK, ContadoresExactos, Inv, sacarCPU
  PROVE  Inv'
<1> PICK c : c = Head(cola_CPU_libres)
  OBVIOUS
<1>1. planif.paso = "popCPU" /\ cola_CPU_libres # <<>>
  BY EmptySeq DEF sacarCPU, PlanifEn, TypeOK, TipoLibres, ContadoresExactos, Uno
<1>2. /\ c \in CPUs /\ c \in ToSet(cola_CPU_libres)
      /\ ToSet(cola_CPU_libres') = ToSet(cola_CPU_libres) \ {c}
      /\ SinRepetidos(cola_CPU_libres')
  <2>1. cola_CPU_libres' = Tail(cola_CPU_libres)
    BY <1>1 DEF sacarCPU
  <2> QED BY <1>1, <2>1, TiposColas, ElementosTail DEF Inv, Duenos
<1>3. planif'.paso = "popReady" /\ planif'.cpu = c
  BY <1>1 DEF sacarCPU, TypeOK, TipoPlanif
<1>4. UnDueno(c)
  BY <1>2 DEF Inv, Duenos
<1>5. UNCHANGED <<cola_new, cola_ready, cola_exec, cola_block, cola_exit,
                  cola_semaforos, creados, socketCPU, pcb, hilo, caido, aCPU,
                  aKernel, cpu>>
  BY DEF sacarCPU, colas, semaforos, procesos, red
<1>6. Lugares'
  <2>1. Nuevos' /\ ColasSinRepetidos'
    BY <1>1, <1>2, <1>3, <1>4, <1>5 DEF Inv, Lugares, Nuevos, ColasSinRepetidos, Principal
  <2>2. ASSUME NEW u \in Procesos
        PROVE  UnLugar(u)'
    BY <1>1, <1>2, <1>3, <1>4, <1>5
    DEF Inv, Lugares, UnLugar, EnCola, Lleva, EnManoDe, Despacha, Principal
  <2> QED BY <2>1, <2>2 DEF Lugares
<1>7. NoCae' /\ PCBPropio' /\ Esperas' /\ HiloCoherente'
  BY <1>1, <1>2, <1>3, <1>4, <1>5 DEF Inv, NoCae, PCBPropio, Esperas, HiloCoherente, Principal
<1>8. Sockets' /\ Despachos'
  BY <1>1, <1>2, <1>3, <1>4, <1>5 DEF Inv, Sockets, Despachos, EnDespacho, UnDueno, Ocupada, Principal
<1>9. Duenos'
  <2>1. ASSUME NEW d \in CPUs
        PROVE  UnDueno(d)'
    BY <1>1, <1>2, <1>3, <1>4, <1>5
    DEF Inv, Duenos, UnDueno, Ocupada, Retenida, RetieneCPU, Tomada, Principal
  <2> QED BY <2>1, <1>1, <1>2, <1>3, <1>4, <1>5 DEF Inv, Duenos
<1>10. ASSUME NEW d \in CPUs
     PROVE  ProtocoloDe(d)'
  BY <1>1, <1>2, <1>3, <1>4, <1>5
  DEF Inv, Protocolo, ProtocoloDe, SinPrograma, Retenida, RetieneCPU, Tomada,
      EnDespacho, Quieta, Parada, Callada, Sorda, ConDatos, ConPrograma,
      EnViaje, Andando, EnWait, EnSignal, Saliendo, Pide, PidePCB, Libera,
      Ocupada, Principal
<1> QED BY <1>6, <1>7, <1>8, <1>9, <1>10 DEF Inv, Protocolo

(* It takes the first process of ready.                                    *)
LEMMA InvSacarReady ==
  ASSUME TypeOK, Inv, sacarReady
  PROVE  Inv'
<1> PICK t : t = Head(cola_ready)
  OBVIOUS
<1>1. planif.paso = "popReady" /\ cola_ready # <<>>
  BY DEF sacarReady, PlanifEn
<1>2. /\ t \in Procesos /\ t \in ToSet(cola_ready) /\ UnLugar(t)
      /\ ToSet(cola_ready') = ToSet(cola_ready) \ {t}
      /\ SinRepetidos(cola_ready')
  <2>1. cola_ready' = Tail(cola_ready)
    BY DEF sacarReady
  <2> QED BY <1>1, <2>1, TiposColas, ElementosTail DEF Inv, Lugares, ColasSinRepetidos
<1>3. planif'.paso = "exec" /\ planif'.proc = t /\ planif'.cpu = planif.cpu
  BY DEF sacarReady, TypeOK, TipoPlanif
<1>4. UNCHANGED <<cola_new, cola_exec, cola_block, cola_exit, cola_CPU_libres,
                  cola_semaforos, creados, socketCPU, pcb, hilo, caido, aCPU,
                  aKernel, cpu>>
  BY DEF sacarReady, libres, semaforos, procesos, red
<1>5. Lugares'
  <2>1. Nuevos' /\ ColasSinRepetidos'
    BY <1>1, <1>2, <1>3, <1>4 DEF Inv, Lugares, Nuevos, ColasSinRepetidos, Principal
  <2>2. ASSUME NEW u \in Procesos
        PROVE  UnLugar(u)'
    BY <1>1, <1>2, <1>3, <1>4
    DEF Inv, Lugares, UnLugar, EnCola, Lleva, EnManoDe, Despacha, Principal
  <2> QED BY <2>1, <2>2 DEF Lugares
<1>6. NoCae' /\ PCBPropio' /\ Esperas' /\ HiloCoherente'
  BY <1>1, <1>2, <1>3, <1>4 DEF Inv, NoCae, PCBPropio, Esperas, HiloCoherente, Principal
<1>7. Sockets' /\ Despachos'
  BY <1>1, <1>2, <1>3, <1>4 DEF Inv, Sockets, Despachos, EnDespacho, UnDueno, Ocupada, Principal
<1>8. Duenos'
  <2>1. ASSUME NEW d \in CPUs
        PROVE  UnDueno(d)'
    BY <1>1, <1>2, <1>3, <1>4
    DEF Inv, Duenos, UnDueno, Ocupada, Retenida, RetieneCPU, Tomada, Principal
  <2> QED BY <2>1, <1>1, <1>2, <1>3, <1>4 DEF Inv, Duenos
<1>9. ASSUME NEW d \in CPUs
     PROVE  ProtocoloDe(d)'
  BY <1>1, <1>2, <1>3, <1>4
  DEF Inv, Protocolo, ProtocoloDe, SinPrograma, Retenida, RetieneCPU, Tomada,
      EnDespacho, Quieta, Parada, Callada, Sorda, ConDatos, ConPrograma,
      EnViaje, Andando, EnWait, EnSignal, Saliendo, Pide, PidePCB, Libera,
      Ocupada, Principal
<1> QED BY <1>5, <1>6, <1>7, <1>8, <1>9 DEF Inv, Protocolo

(* mandarAEjecutar: the process is in exec, with the socket of the CPU.    *)
LEMMA InvMandar ==
  ASSUME TypeOK, Inv, mandarAEjecutar
  PROVE  Inv'
<1> PICK t, c : t = planif.proc /\ c = planif.cpu
  OBVIOUS
<1>1. planif.paso = "exec"
  BY DEF mandarAEjecutar, PlanifEn
<1>2. /\ t \in Procesos /\ c \in CPUs /\ c # Nulo /\ Despacha(t) /\ Tomada(c)
      /\ UnLugar(t) /\ UnDueno(c) /\ ProtocoloDe(c) /\ pcb[t] = t
  BY <1>1, ConjuntosAssumption
  DEF Inv, Lugares, Duenos, Protocolo, Despachos, PCBPropio, Despacha, Tomada,
      TypeOK, TipoPlanif
<1>3. /\ ToSet(cola_exec') = ToSet(cola_exec) \cup {t} /\ SinRepetidos(cola_exec')
      /\ t \notin ToSet(cola_exec)
  <2>1. cola_exec' = Append(cola_exec, t)
    BY DEF mandarAEjecutar
  <2>2. t \notin ToSet(cola_exec)
    BY <1>2 DEF UnLugar, EnCola
  <2> QED BY <1>2, <2>1, <2>2, TiposColas, ElementosAppend
      DEF Inv, Lugares, ColasSinRepetidos
<1>4. /\ planif'.paso = "datos" /\ planif'.proc = t /\ planif'.cpu = c
      /\ planif'.serial = t
  BY <1>2 DEF mandarAEjecutar, TypeOK, TipoPlanif
<1>5. /\ socketCPU'[t] = c
      /\ \A u \in Procesos : u # t => socketCPU'[u] = socketCPU[u]
  BY <1>2 DEF mandarAEjecutar, TypeOK, TipoProcesos
<1>6. /\ t \in creados /\ t \notin ToSet(cola_new)
      /\ Principal.paso \in {"listo", "pide", "pidePCB", "exit", "cpuDe", "fin"} =>
            Principal.proc \in Procesos /\ Principal.proc # t
  BY <1>2, EnLaMano
  DEF UnLugar, EnCola, Lleva, EnManoDe, Principal, Inv, HiloCoherente
<1>7. UNCHANGED <<cola_new, cola_ready, cola_block, cola_exit, cola_CPU_libres,
                  cola_semaforos, creados, pcb, hilo, caido, aCPU, aKernel, cpu>>
  BY DEF mandarAEjecutar, libres, semaforos, red
<1>8. ToSet(cola_exec) \subseteq Procesos /\ ToSet(cola_new) \subseteq Procesos
  BY TiposColas
<1>9. Lugares'
  <2>1. Nuevos' /\ ColasSinRepetidos'
    BY <1>1, <1>2, <1>3, <1>4, <1>5, <1>6, <1>7, <1>8 DEF Inv, Lugares, Nuevos, ColasSinRepetidos, Principal
  <2>2. ASSUME NEW u \in Procesos
        PROVE  UnLugar(u)'
    BY <1>1, <1>2, <1>3, <1>4, <1>5, <1>6, <1>7, <1>8
    DEF Inv, Lugares, UnLugar, EnCola, Lleva, EnManoDe, Despacha, Principal
  <2> QED BY <2>1, <2>2 DEF Lugares
<1>10. NoCae' /\ PCBPropio' /\ Esperas' /\ HiloCoherente'
  BY <1>1, <1>2, <1>3, <1>4, <1>5, <1>6, <1>7, <1>8 DEF Inv, NoCae, PCBPropio, Esperas, HiloCoherente, Principal
<1>11. Sockets' /\ Despachos'
  BY <1>1, <1>2, <1>3, <1>4, <1>5, <1>6, <1>7, <1>8 DEF Inv, Sockets, Despachos, EnDespacho, UnDueno, Ocupada, Principal
<1>12. Duenos'
  <2>1. ASSUME NEW d \in CPUs
        PROVE  UnDueno(d)'
    BY <1>1, <1>2, <1>3, <1>4, <1>5, <1>6, <1>7, <1>8
    DEF Inv, Duenos, UnDueno, Ocupada, Retenida, RetieneCPU, Tomada, Principal
  <2> QED BY <2>1, <1>1, <1>2, <1>3, <1>4, <1>5, <1>6, <1>7, <1>8 DEF Inv, Duenos
<1>13. ASSUME NEW d \in CPUs
     PROVE  ProtocoloDe(d)'
  <2>1. ProtocoloDe(d) /\ cpu'[d] = cpu[d] /\ aCPU'[d] = aCPU[d] /\ aKernel'[d] = aKernel[d]
    BY <1>1, <1>2, <1>3, <1>4, <1>5, <1>6, <1>7, <1>8 DEF Inv, Protocolo
  <2>2. SinPrograma(d)' => SinPrograma(d)
    BY <1>1, <1>2, <1>3, <1>4, <1>5, <1>6, <1>7, <1>8
    DEF SinPrograma, Retenida, RetieneCPU, Tomada, EnDespacho, Principal
  <2>3. EnDespacho(d)' /\ planif'.paso = "pcb" => EnDespacho(d) /\ planif.paso = "pcb"
    BY <1>1, <1>2, <1>3, <1>4, <1>5, <1>6, <1>7, <1>8 DEF EnDespacho
  <2>4. ~ EnDespacho(d)' => \A u \in ToSet(cola_exec') : socketCPU'[u] = d =>
          ~ EnDespacho(d) /\ u \in ToSet(cola_exec) /\ socketCPU[u] = d
    BY <1>1, <1>2, <1>3, <1>4, <1>5, <1>6, <1>7, <1>8 DEF EnDespacho
  <2>5. \/ Principal' = Principal /\ (Ocupada(d) => Ocupada(d)')
       \/ /\ Principal.cpu = d => Principal.paso # "libera"
          /\ Principal'.cpu = d => Principal'.paso \notin {"pide", "pidePCB", "libera"}
    BY <1>1, <1>2, <1>3, <1>4, <1>5, <1>6, <1>7, <1>8 DEF Ocupada, Principal
  <2> QED BY <2>1, <2>2, <2>3, <2>4, <2>5, ProtocoloSigue
<1> QED BY <1>9, <1>10, <1>11, <1>12, <1>13 DEF Inv, Protocolo

(* The two packets of a dispatch: first the Kernel's data.                 *)
LEMMA InvEnviarDatos ==
  ASSUME TypeOK, Inv, enviarDatosKernel
  PROVE  Inv'
<1> PICK c : c = planif.cpu
  OBVIOUS
<1>1. planif.paso = "datos"
  BY DEF enviarDatosKernel, PlanifEn
<1>2. /\ c \in CPUs /\ c # Nulo /\ ProtocoloDe(c) /\ Quieta(c)
      /\ UnDueno(c) /\ Ocupada(c)
  BY <1>1, ConjuntosAssumption
  DEF Inv, Despachos, Duenos, Ocupada, Protocolo, ProtocoloDe, SinPrograma, EnDespacho
<1>3. /\ aCPU'[c] = <<Datos>>
      /\ \A d \in CPUs : d # c => aCPU'[d] = aCPU[d]
  BY <1>2, Cortas
  DEF enviarDatosKernel, EnviaPlanif, Quieta, Sorda, Datos, TypeOK, TipoRed
<1>4. /\ planif'.paso = "pcb" /\ planif'.proc = planif.proc /\ planif'.cpu = c
      /\ planif'.serial = planif.serial
  BY DEF enviarDatosKernel, TypeOK, TipoPlanif
<1>5. UNCHANGED <<cola_new, cola_ready, cola_exec, cola_block, cola_exit,
                  cola_CPU_libres, cola_semaforos, creados, socketCPU, pcb, hilo,
                  caido, aKernel, cpu>>
  BY DEF enviarDatosKernel, colas, libres, semaforos, procesos
<1>6. Lugares'
  <2>1. Nuevos' /\ ColasSinRepetidos'
    BY <1>1, <1>2, <1>3, <1>4, <1>5 DEF Inv, Lugares, Nuevos, ColasSinRepetidos, Principal
  <2>2. ASSUME NEW u \in Procesos
        PROVE  UnLugar(u)'
    BY <1>1, <1>2, <1>3, <1>4, <1>5
    DEF Inv, Lugares, UnLugar, EnCola, Lleva, EnManoDe, Despacha, Principal
  <2> QED BY <2>1, <2>2 DEF Lugares
<1>7. NoCae' /\ PCBPropio' /\ Esperas' /\ HiloCoherente'
  BY <1>1, <1>2, <1>3, <1>4, <1>5 DEF Inv, NoCae, PCBPropio, Esperas, HiloCoherente, Principal
<1>8. Sockets' /\ Despachos'
  BY <1>1, <1>2, <1>3, <1>4, <1>5 DEF Inv, Sockets, Despachos, EnDespacho, UnDueno, Ocupada, Principal
<1>9. Duenos'
  <2>1. ASSUME NEW d \in CPUs
        PROVE  UnDueno(d)'
    BY <1>1, <1>2, <1>3, <1>4, <1>5
    DEF Inv, Duenos, UnDueno, Ocupada, Retenida, RetieneCPU, Tomada, Principal
  <2> QED BY <2>1, <1>1, <1>2, <1>3, <1>4, <1>5 DEF Inv, Duenos
<1>10. ASSUME NEW d \in CPUs
     PROVE  ProtocoloDe(d)'
  <2>1. CASE d = c
    BY <2>1, <1>1, <1>2, <1>3, <1>4, <1>5
    DEF Inv, Protocolo, ProtocoloDe, SinPrograma, Retenida, RetieneCPU, Tomada,
        EnDespacho, Quieta, Parada, Callada, Sorda, ConDatos, ConPrograma,
        EnViaje, Andando, EnWait, EnSignal, Saliendo, Pide, PidePCB, Libera,
        UnDueno, Ocupada, Principal
  <2>2. CASE d # c
    BY <2>2, <1>1, <1>2, <1>3, <1>4, <1>5
    DEF Inv, Protocolo, ProtocoloDe, SinPrograma, Retenida, RetieneCPU, Tomada,
        EnDespacho, Quieta, Parada, Callada, Sorda, ConDatos, ConPrograma,
        EnViaje, Andando, EnWait, EnSignal, Saliendo, Pide, PidePCB, Libera,
        Ocupada, Principal
  <2> QED BY <2>1, <2>2
<1> QED BY <1>6, <1>7, <1>8, <1>9, <1>10 DEF Inv, Protocolo

(* Then the PCB.                                                           *)
LEMMA InvEnviarPCB ==
  ASSUME TypeOK, Inv, enviarPCB
  PROVE  Inv'
<1> PICK c, t : c = planif.cpu /\ t = planif.proc
  OBVIOUS
<1>1. planif.paso = "pcb"
  BY DEF enviarPCB, PlanifEn
<1>2. /\ c \in CPUs /\ c # Nulo /\ ProtocoloDe(c) /\ ConDatos(c) /\ planif.serial = t
      /\ UnDueno(c) /\ Ocupada(c)
      /\ t \in ToSet(cola_exec) /\ socketCPU[t] = c
      /\ \A u \in ToSet(cola_exec) : socketCPU[u] = c => u = t
  BY <1>1, ConjuntosAssumption
  DEF Inv, Despachos, Sockets, Duenos, Ocupada, Protocolo, ProtocoloDe, EnDespacho
<1>3. /\ \/ aCPU[c] = <<>> /\ aCPU'[c] = <<PCBDe(t)>>
         \/ aCPU[c] = <<Datos>> /\ aCPU'[c] = <<Datos, PCBDe(t)>>
      /\ \A d \in CPUs : d # c => aCPU'[d] = aCPU[d]
  <2>1. aCPU'[c] = Append(aCPU[c], PCBDe(t)) /\ \A d \in CPUs : d # c => aCPU'[d] = aCPU[d]
    BY <1>2 DEF enviarPCB, EnviaPlanif, PCBDe, TypeOK, TipoRed
  <2>2. aCPU[c] = <<>> \/ aCPU[c] = <<Datos>>
    BY <1>2 DEF ConDatos, Sorda
  <2>3. CASE aCPU[c] = <<>>
    BY <2>1, <2>3, Cortas
  <2>4. CASE aCPU[c] = <<Datos>>
    BY <2>1, <2>4, Cortas
  <2> QED BY <2>1, <2>2, <2>3, <2>4
<1>4. EnViaje(c, t)'
  BY <1>2, <1>3, Cortas
  DEF enviarPCB, ConDatos, EnViaje, Parada, Callada, Sorda
<1>5. planif'.paso = "sem_ready"
  BY DEF enviarPCB, PlanifReposo
<1>6. UNCHANGED <<cola_new, cola_ready, cola_exec, cola_block, cola_exit,
                  cola_CPU_libres, cola_semaforos, creados, socketCPU, pcb, hilo,
                  caido, aKernel, cpu>>
  BY DEF enviarPCB, colas, libres, semaforos, procesos
<1>7. Lugares'
  <2>1. Nuevos' /\ ColasSinRepetidos'
    BY <1>1, <1>2, <1>3, <1>4, <1>5, <1>6 DEF Inv, Lugares, Nuevos, ColasSinRepetidos, Principal
  <2>2. ASSUME NEW u \in Procesos
        PROVE  UnLugar(u)'
    BY <1>1, <1>2, <1>3, <1>4, <1>5, <1>6
    DEF Inv, Lugares, UnLugar, EnCola, Lleva, EnManoDe, Despacha, Principal
  <2> QED BY <2>1, <2>2 DEF Lugares
<1>8. NoCae' /\ PCBPropio' /\ Esperas' /\ HiloCoherente'
  BY <1>1, <1>2, <1>3, <1>4, <1>5, <1>6 DEF Inv, NoCae, PCBPropio, Esperas, HiloCoherente, Principal
<1>9. Sockets' /\ Despachos'
  BY <1>1, <1>2, <1>3, <1>4, <1>5, <1>6 DEF Inv, Sockets, Despachos, EnDespacho, UnDueno, Ocupada, Principal
<1>10. Duenos'
  <2>1. ASSUME NEW d \in CPUs
        PROVE  UnDueno(d)'
    BY <1>1, <1>2, <1>3, <1>4, <1>5, <1>6
    DEF Inv, Duenos, UnDueno, Ocupada, Retenida, RetieneCPU, Tomada, Principal
  <2> QED BY <2>1, <1>1, <1>2, <1>3, <1>4, <1>5, <1>6 DEF Inv, Duenos
<1>11. ASSUME NEW d \in CPUs
     PROVE  ProtocoloDe(d)'
  <2>1. CASE d = c
    BY <2>1, <1>1, <1>2, <1>3, <1>4, <1>5, <1>6
    DEF Inv, Protocolo, ProtocoloDe, SinPrograma, Retenida, RetieneCPU, Tomada,
        EnDespacho, Quieta, Parada, Callada, Sorda, ConDatos, ConPrograma,
        EnViaje, Andando, EnWait, EnSignal, Saliendo, Pide, PidePCB, Libera,
        UnDueno, Ocupada, Principal
  <2>2. CASE d # c
    <3>1. ProtocoloDe(d) /\ cpu'[d] = cpu[d] /\ aCPU'[d] = aCPU[d] /\ aKernel'[d] = aKernel[d]
      BY <2>2, <1>1, <1>2, <1>3, <1>4, <1>5, <1>6 DEF Inv, Protocolo
    <3>2. SinPrograma(d)' => SinPrograma(d)
      BY <2>2, <1>1, <1>2, <1>3, <1>4, <1>5, <1>6
      DEF SinPrograma, Retenida, RetieneCPU, Tomada, EnDespacho, Principal
    <3>3. EnDespacho(d)' /\ planif'.paso = "pcb" => EnDespacho(d) /\ planif.paso = "pcb"
      BY <2>2, <1>1, <1>2, <1>3, <1>4, <1>5, <1>6 DEF EnDespacho
    <3>4. ~ EnDespacho(d)' => \A u \in ToSet(cola_exec') : socketCPU'[u] = d =>
            ~ EnDespacho(d) /\ u \in ToSet(cola_exec) /\ socketCPU[u] = d
      BY <2>2, <1>1, <1>2, <1>3, <1>4, <1>5, <1>6 DEF EnDespacho
    <3>5. \/ Principal' = Principal /\ (Ocupada(d) => Ocupada(d)')
         \/ /\ Principal.cpu = d => Principal.paso # "libera"
            /\ Principal'.cpu = d => Principal'.paso \notin {"pide", "pidePCB", "libera"}
      BY <2>2, <1>1, <1>2, <1>3, <1>4, <1>5, <1>6 DEF Ocupada, Principal
    <3> QED BY <3>1, <3>2, <3>3, <3>4, <3>5, ProtocoloSigue
  <2> QED BY <2>1, <2>2
<1> QED BY <1>7, <1>8, <1>9, <1>10, <1>11 DEF Inv, Protocolo

-----------------------------------------------------------------------------
(* The CPUs.                                                               *)

(* A step of CPU c touches nothing but c and its sockets, and the protocol *)
(* does not depend on who has c: whatever state of it c is in, the step    *)
(* must lead to a state that fits the same owner.                          *)
LEMMA InvDeCPU ==
  ASSUME TypeOK, Inv, NEW c \in CPUs, UNCHANGED kernel,
         \A d \in CPUs : d # c => /\ cpu'[d] = cpu[d]
                                  /\ aCPU'[d] = aCPU[d] /\ aKernel'[d] = aKernel[d],
         cpu[c].paso # "desconectada" /\ cpu'[c].paso # "desconectada",
         Quieta(c) => Quieta(c)', ConDatos(c) => ConDatos(c)',
         \A t \in Procesos : ConPrograma(c, t) => ConPrograma(c, t)',
         Pide(c, Principal.proc) => Pide(c, Principal.proc)',
         PidePCB(c, Principal.proc) => PidePCB(c, Principal.proc)',
         Libera(c) => Libera(c)'
  PROVE  Inv'
<1>1. UNCHANGED <<cola_new, cola_ready, cola_exec, cola_block, cola_exit,
                  cola_CPU_libres, cola_semaforos, creados, socketCPU, pcb, hilo,
                  planif, caido>>
  BY DEF kernel, colas, libres, semaforos, procesos
<1>2. Lugares' /\ NoCae' /\ PCBPropio' /\ Esperas' /\ HiloCoherente'
  BY <1>1
  DEF Inv, NoCae, PCBPropio, Lugares, Nuevos, ColasSinRepetidos, UnLugar, EnCola,
      Lleva, EnManoDe, Despacha, Esperas, HiloCoherente, Principal
<1>3. Sockets' /\ Despachos'
  BY <1>1 DEF Inv, Sockets, Despachos, Principal
<1>4. Duenos'
  <2>1. ASSUME NEW d \in CPUs
        PROVE  UnDueno(d)'
    BY <1>1 DEF Inv, Duenos, UnDueno, Ocupada, Retenida, RetieneCPU, Tomada
  <2> QED BY <1>1, <2>1 DEF Inv, Duenos
<1>5. ToSet(cola_exec) \subseteq Procesos
  BY TiposColas
<1>6. ASSUME NEW d \in CPUs
      PROVE  ProtocoloDe(d)'
  <2>1. CASE d = c
    <3>1. ProtocoloDe(c)
      BY DEF Inv, Protocolo
    <3> QED BY <1>1, <1>5, <2>1, <3>1
      DEF ProtocoloDe, SinPrograma, Retenida, RetieneCPU, Tomada, EnDespacho, Principal
  <2>2. CASE d # c
    BY <1>1, <2>2
    DEF Inv, Protocolo, ProtocoloDe, SinPrograma, Retenida, RetieneCPU, Tomada,
        EnDespacho, Quieta, Parada, Callada, Sorda, ConDatos, ConPrograma,
        EnViaje, Andando, EnWait, EnSignal, Saliendo, Pide, PidePCB, Libera,
        Ocupada, Principal
  <2> QED BY <2>1, <2>2
<1> QED BY <1>2, <1>3, <1>4, <1>6 DEF Inv, Protocolo

(* The end of an instruction: the program goes on, or its CPU has written  *)
(* that it does not.                                                       *)
LEMMA AlCerrar ==
  ASSUME TypeOK, NEW c \in CPUs, Callada(c), NEW t, t = cpu[c].pid,
         NEW bloqueado \in BOOLEAN, CerrarInstruccion(c, bloqueado)
  PROVE  /\ cpu'[c].paso = "sondeo" /\ cpu'[c].pid = t
         /\ bloqueado => /\ cpu'[c].sale
                         /\ aKernel'[c] = <<t_paquete("PROGRAMA_BLOQUEADO_SEMAFORO", t)>>
         /\ ~bloqueado => \/ ~cpu'[c].sale /\ aKernel'[c] = <<>>
                          \/ cpu'[c].sale /\ aKernel'[c] = <<t_paquete("FIN_QUANTUM", t)>>
         /\ \A d \in CPUs : d # c => cpu'[d] = cpu[d] /\ aKernel'[d] = aKernel[d]
<1> PICK q : q = IF RoundRobin THEN cpu[c].quantum - 1 ELSE cpu[c].quantum
  OBVIOUS
<1>1. cpu' = [cpu EXCEPT ![c].paso = "sondeo", ![c].quantum = q,
                         ![c].sale = SaleDelLazo(bloqueado, q), ![c].sem = Nulo]
  BY DEF CerrarInstruccion
<1>2. /\ cpu'[c].paso = "sondeo" /\ cpu'[c].pid = t
      /\ cpu'[c].sale = SaleDelLazo(bloqueado, q)
      /\ \A d \in CPUs : d # c => cpu'[d] = cpu[d]
  BY <1>1 DEF TypeOK, TipoCPUs, TipoCPU
<1>3. \A o : EnviaAlKernel(c, o, t) =>
         /\ aKernel'[c] = <<t_paquete(o, t)>>
         /\ \A d \in CPUs : d # c => aKernel'[d] = aKernel[d]
  BY Cortas DEF EnviaAlKernel, TypeOK, TipoRed, Callada
<1>4. IF bloqueado THEN EnviaAlKernel(c, "PROGRAMA_BLOQUEADO_SEMAFORO", t)
      ELSE IF q = 0 THEN EnviaAlKernel(c, "FIN_QUANTUM", t)
      ELSE UNCHANGED aKernel
  BY DEF CerrarInstruccion
<1> QED BY <1>2, <1>3, <1>4 DEF SaleDelLazo, Callada

(* The first packet of a dispatch, or the PCB itself taken for it.         *)
LEMMA InvRecibirDatos ==
  ASSUME TypeOK, Inv, NEW c \in CPUs, recibirDatosKernel(c)
  PROVE  Inv'
<1>1. /\ cpu[c].paso = "espera" /\ aCPU[c] # <<>>
      /\ cpu'[c].paso = "esperaPCB" /\ cpu'[c].pid = cpu[c].pid
      /\ aCPU'[c] = Tail(aCPU[c]) /\ aKernel'[c] = aKernel[c]
      /\ \A d \in CPUs : d # c => /\ cpu'[d] = cpu[d]
                                  /\ aCPU'[d] = aCPU[d] /\ aKernel'[d] = aKernel[d]
  BY DEF recibirDatosKernel, CPUEn, RecibeDelKernel, TypeOK, TipoRed, TipoCPUs, TipoCPU
<1>2. UNCHANGED kernel /\ UNCHANGED <<hilo, cola_exec, socketCPU>>
  BY DEF recibirDatosKernel, kernel, colas, procesos
<1>3. Quieta(c) => Quieta(c)'
  BY <1>1 DEF Quieta, Parada, Callada, Sorda
<1>4. ConDatos(c) => ConDatos(c)'
  <2>1. ConDatos(c) => aCPU[c] = <<Datos>>
    BY <1>1 DEF ConDatos, Sorda
  <2>2. aCPU[c] = <<Datos>> => aCPU'[c] = <<>>
    BY <1>1, Cortas
  <2> QED BY <1>1, <2>1, <2>2 DEF ConDatos, Callada, Sorda
<1>5. ASSUME NEW t \in Procesos, ConPrograma(c, t)
      PROVE  ConPrograma(c, t)'
  <2>1. /\ Parada(c) /\ Callada(c)
        /\ aCPU[c] = <<Datos, PCBDe(t)>> \/ aCPU[c] = <<PCBDe(t)>>
    BY <1>1, <1>5 DEF ConPrograma, EnViaje, Andando, EnWait, EnSignal, Saliendo, Parada, Sorda
  <2>2. aCPU'[c] = <<PCBDe(t)>> \/ aCPU'[c] = <<>>
    <3>1. CASE aCPU[c] = <<Datos, PCBDe(t)>>
      BY <1>1, <3>1, Cortas
    <3>2. CASE aCPU[c] = <<PCBDe(t)>>
      BY <1>1, <3>2, Cortas
    <3> QED BY <2>1, <3>1, <3>2
  <2>3. Callada(c)'
    BY <1>1, <2>1 DEF Callada
  <2>4. EnViaje(c, t)'
    BY <1>1, <2>2, <2>3 DEF EnViaje, Sorda, PCBDe
  <2> QED BY <2>4 DEF ConPrograma
<1>6. /\ Pide(c, Principal.proc) => Pide(c, Principal.proc)'
      /\ PidePCB(c, Principal.proc) => PidePCB(c, Principal.proc)'
      /\ Libera(c) => Libera(c)'
  BY <1>1 DEF Pide, PidePCB, Libera, Parada, Callada, Sorda
<1> QED BY <1>1, <1>2, <1>3, <1>4, <1>5, <1>6, InvDeCPU

(* The second packet is the PCB: the program runs.                         *)
LEMMA InvRecibirPCB ==
  ASSUME TypeOK, Inv, NEW c \in CPUs, recibirPCB(c)
  PROVE  Inv'
<1>1. /\ cpu[c].paso = "esperaPCB" /\ aCPU[c] # <<>>
      /\ cpu'[c].paso # "desconectada"
      /\ aCPU'[c] = Tail(aCPU[c]) /\ aKernel'[c] = aKernel[c]
      /\ \A d \in CPUs : d # c => /\ cpu'[d] = cpu[d]
                                  /\ aCPU'[d] = aCPU[d] /\ aKernel'[d] = aKernel[d]
  BY DEF recibirPCB, CPUEn, RecibeDelKernel, TypeOK, TipoRed, TipoCPUs, TipoCPU
<1>2. UNCHANGED kernel /\ UNCHANGED <<hilo, cola_exec, socketCPU>>
  BY DEF recibirPCB, kernel, colas, procesos
<1>3. Quieta(c) => Quieta(c)'
  BY <1>1 DEF Quieta, Parada, Callada, Sorda
<1>4. ConDatos(c) => ConDatos(c)'
  BY <1>1 DEF ConDatos, Parada, Callada, Sorda
<1>5. ASSUME NEW t \in Procesos, ConPrograma(c, t)
      PROVE  ConPrograma(c, t)'
  <2>1. Callada(c) /\ aCPU[c] = <<PCBDe(t)>>
    BY <1>1, <1>5 DEF ConPrograma, EnViaje, Andando, EnWait, EnSignal, Saliendo, Parada, Sorda
  <2>2. Head(aCPU[c]) = PCBDe(t) /\ Tail(aCPU[c]) = <<>>
    BY <2>1, Cortas
  <2>3. /\ PCBDe(t).op = "PCB_SERIALIZADO" /\ PCBDe(t).dato = t /\ t # Nulo
    BY ConjuntosAssumption DEF PCBDe, t_paquete
  <2>4. cpu'[c].paso = "ejecuta" /\ cpu'[c].pid = t
    BY <2>2, <2>3 DEF recibirPCB, TypeOK, TipoCPUs, TipoCPU
  <2>5. Andando(c, t)'
    BY <1>1, <2>1, <2>2, <2>4 DEF Andando, Callada, Sorda
  <2> QED BY <2>5 DEF ConPrograma
<1>6. /\ Pide(c, Principal.proc) => Pide(c, Principal.proc)'
      /\ PidePCB(c, Principal.proc) => PidePCB(c, Principal.proc)'
      /\ Libera(c) => Libera(c)'
  BY <1>1 DEF Pide, PidePCB, Libera, Parada, Callada, Sorda
<1> QED BY <1>1, <1>2, <1>3, <1>4, <1>5, <1>6, InvDeCPU

(* An instruction that asks nothing of the Kernel.                         *)
LEMMA InvInstruccion ==
  ASSUME TypeOK, Inv, NEW c \in CPUs, instruccionLocal(c)
  PROVE  Inv'
<1>1. /\ cpu[c].paso = "ejecuta" /\ cpu'[c].paso = "sondeo" /\ aCPU' = aCPU
      /\ CerrarInstruccion(c, FALSE)
      /\ \A d \in CPUs : d # c => cpu'[d] = cpu[d] /\ aKernel'[d] = aKernel[d]
  BY DEF instruccionLocal, CPUEn, CerrarInstruccion, EnviaAlKernel, TypeOK, TipoRed,
         TipoCPUs, TipoCPU
<1>2. UNCHANGED kernel /\ UNCHANGED <<hilo, cola_exec, socketCPU>>
  BY DEF instruccionLocal, kernel, colas, procesos
<1>3. Quieta(c) => Quieta(c)'
  BY <1>1 DEF Quieta, Parada, Callada, Sorda
<1>4. ConDatos(c) => ConDatos(c)'
  BY <1>1 DEF ConDatos, Parada, Callada, Sorda
<1>5. ASSUME NEW t \in Procesos, ConPrograma(c, t)
      PROVE  ConPrograma(c, t)'
  <2>1. cpu[c].pid = t /\ Callada(c) /\ Sorda(c)
    BY <1>1, <1>5 DEF ConPrograma, EnViaje, Andando, EnWait, EnSignal, Saliendo, Parada
  <2>2. /\ cpu'[c].pid = t
        /\ \/ ~cpu'[c].sale /\ aKernel'[c] = <<>>
           \/ cpu'[c].sale /\ aKernel'[c] = <<t_paquete("FIN_QUANTUM", t)>>
    BY <1>1, <2>1, AlCerrar
  <2>3. Andando(c, t)' \/ Saliendo(c, t)'
    BY <1>1, <2>1, <2>2 DEF Andando, Saliendo, Parada, Callada, Sorda
  <2> QED BY <2>3 DEF ConPrograma
<1>6. /\ Pide(c, Principal.proc) => Pide(c, Principal.proc)'
      /\ PidePCB(c, Principal.proc) => PidePCB(c, Principal.proc)'
      /\ Libera(c) => Libera(c)'
  BY <1>1 DEF Pide, PidePCB, Libera, Parada, Callada, Sorda
<1> QED BY <1>1, <1>2, <1>3, <1>4, <1>5, <1>6, InvDeCPU

(* The program ends, by itself or by an error of its own.                  *)
LEMMA InvTerminar ==
  ASSUME TypeOK, Inv, NEW c \in CPUs, terminarPrograma(c)
  PROVE  Inv'
<1> PICK op \in OpsFin : EnviaAlKernel(c, op, cpu[c].pid)
  BY DEF terminarPrograma
<1>1. /\ cpu[c].paso = "ejecuta" /\ aCPU' = aCPU
      /\ cpu'[c].paso = "sondeo" /\ cpu'[c].sale /\ cpu'[c].pid = cpu[c].pid
      /\ aKernel'[c] = Append(aKernel[c], t_paquete(op, cpu[c].pid))
      /\ \A d \in CPUs : d # c => cpu'[d] = cpu[d] /\ aKernel'[d] = aKernel[d]
  BY DEF terminarPrograma, CPUEn, EnviaAlKernel, TypeOK, TipoRed, TipoCPUs, TipoCPU
<1>2. UNCHANGED kernel /\ UNCHANGED <<hilo, cola_exec, socketCPU>>
  BY DEF terminarPrograma, kernel, colas, procesos
<1>3. Quieta(c) => Quieta(c)'
  BY <1>1 DEF Quieta, Parada, Callada, Sorda
<1>4. ConDatos(c) => ConDatos(c)'
  BY <1>1 DEF ConDatos, Parada, Callada, Sorda
<1>5. ASSUME NEW t \in Procesos, ConPrograma(c, t)
      PROVE  ConPrograma(c, t)'
  <2>1. cpu[c].pid = t /\ Callada(c) /\ Sorda(c)
    BY <1>1, <1>5 DEF ConPrograma, EnViaje, Andando, EnWait, EnSignal, Saliendo, Parada
  <2>2. aKernel'[c] = <<t_paquete(op, t)>>
    BY <1>1, <2>1, Cortas DEF Callada
  <2>3. Saliendo(c, t)'
    BY <1>1, <2>1, <2>2 DEF Saliendo, Parada, Sorda
  <2> QED BY <2>3 DEF ConPrograma
<1>6. /\ Pide(c, Principal.proc) => Pide(c, Principal.proc)'
      /\ PidePCB(c, Principal.proc) => PidePCB(c, Principal.proc)'
      /\ Libera(c) => Libera(c)'
  BY <1>1 DEF Pide, PidePCB, Libera, Parada, Callada, Sorda
<1> QED BY <1>1, <1>2, <1>3, <1>4, <1>5, <1>6, InvDeCPU

(* wait and signal: the request is on its way.                             *)
LEMMA InvPedir ==
  ASSUME TypeOK, Inv, NEW c \in CPUs, NEW s \in Semaforos,
         wait_kernel(c, s) \/ signal_kernel(c, s)
  PROVE  Inv'
<1>1. /\ cpu[c].paso = "ejecuta" /\ aCPU' = aCPU /\ cpu'[c].pid = cpu[c].pid
      /\ \/ /\ cpu'[c].paso = "wait" /\ cpu'[c].sem = s
            /\ aKernel'[c] = Append(aKernel[c], t_paquete("PEDIR_SEMAFORO", s))
         \/ /\ cpu'[c].paso = "signal"
            /\ aKernel'[c] = Append(aKernel[c], t_paquete("LIBERAR_SEMAFORO", s))
      /\ \A d \in CPUs : d # c => cpu'[d] = cpu[d] /\ aKernel'[d] = aKernel[d]
  BY DEF wait_kernel, signal_kernel, CPUEn, EnviaAlKernel, TypeOK, TipoRed, TipoCPUs,
         TipoCPU
<1>2. UNCHANGED kernel /\ UNCHANGED <<hilo, cola_exec, socketCPU>>
  BY DEF wait_kernel, signal_kernel, kernel, colas, procesos
<1>3. Quieta(c) => Quieta(c)'
  BY <1>1 DEF Quieta, Parada, Callada, Sorda
<1>4. ConDatos(c) => ConDatos(c)'
  BY <1>1 DEF ConDatos, Parada, Callada, Sorda
<1>5. ASSUME NEW t \in Procesos, ConPrograma(c, t)
      PROVE  ConPrograma(c, t)'
  <2>1. cpu[c].pid = t /\ Callada(c) /\ Sorda(c)
    BY <1>1, <1>5 DEF ConPrograma, EnViaje, Andando, EnWait, EnSignal, Saliendo, Parada
  <2>2. \A p : aKernel'[c] = Append(aKernel[c], p) => aKernel'[c] = <<p>>
    BY <2>1, Cortas DEF Callada
  <2>3. EnWait(c, t)' \/ EnSignal(c, t)'
    BY <1>1, <2>1, <2>2 DEF EnWait, EnSignal, Sorda
  <2> QED BY <2>3 DEF ConPrograma
<1>6. /\ Pide(c, Principal.proc) => Pide(c, Principal.proc)'
      /\ PidePCB(c, Principal.proc) => PidePCB(c, Principal.proc)'
      /\ Libera(c) => Libera(c)'
  BY <1>1 DEF Pide, PidePCB, Libera, Parada, Callada, Sorda
<1> QED BY <1>1, <1>2, <1>3, <1>4, <1>5, <1>6, InvDeCPU

(* The answer to wait: the program goes on, or its PCB is sent back.       *)
LEMMA InvRespuestaWait ==
  ASSUME TypeOK, Inv, NEW c \in CPUs, respuestaWait(c)
  PROVE  Inv'
<1>0. PICK b \in BOOLEAN : b = ~EsCero(Head(aCPU[c]))
  BY Zenon
<1>1. /\ cpu[c].paso = "wait" /\ aCPU[c] # <<>> /\ cpu'[c].paso = "sondeo"
      /\ CerrarInstruccion(c, b)
      /\ aCPU'[c] = Tail(aCPU[c])
      /\ \A d \in CPUs : d # c => /\ cpu'[d] = cpu[d]
                                  /\ aCPU'[d] = aCPU[d] /\ aKernel'[d] = aKernel[d]
  BY <1>0 DEF respuestaWait, CPUEn, CerrarInstruccion, EnviaAlKernel, RecibeDelKernel,
         TypeOK, TipoRed, TipoCPUs, TipoCPU
<1>2. UNCHANGED kernel /\ UNCHANGED <<hilo, cola_exec, socketCPU>>
  BY DEF respuestaWait, kernel, colas, procesos
<1>3. Quieta(c) => Quieta(c)'
  BY <1>1 DEF Quieta, Parada, Callada, Sorda
<1>4. ConDatos(c) => ConDatos(c)'
  BY <1>1 DEF ConDatos, Parada, Callada, Sorda
<1>5. ASSUME NEW t \in Procesos, ConPrograma(c, t)
      PROVE  ConPrograma(c, t)'
  <2>1. /\ cpu[c].pid = t /\ Callada(c)
        /\ aCPU[c] = <<t_paquete("PEDIDO_SEMAFORO_OK", Nulo)>>
    BY <1>1, <1>5 DEF ConPrograma, EnViaje, Andando, EnWait, EnSignal, Saliendo, Parada, Sorda
  <2>2. /\ Head(aCPU[c]) = t_paquete("PEDIDO_SEMAFORO_OK", Nulo)
        /\ Tail(aCPU[c]) = <<>>
    BY <2>1, Cortas
  <2>3. b = FALSE
    <3>1. EsCero(Head(aCPU[c]))
      BY <2>2 DEF EsCero, t_paquete
    <3> QED BY <1>0, <3>1, Zenon
  <2>4. /\ cpu'[c].pid = t
        /\ \/ ~cpu'[c].sale /\ aKernel'[c] = <<>>
           \/ cpu'[c].sale /\ aKernel'[c] = <<t_paquete("FIN_QUANTUM", t)>>
    BY <1>1, <2>1, <2>3, AlCerrar
  <2>5. Andando(c, t)' \/ Saliendo(c, t)'
    BY <1>1, <2>1, <2>2, <2>4 DEF Andando, Saliendo, Parada, Callada, Sorda
  <2> QED BY <2>5 DEF ConPrograma
<1>6. /\ Pide(c, Principal.proc) => Pide(c, Principal.proc)'
      /\ PidePCB(c, Principal.proc) => PidePCB(c, Principal.proc)'
      /\ Libera(c) => Libera(c)'
  <2>1. Pide(c, Principal.proc) => Pide(c, Principal.proc)'
    BY <1>1 DEF Pide, Sorda
  <2>2. Libera(c) => Libera(c)'
    BY <1>1 DEF Libera
  <2>3. ASSUME PidePCB(c, Principal.proc)
        PROVE  PidePCB(c, Principal.proc)'
    <3>1. /\ cpu[c].pid = Principal.proc /\ Callada(c)
          /\ aCPU[c] = <<t_paquete("PEDIDO_SEMAFORO_FALLO", Nulo)>>
      BY <1>1, <2>3 DEF PidePCB, Sorda, Parada
    <3>2. /\ Head(aCPU[c]) = t_paquete("PEDIDO_SEMAFORO_FALLO", Nulo)
          /\ Tail(aCPU[c]) = <<>>
      BY <3>1, Cortas
    <3>3. b = TRUE
      <4>1. ~EsCero(Head(aCPU[c]))
        BY <3>2 DEF EsCero, t_paquete
      <4> QED BY <1>0, <4>1, Zenon
    <3>4. /\ cpu'[c].pid = Principal.proc /\ cpu'[c].sale
          /\ aKernel'[c] = <<t_paquete("PROGRAMA_BLOQUEADO_SEMAFORO", Principal.proc)>>
      BY <1>1, <3>1, <3>3, AlCerrar
    <3> QED BY <1>1, <1>2, <3>2, <3>4 DEF PidePCB, Parada, Sorda, Principal
  <2> QED BY <2>1, <2>2, <2>3
<1> QED BY <1>1, <1>2, <1>3, <1>4, <1>5, <1>6, InvDeCPU

(* The answer to signal.                                                   *)
LEMMA InvRespuestaSignal ==
  ASSUME TypeOK, Inv, NEW c \in CPUs, respuestaSignal(c)
  PROVE  Inv'
<1>1. /\ cpu[c].paso = "signal" /\ aCPU[c] # <<>> /\ cpu'[c].paso = "sondeo"
      /\ CerrarInstruccion(c, FALSE)
      /\ aCPU'[c] = Tail(aCPU[c])
      /\ \A d \in CPUs : d # c => /\ cpu'[d] = cpu[d]
                                  /\ aCPU'[d] = aCPU[d] /\ aKernel'[d] = aKernel[d]
  BY DEF respuestaSignal, CPUEn, CerrarInstruccion, EnviaAlKernel, RecibeDelKernel,
         TypeOK, TipoRed, TipoCPUs, TipoCPU
<1>2. UNCHANGED kernel /\ UNCHANGED <<hilo, cola_exec, socketCPU>>
  BY DEF respuestaSignal, kernel, colas, procesos
<1>3. Quieta(c) => Quieta(c)'
  BY <1>1 DEF Quieta, Parada, Callada, Sorda
<1>4. ConDatos(c) => ConDatos(c)'
  BY <1>1 DEF ConDatos, Parada, Callada, Sorda
<1>5. ASSUME NEW t \in Procesos, ConPrograma(c, t)
      PROVE  ConPrograma(c, t)'
  <2>1. /\ cpu[c].pid = t /\ Callada(c)
        /\ \E s \in Semaforos : aCPU[c] = <<t_paquete("LIBERAR_SEMAFORO", s)>>
    BY <1>1, <1>5 DEF ConPrograma, EnViaje, Andando, EnWait, EnSignal, Saliendo, Parada, Sorda
  <2>2. Tail(aCPU[c]) = <<>>
    <3>1. PICK s \in Semaforos : aCPU[c] = <<t_paquete("LIBERAR_SEMAFORO", s)>>
      BY <2>1
    <3> QED BY <3>1, Cortas
  <2>3. /\ cpu'[c].pid = t
        /\ \/ ~cpu'[c].sale /\ aKernel'[c] = <<>>
           \/ cpu'[c].sale /\ aKernel'[c] = <<t_paquete("FIN_QUANTUM", t)>>
    BY <1>1, <2>1, AlCerrar
  <2>4. Andando(c, t)' \/ Saliendo(c, t)'
    BY <1>1, <2>1, <2>2, <2>3 DEF Andando, Saliendo, Parada, Callada, Sorda
  <2> QED BY <2>4 DEF ConPrograma
<1>6. /\ Pide(c, Principal.proc) => Pide(c, Principal.proc)'
      /\ PidePCB(c, Principal.proc) => PidePCB(c, Principal.proc)'
      /\ Libera(c) => Libera(c)'
  BY <1>1 DEF Pide, PidePCB, Libera, Parada, Callada, Sorda
<1> QED BY <1>1, <1>2, <1>3, <1>4, <1>5, <1>6, InvDeCPU

(* The poll after an instruction: a packet of a dispatch that is already   *)
(* there is dropped, and the one that follows is taken for it.             *)
LEMMA InvSondeo ==
  ASSUME TypeOK, Inv, NEW c \in CPUs, sondeo(c)
  PROVE  Inv'
<1>1. /\ cpu[c].paso = "sondeo"
      /\ aCPU[c] = <<>> => aCPU'[c] = <<>> /\ aKernel'[c] = aKernel[c]
      /\ aCPU[c] # <<>> /\ Head(aCPU[c]).op \notin OpsAborto =>
            aCPU'[c] = Tail(aCPU[c]) /\ aKernel'[c] = aKernel[c]
      /\ aCPU[c] = <<>> \/ Head(aCPU[c]).op \notin OpsAborto =>
            cpu'[c].paso = IF cpu[c].sale THEN "espera" ELSE "ejecuta"
      /\ cpu'[c].paso # "desconectada" /\ cpu'[c].pid = cpu[c].pid
      /\ \A d \in CPUs : d # c => /\ cpu'[d] = cpu[d]
                                  /\ aCPU'[d] = aCPU[d] /\ aKernel'[d] = aKernel[d]
  BY DEF sondeo, CPUEn, EnviaAlKernel, RecibeDelKernel, TypeOK, TipoRed, TipoCPUs,
         TipoCPU
<1>2. UNCHANGED kernel /\ UNCHANGED <<hilo, cola_exec, socketCPU>>
  BY DEF sondeo, kernel, colas, procesos
<1>3. Quieta(c) => Quieta(c)'
  BY <1>1 DEF Quieta, Parada, Callada, Sorda
<1>4. ConDatos(c) => ConDatos(c)'
  <2>1. ConDatos(c) => aCPU[c] = <<Datos>> /\ cpu[c].sale
    BY <1>1 DEF ConDatos, Parada
  <2>2. aCPU[c] = <<Datos>> => Head(aCPU[c]) = Datos /\ Tail(aCPU[c]) = <<>> /\ aCPU[c] # <<>>
    BY Cortas
  <2>3. Datos.op \notin OpsAborto
    BY DEF Datos, t_paquete, OpsAborto
  <2> QED BY <1>1, <2>1, <2>2, <2>3 DEF ConDatos, Callada, Sorda
<1>5. ASSUME NEW t \in Procesos, ConPrograma(c, t)
      PROVE  ConPrograma(c, t)'
  <2>1. CASE EnViaje(c, t)
    <3>1. aCPU[c] = <<Datos, PCBDe(t)>> /\ cpu[c].sale /\ Callada(c)
      BY <1>1, <2>1 DEF EnViaje, Parada
    <3>2. Head(aCPU[c]) = Datos /\ Tail(aCPU[c]) = <<PCBDe(t)>> /\ aCPU[c] # <<>>
      BY <3>1, Cortas
    <3>3. Datos.op \notin OpsAborto
      BY DEF Datos, t_paquete, OpsAborto
    <3>4. EnViaje(c, t)'
      BY <1>1, <3>1, <3>2, <3>3 DEF EnViaje, Callada, PCBDe
    <3> QED BY <3>4 DEF ConPrograma
  <2>2. CASE Andando(c, t)
    <3>1. Andando(c, t)'
      BY <1>1, <2>2 DEF Andando, Callada, Sorda
    <3> QED BY <3>1 DEF ConPrograma
  <2>3. CASE Saliendo(c, t)
    <3>1. Saliendo(c, t)'
      BY <1>1, <2>3 DEF Saliendo, Parada, Sorda
    <3> QED BY <3>1 DEF ConPrograma
  <2> QED BY <1>1, <1>5, <2>1, <2>2, <2>3 DEF ConPrograma, EnWait, EnSignal
<1>6. /\ Pide(c, Principal.proc) => Pide(c, Principal.proc)'
      /\ PidePCB(c, Principal.proc) => PidePCB(c, Principal.proc)'
      /\ Libera(c) => Libera(c)'
  BY <1>1, <1>2 DEF Pide, PidePCB, Libera, Parada, Callada, Sorda, Principal
<1> QED BY <1>1, <1>2, <1>3, <1>4, <1>5, <1>6, InvDeCPU

-----------------------------------------------------------------------------
(* The invariant.                                                          *)

LEMMA InvInicial == Init => Inv
<1> SUFFICES ASSUME Init
             PROVE  Inv
  OBVIOUS
<1>1. /\ ToSet(cola_new) = {} /\ ToSet(cola_ready) = {} /\ ToSet(cola_exec) = {}
      /\ ToSet(cola_block) = {} /\ ToSet(cola_exit) = {}
      /\ ToSet(cola_CPU_libres) = {} /\ \A s \in Semaforos : ToSet(cola_semaforos[s]) = {}
  BY ElementosCortos DEF Init
<1>2. /\ SinRepetidos(<<>>) /\ cola_new = <<>>
      /\ SinRepetidos(cola_ready) /\ SinRepetidos(cola_exec)
      /\ SinRepetidos(cola_block) /\ SinRepetidos(cola_exit)
      /\ SinRepetidos(cola_CPU_libres)
      /\ \A s \in Semaforos : SinRepetidos(cola_semaforos[s])
  BY DEF Init, SinRepetidos
<1>3. /\ hilo["consola"] = Reposo /\ Principal = Reposo
      /\ Reposo.paso = "select" /\ Reposo.cpu = Nulo /\ Reposo.luego = "select"
  BY DEF Init, Hilos, Reposo, Principal
<1>4. planif.paso = "sem_ready" /\ creados = {}
  BY DEF Init, PlanifReposo
<1>5. /\ \A t \in Procesos : socketCPU[t] = Nulo /\ pcb[t] = t
      /\ \A c \in CPUs : /\ aCPU[c] = <<>> /\ aKernel[c] = <<>>
                         /\ cpu[c].paso = "desconectada"
      /\ Nulo \notin CPUs
  BY ConjuntosAssumption DEF Init
<1>6. NoCae /\ PCBPropio
  BY <1>5 DEF Init, NoCae, PCBPropio
<1>7. Lugares
  BY <1>1, <1>2, <1>3, <1>4
  DEF Lugares, Nuevos, ColasSinRepetidos, UnLugar, EnCola, Lleva, EnManoDe, Despacha,
      Principal
<1>8. Esperas /\ HiloCoherente /\ Sockets /\ Despachos
  BY <1>1, <1>2, <1>3, <1>4, <1>5 DEF Esperas, HiloCoherente, Sockets, Despachos
<1>9. Duenos
  BY <1>1, <1>2, <1>3, <1>4, <1>5
  DEF Duenos, UnDueno, Ocupada, Retenida, RetieneCPU, Tomada, Principal
<1>10. Protocolo
  BY <1>1, <1>3, <1>4, <1>5
  DEF Protocolo, ProtocoloDe, SinPrograma, Retenida, RetieneCPU, Tomada, EnDespacho,
      Callada, Sorda, Principal
<1> QED BY <1>6, <1>7, <1>8, <1>9, <1>10 DEF Inv

(* Every step keeps it.                                                    *)
LEMMA PasoInv ==
  ASSUME TypeOK, ContadoresExactos, Inv, [Next]_vars
  PROVE  Inv'
<1>1. CASE HiloPrincipal
  BY <1>1, NadieCae, InvNuevaCPU, InvNuevoPrograma, InvSaleDeNew, InvPedirMemoria,
     InvPideSemaforo, InvLiberarSemaforo, InvVuelveElPrograma, InvPideSemaforoOK,
     InvPideSemaforoFallo, InvBloquear, InvDevolverCPU, InvLiberarUnidad
  DEF HiloPrincipal
<1>2. CASE PasoCompartido("principal")
  BY <1>2, InvEncolarReady, InvDevolverCPU, InvEnExit, InvLiberaCPU, InvDescuenta
  DEF PasoCompartido
<1>3. CASE HiloPlanificador
  BY <1>3, NadieCae, InvPlanifEspera, InvSacarCPU, InvSacarReady, InvMandar,
     InvEnviarDatos, InvEnviarPCB
  DEF HiloPlanificador
<1>4. ASSUME NEW c \in CPUs, ProcesoCPU(c)
      PROVE  Inv'
  BY <1>4, InvRecibirDatos, InvRecibirPCB, InvInstruccion, InvTerminar, InvPedir,
     InvRespuestaWait, InvRespuestaSignal, InvSondeo
  DEF ProcesoCPU
<1>5. CASE UNCHANGED vars
  <2>1. UNCHANGED <<cola_new, cola_ready, cola_exec, cola_block, cola_exit,
                    cola_CPU_libres, cola_semaforos, creados, socketCPU, pcb, hilo,
                    planif, caido, aCPU, aKernel, cpu>>
    BY <1>5 DEF vars, kernel, colas, libres, semaforos, procesos, red
  <2>2. Lugares' /\ NoCae' /\ PCBPropio' /\ Esperas' /\ HiloCoherente'
    BY <2>1
    DEF Inv, NoCae, PCBPropio, Lugares, Nuevos, ColasSinRepetidos, UnLugar, EnCola,
        Lleva, EnManoDe, Despacha, Esperas, HiloCoherente, Principal
  <2>3. Sockets' /\ Despachos'
    BY <2>1 DEF Inv, Sockets, Despachos, Principal
  <2>4. Duenos'
    BY <2>1 DEF Inv, Duenos, UnDueno, Ocupada, Retenida, RetieneCPU, Tomada
  <2>5. Protocolo'
    BY <2>1
    DEF Inv, Protocolo, ProtocoloDe, SinPrograma, Retenida, RetieneCPU, Tomada,
        EnDespacho, Quieta, Parada, Callada, Sorda, ConDatos, ConPrograma,
        EnViaje, Andando, EnWait, EnSignal, Saliendo, Pide, PidePCB, Libera,
        Ocupada, Principal
  <2> QED BY <2>2, <2>3, <2>4, <2>5 DEF Inv
<1> QED BY <1>1, <1>2, <1>3, <1>4, <1>5 DEF Next

(* For any number of programs, CPUs and semaphores.                        *)
LEMMA InvCorrecto == Spec => []Inv
<1>1. Init => Inv
  BY InvInicial
<1>2. TypeOK /\ ContadoresExactos /\ Inv /\ [Next]_vars => Inv'
  BY PasoInv
<1> QED BY <1>1, <1>2, TipoCorrecto, ContadoresCorrectos, PTL DEF Spec

-----------------------------------------------------------------------------
(* What follows from it.                                                   *)

(* The Kernel never dereferences NULL, with any number of CPUs: a packet   *)
(* always finds its process in exec.                                       *)
THEOREM KernelNoCae == Spec => []NoCae
<1>1. Inv => NoCae
  BY DEF Inv
<1> QED BY <1>1, InvCorrecto, PTL

LEMMA VecesUna ==
  ASSUME NEW T, NEW q \in Seq(T), NEW x, SinRepetidos(q)
  PROVE  Veces(q, x) = Uno(x \in ToSet(q))
<1>1. DOMAIN q = 1..Len(q) /\ Len(q) \in Nat
  BY LenProperties
<1>2. CASE x \in ToSet(q)
  <2>1. PICK i \in 1..Len(q) : q[i] = x
    BY <1>1, <1>2 DEF ToSet
  <2>2. Posiciones(q, {x}) = {i}
    BY <2>1 DEF Posiciones, SinRepetidos
  <2> QED BY <2>2, <1>2, FS_Singleton DEF Veces, Uno
<1>3. CASE x \notin ToSet(q)
  <2>1. Posiciones(q, {x}) = {}
    BY <1>1, <1>3 DEF ToSet, Posiciones
  <2> QED BY <2>1, <1>3, FS_EmptySet DEF Veces, Uno
<1> QED BY <1>2, <1>3

LEMMA CuantosHilos ==
  ASSUME NEW S \in SUBSET Hilos, "consola" \notin S
  PROVE  Cardinality(S) = Uno("principal" \in S)
<1>1. CASE "principal" \in S
  <2>1. S = {"principal"}
    BY <1>1 DEF Hilos
  <2> QED BY <1>1, <2>1, FS_Singleton DEF Uno
<1>2. CASE "principal" \notin S
  <2>1. S = {}
    BY <1>2 DEF Hilos
  <2> QED BY <1>2, <2>1, FS_EmptySet DEF Uno
<1> QED BY <1>1, <1>2

(* A process created is in one queue, or in the hands of one thread, and   *)
(* in block exactly when it is in the queue of one semaphore.              *)
THEOREM CadaProcesoUnaCola == Spec => []UnaSolaCola
<1>1. ASSUME TypeOK, Inv
      PROVE  UnaSolaCola
  <2> SUFFICES ASSUME NEW t \in Procesos
               PROVE  /\ Veces(cola_new, t) + Veces(cola_ready, t) + Veces(cola_exec, t)
                           + Veces(cola_block, t) + Veces(cola_exit, t)
                           + Cardinality({h \in Hilos : EnManoDe(h, t)})
                           + Uno(planif.paso = "exec" /\ planif.proc = t)
                         = Uno(t \in creados)
                      /\ Veces(cola_block, t) =
                           Cardinality({s \in Semaforos : \E i \in DOMAIN cola_semaforos[s] :
                                                             cola_semaforos[s][i] = t})
    BY DEF UnaSolaCola
  <2>1. UnLugar(t)
    BY <1>1 DEF Inv, Lugares
  <2>2. SinRepetidos(cola_new)
    <3>1. \A x : SinRepetidos(<<x>>) /\ SinRepetidos(<<>>)
      BY DEF SinRepetidos
    <3> QED BY <1>1, <3>1 DEF Inv, Lugares, Nuevos
  <2>3. /\ Veces(cola_new, t) = Uno(t \in ToSet(cola_new))
        /\ Veces(cola_ready, t) = Uno(t \in ToSet(cola_ready))
        /\ Veces(cola_exec, t) = Uno(t \in ToSet(cola_exec))
        /\ Veces(cola_block, t) = Uno(t \in ToSet(cola_block))
        /\ Veces(cola_exit, t) = Uno(t \in ToSet(cola_exit))
    BY <1>1, <2>2, TiposColas, VecesUna DEF Inv, Lugares, ColasSinRepetidos
  <2>4. Cardinality({h \in Hilos : EnManoDe(h, t)}) = Uno(Lleva(t))
    <3>1. PICK S : S = {h \in Hilos : EnManoDe(h, t)}
      OBVIOUS
    <3>2. "consola" \notin S /\ ("principal" \in S <=> Lleva(t)) /\ S \in SUBSET Hilos
      BY <1>1, <3>1 DEF Inv, HiloCoherente, EnManoDe, Reposo, Lleva, Hilos
    <3> QED BY <3>1, <3>2, CuantosHilos DEF Uno
  <2>5. Uno(planif.paso = "exec" /\ planif.proc = t) = Uno(Despacha(t))
    BY DEF Despacha
  <2>6. Uno(t \in ToSet(cola_new)) + Uno(t \in ToSet(cola_ready))
          + Uno(t \in ToSet(cola_exec)) + Uno(t \in ToSet(cola_block))
          + Uno(t \in ToSet(cola_exit)) + Uno(Lleva(t)) + Uno(Despacha(t))
        = Uno(t \in creados)
    BY <2>1 DEF UnLugar, EnCola, Uno
  <2>7. Veces(cola_block, t) =
          Cardinality({s \in Semaforos : \E i \in DOMAIN cola_semaforos[s] :
                                            cola_semaforos[s][i] = t})
    <3>1. PICK E : E = {s \in Semaforos : t \in ToSet(cola_semaforos[s])}
      OBVIOUS
    <3>2. E = {s \in Semaforos : \E i \in DOMAIN cola_semaforos[s] :
                                    cola_semaforos[s][i] = t}
      BY <3>1 DEF ToSet
    <3>3. /\ t \in ToSet(cola_block) <=> E # {}
          /\ \A s, r \in E : s = r
      BY <1>1, <3>1 DEF Inv, Esperas
    <3>4. Cardinality(E) = Uno(E # {})
      <4>1. CASE E = {}
        BY <4>1, FS_EmptySet DEF Uno
      <4>2. CASE E # {}
        <5>1. PICK s : E = {s}
          BY <3>3, <4>2
        <5> QED BY <4>2, <5>1, FS_Singleton DEF Uno
      <4> QED BY <4>1, <4>2
    <3> QED BY <2>3, <3>2, <3>3, <3>4 DEF Uno
  <2> QED BY <2>3, <2>4, <2>5, <2>6, <2>7
<1> QED BY <1>1, TipoCorrecto, InvCorrecto, PTL

(* A connected CPU is in the free list, runs one process, or is in the     *)
(* hands of one thread.                                                    *)
THEOREM CadaCPUUnDueno == Spec => []CPUUnica
<1>1. ASSUME TypeOK, Inv
      PROVE  CPUUnica
  <2> SUFFICES ASSUME NEW c \in CPUs
               PROVE  Veces(cola_CPU_libres, c)
                        + Cardinality({t \in ToSet(cola_exec) : socketCPU[t] = c})
                        + Cardinality({h \in Hilos : RetieneCPU(h, c)})
                        + Uno(planif.paso \in {"popReady", "exec"} /\ planif.cpu = c)
                      = Uno(cpu[c].paso # "desconectada")
    BY DEF CPUUnica
  <2>1. UnDueno(c)
    BY <1>1 DEF Inv, Duenos
  <2>2. Veces(cola_CPU_libres, c) = Uno(c \in ToSet(cola_CPU_libres))
    BY <1>1, TiposColas, VecesUna DEF Inv, Duenos
  <2>3. Cardinality({t \in ToSet(cola_exec) : socketCPU[t] = c}) = Uno(Ocupada(c))
    <3>1. PICK E : E = {t \in ToSet(cola_exec) : socketCPU[t] = c}
      OBVIOUS
    <3>2. /\ Ocupada(c) <=> E # {}
          /\ \A t, u \in E : t = u
      BY <1>1, <3>1 DEF Ocupada, Inv, Sockets
    <3>3. CASE E = {}
      BY <3>1, <3>2, <3>3, FS_EmptySet DEF Uno
    <3>4. CASE E # {}
      <4>1. PICK t : E = {t}
        BY <3>2, <3>4
      <4> QED BY <3>1, <3>2, <4>1, FS_Singleton DEF Uno
    <3> QED BY <3>3, <3>4
  <2>4. Cardinality({h \in Hilos : RetieneCPU(h, c)}) = Uno(Retenida(c))
    <3>1. PICK S : S = {h \in Hilos : RetieneCPU(h, c)}
      OBVIOUS
    <3>2. "consola" \notin S /\ ("principal" \in S <=> Retenida(c)) /\ S \in SUBSET Hilos
      BY <1>1, <3>1 DEF Inv, HiloCoherente, RetieneCPU, Reposo, Retenida, Hilos
    <3> QED BY <3>1, <3>2, CuantosHilos DEF Uno
  <2>5. Uno(planif.paso \in {"popReady", "exec"} /\ planif.cpu = c) = Uno(Tomada(c))
    BY DEF Tomada
  <2>6. Uno(c \in ToSet(cola_CPU_libres)) + Uno(Ocupada(c)) + Uno(Retenida(c))
          + Uno(Tomada(c)) = Uno(cpu[c].paso # "desconectada")
    BY <2>1 DEF UnDueno, Uno
  <2> QED BY <2>2, <2>3, <2>4, <2>5, <2>6
<1> QED BY <1>1, TipoCorrecto, InvCorrecto, PTL

(* A CPU on which the program has not been sent back.                      *)
Corriendo(c) ==
    \/ cpu[c].paso \in {"ejecuta", "wait", "signal"}
    \/ cpu[c].paso = "sondeo" /\ ~cpu[c].sale

(* What a CPU runs is what the Kernel thinks it does.                      *)
LEMMA LoQueCorre ==
  ASSUME TypeOK, Inv, NEW c \in CPUs, Corriendo(c)
  PROVE  /\ cpu[c].pid \in Procesos /\ socketCPU[cpu[c].pid] = c
         /\ \/ cpu[c].pid \in ToSet(cola_exec)
            \/ /\ Principal.paso \in {"pide", "pidePCB"}
               /\ Principal.proc = cpu[c].pid /\ Principal.cpu = c
<1>1. UnDueno(c) /\ ProtocoloDe(c)
  BY DEF Inv, Duenos, Protocolo
<1>2. ~SinPrograma(c) /\ ~EnDespacho(c) /\ cpu[c].paso # "desconectada"
  BY <1>1
  DEF Corriendo, ProtocoloDe, Quieta, Parada, ConDatos, EnDespacho, SinPrograma
<1>3. Ocupada(c) \/ (Retenida(c) /\ Principal.paso \in {"pide", "pidePCB"})
  BY <1>1, <1>2 DEF UnDueno, SinPrograma
<1>4. CASE Ocupada(c)
  <2>1. PICK t \in ToSet(cola_exec) : socketCPU[t] = c /\ ConPrograma(c, t)
    BY <1>1, <1>2, <1>4 DEF Ocupada, ProtocoloDe
  <2>2. cpu[c].pid = t
    BY <2>1
    DEF Corriendo, ConPrograma, EnViaje, Andando, EnWait, EnSignal, Saliendo, Parada
  <2> QED BY <2>1, <2>2, TiposColas
<1>5. CASE Retenida(c) /\ Principal.paso \in {"pide", "pidePCB"}
  <2>1. /\ Principal.cpu = c /\ socketCPU[Principal.proc] = c
        /\ Principal.proc \in Procesos
    BY <1>5, EnLaMano DEF Retenida, RetieneCPU, Inv, Sockets, Principal
  <2>2. cpu[c].pid = Principal.proc
    BY <1>1, <1>5, <2>1 DEF ProtocoloDe, Pide, PidePCB
  <2> QED BY <1>5, <2>1, <2>2
<1> QED BY <1>3, <1>4, <1>5

(* A CPU executes the process that is in exec with its socket, no two CPUs *)
(* the same one, and each PCB comes back to its process.                   *)
THEOREM CadaCPUElSuyo == Spec => []EjecutaElSuyo
<1>1. ASSUME TypeOK, Inv
      PROVE  EjecutaElSuyo
  <2>1. PCBPropio
    BY <1>1 DEF Inv
  <2>2. ASSUME NEW c \in CPUs, Ejecutando(c)
        PROVE  /\ socketCPU[cpu[c].pid] = c
               /\ \/ cpu[c].pid \in ToSet(cola_exec)
                  \/ /\ hilo["principal"].paso \in {"pide", "pidePCB"}
                     /\ hilo["principal"].proc = cpu[c].pid
    BY <1>1, <2>2, LoQueCorre DEF Principal, Ejecutando, Corriendo
  <2>3. ASSUME NEW c \in CPUs, Ejecutando(c), NEW d \in CPUs \ {c}, Ejecutando(d)
        PROVE  cpu[d].pid # cpu[c].pid
    BY <2>2, <2>3
  <2> QED BY <2>1, <2>2, <2>3 DEF EjecutaElSuyo
<1> QED BY <1>1, TipoCorrecto, InvCorrecto, PTL

-----------------------------------------------------------------------------
(* Mutual exclusion.  The units of a semaphore are those the Kernel has    *)
(* and those the programs hold, and a program holds one from the moment    *)
(* the Kernel grants it to the moment the Kernel has it back: on the CPU,  *)
(* in a socket, or in ready after another's signal.                        *)


(* Who holds a unit of s: a program past its wait and before its signal,   *)
(* or one whose unit is on the way.  OKDe: granted, and the answer is in   *)
(* the socket.  SenalDe: given back by the program, not yet by the Kernel. *)
(* Despierto: given to it by another's signal, and it does not run yet.    *)
OKDe(c, t, s) ==
    /\ cpu[c].pid = t /\ cpu[c].paso = "wait" /\ cpu[c].sem = s
    /\ aCPU[c] = <<t_paquete("PEDIDO_SEMAFORO_OK", Nulo)>>
SenalDe(c, t, s) ==
    /\ cpu[c].pid = t /\ cpu[c].paso = "signal"
    /\ \/ aKernel[c] = <<t_paquete("LIBERAR_SEMAFORO", s)>>
       \/ Principal.paso = "libera" /\ Principal.cpu = c /\ Principal.sem = s
Despierto(t, s) ==
    /\ espera[t] = s /\ t \notin ToSet(cola_block)
    /\ ~(Principal.paso = "pidePCB" /\ Principal.proc = t)
Tiene(t, s) ==
    \/ <<t, s>> \in dentro
    \/ \E c \in CPUs : OKDe(c, t, s) \/ SenalDe(c, t, s)
    \/ Despierto(t, s)
Tenedores(s) == {t \in Procesos : Tiene(t, s)}

(* A program waits for a semaphore only while it is blocked, or on its way *)
(* to or from it, and it is then outside the section.                      *)
EsperaCoherente ==
    /\ \A c \in CPUs : Corriendo(c) => espera[cpu[c].pid] = Nulo
    /\ \A c \in CPUs : cpu[c].paso = "wait" => <<cpu[c].pid, cpu[c].sem>> \notin dentro
    /\ \A c \in CPUs, t \in Procesos, s \in Semaforos : SenalDe(c, t, s) => <<t, s>> \notin dentro
    /\ \A s \in Semaforos : \A t \in ToSet(cola_semaforos[s]) : espera[t] = s
    /\ Principal.paso = "pidePCB" /\ aCPU[Principal.cpu] = << >> =>
          espera[Principal.proc] = Principal.sem
    /\ \A t \in Procesos : espera[t] # Nulo => <<t, espera[t]>> \notin dentro

(* Units are neither made nor lost: those of the Kernel and those held     *)
(* add up to the initial value.                                            *)
UnidadesExactas ==
    \A s \in Exclusion : valor_semaforos[s] + Cardinality(Tenedores(s)) = SEM_INIT[s]
InvExclusion == EsperaCoherente /\ UnidadesExactas

-----------------------------------------------------------------------------
(* Steps that leave the units alone.                                       *)

(* No program begins to run or to wait, no answer or signal comes or goes. *)
LEMMA MarcoExclusion ==
  ASSUME InvExclusion,
         UNCHANGED <<valor_semaforos, cola_semaforos, cola_block, espera, dentro>>,
         \A c \in CPUs : Corriendo(c)' => Corriendo(c) /\ cpu'[c].pid = cpu[c].pid,
         \A c \in CPUs : cpu'[c].paso = "wait" =>
                            /\ cpu[c].paso = "wait"
                            /\ cpu'[c].pid = cpu[c].pid /\ cpu'[c].sem = cpu[c].sem,
         \A c \in CPUs, t \in Procesos, s \in Semaforos : OKDe(c, t, s)' <=> OKDe(c, t, s),
         \A c \in CPUs, t \in Procesos, s \in Semaforos : SenalDe(c, t, s)' <=> SenalDe(c, t, s),
         Principal'.paso = "pidePCB" <=> Principal.paso = "pidePCB",
         Principal.paso = "pidePCB" =>
            /\ Principal'.proc = Principal.proc /\ Principal'.cpu = Principal.cpu
            /\ Principal'.sem = Principal.sem
            /\ aCPU'[Principal.cpu] = <<>> => aCPU[Principal.cpu] = <<>>
  PROVE  InvExclusion'
<1>1. EsperaCoherente'
  BY DEF InvExclusion, EsperaCoherente
<1>2. ASSUME NEW s \in Semaforos
      PROVE  Tenedores(s)' = Tenedores(s)
  <2>1. ASSUME NEW t \in Procesos
        PROVE  Tiene(t, s)' <=> Tiene(t, s)
    <3>1. Despierto(t, s)' <=> Despierto(t, s)
      BY DEF Despierto
    <3> QED BY <3>1 DEF Tiene
  <2> QED BY <2>1 DEF Tenedores
<1>3. UnidadesExactas'
  BY <1>2, ConfigAssumption DEF InvExclusion, UnidadesExactas
<1> QED BY <1>1, <1>3 DEF InvExclusion

(* A step of the main thread in which no CPU that signals is read.         *)
LEMMA MarcoPrincipal ==
  ASSUME InvExclusion,
         UNCHANGED <<valor_semaforos, cola_semaforos, cola_block, espera, dentro, aCPU, cpu>>,
         \A c \in CPUs : aKernel'[c] = aKernel[c] \/ cpu[c].paso # "signal",
         Principal.paso \notin {"pidePCB", "libera"},
         Principal'.paso \notin {"pidePCB", "libera"}
  PROVE  InvExclusion'
<1>1. \A c \in CPUs : Corriendo(c)' => Corriendo(c) /\ cpu'[c].pid = cpu[c].pid
  BY DEF Corriendo
<1>2. \A c \in CPUs, t \in Procesos, s \in Semaforos : OKDe(c, t, s)' <=> OKDe(c, t, s)
  BY DEF OKDe
<1>3. \A c \in CPUs, t \in Procesos, s \in Semaforos : SenalDe(c, t, s)' <=> SenalDe(c, t, s)
  BY DEF SenalDe
<1> QED BY <1>1, <1>2, <1>3, MarcoExclusion

(* A step of the planner, which writes to CPUs that do not wait.           *)
LEMMA MarcoPlanif ==
  ASSUME InvExclusion,
         UNCHANGED <<valor_semaforos, cola_semaforos, cola_block, espera, dentro, aKernel,
                     cpu, hilo>>,
         \A c \in CPUs : aCPU'[c] = aCPU[c] \/ (cpu[c].paso # "wait" /\ aCPU'[c] # <<>>),
         Principal.paso = "pidePCB" => Principal.cpu \in CPUs
  PROVE  InvExclusion'
<1>1. \A c \in CPUs : Corriendo(c)' => Corriendo(c) /\ cpu'[c].pid = cpu[c].pid
  BY DEF Corriendo
<1>2. \A c \in CPUs, t \in Procesos, s \in Semaforos : OKDe(c, t, s)' <=> OKDe(c, t, s)
  BY DEF OKDe
<1>3. \A c \in CPUs, t \in Procesos, s \in Semaforos : SenalDe(c, t, s)' <=> SenalDe(c, t, s)
  BY DEF SenalDe, Principal
<1>4. Principal' = Principal
  BY DEF Principal
<1> QED BY <1>1, <1>2, <1>3, <1>4, MarcoExclusion

(* A step of CPU c that neither makes a request nor reads an answer to a   *)
(* wait.                                                                   *)
LEMMA MarcoCPU ==
  ASSUME TypeOK, Inv, InvExclusion, NEW c \in CPUs, UNCHANGED <<kernel, programas>>,
         \A d \in CPUs : d # c => /\ cpu'[d] = cpu[d]
                                  /\ aCPU'[d] = aCPU[d] /\ aKernel'[d] = aKernel[d],
         Corriendo(c)' => Corriendo(c) /\ cpu'[c].pid = cpu[c].pid,
         cpu[c].paso # "wait" /\ cpu'[c].paso \notin {"wait", "signal"},
         cpu[c].paso = "signal" => aCPU[c] # <<>>
  PROVE  InvExclusion'
<1>1. UNCHANGED <<valor_semaforos, cola_semaforos, cola_block, espera, dentro, hilo>>
  BY DEF kernel, colas, semaforos, programas
<1>2. \A d \in CPUs : Corriendo(d)' => Corriendo(d) /\ cpu'[d].pid = cpu[d].pid
  BY DEF Corriendo
<1>3. \A d \in CPUs : cpu'[d].paso = "wait" => cpu'[d] = cpu[d]
  OBVIOUS
<1>4. ASSUME NEW d \in CPUs, NEW t \in Procesos, NEW s \in Semaforos
      PROVE  OKDe(d, t, s)' <=> OKDe(d, t, s)
  BY DEF OKDe
<1>5. ASSUME NEW t \in Procesos, NEW s \in Semaforos, SenalDe(c, t, s)
      PROVE  FALSE
  <2>1. cpu[c].paso = "signal" /\ ~Sorda(c)
    BY <1>5 DEF SenalDe, Sorda
  <2>2. Callada(c) /\ ~(Principal.paso = "libera" /\ Principal.cpu = c)
    <3>1. ProtocoloDe(c) /\ Corriendo(c)
      BY <2>1 DEF Inv, Protocolo, Corriendo
    <3>2. ~(Principal.paso = "libera" /\ Principal.cpu = c)
      BY <2>1, <3>1 DEF ProtocoloDe, Libera
    <3>3. PICK t0 \in ToSet(cola_exec) : socketCPU[t0] = c
      BY <3>1, <2>1, LoQueCorre DEF ProtocoloDe, Pide, PidePCB, Parada
    <3>4. ConPrograma(c, t0)
      <4>1. ~EnDespacho(c)
        BY <2>1, <3>1
        DEF ProtocoloDe, ConDatos, EnDespacho, SinPrograma, Quieta, Parada, Inv, Despachos
      <4> QED BY <3>1, <3>3, <4>1 DEF ProtocoloDe
    <3> QED BY <2>1, <3>2, <3>4
      DEF ConPrograma, EnViaje, Andando, EnWait, EnSignal, Saliendo, Parada, Sorda
  <2> QED BY <1>5, <2>2, Cortas DEF SenalDe, Callada
<1>6. ASSUME NEW d \in CPUs, NEW t \in Procesos, NEW s \in Semaforos
      PROVE  SenalDe(d, t, s)' <=> SenalDe(d, t, s)
  BY <1>1, <1>5 DEF SenalDe, Principal
<1>7. Principal.paso = "pidePCB" /\ aCPU'[Principal.cpu] = <<>> =>
         aCPU[Principal.cpu] = <<>>
  <2> SUFFICES ASSUME Principal.paso = "pidePCB", Principal.cpu = c
               PROVE  aCPU[c] = <<>>
    BY EnLaMano
  <2> QED BY DEF Inv, Protocolo, ProtocoloDe, PidePCB, Sorda
<1>8. Principal' = Principal
  BY <1>1 DEF Principal
<1> QED BY <1>1, <1>2, <1>3, <1>4, <1>6, <1>7, <1>8, MarcoExclusion

(* No two CPUs run the same program, and one that runs is not in block.    *)
LEMMA UnaSolaCPU ==
  ASSUME TypeOK, Inv, NEW c \in CPUs, Corriendo(c)
  PROVE  /\ \A d \in CPUs : Corriendo(d) /\ cpu[d].pid = cpu[c].pid => d = c
         /\ cpu[c].pid \notin ToSet(cola_block)
         /\ \A s \in Semaforos : cpu[c].pid \notin ToSet(cola_semaforos[s])
<1>1. /\ cpu[c].pid \in Procesos /\ socketCPU[cpu[c].pid] = c
      /\ \/ cpu[c].pid \in ToSet(cola_exec)
         \/ /\ Principal.paso \in {"pide", "pidePCB"}
            /\ Principal.proc = cpu[c].pid
  BY LoQueCorre
<1>2. \A d \in CPUs : Corriendo(d) => socketCPU[cpu[d].pid] = d
  BY LoQueCorre
<1>3. UnLugar(cpu[c].pid)
  BY <1>1 DEF Inv, Lugares
<1>4. cpu[c].pid \notin ToSet(cola_block)
  BY <1>1, <1>3 DEF UnLugar, EnCola, Lleva, EnManoDe, Principal
<1>5. \A s \in Semaforos : cpu[c].pid \notin ToSet(cola_semaforos[s])
  BY <1>1, <1>4 DEF Inv, Esperas
<1> QED BY <1>1, <1>2, <1>4, <1>5

(* The holders are processes, and finitely many.                           *)
LEMMA TenedoresFinitos ==
  ASSUME NEW s
  PROVE  Tenedores(s) \subseteq Procesos /\ IsFiniteSet(Tenedores(s))
<1>1. Tenedores(s) \subseteq Procesos
  BY DEF Tenedores
<1> QED BY <1>1, ConjuntosAssumption, FS_Subset

(* What there is in the sockets of a CPU that runs a program.              *)
LEMMA LoQueCorreProtocolo ==
  ASSUME TypeOK, Inv, NEW c \in CPUs, Corriendo(c)
  PROVE  \/ /\ cpu[c].pid \in ToSet(cola_exec) /\ socketCPU[cpu[c].pid] = c
            /\ ConPrograma(c, cpu[c].pid)
         \/ /\ Principal.paso \in {"pide", "pidePCB"}
            /\ Principal.proc = cpu[c].pid /\ Principal.cpu = c
<1>1. ProtocoloDe(c)
  BY DEF Inv, Protocolo
<1>2. ~EnDespacho(c)
  BY <1>1
  DEF Corriendo, ProtocoloDe, Quieta, Parada, ConDatos, EnDespacho, SinPrograma, Inv, Despachos
<1> QED BY <1>1, <1>2, LoQueCorre DEF ProtocoloDe

LEMMA LoQueAnda ==
  ASSUME TypeOK, Inv, NEW c \in CPUs, cpu[c].paso = "ejecuta"
  PROVE  cpu[c].pid \in Procesos /\ Andando(c, cpu[c].pid)
<1>1. ~(Principal.paso \in {"pide", "pidePCB"} /\ Principal.cpu = c)
  BY DEF Inv, Protocolo, ProtocoloDe, Pide, PidePCB, Parada
<1>2. cpu[c].pid \in Procesos /\ ConPrograma(c, cpu[c].pid)
  BY <1>1, LoQueCorre, LoQueCorreProtocolo DEF Corriendo
<1> QED BY <1>2 DEF ConPrograma, EnViaje, Andando, EnWait, EnSignal, Saliendo, Parada

-----------------------------------------------------------------------------
(* The main thread and the planner.                                        *)

LEMMA ExclusionInicial == Init => InvExclusion
<1> SUFFICES ASSUME Init
             PROVE  InvExclusion
  OBVIOUS
<1>1. /\ \A t \in Procesos : espera[t] = Nulo
      /\ dentro = {} /\ Nulo \notin Semaforos /\ valor_semaforos = SEM_INIT
      /\ \A c \in CPUs : cpu[c].paso = "desconectada"
      /\ \A s \in Semaforos : ToSet(cola_semaforos[s]) = {}
  BY ConjuntosAssumption, ElementosCortos DEF Init
<1>2. Principal.paso = "select"
  BY DEF Init, Hilos, Reposo, Principal
<1>3. EsperaCoherente
  BY <1>1, <1>2 DEF EsperaCoherente, Corriendo, SenalDe
<1>4. ASSUME NEW s \in Semaforos
      PROVE  Tenedores(s) = {}
  BY <1>1 DEF Tenedores, Tiene, OKDe, SenalDe, Despierto
<1>5. UnidadesExactas
  BY <1>1, <1>4, ConfigAssumption, FS_EmptySet DEF UnidadesExactas
<1> QED BY <1>3, <1>5 DEF InvExclusion

(* The steps of the main thread that have nothing to do with semaphores.   *)
LEMMA ExclusionAparte ==
  ASSUME TypeOK, Inv, InvExclusion,
         \/ \E t \in Procesos : nuevoProgramaAnsisop(t)
         \/ rechazarPorGrado \/ pedirMemoria \/ admitir
         \/ encolarReady("principal") \/ devolverCPU("principal")
         \/ finalizarEnExit("principal") \/ finalizarLiberaCPU("principal")
         \/ finalizarDescuenta("principal") \/ devolverCPUBloqueado
  PROVE  InvExclusion'
<1>1. /\ Principal.paso \in {"select", "grado", "memoria", "listo", "cpu", "exit", "cpuDe",
                             "fin", "cpuSem"}
      /\ Principal.luego \in {"select", "cpu", "archivo"}
  BY DEF nuevoProgramaAnsisop, rechazarPorGrado, pedirMemoria, admitir, encolarReady,
         devolverCPU, finalizarEnExit, finalizarLiberaCPU, finalizarDescuenta,
         devolverCPUBloqueado, EnPaso, Principal, TypeOK, TipoHilos, TipoHilo, Hilos
<1>2. Principal'.paso \notin {"pidePCB", "libera"}
  <2>1. CASE \E t \in Procesos : nuevoProgramaAnsisop(t)
    <3>1. PICK t \in Procesos : Sigue("principal", [Reposo EXCEPT !.paso = "grado", !.proc = t])
      BY <2>1 DEF nuevoProgramaAnsisop
    <3>2. Principal' = [Reposo EXCEPT !.paso = "grado", !.proc = t]
      BY <3>1, AlSeguir
    <3> QED BY <3>2 DEF Reposo
  <2>2. CASE rechazarPorGrado
    <3>1. Principal' = [Reposo EXCEPT !.paso = "exit", !.proc = Head(cola_new)]
      BY <2>2, AlSeguir DEF rechazarPorGrado
    <3> QED BY <3>1 DEF Reposo
  <2>3. CASE admitir
    <3>1. Principal' = [Reposo EXCEPT !.paso = "listo", !.proc = Head(cola_new)]
      BY <2>3, AlSeguir DEF admitir
    <3> QED BY <3>1 DEF Reposo
  <2>4. CASE devolverCPU("principal") \/ devolverCPUBloqueado
    <3>1. Principal' = Reposo
      BY <2>4, AlSeguir DEF devolverCPU, devolverCPUBloqueado, VuelveASelect
    <3> QED BY <3>1 DEF Reposo
  <2>5. CASE encolarReady("principal") \/ finalizarDescuenta("principal")
    BY <1>1, <2>5, AlTerminar DEF encolarReady, finalizarDescuenta, Reposo
  <2>6. CASE pedirMemoria \/ finalizarEnExit("principal") \/ finalizarLiberaCPU("principal")
    BY <2>6, AlIr DEF pedirMemoria, finalizarEnExit, finalizarLiberaCPU
  <2> QED BY <2>1, <2>2, <2>3, <2>4, <2>5, <2>6
<1>3. UNCHANGED <<valor_semaforos, cola_semaforos, cola_block, espera, dentro, aCPU,
                  aKernel, cpu>>
  BY DEF nuevoProgramaAnsisop, rechazarPorGrado, pedirMemoria, admitir, encolarReady,
         devolverCPU, finalizarEnExit, finalizarLiberaCPU, finalizarDescuenta,
         devolverCPUBloqueado, semaforos, colas, red, programas
<1> QED BY <1>1, <1>2, <1>3, MarcoPrincipal

LEMMA ExclusionNuevaCPU ==
  ASSUME TypeOK, InvExclusion, NEW c \in CPUs, nuevoClienteCPU(c)
  PROVE  InvExclusion'
<1>1. /\ cpu[c].paso = "desconectada" /\ cpu'[c].paso = "espera"
      /\ \A d \in CPUs : d # c => cpu'[d] = cpu[d]
  BY DEF nuevoClienteCPU, TypeOK, TipoCPUs, TipoCPU
<1>2. UNCHANGED <<valor_semaforos, cola_semaforos, cola_block, espera, dentro, aCPU,
                  aKernel, hilo>>
  BY DEF nuevoClienteCPU, semaforos, colas, red, programas
<1>3. \A d \in CPUs : Corriendo(d)' => Corriendo(d) /\ cpu'[d].pid = cpu[d].pid
  BY <1>1 DEF Corriendo
<1>4. \A d \in CPUs, t \in Procesos, s \in Semaforos : OKDe(d, t, s)' <=> OKDe(d, t, s)
  BY <1>1, <1>2 DEF OKDe
<1>5. ASSUME NEW d \in CPUs, NEW t \in Procesos, NEW s \in Semaforos
      PROVE  SenalDe(d, t, s)' <=> SenalDe(d, t, s)
  BY <1>1, <1>2 DEF SenalDe, Principal
<1>6. \A d \in CPUs : cpu'[d].paso = "wait" => cpu'[d] = cpu[d]
  BY <1>1
<1>7. Principal' = Principal
  BY <1>2 DEF Principal
<1> QED BY <1>2, <1>3, <1>4, <1>5, <1>6, <1>7, MarcoExclusion

(* The main thread reads a CPU that has no signal to tell it.              *)
LEMMA ExclusionLee ==
  ASSUME TypeOK, Inv, InvExclusion, NEW c \in CPUs,
         pideSemaforo(c) \/ finQuantum(c) \/ finalizarProgramaKernel(c)
  PROVE  InvExclusion'
<1> PICK t : t = obtenerProcesoSocketCPU(c)
  OBVIOUS
<1>1. /\ Principal.paso = "select" /\ aKernel[c] # <<>>
      /\ Head(aKernel[c]).op \in OpsFin \cup {"PEDIR_SEMAFORO", "FIN_QUANTUM"}
  BY DEF pideSemaforo, finQuantum, finalizarProgramaKernel, Llego, EnPaso, Principal
<1>2. ConPrograma(c, t)
  BY <1>1, ElQueEscribe, SuProceso
<1>3. cpu[c].paso # "signal"
  BY <1>1, <1>2, LoQueEscribe DEF OpsFin, Parada
<1>4. \A d \in CPUs : d # c => aKernel'[d] = aKernel[d]
  BY DEF pideSemaforo, finQuantum, finalizarProgramaKernel, Consume, TypeOK, TipoRed
<1>5. Principal'.paso \in {"pide", "listo", "exit"}
  <2>1. \/ Principal' = [Reposo EXCEPT !.paso = "pide", !.proc = t, !.cpu = c,
                                       !.sem = Head(aKernel[c]).dato]
        \/ Principal' = [Reposo EXCEPT !.paso = "listo", !.proc = t, !.cpu = c,
                                       !.luego = "cpu"]
        \/ Principal' = [Reposo EXCEPT !.paso = "exit", !.proc = t]
    BY AlSeguir DEF pideSemaforo, finQuantum, finalizarProgramaKernel
  <2> QED BY <2>1 DEF Reposo
<1>6. UNCHANGED <<valor_semaforos, cola_semaforos, cola_block, espera, dentro, aCPU, cpu>>
  BY DEF pideSemaforo, finQuantum, finalizarProgramaKernel, semaforos, programas
<1> QED BY <1>1, <1>3, <1>4, <1>5, <1>6, MarcoPrincipal

(* The steps of the planner.                                               *)
LEMMA ExclusionPlanif ==
  ASSUME TypeOK, Inv, InvExclusion,
         \/ esperarReady \/ mirarEstado \/ esperarCPU \/ sacarCPU \/ sacarReady
         \/ mandarAEjecutar \/ enviarDatosKernel \/ enviarPCB
  PROVE  InvExclusion'
<1>1. UNCHANGED <<valor_semaforos, cola_semaforos, cola_block, espera, dentro, aKernel, cpu,
                  hilo>>
  BY DEF esperarReady, mirarEstado, esperarCPU, sacarCPU, sacarReady, mandarAEjecutar,
         enviarDatosKernel, enviarPCB, semaforos, colas, red, programas
<1>2. CASE \/ esperarReady \/ mirarEstado \/ esperarCPU \/ sacarCPU \/ sacarReady
           \/ mandarAEjecutar
  <2>1. aCPU' = aCPU
    BY <1>2 DEF esperarReady, mirarEstado, esperarCPU, sacarCPU, sacarReady,
                mandarAEjecutar, red
  <2> QED BY <1>1, <2>1, EnLaMano, MarcoPlanif
<1>3. CASE enviarDatosKernel \/ enviarPCB
  <2> PICK c : c = planif.cpu
    OBVIOUS
  <2>1. planif.paso \in {"datos", "pcb"} /\ c \in CPUs /\ EnDespacho(c)
    BY <1>3 DEF enviarDatosKernel, enviarPCB, PlanifEn, Inv, Despachos, EnDespacho
  <2>2. cpu[c].paso # "wait"
    BY <2>1 DEF Inv, Protocolo, ProtocoloDe, ConDatos, EnDespacho, SinPrograma, Quieta,
                Parada
  <2>3. \E p : aCPU' = [aCPU EXCEPT ![c] = Append(@, p)]
    BY <1>3, <2>1, ConjuntosAssumption DEF enviarDatosKernel, enviarPCB, EnviaPlanif
  <2>4. /\ aCPU'[c] # <<>> /\ \A d \in CPUs : d # c => aCPU'[d] = aCPU[d]
    <3>1. PICK p : aCPU' = [aCPU EXCEPT ![c] = Append(@, p)]
      BY <2>3
    <3>2. aCPU[c] \in Seq(PaquetesACPU) /\ aCPU'[c] = Append(aCPU[c], p)
      BY <2>1, <3>1 DEF TypeOK, TipoRed
    <3>3. /\ Len(aCPU'[c]) = Len(aCPU[c]) + 1 /\ Len(aCPU[c]) \in Nat
      BY <3>2, LenProperties
    <3>4. Len(<<>>) = 0
      OBVIOUS
    <3>5. aCPU'[c] # <<>>
      BY <3>3, <3>4
    <3> QED BY <3>1, <3>5 DEF TypeOK, TipoRed
  <2> QED BY <1>1, <2>2, <2>4, EnLaMano, MarcoPlanif
<1> QED BY <1>2, <1>3

(* The signal leaves the socket and is in the main thread's hands.         *)
LEMMA ExclusionLiberarSemaforo ==
  ASSUME TypeOK, Inv, InvExclusion, NEW c \in CPUs, liberarSemaforo(c)
  PROVE  InvExclusion'
<1>1. /\ Principal.paso = "select" /\ aKernel[c] # <<>>
      /\ Head(aKernel[c]).op = "LIBERAR_SEMAFORO"
  BY DEF liberarSemaforo, Llego, EnPaso, Principal
<1>2. PICK t : ConPrograma(c, t)
  BY <1>1, ElQueEscribe, SuProceso
<1>3. PICK s0 \in Semaforos : aKernel[c] = <<t_paquete("LIBERAR_SEMAFORO", s0)>>
  <2>1. cpu[c].paso = "signal"
    BY <1>1, <1>2, LoQueEscribe DEF OpsFin
  <2> QED BY <1>1, <1>2, <2>1
      DEF ConPrograma, EnViaje, Andando, EnWait, EnSignal, Saliendo, Callada, Parada
<1>4. Head(aKernel[c]).dato = s0 /\ Tail(aKernel[c]) = <<>>
  <2>1. Head(aKernel[c]) = t_paquete("LIBERAR_SEMAFORO", s0) /\ Tail(aKernel[c]) = <<>>
    BY <1>3, Cortas
  <2> QED BY <2>1 DEF t_paquete
<1>5. Principal'.paso = "libera" /\ Principal'.cpu = c /\ Principal'.sem = s0
  <2>1. Sigue("principal", [Reposo EXCEPT !.paso = "libera", !.cpu = c, !.sem = s0])
    BY <1>4 DEF liberarSemaforo
  <2>2. Principal' = [Reposo EXCEPT !.paso = "libera", !.cpu = c, !.sem = s0]
    BY <2>1, AlSeguir
  <2> QED BY <2>2 DEF Reposo
<1>6. aKernel'[c] = <<>> /\ \A d \in CPUs : d # c => aKernel'[d] = aKernel[d]
  BY <1>4 DEF liberarSemaforo, Consume, TypeOK, TipoRed
<1>7. UNCHANGED <<valor_semaforos, cola_semaforos, cola_block, espera, dentro, aCPU, cpu>>
  BY DEF liberarSemaforo, semaforos, colas, programas
<1>8. \A d \in CPUs : Corriendo(d)' => Corriendo(d) /\ cpu'[d].pid = cpu[d].pid
  BY <1>7 DEF Corriendo
<1>9. \A d \in CPUs, t1 \in Procesos, s \in Semaforos : OKDe(d, t1, s)' <=> OKDe(d, t1, s)
  BY <1>7 DEF OKDe
<1>10. ASSUME NEW d \in CPUs, NEW t1 \in Procesos, NEW s \in Semaforos
       PROVE  SenalDe(d, t1, s)' <=> SenalDe(d, t1, s)
  <2>1. CASE d = c
    <3>1. aKernel[c] = <<t_paquete("LIBERAR_SEMAFORO", s)>> <=> s = s0
      <4>1. aKernel[c] = <<t_paquete("LIBERAR_SEMAFORO", s)>> =>
               t_paquete("LIBERAR_SEMAFORO", s) = t_paquete("LIBERAR_SEMAFORO", s0)
        BY <1>3, Cortas
      <4> QED BY <1>3, <4>1 DEF t_paquete
    <3>2. aKernel'[c] # <<t_paquete("LIBERAR_SEMAFORO", s)>>
      BY <1>6, Cortas
    <3> QED BY <2>1, <3>1, <3>2, <1>1, <1>5, <1>7 DEF SenalDe
  <2>2. CASE d # c
    BY <2>2, <1>1, <1>5, <1>6, <1>7 DEF SenalDe
  <2> QED BY <2>1, <2>2
<1>11. \A d \in CPUs : cpu'[d] = cpu[d]
  BY <1>7
<1> QED BY <1>1, <1>5, <1>7, <1>8, <1>9, <1>10, <1>11, MarcoExclusion

(* A unit is granted: the Kernel has one less, and the program that asked  *)
(* for it is one holder more.                                              *)
LEMMA ExclusionOK ==
  ASSUME TypeOK, Inv, InvExclusion, pideSemaforoOK
  PROVE  InvExclusion'
<1> PICK t, c, s : t = Principal.proc /\ c = Principal.cpu /\ s = Principal.sem
  OBVIOUS
<1>1. Principal.paso = "pide" /\ HayUnidades(s)
  BY DEF pideSemaforoOK, EnPaso, Principal
<1>2. t \in Procesos /\ c \in CPUs /\ s \in Semaforos
  BY <1>1, EnLaMano
<1>3. Pide(c, t)
  BY <1>1, <1>2 DEF Inv, Protocolo, ProtocoloDe
<1>4. /\ cpu[c].pid = t /\ cpu[c].paso = "wait" /\ cpu[c].sem = s
      /\ aCPU[c] = <<>> /\ Corriendo(c)
  BY <1>3 DEF Pide, Sorda, Corriendo
<1>5. /\ aCPU'[c] = <<t_paquete("PEDIDO_SEMAFORO_OK", Nulo)>>
      /\ \A d \in CPUs : d # c => aCPU'[d] = aCPU[d]
  BY <1>2, <1>4, Cortas DEF pideSemaforoOK, TypeOK, TipoRed, Principal
<1>6. Principal'.paso = "select"
  BY AlSeguir DEF pideSemaforoOK, VuelveASelect, Reposo
<1>7. UNCHANGED <<cola_semaforos, cola_block, espera, dentro, aKernel, cpu>>
  BY DEF pideSemaforoOK, programas
<1>8. /\ valor_semaforos'[s] = valor_semaforos[s] - 1
      /\ \A r \in Semaforos : r # s => valor_semaforos'[r] = valor_semaforos[r]
      /\ \A r \in Semaforos : valor_semaforos[r] \in Nat
  BY <1>2 DEF pideSemaforoOK, TypeOK, TipoSemaforos, Principal
<1>9. \A d \in CPUs, u \in Procesos, r \in Semaforos : SenalDe(d, u, r)' <=> SenalDe(d, u, r)
  BY <1>1, <1>6, <1>7 DEF SenalDe
<1>10. EsperaCoherente'
  BY <1>6, <1>7, <1>9 DEF InvExclusion, EsperaCoherente, Corriendo
<1>11. \A u \in Procesos, r \in Semaforos : Despierto(u, r)' <=> Despierto(u, r)
  BY <1>1, <1>6, <1>7 DEF Despierto
<1>12. ASSUME NEW u \in Procesos, NEW r \in Semaforos
       PROVE  /\ OKDe(c, u, r)' <=> u = t /\ r = s
              /\ ~OKDe(c, u, r)
              /\ \A d \in CPUs : d # c => (OKDe(d, u, r)' <=> OKDe(d, u, r))
  BY <1>4, <1>5, <1>7, Cortas DEF OKDe
<1>13. ~Tiene(t, s)
  <2>1. <<t, s>> \notin dentro
    BY <1>2, <1>4 DEF InvExclusion, EsperaCoherente
  <2>2. espera[t] = Nulo /\ s # Nulo
    BY <1>2, <1>4, ConjuntosAssumption DEF InvExclusion, EsperaCoherente
  <2>3. ASSUME NEW d \in CPUs, OKDe(d, t, s) \/ SenalDe(d, t, s)
        PROVE  FALSE
    <3>1. Corriendo(d) /\ cpu[d].pid = cpu[c].pid
      BY <1>4, <2>3 DEF OKDe, SenalDe, Corriendo
    <3>2. d = c
      BY <1>2, <1>4, <3>1, UnaSolaCPU
    <3> QED BY <1>2, <1>4, <1>12, <2>3, <3>2 DEF SenalDe
  <2> QED BY <2>1, <2>2, <2>3 DEF Tiene, Despierto
<1>14. ASSUME NEW u \in Procesos, NEW r \in Semaforos
       PROVE  Tiene(u, r)' <=> Tiene(u, r) \/ (u = t /\ r = s)
  BY <1>2, <1>7, <1>9, <1>11, <1>12 DEF Tiene
<1>15. /\ Tenedores(s)' = Tenedores(s) \cup {t} /\ t \notin Tenedores(s)
       /\ \A r \in Semaforos : r # s => Tenedores(r)' = Tenedores(r)
  BY <1>2, <1>13, <1>14 DEF Tenedores
<1>16. /\ Cardinality(Tenedores(s)') = Cardinality(Tenedores(s)) + 1
       /\ Cardinality(Tenedores(s)) \in Nat
  BY <1>15, TenedoresFinitos, FS_AddElement, FS_CardinalityType
<1>17. valor_semaforos[s] > 0
  BY <1>1 DEF HayUnidades
<1>18. UnidadesExactas'
  <2> SUFFICES ASSUME NEW r \in Exclusion
               PROVE  valor_semaforos'[r] + Cardinality(Tenedores(r)') = SEM_INIT[r]
    BY DEF UnidadesExactas
  <2>1. r \in Semaforos /\ valor_semaforos[r] + Cardinality(Tenedores(r)) = SEM_INIT[r]
    BY ConfigAssumption DEF InvExclusion, UnidadesExactas
  <2>2. CASE r = s
    BY <2>1, <2>2, <1>8, <1>16
  <2>3. CASE r # s
    BY <2>1, <2>3, <1>8, <1>15
  <2> QED BY <2>2, <2>3
<1> QED BY <1>10, <1>18 DEF InvExclusion

(* No units: the program that asked will wait, and does not yet.           *)
LEMMA ExclusionFallo ==
  ASSUME TypeOK, Inv, InvExclusion, pideSemaforoFallo
  PROVE  InvExclusion'
<1> PICK t, c, s : t = Principal.proc /\ c = Principal.cpu /\ s = Principal.sem
  OBVIOUS
<1>1. Principal.paso = "pide"
  BY DEF pideSemaforoFallo, EnPaso, Principal
<1>2. t \in Procesos /\ c \in CPUs /\ s \in Semaforos
  BY <1>1, EnLaMano
<1>3. /\ cpu[c].pid = t /\ cpu[c].paso = "wait" /\ aCPU[c] = <<>> /\ Corriendo(c)
  BY <1>1, <1>2 DEF Inv, Protocolo, ProtocoloDe, Pide, Sorda, Corriendo
<1>4. /\ aCPU'[c] = <<t_paquete("PEDIDO_SEMAFORO_FALLO", Nulo)>>
      /\ \A d \in CPUs : d # c => aCPU'[d] = aCPU[d]
  BY <1>2, <1>3, Cortas DEF pideSemaforoFallo, TypeOK, TipoRed, Principal
<1>5. /\ Principal'.paso = "pidePCB" /\ Principal'.proc = t /\ Principal'.cpu = c
      /\ Principal'.sem = s
  BY AlIr DEF pideSemaforoFallo
<1>6. UNCHANGED <<valor_semaforos, cola_semaforos, cola_block, espera, dentro, aKernel, cpu>>
  BY DEF pideSemaforoFallo, semaforos, colas, programas
<1>7. \A d \in CPUs, u \in Procesos, r \in Semaforos : SenalDe(d, u, r)' <=> SenalDe(d, u, r)
  BY <1>1, <1>5, <1>6 DEF SenalDe
<1>8. \A d \in CPUs, u \in Procesos, r \in Semaforos : OKDe(d, u, r)' <=> OKDe(d, u, r)
  <2>1. ASSUME NEW u \in Procesos, NEW r \in Semaforos
        PROVE  ~OKDe(c, u, r) /\ ~OKDe(c, u, r)'
    <3>1. t_paquete("PEDIDO_SEMAFORO_FALLO", Nulo) # t_paquete("PEDIDO_SEMAFORO_OK", Nulo)
      BY DEF t_paquete
    <3>2. aCPU'[c] # <<t_paquete("PEDIDO_SEMAFORO_OK", Nulo)>>
      BY <1>4, <3>1, Cortas
    <3>3. aCPU[c] # <<t_paquete("PEDIDO_SEMAFORO_OK", Nulo)>>
      BY <1>3, Cortas
    <3> QED BY <3>2, <3>3 DEF OKDe
  <2>2. ASSUME NEW u \in Procesos, NEW r \in Semaforos, NEW d \in CPUs, d # c
        PROVE  OKDe(d, u, r)' <=> OKDe(d, u, r)
    BY <1>4, <1>6, <2>2 DEF OKDe
  <2> QED BY <2>1, <2>2
<1>9. espera[t] = Nulo /\ Nulo \notin Semaforos
  BY <1>2, <1>3, ConjuntosAssumption DEF InvExclusion, EsperaCoherente
<1>10. EsperaCoherente'
  <2>1. aCPU'[c] # <<>>
    BY <1>4, Cortas
  <2> QED BY <1>5, <1>6, <1>7, <2>1 DEF InvExclusion, EsperaCoherente, Corriendo
<1>11. \A r \in Semaforos : Tenedores(r)' = Tenedores(r)
  <2>1. ASSUME NEW u \in Procesos, NEW r \in Semaforos
        PROVE  Tiene(u, r)' <=> Tiene(u, r)
    <3>1. Despierto(u, r)' <=> Despierto(u, r)
      BY <1>1, <1>5, <1>6, <1>9 DEF Despierto
    <3> QED BY <1>6, <1>7, <1>8, <3>1 DEF Tiene
  <2> QED BY <2>1 DEF Tenedores
<1>12. UnidadesExactas'
  BY <1>6, <1>11, ConfigAssumption DEF InvExclusion, UnidadesExactas
<1> QED BY <1>10, <1>12 DEF InvExclusion

(* The blocked process enters the queue of the semaphore it waits for.     *)
LEMMA ExclusionBloquear ==
  ASSUME TypeOK, Inv, InvExclusion, bloqueoSemaforo
  PROVE  InvExclusion'
<1> PICK t, c, s : t = Principal.proc /\ c = Principal.cpu /\ s = Principal.sem
  OBVIOUS
<1>1. Principal.paso = "pidePCB" /\ aKernel[c] # <<>>
  BY DEF bloqueoSemaforo, EnPaso, Principal
<1>2. t \in Procesos /\ c \in CPUs /\ s \in Semaforos
  BY <1>1, EnLaMano
<1>3. /\ Parada(c) /\ aCPU[c] = <<>>
      /\ aKernel[c] = <<t_paquete("PROGRAMA_BLOQUEADO_SEMAFORO", t)>>
  BY <1>1, <1>2 DEF Inv, Protocolo, ProtocoloDe, PidePCB, Callada, Sorda
<1>4. bloquear(Principal)
  <2>1. Head(aKernel[c]) = t_paquete("PROGRAMA_BLOQUEADO_SEMAFORO", t)
    BY <1>3, Cortas
  <2>2. Head(aKernel[c]).op \in OpsConPCB
    BY <2>1 DEF t_paquete, OpsConPCB
  <2> QED BY <2>2 DEF bloqueoSemaforo, Principal
<1>5. \A d \in CPUs : d # c => aKernel'[d] = aKernel[d]
  BY <1>2, <1>4 DEF bloquear, Consume, TypeOK, TipoRed
<1>6. /\ ToSet(cola_block') = ToSet(cola_block) \cup {t}
      /\ ToSet(cola_semaforos'[s]) = ToSet(cola_semaforos[s]) \cup {t}
      /\ \A r \in Semaforos : r # s => cola_semaforos'[r] = cola_semaforos[r]
  <2>1. /\ cola_block' = Append(cola_block, t)
        /\ cola_semaforos'[s] = Append(cola_semaforos[s], t)
        /\ \A r \in Semaforos : r # s => cola_semaforos'[r] = cola_semaforos[r]
    BY <1>2, <1>4 DEF bloquear, TypeOK, TipoSemaforos
  <2> QED BY <1>2, <2>1, TiposColas, ElementosAppend
<1>7. Principal'.paso = "cpuSem"
  BY <1>4, AlIr DEF bloquear
<1>8. UNCHANGED <<valor_semaforos, espera, dentro, aCPU, cpu>>
  BY <1>4 DEF bloquear, programas
<1>9. \A d \in CPUs, u \in Procesos, r \in Semaforos : OKDe(d, u, r)' <=> OKDe(d, u, r)
  BY <1>8 DEF OKDe
<1>10. \A d \in CPUs, u \in Procesos, r \in Semaforos : SenalDe(d, u, r)' <=> SenalDe(d, u, r)
  <2>1. cpu[c].paso # "signal"
    BY <1>3 DEF Parada
  <2> QED BY <2>1, <1>1, <1>5, <1>7, <1>8 DEF SenalDe
<1>11. espera[t] = s
  BY <1>1, <1>3 DEF InvExclusion, EsperaCoherente
<1>12. EsperaCoherente'
  BY <1>6, <1>7, <1>8, <1>10, <1>11 DEF InvExclusion, EsperaCoherente, Corriendo
<1>13. \A r \in Semaforos : Tenedores(r)' = Tenedores(r)
  <2>1. ASSUME NEW u \in Procesos, NEW r \in Semaforos
        PROVE  Tiene(u, r)' <=> Tiene(u, r)
    <3>1. Despierto(u, r)' <=> Despierto(u, r)
      BY <1>1, <1>6, <1>7, <1>8 DEF Despierto
    <3> QED BY <1>8, <1>9, <1>10, <3>1 DEF Tiene
  <2> QED BY <2>1 DEF Tenedores
<1>14. UnidadesExactas'
  BY <1>8, <1>13, ConfigAssumption DEF InvExclusion, UnidadesExactas
<1> QED BY <1>12, <1>14 DEF InvExclusion

(* The unit that t gives back goes to the first process of the queue, or   *)
(* to the value: a holder for another, or a holder less and a unit more.   *)
LEMMA ExclusionUnidad ==
  ASSUME TypeOK, Inv, InvExclusion, liberarSemaforoUnidad
  PROVE  InvExclusion'
<1> PICK c, s : c = Principal.cpu /\ s = Principal.sem
  OBVIOUS
<1> PICK t : t = cpu[c].pid
  OBVIOUS
<1>1. Principal.paso = "libera"
  BY DEF liberarSemaforoUnidad, EnPaso, Principal
<1>2. c \in CPUs /\ s \in Semaforos
  BY <1>1, EnLaMano
<1>3. cpu[c].paso = "signal" /\ aKernel[c] = <<>> /\ aCPU[c] = <<>> /\ Corriendo(c)
  BY <1>1, <1>2 DEF Inv, Protocolo, ProtocoloDe, Libera, Callada, Sorda, Corriendo
<1>4. t \in Procesos /\ \A d \in CPUs : Corriendo(d) /\ cpu[d].pid = t => d = c
  BY <1>2, <1>3, LoQueCorre, UnaSolaCPU
<1>5. \A d \in CPUs : d # c => aCPU'[d] = aCPU[d]
  BY <1>2 DEF liberarSemaforoUnidad, TypeOK, TipoRed, Principal
<1>6. Principal'.paso = "select"
  BY AlSeguir DEF liberarSemaforoUnidad, VuelveASelect, Reposo
<1>7. UNCHANGED <<espera, dentro, aKernel, cpu>>
  BY DEF liberarSemaforoUnidad, programas
<1>8. \A d \in CPUs, u \in Procesos, r \in Semaforos : OKDe(d, u, r)' <=> OKDe(d, u, r)
  BY <1>3, <1>5, <1>7 DEF OKDe
<1>9. \A d \in CPUs, u \in Procesos, r \in Semaforos :
         SenalDe(d, u, r)' <=> SenalDe(d, u, r) /\ ~(d = c /\ r = s)
  <2>1. \A p : aKernel[c] # <<p>>
    BY <1>3, Cortas
  <2> QED BY <2>1, <1>1, <1>2, <1>6, <1>7 DEF SenalDe
<1>10. SenalDe(c, t, s) /\ <<t, s>> \notin dentro /\ espera[t] = Nulo
  <2>1. SenalDe(c, t, s)
    BY <1>1, <1>3 DEF SenalDe
  <2> QED BY <2>1, <1>2, <1>3, <1>4 DEF InvExclusion, EsperaCoherente
<1>11. ~(\E d \in CPUs : OKDe(d, t, s) \/ SenalDe(d, t, s)')
  <2> SUFFICES ASSUME NEW d \in CPUs, OKDe(d, t, s) \/ SenalDe(d, t, s)'
               PROVE  FALSE
    OBVIOUS
  <2>1. d # c
    BY <1>2, <1>3, <1>4, <1>9 DEF OKDe
  <2>2. Corriendo(d) /\ cpu[d].pid = t
    BY <1>2, <1>4, <1>9 DEF OKDe, SenalDe, Corriendo
  <2> QED BY <1>4, <2>1, <2>2
<1>12. ASSUME NEW u \in Procesos, NEW r \in Semaforos, u # t \/ r # s, NEW d \in CPUs
       PROVE  SenalDe(d, u, r)' <=> SenalDe(d, u, r)
  <2>1. d = c /\ r = s => u # t /\ ~SenalDe(d, u, r)
    BY <1>12 DEF SenalDe
  <2> QED BY <1>2, <1>9, <2>1
<1>13. s # Nulo /\ \A r \in Semaforos : valor_semaforos[r] \in Nat
  BY <1>2, ConjuntosAssumption DEF TypeOK, TipoSemaforos
<1>14. ASSUME HayQuienEspera(s)
       PROVE  InvExclusion'
  <2> PICK w : w = Head(cola_semaforos[s])
    OBVIOUS
  <2>1. /\ cola_semaforos[s] # <<>> /\ cola_semaforos[s] \in Seq(Procesos)
        /\ SinRepetidos(cola_semaforos[s])
    BY <1>2, <1>14, TiposColas DEF HayQuienEspera, Inv, Esperas
  <2>2. /\ w \in ToSet(cola_semaforos[s]) /\ w \in Procesos
        /\ ToSet(Tail(cola_semaforos[s])) = ToSet(cola_semaforos[s]) \ {w}
    BY <2>1, ElementosTail, ElementosTipo
  <2>3. w \in ToSet(cola_block) /\ pcb[w] = w /\ ConPid(pcb[w]) = {w}
    BY <1>2, <2>2, PidDe DEF Inv, Esperas
  <2>4. /\ cola_semaforos'[s] = Tail(cola_semaforos[s])
        /\ \A r \in Semaforos : r # s => cola_semaforos'[r] = cola_semaforos[r]
    BY <1>2, <1>14 DEF liberarSemaforoUnidad, TypeOK, TipoSemaforos, Principal
  <2>5. ToSet(cola_block') = ToSet(cola_block) \ {w}
    <3>1. cola_block' = SinPrimero(cola_block, {w})
      BY <1>14, <2>3 DEF liberarSemaforoUnidad, Principal, eliminarProcesoDeCola
    <3> QED BY <3>1, TiposColas, ElementosSinPrimero DEF Inv, Lugares, ColasSinRepetidos
  <2>6. valor_semaforos' = valor_semaforos
    BY <1>14 DEF liberarSemaforoUnidad, Principal
  <2>7. espera[w] = s /\ w # t
    BY <1>2, <1>10, <1>13, <2>2 DEF InvExclusion, EsperaCoherente
  <2>8. EsperaCoherente'
    BY <1>6, <1>7, <1>9, <2>2, <2>4 DEF InvExclusion, EsperaCoherente, Corriendo
  <2>9. ASSUME NEW u \in Procesos, NEW r \in Semaforos
        PROVE  Despierto(u, r)' <=> Despierto(u, r) \/ (u = w /\ r = s)
    BY <1>1, <1>6, <1>7, <2>3, <2>5, <2>7 DEF Despierto
  <2>10. ~Tiene(w, s)
    <3>1. <<w, s>> \notin dentro
      BY <1>13, <2>2, <2>7 DEF InvExclusion, EsperaCoherente
    <3>2. ~Despierto(w, s)
      BY <2>3 DEF Despierto
    <3>3. ASSUME NEW d \in CPUs, OKDe(d, w, s) \/ SenalDe(d, w, s)
          PROVE  FALSE
      <4>1. Corriendo(d) /\ cpu[d].pid = w
        BY <3>3 DEF OKDe, SenalDe, Corriendo
      <4> QED BY <4>1, <1>13, <2>7 DEF InvExclusion, EsperaCoherente
    <3> QED BY <3>1, <3>2, <3>3 DEF Tiene
  <2>11. Tiene(t, s) /\ ~Tiene(t, s)'
    <3>1. ~Despierto(t, s)'
      BY <1>7, <1>10, <1>13 DEF Despierto
    <3> QED BY <3>1, <1>2, <1>4, <1>7, <1>8, <1>10, <1>11 DEF Tiene
  <2>12. ASSUME NEW u \in Procesos, NEW r \in Semaforos, u # t \/ r # s
         PROVE  Tiene(u, r)' <=> Tiene(u, r) \/ (u = w /\ r = s)
    BY <1>7, <1>8, <1>12, <2>9, <2>12 DEF Tiene
  <2>13. \A r \in Semaforos : r # s => Tenedores(r)' = Tenedores(r)
    BY <2>12 DEF Tenedores
  <2>14. Cardinality(Tenedores(s)') = Cardinality(Tenedores(s))
    <3> PICK A : A = Tenedores(s) \ {t}
      OBVIOUS
    <3>1. t \in Tenedores(s) /\ w \notin A
      BY <1>4, <2>10, <2>11 DEF Tenedores
    <3>2. Tenedores(s)' = A \cup {w}
      BY <1>2, <1>4, <2>2, <2>7, <2>11, <2>12 DEF Tenedores
    <3>3. IsFiniteSet(A) /\ Cardinality(A) = Cardinality(Tenedores(s)) - 1
      BY <3>1, TenedoresFinitos, FS_RemoveElement
    <3>4. Cardinality(A \cup {w}) = Cardinality(A) + 1
      BY <3>1, <3>3, FS_AddElement
    <3> QED BY <3>2, <3>3, <3>4, TenedoresFinitos, FS_CardinalityType
  <2>15. \A r \in Semaforos : Cardinality(Tenedores(r)') = Cardinality(Tenedores(r))
    BY <2>13, <2>14
  <2>16. UnidadesExactas'
    BY <2>6, <2>15, ConfigAssumption DEF InvExclusion, UnidadesExactas
  <2> QED BY <2>8, <2>16 DEF InvExclusion
<1>15. ASSUME ~HayQuienEspera(s)
       PROVE  InvExclusion'
  <2>1. /\ UNCHANGED <<cola_semaforos, cola_block>>
        /\ valor_semaforos' = [valor_semaforos EXCEPT ![s] = @ + 1]
    BY <1>15 DEF liberarSemaforoUnidad, Principal
  <2>2. /\ valor_semaforos'[s] = valor_semaforos[s] + 1
        /\ \A r \in Semaforos : r # s => valor_semaforos'[r] = valor_semaforos[r]
    BY <1>2, <2>1 DEF TypeOK, TipoSemaforos
  <2>3. EsperaCoherente'
    BY <1>6, <1>7, <1>9, <2>1 DEF InvExclusion, EsperaCoherente, Corriendo
  <2>4. ASSUME NEW u \in Procesos, NEW r \in Semaforos
        PROVE  Despierto(u, r)' <=> Despierto(u, r)
    BY <1>1, <1>6, <1>7, <2>1 DEF Despierto
  <2>5. Tiene(t, s) /\ ~Tiene(t, s)'
    <3>1. ~Despierto(t, s)'
      BY <1>7, <1>10, <1>13 DEF Despierto
    <3> QED BY <3>1, <1>2, <1>4, <1>7, <1>8, <1>10, <1>11 DEF Tiene
  <2>6. ASSUME NEW u \in Procesos, NEW r \in Semaforos, u # t \/ r # s
        PROVE  Tiene(u, r)' <=> Tiene(u, r)
    BY <1>7, <1>8, <1>12, <2>4, <2>6 DEF Tiene
  <2>7. \A r \in Semaforos : r # s => Tenedores(r)' = Tenedores(r)
    BY <2>6 DEF Tenedores
  <2>8. Tenedores(s)' = Tenedores(s) \ {t} /\ t \in Tenedores(s)
    BY <1>2, <1>4, <2>5, <2>6 DEF Tenedores
  <2>9. /\ Cardinality(Tenedores(s)') = Cardinality(Tenedores(s)) - 1
        /\ Cardinality(Tenedores(s)) \in Nat
    <3>1. IsFiniteSet(Tenedores(s))
      BY TenedoresFinitos
    <3>2. Cardinality(Tenedores(s) \ {t}) = Cardinality(Tenedores(s)) - 1
      BY <2>8, <3>1, FS_RemoveElement
    <3> QED BY <2>8, <3>1, <3>2, FS_CardinalityType
  <2>10. UnidadesExactas'
    <3> SUFFICES ASSUME NEW r \in Exclusion
                 PROVE  valor_semaforos'[r] + Cardinality(Tenedores(r)') = SEM_INIT[r]
      BY DEF UnidadesExactas
    <3>1. r \in Semaforos /\ valor_semaforos[r] + Cardinality(Tenedores(r)) = SEM_INIT[r]
      BY ConfigAssumption DEF InvExclusion, UnidadesExactas
    <3>2. CASE r = s
      BY <3>1, <3>2, <1>13, <2>2, <2>9
    <3>3. CASE r # s
      BY <3>1, <3>3, <2>2, <2>7
    <3> QED BY <3>2, <3>3
  <2> QED BY <2>3, <2>10 DEF InvExclusion
<1> QED BY <1>14, <1>15

-----------------------------------------------------------------------------
(* The CPUs.                                                               *)

(* The steps of a CPU that have nothing to do with semaphores, and the     *)
(* answer to a signal.                                                     *)
LEMMA ExclusionOtrasCPU ==
  ASSUME TypeOK, Inv, InvExclusion, NEW c \in CPUs,
         \/ recibirDatosKernel(c) \/ instruccionLocal(c) \/ terminarPrograma(c)
         \/ respuestaSignal(c) \/ sondeo(c)
  PROVE  InvExclusion'
<1>1. /\ cpu[c].paso \in {"espera", "ejecuta", "signal", "sondeo"}
      /\ cpu'[c].paso \in {"esperaPCB", "sondeo", "espera", "ejecuta"}
      /\ cpu[c].paso = "signal" => aCPU[c] # <<>>
      /\ cpu'[c].pid = cpu[c].pid
      /\ \A d \in CPUs : d # c => cpu'[d] = cpu[d]
  <2>1. CASE recibirDatosKernel(c)
    <3>1. PICK q : cpu' = [cpu EXCEPT ![c].paso = "esperaPCB", ![c].quantum = q,
                                      ![c].sale = FALSE]
      BY <2>1 DEF recibirDatosKernel
    <3> QED BY <2>1, <3>1, ZenonT(40) DEF recibirDatosKernel, CPUEn, TypeOK, TipoCPUs, TipoCPU
  <2>2. CASE instruccionLocal(c)
    BY <2>2 DEF instruccionLocal, CerrarInstruccion, CPUEn, TypeOK, TipoCPUs, TipoCPU
  <2>5. CASE terminarPrograma(c)
    BY <2>5 DEF terminarPrograma, CPUEn, TypeOK, TipoCPUs, TipoCPU
  <2>3. CASE respuestaSignal(c)
    BY <2>3 DEF respuestaSignal, CerrarInstruccion, CPUEn, TypeOK, TipoCPUs, TipoCPU
  <2>4. CASE sondeo(c)
    BY <2>4 DEF sondeo, CPUEn, TypeOK, TipoCPUs, TipoCPU
  <2> QED BY <2>1, <2>2, <2>3, <2>4, <2>5
<1>2. \A d \in CPUs : d # c => aCPU'[d] = aCPU[d] /\ aKernel'[d] = aKernel[d]
  BY DEF recibirDatosKernel, instruccionLocal, terminarPrograma, respuestaSignal, sondeo,
         CerrarInstruccion, EnviaAlKernel, RecibeDelKernel, TypeOK, TipoRed
<1>3. Corriendo(c)' => Corriendo(c)
  <2>1. CASE sondeo(c)
    <3>1. ~cpu[c].sale \/ cpu'[c].paso = "espera"
      BY <2>1 DEF sondeo, TypeOK, TipoCPUs, TipoCPU
    <3> QED BY <1>1, <2>1, <3>1 DEF Corriendo, sondeo, CPUEn
  <2>2. CASE recibirDatosKernel(c)
    <3>1. cpu'[c].paso = "esperaPCB"
      BY <2>2, ZenonT(40) DEF recibirDatosKernel, TypeOK, TipoCPUs, TipoCPU
    <3> QED BY <3>1 DEF Corriendo
  <2>3. CASE instruccionLocal(c) \/ terminarPrograma(c) \/ respuestaSignal(c)
    BY <2>3 DEF Corriendo, instruccionLocal, terminarPrograma, respuestaSignal, CPUEn
  <2> QED BY <2>1, <2>2, <2>3
<1>4. UNCHANGED <<kernel, programas>>
  BY DEF recibirDatosKernel, instruccionLocal, terminarPrograma, respuestaSignal, sondeo
<1> QED BY <1>1, <1>2, <1>3, <1>4, MarcoCPU

(* The program runs; if it had been woken it is past its wait, with the    *)
(* unit it already held.                                                   *)
LEMMA ExclusionRecibirPCB ==
  ASSUME TypeOK, Inv, InvExclusion, NEW c \in CPUs, recibirPCB(c)
  PROVE  InvExclusion'
<1>1. /\ cpu[c].paso = "esperaPCB" /\ aCPU[c] # <<>>
      /\ aKernel' = aKernel /\ UNCHANGED kernel
      /\ \A d \in CPUs : d # c => cpu'[d] = cpu[d] /\ aCPU'[d] = aCPU[d]
  BY DEF recibirPCB, CPUEn, RecibeDelKernel, TypeOK, TipoRed, TipoCPUs, TipoCPU
<1>2. UNCHANGED <<hilo, valor_semaforos, cola_semaforos, cola_block>>
  BY <1>1 DEF kernel, semaforos, colas
<1>3. PICK t \in ToSet(cola_exec) : socketCPU[t] = c /\ aCPU[c] = <<PCBDe(t)>>
  <2>1. ProtocoloDe(c) /\ UnDueno(c)
    BY DEF Inv, Protocolo, Duenos
  <2>2. ~SinPrograma(c) /\ ~EnDespacho(c)
    BY <1>1, <2>1
    DEF ProtocoloDe, Quieta, Parada, ConDatos, Sorda, EnDespacho, SinPrograma, Inv, Despachos
  <2>3. ~(Retenida(c) /\ Principal.paso \in {"pide", "pidePCB"})
    BY <1>1, <2>1
    DEF ProtocoloDe, Pide, PidePCB, Parada, Retenida, RetieneCPU, Principal
  <2>4. Ocupada(c)
    BY <1>1, <2>1, <2>2, <2>3 DEF UnDueno, SinPrograma
  <2>5. PICK t \in ToSet(cola_exec) : socketCPU[t] = c /\ ConPrograma(c, t)
    BY <2>1, <2>2, <2>4 DEF Ocupada, ProtocoloDe
  <2>6. aCPU[c] = <<PCBDe(t)>>
    BY <1>1, <2>5
    DEF ConPrograma, EnViaje, Andando, EnWait, EnSignal, Saliendo, Parada, Sorda
  <2> QED BY <2>5, <2>6
<1>4. /\ t \in Procesos /\ t # Nulo /\ t \notin ToSet(cola_block)
      /\ ~(Principal.paso = "pidePCB" /\ Principal.proc = t)
      /\ \A s \in Semaforos : t \notin ToSet(cola_semaforos[s])
  <2>1. t \in Procesos /\ t # Nulo /\ UnLugar(t)
    BY <1>3, TiposColas, ConjuntosAssumption DEF Inv, Lugares
  <2>2. /\ t \notin ToSet(cola_block)
        /\ ~(Principal.paso = "pidePCB" /\ Principal.proc = t)
    BY <1>3, <2>1 DEF UnLugar, EnCola, Lleva, EnManoDe, Principal
  <2> QED BY <2>1, <2>2 DEF Inv, Esperas
<1>5. /\ Head(aCPU[c]) = PCBDe(t)
      /\ PCBDe(t).op = "PCB_SERIALIZADO" /\ PCBDe(t).dato = t
  BY <1>3, Cortas DEF PCBDe, t_paquete
<1>6. /\ cpu' = [cpu EXCEPT ![c].paso = "ejecuta", ![c].pid = t]
      /\ espera' = [espera EXCEPT ![t] = Nulo]
      /\ dentro' = dentro \cup ({t} \X ({espera[t]} \cap Exclusion))
  BY <1>4, <1>5 DEF recibirPCB
<1>7. /\ cpu'[c].paso = "ejecuta" /\ cpu'[c].pid = t
      /\ espera'[t] = Nulo /\ \A u \in Procesos : u # t => espera'[u] = espera[u]
  BY <1>4, <1>6 DEF TypeOK, TipoCPUs, TipoCPU, TipoProcesos
<1>8. \A u, r : <<u, r>> \in dentro' <=>
                   <<u, r>> \in dentro \/ (u = t /\ r = espera[t] /\ r \in Exclusion)
  BY <1>6
<1>9. \A d \in CPUs : Corriendo(d) => d # c /\ cpu[d].pid # t
  <2>1. ~Corriendo(c)
    BY <1>1 DEF Corriendo
  <2> QED BY <2>1, <1>3, LoQueCorre
<1>10. \A d \in CPUs, u \in Procesos, r \in Semaforos : OKDe(d, u, r)' <=> OKDe(d, u, r)
  BY <1>1, <1>7 DEF OKDe
<1>11. \A d \in CPUs, u \in Procesos, r \in Semaforos : SenalDe(d, u, r)' <=> SenalDe(d, u, r)
  BY <1>1, <1>2, <1>7 DEF SenalDe, Principal
<1>12. EsperaCoherente'
  <2>1. \A d \in CPUs : Corriendo(d)' => espera'[cpu'[d].pid] = Nulo
    <3> SUFFICES ASSUME NEW d \in CPUs, Corriendo(d)', d # c
                 PROVE  espera'[cpu'[d].pid] = Nulo
      BY <1>7
    <3>1. Corriendo(d) /\ cpu'[d].pid = cpu[d].pid
      BY <1>1 DEF Corriendo
    <3>2. cpu[d].pid \in Procesos /\ espera[cpu[d].pid] = Nulo
      BY <3>1, LoQueCorre DEF InvExclusion, EsperaCoherente
    <3> QED BY <3>1, <3>2, <1>7
  <2>2. \A d \in CPUs : cpu'[d].paso = "wait" => <<cpu'[d].pid, cpu'[d].sem>> \notin dentro'
    <3> SUFFICES ASSUME NEW d \in CPUs, cpu'[d].paso = "wait"
                 PROVE  <<cpu'[d].pid, cpu'[d].sem>> \notin dentro'
      OBVIOUS
    <3>1. cpu'[d] = cpu[d] /\ Corriendo(d)
      BY <1>1, <1>7 DEF Corriendo
    <3> QED BY <3>1, <1>8, <1>9 DEF InvExclusion, EsperaCoherente
  <2>3. \A d \in CPUs, u \in Procesos, r \in Semaforos : SenalDe(d, u, r)' => <<u, r>> \notin dentro'
    <3> SUFFICES ASSUME NEW d \in CPUs, NEW u \in Procesos, NEW r \in Semaforos, SenalDe(d, u, r)
                 PROVE  <<u, r>> \notin dentro'
      BY <1>11
    <3>1. Corriendo(d) /\ cpu[d].pid = u
      BY DEF SenalDe, Corriendo
    <3> QED BY <3>1, <1>8, <1>9 DEF InvExclusion, EsperaCoherente
  <2>4. \A r \in Semaforos : \A u \in ToSet(cola_semaforos'[r]) : espera'[u] = r
    BY <1>2, <1>4, <1>7, TiposColas DEF InvExclusion, EsperaCoherente
  <2>5. Principal'.paso = "pidePCB" /\ aCPU'[Principal'.cpu] = <<>> =>
           espera'[Principal'.proc] = Principal'.sem
    <3> SUFFICES ASSUME Principal.paso = "pidePCB", aCPU'[Principal.cpu] = <<>>
                 PROVE  espera'[Principal.proc] = Principal.sem
      BY <1>2 DEF Principal
    <3>1. Principal.cpu # c
      BY <1>1, EnLaMano DEF Inv, Protocolo, ProtocoloDe, PidePCB, Parada
    <3> QED BY <3>1, <1>1, <1>4, <1>7, EnLaMano DEF InvExclusion, EsperaCoherente
  <2>6. \A u \in Procesos : espera'[u] # Nulo => <<u, espera'[u]>> \notin dentro'
    BY <1>7, <1>8 DEF InvExclusion, EsperaCoherente
  <2> QED BY <2>1, <2>2, <2>3, <2>4, <2>5, <2>6 DEF EsperaCoherente
<1>13. \A r \in Exclusion : Tenedores(r)' = Tenedores(r)
  <2>1. ASSUME NEW u \in Procesos, NEW r \in Exclusion
        PROVE  Tiene(u, r)' <=> Tiene(u, r)
    <3>1. r \in Semaforos /\ r # Nulo
      BY ConfigAssumption, ConjuntosAssumption
    <3>2. CASE u # t
      <4>1. Despierto(u, r)' <=> Despierto(u, r)
        BY <1>2, <1>7, <3>2 DEF Despierto, Principal
      <4> QED BY <1>8, <1>10, <1>11, <3>1, <3>2, <4>1 DEF Tiene
    <3>3. CASE u = t
      <4>1. ~Despierto(t, r)'
        BY <1>7, <3>1 DEF Despierto
      <4>2. Despierto(t, r) <=> espera[t] = r
        BY <1>4 DEF Despierto
      <4> QED BY <1>4, <1>8, <1>10, <1>11, <3>1, <3>3, <4>1, <4>2 DEF Tiene
    <3> QED BY <3>2, <3>3
  <2> QED BY <2>1 DEF Tenedores
<1>14. UnidadesExactas'
  BY <1>2, <1>13 DEF InvExclusion, UnidadesExactas
<1> QED BY <1>12, <1>14 DEF InvExclusion

(* wait: the program asks, outside the section.                            *)
LEMMA ExclusionWait ==
  ASSUME TypeOK, Inv, InvExclusion, NEW c \in CPUs, NEW s0 \in Semaforos, wait_kernel(c, s0)
  PROVE  InvExclusion'
<1> PICK t : t = cpu[c].pid
  OBVIOUS
<1>1. /\ cpu[c].paso = "ejecuta" /\ <<t, s0>> \notin dentro
      /\ cpu'[c].paso = "wait" /\ cpu'[c].pid = t /\ cpu'[c].sem = s0
      /\ \A d \in CPUs : d # c => cpu'[d] = cpu[d] /\ aKernel'[d] = aKernel[d]
  BY DEF wait_kernel, CPUEn, EnviaAlKernel, TypeOK, TipoRed, TipoCPUs, TipoCPU
<1>2. UNCHANGED <<hilo, valor_semaforos, cola_semaforos, cola_block, espera, dentro, aCPU>>
  BY DEF wait_kernel, kernel, semaforos, colas, programas
<1>3. aCPU[c] = <<>>
  BY <1>1, LoQueAnda DEF Andando, Sorda
<1>4. \A d \in CPUs, u \in Procesos, r \in Semaforos : OKDe(d, u, r)' <=> OKDe(d, u, r)
  <2>1. aCPU[c] # <<t_paquete("PEDIDO_SEMAFORO_OK", Nulo)>>
    BY <1>3, Cortas
  <2> QED BY <1>1, <1>2, <2>1 DEF OKDe
<1>5. \A d \in CPUs, u \in Procesos, r \in Semaforos : SenalDe(d, u, r)' <=> SenalDe(d, u, r)
  BY <1>1, <1>2 DEF SenalDe, Principal
<1>6. EsperaCoherente'
  BY <1>1, <1>2, <1>5 DEF InvExclusion, EsperaCoherente, Corriendo, Principal
<1>7. \A r \in Semaforos : Tenedores(r)' = Tenedores(r)
  <2>1. ASSUME NEW u \in Procesos, NEW r \in Semaforos
        PROVE  Tiene(u, r)' <=> Tiene(u, r)
    <3>1. Despierto(u, r)' <=> Despierto(u, r)
      BY <1>2 DEF Despierto, Principal
    <3> QED BY <1>2, <1>4, <1>5, <3>1 DEF Tiene
  <2> QED BY <2>1 DEF Tenedores
<1>8. UnidadesExactas'
  BY <1>2, <1>7, ConfigAssumption DEF InvExclusion, UnidadesExactas
<1> QED BY <1>6, <1>8 DEF InvExclusion

(* signal: the program is out of the section, and its unit on the way back.*)
LEMMA ExclusionSignal ==
  ASSUME TypeOK, Inv, InvExclusion, NEW c \in CPUs, NEW s0 \in Semaforos, signal_kernel(c, s0)
  PROVE  InvExclusion'
<1> PICK t : t = cpu[c].pid
  OBVIOUS
<1>1. /\ cpu[c].paso = "ejecuta" /\ Corriendo(c)
      /\ s0 \in Exclusion => <<t, s0>> \in dentro
      /\ dentro' = dentro \ {<<t, s0>>}
      /\ cpu'[c].paso = "signal" /\ cpu'[c].pid = t
      /\ aKernel'[c] = Append(aKernel[c], t_paquete("LIBERAR_SEMAFORO", s0))
      /\ \A d \in CPUs : d # c => cpu'[d] = cpu[d] /\ aKernel'[d] = aKernel[d]
  BY DEF signal_kernel, CPUEn, EnviaAlKernel, Corriendo, TypeOK, TipoRed, TipoCPUs, TipoCPU
<1>2. UNCHANGED <<hilo, valor_semaforos, cola_semaforos, cola_block, espera, aCPU>>
  BY DEF signal_kernel, kernel, semaforos, colas
<1>3. /\ aKernel'[c] = <<t_paquete("LIBERAR_SEMAFORO", s0)>>
      /\ ~(Principal.paso = "libera" /\ Principal.cpu = c)
      /\ t \in Procesos
  <2>1. Andando(c, t) /\ t \in Procesos
    BY <1>1, LoQueAnda
  <2>2. ~(Principal.paso = "libera" /\ Principal.cpu = c)
    BY <1>1 DEF Inv, Protocolo, ProtocoloDe, Libera
  <2> QED BY <1>1, <2>1, <2>2, Cortas DEF Andando, Callada
<1>4. \A d \in CPUs, u \in Procesos, r \in Semaforos : OKDe(d, u, r)' <=> OKDe(d, u, r)
  BY <1>1, <1>2 DEF OKDe
<1>5. ASSUME NEW d \in CPUs, NEW u \in Procesos, NEW r \in Semaforos
      PROVE  SenalDe(d, u, r)' <=> SenalDe(d, u, r) \/ (d = c /\ u = t /\ r = s0)
  <2>1. CASE d # c
    BY <2>1, <1>1, <1>2 DEF SenalDe, Principal
  <2>2. CASE d = c
    <3>1. aKernel'[c] = <<t_paquete("LIBERAR_SEMAFORO", r)>> <=> r = s0
      <4>1. aKernel'[c] = <<t_paquete("LIBERAR_SEMAFORO", r)>> =>
               t_paquete("LIBERAR_SEMAFORO", r) = t_paquete("LIBERAR_SEMAFORO", s0)
        BY <1>3, Cortas
      <4> QED BY <1>3, <4>1 DEF t_paquete
    <3>2. ~SenalDe(c, u, r)
      BY <1>1 DEF SenalDe
    <3>3. ~(Principal'.paso = "libera" /\ Principal'.cpu = c)
      BY <1>2, <1>3 DEF Principal
    <3> QED BY <2>2, <1>1, <3>1, <3>2, <3>3 DEF SenalDe
  <2> QED BY <2>1, <2>2
<1>6. espera[t] = Nulo
  BY <1>1 DEF InvExclusion, EsperaCoherente
<1>7. EsperaCoherente'
  BY <1>1, <1>2, <1>3, <1>5, <1>6 DEF InvExclusion, EsperaCoherente, Corriendo, Principal
<1>8. \A r \in Exclusion : Tenedores(r)' = Tenedores(r)
  <2>1. ASSUME NEW u \in Procesos, NEW r \in Exclusion
        PROVE  Tiene(u, r)' <=> Tiene(u, r)
    <3>1. r \in Semaforos
      BY ConfigAssumption
    <3>2. Despierto(u, r)' <=> Despierto(u, r)
      BY <1>2 DEF Despierto, Principal
    <3>3. CASE u = t /\ r = s0
      BY <1>1, <1>5, <3>1, <3>3 DEF Tiene
    <3>4. CASE ~(u = t /\ r = s0)
      <4>1. <<u, r>> \in dentro' <=> <<u, r>> \in dentro
        BY <1>1, <3>4
      <4> QED BY <1>4, <1>5, <3>1, <3>2, <3>4, <4>1 DEF Tiene
    <3> QED BY <3>3, <3>4
  <2> QED BY <2>1 DEF Tenedores
<1>9. UnidadesExactas'
  BY <1>2, <1>8 DEF InvExclusion, UnidadesExactas
<1> QED BY <1>7, <1>9 DEF InvExclusion

(* The answer to wait: the program is in the section with the unit it was  *)
(* granted, or it waits, and has none.                                     *)
LEMMA ExclusionRespuestaWait ==
  ASSUME TypeOK, Inv, InvExclusion, NEW c \in CPUs, respuestaWait(c)
  PROVE  InvExclusion'
<1> PICK t, s0 : t = cpu[c].pid /\ s0 = cpu[c].sem
  OBVIOUS
<1>0. PICK b \in BOOLEAN : b = ~EsCero(Head(aCPU[c]))
  BY Zenon
<1>1. /\ cpu[c].paso = "wait" /\ aCPU[c] # <<>> /\ cpu'[c].paso = "sondeo" /\ Corriendo(c)
      /\ cpu'[c].pid = t /\ s0 \in Semaforos
      /\ CerrarInstruccion(c, b)
      /\ aCPU'[c] = Tail(aCPU[c])
      /\ \A d \in CPUs : d # c => /\ cpu'[d] = cpu[d]
                                  /\ aCPU'[d] = aCPU[d] /\ aKernel'[d] = aKernel[d]
  BY <1>0 DEF respuestaWait, CPUEn, CerrarInstruccion, EnviaAlKernel, RecibeDelKernel,
         Corriendo, TypeOK, TipoRed, TipoCPUs, TipoCPU
<1>2. UNCHANGED <<hilo, valor_semaforos, cola_semaforos, cola_block>>
  BY DEF respuestaWait, kernel, semaforos, colas
<1>3. /\ t \in Procesos /\ t \notin ToSet(cola_block)
      /\ \A d \in CPUs : Corriendo(d) /\ cpu[d].pid = t => d = c
      /\ \A r \in Semaforos : t \notin ToSet(cola_semaforos[r])
  BY <1>1, LoQueCorre, UnaSolaCPU
<1>4. espera[t] = Nulo /\ <<t, s0>> \notin dentro /\ s0 # Nulo
  BY <1>1, ConjuntosAssumption DEF InvExclusion, EsperaCoherente
<1>5. IF b THEN /\ espera' = [espera EXCEPT ![t] = s0] /\ UNCHANGED dentro
      ELSE /\ dentro' = dentro \cup ({t} \X ({s0} \cap Exclusion))
           /\ UNCHANGED espera
  BY <1>0 DEF respuestaWait
<1>6. \A d \in CPUs : d # c => /\ \A u \in Procesos, r \in Semaforos : OKDe(d, u, r)' <=> OKDe(d, u, r)
                               /\ Corriendo(d)' => Corriendo(d) /\ cpu[d].pid # t
  BY <1>1, <1>3 DEF OKDe, Corriendo
<1>7. \A d \in CPUs, u \in Procesos, r \in Semaforos : SenalDe(d, u, r)' <=> SenalDe(d, u, r)
  BY <1>1, <1>2 DEF SenalDe, Principal
<1>8. \A d \in CPUs, u \in Procesos, r \in Semaforos : SenalDe(d, u, r) => u # t
  BY <1>1, <1>3 DEF SenalDe, Corriendo
<1>9. \A u \in Procesos, r \in Semaforos : ~OKDe(c, u, r)'
  BY <1>1 DEF OKDe
<1>10. Principal' = Principal /\ \A d \in CPUs : d # c => cpu'[d] = cpu[d]
  BY <1>1, <1>2 DEF Principal
<1>11. CASE aCPU[c] = <<t_paquete("PEDIDO_SEMAFORO_OK", Nulo)>>
  <2>1. b = FALSE
    <3>1. Head(aCPU[c]) = t_paquete("PEDIDO_SEMAFORO_OK", Nulo)
      BY <1>11, Cortas
    <3>2. EsCero(Head(aCPU[c]))
      BY <3>1 DEF EsCero, t_paquete
    <3> QED BY <1>0, <3>2, Zenon
  <2>2. espera' = espera /\ dentro' = dentro \cup ({t} \X ({s0} \cap Exclusion))
    BY <1>5, <2>1
  <2>3. \A u, r : <<u, r>> \in dentro' <=>
                    <<u, r>> \in dentro \/ (u = t /\ r = s0 /\ r \in Exclusion)
    BY <2>2
  <2>4. ~(Principal.paso = "pidePCB" /\ Principal.cpu = c)
    <3>1. t_paquete("PEDIDO_SEMAFORO_FALLO", Nulo) # t_paquete("PEDIDO_SEMAFORO_OK", Nulo)
      BY DEF t_paquete
    <3>2. aCPU[c] # <<t_paquete("PEDIDO_SEMAFORO_FALLO", Nulo)>>
      BY <1>11, <3>1, Cortas
    <3> QED BY <1>1, <3>2 DEF Inv, Protocolo, ProtocoloDe, PidePCB, Parada
  <2>5. EsperaCoherente'
    <3>1. \A d \in CPUs : Corriendo(d)' => espera'[cpu'[d].pid] = Nulo
      BY <1>1, <1>4, <1>6, <1>10, <2>2 DEF InvExclusion, EsperaCoherente
    <3>2. \A d \in CPUs : cpu'[d].paso = "wait" => <<cpu'[d].pid, cpu'[d].sem>> \notin dentro'
      <4> SUFFICES ASSUME NEW d \in CPUs, cpu'[d].paso = "wait"
                   PROVE  <<cpu'[d].pid, cpu'[d].sem>> \notin dentro'
        OBVIOUS
      <4>1. d # c /\ cpu'[d] = cpu[d]
        BY <1>1
      <4>2. cpu[d].pid # t
        BY <4>1, <1>6 DEF Corriendo
      <4> QED BY <4>1, <4>2, <2>3 DEF InvExclusion, EsperaCoherente
    <3>3. \A d \in CPUs, u \in Procesos, r \in Semaforos :
             SenalDe(d, u, r)' => <<u, r>> \notin dentro'
      BY <1>7, <1>8, <2>3 DEF InvExclusion, EsperaCoherente
    <3>4. \A r \in Semaforos : \A u \in ToSet(cola_semaforos'[r]) : espera'[u] = r
      BY <1>2, <2>2 DEF InvExclusion, EsperaCoherente
    <3>5. Principal'.paso = "pidePCB" /\ aCPU'[Principal'.cpu] = <<>> =>
             espera'[Principal'.proc] = Principal'.sem
      BY <1>1, <1>10, <2>2, <2>4, EnLaMano DEF InvExclusion, EsperaCoherente
    <3>6. \A u \in Procesos : espera'[u] # Nulo => <<u, espera'[u]>> \notin dentro'
      BY <1>4, <2>2, <2>3 DEF InvExclusion, EsperaCoherente
    <3> QED BY <3>1, <3>2, <3>3, <3>4, <3>5, <3>6 DEF EsperaCoherente
  <2>6. \A r \in Exclusion : Tenedores(r)' = Tenedores(r)
    <3>1. ASSUME NEW u \in Procesos, NEW r \in Exclusion
          PROVE  Tiene(u, r)' <=> Tiene(u, r)
      <4>1. r \in Semaforos
        BY ConfigAssumption
      <4>2. Despierto(u, r)' <=> Despierto(u, r)
        BY <1>2, <1>10, <2>2 DEF Despierto
      <4>3. OKDe(c, u, r) <=> u = t /\ r = s0
        BY <1>1, <1>11 DEF OKDe
      <4> QED BY <1>6, <1>7, <1>9, <2>3, <4>1, <4>2, <4>3 DEF Tiene
    <3> QED BY <3>1 DEF Tenedores
  <2>7. UnidadesExactas'
    BY <1>2, <2>6 DEF InvExclusion, UnidadesExactas
  <2> QED BY <2>5, <2>7 DEF InvExclusion
<1>12. CASE /\ aCPU[c] = <<t_paquete("PEDIDO_SEMAFORO_FALLO", Nulo)>>
            /\ Principal.paso = "pidePCB" /\ Principal.cpu = c
            /\ Principal.proc = t /\ Principal.sem = s0 /\ Callada(c)
  <2>1. b = TRUE
    <3>1. Head(aCPU[c]) = t_paquete("PEDIDO_SEMAFORO_FALLO", Nulo)
      BY <1>12, Cortas
    <3>2. ~EsCero(Head(aCPU[c]))
      BY <3>1 DEF EsCero, t_paquete
    <3> QED BY <1>0, <3>2, Zenon
  <2>2. /\ espera'[t] = s0 /\ dentro' = dentro
        /\ \A u \in Procesos : u # t => espera'[u] = espera[u]
    BY <1>3, <1>5, <2>1 DEF TypeOK, TipoProcesos
  <2>3. ~Corriendo(c)'
    <3>1. cpu'[c].sale
      BY <1>1, <1>12, <2>1, AlCerrar
    <3> QED BY <1>1, <3>1 DEF Corriendo
  <2>4. EsperaCoherente'
    <3>1. \A d \in CPUs : Corriendo(d)' => espera'[cpu'[d].pid] = Nulo
      <4> SUFFICES ASSUME NEW d \in CPUs, Corriendo(d)'
                   PROVE  espera'[cpu'[d].pid] = Nulo
        OBVIOUS
      <4>1. d # c /\ cpu'[d] = cpu[d] /\ Corriendo(d) /\ cpu[d].pid # t
        BY <1>6, <1>10, <2>3
      <4> QED BY <4>1, <2>2, LoQueCorre DEF InvExclusion, EsperaCoherente
    <3>2. \A d \in CPUs : cpu'[d].paso = "wait" => <<cpu'[d].pid, cpu'[d].sem>> \notin dentro'
      BY <1>1, <1>10, <2>2 DEF InvExclusion, EsperaCoherente
    <3>3. \A d \in CPUs, u \in Procesos, r \in Semaforos :
             SenalDe(d, u, r)' => <<u, r>> \notin dentro'
      BY <1>7, <2>2 DEF InvExclusion, EsperaCoherente
    <3>4. \A r \in Semaforos : \A u \in ToSet(cola_semaforos'[r]) : espera'[u] = r
      BY <1>2, <1>3, <2>2, TiposColas DEF InvExclusion, EsperaCoherente
    <3>5. espera'[Principal'.proc] = Principal'.sem
      BY <1>10, <1>12, <2>2
    <3>6. \A u \in Procesos : espera'[u] # Nulo => <<u, espera'[u]>> \notin dentro'
      BY <1>4, <2>2 DEF InvExclusion, EsperaCoherente
    <3> QED BY <3>1, <3>2, <3>3, <3>4, <3>5, <3>6 DEF EsperaCoherente
  <2>5. \A r \in Exclusion : Tenedores(r)' = Tenedores(r)
    <3>1. ASSUME NEW u \in Procesos, NEW r \in Exclusion
          PROVE  Tiene(u, r)' <=> Tiene(u, r)
      <4>1. r \in Semaforos /\ r # Nulo
        BY ConfigAssumption, ConjuntosAssumption
      <4>2. Despierto(u, r)' <=> Despierto(u, r)
        BY <1>2, <1>4, <1>10, <1>12, <2>2, <4>1 DEF Despierto
      <4>3. ~OKDe(c, u, r)
        <5>1. t_paquete("PEDIDO_SEMAFORO_FALLO", Nulo) # t_paquete("PEDIDO_SEMAFORO_OK", Nulo)
          BY DEF t_paquete
        <5>2. aCPU[c] # <<t_paquete("PEDIDO_SEMAFORO_OK", Nulo)>>
          BY <1>12, <5>1, Cortas
        <5> QED BY <5>2 DEF OKDe
      <4> QED BY <1>6, <1>7, <1>9, <2>2, <4>1, <4>2, <4>3 DEF Tiene
    <3> QED BY <3>1 DEF Tenedores
  <2>6. UnidadesExactas'
    BY <1>2, <2>5 DEF InvExclusion, UnidadesExactas
  <2> QED BY <2>4, <2>6 DEF InvExclusion
<1>13. \/ aCPU[c] = <<t_paquete("PEDIDO_SEMAFORO_OK", Nulo)>>
       \/ /\ aCPU[c] = <<t_paquete("PEDIDO_SEMAFORO_FALLO", Nulo)>>
          /\ Principal.paso = "pidePCB" /\ Principal.cpu = c
          /\ Principal.proc = t /\ Principal.sem = s0 /\ Callada(c)
  <2>1. \/ /\ t \in ToSet(cola_exec) /\ socketCPU[t] = c /\ ConPrograma(c, t)
        \/ /\ Principal.paso \in {"pide", "pidePCB"}
           /\ Principal.proc = t /\ Principal.cpu = c
    BY <1>1, LoQueCorreProtocolo
  <2>2. CASE ConPrograma(c, t)
    BY <1>1, <2>2
    DEF ConPrograma, EnViaje, Andando, EnWait, EnSignal, Saliendo, Parada, Sorda
  <2>3. CASE /\ Principal.paso \in {"pide", "pidePCB"}
             /\ Principal.proc = t /\ Principal.cpu = c
    BY <1>1, <2>3 DEF Inv, Protocolo, ProtocoloDe, Pide, PidePCB, Parada, Sorda
  <2> QED BY <2>1, <2>2, <2>3
<1> QED BY <1>11, <1>12, <1>13

-----------------------------------------------------------------------------
(* Mutual exclusion.                                                       *)

LEMMA PasoExclusion ==
  ASSUME TypeOK, ContadoresExactos, Inv, InvExclusion, [Next]_vars
  PROVE  InvExclusion'
<1>1. CASE HiloPrincipal
  BY <1>1, NadieCae, ExclusionAparte, ExclusionNuevaCPU, ExclusionLee,
     ExclusionLiberarSemaforo, ExclusionOK, ExclusionFallo, ExclusionBloquear,
     ExclusionUnidad
  DEF HiloPrincipal
<1>2. CASE PasoCompartido("principal")
  BY <1>2, ExclusionAparte DEF PasoCompartido
<1>3. CASE HiloPlanificador
  BY <1>3, NadieCae, ExclusionPlanif DEF HiloPlanificador
<1>4. ASSUME NEW c \in CPUs, ProcesoCPU(c)
      PROVE  InvExclusion'
  BY <1>4, ExclusionOtrasCPU, ExclusionRecibirPCB, ExclusionWait, ExclusionSignal,
     ExclusionRespuestaWait
  DEF ProcesoCPU
<1>5. CASE UNCHANGED vars
  <2>1. UNCHANGED <<valor_semaforos, cola_semaforos, cola_block, espera, dentro, aKernel,
                    aCPU, cpu, hilo>>
    BY <1>5 DEF vars, kernel, semaforos, colas, red, programas
  <2> QED BY <2>1, EnLaMano, MarcoPlanif
<1> QED BY <1>1, <1>2, <1>3, <1>4, <1>5 DEF Next

LEMMA ExclusionCorrecta == Spec => []InvExclusion
<1>1. TypeOK /\ ContadoresExactos /\ Inv /\ InvExclusion /\ [Next]_vars => InvExclusion'
  BY PasoExclusion
<1> QED BY <1>1, ExclusionInicial, TipoCorrecto, ContadoresCorrectos, InvCorrecto, PTL
        DEF Spec

(* Never more than SEM_INIT[s] programs are between their wait(s) and      *)
(* their signal(s), whatever the order in which answers, wake-ups and      *)
(* dispatches are read.                                                    *)
THEOREM ExclusionMutuaCorrecta == Spec => []ExclusionMutua
<1>1. ASSUME TypeOK, InvExclusion
      PROVE  ExclusionMutua
  <2> SUFFICES ASSUME NEW s \in Exclusion
               PROVE  Cardinality({t \in Procesos : <<t, s>> \in dentro}) <= SEM_INIT[s]
    BY DEF ExclusionMutua
  <2>1. PICK D : D = {t \in Procesos : <<t, s>> \in dentro}
    OBVIOUS
  <2>2. D \subseteq Tenedores(s)
    BY <2>1 DEF Tenedores, Tiene
  <2>3. /\ IsFiniteSet(Tenedores(s)) /\ IsFiniteSet(D)
        /\ Cardinality(D) <= Cardinality(Tenedores(s))
    BY <2>2, TenedoresFinitos, FS_Subset
  <2>4. Cardinality(D) \in Nat /\ Cardinality(Tenedores(s)) \in Nat
    BY <2>3, FS_CardinalityType
  <2>5. /\ valor_semaforos[s] + Cardinality(Tenedores(s)) = SEM_INIT[s]
        /\ valor_semaforos[s] \in Nat /\ SEM_INIT[s] \in Nat
    BY <1>1, ConfigAssumption DEF InvExclusion, UnidadesExactas, TypeOK, TipoSemaforos
  <2> QED BY <2>1, <2>3, <2>4, <2>5
<1> QED BY <1>1, TipoCorrecto, ExclusionCorrecta, PTL

-----------------------------------------------------------------------------
(* The degree of multiprogramming.                                         *)

EnSalida == Principal.paso \in {"exit", "cpuDe", "fin"}

(* A process created that is not admitted: it is new, it was rejected, or  *)
(* finalizarProceso is done with it.                                       *)
Fuera(t) ==
    \/ t \in ToSet(cola_new)
    \/ Principal.paso = "exit" /\ Principal.proc = t /\ socketCPU[t] = Nulo
    \/ /\ t \in ToSet(cola_exit)
       /\ ~(/\ Principal.paso \in {"cpuDe", "fin"} /\ Principal.proc = t
            /\ socketCPU[t] # Nulo)

(* A rejected program is counted while finalizarProceso runs.              *)
Rechazado == EnSalida /\ socketCPU[Principal.proc] = Nulo

(* Memoria is asked for room only if the degree leaves some, and the main  *)
(* thread admits nothing else meanwhile.                                   *)
InvGrado ==
    /\ GradoRespetado
    /\ Principal.paso = "memoria" => cantidadDeProgramas < grado_multiprog

LEMMA AdmitidosDe ==
  ASSUME TypeOK, Inv
  PROVE  /\ Admitidos = {t \in creados : ~Fuera(t)}
         /\ Admitidos \subseteq Procesos /\ IsFiniteSet(Admitidos)
         /\ EnSalida => /\ Principal.proc \in creados
                        /\ Principal.proc \notin Admitidos <=> socketCPU[Principal.proc] = Nulo
<1>1. creados \subseteq Procesos
  BY DEF TypeOK, TipoProcesos
<1>2. ASSUME NEW t \in creados
      PROVE  t \in Admitidos <=> ~Fuera(t)
  <2>1. UnLugar(t) /\ t \in Procesos
    BY <1>1 DEF Inv, Lugares
  <2>2. hilo["consola"].paso = "select"
    BY DEF Inv, HiloCoherente, Reposo
  <2>3. t \in Admitidos <=>
          \/ t \in ToSet(cola_ready) \cup ToSet(cola_exec) \cup ToSet(cola_block)
          \/ Despacha(t)
          \/ /\ Principal.proc = t
             /\ \/ Principal.paso \in {"listo", "pide", "pidePCB"}
                \/ EnSalida /\ socketCPU[t] # Nulo
    BY <2>2 DEF Admitidos, Hilos, Principal, EnSalida, Despacha
  <2> QED BY <2>1, <2>3
      DEF Fuera, UnLugar, EnCola, Lleva, EnManoDe, Principal, EnSalida, Inv, HiloCoherente
<1>3. Admitidos = {t \in creados : ~Fuera(t)}
  BY <1>2 DEF Admitidos
<1>4. Admitidos \subseteq Procesos /\ IsFiniteSet(Admitidos)
  BY <1>1, <1>3, ConjuntosAssumption, FS_Subset
<1>5. ASSUME EnSalida
      PROVE  /\ Principal.proc \in creados
             /\ Principal.proc \notin Admitidos <=> socketCPU[Principal.proc] = Nulo
  <2>1. Principal.proc \in Procesos
    BY <1>5, EnLaMano DEF EnSalida
  <2>2. UnLugar(Principal.proc)
    BY <2>1 DEF Inv, Lugares
  <2>3. Principal.proc \in creados
    BY <1>5, <2>2
    DEF EnSalida, UnLugar, EnCola, Lleva, EnManoDe, Principal, Inv, HiloCoherente
  <2> QED BY <1>3, <1>5, <2>2, <2>3
      DEF EnSalida, Fuera, UnLugar, EnCola, Lleva, EnManoDe, Principal, Inv, HiloCoherente
<1> QED BY <1>3, <1>4, <1>5

(* GradoRespetado, with the programs outside in place of those admitted.   *)
FormaGrado ==
    /\ Admitidos = {t \in creados : ~Fuera(t)} /\ IsFiniteSet(Admitidos)
    /\ Cardinality(Admitidos) \in Nat /\ grado_multiprog \in Nat
    /\ cantidadDeProgramas \in Int
    /\ GradoRespetado <=>
          /\ Cardinality(Admitidos) <= grado_multiprog
          /\ cantidadDeProgramas = Cardinality(Admitidos) + Uno(Rechazado)

LEMMA CuentaDe == TypeOK /\ Inv => FormaGrado
<1> SUFFICES ASSUME TypeOK, Inv
             PROVE  FormaGrado
  OBVIOUS
<1>1. Uno(/\ hilo["principal"].paso \in {"exit", "cpuDe", "fin"}
          /\ hilo["principal"].proc \notin Admitidos)
      = Uno(Rechazado)
  BY AdmitidosDe DEF Uno, Rechazado, EnSalida, Principal
<1>2. /\ Cardinality(Admitidos) \in Nat /\ grado_multiprog \in Nat
      /\ cantidadDeProgramas \in Int
  BY AdmitidosDe, FS_CardinalityType DEF TypeOK, TipoCuenta
<1> QED BY <1>1, <1>2, AdmitidosDe DEF GradoRespetado, FormaGrado

(* What a step may do to the count: nothing, admit one or finish one.      *)
LEMMA SigueContando ==
  ASSUME FormaGrado, FormaGrado', InvGrado, UNCHANGED grado_multiprog,
         Principal'.paso = "memoria" => cantidadDeProgramas' < grado_multiprog,
         \/ /\ Admitidos' = Admitidos
            /\ cantidadDeProgramas' - Uno(Rechazado)' = cantidadDeProgramas - Uno(Rechazado)
         \/ /\ \E t : t \notin Admitidos /\ Admitidos' = Admitidos \cup {t}
            /\ cantidadDeProgramas < grado_multiprog /\ ~Rechazado /\ ~Rechazado'
            /\ cantidadDeProgramas' = cantidadDeProgramas + 1
         \/ /\ \E t \in Admitidos : Admitidos' = Admitidos \ {t}
            /\ ~Rechazado /\ ~Rechazado'
            /\ cantidadDeProgramas' = cantidadDeProgramas - 1
  PROVE  InvGrado'
<1>1. Uno(Rechazado) \in {0, 1} /\ Uno(Rechazado)' \in {0, 1}
  BY DEF Uno
<1>2. /\ Cardinality(Admitidos) <= grado_multiprog
      /\ cantidadDeProgramas = Cardinality(Admitidos) + Uno(Rechazado)
  BY DEF FormaGrado, InvGrado
<1>3. \/ /\ Cardinality(Admitidos') = Cardinality(Admitidos)
         /\ cantidadDeProgramas' - Uno(Rechazado)' = cantidadDeProgramas - Uno(Rechazado)
      \/ /\ Cardinality(Admitidos') = Cardinality(Admitidos) + 1
         /\ cantidadDeProgramas < grado_multiprog
         /\ Uno(Rechazado) = 0 /\ Uno(Rechazado)' = 0
         /\ cantidadDeProgramas' = cantidadDeProgramas + 1
      \/ /\ Cardinality(Admitidos') = Cardinality(Admitidos) - 1
         /\ Uno(Rechazado) = 0 /\ Uno(Rechazado)' = 0
         /\ cantidadDeProgramas' = cantidadDeProgramas - 1
  <2>1. CASE \E t : t \notin Admitidos /\ Admitidos' = Admitidos \cup {t}
    <3> PICK t : t \notin Admitidos /\ Admitidos' = Admitidos \cup {t}
      BY <2>1
    <3>1. Cardinality(Admitidos') = Cardinality(Admitidos) + 1
      BY FS_AddElement DEF FormaGrado
    <3>2. Admitidos' # Admitidos /\ ~\E u \in Admitidos : Admitidos' = Admitidos \ {u}
      OBVIOUS
    <3> QED BY <3>1, <3>2 DEF Uno
  <2>2. CASE \E t \in Admitidos : Admitidos' = Admitidos \ {t}
    <3> PICK t \in Admitidos : Admitidos' = Admitidos \ {t}
      BY <2>2
    <3>1. Cardinality(Admitidos') = Cardinality(Admitidos) - 1
      BY FS_RemoveElement DEF FormaGrado
    <3>2. Admitidos' # Admitidos /\ ~\E u : u \notin Admitidos /\ Admitidos' = Admitidos \cup {u}
      OBVIOUS
    <3> QED BY <3>1, <3>2 DEF Uno
  <2> QED BY <2>1, <2>2
<1>4. /\ Cardinality(Admitidos') <= grado_multiprog'
      /\ cantidadDeProgramas' = Cardinality(Admitidos') + Uno(Rechazado)'
  BY <1>1, <1>2, <1>3 DEF FormaGrado
<1>5. GradoRespetado'
  BY <1>4 DEF FormaGrado
<1> QED BY <1>5 DEF InvGrado

(* A step that admits nobody and finishes nobody.                          *)
LEMMA MarcoGrado ==
  ASSUME FormaGrado, FormaGrado', InvGrado,
         UNCHANGED <<cantidadDeProgramas, grado_multiprog, creados, cola_new, cola_exit, socketCPU>>,
         \/ UNCHANGED hilo
         \/ ~EnSalida /\ ~EnSalida' /\ Principal'.paso # "memoria"
  PROVE  InvGrado'
<1>1. ASSUME NEW t
      PROVE  Fuera(t)' <=> Fuera(t)
  BY DEF Fuera, EnSalida, Principal
<1>2. Admitidos' = Admitidos
  BY <1>1 DEF FormaGrado
<1>3. Rechazado' <=> Rechazado
  BY DEF Rechazado, EnSalida, Principal
<1>4. Uno(Rechazado)' = Uno(Rechazado)
  BY <1>3 DEF Uno
<1>5. Principal'.paso = "memoria" => cantidadDeProgramas' < grado_multiprog
  BY DEF InvGrado, Principal
<1> QED BY <1>2, <1>4, <1>5, SigueContando

(* A program arrives: it is created, and out.                              *)
LEMMA GradoNuevo ==
  ASSUME TypeOK, Inv, FormaGrado, FormaGrado', InvGrado,
         NEW t \in Procesos, nuevoProgramaAnsisop(t)
  PROVE  InvGrado'
<1>1. /\ Principal.paso = "select" /\ t \notin creados
      /\ creados' = creados \cup {t} /\ cola_new' = Append(cola_new, t)
      /\ UNCHANGED <<cantidadDeProgramas, grado_multiprog, cola_exit, socketCPU>>
  BY DEF nuevoProgramaAnsisop, EnPaso, Principal, cuenta, contadores
<1>2. Principal'.paso = "grado"
  <2>1. Sigue("principal", [Reposo EXCEPT !.paso = "grado", !.proc = t])
    BY DEF nuevoProgramaAnsisop
  <2>2. Principal' = [Reposo EXCEPT !.paso = "grado", !.proc = t]
    BY <2>1, AlSeguir
  <2> QED BY <2>2 DEF Reposo
<1>3. ToSet(cola_new') = ToSet(cola_new) \cup {t}
  BY <1>1, TiposColas, ElementosAppend
<1>4. ASSUME NEW u
      PROVE  Fuera(u)' <=> Fuera(u) \/ u = t
  BY <1>1, <1>2, <1>3 DEF Fuera
<1>5. Admitidos' = Admitidos
  BY <1>1, <1>4 DEF FormaGrado
<1>6. Uno(Rechazado)' = Uno(Rechazado)
  BY <1>1, <1>2 DEF Rechazado, EnSalida, Uno
<1> QED BY <1>1, <1>2, <1>5, <1>6, SigueContando

(* Memoria is asked for room.                                              *)
LEMMA GradoPide ==
  ASSUME TypeOK, Inv, FormaGrado, FormaGrado', InvGrado, pedirMemoria
  PROVE  InvGrado'
<1>1. /\ Principal.paso = "grado" /\ cantidadDeProgramas < grado_multiprog
      /\ UNCHANGED <<cantidadDeProgramas, grado_multiprog, creados, cola_new, cola_exit, socketCPU>>
  BY DEF pedirMemoria, EnPaso, Principal, cuenta, contadores, procesos, colas, GradoAlcanzado,
         FormaGrado
<1>2. Principal'.paso = "memoria"
  BY AlIr DEF pedirMemoria
<1>3. ASSUME NEW u
      PROVE  Fuera(u)' <=> Fuera(u)
  BY <1>1, <1>2 DEF Fuera
<1>4. Admitidos' = Admitidos
  BY <1>1, <1>3 DEF FormaGrado
<1>5. Uno(Rechazado)' = Uno(Rechazado)
  BY <1>1, <1>2 DEF Rechazado, EnSalida, Uno
<1> QED BY <1>1, <1>4, <1>5, SigueContando

(* The program of the new queue is rejected, or admitted.                  *)
LEMMA GradoDecide ==
  ASSUME TypeOK, Inv, FormaGrado, FormaGrado', InvGrado, rechazarPorGrado \/ admitir
  PROVE  InvGrado'
<1> PICK t : t = Head(cola_new)
  OBVIOUS
<1>1. /\ Principal.paso \in {"grado", "memoria"}
      /\ cantidadDeProgramas' = cantidadDeProgramas + 1
      /\ UNCHANGED <<grado_multiprog, creados, cola_exit, socketCPU>>
  BY DEF rechazarPorGrado, admitir, EnPaso, Principal, procesos
<1>2. /\ cola_new = <<t>> /\ cola_new' = <<>> /\ t = Principal.proc
  <2>1. cola_new = <<Principal.proc>>
    BY <1>1 DEF Inv, Lugares, Nuevos
  <2>2. Head(cola_new) = Principal.proc /\ Tail(cola_new) = <<>>
    BY <2>1, Cortas
  <2> QED BY <2>1, <2>2 DEF rechazarPorGrado, admitir
<1>3. ToSet(cola_new) = {t} /\ ToSet(cola_new') = {}
  BY <1>2, ElementosCortos
<1>4. t \in Procesos /\ t \in ToSet(cola_new) /\ UnLugar(t) /\ socketCPU[t] = Nulo
  BY <1>3, TiposColas DEF Inv, Lugares, Sockets
<1>5. t \in creados /\ t \notin ToSet(cola_exit)
  BY <1>4 DEF UnLugar, EnCola
<1>6. ~Rechazado
  BY <1>1 DEF Rechazado, EnSalida
<1>7. CASE rechazarPorGrado
  <2>1. Principal'.paso = "exit" /\ Principal'.proc = t
    <3>1. Sigue("principal", [Reposo EXCEPT !.paso = "exit", !.proc = t])
      BY <1>7 DEF rechazarPorGrado
    <3>2. Principal' = [Reposo EXCEPT !.paso = "exit", !.proc = t]
      BY <3>1, AlSeguir
    <3> QED BY <3>2 DEF Reposo
  <2>2. ASSUME NEW u
        PROVE  Fuera(u)' <=> Fuera(u)
    BY <1>1, <1>3, <1>4, <2>1 DEF Fuera
  <2>3. Admitidos' = Admitidos
    BY <1>1, <2>2 DEF FormaGrado
  <2>4. Uno(Rechazado)' = 1 /\ Uno(Rechazado) = 0
    BY <1>1, <1>4, <1>6, <2>1 DEF Rechazado, EnSalida, Uno
  <2>5. cantidadDeProgramas' - Uno(Rechazado)' = cantidadDeProgramas - Uno(Rechazado)
    BY <1>1, <2>4 DEF FormaGrado
  <2> QED BY <1>1, <2>1, <2>3, <2>5, SigueContando
<1>8. CASE admitir
  <2>1. Principal'.paso = "listo" /\ Principal'.proc = t
    <3>1. Sigue("principal", [Reposo EXCEPT !.paso = "listo", !.proc = t])
      BY <1>8 DEF admitir
    <3>2. Principal' = [Reposo EXCEPT !.paso = "listo", !.proc = t]
      BY <3>1, AlSeguir
    <3> QED BY <3>2 DEF Reposo
  <2>2. cantidadDeProgramas < grado_multiprog
    BY <1>8 DEF admitir, EnPaso, Principal, InvGrado
  <2>3. ASSUME NEW u
        PROVE  Fuera(u) <=> Fuera(u)' \/ u = t
    BY <1>1, <1>3, <1>4, <2>1 DEF Fuera
  <2>4. ~Fuera(t)'
    BY <1>1, <1>3, <1>5, <2>1 DEF Fuera
  <2>5. t \notin Admitidos /\ Admitidos' = Admitidos \cup {t}
    BY <1>1, <1>5, <2>3, <2>4 DEF FormaGrado
  <2>6. ~Rechazado'
    BY <2>1 DEF Rechazado, EnSalida
  <2> QED BY <1>1, <1>6, <2>1, <2>2, <2>5, <2>6, SigueContando
<1> QED BY <1>7, <1>8

(* finalizarProceso: in exit a process is still counted, and so it is once *)
(* its CPU is free.                                                        *)
LEMMA GradoEnExit ==
  ASSUME TypeOK, Inv, FormaGrado, FormaGrado', InvGrado,
         finalizarEnExit("principal") \/ finalizarLiberaCPU("principal")
  PROVE  InvGrado'
<1> PICK t : t = Principal.proc
  OBVIOUS
<1>1. /\ Principal.paso \in {"exit", "cpuDe"} /\ t \in Procesos
      /\ UNCHANGED <<cantidadDeProgramas, grado_multiprog, creados, cola_new, socketCPU>>
  BY EnLaMano
  DEF finalizarEnExit, finalizarLiberaCPU, EnPaso, Principal, cuenta, contadores, procesos, colas
<1>2. Principal'.paso \in {"cpuDe", "fin"} /\ Principal'.proc = t
  BY AlIr DEF finalizarEnExit, finalizarLiberaCPU
<1>3. \/ /\ Principal.paso = "exit" /\ t \notin ToSet(cola_exit) /\ t \notin ToSet(cola_new)
         /\ ToSet(cola_exit') = ToSet(cola_exit) \cup {t}
      \/ /\ Principal.paso = "cpuDe" /\ cola_exit' = cola_exit
  <2>1. CASE finalizarEnExit("principal")
    <3>1. Principal.paso = "exit" /\ cola_exit' = Append(cola_exit, t)
      BY <2>1 DEF finalizarEnExit, EnPaso, Principal
    <3>2. ToSet(cola_exit') = ToSet(cola_exit) \cup {t}
      BY <1>1, <3>1, TiposColas, ElementosAppend
    <3>3. UnLugar(t) /\ Lleva(t)
      BY <1>1, <3>1 DEF Inv, Lugares, Lleva, EnManoDe, Principal
    <3> QED BY <3>1, <3>2, <3>3 DEF UnLugar, EnCola
  <2>2. CASE finalizarLiberaCPU("principal")
    BY <2>2 DEF finalizarLiberaCPU, EnPaso, Principal, colas
  <2> QED BY <2>1, <2>2
<1>4. ASSUME NEW u
      PROVE  Fuera(u)' <=> Fuera(u)
  <2>1. CASE Principal.paso = "exit"
    BY <1>1, <1>2, <1>3, <2>1 DEF Fuera
  <2>2. CASE Principal.paso = "cpuDe"
    BY <1>1, <1>2, <1>3, <2>2 DEF Fuera
  <2> QED BY <1>1, <2>1, <2>2
<1>5. Admitidos' = Admitidos
  BY <1>1, <1>4 DEF FormaGrado
<1>6. Rechazado' <=> Rechazado
  BY <1>1, <1>2 DEF Rechazado, EnSalida
<1>7. Uno(Rechazado)' = Uno(Rechazado)
  BY <1>6 DEF Uno
<1> QED BY <1>1, <1>2, <1>5, <1>7, SigueContando

(* ... until it is discounted.                                             *)
LEMMA GradoDescuenta ==
  ASSUME TypeOK, Inv, FormaGrado, FormaGrado', InvGrado, finalizarDescuenta("principal")
  PROVE  InvGrado'
<1> PICK t : t = Principal.proc
  OBVIOUS
<1>1. /\ Principal.paso = "fin" /\ t \in Procesos
      /\ cantidadDeProgramas' = cantidadDeProgramas - 1
      /\ UNCHANGED <<grado_multiprog, creados, cola_new, cola_exit, socketCPU>>
  BY EnLaMano DEF finalizarDescuenta, EnPaso, Principal, procesos, colas
<1>2. Principal'.paso = "select"
  <2>1. Principal.luego = "select"
    BY <1>1 DEF Inv, HiloCoherente
  <2>2. Termina("principal")
    BY DEF finalizarDescuenta
  <2> QED BY <2>1, <2>2, AlTerminar DEF Reposo
<1>3. t \in ToSet(cola_exit) /\ t \in creados /\ t \notin ToSet(cola_new)
  <2>1. t \in ToSet(cola_exit) /\ UnLugar(t)
    BY <1>1 DEF Inv, HiloCoherente, Lugares
  <2> QED BY <2>1 DEF UnLugar, EnCola
<1>4. ASSUME NEW u
      PROVE  Fuera(u)' <=> Fuera(u) \/ u = t
  BY <1>1, <1>2, <1>3 DEF Fuera
<1>5. ~Rechazado'
  BY <1>2 DEF Rechazado, EnSalida
<1>6. CASE socketCPU[t] = Nulo
  <2>1. Fuera(t)
    BY <1>1, <1>3, <1>6 DEF Fuera
  <2>2. Admitidos' = Admitidos
    BY <1>1, <1>4, <2>1 DEF FormaGrado
  <2>3. Uno(Rechazado) = 1 /\ Uno(Rechazado)' = 0
    BY <1>1, <1>5, <1>6 DEF Rechazado, EnSalida, Uno
  <2>4. cantidadDeProgramas' - Uno(Rechazado)' = cantidadDeProgramas - Uno(Rechazado)
    BY <1>1, <2>3 DEF FormaGrado
  <2> QED BY <1>1, <1>2, <2>2, <2>4, SigueContando
<1>7. CASE socketCPU[t] # Nulo
  <2>1. ~Fuera(t)
    BY <1>1, <1>3, <1>7 DEF Fuera
  <2>2. t \in Admitidos /\ Admitidos' = Admitidos \ {t}
    BY <1>1, <1>3, <1>4, <2>1 DEF FormaGrado
  <2>3. ~Rechazado
    BY <1>1, <1>7 DEF Rechazado
  <2> QED BY <1>1, <1>2, <1>5, <2>2, <2>3, SigueContando
<1> QED BY <1>6, <1>7

(* A program that ends is counted while finalizarProceso runs.             *)
LEMMA GradoFinaliza ==
  ASSUME TypeOK, Inv, FormaGrado, FormaGrado', InvGrado,
         NEW c \in CPUs, finalizarProgramaKernel(c)
  PROVE  InvGrado'
<1> PICK t : t = obtenerProcesoSocketCPU(c)
  OBVIOUS
<1>1. /\ Principal.paso = "select" /\ aKernel[c] # <<>>
      /\ UNCHANGED <<cantidadDeProgramas, grado_multiprog, creados, cola_new, cola_exit, socketCPU>>
  BY DEF finalizarProgramaKernel, Llego, EnPaso, Principal, cuenta, contadores, procesos
<1>2. Ocupada(c) /\ ~EnDespacho(c)
  BY <1>1, ElQueEscribe
<1>3. t \in Procesos /\ t \in ToSet(cola_exec) /\ socketCPU[t] = c /\ c # Nulo
  BY <1>2, SuProceso, ConjuntosAssumption
<1>4. t \notin ToSet(cola_exit)
  BY <1>3 DEF Inv, Lugares, UnLugar
<1>5. Principal'.paso = "exit" /\ Principal'.proc = t
  <2>1. Sigue("principal", [Reposo EXCEPT !.paso = "exit", !.proc = t])
    BY DEF finalizarProgramaKernel
  <2>2. Principal' = [Reposo EXCEPT !.paso = "exit", !.proc = t]
    BY <2>1, AlSeguir
  <2> QED BY <2>2 DEF Reposo
<1>6. ASSUME NEW u
      PROVE  Fuera(u)' <=> Fuera(u)
  BY <1>1, <1>3, <1>5 DEF Fuera
<1>7. Admitidos' = Admitidos
  BY <1>1, <1>6 DEF FormaGrado
<1>8. Uno(Rechazado)' = Uno(Rechazado)
  BY <1>1, <1>3, <1>5 DEF Rechazado, EnSalida, Uno
<1> QED BY <1>1, <1>5, <1>7, <1>8, SigueContando

(* The planner writes the socket of a process that the main thread does    *)
(* not have.                                                               *)
LEMMA GradoManda ==
  ASSUME TypeOK, Inv, FormaGrado, FormaGrado', InvGrado, mandarAEjecutar
  PROVE  InvGrado'
<1> PICK p : p = planif.proc
  OBVIOUS
<1>1. /\ Despacha(p) /\ p \in Procesos
      /\ UNCHANGED <<cantidadDeProgramas, grado_multiprog, creados, cola_new, cola_exit, hilo>>
      /\ \A t \in Procesos \ {p} : socketCPU'[t] = socketCPU[t]
  BY DEF mandarAEjecutar, PlanifEn, Despacha, TypeOK, TipoPlanif, TipoProcesos, cuenta, contadores
<1>2. EnSalida => Principal.proc \in Procesos \ {p}
  <2>1. UnLugar(p) /\ ~Lleva(p) /\ ~EnCola(p)
    BY <1>1 DEF Inv, Lugares, UnLugar
  <2>2. EnSalida => Principal.proc \in Procesos
    BY EnLaMano DEF EnSalida
  <2>3. EnSalida => Principal.proc # p
    BY <2>1 DEF EnSalida, Lleva, EnManoDe, EnCola, Inv, HiloCoherente, Principal
  <2> QED BY <2>2, <2>3
<1>3. /\ EnSalida => socketCPU'[Principal.proc] = socketCPU[Principal.proc]
      /\ EnSalida' <=> EnSalida
  BY <1>1, <1>2 DEF EnSalida, Principal
<1>4. ASSUME NEW u
      PROVE  Fuera(u)' <=> Fuera(u)
  BY <1>1, <1>3 DEF Fuera, EnSalida, Principal
<1>5. Admitidos' = Admitidos
  BY <1>1, <1>4 DEF FormaGrado
<1>6. Rechazado' <=> Rechazado
  BY <1>1, <1>3 DEF Rechazado, Principal
<1>7. Uno(Rechazado)' = Uno(Rechazado)
  BY <1>6 DEF Uno
<1>8. Principal'.paso = "memoria" => cantidadDeProgramas' < grado_multiprog
  BY <1>1 DEF InvGrado, Principal
<1> QED BY <1>1, <1>5, <1>7, <1>8, SigueContando

(* The packet the main thread waits for is the PCB of the process.         *)
LEMMA SeBloquea ==
  ASSUME TypeOK, Inv, bloqueoSemaforo
  PROVE  bloquear(Principal)
<1> PICK t, c : t = Principal.proc /\ c = Principal.cpu
  OBVIOUS
<1>1. Principal.paso = "pidePCB" /\ aKernel[c] # <<>> /\ c \in CPUs
  BY EnLaMano DEF bloqueoSemaforo, EnPaso, Principal
<1>2. PidePCB(c, t)
  BY <1>1 DEF Inv, Protocolo, ProtocoloDe
<1>3. aKernel[c] = <<t_paquete("PROGRAMA_BLOQUEADO_SEMAFORO", t)>>
  BY <1>1, <1>2 DEF PidePCB, Callada
<1>4. Head(aKernel[c]) = t_paquete("PROGRAMA_BLOQUEADO_SEMAFORO", t)
  BY <1>3, Cortas
<1>5. Head(aKernel[c]).op = "PROGRAMA_BLOQUEADO_SEMAFORO"
  BY <1>4 DEF t_paquete
<1> QED BY <1>5 DEF bloqueoSemaforo, OpsConPCB, Principal

(* The steps that move nobody in or out of the count.                      *)
LEMMA GradoAparte ==
  ASSUME TypeOK, Inv, FormaGrado, FormaGrado', InvGrado,
         \/ \E c \in CPUs : \/ nuevoClienteCPU(c) \/ pideSemaforo(c) \/ liberarSemaforo(c)
                            \/ finQuantum(c) \/ ProcesoCPU(c)
         \/ pideSemaforoOK \/ pideSemaforoFallo \/ bloqueoSemaforo
         \/ devolverCPUBloqueado \/ liberarSemaforoUnidad
         \/ encolarReady("principal") \/ devolverCPU("principal")
         \/ esperarReady \/ mirarEstado \/ esperarCPU \/ sacarCPU \/ sacarReady
         \/ enviarDatosKernel \/ enviarPCB
  PROVE  InvGrado'
<1>1. ASSUME NEW c \in CPUs,
             pideSemaforo(c) \/ liberarSemaforo(c) \/ finQuantum(c)
      PROVE  InvGrado'
  <2>1. /\ UNCHANGED <<cantidadDeProgramas, grado_multiprog, creados, cola_new, cola_exit, socketCPU>>
        /\ Principal.paso = "select"
    BY <1>1 DEF pideSemaforo, liberarSemaforo, finQuantum, Llego, EnPaso, Principal, cuenta,
                contadores, procesos, colas
  <2>2. PICK t : t = obtenerProcesoSocketCPU(c)
    OBVIOUS
  <2>3. Principal'.paso \in {"pide", "libera", "listo"}
    <3>1. CASE pideSemaforo(c)
      <4>1. Sigue("principal", [Reposo EXCEPT !.paso = "pide", !.proc = t, !.cpu = c,
                                              !.sem = Head(aKernel[c]).dato])
        BY <2>2, <3>1 DEF pideSemaforo
      <4>2. Principal' = [Reposo EXCEPT !.paso = "pide", !.proc = t, !.cpu = c,
                                        !.sem = Head(aKernel[c]).dato]
        BY <4>1, AlSeguir
      <4> QED BY <4>2 DEF Reposo
    <3>2. CASE liberarSemaforo(c)
      <4>1. Sigue("principal", [Reposo EXCEPT !.paso = "libera", !.cpu = c,
                                              !.sem = Head(aKernel[c]).dato])
        BY <3>2 DEF liberarSemaforo
      <4>2. Principal' = [Reposo EXCEPT !.paso = "libera", !.cpu = c,
                                        !.sem = Head(aKernel[c]).dato]
        BY <4>1, AlSeguir
      <4> QED BY <4>2 DEF Reposo
    <3>3. CASE finQuantum(c)
      <4>1. Sigue("principal", [Reposo EXCEPT !.paso = "listo", !.proc = t, !.cpu = c,
                                              !.luego = "cpu"])
        BY <2>2, <3>3 DEF finQuantum
      <4>2. Principal' = [Reposo EXCEPT !.paso = "listo", !.proc = t, !.cpu = c,
                                        !.luego = "cpu"]
        BY <4>1, AlSeguir
      <4> QED BY <4>2 DEF Reposo
    <3> QED BY <1>1, <3>1, <3>2, <3>3
  <2>4. ~EnSalida /\ ~EnSalida' /\ Principal'.paso # "memoria"
    BY <2>1, <2>3 DEF EnSalida
  <2> QED BY <2>1, <2>4, MarcoGrado
<1>2. CASE pideSemaforoOK \/ devolverCPUBloqueado \/ liberarSemaforoUnidad \/ devolverCPU("principal")
  <2>1. /\ UNCHANGED <<cantidadDeProgramas, grado_multiprog, creados, cola_new, cola_exit, socketCPU>>
        /\ Principal.paso \in {"pide", "cpuSem", "libera", "cpu"}
    BY <1>2 DEF pideSemaforoOK, devolverCPUBloqueado, liberarSemaforoUnidad, devolverCPU,
                EnPaso, Principal, cuenta, contadores, procesos, colas
  <2>2. Principal' = Reposo
    <3>1. Sigue("principal", Reposo)
      BY <1>2 DEF pideSemaforoOK, devolverCPUBloqueado, liberarSemaforoUnidad, devolverCPU,
                  VuelveASelect
    <3> QED BY <3>1, AlSeguir
  <2>3. ~EnSalida /\ ~EnSalida' /\ Principal'.paso # "memoria"
    BY <2>1, <2>2 DEF EnSalida, Reposo
  <2> QED BY <2>1, <2>3, MarcoGrado
<1>3. CASE pideSemaforoFallo \/ bloqueoSemaforo
  <2>1. bloqueoSemaforo => bloquear(Principal)
    BY SeBloquea
  <2>2. /\ UNCHANGED <<cantidadDeProgramas, grado_multiprog, creados, cola_new, cola_exit, socketCPU>>
        /\ Principal.paso \in {"pide", "pidePCB"}
        /\ IrA("principal", "pidePCB") \/ IrA("principal", "cpuSem")
    BY <1>3, <2>1 DEF pideSemaforoFallo, bloqueoSemaforo, bloquear, EnPaso, Principal,
                      cuenta, contadores, procesos, colas
  <2>3. Principal'.paso \in {"pidePCB", "cpuSem"}
    BY <2>2, AlIr
  <2>4. ~EnSalida /\ ~EnSalida' /\ Principal'.paso # "memoria"
    BY <2>2, <2>3 DEF EnSalida
  <2> QED BY <2>2, <2>4, MarcoGrado
<1>4. CASE encolarReady("principal")
  <2>1. /\ UNCHANGED <<cantidadDeProgramas, grado_multiprog, creados, cola_new, cola_exit, socketCPU>>
        /\ Principal.paso = "listo" /\ Termina("principal")
    BY <1>4 DEF encolarReady, EnPaso, Principal, cuenta, contadores, procesos
  <2>2. Principal'.paso \in {"select", "cpu"}
    BY <2>1, AlTerminar DEF Reposo, Inv, HiloCoherente
  <2>3. ~EnSalida /\ ~EnSalida' /\ Principal'.paso # "memoria"
    BY <2>1, <2>2 DEF EnSalida
  <2> QED BY <2>1, <2>3, MarcoGrado
<1>5. CASE \/ \E c \in CPUs : nuevoClienteCPU(c) \/ ProcesoCPU(c)
           \/ esperarReady \/ mirarEstado \/ esperarCPU \/ sacarCPU \/ sacarReady
           \/ enviarDatosKernel \/ enviarPCB
  <2>1. UNCHANGED <<cantidadDeProgramas, grado_multiprog, creados, cola_new, cola_exit,
                    socketCPU, hilo>>
    <3>1. ASSUME NEW c \in CPUs, ProcesoCPU(c)
          PROVE  UNCHANGED kernel
      BY <3>1 DEF ProcesoCPU, recibirDatosKernel, recibirPCB, instruccionLocal,
                  terminarPrograma, wait_kernel, signal_kernel, respuestaWait,
                  respuestaSignal, sondeo
    <3>2. CASE \/ \E c \in CPUs : nuevoClienteCPU(c)
               \/ esperarReady \/ mirarEstado \/ esperarCPU \/ sacarCPU \/ sacarReady
               \/ enviarDatosKernel \/ enviarPCB
      BY <3>2 DEF nuevoClienteCPU, esperarReady, mirarEstado, esperarCPU, sacarCPU, sacarReady,
                  enviarDatosKernel, enviarPCB, cuenta, contadores, procesos, colas
    <3> QED BY <1>5, <3>1, <3>2 DEF kernel, cuenta, contadores, procesos, colas
  <2> QED BY <2>1, MarcoGrado
<1> QED BY <1>1, <1>2, <1>3, <1>4, <1>5

LEMMA PasoGrado ==
  ASSUME TypeOK, ContadoresExactos, Inv, FormaGrado, FormaGrado', InvGrado, [Next]_vars
  PROVE  InvGrado'
<1>1. CASE HiloPrincipal
  BY <1>1, NadieCae, GradoAparte, GradoNuevo, GradoDecide, GradoPide, GradoFinaliza
  DEF HiloPrincipal
<1>2. CASE PasoCompartido("principal")
  BY <1>2, GradoAparte, GradoEnExit, GradoDescuenta DEF PasoCompartido
<1>3. CASE HiloPlanificador
  BY <1>3, NadieCae, GradoAparte, GradoManda DEF HiloPlanificador
<1>4. CASE \E c \in CPUs : ProcesoCPU(c)
  BY <1>4, GradoAparte
<1>5. CASE UNCHANGED vars
  <2>1. UNCHANGED <<cantidadDeProgramas, grado_multiprog, creados, cola_new, cola_exit,
                    socketCPU, hilo>>
    BY <1>5 DEF vars, kernel, cuenta, contadores, procesos, colas
  <2> QED BY <2>1, MarcoGrado
<1> QED BY <1>1, <1>2, <1>3, <1>4, <1>5 DEF Next

LEMMA GradoInicial == Init => InvGrado
<1> SUFFICES ASSUME Init
             PROVE  InvGrado
  OBVIOUS
<1>1. Principal.paso = "select" /\ hilo["principal"].paso = "select"
  BY DEF Init, Hilos, Reposo, Principal
<1>2. Admitidos = {}
  BY DEF Init, Admitidos
<1>3. cantidadDeProgramas = 0 /\ grado_multiprog \in Nat
  BY ConfigAssumption DEF Init
<1>4. Cardinality(Admitidos) = 0
  BY <1>2, FS_EmptySet
<1> QED BY <1>1, <1>3, <1>4 DEF InvGrado, GradoRespetado, Uno

LEMMA InvGradoCorrecto == Spec => []InvGrado
<1>1. TypeOK /\ Inv => FormaGrado
  BY CuentaDe
<1>2. /\ TypeOK /\ ContadoresExactos /\ Inv /\ FormaGrado /\ FormaGrado' /\ InvGrado
      /\ [Next]_vars
      => InvGrado'
  BY PasoGrado
<1> QED BY <1>1, <1>2, GradoInicial, TipoCorrecto, ContadoresCorrectos, InvCorrecto, PTL
        DEF Spec

(* cantidadDeProgramas counts the programs admitted and not finished, and  *)
(* they never pass the degree: between the test of GRADO_MULTIPROG and the *)
(* increment the main thread waits for Memoria, and finalizarProceso takes *)
(* back a unit that a rejected program never had.                          *)
THEOREM GradoCorrecto == Spec => []GradoRespetado
<1>1. InvGrado => GradoRespetado
  BY DEF InvGrado
<1> QED BY <1>1, InvGradoCorrecto, PTL

-----------------------------------------------------------------------------
(* The life cycle.                                                         *)

(* Where CicloDeVida sees a process that is in no queue: where it came     *)
(* from.                                                                   *)
EsNuevo(t) == t \in ToSet(cola_new) \/ (Lleva(t) /\ socketCPU[t] = Nulo)
Ejecuta(t) == t \in ToSet(cola_exec) \/ (Lleva(t) /\ socketCPU[t] # Nulo) \/ Despacha(t)

FormaCiclo ==
    /\ nuevosDe = {t \in Procesos : EsNuevo(t)}
    /\ ejecutanDe = {t \in Procesos : Ejecuta(t)}

LEMMA CicloDe == TypeOK => FormaCiclo
<1> SUFFICES ASSUME TypeOK
             PROVE  FormaCiclo
  OBVIOUS
<1>1. ToSet(cola_new) \subseteq Procesos /\ ToSet(cola_exec) \subseteq Procesos
  BY TiposColas
<1> QED BY <1>1
    DEF FormaCiclo, nuevosDe, ejecutanDe, EnMano, EsNuevo, Ejecuta, Lleva, Despacha

(* CicloDeVida's own copies of the library's operators are the same.       *)
LEMMA MismosOperadores ==
  /\ \A q : CV!ToSet(q) = ToSet(q)
  /\ \A S : CV!Cardinality(S) = Cardinality(S)
<1>1. \A q : CV!ToSet(q) = ToSet(q)
  BY DEF CV!ToSet, ToSet
<1>2. \A S : CV!Cardinality(S) = Cardinality(S)
  BY DEF CV!Cardinality, Cardinality
<1> QED BY <1>1, <1>2

(* Those who wait are the processes in block.                              *)
LEMMA ActivosDe ==
  ASSUME TypeOK, Inv
  PROVE  CV!Activos = ToSet(cola_ready) \cup ejecutanDe \cup ToSet(cola_block)
<1>1. /\ ToSet(cola_block) \subseteq Procesos
      /\ \A s \in Semaforos : ToSet(cola_semaforos[s]) \subseteq Procesos
  BY TiposColas
<1>2. CV!EnEspera = UNION {ToSet(cola_semaforos[s]) : s \in Semaforos}
  BY MismosOperadores DEF CV!EnEspera
<1>3. CV!EnEspera = ToSet(cola_block)
  BY <1>1, <1>2 DEF Inv, Esperas
<1> QED BY <1>3, MismosOperadores DEF CV!Activos

(* A step that leaves every process where it was.                          *)
LEMMA NadieSeMueve ==
  ASSUME FormaCiclo, FormaCiclo',
         UNCHANGED <<cola_ready, cola_exit, cola_semaforos, valor_semaforos>>,
         \A t \in Procesos : (EsNuevo(t)' <=> EsNuevo(t)) /\ (Ejecuta(t)' <=> Ejecuta(t))
  PROVE  UNCHANGED CV!vars
<1>1. nuevosDe' = nuevosDe /\ ejecutanDe' = ejecutanDe
  BY DEF FormaCiclo
<1> QED BY <1>1 DEF CV!vars

(* The same, of the steps that move no process at all.                     *)
LEMMA MarcoCiclo ==
  ASSUME FormaCiclo, FormaCiclo',
         UNCHANGED <<cola_new, cola_ready, cola_exec, cola_exit, cola_semaforos,
                     valor_semaforos, socketCPU>>,
         \A t \in Procesos : (Lleva(t)' <=> Lleva(t)) /\ (Despacha(t)' <=> Despacha(t))
  PROVE  UNCHANGED CV!vars
<1>1. ASSUME NEW t \in Procesos
      PROVE  (EsNuevo(t)' <=> EsNuevo(t)) /\ (Ejecuta(t)' <=> Ejecuta(t))
  BY DEF EsNuevo, Ejecuta
<1> QED BY <1>1, NadieSeMueve

(* A program is created.                                                   *)
LEMMA CicloNuevo ==
  ASSUME TypeOK, Inv, FormaCiclo, FormaCiclo', NEW t \in Procesos, nuevoProgramaAnsisop(t)
  PROVE  CV!Crear(t)
<1>1. /\ Principal.paso = "select" /\ t \notin creados /\ cola_new' = Append(cola_new, t)
      /\ UNCHANGED <<cola_ready, cola_exec, cola_block, cola_exit, cola_semaforos,
                     valor_semaforos, socketCPU, planif>>
  BY DEF nuevoProgramaAnsisop, EnPaso, Principal, semaforos
<1>2. Principal'.paso = "grado"
  <2>1. Sigue("principal", [Reposo EXCEPT !.paso = "grado", !.proc = t])
    BY DEF nuevoProgramaAnsisop
  <2>2. Principal' = [Reposo EXCEPT !.paso = "grado", !.proc = t]
    BY <2>1, AlSeguir
  <2> QED BY <2>2 DEF Reposo
<1>3. ToSet(cola_new') = ToSet(cola_new) \cup {t}
  BY <1>1, TiposColas, ElementosAppend
<1>4. ~EnCola(t) /\ ~Lleva(t) /\ ~Despacha(t)
  BY <1>1 DEF Inv, Lugares, UnLugar
<1>5. t \notin nuevosDe \cup CV!Activos \cup ToSet(cola_exit)
  BY <1>4, ActivosDe DEF FormaCiclo, EsNuevo, Ejecuta, EnCola
<1>6. ASSUME NEW u \in Procesos
      PROVE  (EsNuevo(u)' <=> EsNuevo(u) \/ u = t) /\ (Ejecuta(u)' <=> Ejecuta(u))
  BY <1>1, <1>2, <1>3 DEF EsNuevo, Ejecuta, Lleva, EnManoDe, Despacha, Principal
<1>7. nuevosDe' = nuevosDe \cup {t} /\ ejecutanDe' = ejecutanDe
  BY <1>6 DEF FormaCiclo
<1> QED BY <1>1, <1>5, <1>7 DEF CV!Crear

(* The program of the new queue passes to the main thread: it is still new.*)
LEMMA CicloDecide ==
  ASSUME TypeOK, Inv, FormaCiclo, FormaCiclo', rechazarPorGrado \/ admitir
  PROVE  UNCHANGED CV!vars
<1> PICK t : t = Head(cola_new)
  OBVIOUS
<1>1. /\ Principal.paso \in {"grado", "memoria"}
      /\ UNCHANGED <<cola_ready, cola_exec, cola_exit, cola_semaforos, valor_semaforos,
                     socketCPU, planif>>
  BY DEF rechazarPorGrado, admitir, EnPaso, Principal, procesos, semaforos
<1>2. cola_new = <<t>> /\ cola_new' = <<>>
  <2>1. cola_new = <<Principal.proc>>
    BY <1>1 DEF Inv, Lugares, Nuevos
  <2>2. Head(cola_new) = Principal.proc /\ Tail(cola_new) = <<>>
    BY <2>1, Cortas
  <2> QED BY <2>1, <2>2 DEF rechazarPorGrado, admitir
<1>3. ToSet(cola_new) = {t} /\ ToSet(cola_new') = {}
  BY <1>2, ElementosCortos
<1>4. t \in Procesos /\ socketCPU[t] = Nulo
  BY <1>3, TiposColas DEF Inv, Sockets
<1>5. Principal'.paso \in {"exit", "listo"} /\ Principal'.proc = t
  <2>1. CASE rechazarPorGrado
    <3>1. Sigue("principal", [Reposo EXCEPT !.paso = "exit", !.proc = t])
      BY <2>1 DEF rechazarPorGrado
    <3>2. Principal' = [Reposo EXCEPT !.paso = "exit", !.proc = t]
      BY <3>1, AlSeguir
    <3> QED BY <3>2 DEF Reposo
  <2>2. CASE admitir
    <3>1. Sigue("principal", [Reposo EXCEPT !.paso = "listo", !.proc = t])
      BY <2>2 DEF admitir
    <3>2. Principal' = [Reposo EXCEPT !.paso = "listo", !.proc = t]
      BY <3>1, AlSeguir
    <3> QED BY <3>2 DEF Reposo
  <2> QED BY <2>1, <2>2
<1>6. ASSUME NEW u \in Procesos
      PROVE  (EsNuevo(u)' <=> EsNuevo(u)) /\ (Ejecuta(u)' <=> Ejecuta(u))
  BY <1>1, <1>3, <1>4, <1>5 DEF EsNuevo, Ejecuta, Lleva, EnManoDe, Despacha, Principal
<1> QED BY <1>1, <1>6, NadieSeMueve

(* A process enters ready: admitted, if it was new; preempted, if it had a *)
(* CPU.  Admitted, it fits in the degree: it was counted when it left new. *)
LEMMA CicloReady ==
  ASSUME TypeOK, Inv, FormaGrado, InvGrado, FormaCiclo, FormaCiclo', encolarReady("principal")
  PROVE  \E t \in Procesos : CV!Admitir(t) \/ CV!Desalojar(t)
<1> PICK t : t = Principal.proc
  OBVIOUS
<1>1. /\ Principal.paso = "listo" /\ t \in Procesos /\ cola_ready' = Append(cola_ready, t)
      /\ UNCHANGED <<cola_new, cola_exec, cola_exit, cola_semaforos, valor_semaforos,
                     socketCPU, planif>>
  BY EnLaMano DEF encolarReady, alReady, EnPaso, Principal, procesos, semaforos
<1>2. Principal'.paso \in {"select", "cpu"}
  <2>1. Termina("principal")
    BY DEF encolarReady
  <2> QED BY <1>1, <2>1, AlTerminar DEF Reposo, Inv, HiloCoherente
<1>3. UnLugar(t) /\ Lleva(t) /\ ~EnCola(t) /\ ~Despacha(t)
  BY <1>1 DEF Inv, Lugares, UnLugar, Lleva, EnManoDe, Principal
<1>4. \A u \in Procesos : Lleva(u) <=> u = t
  BY <1>1 DEF Lleva, EnManoDe, Principal
<1>5. ASSUME NEW u \in Procesos
      PROVE  (EsNuevo(u)' <=> EsNuevo(u) /\ u # t) /\ (Ejecuta(u)' <=> Ejecuta(u) /\ u # t)
  BY <1>1, <1>2, <1>3, <1>4
  DEF EsNuevo, Ejecuta, EnCola, Lleva, EnManoDe, Despacha, Principal
<1>6. nuevosDe' = nuevosDe \ {t} /\ ejecutanDe' = ejecutanDe \ {t}
  BY <1>5 DEF FormaCiclo
<1>7. CASE socketCPU[t] = Nulo
  <2>1. t \in nuevosDe /\ t \notin ejecutanDe
    BY <1>1, <1>3, <1>7 DEF FormaCiclo, EsNuevo, Ejecuta, EnCola
  <2>2. t \notin CV!Activos
    BY <1>3, <2>1, ActivosDe DEF EnCola
  <2>3. CV!Activos \cup {t} \subseteq Admitidos
    <3> SUFFICES ASSUME NEW u, u \in CV!Activos \cup {t}
                 PROVE  u \in Admitidos
      OBVIOUS
    <3>1. u \in Procesos /\ (u \in ToSet(cola_ready) \cup ToSet(cola_block) \/ Ejecuta(u) \/ u = t)
      BY <1>1, ActivosDe, TiposColas DEF FormaCiclo
    <3>2. UnLugar(u)
      BY <3>1 DEF Inv, Lugares
    <3>3. u \in creados /\ u \notin ToSet(cola_new) \cup ToSet(cola_exit)
      BY <1>3, <1>4, <3>1, <3>2 DEF UnLugar, EnCola, Ejecuta
    <3> QED BY <1>1, <3>3 DEF FormaGrado, Fuera
  <2>4. Cardinality(CV!Activos) < grado_multiprog
    <3> PICK A : A = CV!Activos
      OBVIOUS
    <3>1. A \cup {t} \subseteq Admitidos /\ t \notin A
      BY <2>2, <2>3
    <3>2. /\ IsFiniteSet(A) /\ IsFiniteSet(A \cup {t})
          /\ Cardinality(A \cup {t}) <= Cardinality(Admitidos)
      <4>1. A \subseteq Admitidos
        BY <3>1
      <4> QED BY <3>1, <4>1, FS_Subset DEF FormaGrado
    <3>3. Cardinality(A \cup {t}) = Cardinality(A) + 1 /\ Cardinality(A) \in Nat
      BY <3>1, <3>2, FS_AddElement, FS_CardinalityType
    <3>4. Cardinality(Admitidos) <= grado_multiprog
      BY DEF FormaGrado, InvGrado
    <3>5. Cardinality(A) < grado_multiprog
      BY <3>2, <3>3, <3>4 DEF FormaGrado
    <3> QED BY <3>5
  <2>5. ejecutanDe' = ejecutanDe
    BY <1>6, <2>1
  <2>6. CV!Admitir(t)
    BY <1>1, <1>6, <2>1, <2>4, <2>5, MismosOperadores DEF CV!Admitir
  <2> QED BY <1>1, <2>6
<1>8. CASE socketCPU[t] # Nulo
  <2>1. t \in ejecutanDe /\ t \notin nuevosDe
    BY <1>1, <1>3, <1>8 DEF FormaCiclo, EsNuevo, Ejecuta, EnCola
  <2>2. nuevosDe' = nuevosDe
    BY <1>6, <2>1
  <2>3. CV!Desalojar(t)
    BY <1>1, <1>6, <2>1, <2>2 DEF CV!Desalojar
  <2> QED BY <1>1, <2>3
<1> QED BY <1>7, <1>8

(* A process leaves exec for the main thread: CicloDeVida still sees it    *)
(* with its CPU.                                                           *)
LEMMA CicloSaleDeExec ==
  ASSUME TypeOK, Inv, FormaCiclo, FormaCiclo', NEW c \in CPUs,
         pideSemaforo(c) \/ finQuantum(c) \/ finalizarProgramaKernel(c)
  PROVE  UNCHANGED CV!vars
<1> PICK t : t = obtenerProcesoSocketCPU(c)
  OBVIOUS
<1>1. /\ Principal.paso = "select" /\ aKernel[c] # <<>>
      /\ cola_exec' = eliminarProcesoDeCola(cola_exec, pcb[t])
      /\ UNCHANGED <<cola_new, cola_ready, cola_exit, cola_semaforos, valor_semaforos,
                     socketCPU, planif>>
  BY DEF pideSemaforo, finQuantum, finalizarProgramaKernel, Llego, EnPaso, Principal, procesos,
         semaforos
<1>2. Ocupada(c) /\ ~EnDespacho(c)
  BY <1>1, ElQueEscribe
<1>3. /\ t \in Procesos /\ t \in ToSet(cola_exec) /\ socketCPU[t] = c /\ c # Nulo
      /\ ToSet(cola_exec') = ToSet(cola_exec) \ {t}
  BY <1>1, <1>2, SuProceso, ConjuntosAssumption
<1>4. Principal'.paso \in {"pide", "listo", "exit"} /\ Principal'.proc = t
  <2>1. CASE pideSemaforo(c)
    <3>1. Sigue("principal", [Reposo EXCEPT !.paso = "pide", !.proc = t, !.cpu = c,
                                            !.sem = Head(aKernel[c]).dato])
      BY <2>1 DEF pideSemaforo
    <3>2. Principal' = [Reposo EXCEPT !.paso = "pide", !.proc = t, !.cpu = c,
                                      !.sem = Head(aKernel[c]).dato]
      BY <3>1, AlSeguir
    <3> QED BY <3>2 DEF Reposo
  <2>2. CASE finQuantum(c)
    <3>1. Sigue("principal", [Reposo EXCEPT !.paso = "listo", !.proc = t, !.cpu = c,
                                            !.luego = "cpu"])
      BY <2>2 DEF finQuantum
    <3>2. Principal' = [Reposo EXCEPT !.paso = "listo", !.proc = t, !.cpu = c,
                                      !.luego = "cpu"]
      BY <3>1, AlSeguir
    <3> QED BY <3>2 DEF Reposo
  <2>3. CASE finalizarProgramaKernel(c)
    <3>1. Sigue("principal", [Reposo EXCEPT !.paso = "exit", !.proc = t])
      BY <2>3 DEF finalizarProgramaKernel
    <3>2. Principal' = [Reposo EXCEPT !.paso = "exit", !.proc = t]
      BY <3>1, AlSeguir
    <3> QED BY <3>2 DEF Reposo
  <2> QED BY <2>1, <2>2, <2>3
<1>5. ASSUME NEW u \in Procesos
      PROVE  (EsNuevo(u)' <=> EsNuevo(u)) /\ (Ejecuta(u)' <=> Ejecuta(u))
  BY <1>1, <1>3, <1>4 DEF EsNuevo, Ejecuta, Lleva, EnManoDe, Despacha, Principal
<1> QED BY <1>1, <1>5, NadieSeMueve

(* The semaphore had units: one is taken, and the process is in exec.      *)
LEMMA CicloPideOK ==
  ASSUME TypeOK, Inv, FormaCiclo, FormaCiclo', pideSemaforoOK
  PROVE  \E s \in Semaforos : CV!Tomar(s)
<1> PICK t, c, s : t = Principal.proc /\ c = Principal.cpu /\ s = Principal.sem
  OBVIOUS
<1>1. /\ Principal.paso = "pide" /\ t \in Procesos /\ c \in CPUs /\ s \in Semaforos
      /\ valor_semaforos[s] > 0
      /\ valor_semaforos' = [valor_semaforos EXCEPT ![s] = @ - 1]
      /\ cola_exec' = Append(cola_exec, t)
      /\ UNCHANGED <<cola_new, cola_ready, cola_exit, cola_semaforos, socketCPU, planif>>
  BY EnLaMano DEF pideSemaforoOK, HayUnidades, EnPaso, Principal, procesos
<1>2. Principal'.paso = "select"
  <2>1. Sigue("principal", Reposo)
    BY DEF pideSemaforoOK, VuelveASelect
  <2>2. Principal' = Reposo
    BY <2>1, AlSeguir
  <2> QED BY <2>2 DEF Reposo
<1>3. socketCPU[t] = c /\ c # Nulo
  BY <1>1, ConjuntosAssumption DEF Inv, Sockets
<1>4. ToSet(cola_exec') = ToSet(cola_exec) \cup {t}
  BY <1>1, TiposColas, ElementosAppend
<1>5. \A u \in Procesos : Lleva(u) <=> u = t
  BY <1>1 DEF Lleva, EnManoDe, Principal
<1>6. ASSUME NEW u \in Procesos
      PROVE  (EsNuevo(u)' <=> EsNuevo(u)) /\ (Ejecuta(u)' <=> Ejecuta(u))
  BY <1>1, <1>2, <1>3, <1>4, <1>5
  DEF EsNuevo, Ejecuta, Lleva, EnManoDe, Despacha, Principal
<1>7. nuevosDe' = nuevosDe /\ ejecutanDe' = ejecutanDe
  BY <1>6 DEF FormaCiclo
<1>8. t \in ejecutanDe
  BY <1>1, <1>3, <1>5 DEF FormaCiclo, Ejecuta
<1>9. CV!Tomar(s)
  BY <1>1, <1>7, <1>8 DEF CV!Tomar
<1> QED BY <1>1, <1>9

(* It had none, and it still has none when the PCB arrives: the process    *)
(* waits last.                                                             *)
LEMMA CicloBloquea ==
  ASSUME TypeOK, Inv, InvSemaforos, FormaCiclo, FormaCiclo', bloqueoSemaforo
  PROVE  \E t \in Procesos, s \in Semaforos : CV!Bloquear(t, s)
<1> PICK t, c, s : t = Principal.proc /\ c = Principal.cpu /\ s = Principal.sem
  OBVIOUS
<1>1. Principal.paso = "pidePCB" /\ t \in Procesos /\ c \in CPUs /\ s \in Semaforos
  BY EnLaMano DEF bloqueoSemaforo, EnPaso, Principal
<1>2. /\ cola_semaforos' = [cola_semaforos EXCEPT ![s] = Append(@, t)]
      /\ IrA("principal", "cpuSem")
      /\ UNCHANGED <<cola_new, cola_ready, cola_exec, cola_exit, valor_semaforos, socketCPU,
                     planif>>
  BY SeBloquea DEF bloquear
<1>3. Principal'.paso = "cpuSem"
  BY <1>2, AlIr
<1>4. socketCPU[t] = c /\ c # Nulo /\ valor_semaforos[s] = 0
  BY <1>1, ConjuntosAssumption DEF Inv, Sockets, InvSemaforos, BloqueaSinUnidades, Principal
<1>5. UnLugar(t) /\ \A u \in Procesos : Lleva(u) <=> u = t
  BY <1>1 DEF Lleva, EnManoDe, Principal, Inv, Lugares
<1>6. ~EnCola(t) /\ ~Despacha(t)
  BY <1>1, <1>5 DEF UnLugar
<1>7. ASSUME NEW u \in Procesos
      PROVE  (EsNuevo(u)' <=> EsNuevo(u)) /\ (Ejecuta(u)' <=> Ejecuta(u) /\ u # t)
  BY <1>1, <1>2, <1>3, <1>4, <1>5, <1>6
  DEF EsNuevo, Ejecuta, EnCola, Lleva, EnManoDe, Despacha, Principal
<1>8. nuevosDe' = nuevosDe /\ ejecutanDe' = ejecutanDe \ {t}
  BY <1>7 DEF FormaCiclo
<1>9. t \in ejecutanDe
  BY <1>1, <1>4, <1>5 DEF FormaCiclo, Ejecuta
<1>10. CV!Bloquear(t, s)
  BY <1>2, <1>4, <1>8, <1>9 DEF CV!Bloquear
<1> QED BY <1>1, <1>10

(* A unit goes to whoever waits first, or to the semaphore.                *)
LEMMA CicloLibera ==
  ASSUME TypeOK, Inv, FormaCiclo, FormaCiclo', liberarSemaforoUnidad
  PROVE  \E s \in Semaforos : CV!Soltar(s)
<1> PICK c, s : c = Principal.cpu /\ s = Principal.sem
  OBVIOUS
<1>1. /\ Principal.paso = "libera" /\ c \in CPUs /\ s \in Semaforos
      /\ UNCHANGED <<cola_new, cola_exec, cola_exit, socketCPU, planif>>
  BY EnLaMano DEF liberarSemaforoUnidad, EnPaso, Principal, procesos
<1>2. IF cola_semaforos[s] = <<>>
      THEN /\ valor_semaforos' = [valor_semaforos EXCEPT ![s] = @ + 1]
           /\ UNCHANGED <<cola_ready, cola_semaforos>>
      ELSE /\ cola_ready' = Append(cola_ready, Head(cola_semaforos[s]))
           /\ cola_semaforos' = [cola_semaforos EXCEPT ![s] = Tail(@)]
           /\ UNCHANGED valor_semaforos
  BY DEF liberarSemaforoUnidad, HayQuienEspera, alReady, Principal
<1>3. Principal'.paso = "select"
  <2>1. Sigue("principal", Reposo)
    BY DEF liberarSemaforoUnidad, VuelveASelect
  <2>2. Principal' = Reposo
    BY <2>1, AlSeguir
  <2> QED BY <2>2 DEF Reposo
<1>4. ejecutanDe # {}
  <2>1. Libera(c)
    BY <1>1 DEF Inv, Protocolo, ProtocoloDe
  <2>2. PICK t \in ToSet(cola_exec) : socketCPU[t] = c
    BY <2>1 DEF Libera, Ocupada
  <2>3. t \in ejecutanDe
    BY <2>2, TiposColas DEF FormaCiclo, Ejecuta
  <2> QED BY <2>3
<1>5. ASSUME NEW u \in Procesos
      PROVE  (EsNuevo(u)' <=> EsNuevo(u)) /\ (Ejecuta(u)' <=> Ejecuta(u))
  BY <1>1, <1>3 DEF EsNuevo, Ejecuta, Lleva, EnManoDe, Despacha, Principal
<1>6. nuevosDe' = nuevosDe /\ ejecutanDe' = ejecutanDe
  BY <1>5 DEF FormaCiclo
<1>7. CASE cola_semaforos[s] = <<>>
  <2>1. CV!Soltar(s)
    BY <1>1, <1>2, <1>4, <1>6, <1>7 DEF CV!Soltar
  <2> QED BY <1>1, <2>1
<1>8. CASE cola_semaforos[s] # <<>>
  <2>1. CV!Soltar(s)
    BY <1>1, <1>2, <1>4, <1>6, <1>8 DEF CV!Soltar
  <2> QED BY <1>1, <2>1
<1> QED BY <1>7, <1>8

(* A process enters exit: rejected, if it never had a CPU.                 *)
LEMMA CicloEnExit ==
  ASSUME TypeOK, Inv, FormaCiclo, FormaCiclo', finalizarEnExit("principal")
  PROVE  \E t \in Procesos : CV!Rechazar(t) \/ CV!Terminar(t)
<1> PICK t : t = Principal.proc
  OBVIOUS
<1>1. /\ Principal.paso = "exit" /\ t \in Procesos /\ cola_exit' = Append(cola_exit, t)
      /\ UNCHANGED <<cola_new, cola_ready, cola_exec, cola_semaforos, valor_semaforos,
                     socketCPU, planif>>
  BY EnLaMano DEF finalizarEnExit, EnPaso, Principal, procesos, semaforos
<1>2. Principal'.paso = "cpuDe"
  BY AlIr DEF finalizarEnExit
<1>3. ToSet(cola_exit') = ToSet(cola_exit) \cup {t}
  BY <1>1, TiposColas, ElementosAppend
<1>4. UnLugar(t) /\ \A u \in Procesos : Lleva(u) <=> u = t
  BY <1>1 DEF Lleva, EnManoDe, Principal, Inv, Lugares
<1>5. ~EnCola(t) /\ ~Despacha(t)
  BY <1>1, <1>4 DEF UnLugar
<1>6. ASSUME NEW u \in Procesos
      PROVE  (EsNuevo(u)' <=> EsNuevo(u) /\ u # t) /\ (Ejecuta(u)' <=> Ejecuta(u) /\ u # t)
  BY <1>1, <1>2, <1>4, <1>5
  DEF EsNuevo, Ejecuta, EnCola, Lleva, EnManoDe, Despacha, Principal
<1>7. nuevosDe' = nuevosDe \ {t} /\ ejecutanDe' = ejecutanDe \ {t}
  BY <1>6 DEF FormaCiclo
<1>8. CASE socketCPU[t] = Nulo
  <2>1. t \in nuevosDe /\ t \notin ejecutanDe
    BY <1>1, <1>4, <1>5, <1>8 DEF FormaCiclo, EsNuevo, Ejecuta, EnCola
  <2>2. ejecutanDe' = ejecutanDe
    BY <1>7, <2>1
  <2>3. CV!Rechazar(t)
    BY <1>1, <1>3, <1>7, <2>1, <2>2 DEF CV!Rechazar
  <2> QED BY <1>1, <2>3
<1>9. CASE socketCPU[t] # Nulo
  <2>1. t \in ejecutanDe /\ t \notin nuevosDe
    BY <1>1, <1>4, <1>5, <1>9 DEF FormaCiclo, EsNuevo, Ejecuta, EnCola
  <2>2. nuevosDe' = nuevosDe
    BY <1>7, <2>1
  <2>3. CV!Terminar(t)
    BY <1>1, <1>3, <1>7, <2>1, <2>2 DEF CV!Terminar
  <2> QED BY <1>1, <2>3
<1> QED BY <1>8, <1>9

(* The planner takes the first process of ready for a CPU that none of     *)
(* those that execute has: there are fewer of them than CPUs.              *)
LEMMA CicloDespacha ==
  ASSUME TypeOK, Inv, FormaCiclo, FormaCiclo', sacarReady
  PROVE  CV!Despachar
<1> PICK t, c : t = Head(cola_ready) /\ c = planif.cpu
  OBVIOUS
<1>1. /\ planif.paso = "popReady" /\ cola_ready # <<>> /\ cola_ready' = Tail(cola_ready)
      /\ planif'.paso = "exec" /\ planif'.proc = t
      /\ UNCHANGED <<cola_new, cola_exec, cola_exit, cola_semaforos, valor_semaforos,
                     socketCPU, hilo>>
  BY DEF sacarReady, PlanifEn, procesos, semaforos, TypeOK, TipoPlanif
<1>2. t \in Procesos /\ Tomada(c) /\ c \in CPUs
  BY <1>1, TiposColas, ElementosTail DEF Inv, Despachos, Tomada
<1>3. ASSUME NEW u \in Procesos
      PROVE  (EsNuevo(u)' <=> EsNuevo(u)) /\ (Ejecuta(u)' <=> Ejecuta(u) \/ u = t)
  BY <1>1 DEF EsNuevo, Ejecuta, Lleva, EnManoDe, Despacha
<1>4. nuevosDe' = nuevosDe /\ ejecutanDe' = ejecutanDe \cup {t}
  BY <1>2, <1>3 DEF FormaCiclo
<1>5. ASSUME NEW u \in ejecutanDe
      PROVE  /\ socketCPU[u] \in CPUs \ {c}
             /\ \/ u \in ToSet(cola_exec)
                \/ Lleva(u) /\ Retenida(socketCPU[u])
  <2>1. u \in Procesos /\ Ejecuta(u) /\ ~Despacha(u)
    BY <1>1 DEF FormaCiclo, Despacha
  <2>2. CASE u \in ToSet(cola_exec)
    <3>1. socketCPU[u] \in CPUs /\ Ocupada(socketCPU[u])
      BY <2>2 DEF Inv, Sockets, Ocupada
    <3> QED BY <1>2, <2>2, <3>1 DEF Inv, Duenos, UnDueno
  <2>3. CASE Lleva(u) /\ socketCPU[u] # Nulo
    <3>1. socketCPU[u] \in CPUs
      BY <2>1, <2>3 DEF TypeOK, TipoProcesos
    <3>2. Retenida(socketCPU[u])
      BY <2>3 DEF Lleva, EnManoDe, Retenida, RetieneCPU, Principal, Inv, Sockets
    <3> QED BY <1>2, <2>3, <3>1, <3>2 DEF Inv, Duenos, UnDueno
  <2> QED BY <2>1, <2>2, <2>3 DEF Ejecuta
<1>6. ASSUME NEW u \in ejecutanDe, NEW w \in ejecutanDe, socketCPU[u] = socketCPU[w]
      PROVE  u = w
  <2>1. ASSUME NEW x \in ejecutanDe, NEW y \in ejecutanDe, socketCPU[x] = socketCPU[y],
               x \in ToSet(cola_exec), Retenida(socketCPU[y])
        PROVE  FALSE
    BY <1>5, <2>1 DEF Inv, Duenos, UnDueno, Ocupada
  <2>2. CASE u \in ToSet(cola_exec) /\ w \in ToSet(cola_exec)
    BY <1>6, <2>2 DEF Inv, Sockets
  <2>3. CASE Lleva(u) /\ Lleva(w)
    BY <2>3 DEF Lleva, EnManoDe
  <2> QED BY <1>5, <1>6, <2>1, <2>2, <2>3
<1>7. Cardinality(ejecutanDe) < Cardinality(CPUs)
  <2>1. IsFiniteSet(CPUs) /\ IsFiniteSet(CPUs \ {c})
    BY ConjuntosAssumption, FS_RemoveElement
  <2>2. Cardinality(CPUs \ {c}) = Cardinality(CPUs) - 1 /\ Cardinality(CPUs) \in Nat
    BY <1>2, <2>1, FS_RemoveElement, FS_CardinalityType
  <2>3. IsFiniteSet(ejecutanDe)
    <3>1. ejecutanDe \subseteq Procesos
      BY DEF FormaCiclo
    <3> QED BY <3>1, ConjuntosAssumption, FS_Subset
  <2>4. PICK f : f = [u \in ejecutanDe |-> socketCPU[u]]
    OBVIOUS
  <2>5. f \in Injection(ejecutanDe, CPUs \ {c})
    BY <1>5, <1>6, <2>4 DEF Injection, IsInjective
  <2>6. Cardinality(ejecutanDe) <= Cardinality(CPUs \ {c})
    BY <2>1, <2>3, <2>5, FS_Injection
  <2>7. Cardinality(ejecutanDe) \in Nat
    BY <2>3, FS_CardinalityType
  <2> QED BY <2>2, <2>6, <2>7
<1> QED BY <1>1, <1>4, <1>7, MismosOperadores DEF CV!Despachar

(* ... and puts it in exec.                                                *)
LEMMA CicloManda ==
  ASSUME TypeOK, Inv, FormaCiclo, FormaCiclo', mandarAEjecutar
  PROVE  UNCHANGED CV!vars
<1> PICK p : p = planif.proc
  OBVIOUS
<1>1. /\ Despacha(p) /\ p \in Procesos /\ planif.proc = p /\ planif'.paso = "datos"
      /\ cola_exec' = Append(cola_exec, p)
      /\ UNCHANGED <<cola_new, cola_ready, cola_exit, cola_semaforos, valor_semaforos, hilo>>
      /\ \A u \in Procesos \ {p} : socketCPU'[u] = socketCPU[u]
  BY DEF mandarAEjecutar, PlanifEn, Despacha, TypeOK, TipoPlanif, TipoProcesos, semaforos
<1>2. ToSet(cola_exec') = ToSet(cola_exec) \cup {p}
  BY <1>1, TiposColas, ElementosAppend
<1>3. ~Lleva(p)
  BY <1>1 DEF Inv, Lugares, UnLugar
<1>4. ASSUME NEW u \in Procesos
      PROVE  (EsNuevo(u)' <=> EsNuevo(u)) /\ (Ejecuta(u)' <=> Ejecuta(u))
  BY <1>1, <1>2, <1>3 DEF EsNuevo, Ejecuta, Lleva, EnManoDe, Despacha
<1> QED BY <1>1, <1>4, NadieSeMueve

(* The steps that CicloDeVida does not see.                                *)
LEMMA CicloAparte ==
  ASSUME TypeOK, Inv, FormaCiclo, FormaCiclo',
         \/ \E c \in CPUs : nuevoClienteCPU(c) \/ liberarSemaforo(c) \/ ProcesoCPU(c)
         \/ pedirMemoria \/ pideSemaforoFallo \/ devolverCPUBloqueado
         \/ devolverCPU("principal") \/ finalizarLiberaCPU("principal")
         \/ finalizarDescuenta("principal")
         \/ esperarReady \/ mirarEstado \/ esperarCPU \/ sacarCPU
         \/ enviarDatosKernel \/ enviarPCB
  PROVE  UNCHANGED CV!vars
<1>1. ASSUME NEW c \in CPUs, liberarSemaforo(c)
      PROVE  UNCHANGED CV!vars
  <2>1. /\ UNCHANGED <<cola_new, cola_ready, cola_exec, cola_exit, cola_semaforos,
                       valor_semaforos, socketCPU, planif>>
        /\ Principal.paso = "select"
    BY <1>1 DEF liberarSemaforo, Llego, EnPaso, Principal, procesos, colas, semaforos
  <2>2. Principal'.paso = "libera"
    <3>1. Sigue("principal", [Reposo EXCEPT !.paso = "libera", !.cpu = c,
                                            !.sem = Head(aKernel[c]).dato])
      BY <1>1 DEF liberarSemaforo
    <3>2. Principal' = [Reposo EXCEPT !.paso = "libera", !.cpu = c,
                                      !.sem = Head(aKernel[c]).dato]
      BY <3>1, AlSeguir
    <3> QED BY <3>2 DEF Reposo
  <2>3. \A t \in Procesos : (Lleva(t)' <=> Lleva(t)) /\ (Despacha(t)' <=> Despacha(t))
    BY <2>1, <2>2 DEF Lleva, EnManoDe, Despacha, Principal
  <2> QED BY <2>1, <2>3, MarcoCiclo
<1>2. CASE \/ devolverCPUBloqueado \/ devolverCPU("principal") \/ pedirMemoria
           \/ finalizarLiberaCPU("principal") \/ finalizarDescuenta("principal")
  <2>1. /\ UNCHANGED <<cola_new, cola_ready, cola_exec, cola_exit, cola_semaforos,
                       valor_semaforos, socketCPU, planif>>
        /\ Principal.paso \in {"cpuSem", "cpu", "grado", "cpuDe", "fin"}
    BY <1>2 DEF devolverCPUBloqueado, devolverCPU, pedirMemoria, finalizarLiberaCPU,
                finalizarDescuenta, EnPaso, Principal, procesos, colas, semaforos
  <2>2. Principal'.paso \in {"select", "memoria", "fin"}
    <3>1. CASE devolverCPUBloqueado \/ devolverCPU("principal")
      <4>1. Sigue("principal", Reposo)
        BY <3>1 DEF devolverCPUBloqueado, devolverCPU, VuelveASelect
      <4>2. Principal' = Reposo
        BY <4>1, AlSeguir
      <4> QED BY <4>2 DEF Reposo
    <3>2. CASE pedirMemoria \/ finalizarLiberaCPU("principal")
      BY <3>2, AlIr DEF pedirMemoria, finalizarLiberaCPU
    <3>3. CASE finalizarDescuenta("principal")
      <4>1. Principal.luego = "select" /\ Termina("principal")
        BY <3>3 DEF finalizarDescuenta, EnPaso, Principal, Inv, HiloCoherente
      <4> QED BY <4>1, AlTerminar DEF Reposo
    <3> QED BY <1>2, <3>1, <3>2, <3>3
  <2>3. \A t \in Procesos : (Lleva(t)' <=> Lleva(t)) /\ (Despacha(t)' <=> Despacha(t))
    BY <2>1, <2>2 DEF Lleva, EnManoDe, Despacha, Principal
  <2> QED BY <2>1, <2>3, MarcoCiclo
<1>3. CASE pideSemaforoFallo
  <2>1. /\ UNCHANGED <<cola_new, cola_ready, cola_exec, cola_exit, cola_semaforos,
                       valor_semaforos, socketCPU, planif>>
        /\ Principal.paso = "pide"
    BY <1>3 DEF pideSemaforoFallo, EnPaso, Principal, procesos, colas, semaforos
  <2>2. Principal'.paso = "pidePCB" /\ Principal'.proc = Principal.proc
    BY <1>3, AlIr DEF pideSemaforoFallo
  <2>3. \A t \in Procesos : (Lleva(t)' <=> Lleva(t)) /\ (Despacha(t)' <=> Despacha(t))
    BY <2>1, <2>2 DEF Lleva, EnManoDe, Despacha, Principal
  <2> QED BY <2>1, <2>3, MarcoCiclo
<1>4. CASE \E c \in CPUs : nuevoClienteCPU(c) \/ ProcesoCPU(c)
  <2>1. UNCHANGED <<cola_new, cola_ready, cola_exec, cola_exit, cola_semaforos,
                    valor_semaforos, socketCPU, planif, hilo>>
    <3>1. ASSUME NEW c \in CPUs, ProcesoCPU(c)
          PROVE  UNCHANGED kernel
      BY <3>1 DEF ProcesoCPU, recibirDatosKernel, recibirPCB, instruccionLocal,
                  terminarPrograma, wait_kernel, signal_kernel, respuestaWait,
                  respuestaSignal, sondeo
    <3>2. CASE \E c \in CPUs : nuevoClienteCPU(c)
      BY <3>2 DEF nuevoClienteCPU, procesos, colas, semaforos
    <3> QED BY <1>4, <3>1, <3>2 DEF kernel, procesos, colas, semaforos
  <2>2. \A t \in Procesos : (Lleva(t)' <=> Lleva(t)) /\ (Despacha(t)' <=> Despacha(t))
    BY <2>1 DEF Lleva, EnManoDe, Despacha
  <2> QED BY <2>1, <2>2, MarcoCiclo
<1>5. CASE \/ esperarReady \/ mirarEstado \/ esperarCPU \/ sacarCPU
           \/ enviarDatosKernel \/ enviarPCB
  <2>1. UNCHANGED <<cola_new, cola_ready, cola_exec, cola_exit, cola_semaforos,
                    valor_semaforos, socketCPU, hilo>>
    BY <1>5 DEF esperarReady, mirarEstado, esperarCPU, sacarCPU, enviarDatosKernel,
                enviarPCB, procesos, colas, semaforos
  <2>2. planif.paso # "exec" /\ planif'.paso # "exec"
    <3>1. CASE esperarReady \/ mirarEstado \/ esperarCPU
      BY <3>1 DEF esperarReady, mirarEstado, esperarCPU, PlanifEn, TypeOK, TipoPlanif
    <3>2. CASE sacarCPU
      BY <3>2 DEF sacarCPU, PlanifEn, TypeOK, TipoPlanif
    <3>3. CASE enviarDatosKernel \/ enviarPCB
      BY <3>3 DEF enviarDatosKernel, enviarPCB, PlanifEn, PlanifReposo, TypeOK, TipoPlanif
    <3> QED BY <1>5, <3>1, <3>2, <3>3
  <2>3. \A t \in Procesos : (Lleva(t)' <=> Lleva(t)) /\ (Despacha(t)' <=> Despacha(t))
    BY <2>1, <2>2 DEF Lleva, EnManoDe, Despacha
  <2> QED BY <2>1, <2>3, MarcoCiclo
<1> QED BY <1>1, <1>2, <1>3, <1>4, <1>5

LEMMA PasoCiclo ==
  ASSUME TypeOK, ContadoresExactos, Inv, InvSemaforos, FormaGrado, InvGrado,
         FormaCiclo, FormaCiclo', [Next]_vars
  PROVE  [CV!Next]_(CV!vars)
<1>1. CASE HiloPrincipal
  BY <1>1, NadieCae, CicloAparte, CicloNuevo, CicloDecide, CicloSaleDeExec, CicloPideOK,
     CicloBloquea, CicloLibera
  DEF HiloPrincipal, CV!Next
<1>2. CASE PasoCompartido("principal")
  BY <1>2, CicloAparte, CicloReady, CicloEnExit DEF PasoCompartido, CV!Next
<1>3. CASE HiloPlanificador
  BY <1>3, NadieCae, CicloAparte, CicloDespacha, CicloManda DEF HiloPlanificador, CV!Next
<1>4. CASE \E c \in CPUs : ProcesoCPU(c)
  BY <1>4, CicloAparte
<1>5. CASE UNCHANGED vars
  <2>1. /\ UNCHANGED <<cola_new, cola_ready, cola_exec, cola_exit, cola_semaforos,
                       valor_semaforos, socketCPU, planif, hilo>>
    BY <1>5 DEF vars, kernel, procesos, colas, semaforos
  <2>2. \A t \in Procesos : (Lleva(t)' <=> Lleva(t)) /\ (Despacha(t)' <=> Despacha(t))
    BY <2>1 DEF Lleva, EnManoDe, Despacha
  <2> QED BY <2>1, <2>2, MarcoCiclo
<1> QED BY <1>1, <1>2, <1>3, <1>4, <1>5 DEF Next

LEMMA CicloInicial == Init => CV!Init
<1> SUFFICES ASSUME Init
             PROVE  CV!Init
  OBVIOUS
<1>1. ToSet(cola_new) = {} /\ ToSet(cola_exec) = {} /\ ToSet(cola_exit) = {}
  BY ElementosCortos DEF Init
<1>2. hilo["principal"].paso = "select" /\ planif.paso = "sem_ready"
  BY DEF Init, Hilos, Reposo, PlanifReposo
<1>3. nuevosDe = {} /\ ejecutanDe = {}
  BY <1>1, <1>2 DEF nuevosDe, ejecutanDe, EnMano, EnManoDe
<1> QED BY <1>1, <1>3 DEF Init, CV!Init

(* The Kernel implements the life cycle, for any number of programs, CPUs  *)
(* and semaphores: whatever its threads and CPUs do, processes are         *)
(* dispatched in the order they became ready and never more than there are *)
(* CPUs, admitted only if they fit in the degree, blocked only on a        *)
(* semaphore without units and woken in the order they blocked.            *)
THEOREM CicloDeVidaImplementado == Spec => ImplementaCicloDeVida
<1>1. TypeOK => FormaCiclo
  BY CicloDe
<1>2. TypeOK /\ Inv => FormaGrado
  BY CuentaDe
<1>3. /\ TypeOK /\ ContadoresExactos /\ Inv /\ InvSemaforos /\ FormaGrado /\ InvGrado
      /\ FormaCiclo /\ FormaCiclo' /\ [Next]_vars
      => [CV!Next]_(CV!vars)
  BY PasoCiclo
<1> QED BY <1>1, <1>2, <1>3, CicloInicial, TipoCorrecto, ContadoresCorrectos, InvCorrecto,
           SemaforosCorrectos, InvGradoCorrecto, PTL
        DEF Spec, ImplementaCicloDeVida, CV!Spec

-----------------------------------------------------------------------------
(* The units of the planner while programs are ended from outside and CPUs *)
(* leave (CierreCPU).  Packets and PCBs may hold anything there, so only   *)
(* the shape of the variables is kept.                                     *)

Sec(q) == \E T : q \in Seq(T)
PasosCierre == {"sacaCPU", "quitaCPU"}
OpsCierre == {"PROGRAMA_ABORTADO_CPU", "DESCONEXION_CPU"}

EsHilo(H) ==
  /\ DOMAIN H = {"paso", "proc", "cpu", "sem", "luego", "a"}
  /\ H.luego \in {"select", "cpu", "archivo"}
FormaHilo == DOMAIN hilo = Hilos /\ \A h \in Hilos : EsHilo(hilo[h])
FormaColas ==
  /\ Sec(cola_ready) /\ Sec(cola_CPU_libres)
  /\ sem_ready \in Nat /\ sem_cpu \in Nat
  /\ DOMAIN planif = {"paso", "proc", "cpu", "serial"}
EsCPU(C) ==
  /\ DOMAIN C = {"paso", "pid", "quantum", "sale", "sem", "senal", "yaEnvieCierre"}
  /\ C.yaEnvieCierre \in BOOLEAN
FormaRed ==
  /\ DOMAIN cpu = CPUs /\ \A c \in CPUs : EsCPU(cpu[c])
  /\ DOMAIN aKernel = CPUs /\ \A c \in CPUs : Sec(aKernel[c])

(* Until a CPU leaves, no packet says so and the main thread looks for     *)
(* none in the free list.                                                  *)
SinAviso(q) == \A i \in 1 .. Len(q) : q[i].op \notin OpsCierre
SinAvisos == \A c \in CPUs : SinAviso(aKernel[c])
NadieLaBusca == hilo["principal"].paso \notin PasosCierre

InvSenales ==
  /\ FormaHilo /\ FormaColas /\ FormaRed
  /\ SenalesAlDia
  /\ NingunaSeFue => SinAvisos /\ NadieLaBusca

-----------------------------------------------------------------------------
(* What a step may do to each part of the state.                           *)

(* A thread goes on, and none comes to take a CPU out of the list. *)
HiloSano ==
  /\ FormaHilo'
  /\ \/ hilo'["principal"] = hilo["principal"]
     \/ NadieLaBusca /\ NadieLaBusca'

(* A push posts its unit, a pop had one. *)
ColasSanas ==
  /\ FormaColas'
  /\ ReadyTieneSenal => ReadyTieneSenal'
  /\ \/ Unidades' - Len(cola_CPU_libres)' = Unidades - Len(cola_CPU_libres)
     \/ /\ Unidades > Len(cola_CPU_libres)
        /\ Unidades' - Len(cola_CPU_libres)' = Unidades - Len(cola_CPU_libres) - 1

(* A CPU that left stays out, and those that have not say nothing of it. *)
RedSana ==
  /\ FormaRed'
  /\ NingunaSeFue' => NingunaSeFue /\ (SinAvisos => SinAvisos')

LEMMA LargoNat ==
  ASSUME NEW q, Sec(q)
  PROVE  Len(q) \in Nat /\ DOMAIN q = 1 .. Len(q)
<1>1. PICK T : q \in Seq(T)
  BY DEF Sec
<1> QED BY <1>1

LEMMA SecVacia == Sec(<< >>) /\ Len(<< >>) = 0
<1>1. << >> \in Seq({})
  OBVIOUS
<1> QED BY <1>1 DEF Sec

LEMMA SecAppend ==
  ASSUME NEW q, Sec(q), NEW x
  PROVE  /\ Sec(Append(q, x)) /\ Len(Append(q, x)) = Len(q) + 1
         /\ SinAviso(q) /\ x.op \notin OpsCierre => SinAviso(Append(q, x))
<1>1. PICK T : q \in Seq(T)
  BY DEF Sec
<1>2. q \in Seq(T \cup {x}) /\ x \in T \cup {x}
  BY <1>1
<1>3. /\ Append(q, x) \in Seq(T \cup {x}) /\ Len(Append(q, x)) = Len(q) + 1 /\ Len(q) \in Nat
      /\ \A i \in 1 .. Len(q) : Append(q, x)[i] = q[i]
      /\ Append(q, x)[Len(q) + 1] = x
  BY <1>2
<1>4. Sec(Append(q, x))
  BY <1>3 DEF Sec
<1>5. ASSUME SinAviso(q), x.op \notin OpsCierre
      PROVE  SinAviso(Append(q, x))
  <2>1. ASSUME NEW i \in 1 .. Len(Append(q, x))
        PROVE  Append(q, x)[i].op \notin OpsCierre
    <3>1. i \in 1 .. Len(q) \/ i = Len(q) + 1
      BY <1>3, <2>1
    <3> QED BY <1>3, <1>5, <3>1 DEF SinAviso
  <2> QED BY <2>1 DEF SinAviso
<1> QED BY <1>3, <1>4, <1>5

LEMMA SecTail ==
  ASSUME NEW q, Sec(q), q # << >>
  PROVE  /\ Sec(Tail(q)) /\ Len(Tail(q)) = Len(q) - 1 /\ Len(q) > 0
         /\ SinAviso(q) => SinAviso(Tail(q)) /\ Head(q).op \notin OpsCierre
<1>1. PICK T : q \in Seq(T)
  BY DEF Sec
<1>2. /\ Tail(q) \in Seq(T) /\ Len(Tail(q)) = Len(q) - 1 /\ Len(q) \in Nat /\ Len(q) > 0
      /\ \A i \in 1 .. Len(q) - 1 : Tail(q)[i] = q[i + 1]
      /\ Head(q) = q[1]
  BY <1>1
<1>3. Sec(Tail(q))
  BY <1>2 DEF Sec
<1>4. ASSUME SinAviso(q) PROVE SinAviso(Tail(q)) /\ Head(q).op \notin OpsCierre
  <2>1. ASSUME NEW i \in 1 .. Len(Tail(q)) PROVE Tail(q)[i].op \notin OpsCierre
    <3>1. i \in 1 .. Len(q) - 1 /\ i + 1 \in 1 .. Len(q)
      BY <1>2, <2>1
    <3> QED BY <1>2, <1>4, <3>1 DEF SinAviso
  <2>2. 1 \in 1 .. Len(q)
    BY <1>2
  <2> QED BY <1>2, <1>4, <2>1, <2>2 DEF SinAviso
<1> QED BY <1>2, <1>3, <1>4

LEMMA SecRemoveAt ==
  ASSUME NEW q, Sec(q), NEW i \in DOMAIN q
  PROVE  Sec(RemoveAt(q, i)) /\ Len(RemoveAt(q, i)) = Len(q) - 1
<1>1. PICK T : q \in Seq(T)
  BY DEF Sec
<1>2. i \in 1 .. Len(q)
  BY <1>1
<1>3. RemoveAt(q, i) \in Seq(T) /\ Len(RemoveAt(q, i)) = Len(q) - 1
  BY <1>1, <1>2, RemoveAtTipo
<1> QED BY <1>3 DEF Sec

LEMMA SecSinPrimero ==
  ASSUME NEW q, Sec(q), NEW S
  PROVE  Sec(SinPrimero(q, S)) /\ Len(SinPrimero(q, S)) <= Len(q)
<1>1. Len(q) \in Nat /\ DOMAIN q = 1 .. Len(q)
  BY LargoNat
<1>2. CASE Posiciones(q, S) = {}
  BY <1>1, <1>2 DEF SinPrimero
<1>3. CASE Posiciones(q, S) # {}
  <2>1. Min(Posiciones(q, S)) \in DOMAIN q
    BY <1>1, <1>3, PosicionesTipo
  <2>2. /\ Sec(RemoveAt(q, Min(Posiciones(q, S))))
        /\ Len(RemoveAt(q, Min(Posiciones(q, S)))) = Len(q) - 1
    BY <2>1, SecRemoveAt
  <2> QED BY <1>1, <1>3, <2>2 DEF SinPrimero
<1> QED BY <1>2, <1>3

-----------------------------------------------------------------------------
(* Steps of the threads.                                                   *)

LEMMA HiloQuieto ==
  ASSUME FormaHilo, UNCHANGED hilo
  PROVE  HiloSano
BY DEF FormaHilo, HiloSano

LEMMA HiloSigue ==
  ASSUME FormaHilo, NEW h \in Hilos, NEW H, EsHilo(H), Sigue(h, H),
         hilo[h].paso \notin PasosCierre, H.paso \notin PasosCierre
  PROVE  HiloSano
<1>1. /\ DOMAIN hilo' = Hilos /\ hilo'[h] = H
      /\ \A k \in Hilos \ {h} : hilo'[k] = hilo[k]
  BY DEF FormaHilo, Sigue
<1>2. FormaHilo'
  BY <1>1 DEF FormaHilo
<1>3. "principal" \in Hilos
  BY DEF Hilos
<1>4. \/ hilo'["principal"] = hilo["principal"]
      \/ NadieLaBusca /\ NadieLaBusca'
  <2>1. CASE h = "principal"
    BY <1>1, <2>1 DEF NadieLaBusca
  <2>2. CASE h # "principal"
    BY <1>1, <1>3, <2>2
  <2> QED BY <2>1, <2>2
<1> QED BY <1>2, <1>4 DEF HiloSano

(* A handler begins with a record of its own. *)
LEMMA HiloEmpieza ==
  ASSUME FormaHilo, NEW h \in Hilos, NEW H, DOMAIN H = DOMAIN Reposo,
         H.luego \in {"select", "cpu", "archivo"}, Sigue(h, H),
         hilo[h].paso \notin PasosCierre, H.paso \notin PasosCierre
  PROVE  HiloSano
BY HiloSigue DEF EsHilo, Reposo

LEMMA HiloIrA ==
  ASSUME FormaHilo, NEW h \in Hilos, NEW p, IrA(h, p),
         hilo[h].paso \notin PasosCierre, p \notin PasosCierre
  PROVE  HiloSano
<1> DEFINE H == [hilo[h] EXCEPT !.paso = p]
<1>1. EsHilo(hilo[h])
  BY DEF FormaHilo
<1>2. EsHilo(H) /\ H.paso = p
  BY <1>1 DEF EsHilo
<1>3. Sigue(h, H)
  BY DEF FormaHilo, IrA, Sigue
<1> HIDE DEF H
<1> QED BY <1>2, <1>3, HiloSigue

LEMMA HiloReposa ==
  ASSUME FormaHilo, NEW h \in Hilos, VuelveASelect(h), hilo[h].paso \notin PasosCierre
  PROVE  HiloSano
<1>1. EsHilo(Reposo) /\ Reposo.paso \notin PasosCierre
  BY DEF EsHilo, Reposo, PasosCierre
<1> QED BY <1>1, HiloSigue DEF VuelveASelect

LEMMA HiloTermina ==
  ASSUME FormaHilo, NEW h \in Hilos, Termina(h), hilo[h].paso \notin PasosCierre
  PROVE  HiloSano
<1>1. hilo[h].luego \in {"select", "cpu", "archivo"}
  BY DEF FormaHilo, EsHilo
<1>2. CASE hilo[h].luego = "select"
  BY <1>2, HiloReposa DEF Termina
<1>3. CASE hilo[h].luego # "select"
  <2>1. IrA(h, hilo[h].luego) /\ hilo[h].luego \notin PasosCierre
    BY <1>1, <1>3 DEF Termina, PasosCierre
  <2> QED BY <2>1, HiloIrA
<1> QED BY <1>2, <1>3

LEMMA HiloFinaliza ==
  ASSUME FormaHilo, NEW h \in Hilos, NEW t, Finaliza(h, t), hilo[h].paso \notin PasosCierre
  PROVE  HiloSano
<1> DEFINE H == [[hilo[h] EXCEPT !.paso = "exit"] EXCEPT !.proc = t]
<1>1. EsHilo(hilo[h])
  BY DEF FormaHilo
<1>2. EsHilo(H) /\ H.paso = "exit"
  BY <1>1 DEF EsHilo
<1>3. Sigue(h, H)
  BY DEF FormaHilo, Finaliza, Sigue
<1> HIDE DEF H
<1>4. H.paso \notin PasosCierre
  BY <1>2 DEF PasosCierre
<1> QED BY <1>2, <1>3, <1>4, HiloSigue

-----------------------------------------------------------------------------
(* The queues of the planner.                                              *)

LEMMA ColasQuietas ==
  ASSUME FormaColas, UNCHANGED <<cola_ready, sem_ready, cola_CPU_libres, sem_cpu, planif>>
  PROVE  ColasSanas
BY DEF FormaColas, ColasSanas, Unidades, ReadyTieneSenal, TomoReady

LEMMA ColasReady ==
  ASSUME FormaColas, NEW t, alReady(t), UNCHANGED <<cola_CPU_libres, sem_cpu, planif>>
  PROVE  ColasSanas
<1>1. /\ Sec(Append(cola_ready, t)) /\ Len(Append(cola_ready, t)) = Len(cola_ready) + 1
      /\ Len(cola_ready) \in Nat /\ Len(cola_CPU_libres) \in Nat
  BY SecAppend, LargoNat DEF FormaColas
<1>2. FormaColas'
  BY <1>1 DEF FormaColas, alReady
<1>3. ReadyTieneSenal => ReadyTieneSenal'
  BY <1>1 DEF FormaColas, alReady, ReadyTieneSenal, TomoReady, Uno
<1> QED BY <1>2, <1>3 DEF ColasSanas, Unidades

LEMMA ColasCPU ==
  ASSUME FormaColas, NEW c, encolarCPU(c), UNCHANGED <<cola_ready, sem_ready, planif>>
  PROVE  ColasSanas
<1>1. /\ Sec(Append(cola_CPU_libres, c))
      /\ Len(Append(cola_CPU_libres, c)) = Len(cola_CPU_libres) + 1
      /\ Len(cola_CPU_libres) \in Nat
  BY SecAppend, LargoNat DEF FormaColas
<1>2. FormaColas'
  BY <1>1 DEF FormaColas, encolarCPU
<1>3. ReadyTieneSenal => ReadyTieneSenal'
  BY DEF ReadyTieneSenal, TomoReady
<1>4. Unidades' - Len(cola_CPU_libres)' = Unidades - Len(cola_CPU_libres)
  BY <1>1 DEF Unidades, Uno, encolarCPU, FormaColas
<1> QED BY <1>2, <1>3, <1>4 DEF ColasSanas

-----------------------------------------------------------------------------
(* The sockets and the CPUs.                                               *)

LEMMA RedQuieta ==
  ASSUME FormaRed, UNCHANGED <<cpu, aKernel>>
  PROVE  RedSana
BY DEF FormaRed, RedSana, NingunaSeFue, SinAvisos

LEMMA RedConsume ==
  ASSUME FormaRed, UNCHANGED cpu, NEW c, aKernel[c] # << >>, Consume(c)
  PROVE  RedSana
<1>1. /\ DOMAIN aKernel' = CPUs
      /\ \A d \in CPUs : aKernel'[d] = IF d = c THEN Tail(aKernel[c]) ELSE aKernel[d]
  BY DEF FormaRed, Consume
<1>2. \A d \in CPUs : Sec(aKernel'[d]) /\ (SinAviso(aKernel[d]) => SinAviso(aKernel'[d]))
  <2>1. ASSUME NEW d \in CPUs
        PROVE  Sec(aKernel'[d]) /\ (SinAviso(aKernel[d]) => SinAviso(aKernel'[d]))
    <3>1. CASE d = c
      BY <1>1, <3>1, SecTail DEF FormaRed
    <3>2. CASE d # c
      BY <1>1, <3>2 DEF FormaRed
    <3> QED BY <3>1, <3>2
  <2> QED BY <2>1
<1> QED BY <1>1, <1>2 DEF FormaRed, RedSana, NingunaSeFue, SinAvisos

(* A CPU changes: it left before or it has not, and if it has not it sends *)
(* nothing that says so. *)
LEMMA RedCPU ==
  ASSUME FormaRed, NEW c \in CPUs, NEW C, NEW q,
         cpu' = [cpu EXCEPT ![c] = C],
         aKernel' = [aKernel EXCEPT ![c] = q] \/ (UNCHANGED aKernel /\ q = aKernel[c]),
         EsCPU(C), Sec(q),
         C.paso # "cerrada" /\ ~C.yaEnvieCierre =>
           /\ cpu[c].paso # "cerrada" /\ ~cpu[c].yaEnvieCierre
           /\ SinAviso(aKernel[c]) => SinAviso(q)
  PROVE  RedSana
<1>1. /\ DOMAIN cpu' = CPUs /\ DOMAIN aKernel' = CPUs
      /\ cpu'[c] = C /\ aKernel'[c] = q
      /\ \A d \in CPUs \ {c} : cpu'[d] = cpu[d] /\ aKernel'[d] = aKernel[d]
  BY DEF FormaRed
<1>2. FormaRed'
  BY <1>1 DEF FormaRed
<1>3. ASSUME NingunaSeFue' PROVE NingunaSeFue /\ (SinAvisos => SinAvisos')
  BY <1>1, <1>3 DEF NingunaSeFue, SinAvisos
<1> QED BY <1>2, <1>3 DEF RedSana

(* Such a step keeps the units. *)
LEMMA UnidadesTipo ==
  ASSUME FormaColas
  PROVE  Unidades \in Nat /\ Len(cola_CPU_libres) \in Nat
BY LargoNat DEF FormaColas, Unidades, Uno

LEMMA UnidadesTipoPrima ==
  ASSUME FormaColas'
  PROVE  Unidades' \in Nat /\ Len(cola_CPU_libres)' \in Nat
<1>1. sem_cpu' \in Nat /\ Len(cola_CPU_libres') \in Nat
  BY LargoNat DEF FormaColas
<1>2. Unidades' \in Nat
  <2>1. Uno(planif.paso = "popCPU")' \in {0, 1}
    BY DEF Uno
  <2>2. Unidades' = sem_cpu' + Uno(planif.paso = "popCPU")'
    BY DEF Unidades
  <2>3. \A v \in Nat, u \in {0, 1} : v + u \in Nat
    OBVIOUS
  <2> QED BY ONLY <1>1, <2>1, <2>2, <2>3, Zenon
<1>3. Len(cola_CPU_libres)' \in Nat
  BY <1>1
<1> QED BY <1>2, <1>3

LEMMA Balance ==
  ASSUME NEW u \in Nat, NEW n \in Nat, NEW k \in {0, 1}, NEW v \in Nat, NEW m \in Nat,
         NEW siguen \in BOOLEAN, NEW seguian \in BOOLEAN, siguen => seguian,
         u <= n + k, seguian => u = n,
         v - m = u - n \/ (u > n /\ v - m = u - n - 1)
  PROVE  v <= m + k /\ (siguen => v = m)
OBVIOUS

LEMMA PasoSano ==
  ASSUME InvSenales, HiloSano, ColasSanas, RedSana
  PROVE  InvSenales'
<1>1. /\ Unidades \in Nat /\ Len(cola_CPU_libres) \in Nat
      /\ Unidades' \in Nat /\ Len(cola_CPU_libres)' \in Nat
  BY UnidadesTipo, UnidadesTipoPrima DEF InvSenales, ColasSanas
<1>2. ReadyTieneSenal'
  BY DEF InvSenales, SenalesAlDia, ColasSanas
<1>3. PICK k \in {0, 1} : /\ Uno(hilo["principal"].paso = "quitaCPU") = k
                         /\ Uno(hilo["principal"].paso = "quitaCPU")' = k
  BY DEF HiloSano, NadieLaBusca, PasosCierre, Uno
<1>4. Unidades <= Len(cola_CPU_libres) + k /\ (NingunaSeFue => Unidades = Len(cola_CPU_libres))
  BY <1>3 DEF InvSenales, SenalesAlDia
<1>5. NingunaSeFue' => NingunaSeFue /\ SinAvisos'
  BY DEF RedSana, InvSenales
<1>6. NingunaSeFue' => NadieLaBusca'
  BY <1>5 DEF HiloSano, NadieLaBusca, InvSenales
<1>7. /\ Unidades' <= Len(cola_CPU_libres)' + k
      /\ NingunaSeFue' => Unidades' = Len(cola_CPU_libres)'
  <2>1. /\ NingunaSeFue \in BOOLEAN /\ NingunaSeFue' \in BOOLEAN
    BY DEF NingunaSeFue
  <2>2. ASSUME NEW v \in Nat, NEW m \in Nat, v = Unidades', m = Len(cola_CPU_libres)'
        PROVE  v <= m + k /\ (NingunaSeFue' => v = m)
    BY <1>1, <1>3, <1>4, <1>5, <2>1, <2>2, Balance DEF ColasSanas
  <2> QED BY <1>1, <2>2
<1>8. SenalesAlDia'
  BY <1>2, <1>3, <1>7 DEF SenalesAlDia
<1> QED BY <1>5, <1>6, <1>8 DEF InvSenales, HiloSano, ColasSanas, RedSana

-----------------------------------------------------------------------------
(* Each action of the threads.                                             *)

Sano == HiloSano /\ ColasSanas /\ RedSana

LEMMA CaeSano ==
  ASSUME InvSenales, Cae
  PROVE  Sano
BY HiloQuieto, ColasQuietas, RedQuieta DEF Sano, InvSenales, Cae, colas, libres, red

LEMMA CompartidoSano ==
  ASSUME InvSenales, NEW h \in Hilos, PasoCompartido(h)
  PROVE  Sano
<1> USE DEF InvSenales
<1>1. CASE encolarReady(h)
  <2>1. /\ Termina(h) /\ hilo[h].paso \notin PasosCierre
        /\ alReady(hilo[h].proc)
        /\ UNCHANGED <<cola_CPU_libres, sem_cpu, planif, cpu, aKernel>>
    BY <1>1 DEF encolarReady, EnPaso, PasosCierre, libres, red
  <2> QED BY <2>1, HiloTermina, ColasReady, RedQuieta DEF Sano
<1>2. CASE devolverCPU(h)
  <2>1. /\ VuelveASelect(h) /\ hilo[h].paso \notin PasosCierre
        /\ encolarCPU(hilo[h].cpu)
        /\ UNCHANGED <<cola_ready, sem_ready, planif, cpu, aKernel>>
    BY <1>2 DEF devolverCPU, EnPaso, PasosCierre, colas, red
  <2> QED BY <2>1, HiloReposa, ColasCPU, RedQuieta DEF Sano
<1>3. CASE finalizarEnExit(h)
  <2>1. /\ IrA(h, "cpuDe") /\ hilo[h].paso \notin PasosCierre /\ "cpuDe" \notin PasosCierre
        /\ UNCHANGED <<cola_ready, sem_ready, cola_CPU_libres, sem_cpu, planif, cpu, aKernel>>
    BY <1>3 DEF finalizarEnExit, EnPaso, PasosCierre, libres, red
  <2> QED BY <2>1, HiloIrA, ColasQuietas, RedQuieta DEF Sano
<1>4. CASE finalizarLiberaCPU(h)
  <2>1. /\ IrA(h, "fin") /\ hilo[h].paso \notin PasosCierre /\ "fin" \notin PasosCierre
        /\ UNCHANGED <<cola_ready, sem_ready, planif, cpu, aKernel>>
        /\ \/ encolarCPU(socketCPU[hilo[h].proc])
           \/ UNCHANGED <<cola_CPU_libres, sem_cpu>>
    BY <1>4 DEF finalizarLiberaCPU, EnPaso, PasosCierre, colas, libres, red
  <2> QED BY <2>1, HiloIrA, ColasCPU, ColasQuietas, RedQuieta DEF Sano
<1>5. CASE finalizarDescuenta(h)
  <2>1. /\ Termina(h) /\ hilo[h].paso \notin PasosCierre
        /\ UNCHANGED <<cola_ready, sem_ready, cola_CPU_libres, sem_cpu, planif, cpu, aKernel>>
    BY <1>5 DEF finalizarDescuenta, EnPaso, PasosCierre, colas, libres, red
  <2> QED BY <2>1, HiloTermina, ColasQuietas, RedQuieta DEF Sano
<1> QED BY <1>1, <1>2, <1>3, <1>4, <1>5 DEF PasoCompartido

(* What the main thread does with a new program, a new CPU or a packet. *)
LEMMA PrincipalSano ==
  ASSUME InvSenales, HiloPrincipal
  PROVE  Sano
<1> USE DEF InvSenales
<1> DEFINE H == hilo["principal"]
           Quietas == UNCHANGED <<cola_ready, sem_ready, cola_CPU_libres, sem_cpu, planif>>
<1>p. "principal" \in Hilos
  BY DEF Hilos
<1>1. ASSUME NEW c \in CPUs, nuevoClienteCPU(c) PROVE Sano
  <2>1. /\ encolarCPU(c) /\ UNCHANGED <<cola_ready, sem_ready, planif, hilo, aKernel>>
        /\ cpu[c].paso = "desconectada"
        /\ cpu' = [cpu EXCEPT ![c].paso = "espera"]
    BY <1>1 DEF nuevoClienteCPU, colas, red
  <2>2. RedSana
    <3> DEFINE C == [cpu[c] EXCEPT !.paso = "espera"]
    <3>1. /\ EsCPU(C) /\ C.yaEnvieCierre = cpu[c].yaEnvieCierre
          /\ Sec(aKernel[c]) /\ cpu[c].paso # "cerrada"
      BY <2>1 DEF FormaRed, EsCPU
    <3>2. cpu' = [cpu EXCEPT ![c] = C]
      BY <2>1
    <3> HIDE DEF C
    <3> QED BY <2>1, <3>1, <3>2, RedCPU
  <2> QED BY <2>1, <2>2, HiloQuieto, ColasCPU DEF Sano
<1>2. ASSUME NEW t \in Procesos, nuevoProgramaAnsisop(t) PROVE Sano
  <2>1. Quietas /\ UNCHANGED <<cpu, aKernel>> /\ H.paso \notin PasosCierre
    BY <1>2 DEF nuevoProgramaAnsisop, EnPaso, PasosCierre, libres, red
  <2>2. HiloSano
    BY <1>p, <1>2, <2>1, HiloEmpieza DEF nuevoProgramaAnsisop, Reposo, PasosCierre
  <2> QED BY <2>1, <2>2, ColasQuietas, RedQuieta DEF Sano
<1>3. CASE rechazarPorGrado
  <2>1. Quietas /\ UNCHANGED <<cpu, aKernel>> /\ H.paso \notin PasosCierre
    BY <1>3 DEF rechazarPorGrado, EnPaso, PasosCierre, libres, red
  <2>2. HiloSano
    BY <1>p, <1>3, <2>1, HiloEmpieza DEF rechazarPorGrado, Reposo, PasosCierre
  <2> QED BY <2>1, <2>2, ColasQuietas, RedQuieta DEF Sano
<1>4. CASE pedirMemoria
  <2>1. Quietas /\ UNCHANGED <<cpu, aKernel>> /\ H.paso \notin PasosCierre
        /\ IrA("principal", "memoria") /\ "memoria" \notin PasosCierre
    BY <1>4 DEF pedirMemoria, EnPaso, PasosCierre, colas, libres, red
  <2> QED BY <1>p, <2>1, HiloIrA, ColasQuietas, RedQuieta DEF Sano
<1>5. CASE admitir
  <2>1. Quietas /\ UNCHANGED <<cpu, aKernel>> /\ H.paso \notin PasosCierre
    BY <1>5 DEF admitir, EnPaso, PasosCierre, libres, red
  <2>2. HiloSano
    BY <1>p, <1>5, <2>1, HiloEmpieza DEF admitir, Reposo, PasosCierre
  <2> QED BY <2>1, <2>2, ColasQuietas, RedQuieta DEF Sano
<1>6. CASE newVacia
  BY <1>6, CaeSano DEF newVacia
<1>7. ASSUME NEW c \in CPUs, pideSemaforo(c) PROVE Sano
  <2>1. Quietas /\ UNCHANGED cpu /\ Consume(c) /\ aKernel[c] # << >> /\ H.paso \notin PasosCierre
    BY <1>7 DEF pideSemaforo, Llego, EnPaso, PasosCierre, libres
  <2>2. HiloSano
    BY <1>p, <1>7, <2>1, HiloEmpieza DEF pideSemaforo, Reposo, PasosCierre
  <2> QED BY <2>1, <2>2, ColasQuietas, RedConsume DEF Sano
<1>8. ASSUME NEW c \in CPUs, liberarSemaforo(c) PROVE Sano
  <2>1. Quietas /\ UNCHANGED cpu /\ Consume(c) /\ aKernel[c] # << >> /\ H.paso \notin PasosCierre
    BY <1>8 DEF liberarSemaforo, Llego, EnPaso, PasosCierre, colas, libres
  <2>2. HiloSano
    BY <1>p, <1>8, <2>1, HiloEmpieza DEF liberarSemaforo, Reposo, PasosCierre
  <2> QED BY <2>1, <2>2, ColasQuietas, RedConsume DEF Sano
<1>9. ASSUME NEW c \in CPUs, finQuantum(c) PROVE Sano
  <2>1. Quietas /\ UNCHANGED cpu /\ Consume(c) /\ aKernel[c] # << >> /\ H.paso \notin PasosCierre
    BY <1>9 DEF finQuantum, Llego, EnPaso, PasosCierre, libres
  <2>2. HiloSano
    BY <1>p, <1>9, <2>1, HiloEmpieza DEF finQuantum, Reposo, PasosCierre
  <2> QED BY <2>1, <2>2, ColasQuietas, RedConsume DEF Sano
<1>10. ASSUME NEW c \in CPUs, finalizarProgramaKernel(c) PROVE Sano
  <2>1. Quietas /\ UNCHANGED cpu /\ Consume(c) /\ aKernel[c] # << >> /\ H.paso \notin PasosCierre
    BY <1>10 DEF finalizarProgramaKernel, Llego, EnPaso, PasosCierre, libres
  <2>2. HiloSano
    BY <1>p, <1>10, <2>1, HiloEmpieza DEF finalizarProgramaKernel, Reposo, PasosCierre
  <2> QED BY <2>1, <2>2, ColasQuietas, RedConsume DEF Sano
<1>11. ASSUME NEW c \in CPUs, paqueteSinCaso(c) PROVE Sano
  <2>1. Quietas /\ UNCHANGED <<cpu, hilo>> /\ Consume(c) /\ aKernel[c] # << >>
    BY <1>11 DEF paqueteSinCaso, Llego, kernel, colas, libres
  <2> QED BY <2>1, HiloQuieto, ColasQuietas, RedConsume DEF Sano
<1>12. ASSUME NEW c \in CPUs, sinProceso(c) PROVE Sano
  BY <1>12, CaeSano DEF sinProceso
<1>13. CASE pideSemaforoOK
  <2>1. Quietas /\ UNCHANGED <<cpu, aKernel>> /\ H.paso \notin PasosCierre
        /\ VuelveASelect("principal")
    BY <1>13 DEF pideSemaforoOK, EnPaso, PasosCierre, libres
  <2> QED BY <1>p, <2>1, HiloReposa, ColasQuietas, RedQuieta DEF Sano
<1>14. CASE pideSemaforoFallo
  <2>1. Quietas /\ UNCHANGED <<cpu, aKernel>> /\ H.paso \notin PasosCierre
        /\ IrA("principal", "pidePCB") /\ "pidePCB" \notin PasosCierre
    BY <1>14 DEF pideSemaforoFallo, EnPaso, PasosCierre, colas, libres
  <2> QED BY <1>p, <2>1, HiloIrA, ColasQuietas, RedQuieta DEF Sano
<1>15. CASE bloqueoSemaforo
  <2>1. CASE bloquear(H)
    <3>1. Quietas /\ UNCHANGED cpu /\ Consume(H.cpu) /\ aKernel[H.cpu] # << >>
          /\ IrA("principal", "cpuSem") /\ "cpuSem" \notin PasosCierre
          /\ H.paso \notin PasosCierre
      BY <1>15, <2>1 DEF bloqueoSemaforo, bloquear, EnPaso, PasosCierre, libres
    <3> QED BY <1>p, <3>1, HiloIrA, ColasQuietas, RedConsume DEF Sano
  <2>2. CASE Cae
    BY <2>2, CaeSano
  <2> QED BY <1>15, <2>1, <2>2 DEF bloqueoSemaforo
<1>16. CASE devolverCPUBloqueado
  <2>1. /\ VuelveASelect("principal") /\ H.paso \notin PasosCierre
        /\ encolarCPU(H.cpu)
        /\ UNCHANGED <<cola_ready, sem_ready, planif, cpu, aKernel>>
    BY <1>16 DEF devolverCPUBloqueado, EnPaso, PasosCierre, colas, red
  <2> QED BY <1>p, <2>1, HiloReposa, ColasCPU, RedQuieta DEF Sano
<1>17. CASE liberarSemaforoUnidad
  <2>1. /\ VuelveASelect("principal") /\ H.paso \notin PasosCierre
        /\ UNCHANGED <<cola_CPU_libres, sem_cpu, planif, cpu, aKernel>>
        /\ \/ alReady(Head(cola_semaforos[H.sem]))
           \/ UNCHANGED <<cola_ready, sem_ready>>
    BY <1>17 DEF liberarSemaforoUnidad, EnPaso, PasosCierre, libres
  <2> QED BY <1>p, <2>1, HiloReposa, ColasReady, ColasQuietas, RedQuieta DEF Sano
<1> QED
  BY <1>1, <1>2, <1>3, <1>4, <1>5, <1>6, <1>7, <1>8, <1>9, <1>10, <1>11, <1>12,
     <1>13, <1>14, <1>15, <1>16, <1>17 DEF HiloPrincipal

(* The planner: the pop of an empty list of CPUs uses a unit that a        *)
(* removal left over. *)
LEMMA PlanificadorSano ==
  ASSUME InvSenales, HiloPlanificador
  PROVE  Sano
<1>1. FormaColas /\ FormaHilo /\ FormaRed
  BY DEF InvSenales
<1>2. CASE readyVacia
  BY <1>2, CaeSano DEF readyVacia
<1>3. ASSUME ~readyVacia PROVE Sano
  <2>1. UNCHANGED <<hilo, cpu, aKernel>>
    BY <1>3 DEF HiloPlanificador, esperarReady, mirarEstado, esperarCPU, sacarCPU,
       sacarReady, mandarAEjecutar, enviarDatosKernel, enviarPCB, red
  <2>2. Len(cola_ready) \in Nat /\ Len(cola_CPU_libres) \in Nat /\ sem_ready \in Nat /\ sem_cpu \in Nat
    BY <1>1, LargoNat DEF FormaColas
  <2>3. ASSUME esperarReady PROVE ColasSanas
    <3>1. /\ sem_ready > 0 /\ sem_ready' = sem_ready - 1 /\ planif.paso = "sem_ready"
          /\ planif'.paso = "estado" /\ DOMAIN planif' = DOMAIN planif
          /\ UNCHANGED <<cola_ready, cola_CPU_libres, sem_cpu>>
      BY <1>1, <2>3 DEF esperarReady, PlanifEn, colas, libres, FormaColas
    <3>2. FormaColas' /\ Unidades' = Unidades
      BY <1>1, <2>2, <3>1 DEF FormaColas, Unidades, Uno
    <3>3. ReadyTieneSenal => ReadyTieneSenal'
      BY <2>2, <3>1 DEF ReadyTieneSenal, TomoReady, Uno
    <3> QED BY <3>1, <3>2, <3>3 DEF ColasSanas
  <2>4. ASSUME mirarEstado PROVE ColasSanas
    <3>1. /\ planif.paso = "estado" /\ planif'.paso = "sem_cpu"
          /\ DOMAIN planif' = DOMAIN planif
          /\ UNCHANGED <<cola_ready, cola_CPU_libres, sem_ready, sem_cpu>>
      BY <1>1, <2>4 DEF mirarEstado, PlanifEn, colas, libres, FormaColas
    <3>2. FormaColas' /\ Unidades' = Unidades
      BY <1>1, <2>2, <3>1 DEF FormaColas, Unidades, Uno
    <3>3. ReadyTieneSenal => ReadyTieneSenal'
      BY <2>2, <3>1 DEF ReadyTieneSenal, TomoReady, Uno
    <3> QED BY <3>1, <3>2, <3>3 DEF ColasSanas
  <2>5. ASSUME esperarCPU PROVE ColasSanas
    <3>1. /\ sem_cpu > 0 /\ sem_cpu' = sem_cpu - 1 /\ planif.paso = "sem_cpu"
          /\ planif'.paso = "popCPU" /\ DOMAIN planif' = DOMAIN planif
          /\ UNCHANGED <<cola_ready, cola_CPU_libres, sem_ready>>
      BY <1>1, <2>5 DEF esperarCPU, PlanifEn, colas, FormaColas
    <3>2. FormaColas' /\ Unidades' = Unidades
      BY <1>1, <2>2, <3>1 DEF FormaColas, Unidades, Uno
    <3>3. ReadyTieneSenal => ReadyTieneSenal'
      BY <2>2, <3>1 DEF ReadyTieneSenal, TomoReady, Uno
    <3> QED BY <3>1, <3>2, <3>3 DEF ColasSanas
  <2>6. ASSUME sacarCPU PROVE ColasSanas
    <3>1. /\ planif.paso = "popCPU" /\ planif'.paso = "popReady"
          /\ DOMAIN planif' = DOMAIN planif
          /\ UNCHANGED <<cola_ready, sem_ready, sem_cpu>>
          /\ \/ cola_CPU_libres = << >> /\ UNCHANGED cola_CPU_libres
             \/ cola_CPU_libres # << >> /\ cola_CPU_libres' = Tail(cola_CPU_libres)
      BY <1>1, <2>6 DEF sacarCPU, PlanifEn, colas, FormaColas
    <3>2. Unidades = sem_cpu + 1 /\ Unidades' = sem_cpu
      BY <2>2, <3>1 DEF Unidades, Uno
    <3>3. ReadyTieneSenal => ReadyTieneSenal'
      BY <2>2, <3>1 DEF ReadyTieneSenal, TomoReady, Uno
    <3>4. CASE cola_CPU_libres = << >>
      <4>1. UNCHANGED cola_CPU_libres /\ Len(cola_CPU_libres) = 0
        BY <3>1, <3>4, SecVacia
      <4>2. FormaColas'
        BY <1>1, <3>1, <4>1 DEF FormaColas
      <4> QED BY <2>2, <3>2, <3>3, <4>1, <4>2 DEF ColasSanas
    <3>5. CASE cola_CPU_libres # << >>
      <4>1. /\ cola_CPU_libres' = Tail(cola_CPU_libres)
            /\ Sec(Tail(cola_CPU_libres))
            /\ Len(Tail(cola_CPU_libres)) = Len(cola_CPU_libres) - 1
        BY <1>1, <3>1, <3>5, SecTail DEF FormaColas
      <4>2. FormaColas'
        BY <1>1, <3>1, <4>1 DEF FormaColas
      <4>3. Unidades' - Len(cola_CPU_libres)' = Unidades - Len(cola_CPU_libres)
        <5>1. Len(cola_CPU_libres)' = Len(cola_CPU_libres) - 1
          BY <4>1
        <5>2. sem_cpu - (Len(cola_CPU_libres) - 1) = (sem_cpu + 1) - Len(cola_CPU_libres)
          BY <2>2
        <5> QED BY ONLY <3>2, <5>1, <5>2, Zenon
      <4> QED BY <3>3, <4>2, <4>3 DEF ColasSanas
    <3> QED BY <3>4, <3>5
  <2>7. ASSUME sacarReady PROVE ColasSanas
    <3>1. /\ planif.paso = "popReady" /\ planif'.paso = "exec"
          /\ DOMAIN planif' = DOMAIN planif
          /\ cola_ready # << >> /\ cola_ready' = Tail(cola_ready)
          /\ UNCHANGED <<cola_CPU_libres, sem_ready, sem_cpu>>
      BY <1>1, <2>7 DEF sacarReady, PlanifEn, libres, FormaColas
    <3>2. Sec(Tail(cola_ready)) /\ Len(Tail(cola_ready)) = Len(cola_ready) - 1
      BY <1>1, <3>1, SecTail DEF FormaColas
    <3>3. FormaColas' /\ Unidades' = Unidades
      BY <1>1, <2>2, <3>1, <3>2 DEF FormaColas, Unidades, Uno
    <3>4. ReadyTieneSenal => ReadyTieneSenal'
      BY <2>2, <3>1, <3>2 DEF ReadyTieneSenal, TomoReady, Uno
    <3> QED BY <3>1, <3>3, <3>4 DEF ColasSanas
  <2>8. ASSUME mandarAEjecutar \/ enviarDatosKernel \/ enviarPCB PROVE ColasSanas
    <3>1. /\ planif.paso \in {"exec", "datos", "pcb"}
          /\ planif'.paso \in {"datos", "pcb", "sem_ready"}
          /\ DOMAIN planif' = DOMAIN planif
          /\ UNCHANGED <<cola_ready, cola_CPU_libres, sem_ready, sem_cpu>>
      <4>1. CASE mandarAEjecutar
        BY <1>1, <4>1 DEF mandarAEjecutar, PlanifEn, libres, FormaColas
      <4>2. CASE enviarDatosKernel
        BY <1>1, <4>2 DEF enviarDatosKernel, PlanifEn, colas, libres, FormaColas
      <4>3. CASE enviarPCB
        BY <1>1, <4>3 DEF enviarPCB, PlanifEn, colas, libres, FormaColas, PlanifReposo
      <4> QED BY <2>8, <4>1, <4>2, <4>3
    <3>2. FormaColas' /\ Unidades' = Unidades
      BY <1>1, <2>2, <3>1 DEF FormaColas, Unidades, Uno
    <3>3. ReadyTieneSenal => ReadyTieneSenal'
      BY <2>2, <3>1 DEF ReadyTieneSenal, TomoReady, Uno
    <3> QED BY <3>1, <3>2, <3>3 DEF ColasSanas
  <2>9. ColasSanas
    BY <1>3, <2>3, <2>4, <2>5, <2>6, <2>7, <2>8 DEF HiloPlanificador
  <2> QED BY <1>1, <2>1, <2>9, HiloQuieto, RedQuieta DEF Sano
<1> QED BY <1>2, <1>3

-----------------------------------------------------------------------------
(* The CPUs.                                                               *)

LEMMA SecConcat ==
  ASSUME NEW q, Sec(q), NEW r, Sec(r)
  PROVE  Sec(q \o r) /\ (SinAviso(q) /\ SinAviso(r) => SinAviso(q \o r))
<1>1. PICK T : q \in Seq(T)
  BY DEF Sec
<1>2. PICK U : r \in Seq(U)
  BY DEF Sec
<1>3. q \in Seq(T \cup U) /\ r \in Seq(T \cup U)
  BY <1>1, <1>2
<1>4. /\ q \o r \in Seq(T \cup U) /\ Len(q \o r) = Len(q) + Len(r)
      /\ Len(q) \in Nat /\ Len(r) \in Nat
      /\ \A i \in 1 .. Len(q) + Len(r) :
            (q \o r)[i] = IF i <= Len(q) THEN q[i] ELSE r[i - Len(q)]
  BY <1>3
<1>5. Sec(q \o r)
  BY <1>4 DEF Sec
<1>6. ASSUME SinAviso(q), SinAviso(r) PROVE SinAviso(q \o r)
  <2>1. ASSUME NEW i \in 1 .. Len(q \o r) PROVE (q \o r)[i].op \notin OpsCierre
    <3>1. CASE i \in 1 .. Len(q)
      BY <1>4, <1>6, <2>1, <3>1 DEF SinAviso
    <3>2. CASE i \notin 1 .. Len(q)
      <4>1. i - Len(q) \in 1 .. Len(r) /\ (q \o r)[i] = r[i - Len(q)]
        BY <1>4, <2>1, <3>2
      <4> QED BY <1>6, <4>1 DEF SinAviso
    <3> QED BY <3>1, <3>2
  <2> QED BY <2>1 DEF SinAviso
<1> QED BY <1>5, <1>6

LEMMA SecUno ==
  ASSUME NEW x
  PROVE  Sec(<<x>>) /\ (x.op \notin OpsCierre => SinAviso(<<x>>))
<1>1. <<x>> \in Seq({x}) /\ Len(<<x>>) = 1 /\ <<x>>[1] = x
  OBVIOUS
<1>2. 1 .. 1 = {1}
  OBVIOUS
<1> QED BY <1>1, <1>2 DEF Sec, SinAviso

(* A step of a CPU that sends nothing, and one that sends a packet. *)
LEMMA RedCalla ==
  ASSUME FormaRed, NEW c \in CPUs, NEW C, cpu' = [cpu EXCEPT ![c] = C], UNCHANGED aKernel,
         EsCPU(C),
         C.paso # "cerrada" /\ ~C.yaEnvieCierre => cpu[c].paso # "cerrada" /\ ~cpu[c].yaEnvieCierre
  PROVE  RedSana
BY RedCPU DEF FormaRed

LEMMA RedEnvia ==
  ASSUME FormaRed, NEW c \in CPUs, NEW C, cpu' = [cpu EXCEPT ![c] = C],
         NEW op, NEW dato, EnviaAlKernel(c, op, dato), EsCPU(C),
         C.paso # "cerrada" /\ ~C.yaEnvieCierre =>
           cpu[c].paso # "cerrada" /\ ~cpu[c].yaEnvieCierre /\ op \notin OpsCierre
  PROVE  RedSana
<1>1. Sec(aKernel[c])
  BY DEF FormaRed
<1>2. PICK q : q = Append(aKernel[c], t_paquete(op, dato))
  OBVIOUS
<1>3. Sec(q) /\ (SinAviso(aKernel[c]) /\ op \notin OpsCierre => SinAviso(q))
  BY <1>1, <1>2, SecAppend DEF t_paquete
<1>4. aKernel' = [aKernel EXCEPT ![c] = q]
  BY <1>2 DEF EnviaAlKernel
<1>5. C.paso # "cerrada" /\ ~C.yaEnvieCierre =>
        /\ cpu[c].paso # "cerrada" /\ ~cpu[c].yaEnvieCierre
        /\ SinAviso(aKernel[c]) => SinAviso(q)
  BY <1>3
<1> QED BY <1>3, <1>4, <1>5, RedCPU

LEMMA KernelQuieto ==
  ASSUME InvSenales, UNCHANGED kernel, RedSana
  PROVE  Sano
BY HiloQuieto, ColasQuietas DEF kernel, colas, libres, Sano, InvSenales

(* The CPUs without a signal. *)
LEMMA CPUSano ==
  ASSUME InvSenales, NEW c \in CPUs, ProcesoCPU(c)
  PROVE  Sano
<1>1. FormaRed /\ EsCPU(cpu[c])
  BY DEF InvSenales, FormaRed
<1>k. UNCHANGED kernel
  BY DEF ProcesoCPU, recibirDatosKernel, recibirPCB, instruccionLocal, terminarPrograma,
     wait_kernel, signal_kernel, respuestaWait, respuestaSignal, sondeo
<1>2. ASSUME recibirDatosKernel(c) PROVE RedSana
  <2>1. PICK q : cpu' = [cpu EXCEPT ![c].paso = "esperaPCB", ![c].quantum = q, ![c].sale = FALSE]
    BY <1>2 DEF recibirDatosKernel
  <2> DEFINE C == [cpu[c] EXCEPT !.paso = "esperaPCB", !.quantum = q, !.sale = FALSE]
  <2>2. EsCPU(C) /\ C.yaEnvieCierre = cpu[c].yaEnvieCierre
    BY <1>1 DEF EsCPU
  <2>3. cpu' = [cpu EXCEPT ![c] = C] /\ UNCHANGED aKernel /\ cpu[c].paso = "espera"
    BY <1>2, <2>1 DEF recibirDatosKernel, CPUEn
  <2> HIDE DEF C
  <2> QED BY <1>1, <2>2, <2>3, RedCalla
<1>3. ASSUME recibirPCB(c) PROVE RedSana
  <2>1. PICK d, p : p # "desconectada" /\ cpu' = [cpu EXCEPT ![c].paso = p, ![c].pid = d]
    BY <1>3 DEF recibirPCB
  <2> DEFINE C == [cpu[c] EXCEPT !.paso = p, !.pid = d]
  <2>2. EsCPU(C) /\ C.yaEnvieCierre = cpu[c].yaEnvieCierre
    BY <1>1 DEF EsCPU
  <2>3. cpu' = [cpu EXCEPT ![c] = C] /\ UNCHANGED aKernel /\ cpu[c].paso = "esperaPCB"
    BY <1>3, <2>1 DEF recibirPCB, CPUEn
  <2> HIDE DEF C
  <2> QED BY <1>1, <2>2, <2>3, RedCalla
<1>4. ASSUME NEW b \in BOOLEAN, CerrarInstruccion(c, b), cpu[c].paso # "cerrada" PROVE RedSana
  <2>1. PICK q, s : cpu' = [cpu EXCEPT ![c].paso = "sondeo", ![c].quantum = q,
                                       ![c].sale = s, ![c].sem = Nulo]
    BY <1>4 DEF CerrarInstruccion
  <2> DEFINE C == [cpu[c] EXCEPT !.paso = "sondeo", !.quantum = q, !.sale = s, !.sem = Nulo]
  <2>2. EsCPU(C) /\ C.yaEnvieCierre = cpu[c].yaEnvieCierre
    BY <1>1 DEF EsCPU
  <2>3. cpu' = [cpu EXCEPT ![c] = C]
    BY <2>1
  <2>4. \/ UNCHANGED aKernel
        \/ \E op \in {"PROGRAMA_BLOQUEADO_SEMAFORO", "FIN_QUANTUM"} :
              EnviaAlKernel(c, op, cpu[c].pid)
    BY <1>4 DEF CerrarInstruccion
  <2> HIDE DEF C
  <2> QED BY <1>1, <1>4, <2>2, <2>3, <2>4, RedCalla, RedEnvia DEF OpsCierre
<1>5. ASSUME instruccionLocal(c) PROVE RedSana
  BY <1>4, <1>5 DEF instruccionLocal, CPUEn
<1>6. ASSUME respuestaWait(c) PROVE RedSana
  <2>1. CerrarInstruccion(c, ~EsCero(Head(aCPU[c]))) /\ cpu[c].paso = "wait"
    BY <1>6 DEF respuestaWait, CPUEn
  <2>2. (~EsCero(Head(aCPU[c]))) \in BOOLEAN
    OBVIOUS
  <2> QED BY <1>4, <2>1, <2>2
<1>7. ASSUME respuestaSignal(c) PROVE RedSana
  BY <1>4, <1>7 DEF respuestaSignal, CPUEn
<1>8. ASSUME terminarPrograma(c) PROVE RedSana
  <2> DEFINE C == [cpu[c] EXCEPT !.paso = "sondeo", !.sale = TRUE]
  <2>1. EsCPU(C) /\ C.yaEnvieCierre = cpu[c].yaEnvieCierre
    BY <1>1 DEF EsCPU
  <2>2. cpu' = [cpu EXCEPT ![c] = C] /\ cpu[c].paso = "ejecuta"
    BY <1>8 DEF terminarPrograma, CPUEn
  <2>3. PICK op \in OpsFin : EnviaAlKernel(c, op, cpu[c].pid)
    BY <1>8 DEF terminarPrograma
  <2>4. op \notin OpsCierre
    BY DEF OpsFin, OpsCierre
  <2> HIDE DEF C
  <2> QED BY <1>1, <2>1, <2>2, <2>3, <2>4, RedEnvia
<1>9. ASSUME NEW s \in Semaforos, wait_kernel(c, s) PROVE RedSana
  <2> DEFINE C == [cpu[c] EXCEPT !.paso = "wait", !.sem = s]
  <2>1. EsCPU(C) /\ C.yaEnvieCierre = cpu[c].yaEnvieCierre
    BY <1>1 DEF EsCPU
  <2>2. cpu' = [cpu EXCEPT ![c] = C] /\ cpu[c].paso = "ejecuta"
        /\ EnviaAlKernel(c, "PEDIR_SEMAFORO", s)
    BY <1>9 DEF wait_kernel, CPUEn
  <2> HIDE DEF C
  <2> QED BY <1>1, <2>1, <2>2, RedEnvia DEF OpsCierre
<1>10. ASSUME NEW s \in Semaforos, signal_kernel(c, s) PROVE RedSana
  <2> DEFINE C == [cpu[c] EXCEPT !.paso = "signal"]
  <2>1. EsCPU(C) /\ C.yaEnvieCierre = cpu[c].yaEnvieCierre
    BY <1>1 DEF EsCPU
  <2>2. cpu' = [cpu EXCEPT ![c] = C] /\ cpu[c].paso = "ejecuta"
        /\ EnviaAlKernel(c, "LIBERAR_SEMAFORO", s)
    BY <1>10 DEF signal_kernel, CPUEn
  <2> HIDE DEF C
  <2> QED BY <1>1, <2>1, <2>2, RedEnvia DEF OpsCierre
<1>11. ASSUME sondeo(c) PROVE RedSana
  <2>1. PICK p \in {"espera", "ejecuta"} : cpu' = [cpu EXCEPT ![c].paso = p]
    BY <1>11 DEF sondeo
  <2> DEFINE C == [cpu[c] EXCEPT !.paso = p]
  <2>2. EsCPU(C) /\ C.yaEnvieCierre = cpu[c].yaEnvieCierre
    BY <1>1 DEF EsCPU
  <2>3. cpu' = [cpu EXCEPT ![c] = C] /\ cpu[c].paso = "sondeo"
    BY <1>11, <2>1 DEF sondeo, CPUEn
  <2>4. UNCHANGED aKernel \/ \E op \in OpsAborto : \E d : EnviaAlKernel(c, op, d)
    BY <1>11 DEF sondeo
  <2>5. OpsAborto \cap OpsCierre = {}
    BY DEF OpsAborto, OpsCierre
  <2> HIDE DEF C
  <2> QED BY <1>1, <2>2, <2>3, <2>4, <2>5, RedCalla, RedEnvia
<1>12. RedSana
  BY <1>2, <1>3, <1>5, <1>6, <1>7, <1>8, <1>9, <1>10, <1>11 DEF ProcesoCPU
<1> QED BY <1>k, <1>12, KernelQuieto

-----------------------------------------------------------------------------
(* What ends a process from outside.                                       *)

LEMMA OrdenesSanas ==
  ASSUME InvSenales,
         \/ \E t \in Procesos : finalizarDesdeConsola(t) \/ finalizarDesdeKernel(t)
         \/ \E n \in GradosPedidos : cambiarGradoMultiprogramacion(n)
         \/ detenerPlanificacion \/ memoriaRechaza \/ responderArchivo
         \/ \E c \in CPUs : \/ abrirArchivo(c) \/ archivoFallido(c)
                            \/ respuestaArchivo(c) \/ deserializarYFinalizar(c)
                            \/ indiceFueraDeExec(c)
  PROVE  Sano
<1> DEFINE Quietas == UNCHANGED <<cola_ready, sem_ready, cola_CPU_libres, sem_cpu, planif>>
<1>p. "principal" \in Hilos /\ "consola" \in Hilos
  BY DEF Hilos
<1>f. FormaHilo /\ FormaColas /\ FormaRed
  BY DEF InvSenales
<1>1. ASSUME NEW t \in Procesos, finalizarDesdeConsola(t) PROVE Sano
  <2>1. Quietas /\ UNCHANGED <<cpu, aKernel>> /\ hilo["principal"].paso \notin PasosCierre
    BY <1>1 DEF finalizarDesdeConsola, EnPaso, PasosCierre, colas, libres, red
  <2>2. HiloSano
    BY <1>p, <1>f, <1>1, <2>1, HiloEmpieza DEF finalizarDesdeConsola, Busca, Reposo, PasosCierre
  <2> QED BY <1>f, <2>1, <2>2, ColasQuietas, RedQuieta DEF Sano
<1>2. ASSUME NEW t \in Procesos, finalizarDesdeKernel(t) PROVE Sano
  <2>1. Quietas /\ UNCHANGED <<cpu, aKernel>> /\ hilo["consola"].paso \notin PasosCierre
    BY <1>2 DEF finalizarDesdeKernel, EnPaso, PasosCierre, colas, libres, red
  <2>2. HiloSano
    BY <1>p, <1>f, <1>2, <2>1, HiloEmpieza DEF finalizarDesdeKernel, Busca, Reposo, PasosCierre
  <2> QED BY <1>f, <2>1, <2>2, ColasQuietas, RedQuieta DEF Sano
<1>3. ASSUME NEW n \in GradosPedidos, cambiarGradoMultiprogramacion(n) PROVE Sano
  <2>1. Quietas /\ UNCHANGED <<cpu, aKernel, hilo>>
    BY <1>3 DEF cambiarGradoMultiprogramacion, colas, libres, red
  <2> QED BY <1>f, <2>1, HiloQuieto, ColasQuietas, RedQuieta DEF Sano
<1>4. CASE detenerPlanificacion
  <2>1. Quietas /\ UNCHANGED <<cpu, aKernel, hilo>>
    BY <1>4 DEF detenerPlanificacion, colas, libres, red
  <2> QED BY <1>f, <2>1, HiloQuieto, ColasQuietas, RedQuieta DEF Sano
<1>5. CASE memoriaRechaza
  <2>1. Quietas /\ UNCHANGED <<cpu, aKernel>> /\ hilo["principal"].paso \notin PasosCierre
    BY <1>5 DEF memoriaRechaza, EnPaso, PasosCierre, libres, red
  <2>2. HiloSano
    BY <1>p, <1>f, <1>5, <2>1, HiloEmpieza DEF memoriaRechaza, Reposo, PasosCierre
  <2> QED BY <1>f, <2>1, <2>2, ColasQuietas, RedQuieta DEF Sano
<1>6. CASE responderArchivo
  <2>1. Quietas /\ UNCHANGED <<cpu, aKernel>> /\ hilo["principal"].paso \notin PasosCierre
        /\ VuelveASelect("principal")
    BY <1>6 DEF responderArchivo, EnPaso, PasosCierre, colas, libres
  <2> QED BY <1>p, <1>f, <2>1, HiloReposa, ColasQuietas, RedQuieta DEF Sano
<1>7. ASSUME NEW c \in CPUs, abrirArchivo(c) PROVE Sano
  <2> DEFINE C == [cpu[c] EXCEPT !.paso = "archivo"]
  <2>1. EsCPU(C) /\ C.yaEnvieCierre = cpu[c].yaEnvieCierre
    BY <1>f DEF EsCPU, FormaRed
  <2>2. /\ cpu' = [cpu EXCEPT ![c] = C] /\ cpu[c].paso = "ejecuta"
        /\ EnviaAlKernel(c, "ABRIR_ARCHIVO", cpu[c].pid)
    BY <1>7 DEF abrirArchivo, CPUEn
  <2>3. RedSana
    <3> HIDE DEF C
    <3> QED BY <1>f, <2>1, <2>2, RedEnvia DEF OpsCierre
  <2>4. Quietas /\ UNCHANGED hilo
    BY <1>7 DEF abrirArchivo, colas, libres
  <2> QED BY <1>f, <2>3, <2>4, HiloQuieto, ColasQuietas DEF Sano
<1>8. ASSUME NEW c \in CPUs, archivoFallido(c) PROVE Sano
  <2>1. Quietas /\ UNCHANGED cpu /\ Consume(c) /\ aKernel[c] # << >>
        /\ hilo["principal"].paso \notin PasosCierre
    BY <1>8 DEF archivoFallido, Llego, EnPaso, PasosCierre, colas, libres
  <2>2. HiloSano
    BY <1>p, <1>f, <1>8, <2>1, HiloEmpieza DEF archivoFallido, Busca, Reposo, PasosCierre
  <2> QED BY <1>f, <2>1, <2>2, ColasQuietas, RedConsume DEF Sano
<1>9. ASSUME NEW c \in CPUs, respuestaArchivo(c) PROVE Sano
  <2> DEFINE C == [cpu[c] EXCEPT !.paso = "sondeo", !.sale = TRUE]
  <2>1. EsCPU(C) /\ C.yaEnvieCierre = cpu[c].yaEnvieCierre
    BY <1>f DEF EsCPU, FormaRed
  <2>2. cpu' = [cpu EXCEPT ![c] = C] /\ cpu[c].paso = "archivo" /\ UNCHANGED <<aKernel, kernel>>
    BY <1>9 DEF respuestaArchivo, CPUEn
  <2>3. RedSana
    <3> HIDE DEF C
    <3> QED BY <1>f, <2>1, <2>2, RedCalla
  <2> QED BY <2>2, <2>3, KernelQuieto
<1>10. ASSUME NEW c \in CPUs, deserializarYFinalizar(c) PROVE Sano
  <2>1. PICK t : Devuelto(c, t)
    BY <1>10 DEF deserializarYFinalizar
  <2>2. aKernel[c] # << >> /\ hilo["principal"].paso \notin PasosCierre
    BY <1>10 DEF deserializarYFinalizar, Llego, EnPaso, PasosCierre
  <2>3. Quietas /\ UNCHANGED cpu /\ Consume(c)
    BY <2>1 DEF Devuelto, libres
  <2>4. HiloSano
    BY <1>p, <1>f, <2>1, <2>2, HiloEmpieza DEF Devuelto, Reposo, PasosCierre
  <2> QED BY <1>f, <2>2, <2>3, <2>4, ColasQuietas, RedConsume DEF Sano
<1>11. ASSUME NEW c \in CPUs, indiceFueraDeExec(c) PROVE Sano
  BY <1>11, CaeSano DEF indiceFueraDeExec
<1> QED BY <1>1, <1>2, <1>3, <1>4, <1>5, <1>6, <1>7, <1>8, <1>9, <1>10, <1>11

(* A process leaves ready and its unit stays. *)
LEMMA ColasSinPrimero ==
  ASSUME FormaColas, NEW S, cola_ready' = SinPrimero(cola_ready, S),
         UNCHANGED <<sem_ready, cola_CPU_libres, sem_cpu, planif>>
  PROVE  ColasSanas
<1>1. /\ Sec(cola_ready') /\ Len(cola_ready') <= Len(cola_ready)
      /\ Len(cola_ready) \in Nat /\ Len(cola_ready') \in Nat /\ sem_ready \in Nat
  BY SecSinPrimero, LargoNat DEF FormaColas
<1>2. FormaColas' /\ Unidades' = Unidades
  BY <1>1 DEF FormaColas, Unidades
<1>3. ReadyTieneSenal => ReadyTieneSenal'
  BY <1>1 DEF ReadyTieneSenal, TomoReady, Uno
<1> QED BY <1>2, <1>3 DEF ColasSanas

LEMMA BusquedaSana ==
  ASSUME InvSenales, NEW h \in Hilos,
         \/ buscarProcesoEnLasColas(h) \/ quitarDeNew(h)
         \/ quitarDeReady(h) \/ avisarCPU(h) \/ yaNoEstaEnExec(h)
         \/ finalizarPorArchivo(h) \/ verSiEstaBloqueado(h)
  PROVE  Sano
<1> DEFINE Quietas == UNCHANGED <<cola_ready, sem_ready, cola_CPU_libres, sem_cpu, planif>>
<1>f. FormaHilo /\ FormaColas /\ FormaRed
  BY DEF InvSenales
<1>1. CASE buscarProcesoEnLasColas(h)
  <2>1. Quietas /\ UNCHANGED <<cpu, aKernel>> /\ hilo[h].paso \notin PasosCierre
    BY <1>1 DEF buscarProcesoEnLasColas, Mira, EnPaso, PasosCierre, colas, libres, red
  <2>2. PICK p \in {"quitaNew", "buscaReady", "quitaReady", "buscaExec", "enExec", "buscaBlock"} :
           IrA(h, p)
    BY <1>1 DEF buscarProcesoEnLasColas, Mira
  <2>3. p \notin PasosCierre
    BY DEF PasosCierre
  <2> QED BY <1>f, <2>1, <2>2, <2>3, HiloIrA, ColasQuietas, RedQuieta DEF Sano
<1>2. CASE quitarDeNew(h)
  <2>1. Quietas /\ UNCHANGED <<cpu, aKernel>> /\ hilo[h].paso \notin PasosCierre
    BY <1>2 DEF quitarDeNew, EnPaso, PasosCierre, libres, red
  <2>2. Termina(h) \/ \E t : Finaliza(h, t)
    BY <1>2 DEF quitarDeNew
  <2> QED BY <1>f, <2>1, <2>2, HiloTermina, HiloFinaliza, ColasQuietas, RedQuieta DEF Sano
<1>3. CASE quitarDeReady(h)
  <2>1. /\ UNCHANGED <<sem_ready, cola_CPU_libres, sem_cpu, planif, cpu, aKernel>>
        /\ cola_ready' = SinPrimero(cola_ready, ConPid(hilo[h].proc))
        /\ hilo[h].paso \notin PasosCierre
    BY <1>3 DEF quitarDeReady, eliminarProcesoDeCola, EnPaso, PasosCierre, libres, red
  <2>2. Termina(h) \/ \E t : Finaliza(h, t)
    BY <1>3 DEF quitarDeReady
  <2> QED BY <1>f, <2>1, <2>2, HiloTermina, HiloFinaliza, ColasSinPrimero, RedQuieta DEF Sano
<1>4. CASE avisarCPU(h)
  <2>1. Quietas /\ UNCHANGED <<cpu, aKernel>> /\ hilo[h].paso \notin PasosCierre /\ Termina(h)
    BY <1>4 DEF avisarCPU, EnPaso, PasosCierre, colas, libres
  <2> QED BY <1>f, <2>1, HiloTermina, ColasQuietas, RedQuieta DEF Sano
<1>5. CASE yaNoEstaEnExec(h)
  BY <1>5, CaeSano DEF yaNoEstaEnExec
<1>6. CASE finalizarPorArchivo(h)
  <2>1. Quietas /\ UNCHANGED <<cpu, aKernel>> /\ hilo[h].paso \notin PasosCierre
    BY <1>6 DEF finalizarPorArchivo, EnPaso, PasosCierre, colas, libres, red
  <2>2. Termina(h) \/ \E t : Finaliza(h, t)
    BY <1>6 DEF finalizarPorArchivo
  <2> QED BY <1>f, <2>1, <2>2, HiloTermina, HiloFinaliza, ColasQuietas, RedQuieta DEF Sano
<1>7. CASE verSiEstaBloqueado(h)
  <2>1. Quietas /\ UNCHANGED <<cpu, aKernel>> /\ hilo[h].paso \notin PasosCierre
    BY <1>7 DEF verSiEstaBloqueado, EnPaso, PasosCierre, libres, red
  <2>2. Termina(h) \/ \E t : Finaliza(h, t)
    BY <1>7 DEF verSiEstaBloqueado
  <2> QED BY <1>f, <2>1, <2>2, HiloTermina, HiloFinaliza, ColasQuietas, RedQuieta DEF Sano
<1> QED BY <1>1, <1>2, <1>3, <1>4, <1>5, <1>6, <1>7

-----------------------------------------------------------------------------
(* CPUs with a signal, or that leave.                                      *)

LEMMA SenalesSanas ==
  ASSUME InvSenales, NEW c \in CPUs,
         \/ sig_handler(c) \/ sig_handler2(c)
         \/ leerSentenciaFallo(c) \/ recibirPCBAbortado(c)
  PROVE  Sano
<1>1. FormaHilo /\ FormaColas /\ FormaRed /\ EsCPU(cpu[c]) /\ Sec(aKernel[c])
  BY DEF InvSenales, FormaRed
<1>k. UNCHANGED <<cola_ready, sem_ready, cola_CPU_libres, sem_cpu, planif, hilo>>
  BY DEF sig_handler, sig_handler2, leerSentenciaFallo, recibirPCBAbortado, kernel, colas, libres
<1>2. ASSUME NEW s, Anota(c, s), cpu[c].paso # "cerrada" PROVE RedSana
  <2> DEFINE C == [cpu[c] EXCEPT !.senal = s]
  <2>1. EsCPU(C) /\ C.yaEnvieCierre = cpu[c].yaEnvieCierre
    BY <1>1 DEF EsCPU
  <2>2. cpu' = [cpu EXCEPT ![c] = C] /\ UNCHANGED aKernel
    BY <1>2 DEF Anota, red
  <2> HIDE DEF C
  <2> QED BY <1>1, <1>2, <2>1, <2>2, RedCalla
<1>3. ASSUME NEW s, Sale(c, s), UNCHANGED aKernel \/ \E op, d : EnviaAlKernel(c, op, d)
      PROVE  RedSana
  <2> DEFINE C == [cpu[c] EXCEPT !.paso = "cerrada", !.senal = s]
  <2>1. EsCPU(C) /\ C.paso = "cerrada"
    BY <1>1 DEF EsCPU
  <2>2. cpu' = [cpu EXCEPT ![c] = C]
    BY <1>3 DEF Sale
  <2> HIDE DEF C
  <2> QED BY <1>1, <1>3, <2>1, <2>2, RedCalla, RedEnvia
<1>4. CASE sig_handler(c)
  <2>1. cpu[c].paso # "cerrada"
    BY <1>4 DEF sig_handler, Viva
  <2>2. Anota(c, "cerrar") \/ (Sale(c, "ociosa") /\ UNCHANGED aKernel)
    BY <1>4 DEF sig_handler
  <2> QED BY <1>1, <1>2, <1>3, <1>k, <2>1, <2>2, HiloQuieto, ColasQuietas DEF Sano
<1>5. CASE sig_handler2(c)
  <2>1. cpu[c].paso # "cerrada"
    BY <1>5 DEF sig_handler2, Viva
  <2>2. \/ Anota(c, "abortar") \/ Anota(c, "cerrar")
        \/ Sale(c, "ociosa") /\ EnviaAlKernel(c, "DESCONEXION_CPU", Nulo)
    BY <1>5 DEF sig_handler2
  <2> QED BY <1>1, <1>2, <1>3, <1>k, <2>1, <2>2, HiloQuieto, ColasQuietas DEF Sano
<1>6. CASE leerSentenciaFallo(c)
  <2> DEFINE C == [cpu[c] EXCEPT !.paso = "sondeo", !.sale = TRUE, !.yaEnvieCierre = TRUE]
  <2>1. EsCPU(C) /\ C.yaEnvieCierre
    BY <1>1 DEF EsCPU
  <2>2. /\ cpu' = [cpu EXCEPT ![c] = C]
        /\ EnviaAlKernel(c, "PROGRAMA_ABORTADO_CPU", cpu[c].pid)
    BY <1>6 DEF leerSentenciaFallo
  <2>3. RedSana
    <3> HIDE DEF C
    <3> QED BY <1>1, <2>1, <2>2, RedEnvia
  <2> QED BY <1>1, <1>k, <2>3, HiloQuieto, ColasQuietas DEF Sano
<1>7. CASE recibirPCBAbortado(c)
  <2>1. PICK d, p : cpu' = [cpu EXCEPT ![c].paso = p, ![c].pid = d]
    BY <1>7 DEF recibirPCBAbortado
  <2> DEFINE C == [cpu[c] EXCEPT !.paso = p, !.pid = d]
  <2>2. EsCPU(C) /\ C.yaEnvieCierre = cpu[c].yaEnvieCierre
    BY <1>1 DEF EsCPU
  <2>3. cpu' = [cpu EXCEPT ![c] = C] /\ UNCHANGED aKernel /\ cpu[c].paso = "esperaPCB"
    BY <1>7, <2>1 DEF recibirPCBAbortado, CPUEn
  <2>4. RedSana
    <3> HIDE DEF C
    <3> QED BY <1>1, <2>2, <2>3, RedCalla
  <2> QED BY <1>1, <1>k, <2>4, HiloQuieto, ColasQuietas DEF Sano
<1> QED BY <1>4, <1>5, <1>6, <1>7

(* The instructions of a CPU to be closed: what an aborted one sends says  *)
(* that it leaves, and it has noted it. *)
LEMMA ConSenalSana ==
  ASSUME InvSenales, NEW c \in CPUs, ProcesoCPUConSenal(c)
  PROVE  Sano
<1>1. FormaRed /\ EsCPU(cpu[c]) /\ Sec(aKernel[c])
  BY DEF InvSenales, FormaRed
<1>k. UNCHANGED kernel
  BY DEF ProcesoCPUConSenal, instruccionConSenal, respuestaWaitConSenal, respuestaSignalConSenal,
     terminarConSenal, sondeoConSenal, cerrarCPU
<1>t. ASSUME NEW op, NEW d PROVE t_paquete(op, d).op = op
  BY DEF t_paquete
<1>2. ASSUME NEW b \in BOOLEAN, CerrarConSenal(c, b), cpu[c].paso # "cerrada" PROVE RedSana
  <2>a. PICK q : q = IF RoundRobin THEN cpu[c].quantum - 1 ELSE cpu[c].quantum
    OBVIOUS
  <2>b. PICK s : s = (b \/ q = 0 \/ Aborta(c))
    OBVIOUS
  <2>1. PICK p :
           /\ cpu' = [cpu EXCEPT ![c].paso = "sondeo", ![c].quantum = q, ![c].sem = Nulo,
                                 ![c].sale = s, ![c].yaEnvieCierre = @ \/ Aborta(c)]
           /\ aKernel' = [aKernel EXCEPT ![c] = @
                 \o (IF b THEN PorBloqueo(c) ELSE << >>)
                 \o (IF Aborta(c) THEN PorAborto(p) ELSE << >>)
                 \o (IF q = 0 /\ ~b /\ ~Aborta(c) THEN PorQuantum(c) ELSE << >>)]
    BY <1>2, <2>a, <2>b DEF CerrarConSenal
  <2> DEFINE C == [cpu[c] EXCEPT !.paso = "sondeo", !.quantum = q, !.sem = Nulo,
                                 !.sale = s, !.yaEnvieCierre = cpu[c].yaEnvieCierre \/ Aborta(c)]
  <2>2. /\ EsCPU(C) /\ C.yaEnvieCierre = (cpu[c].yaEnvieCierre \/ Aborta(c))
        /\ cpu' = [cpu EXCEPT ![c] = C]
    BY <1>1, <2>1 DEF EsCPU
  <2>3. PICK m : m = IF b THEN PorBloqueo(c) ELSE << >>
    OBVIOUS
  <2>4. PICK o : o = IF Aborta(c) THEN PorAborto(p) ELSE << >>
    OBVIOUS
  <2>5. PICK n : n = IF q = 0 /\ ~b /\ ~Aborta(c) THEN PorQuantum(c) ELSE << >>
    OBVIOUS
  <2>6. Sec(<< >>) /\ SinAviso(<< >>)
    BY SecVacia DEF SinAviso
  <2>7. Sec(AvisoCierre) /\ SinAviso(AvisoCierre)
    BY <1>t, SecUno DEF AvisoCierre, OpsCierre
  <2>8. Sec(m) /\ SinAviso(m)
    BY <1>t, <2>3, <2>6, <2>7, SecAppend DEF PorBloqueo, OpsCierre
  <2>9. Sec(o) /\ (~Aborta(c) => SinAviso(o))
    BY <2>4, <2>6, SecUno DEF PorAborto
  <2>10. Sec(n) /\ SinAviso(n)
    BY <1>t, <2>5, <2>6, <2>7, SecAppend DEF PorQuantum, OpsCierre
  <2>11. PICK r : r = ((aKernel[c] \o m) \o o) \o n
    OBVIOUS
  <2>12. Sec(r) /\ (SinAviso(aKernel[c]) /\ ~Aborta(c) => SinAviso(r))
    BY <1>1, <2>8, <2>9, <2>10, <2>11, SecConcat
  <2>13. aKernel' = [aKernel EXCEPT ![c] = r]
    BY <2>1, <2>3, <2>4, <2>5, <2>11
  <2> HIDE DEF C
  <2>14. C.paso # "cerrada" /\ ~C.yaEnvieCierre =>
           /\ cpu[c].paso # "cerrada" /\ ~cpu[c].yaEnvieCierre
           /\ SinAviso(aKernel[c]) => SinAviso(r)
    BY <1>2, <2>2, <2>12
  <2> QED BY <1>1, <2>2, <2>12, <2>13, <2>14, RedCPU
<1>3. ASSUME instruccionConSenal(c) PROVE RedSana
  BY <1>2, <1>3 DEF instruccionConSenal, CPUEn
<1>4. ASSUME respuestaWaitConSenal(c) PROVE RedSana
  <2>1. CerrarConSenal(c, ~EsCero(Head(aCPU[c]))) /\ cpu[c].paso = "wait"
    BY <1>4 DEF respuestaWaitConSenal, CPUEn
  <2>2. (~EsCero(Head(aCPU[c]))) \in BOOLEAN
    OBVIOUS
  <2> QED BY <1>2, <2>1, <2>2
<1>5. ASSUME respuestaSignalConSenal(c) PROVE RedSana
  BY <1>2, <1>5 DEF respuestaSignalConSenal, CPUEn
<1>6. ASSUME terminarConSenal(c) PROVE RedSana
  <2>a. PICK op \in OpsFin :
           LET avisa == Aborta(c) /\ op # "ABORTADO_STACKOVERFLOW" IN
           /\ aKernel' = [aKernel EXCEPT ![c] = Append(@, t_paquete(op, cpu[c].pid))
                             \o (IF avisa THEN PorAborto(cpu[c].pid) ELSE << >>)]
           /\ cpu' = [cpu EXCEPT ![c].paso = "sondeo", ![c].sale = TRUE,
                                 ![c].yaEnvieCierre = @ \/ avisa]
    BY <1>6 DEF terminarConSenal
  <2>b. PICK avisa \in BOOLEAN : avisa = (Aborta(c) /\ op # "ABORTADO_STACKOVERFLOW")
    OBVIOUS
  <2>1. /\ aKernel' = [aKernel EXCEPT ![c] = Append(@, t_paquete(op, cpu[c].pid))
                             \o (IF avisa THEN PorAborto(cpu[c].pid) ELSE << >>)]
        /\ cpu' = [cpu EXCEPT ![c].paso = "sondeo", ![c].sale = TRUE,
                              ![c].yaEnvieCierre = @ \/ avisa]
    BY <2>a, <2>b
  <2> DEFINE C == [cpu[c] EXCEPT !.paso = "sondeo", !.sale = TRUE,
                                 !.yaEnvieCierre = cpu[c].yaEnvieCierre \/ avisa]
  <2>2. /\ EsCPU(C) /\ C.yaEnvieCierre = (cpu[c].yaEnvieCierre \/ avisa)
        /\ cpu' = [cpu EXCEPT ![c] = C] /\ cpu[c].paso = "ejecuta"
    <3>1. EsCPU(C) /\ C.yaEnvieCierre = (cpu[c].yaEnvieCierre \/ avisa)
      BY <1>1 DEF EsCPU
    <3>2. cpu' = [cpu EXCEPT ![c] = C]
      BY <2>1
    <3>3. cpu[c].paso = "ejecuta"
      BY <1>6 DEF terminarConSenal, CPUEn
    <3> HIDE DEF C
    <3> QED BY <3>1, <3>2, <3>3
  <2>3. PICK m : m = Append(aKernel[c], t_paquete(op, cpu[c].pid))
    OBVIOUS
  <2>4. PICK o : o = IF avisa THEN PorAborto(cpu[c].pid) ELSE << >>
    OBVIOUS
  <2>5. PICK r : r = m \o o
    OBVIOUS
  <2>6. Sec(m) /\ (SinAviso(aKernel[c]) => SinAviso(m))
    BY <1>1, <1>t, <2>3, SecAppend DEF OpsFin, OpsCierre
  <2>7. Sec(o) /\ (~avisa => SinAviso(o))
    BY <2>4, SecUno, SecVacia DEF PorAborto, SinAviso
  <2>8. Sec(r) /\ (SinAviso(aKernel[c]) /\ ~avisa => SinAviso(r))
    BY <2>5, <2>6, <2>7, SecConcat
  <2>9. aKernel' = [aKernel EXCEPT ![c] = r]
    BY <2>1, <2>3, <2>4, <2>5
  <2> HIDE DEF C
  <2>10. C.paso # "cerrada" /\ ~C.yaEnvieCierre =>
           /\ cpu[c].paso # "cerrada" /\ ~cpu[c].yaEnvieCierre
           /\ SinAviso(aKernel[c]) => SinAviso(r)
    BY <2>2, <2>8
  <2> QED BY <1>1, <2>2, <2>8, <2>9, <2>10, RedCPU
<1>7. ASSUME sondeoConSenal(c) PROVE RedSana
  <2>1. PICK p \in {"cierre", "ejecuta"} : cpu' = [cpu EXCEPT ![c].paso = p]
    BY <1>7 DEF sondeoConSenal
  <2> DEFINE C == [cpu[c] EXCEPT !.paso = p]
  <2>2. EsCPU(C) /\ C.yaEnvieCierre = cpu[c].yaEnvieCierre
    BY <1>1 DEF EsCPU
  <2>3. cpu' = [cpu EXCEPT ![c] = C] /\ cpu[c].paso = "sondeo"
    BY <1>7, <2>1 DEF sondeoConSenal, CPUEn
  <2>4. UNCHANGED aKernel \/ \E op \in OpsAborto : \E d : EnviaAlKernel(c, op, d)
    BY <1>7 DEF sondeoConSenal
  <2>5. OpsAborto \cap OpsCierre = {}
    BY DEF OpsAborto, OpsCierre
  <2> HIDE DEF C
  <2> QED BY <1>1, <2>2, <2>3, <2>4, <2>5, RedCalla, RedEnvia
<1>8. ASSUME cerrarCPU(c) PROVE RedSana
  <2> DEFINE C == [cpu[c] EXCEPT !.paso = "cerrada", !.senal = cpu[c].senal]
  <2>1. EsCPU(C) /\ C.paso = "cerrada"
    BY <1>1 DEF EsCPU
  <2>2. cpu' = [cpu EXCEPT ![c] = C]
    BY <1>8 DEF cerrarCPU, Sale
  <2>3. UNCHANGED aKernel \/ \E op, d : EnviaAlKernel(c, op, d)
    BY <1>8 DEF cerrarCPU
  <2> HIDE DEF C
  <2> QED BY <1>1, <2>1, <2>2, <2>3, RedCalla, RedEnvia
<1>9. RedSana
  BY <1>3, <1>4, <1>5, <1>6, <1>7, <1>8 DEF ProcesoCPUConSenal
<1> QED BY <1>k, <1>9, KernelQuieto

-----------------------------------------------------------------------------
(* The Kernel when a CPU leaves.                                           *)

(* Once a CPU has left, a unit may be missing, and one is promised too     *)
(* many only while the element is out and its unit is not. *)
LEMMA PasoCierre ==
  ASSUME FormaHilo', FormaColas', FormaRed', ReadyTieneSenal', ~NingunaSeFue',
         (Unidades <= Len(cola_CPU_libres) + Uno(hilo["principal"].paso = "quitaCPU"))'
  PROVE  InvSenales'
BY DEF InvSenales, SenalesAlDia

LEMMA FormaHiloSigue ==
  ASSUME FormaHilo, NEW H, EsHilo(H), Sigue("principal", H)
  PROVE  FormaHilo' /\ hilo'["principal"] = H
<1>1. "principal" \in Hilos /\ DOMAIN hilo = Hilos
  BY DEF Hilos, FormaHilo
<1> QED BY <1>1 DEF FormaHilo, Sigue

(* A packet says that a CPU left. *)
LEMMA AvisoDeCierre ==
  ASSUME InvSenales, NEW c \in CPUs, Llego(c, OpsCierre), UNCHANGED cpu
  PROVE  ~NingunaSeFue'
<1>1. Sec(aKernel[c]) /\ aKernel[c] # << >> /\ Head(aKernel[c]).op \in OpsCierre
  BY DEF InvSenales, FormaRed, Llego
<1>2. ~SinAviso(aKernel[c])
  BY <1>1, SecTail
<1> QED BY <1>2 DEF InvSenales, SinAvisos, NingunaSeFue

(* The main thread is looking for a CPU that left. *)
LEMMA LaBusca ==
  ASSUME InvSenales, hilo["principal"].paso \in PasosCierre, UNCHANGED cpu
  PROVE  ~NingunaSeFue'
BY DEF InvSenales, NadieLaBusca, NingunaSeFue

(* It begins to look. *)
LEMMA EmpiezaABuscar ==
  ASSUME InvSenales, NEW c \in CPUs, Llego(c, OpsCierre), Consume(c), UNCHANGED cpu,
         NEW H, EsHilo(H), H.paso = "sacaCPU", Sigue("principal", H),
         UNCHANGED <<cola_ready, sem_ready, cola_CPU_libres, sem_cpu, planif>>
  PROVE  InvSenales'
<1>1. aKernel[c] # << >> /\ hilo["principal"].paso = "select"
  BY DEF Llego, EnPaso
<1>2. FormaRed'
  BY <1>1, RedConsume DEF RedSana, InvSenales
<1>3. FormaColas' /\ ReadyTieneSenal'
  BY DEF InvSenales, FormaColas, SenalesAlDia, ReadyTieneSenal, TomoReady
<1>4. FormaHilo' /\ hilo'["principal"].paso = "sacaCPU"
  BY FormaHiloSigue DEF InvSenales
<1>5. Unidades' = Unidades /\ cola_CPU_libres' = cola_CPU_libres
  BY DEF Unidades
<1>6. (Unidades <= Len(cola_CPU_libres) + Uno(hilo["principal"].paso = "quitaCPU"))'
  BY <1>1, <1>4, <1>5 DEF InvSenales, SenalesAlDia, Uno
<1> QED BY <1>2, <1>3, <1>4, <1>6, AvisoDeCierre, PasoCierre

LEMMA CierreSano ==
  ASSUME InvSenales, CierreEnElKernel
  PROVE  InvSenales'
<1> DEFINE H == hilo["principal"]
<1>f. FormaHilo /\ FormaColas /\ FormaRed /\ EsHilo(H) /\ ReadyTieneSenal
      /\ Unidades <= Len(cola_CPU_libres) + Uno(H.paso = "quitaCPU")
  BY DEF InvSenales, FormaHilo, Hilos, SenalesAlDia
<1>n. /\ Len(cola_CPU_libres) \in Nat /\ sem_cpu \in Nat
      /\ DOMAIN cola_CPU_libres = 1 .. Len(cola_CPU_libres)
  BY <1>f, LargoNat DEF FormaColas
<1>1. CASE sacarCPUDeListas
  <2>1. /\ H.paso = "sacaCPU" /\ H.a \in DOMAIN cola_CPU_libres
        /\ UNCHANGED <<cola_ready, sem_ready, sem_cpu, planif, cpu, aKernel>>
    BY <1>1 DEF sacarCPUDeListas, EnPaso, colas, red
  <2>2. ~NingunaSeFue' /\ FormaRed' /\ ReadyTieneSenal' /\ Unidades' = Unidades
    BY <1>f, <2>1, LaBusca DEF PasosCierre, FormaRed, ReadyTieneSenal, TomoReady, Unidades
  <2>3. \/ /\ cola_CPU_libres' = RemoveAt(cola_CPU_libres, H.a)
           /\ Sigue("principal", [H EXCEPT !.a = @ + 1, !.paso = "quitaCPU"])
        \/ /\ cola_CPU_libres' = cola_CPU_libres
           /\ Sigue("principal", [H EXCEPT !.a = @ + 1, !.paso = @])
    BY <1>1 DEF sacarCPUDeListas
  <2>4. CASE /\ cola_CPU_libres' = RemoveAt(cola_CPU_libres, H.a)
             /\ Sigue("principal", [H EXCEPT !.a = @ + 1, !.paso = "quitaCPU"])
    <3>1. Sec(cola_CPU_libres') /\ Len(cola_CPU_libres') = Len(cola_CPU_libres) - 1
      BY <1>f, <2>1, <2>4, SecRemoveAt DEF FormaColas
    <3>2. EsHilo([H EXCEPT !.a = @ + 1, !.paso = "quitaCPU"])
      BY <1>f DEF EsHilo
    <3>3. FormaHilo' /\ hilo'["principal"] = [H EXCEPT !.a = @ + 1, !.paso = "quitaCPU"]
      BY <1>f, <2>4, <3>2, FormaHiloSigue
    <3>4. hilo'["principal"].paso = "quitaCPU"
      BY <1>f, <3>3 DEF EsHilo
    <3>5. FormaColas'
      BY <1>f, <2>1, <3>1 DEF FormaColas
    <3>6. Unidades <= Len(cola_CPU_libres)
      BY <1>f, <1>n, <2>1 DEF Uno
    <3>7. Unidades <= (Len(cola_CPU_libres) - 1) + 1
      BY <1>n, <3>6
    <3>8. (Unidades <= Len(cola_CPU_libres) + Uno(hilo["principal"].paso = "quitaCPU"))'
      BY <2>2, <3>1, <3>4, <3>7 DEF Uno
    <3> QED BY <2>2, <3>3, <3>5, <3>8, PasoCierre
  <2>5. CASE /\ cola_CPU_libres' = cola_CPU_libres
             /\ Sigue("principal", [H EXCEPT !.a = @ + 1, !.paso = @])
    <3>1. EsHilo([H EXCEPT !.a = @ + 1, !.paso = @])
      BY <1>f DEF EsHilo
    <3>2. FormaHilo' /\ hilo'["principal"] = [H EXCEPT !.a = @ + 1, !.paso = @]
      BY <1>f, <2>5, <3>1, FormaHiloSigue
    <3>3. hilo'["principal"].paso = "sacaCPU"
      BY <1>f, <2>1, <3>2 DEF EsHilo
    <3>4. FormaColas'
      BY <1>f, <2>1, <2>5 DEF FormaColas
    <3>5. (Unidades <= Len(cola_CPU_libres) + Uno(hilo["principal"].paso = "quitaCPU"))'
      BY <1>f, <2>1, <2>2, <2>5, <3>3 DEF Uno
    <3> QED BY <2>2, <3>2, <3>4, <3>5, PasoCierre
  <2> QED BY <2>3, <2>4, <2>5
<1>2. CASE descontarCPU
  <2>1. /\ H.paso = "quitaCPU" /\ sem_cpu > 0 /\ sem_cpu' = sem_cpu - 1
        /\ IrA("principal", "sacaCPU")
        /\ UNCHANGED <<cola_ready, sem_ready, cola_CPU_libres, planif, cpu, aKernel>>
    BY <1>2 DEF descontarCPU, EnPaso, colas, red
  <2>2. ~NingunaSeFue' /\ FormaRed' /\ ReadyTieneSenal'
    BY <1>f, <2>1, LaBusca DEF PasosCierre, FormaRed, ReadyTieneSenal, TomoReady
  <2>3. FormaColas'
    BY <1>f, <1>n, <2>1 DEF FormaColas
  <2>4. EsHilo([H EXCEPT !.paso = "sacaCPU"]) /\ Sigue("principal", [H EXCEPT !.paso = "sacaCPU"])
    BY <1>f, <2>1 DEF EsHilo, IrA, Sigue
  <2>5. FormaHilo' /\ hilo'["principal"] = [H EXCEPT !.paso = "sacaCPU"]
    BY <1>f, <2>4, FormaHiloSigue
  <2>6. hilo'["principal"].paso = "sacaCPU"
    BY <1>f, <2>5 DEF EsHilo
  <2>7. PICK u \in {0, 1} : /\ Uno(planif.paso = "popCPU") = u
                          /\ Uno(planif.paso = "popCPU")' = u
    BY <2>1 DEF Uno
  <2>8. Unidades = sem_cpu + u /\ Unidades' = (sem_cpu - 1) + u
    BY <2>1, <2>7 DEF Unidades
  <2>9. sem_cpu + u <= Len(cola_CPU_libres) + 1
    BY <1>f, <2>1, <2>8 DEF Uno
  <2>10. (sem_cpu - 1) + u <= Len(cola_CPU_libres) + 0
    BY <1>n, <2>9
  <2>11. (Unidades <= Len(cola_CPU_libres) + Uno(hilo["principal"].paso = "quitaCPU"))'
    BY <2>1, <2>6, <2>8, <2>10 DEF Uno
  <2> QED BY <2>2, <2>3, <2>5, <2>11, PasoCierre
<1>3. CASE listaRecorrida
  <2>1. /\ H.paso = "sacaCPU"
        /\ UNCHANGED <<cola_ready, sem_ready, cola_CPU_libres, sem_cpu, planif, cpu, aKernel>>
        /\ \/ Sigue("principal", Reposo)
           \/ Sigue("principal", [H EXCEPT !.paso = "listo", !.a = 0])
    BY <1>3 DEF listaRecorrida, EnPaso, colas, libres, red, VuelveASelect
  <2>2. /\ ~NingunaSeFue' /\ FormaRed' /\ ReadyTieneSenal' /\ FormaColas'
        /\ Unidades' = Unidades
    BY <1>f, <2>1, LaBusca DEF PasosCierre, FormaRed, FormaColas, ReadyTieneSenal, TomoReady, Unidades
  <2>3. PICK G : EsHilo(G) /\ G.paso \in {"select", "listo"} /\ Sigue("principal", G)
    BY <1>f, <2>1 DEF EsHilo, Reposo
  <2>4. FormaHilo' /\ hilo'["principal"] = G
    BY <1>f, <2>3, FormaHiloSigue
  <2>5. (Unidades <= Len(cola_CPU_libres) + Uno(hilo["principal"].paso = "quitaCPU"))'
    BY <1>f, <2>1, <2>2, <2>3, <2>4 DEF Uno
  <2> QED BY <2>2, <2>4, <2>5, PasoCierre
<1>4. ASSUME NEW c \in CPUs, cpuCerrada(c) PROVE InvSenales'
  <2>1. PICK t : Sigue("principal", [Reposo EXCEPT !.paso = "sacaCPU", !.proc = t,
                                                  !.cpu = c, !.a = 1])
    BY <1>4 DEF cpuCerrada
  <2>2. PICK G : G = [Reposo EXCEPT !.paso = "sacaCPU", !.proc = t, !.cpu = c, !.a = 1]
    OBVIOUS
  <2>3. EsHilo(G) /\ G.paso = "sacaCPU" /\ Sigue("principal", G)
    BY <2>1, <2>2 DEF EsHilo, Reposo
  <2>4. /\ Llego(c, OpsCierre) /\ Consume(c)
        /\ UNCHANGED <<cpu, cola_ready, sem_ready, cola_CPU_libres, sem_cpu, planif>>
    BY <1>4 DEF cpuCerrada, Llego, OpsCierre, libres
  <2> QED BY <2>3, <2>4, EmpiezaABuscar
<1>5. ASSUME NEW c \in CPUs, desconexionCPU(c) PROVE InvSenales'
  <2>1. PICK G : G = [Reposo EXCEPT !.paso = "sacaCPU", !.cpu = c, !.a = 1]
    OBVIOUS
  <2>2. EsHilo(G) /\ G.paso = "sacaCPU" /\ Sigue("principal", G)
    BY <1>5, <2>1 DEF EsHilo, Reposo, desconexionCPU
  <2>3. /\ Llego(c, OpsCierre) /\ Consume(c)
        /\ UNCHANGED <<cpu, cola_ready, sem_ready, cola_CPU_libres, sem_cpu, planif>>
    BY <1>5 DEF desconexionCPU, Llego, OpsCierre, colas, libres
  <2> QED BY <2>2, <2>3, EmpiezaABuscar
<1>6. ASSUME NEW c \in CPUs, cpuCerradaSinProceso(c) \/ enviarACerrada(c) PROVE InvSenales'
  BY <1>6, CaeSano, PasoSano DEF cpuCerradaSinProceso, enviarACerrada, Sano
<1>7. ASSUME NEW c \in CPUs, avisoSinCaso(c) PROVE InvSenales'
  <2>1. UNCHANGED <<cpu, kernel>> /\ Consume(c) /\ aKernel[c] # << >>
    BY <1>7 DEF avisoSinCaso, Llego
  <2> QED BY <1>f, <2>1, RedConsume, KernelQuieto, PasoSano DEF Sano
<1> QED BY <1>1, <1>2, <1>3, <1>4, <1>5, <1>6, <1>7 DEF CierreEnElKernel

LEMMA SenalesInicio ==
  ASSUME Init
  PROVE  InvSenales
<1>1. FormaHilo
  BY DEF Init, FormaHilo, EsHilo, Reposo
<1>2. FormaColas
  BY SecVacia DEF Init, FormaColas, PlanifReposo
<1>3. FormaRed
  BY SecVacia DEF Init, FormaRed, EsCPU
<1>4. Unidades = 0 /\ Len(cola_CPU_libres) = 0 /\ Len(cola_ready) = 0 /\ sem_ready = 0
  BY SecVacia DEF Init, Unidades, PlanifReposo, Uno
<1>5. hilo["principal"].paso = "select" /\ planif.paso = "sem_ready"
  BY DEF Init, Hilos, Reposo, PlanifReposo
<1>6. SenalesAlDia
  BY <1>4, <1>5 DEF SenalesAlDia, ReadyTieneSenal, TomoReady, Uno
<1>7. SinAvisos /\ NadieLaBusca
  BY <1>5, SecVacia DEF Init, SinAvisos, SinAviso, NadieLaBusca, PasosCierre
<1> QED BY <1>1, <1>2, <1>3, <1>6, <1>7 DEF InvSenales

LEMMA SenalesPaso ==
  ASSUME InvSenales, [NextC]_vars
  PROVE  InvSenales'
<1>1. CASE UNCHANGED vars
  <2>1. UNCHANGED <<kernel, cpu, aKernel>>
    BY <1>1 DEF vars, red
  <2> QED BY <2>1, RedQuieta, KernelQuieto, PasoSano DEF Sano, InvSenales
<1>2. CASE CierreEnElKernel
  BY <1>2, CierreSano
<1>3. ASSUME NextF PROVE Sano
  <2>1. CASE Next
    <3>1. "principal" \in Hilos
      BY DEF Hilos
    <3> QED BY <2>1, <3>1, PrincipalSano, CompartidoSano, PlanificadorSano, CPUSano DEF Next
  <2>2. CASE PasoCompartido("consola")
    BY <2>2, CompartidoSano DEF Hilos
  <2>3. CASE \E h \in Hilos : \/ buscarProcesoEnLasColas(h) \/ quitarDeNew(h)
                              \/ quitarDeReady(h) \/ avisarCPU(h) \/ yaNoEstaEnExec(h)
                              \/ finalizarPorArchivo(h) \/ verSiEstaBloqueado(h)
    BY <2>3, BusquedaSana
  <2> QED BY <1>3, <2>1, <2>2, <2>3, OrdenesSanas DEF NextF
<1>4. ASSUME NEW c \in CPUs, \/ sig_handler(c) \/ sig_handler2(c)
                             \/ leerSentenciaFallo(c) \/ recibirPCBAbortado(c)
                             \/ ProcesoCPUConSenal(c)
      PROVE  Sano
  BY <1>4, SenalesSanas, ConSenalSana
<1> QED BY <1>1, <1>2, <1>3, <1>4, PasoSano DEF NextC, Sano

(* Whatever program is ended from outside and whatever CPU leaves, in      *)
(* whatever order: a process in ready has its unit in sem_ready, sem_cpu   *)
(* never promises the planner more CPUs than the free list holds, and      *)
(* until a CPU leaves it promises exactly those (Kernel.c:2550, 2584).     *)
THEOREM SenalesSiempre == SpecC => []SenalesAlDia
<1>1. Init => InvSenales
  BY SenalesInicio
<1>2. InvSenales /\ [NextC]_vars => InvSenales'
  BY SenalesPaso
<1>3. InvSenales => SenalesAlDia
  BY DEF InvSenales
<1> QED BY <1>1, <1>2, <1>3, PTL DEF SpecC
=============================================================================
