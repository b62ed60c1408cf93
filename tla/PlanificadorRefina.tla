------------------------- MODULE PlanificadorRefina -------------------------
(***************************************************************************)
(* Planificador implements CicloDeVida.  A process changes state when it   *)
(* reaches the queue of the new one: while a handler carries it, it is     *)
(* still where it came from.                                               *)
(***************************************************************************)
EXTENDS Planificador

EnMano == {t \in Procesos : EnManoDe("principal", t)}

nuevosDe == ToSet(cola_new) \cup {t \in EnMano : socketCPU[t] = Nulo}
ejecutanDe ==
    ToSet(cola_exec) \cup {t \in EnMano : socketCPU[t] # Nulo}
      \cup {t \in Procesos : planif.paso = "exec" /\ planif.proc = t}

CV == INSTANCE CicloDeVida WITH
        Unidades <- SEM_INIT, grado <- grado_multiprog,
        nuevos <- nuevosDe, listos <- cola_ready, ejecutan <- ejecutanDe,
        esperan <- cola_semaforos, terminados <- ToSet(cola_exit),
        unidades <- valor_semaforos

(* Every step of the threads and CPUs is a step of the abstract life cycle *)
(* or none: processes are dispatched in the order they became ready, never *)
(* more than there are CPUs, blocked only on a semaphore without units and *)
(* woken in the order they blocked.                                        *)
ImplementaCicloDeVida == CV!Spec
=============================================================================
