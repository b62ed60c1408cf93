---------------------------- MODULE CicloDeVida ----------------------------
(***************************************************************************)
(* What the Kernel promises of the processes, with no threads, sockets or  *)
(* PCBs: the five states, a ready queue served in order, at most one       *)
(* process per CPU, a bounded number of them admitted, and counting        *)
(* semaphores that hand a unit to whoever has waited longest.              *)
(***************************************************************************)
EXTENDS Naturals, FiniteSets, Sequences, SequencesExt

CONSTANTS Procesos, CPUs, Semaforos, Unidades

VARIABLES
    nuevos, listos, ejecutan, esperan, terminados, unidades,
    grado        \* the bound in force: the operator owns it, no action sets it

vars == <<nuevos, listos, ejecutan, esperan, terminados, unidades>>

EnEspera == UNION {ToSet(esperan[s]) : s \in Semaforos}
Activos == ToSet(listos) \cup ejecutan \cup EnEspera

Init ==
    /\ nuevos = {} /\ ejecutan = {} /\ terminados = {} /\ listos = <<>>
    /\ esperan = [s \in Semaforos |-> <<>>] /\ unidades = Unidades

Crear(t) ==
    /\ t \notin nuevos \cup Activos \cup terminados
    /\ nuevos' = nuevos \cup {t}
    /\ UNCHANGED <<listos, ejecutan, esperan, terminados, unidades>>

Rechazar(t) ==
    /\ t \in nuevos
    /\ nuevos' = nuevos \ {t} /\ terminados' = terminados \cup {t}
    /\ UNCHANGED <<listos, ejecutan, esperan, unidades>>

Admitir(t) ==
    /\ t \in nuevos /\ Cardinality(Activos) < grado
    /\ nuevos' = nuevos \ {t} /\ listos' = Append(listos, t)
    /\ UNCHANGED <<ejecutan, esperan, terminados, unidades>>

Despachar ==
    /\ listos # <<>> /\ Cardinality(ejecutan) < Cardinality(CPUs)
    /\ listos' = Tail(listos) /\ ejecutan' = ejecutan \cup {Head(listos)}
    /\ UNCHANGED <<nuevos, esperan, terminados, unidades>>

Desalojar(t) ==
    /\ t \in ejecutan
    /\ ejecutan' = ejecutan \ {t} /\ listos' = Append(listos, t)
    /\ UNCHANGED <<nuevos, esperan, terminados, unidades>>

Tomar(s) ==
    /\ ejecutan # {} /\ unidades[s] > 0
    /\ unidades' = [unidades EXCEPT ![s] = @ - 1]
    /\ UNCHANGED <<nuevos, listos, ejecutan, esperan, terminados>>

Bloquear(t, s) ==
    /\ t \in ejecutan /\ unidades[s] = 0
    /\ ejecutan' = ejecutan \ {t}
    /\ esperan' = [esperan EXCEPT ![s] = Append(@, t)]
    /\ UNCHANGED <<nuevos, listos, terminados, unidades>>

Soltar(s) ==
    /\ ejecutan # {}
    /\ IF esperan[s] = <<>>
       THEN /\ unidades' = [unidades EXCEPT ![s] = @ + 1]
            /\ UNCHANGED <<listos, esperan>>
       ELSE /\ listos' = Append(listos, Head(esperan[s]))
            /\ esperan' = [esperan EXCEPT ![s] = Tail(@)]
            /\ UNCHANGED unidades
    /\ UNCHANGED <<nuevos, ejecutan, terminados>>

Terminar(t) ==
    /\ t \in ejecutan
    /\ ejecutan' = ejecutan \ {t} /\ terminados' = terminados \cup {t}
    /\ UNCHANGED <<nuevos, listos, esperan, unidades>>

Next ==
    \/ \E t \in Procesos :
          \/ Crear(t) \/ Rechazar(t) \/ Admitir(t) \/ Desalojar(t) \/ Terminar(t)
          \/ \E s \in Semaforos : Bloquear(t, s)
    \/ Despachar
    \/ \E s \in Semaforos : Tomar(s) \/ Soltar(s)

Spec == Init /\ [][Next]_vars
=============================================================================
