--------------------------- MODULE MCPlanificador ---------------------------
(* Instances of Planificador for TLC. *)
EXTENDS PlanificadorRefina

CONSTANTS p1, p2, p3, c1, c2, m, b

UnSemaforo == {m}
InitUno == [s \in UnSemaforo |-> 1]
OrdenUno == [s \in UnSemaforo |-> 1]
DosSemaforos == {m, b}
InitDos == [s \in DosSemaforos |-> IF s = m THEN 1 ELSE 0]
OrdenDos == [s \in DosSemaforos |-> IF s = m THEN 1 ELSE 2]
Simetria == Permutations(Procesos) \cup Permutations(CPUs)
=============================================================================
