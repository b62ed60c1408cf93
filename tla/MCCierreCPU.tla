---------------------------- MODULE MCCierreCPU ----------------------------
(* Instances of CierreCPU for TLC. *)
EXTENDS CierreCPU

CONSTANTS p1, p2, p3, c1, c2, m, b

UnSemaforo == {m}
InitUno == [s \in UnSemaforo |-> 1]
OrdenUno == [s \in UnSemaforo |-> 1]
Simetria == Permutations(Procesos) \cup Permutations(CPUs)
=============================================================================
