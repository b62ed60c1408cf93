------------------------------- MODULE MCPila -------------------------------
(* Instances of Pila for TLC. *)
EXTENDS Pila, TLC

CONSTANTS c1, c2, a, b, v0, v1

Simetria == Permutations(CPUs) \cup Permutations(Etiquetas) \cup Permutations(Valores)
=============================================================================
