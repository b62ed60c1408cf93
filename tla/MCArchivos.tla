----------------------------- MODULE MCArchivos -----------------------------
(* Instances of Archivos for TLC.                                          *)
EXTENDS Archivos, TLC

CONSTANTS p1, p2, a1, a2

Banderas == {{"c", "w"}, {"r"}}

SinIniciar == {0, -1}

Simetria == Permutations(Procesos) \cup Permutations(Nombres)
=============================================================================
