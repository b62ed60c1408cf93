------------------------------- MODULE MCHeap -------------------------------
(* Instances of Heap for TLC.                                              *)
EXTENDS Heap, TLC

CONSTANTS p1, p2

SimetriaProcesos == Permutations(Procesos)
=============================================================================
