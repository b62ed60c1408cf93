----------------------------- MODULE MCMemoria -----------------------------
(* Instances of Memoria for TLC.                                           *)
EXTENDS Memoria, TLC

CONSTANTS c1, c2

ChicaConOperador == [entradas |-> 1, operador |-> TRUE]
Chica == {[entradas |-> 1, operador |-> FALSE]}
AmpliaConOperador == [entradas |-> 2, operador |-> TRUE]
Todas == {ChicaConOperador, AmpliaConOperador, [entradas |-> 2, operador |-> FALSE]}
=============================================================================
