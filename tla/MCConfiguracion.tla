-------------------------- MODULE MCConfiguracion --------------------------
(* Instances of Configuracion for TLC. *)
EXTENDS Configuracion

CONSTANTS p1, p2, p3, m, b, x

UnLock == [ids |-> <<m>>, inits |-> <<1>>, vars |-> {x}]
ConOtro == [ids |-> <<b, m>>, inits |-> <<1, 1>>, vars |-> {x}]
UnoYDos == {UnLock, ConOtro}
=============================================================================
