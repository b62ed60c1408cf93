------------------------------- MODULE Colas -------------------------------
(***************************************************************************)
(* The queue operations the Kernel builds on its t_queue / t_list: search  *)
(* a queue by position and take one element out of the middle.  Every      *)
(* lookup of the Kernel scans from the head and stops at the first match.  *)
(***************************************************************************)
EXTENDS SequencesExt

(* The positions of q that hold an element of S. *)
Posiciones(q, S) == {i \in 1..Len(q) : q[i] \in S}

(* The first element of q that belongs to S, or nulo when there is none.   *)
Primero(q, S, nulo) ==
    IF Posiciones(q, S) = {} THEN nulo ELSE q[Min(Posiciones(q, S))]

(* The last element of q that belongs to S: a scan that does not stop at   *)
(* its first match.                                                        *)
Ultimo(q, S, nulo) ==
    IF Posiciones(q, S) = {} THEN nulo ELSE q[Max(Posiciones(q, S))]

(* q without its first element in S; q itself when it holds none.          *)
SinPrimero(q, S) ==
    IF Posiciones(q, S) = {} THEN q ELSE RemoveAt(q, Min(Posiciones(q, S)))

(* q without its last element in S. *)
SinUltimo(q, S) ==
    IF Posiciones(q, S) = {} THEN q ELSE RemoveAt(q, Max(Posiciones(q, S)))

(* No element twice. *)
SinRepetidos(q) == \A i, j \in 1..Len(q) : q[i] = q[j] => i = j
=============================================================================
