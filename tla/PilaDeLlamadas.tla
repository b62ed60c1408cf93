---------------------------- MODULE PilaDeLlamadas ----------------------------
(***************************************************************************)
(* What the CPU promises an ansisop program of its variables, with no      *)
(* addresses, pages or PCB: a stack of activations, each with its own      *)
(* parameters and variables, of which only the last one is named; a return *)
(* drops it and leaves a value in the variable the call was made for.      *)
(***************************************************************************)
EXTENDS Naturals, Sequences, SequencesExt

CONSTANTS Etiquetas, Valores

SinDestino == 0

VARIABLE marcos   \* sequence of [args, vars, destino]; vars of <<label, value>>

MarcoVacio(destino) == [args |-> << >>, vars |-> << >>, destino |-> destino]

Init == marcos = <<MarcoVacio(SinDestino)>>

Ultima(e, vs) == SelectLastInSeq(vs, LAMBDA x : x[1] = e)

(* The last activation, with its field c changed in d. *)
Cambia(c, d) == marcos' = [marcos EXCEPT ![Len(marcos)][c] = d]

Definir(e, v) ==
  /\ marcos # << >>
  /\ Cambia("vars", Append(Last(marcos).vars, <<e, v>>))

Pasar(v) ==
  /\ Len(marcos) > 1
  /\ Cambia("args", Append(Last(marcos).args, v))

Asignar(e, v) ==
  /\ marcos # << >>
  /\ LET vs == Last(marcos).vars IN
       /\ Ultima(e, vs) > 0
       /\ Cambia("vars", [vs EXCEPT ![Ultima(e, vs)] = <<e, v>>])

Llamar == marcos # << >> /\ marcos' = Append(marcos, MarcoVacio(SinDestino))

LlamarPara(e) ==
  /\ marcos # << >>
  /\ Ultima(e, Last(marcos).vars) > 0
  /\ marcos' = Append(marcos, MarcoVacio(Ultima(e, Last(marcos).vars)))

Retornar(v) ==
  /\ Len(marcos) > 1
  /\ Last(marcos).destino # SinDestino
  /\ marcos' = [Front(marcos) EXCEPT ![Len(marcos) - 1].vars[Last(marcos).destino][2] = v]

Terminar == marcos # << >> /\ marcos' = << >>

Next ==
  \/ Llamar \/ Terminar
  \/ \E v \in Valores :
       \/ Pasar(v) \/ Retornar(v)
       \/ \E e \in Etiquetas : Definir(e, v) \/ Asignar(e, v)
  \/ \E e \in Etiquetas : LlamarPara(e)

Spec == Init /\ [][Next]_marcos
=============================================================================
