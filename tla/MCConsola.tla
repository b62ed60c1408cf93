----------------------------- MODULE MCConsola -----------------------------
(* Instances of Consola for TLC. *)
EXTENDS Consola, TLC
=============================================================================
