---------------------------- MODULE MCFileSystem ----------------------------
(* Instances of FileSystem for TLC: what a program reads and writes.       *)
EXTENDS FileSystem, TLC

CONSTANTS a1, a2

Acceso(offset, size) == [offset |-> offset, size |-> size]

\* Any place of the first two blocks, and all three from the start.
Cualquiera == {Acceso(0, 4), Acceso(1, 1), Acceso(1, 2), Acceso(2, 2), Acceso(0, 6)}

\* The reads: one block, two or three.
DeUnoATres == {Acceso(0, 2), Acceso(0, 4), Acceso(0, 6)}

SimetriaArchivos == Permutations(Archivos)
=============================================================================
