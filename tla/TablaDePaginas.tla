--------------------------- MODULE TablaDePaginas ---------------------------
(***************************************************************************)
(* The inverted page table of Memoria: tablaDePaginas.c and funcionHash.c. *)
(* The table has an entry per frame and one more, 0 .. Marcos, which says   *)
(* which page of which process the frame holds.  The hash of the page is   *)
(* the frame it would like; a collision is solved by the first match above *)
(* and then by the first match below.                                      *)
(***************************************************************************)
EXTENDS Integers, FiniteSets, FiniteSetsExt

CONSTANTS Marcos,     \* frames of memoria.config (MARCOS)
          MarcoSize   \* bytes of a frame (MARCO_SIZE)

ASSUME MarcosAssumption == Marcos \in Nat \ {0}
ASSUME MarcoSizeAssumption == MarcoSize \in Nat \ {0}

Libre == -1                \* pid of the entry of a free frame
DeLaTabla == -33           \* pid of the frames the table itself lives in
SIZE_ENTRADA == 12         \* sizeof(t_entradaTablaDePaginas): three ints
Fallo == -23               \* EXIT_FAILURE_CUSTOM

Indices == 0 .. Marcos     \* getEntradaTablaDePaginas accepts index = frames

\* The frames of the table: one more than it needs, for the loop ends at <=.
UltimoDeLaTabla == (SIZE_ENTRADA * Marcos + MarcoSize - 1) \div MarcoSize

ASSUME LaTablaEntra == UltimoDeLaTabla < Marcos

inicializarTablaDePaginas ==
  [i \in Indices |->
     [pid |-> IF i <= UltimoDeLaTabla THEN DeLaTabla ELSE Libre, pagina |-> -1]]

\* sprintf of both numbers one after the other, and atoi of the result.
Cifras(n) == IF n < 10 THEN 10 ELSE IF n < 100 THEN 100 ELSE 1000

calcularPosicion(pid, pagina) == (pid * Cifras(pagina) + pagina) % Marcos

----------------------------------------------------------------------------

\* From the position of the hash upwards, then downwards.
PrimeroDesde(pos, candidatos) ==
  LET arriba == {i \in candidatos : i >= pos}
  IN IF candidatos = {} THEN Fallo
     ELSE IF arriba # {} THEN Min(arriba) ELSE Max(candidatos)

Libres(tabla) == {i \in Indices : tabla[i].pid = Libre}

MarcosDe(tabla, pid, pagina) ==
  {i \in Indices : tabla[i] = [pid |-> pid, pagina |-> pagina]}

getFrameDisponibleHash(tabla, pid, pagina) ==
  PrimeroDesde(calcularPosicion(pid, pagina), Libres(tabla))

getEntradaTablaDePaginasHash(tabla, pid, pagina) ==
  PrimeroDesde(calcularPosicion(pid, pagina), MarcosDe(tabla, pid, pagina))

getFrameByPIDPagina(tabla, pid, pagina) ==
  LET suyos == MarcosDe(tabla, pid, pagina)
  IN IF suyos = {} THEN Fallo ELSE Min(suyos)

\* The count stops before the last index: see the VER SI VA UN IGUAL of the code.
paginasDisponibles(tabla, n) ==
  Cardinality({i \in Libres(tabla) : i < Marcos}) >= n

\* One page after another, from primera; what was reserved before a failure
\* stays reserved.  The last index is the number of pages that had a frame.
reservar(tabla, pid, primera, n) ==
  LET f[k \in 0 .. n] ==
        IF k = 0 THEN tabla
        ELSE LET marco == getFrameDisponibleHash(f[k - 1], pid, primera + k - 1)
             IN IF marco = Fallo THEN f[k - 1]
                ELSE [f[k - 1] EXCEPT ![marco] =
                        [pid |-> pid, pagina |-> primera + k - 1]]
  IN f[n]

\* Mutant: the scan stops before the last index.
LiberarSinElUltimo(tabla, pid) ==
  [i \in Indices |->
     IF i < Marcos /\ tabla[i].pid = pid
     THEN [pid |-> Libre, pagina |-> -1] ELSE tabla[i]]

Liberar(tabla, pid) ==
  [i \in Indices |->
     IF tabla[i].pid = pid THEN [pid |-> Libre, pagina |-> -1] ELSE tabla[i]]
=============================================================================
