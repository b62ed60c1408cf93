-------------------------------- MODULE Heap --------------------------------
(***************************************************************************)
(* The heap the Kernel keeps for the programs (Kernel.c 2096-2468): a list  *)
(* with the bytes available in each heap page (listaAdminHeap) and, inside  *)
(* the page, in Memoria, a chain of blocks that starts at offset 0, each    *)
(* one a header (size, uso) followed by size bytes.                         *)
(*                                                                         *)
(* The main thread serves one request at a time; each header it looks at is *)
(* a round trip with Memoria, and a step.  Meanwhile the thread of the      *)
(* operator may finalize another process, which drops records of the list   *)
(* without mutex_listaHeap.                                                 *)
(*                                                                         *)
(* The pages of code and stack come before those of the heap and are left   *)
(* out: page 1 is the first heap page of a process.                         *)
(***************************************************************************)
EXTENDS Integers, Sequences, FiniteSets, FiniteSetsExt, SequencesExt

CONSTANTS Procesos, Ninguno,
          TAMPAG,          \* bytes of a page
          Tamanios,        \* bytes a program asks for
          MarcosHeap,      \* frames Memoria has for heap pages
          LiberaDosVeces,  \* may a program free what it freed already?
          MaxPedidos       \* bound: requests of the programs

M == 5    \* sizeof(t_heapMetadata), packed
D == 8    \* sizeof(t_datosHeap)

ASSUME TAMPAGAssumption == TAMPAG \in Nat /\ TAMPAG > 2 * M
ASSUME TamaniosAssumption == Tamanios \subseteq Nat
ASSUME MarcosAssumption == MarcosHeap \in Nat /\ LiberaDosVeces \in BOOLEAN

VARIABLES
  listaAdminHeap,    \* sequence of [pagina, pid, disponible]
  sizePaginasHeap,   \* heap pages of each process, for the Kernel
  paginas,           \* heap pages in Memoria: headers by offset
  estado,            \* of each process: "corre", "abortado", "terminado"
  hilo,              \* what the main thread has in its hands
  reservas,          \* history: blocks given and not freed
  liberadas,         \* history: blocks freed
  pedidos

listas == <<listaAdminHeap, sizePaginasHeap>>
historia == <<reservas, liberadas>>
vars == <<listas, paginas, estado, hilo, historia, pedidos>>

\* i: position in the list; actual: the size of the last header read.
Libre == [paso |-> "libre", pid |-> Ninguno, tamanio |-> 0, i |-> 1, pagina |-> 0, offset |-> 0, actual |-> 0]

Init ==
  /\ listaAdminHeap = << >>
  /\ sizePaginasHeap = [p \in Procesos |-> 0]
  /\ paginas = [p \in Procesos |-> << >>]
  /\ estado = [p \in Procesos |-> "corre"]
  /\ hilo = Libre
  /\ reservas = {}
  /\ liberadas = {}
  /\ pedidos = 0

----------------------------------------------------------------------------
(* Headers in a page of Memoria.                                           *)

Pagina == paginas[hilo.pid][hilo.pagina]

\* A read where no header was written gives whatever is there.
Cabecera(celdas, offset) ==
  IF offset \in DOMAIN celdas THEN {celdas[offset]}
  ELSE [size : 0 .. TAMPAG, uso : BOOLEAN]

\* A header covers M bytes: writing one spoils those it overlaps.
ConCabecera(celdas, offset, size, uso) ==
  LET intactas == {o \in DOMAIN celdas : o <= offset - M \/ o >= offset + M}
  IN [o \in intactas \cup {offset} |->
        IF o = offset THEN [size |-> size, uso |-> uso] ELSE celdas[o]]

Asignadas == MapThenSumSet(LAMBDA p : Len(paginas[p]), Procesos)

\* Position of the record of a page, 0 if it is not there.
Registro(lista, pid, pagina) ==
  SelectInSeq(lista, LAMBDA r : r.pid = pid /\ r.pagina = pagina)

----------------------------------------------------------------------------
(* RESERVAR                                                                *)

NoEntraEnPagina(tamanio) == tamanio > TAMPAG - 2 * M

\* A failure reaches the CPU, which answers ABORTADO_HEAP.
Falla(pid) ==
  /\ estado' = [estado EXCEPT ![pid] = "abortado"]
  /\ hilo' = Libre

reservarHeap(pid, tamanio) ==
  /\ hilo.paso = "libre"
  /\ estado[pid] = "corre"
  /\ pedidos < MaxPedidos
  /\ pedidos' = pedidos + 1
  /\ IF NoEntraEnPagina(tamanio)
     THEN Falla(pid)
     ELSE /\ hilo' = [Libre EXCEPT !.paso = "revisar", !.pid = pid, !.tamanio = tamanio]
          /\ UNCHANGED estado
  /\ UNCHANGED <<listas, paginas, historia>>

\* verificarEspacioLibreHeap, a turn of its loop.
verificarEspacioLibreHeap ==
  /\ hilo.paso = "revisar"
  /\ IF hilo.i > Len(listaAdminHeap)
     THEN hilo' = [hilo EXCEPT !.paso = "paginaNueva"]
     ELSE LET aux == listaAdminHeap[hilo.i]
          IN IF aux.disponible >= hilo.tamanio + D /\ aux.pid = hilo.pid
             THEN hilo' = [hilo EXCEPT !.paso = "compactar", !.pagina = aux.pagina,
                                       !.offset = 0, !.actual = 0]
             ELSE hilo' = [hilo EXCEPT !.i = @ + 1]
  /\ UNCHANGED <<listas, paginas, estado, historia, pedidos>>

\* The guard of the loop of compactarPaginaHeap: actual->size is still that of
\* the block before.
SigueCompactando ==
  hilo.offset < TAMPAG /\ hilo.offset + M + hilo.actual < TAMPAG - M

\* The header after, or a used one if it would be the last of the page.
Siguiente(celdas, offset) ==
  IF offset < TAMPAG - M THEN Cabecera(celdas, offset) ELSE {[size |-> 0, uso |-> TRUE]}

\* Mutant: the merged block loses the header it swallowed.
CompactadoSinM(actual, siguiente) == actual.size + siguiente.size

Compactado(actual, siguiente) == actual.size + M + siguiente.size

\* Mutant: the use of the second block is not looked at.
SeUnenSinMirar(actual, siguiente) == ~actual.uso

SeUnen(actual, siguiente) == ~actual.uso /\ ~siguiente.uso

\* A turn of compactarPaginaHeap: merge with the next block, or go on to it.
compactarPaginaHeap ==
  /\ hilo.paso = "compactar"
  /\ SigueCompactando
  /\ \E actual \in Cabecera(Pagina, hilo.offset) :
     \E siguiente \in Siguiente(Pagina, hilo.offset + M + actual.size) :
       LET size == Compactado(actual, siguiente)
       IN IF SeUnen(actual, siguiente)
          THEN /\ paginas' = [paginas EXCEPT ![hilo.pid][hilo.pagina] =
                                ConCabecera(@, hilo.offset, size, FALSE)]
               /\ hilo' = [hilo EXCEPT !.actual = size]
          ELSE /\ hilo' = [hilo EXCEPT !.actual = actual.size,
                                       !.offset = @ + M + actual.size]
               /\ UNCHANGED paginas
  /\ UNCHANGED <<listas, estado, historia, pedidos>>

finCompactar ==
  /\ hilo.paso = "compactar"
  /\ ~SigueCompactando
  /\ hilo' = [hilo EXCEPT !.paso = "buscar", !.offset = 0]
  /\ UNCHANGED <<listas, paginas, estado, historia, pedidos>>

Alcanza(bloque) == bloque.size >= hilo.tamanio + M /\ ~bloque.uso

\* Mutant: an offset 0 leaves the loop of verificarEspacioLibreHeap where it was.
buscarSinAvanzar ==
  /\ hilo.paso = "buscar"
  /\ \E bloque \in Cabecera(Pagina, hilo.offset) :
       hilo' = IF ~Alcanza(bloque)
               THEN [hilo EXCEPT !.offset = @ + M + bloque.size]
               ELSE [hilo EXCEPT !.paso = IF hilo.offset > 0 THEN "reservar" ELSE "revisar"]
  /\ UNCHANGED <<listas, paginas, estado, historia, pedidos>>

\* A turn of paginaHeapConBloqueSuficiente.  An offset 0 is taken for a failure:
\* verificarEspacioLibreHeap goes on with the next record.
paginaHeapConBloqueSuficiente ==
  /\ hilo.paso = "buscar"
  /\ \/ /\ hilo.offset >= TAMPAG
        /\ hilo' = [hilo EXCEPT !.paso = "revisar", !.i = @ + 1]
     \/ /\ hilo.offset < TAMPAG
        /\ \E bloque \in Cabecera(Pagina, hilo.offset) :
             hilo' = IF ~Alcanza(bloque)
                     THEN [hilo EXCEPT !.offset = @ + M + bloque.size]
                     ELSE IF hilo.offset > 0
                     THEN [hilo EXCEPT !.paso = "reservar"]
                     ELSE [hilo EXCEPT !.paso = "revisar", !.i = @ + 1]
  /\ UNCHANGED <<listas, paginas, estado, historia, pedidos>>

\* reservarPaginaHeap: Memoria adds a page after those of the process (or has no
\* frame), the header goes to the page the Kernel has counted.
reservarPaginaHeap ==
  /\ hilo.paso = "paginaNueva"
  /\ LET pagina == sizePaginasHeap[hilo.pid] + 1
         libre == TAMPAG - M
         agregada == Append(paginas[hilo.pid], << >>)
     IN IF Asignadas >= MarcosHeap
        THEN Falla(hilo.pid) /\ UNCHANGED <<listas, paginas>>
        ELSE /\ paginas' = [paginas EXCEPT ![hilo.pid] =
                  [agregada EXCEPT ![pagina] = ConCabecera(@, 0, libre, FALSE)]]
             /\ listaAdminHeap' = Append(listaAdminHeap,
                  [pagina |-> pagina, pid |-> hilo.pid, disponible |-> libre])
             /\ sizePaginasHeap' = [sizePaginasHeap EXCEPT ![hilo.pid] = @ + 1]
             /\ hilo' = [hilo EXCEPT !.paso = "reservar", !.pagina = pagina, !.offset = 0]
             /\ UNCHANGED estado
  /\ UNCHANGED <<historia, pedidos>>

Resto(viejo, tamanio) == viejo - tamanio - M

\* disponible of the page of the thread, in the record that has it (if any).
Descontada(lista) ==
  LET k == Registro(lista, hilo.pid, hilo.pagina)
  IN IF k = 0 THEN lista ELSE [lista EXCEPT ![k].disponible = @ - hilo.tamanio - M]

NoAlcanzaDisponible ==
  LET k == Registro(listaAdminHeap, hilo.pid, hilo.pagina)
  IN k # 0 /\ hilo.tamanio + M > listaAdminHeap[k].disponible

\* reservarBloqueHeap: the header of the block, and that of the rest after it.
\* If the record has too little, the process is finalized.
reservarBloqueHeap ==
  /\ hilo.paso = "reservar"
  /\ IF NoAlcanzaDisponible
     THEN Falla(hilo.pid) /\ UNCHANGED <<listaAdminHeap, paginas, reservas>>
     ELSE /\ listaAdminHeap' = Descontada(listaAdminHeap)
          /\ \E viejo \in Cabecera(Pagina, hilo.offset) :
               paginas' = [paginas EXCEPT ![hilo.pid][hilo.pagina] =
                 ConCabecera(ConCabecera(@, hilo.offset, hilo.tamanio, TRUE),
                             hilo.offset + M + hilo.tamanio,
                             Resto(viejo.size, hilo.tamanio), FALSE)]
          /\ reservas' = reservas \cup {[pid |-> hilo.pid, pagina |-> hilo.pagina,
                                         offset |-> hilo.offset, tamanio |-> hilo.tamanio]}
          /\ hilo' = Libre
          /\ UNCHANGED estado
  /\ UNCHANGED <<sizePaginasHeap, liberadas, pedidos>>

----------------------------------------------------------------------------
(* LIBERAR, and the end of a process.                                      *)

\* Mutant: the header is counted as available.
DevuelveConM(size) == size + M

Devuelve(size) == size

\* liberarBloqueHeap, at an offset that was given by RESERVAR.
liberarBloqueHeap(r) ==
  /\ hilo.paso = "libre"
  /\ estado[r.pid] = "corre"
  /\ pedidos < MaxPedidos
  /\ pedidos' = pedidos + 1
  /\ \E bloque \in Cabecera(paginas[r.pid][r.pagina], r.offset) :
       LET k == Registro(listaAdminHeap, r.pid, r.pagina)
       IN /\ paginas' = [paginas EXCEPT ![r.pid][r.pagina] =
                           ConCabecera(@, r.offset, bloque.size, FALSE)]
          /\ listaAdminHeap' =
               IF k = 0 THEN listaAdminHeap
               ELSE [listaAdminHeap EXCEPT ![k].disponible = @ + Devuelve(bloque.size)]
  /\ reservas' = reservas \ {r}
  /\ liberadas' = IF LiberaDosVeces THEN liberadas \cup {r} ELSE liberadas
  /\ UNCHANGED <<sizePaginasHeap, estado, hilo>>

\* The loop of finalizarProceso over the list.  It advances by one after a
\* removal, which shifts the rest, and by two otherwise: it looks at every other
\* record.
Depurada(lista, pid) ==
  LET quedan[n \in 0 .. Len(lista)] ==
        IF n = 0 THEN << >>
        ELSE IF n % 2 = 1 /\ lista[n].pid = pid THEN quedan[n - 1]
        ELSE Append(quedan[n - 1], lista[n])
  IN quedan[Len(lista)]

\* finalizarProceso, of either thread: on a process the main thread is not
\* serving.  Memoria takes its pages back.
finalizarProceso(pid) ==
  /\ estado[pid] # "terminado"
  /\ hilo.pid # pid
  /\ estado' = [estado EXCEPT ![pid] = "terminado"]
  /\ listaAdminHeap' = Depurada(listaAdminHeap, pid)
  /\ paginas' = [paginas EXCEPT ![pid] = << >>]
  /\ reservas' = {r \in reservas : r.pid # pid}
  /\ liberadas' = {r \in liberadas : r.pid # pid}
  /\ UNCHANGED <<sizePaginasHeap, hilo, pedidos>>

HiloPrincipal ==
  \/ verificarEspacioLibreHeap
  \/ compactarPaginaHeap \/ finCompactar
  \/ paginaHeapConBloqueSuficiente
  \/ reservarPaginaHeap \/ reservarBloqueHeap

Next ==
  \/ HiloPrincipal
  \/ \E pid \in Procesos :
       \/ finalizarProceso(pid)
       \/ \E tamanio \in Tamanios : reservarHeap(pid, tamanio)
  \/ \E r \in reservas \cup liberadas : liberarBloqueHeap(r)

Spec == Init /\ [][Next]_vars
SpecJusta == Spec /\ WF_vars(HiloPrincipal)

----------------------------------------------------------------------------
(* Properties.                                                             *)

\* The offsets a walk from the start of a page visits.
Cadena(celdas) ==
  LET visita[n \in 0 .. TAMPAG \div M] ==
        IF n = 0 THEN {0}
        ELSE LET antes == visita[n - 1]
             IN antes \cup {o + M + celdas[o].size : o \in antes \cap DOMAIN celdas}
  IN visita[TAMPAG \div M]

BloquesDe(celdas) == Cadena(celdas) \cap DOMAIN celdas

PaginasVivas == {pk \in Procesos \X (1 .. MarcosHeap) : pk[2] <= Len(paginas[pk[1]])}

TypeOK ==
  /\ \A k \in DOMAIN listaAdminHeap :
       /\ listaAdminHeap[k].pid \in Procesos
       /\ listaAdminHeap[k].disponible \in 0 .. TAMPAG - M
  /\ sizePaginasHeap \in [Procesos -> 0 .. MaxPedidos]
  /\ estado \in [Procesos -> {"corre", "abortado", "terminado"}]
  /\ hilo.pid \in Procesos \cup {Ninguno}
  /\ hilo.offset \in 0 .. TAMPAG /\ hilo.actual \in 0 .. TAMPAG - M
  /\ pedidos \in 0 .. MaxPedidos

\* The blocks of a page cover it, one after the other: a walk ends exactly at its
\* end (reservarBloqueHeap, compactarPaginaHeap, liberarBloqueHeap).
PaginaPartida ==
  \A pk \in PaginasVivas :
    LET celdas == paginas[pk[1]][pk[2]]
    IN Cadena(celdas) = BloquesDe(celdas) \cup {TAMPAG} /\ BloquesDe(celdas) \subseteq 0 .. TAMPAG - M

\* A block a program holds stays in the chain, used and with the size it asked
\* for, whatever is merged or split around it.
ReservaVigente ==
  \A r \in reservas :
    LET celdas == paginas[r.pid][r.pagina]
    IN /\ r.offset \in BloquesDe(celdas)
       /\ celdas[r.offset] = [size |-> r.tamanio, uso |-> TRUE]

LibreDe(celdas) ==
  MapThenSumSet(LAMBDA o : IF celdas[o].uso THEN 0 ELSE celdas[o].size, BloquesDe(celdas))

\* Each heap page of a process that lives has one record, also while another
\* thread drops those of a process that ended (finalizarProceso, 1872-1902), and
\* a record never promises more bytes than the free blocks of its page have.
RegistrosFieles ==
  /\ \A pk \in PaginasVivas :
       Cardinality({k \in DOMAIN listaAdminHeap :
                      listaAdminHeap[k].pid = pk[1] /\ listaAdminHeap[k].pagina = pk[2]}) = 1
  /\ \A k \in DOMAIN listaAdminHeap :
       LET r == listaAdminHeap[k]
       IN r.pagina <= Len(paginas[r.pid]) => r.disponible <= LibreDe(paginas[r.pid][r.pagina])

\* The loops over the list and over the blocks of a page end: the main thread
\* goes back to its other requests.
TodoPedidoTermina == hilo.paso # "libre" ~> hilo.paso = "libre"

\* RESERVAR "reserve en el Heap una cantidad de memoria acorde" (primitivas.c:526
\* of CPU): when Memoria has no frame left, no page of the process has a block
\* that is large enough.
SeNiegaSinLugar ==
  hilo.paso = "paginaNueva" /\ Asignadas = MarcosHeap =>
    \A k \in DOMAIN paginas[hilo.pid] :
      LET celdas == paginas[hilo.pid][k]
      IN \A o \in BloquesDe(celdas) : celdas[o].uso \/ celdas[o].size < hilo.tamanio + D

\* RESERVAR returns a "puntero a donde esta reservada la memoria" (primitivas.c:531):
\* what a program may store there overlaps no header.
PunteroLibreDeCabeceras ==
  \A r \in reservas :
    \A o \in BloquesDe(paginas[r.pid][r.pagina]) :
      r.offset + r.tamanio <= o \/ o + M <= r.offset
=============================================================================
