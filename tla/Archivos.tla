------------------------------- MODULE Archivos -------------------------------
(***************************************************************************)
(* The tables of open files of the Kernel (Kernel.c 730-1182): a table for  *)
(* each process, whose entries have the permissions and the cursor, and a   *)
(* global one.  An entry of a process has the position of its file in the   *)
(* global list, and closing a file takes an element out of that list.       *)
(*                                                                         *)
(* Each process runs on a CPU that asks and waits; the main thread of the   *)
(* Kernel serves a request to its end, with File_System in between: a       *)
(* request is a step.                                                      *)
(***************************************************************************)
EXTENDS Integers, Sequences, FiniteSets, FiniteSetsExt, SequencesExt

CONSTANTS Procesos, Nombres,
          Permisos,      \* the sets of flags a program may open with
          Cursores,      \* where a program may move a cursor to
          ValoresDeA,    \* what the variable a (974) may hold, not initialised
          Nada,          \* no packet for File_System yet
          MaxPedidos     \* bound: requests of the programs

ASSUME PermisosAssumption == Permisos \subseteq SUBSET {"c", "w", "r"}
ASSUME NumerosAssumption ==
  /\ Cursores \subseteq Nat /\ MaxPedidos \in Nat
  /\ ValoresDeA \subseteq Int

VARIABLES
  tablaGlobalDeArchivos,    \* sequence of [path, open]
  tablasArchivosPorProceso, \* for each process, sequence of [fd, flags, globalFD, puntero]
  fdcounter,
  existentes,   \* the files there are in File_System
  pedidoFS,     \* the read or write the last request sent to File_System
  estado,       \* of each program on its CPU: "corre", "finalizado", or "espera" an answer
  caido,        \* the Kernel followed a NULL
  aperturas,    \* history: [pid, fd, nombre, flags] of the opens not closed yet
  corrida,      \* history: a close took out an element that was not the last one
  basura,       \* history: a search started elsewhere than at the start
  pedidos

tablas == <<tablaGlobalDeArchivos, tablasArchivosPorProceso>>
historia == <<aperturas, corrida, basura>>
vars == <<tablas, fdcounter, existentes, pedidoFS, estado, caido, historia, pedidos>>

Init ==
  /\ tablaGlobalDeArchivos = << >>
  /\ tablasArchivosPorProceso = [p \in Procesos |-> << >>]
  /\ fdcounter = 3
  /\ existentes \in SUBSET Nombres
  /\ pedidoFS = Nada
  /\ estado = [p \in Procesos |-> "corre"]
  /\ caido = FALSE
  /\ aperturas = {} /\ corrida = FALSE /\ basura = FALSE
  /\ pedidos = 0

Pide(p) ==
  /\ ~caido /\ estado[p] = "corre"
  /\ pedidos < MaxPedidos
  /\ pedidos' = pedidos + 1

NadaParaFS == pedidoFS' = Nada

(* A program uses files "previamente abierto" (primitivas.c:752): the       *)
(* descriptors it was given and has not closed.                            *)
Abiertos(p) ==
  {tablasArchivosPorProceso[p][i].fd : i \in DOMAIN tablasArchivosPorProceso[p]}

(* The Kernel ends the process, and with the answer the CPU ends it too.    *)
finalizarProcesoPorPID(p) == estado' = [estado EXCEPT ![p] = "finalizado"]

(* The Kernel sends no answer; the CPU is in recibir until a packet comes. *)
NoContesta(p) == estado' = [estado EXCEPT ![p] = "espera"]

Cae ==
  /\ caido' = TRUE
  /\ NadaParaFS
  /\ UNCHANGED <<tablas, fdcounter, existentes, estado, historia>>
-----------------------------------------------------------------------------
(* The tables.                                                             *)

(* A path is the buffer of the packet that brought it: two requests have   *)
(* two buffers, also with one name, for no packet is freed.                *)
Ruta(nombre) == [nombre |-> nombre, fd |-> fdcounter]

(* From position a on, comparing buffers; -1 if it is not there. *)
buscarEntradaEnTablaGlobal(tabla, path, a) ==
  LET js == {j \in a .. Len(tabla) - 1 : j >= 0 /\ tabla[j + 1].path = path}
  IN IF a < 0 \/ js = {} THEN -1 ELSE Min(js)

(* Mutant: the position is counted from 1. *)
chequearDesdeUno(path, a) ==
  LET tabla == Append(tablaGlobalDeArchivos, [path |-> path, open |-> 0])
      j == buscarEntradaEnTablaGlobal(tabla, path, a)
  IN [j |-> j + 1, tabla |-> IF j = -1 THEN tabla ELSE [tabla EXCEPT ![j + 1].open = @ + 1]]

(* The first search finds no buffer that is new; the entry is added, and   *)
(* the second search counts the open.                                      *)
chequearTablaGlobal(path, a) ==
  LET tabla == Append(tablaGlobalDeArchivos, [path |-> path, open |-> 0])
      j == buscarEntradaEnTablaGlobal(tabla, path, a)
  IN [j |-> j, tabla |-> IF j = -1 THEN tabla ELSE [tabla EXCEPT ![j + 1].open = @ + 1]]

agregarNuevoArchivoATablas(p, nombre, flags) ==
  \E a \in ValoresDeA :
    LET r == chequearTablaGlobal(Ruta(nombre), a)
    IN /\ tablaGlobalDeArchivos' = r.tabla
       /\ tablasArchivosPorProceso' = [tablasArchivosPorProceso EXCEPT ![p] =
            Append(@, [fd |-> fdcounter, flags |-> flags, globalFD |-> r.j, puntero |-> 0])]
       /\ fdcounter' = fdcounter + 1
       /\ aperturas' = aperturas \cup
            {[pid |-> p, fd |-> fdcounter, nombre |-> nombre, flags |-> flags]}
       /\ basura' = (basura \/ a # 0)
       /\ UNCHANGED corrida

(* Position of a descriptor in the table of its process, 0 if none. *)
obtenerArchivoDeLaTablaDeUnProcesoPorFD(p, fd) ==
  SelectInSeq(tablasArchivosPorProceso[p], LAMBDA e : e.fd = fd)

Entrada(p, fd) ==
  tablasArchivosPorProceso[p][obtenerArchivoDeLaTablaDeUnProcesoPorFD(p, fd)]

(* list_get: NULL out of range. *)
HayEntradaGlobal(e) == e.globalFD \in 0 .. Len(tablaGlobalDeArchivos) - 1

obtenerEntradaTablaGlobalDeArchivos(e) == tablaGlobalDeArchivos[e.globalFD + 1]
-----------------------------------------------------------------------------
(* Requests.                                                               *)

(* A file that does not exist is created if the flags say so and           *)
(* File_System can; if not, the process ends.                              *)
abrirArchivo(p, nombre, flags) ==
  /\ Pide(p)
  /\ \/ /\ nombre \in existentes \/ "c" \in flags
        /\ existentes' = existentes \cup {nombre}
        /\ agregarNuevoArchivoATablas(p, nombre, flags)
        /\ UNCHANGED estado
     \/ /\ nombre \notin existentes
        /\ finalizarProcesoPorPID(p)
        /\ UNCHANGED <<tablas, fdcounter, existentes, historia>>
  /\ NadaParaFS
  /\ UNCHANGED caido

Existe(g) == g.path.nombre \in existentes

Manda(op, p, fd, g, offset) ==
  pedidoFS' = [op |-> op, pid |-> p, fd |-> fd, nombre |-> g.path.nombre, offset |-> offset]

(* Mutant: the permission to write is not looked at. *)
PuedeSinPermiso(e, g, permiso) == Existe(g)

Puede(e, g, permiso) == permiso \in e.flags /\ Existe(g)

(* The process whose write fails, or has no permission, is ended in the    *)
(* Kernel and its CPU gets no answer.                                      *)
escribirArchivo(p, fd) ==
  LET e == Entrada(p, fd)
      g == obtenerEntradaTablaGlobalDeArchivos(e)
  IN /\ Pide(p)
     /\ IF ~HayEntradaGlobal(e) THEN Cae
        ELSE /\ IF Puede(e, g, "w")
                THEN /\ Manda("GUARDAR_DATOS", p, fd, g, e.puntero)
                     /\ UNCHANGED estado \/ NoContesta(p)
                ELSE NoContesta(p) /\ NadaParaFS
             /\ UNCHANGED <<tablas, fdcounter, existentes, caido, historia>>

(* A read is always from offset 0. *)
leerArchivo(p, fd) ==
  LET e == Entrada(p, fd)
      g == obtenerEntradaTablaGlobalDeArchivos(e)
  IN /\ Pide(p)
     /\ IF ~HayEntradaGlobal(e) THEN Cae
        ELSE /\ IF Puede(e, g, "r")
                THEN /\ Manda("SOLICITUD_OBTENCION_DATOS", p, fd, g, 0)
                     /\ UNCHANGED estado \/ finalizarProcesoPorPID(p)
                ELSE finalizarProcesoPorPID(p) /\ NadaParaFS
             /\ UNCHANGED <<tablas, fdcounter, existentes, caido, historia>>

(* Mutant: the entry of the process stays. *)
NoBorraDeTabla(p, fd) == tablasArchivosPorProceso[p]

(* eliminarArchivoDeTabla. *)
borrarArchivoDeTabla(p, fd) ==
  RemoveAt(tablasArchivosPorProceso[p], obtenerArchivoDeLaTablaDeUnProcesoPorFD(p, fd))

(* Mutant: the element is overwritten and stays. *)
DejaHueco(e) == [tablaGlobalDeArchivos EXCEPT ![e.globalFD + 1] = Nada]

(* With one open, the entry leaves the global list; the positions of those *)
(* after it, in the tables of all processes, stay.                         *)
SacarDeGlobal(e) ==
  IF obtenerEntradaTablaGlobalDeArchivos(e).open > 1
  THEN [tablaGlobalDeArchivos EXCEPT ![e.globalFD + 1].open = @ - 1]
  ELSE RemoveAt(tablaGlobalDeArchivos, e.globalFD + 1)

cerrarArchivo(p, fd) ==
  LET e == Entrada(p, fd)
  IN /\ Pide(p)
     /\ IF ~HayEntradaGlobal(e) THEN Cae
        ELSE /\ tablasArchivosPorProceso' =
                  [tablasArchivosPorProceso EXCEPT ![p] = borrarArchivoDeTabla(p, fd)]
             /\ tablaGlobalDeArchivos' = SacarDeGlobal(e)
             /\ corrida' = (corrida \/ e.globalFD # Len(tablaGlobalDeArchivos) - 1)
             /\ aperturas' = {ap \in aperturas : ap.fd # fd}
             /\ NadaParaFS
             /\ UNCHANGED <<fdcounter, existentes, estado, caido, basura>>

moverCursor(p, fd, posicion) ==
  /\ Pide(p)
  /\ tablasArchivosPorProceso' = [tablasArchivosPorProceso EXCEPT
       ![p][obtenerArchivoDeLaTablaDeUnProcesoPorFD(p, fd)].puntero = posicion]
  /\ NadaParaFS
  /\ UNCHANGED <<tablaGlobalDeArchivos, fdcounter, existentes, estado, caido, historia>>

(* procesarPaqueteRecibido has no case for BORRAR_ARCHIVO: nobody answers. *)
borrarArchivo(p, fd) ==
  /\ Pide(p)
  /\ NoContesta(p)
  /\ NadaParaFS
  /\ UNCHANGED <<tablas, fdcounter, existentes, caido, historia>>

(* The CPU takes the next packet for the answer, whatever it is: an abort, *)
(* or the dispatch of another program.  The program goes on.               *)
respuestaAjena(p) ==
  /\ ~caido /\ estado[p] = "espera"
  /\ estado' = [estado EXCEPT ![p] = "corre"]
  /\ UNCHANGED <<tablas, fdcounter, existentes, pedidoFS, caido, historia, pedidos>>

Next ==
  \E p \in Procesos :
    \/ respuestaAjena(p)
    \/ \E nombre \in Nombres, flags \in Permisos : abrirArchivo(p, nombre, flags)
    \/ \E fd \in Abiertos(p) :
         \/ escribirArchivo(p, fd) \/ leerArchivo(p, fd)
         \/ cerrarArchivo(p, fd) \/ borrarArchivo(p, fd)
         \/ \E posicion \in Cursores : moverCursor(p, fd, posicion)

Spec == Init /\ [][Next]_vars
-----------------------------------------------------------------------------
(* Properties.                                                             *)

Entradas == [fd : Nat, flags : Permisos, globalFD : Int, puntero : Nat]

TypeOK ==
  /\ tablaGlobalDeArchivos \in Seq([path : [nombre : Nombres, fd : Nat], open : Nat])
  /\ tablasArchivosPorProceso \in [Procesos -> Seq(Entradas)]
  /\ fdcounter \in Nat
  /\ existentes \subseteq Nombres
  /\ estado \in [Procesos -> {"corre", "finalizado", "espera"}]
  /\ caido \in BOOLEAN /\ corrida \in BOOLEAN /\ basura \in BOOLEAN
  /\ pedidos \in 0 .. MaxPedidos

\* The positions of the global list are those they were given.
Alineadas == ~corrida /\ ~basura

\* Two descriptors, of one process or of two, are never one: fdcounter only
\* grows, and a closed descriptor leaves its table (agregarNuevoArchivoATablas,
\* eliminarArchivoDeTabla).
FDUnico ==
  \A p, q \in Procesos :
    \A i \in DOMAIN tablasArchivosPorProceso[p], j \in DOMAIN tablasArchivosPorProceso[q] :
      tablasArchivosPorProceso[p][i].fd = tablasArchivosPorProceso[q][j].fd => p = q /\ i = j

\* The global list has an element for each descriptor that is open, no more and
\* no less, whatever order the files are closed in: nothing is left behind and
\* nothing is taken twice (chequearTablaGlobal, cerrarArchivo).
Descriptores == UNION {Abiertos(p) : p \in Procesos}
TablasParejas == Len(tablaGlobalDeArchivos) = Cardinality(Descriptores)

\* While every close takes the last element of the list, each descriptor leads to
\* the buffer of its own open.
IndicePropio ==
  Alineadas =>
    \A p \in Procesos : \A i \in DOMAIN tablasArchivosPorProceso[p] :
      LET e == tablasArchivosPorProceso[p][i]
      IN HayEntradaGlobal(e) /\ obtenerEntradaTablaGlobalDeArchivos(e).path.fd = e.fd

\* Permission and file of a request are those of one open.
Concedido(pedido) ==
  \E ap \in aperturas :
    /\ ap.pid = pedido.pid /\ ap.fd = pedido.fd
    /\ ap.nombre = pedido.nombre
    /\ (IF pedido.op = "GUARDAR_DATOS" THEN "w" ELSE "r") \in ap.flags

\* "Path donde debe escribirse" (Kernel.c:878): what is sent to File_System is
\* about the file that the process opened under that descriptor, with that
\* permission, among opens and closes of all processes.
PathDondeDebe == pedidoFS # Nada => Concedido(pedidoFS)

\* So it is while every close takes the last element; and then no request follows
\* a NULL.
PathDondeDebeAlineadas == Alineadas => PathDondeDebe /\ ~caido

\* The cursor is where a program asked: "luego del cursor" (primitivas.c:794).
LeeLuegoDelCursor ==
  pedidoFS # Nada /\ pedidoFS.op = "SOLICITUD_OBTENCION_DATOS" =>
    \A i \in DOMAIN tablasArchivosPorProceso[pedidoFS.pid] :
      LET e == tablasArchivosPorProceso[pedidoFS.pid][i]
      IN e.fd = pedidoFS.fd => e.puntero = pedidoFS.offset

\* Every request is answered: no CPU is left in recibir (a write File_System
\* refuses, and every BORRAR_ARCHIVO, get no answer).
NadieEspera == \A p \in Procesos : estado[p] # "espera"
=============================================================================
