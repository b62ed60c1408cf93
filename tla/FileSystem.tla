----------------------------- MODULE FileSystem -----------------------------
(***************************************************************************)
(* The process File_System (file_system.c): a bitmap of blocks, a metadata *)
(* file (TAMANIO, BLOQUES) per file and a file per block, all on disk.  It *)
(* serves the requests of the Kernel one at a time, but what a request     *)
(* writes reaches the disk save by save: the process may fall between two  *)
(* of them or in the middle of one, by a fault of its own or from outside, *)
(* and iniciarMetadata takes what it finds on disk when it starts again.   *)
(*                                                                         *)
(* A fall is of the process: what it gave to write() is on disk.  A save   *)
(* truncates its file (fopen "w") and the text, kept in the buffer of the  *)
(* FILE, arrives when it is closed: nobody reads in between, so a save is  *)
(* one step, and a fall in it leaves the old file or part of the new one.  *)
(*                                                                         *)
(* A write stores one value in all its bytes.  0 is a byte nobody wrote,   *)
(* whether iniciarMetadata filled the file of the block or fell before.    *)
(***************************************************************************)
EXTENDS Integers, Sequences, FiniteSets, FiniteSetsExt, SequencesExt

CONSTANTS Archivos, Ninguno,   \* paths, none a directory of another; no path
          CANTIDAD_BLOQUES, TAMANIO_BLOQUES,   \* file_system.config
          BITS,                \* of a byte: 8 in the code
          Accesos,             \* offset and size of the writes of the Kernel
          Lecturas,            \* and of its reads (leerArchivo asks from 0)
          Valores,             \* what is written; 0 fills a new block
          MaxPedidos,          \* bound: requests of the Kernel
          MaxCaidas            \* bound: falls from outside

ASSUME BloquesAssumption ==
  CANTIDAD_BLOQUES \in Nat \ {0} /\ TAMANIO_BLOQUES \in Nat \ {0} /\ BITS \in Nat \ {0}
ASSUME AccesosAssumption ==
  /\ IsFiniteSet(Accesos) /\ Accesos \subseteq [offset : Nat, size : Nat \ {0}]
  /\ IsFiniteSet(Lecturas) /\ Lecturas \subseteq [offset : {0}, size : Nat \ {0}]
ASSUME ValoresAssumption == Valores \subseteq Nat \ {0}

Bloques == 0 .. CANTIDAD_BLOQUES - 1
SinBloque == -1
Cae == -2                      \* atoi(NULL): the process falls

\* A chunk is as long as a block wherever it starts, so that a block's file may
\* grow to almost two blocks.
BytesDeBloque == 0 .. 2 * TAMANIO_BLOQUES - 1

Offsets == 0 .. Max({a.offset + a.size : a \in Accesos \cup Lecturas} \cup {0})

VARIABLES
  bitArray,     \* in memory: its bytes (size) and the blocks in use (bits)
  bitmapBin,    \* Metadata/Bitmap.bin, likewise
  metadataBinVacia,   \* a fall left Metadata/Metadata.bin empty
  metadata,     \* of each path: its metadata file, NoExiste or Cortado
  bloques,      \* content of Bloques/<n>.bin
  tarea,        \* the request being served, or where main is
  escrito,      \* history: last value written in each position of a file
  pedidos, caidas,
  cortado,      \* history: a fall left what the model does not follow (caer)
  cruzado       \* history: a write was not one of those of SinCruces

enDisco == <<bitmapBin, metadataBinVacia, metadata, bloques>>
disco == <<bitArray, enDisco>>
cuentas == <<pedidos, caidas, cortado, cruzado>>
vars == <<disco, tarea, escrito, cuentas>>

NoExiste == [tamanio |-> -1, bloques |-> << >>]
Cortado == [tamanio |-> -2, bloques |-> << >>]     \* it exists, and is empty

Existe(a) == metadata[a] # NoExiste
Legible(a) == metadata[a] \notin {NoExiste, Cortado}

\* A map has the bits of its bytes, and no others.
Cubre(size) == {b \in Bloques : b < BITS * size}
Entero(mapa) == Cubre(mapa.size) = Bloques
NoHay == [size |-> -1, bits |-> {}]
Prefijo(mapa, n) == [size |-> n, bits |-> mapa.bits \cap Cubre(n)]

\* sizeBitArray: whole bytes, and one more unless that number is a multiple of 8.
SizeBitArray ==
  LET n == CANTIDAD_BLOQUES \div BITS IN IF n % BITS # 0 THEN n + 1 ELSE n
BitmapNuevo == [size |-> SizeBitArray, bits |-> {}]

\* nro: the number of the first block; listados: the array read from BLOQUES;
\* hecho: bytes written; j: the index of the code; bloque: the current block.
SinPedido ==
  [paso |-> "recibir", archivo |-> Ninguno, offset |-> 0, size |-> 0, valor |-> 0,
   nro |-> 0, listados |-> << >>, hecho |-> 0, j |-> 0, bloque |-> SinBloque,
   leido |-> << >>]

\* Undefined behaviour: nothing is said of what follows.
Definido == tarea.paso # "indefinido"

\* Nothing on disk, and the process not started.
Init ==
  /\ bitArray = [size |-> 0, bits |-> {}]
  /\ bitmapBin = NoHay
  /\ metadataBinVacia = FALSE
  /\ metadata = [a \in Archivos |-> NoExiste]
  /\ bloques = [b \in Bloques |-> [i \in BytesDeBloque |-> 0]]
  /\ tarea = [SinPedido EXCEPT !.paso = "caido"]
  /\ escrito = [a \in Archivos |-> [i \in Offsets |-> -1]]
  /\ pedidos = 0
  /\ caidas = 0
  /\ cortado = FALSE
  /\ cruzado = FALSE

----------------------------------------------------------------------------

\* What the scan may return: the first clear bit or, past the bytes of the map,
\* any block there whose bit lies clear in memory.
buscarBloqueLibre ==
  LET libres == Cubre(bitArray.size) \ bitArray.bits
  IN IF libres # {} THEN {Min(libres)}
     ELSE (Bloques \ Cubre(bitArray.size)) \cup {SinBloque}

\* bitarray_set_bit: past the bytes of the map it is not kept.
PoneBit(b) ==
  bitArray' = [bitArray EXCEPT !.bits = @ \cup ({b} \cap Cubre(bitArray.size))]

\* Element k of the array of config_get_array_value: past its last block there
\* is a NULL, and past the NULL whatever lies in memory.
Elemento(lista, k) ==
  IF k < Len(lista) THEN {lista[k + 1]}
  ELSE IF k = Len(lista) THEN {Cae} ELSE Bloques \cup {Cae}

Resto(t) == Min({t.size - t.hecho, TAMANIO_BLOQUES})

\* offsetBloque is not 0 for the first chunk alone.
OffsetBloque(t) == IF t.hecho = 0 THEN t.offset % TAMANIO_BLOQUES ELSE 0

\* The bytes of a chunk within the file of its block.
Tramo(t) == OffsetBloque(t) .. OffsetBloque(t) + Resto(t) - 1

\* Mutant: the loop goes on with the block it had.
BloqueFijo(lista, k) == {lista[1]}

\* obtenerDatos looks at the next element after each chunk and goes on with the
\* block it had at the NULL; past the NULL it is any block.
BloqueLeido(lista, k) ==
  IF k <= Len(lista) THEN {lista[Min({k + 1, Len(lista)})]} ELSE Bloques

Tramos(size) == (size + TAMANIO_BLOQUES - 1) \div TAMANIO_BLOQUES

\* The blocks of the chunks of a read.
Leidos(lista, nro, n) ==
  {f \in [0 .. n - 1 -> Bloques] : \A k \in DOMAIN f : f[k] \in BloqueLeido(lista, nro + k)}

\* Byte k of what obtenerDatos reads: chunks of a block, the first one from the
\* offset within its block and the rest from the start.
ByteLeido(leidos, offset, k) ==
  LET tramo == k \div TAMANIO_BLOQUES
      dentro == IF tramo = 0 THEN offset % TAMANIO_BLOQUES ELSE 0
  IN bloques[leidos[tramo]][dentro + (k % TAMANIO_BLOQUES)]

\* The answer ends at the first 0 (strlen); what it has past the bytes that were
\* asked for, when none of them is 0, is left out.
Respuesta(leidos, acceso) ==
  LET byte(k) == ByteLeido(leidos, acceso.offset, k - 1)
  IN [k \in {k \in 1 .. acceso.size : \A i \in 1 .. k : byte(i) # 0} |-> byte(k)]

----------------------------------------------------------------------------

Recibe ==
  /\ tarea.paso = "recibir"
  /\ pedidos < MaxPedidos
  /\ pedidos' = pedidos + 1
  /\ UNCHANGED <<caidas, cortado>>

Sigue(paso) == tarea' = [tarea EXCEPT !.paso = paso]

Empieza(a, paso) == tarea' = [SinPedido EXCEPT !.paso = paso, !.archivo = a]

Indefinido == tarea' = [SinPedido EXCEPT !.paso = "indefinido"]

enviar ==
  /\ tarea.paso = "enviar"
  /\ tarea' = SinPedido
  /\ UNCHANGED <<disco, escrito, cuentas>>

\* After the save of the bitmap: in an alta, a baja and a block for a file.
Luego == [salvarAlta |-> "crear", salvarBaja |-> "borrar", salvarNuevo |-> "anotar"]

escribirValorBitarray ==
  /\ tarea.paso \in DOMAIN Luego
  /\ bitmapBin' = bitArray
  /\ Sigue(Luego[tarea.paso])
  /\ UNCHANGED <<bitArray, metadataBinVacia, metadata, bloques, escrito, cuentas>>

\* A bit changed past the bytes of the map is somebody else's memory.
desbordar ==
  /\ tarea.paso \in DOMAIN Luego
  /\ tarea.bloque \notin Cubre(bitArray.size)
  /\ Indefinido
  /\ UNCHANGED <<disco, escrito, cuentas>>

\* CREAR_ARCHIVO: the bit, then the metadata.  A file that exists is an OK, also
\* one a fall left empty.
crearArchivo(a) ==
  /\ Recibe
  /\ UNCHANGED cruzado
  /\ \/ Existe(a) /\ Empieza(a, "enviar") /\ UNCHANGED bitArray
     \/ /\ ~Existe(a)
        /\ \E b \in buscarBloqueLibre :
             IF b = SinBloque
             THEN Empieza(a, "enviar") /\ UNCHANGED bitArray
             ELSE /\ PoneBit(b)
                  /\ tarea' = [SinPedido EXCEPT !.paso = "salvarAlta", !.archivo = a, !.bloque = b]
  /\ UNCHANGED <<enDisco, escrito>>

crearMetadata ==
  /\ tarea.paso = "crear"
  /\ metadata' = [metadata EXCEPT ![tarea.archivo] =
                    [tamanio |-> 0, bloques |-> <<tarea.bloque>>]]
  /\ Sigue("enviar")
  /\ UNCHANGED <<bitArray, bitmapBin, metadataBinVacia, bloques, escrito, cuentas>>

\* BORRAR_ARCHIVO: a bit at a time, then unlink.  Without a BLOQUES in the file
\* there is no array, and the process falls.
borrarArchivo(a) ==
  /\ Recibe
  /\ UNCHANGED cruzado
  /\ \/ ~Existe(a) /\ Empieza(a, "enviar")
     \/ metadata[a] = Cortado /\ Empieza(a, "caido")
     \/ /\ Legible(a)
        /\ tarea' = [SinPedido EXCEPT !.paso = "borrar", !.archivo = a,
                                      !.listados = metadata[a].bloques]
  /\ UNCHANGED <<disco, escrito>>

\* Mutant: the first block of the array is skipped.
liberarLosOtros ==
  /\ tarea.paso = "borrar"
  /\ tarea.listados # << >>
  /\ bitArray' = [bitArray EXCEPT !.bits = @ \ ToSet(Tail(tarea.listados))]
  /\ tarea' = [tarea EXCEPT !.paso = "salvarBaja", !.bloque = Head(tarea.listados), !.listados = << >>]
  /\ UNCHANGED <<enDisco, escrito, cuentas>>

liberarBloque ==
  /\ tarea.paso = "borrar"
  /\ tarea.listados # << >>
  /\ bitArray' = [bitArray EXCEPT !.bits = @ \ {Head(tarea.listados)}]
  /\ tarea' = [tarea EXCEPT !.paso = "salvarBaja", !.bloque = Head(tarea.listados), !.listados = Tail(@)]
  /\ UNCHANGED <<enDisco, escrito, cuentas>>

unlink ==
  /\ tarea.paso = "borrar"
  /\ tarea.listados = << >>
  /\ metadata' = [metadata EXCEPT ![tarea.archivo] = NoExiste]
  /\ escrito' = [escrito EXCEPT ![tarea.archivo] = [i \in Offsets |-> -1]]
  /\ Sigue("enviar")
  /\ UNCHANGED <<bitArray, bitmapBin, metadataBinVacia, bloques, cuentas>>

\* malloc(sizeof(pedido->size)): the buffer of a read is as long as an int.
SizeBuffer == 4

\* SOLICITUD_OBTENCION_DATOS: nothing is compared with TAMANIO.  A first block
\* the array does not have is an atoi(NULL); the element after the last chunk is
\* converted too, and it may lie past the NULL.  A longer read runs past the
\* buffer.
obtenerDatos(a, acceso) ==
  LET lista == metadata[a].bloques
      nro == acceso.offset \div TAMANIO_BLOQUES
      n == Tramos(acceso.size)
  IN /\ Recibe
     /\ UNCHANGED cruzado
     /\ \/ ~Existe(a) /\ Empieza(a, "enviar")
        \/ Existe(a) /\ (nro >= Len(lista) \/ nro + n > Len(lista)) /\ Empieza(a, "caido")
        \/ Legible(a) /\ acceso.size > SizeBuffer /\ (Empieza(a, "caido") \/ Indefinido)
        \/ /\ Legible(a) /\ nro < Len(lista)
           /\ \E leidos \in Leidos(lista, nro, n) :
                tarea' = [SinPedido EXCEPT !.paso = "leido", !.archivo = a,
                  !.offset = acceso.offset, !.leido = Respuesta(leidos, acceso)]
     /\ UNCHANGED <<disco, escrito>>

\* The answer was sent.  pedido is the data of the packet: obtenerDatos frees it
\* and liberar_paquete frees it again.  The library stops the process when it
\* sees it, and otherwise has one block twice in its free list.
liberar_paquete ==
  /\ tarea.paso = "leido"
  /\ \/ tarea' = [SinPedido EXCEPT !.paso = "caido"]
     \/ Indefinido
  /\ UNCHANGED <<disco, escrito, cuentas>>

\* The writes that get where they should: from the start of the file, or within
\* its first block.
EnSuBloque(acceso) == acceso.offset = 0 \/ acceso.offset + acceso.size <= TAMANIO_BLOQUES

\* Those and, if the file has several blocks, not past them: as cantBloques is
\* then never numBloque + 1, no block is added and the element after is read.
SinCruces(lista, acceso) ==
  EnSuBloque(acceso) /\ (Len(lista) <= 1 \/ Tramos(acceso.size) <= Len(lista))

\* GUARDAR_DATOS.
guardarDatos(a, acceso, valor) ==
  LET lista == metadata[a].bloques
      nro == acceso.offset \div TAMANIO_BLOQUES
  IN /\ Recibe
     /\ cruzado' = (cruzado \/ (Legible(a) /\ ~SinCruces(lista, acceso)))
     /\ IF ~Existe(a)
        THEN Empieza(a, "enviar")
        ELSE \E b \in IF Legible(a) THEN Elemento(lista, nro) ELSE {Cae} :
               IF b = Cae
               THEN tarea' = [SinPedido EXCEPT !.paso = "caido", !.archivo = a,
                                               !.valor = valor]
               ELSE tarea' = [SinPedido EXCEPT
                      !.paso = "escribir", !.archivo = a, !.offset = acceso.offset,
                      !.size = acceso.size, !.valor = valor, !.nro = nro, !.j = nro,
                      !.listados = lista, !.bloque = b]
     /\ UNCHANGED <<disco, escrito>>

\* The comparison of the code: numBloque and cantBloques keep their values
\* through the loop.
haceFaltaBloque(t) == t.nro + 1 = Len(t.listados)

\* escribirEnArchivo, and what the loop decides after it: done, a new block, or
\* the next element of the array (which the code looks for at numBloque + j).
escribirEnArchivo ==
  LET t == tarea
      hecho == t.hecho + Resto(t)
  IN /\ t.paso = "escribir"
     /\ bloques' = [bloques EXCEPT ![t.bloque] =
                      [i \in BytesDeBloque |-> IF i \in Tramo(t) THEN t.valor ELSE @[i]]]
     /\ escrito' = [escrito EXCEPT ![t.archivo] =
                      [i \in Offsets |->
                         IF i \in t.offset + t.hecho .. t.offset + hecho - 1
                         THEN t.valor ELSE @[i]]]
     /\ IF hecho >= t.size
        THEN tarea' = [t EXCEPT !.paso = "aumentar", !.hecho = hecho]
        ELSE IF haceFaltaBloque(t)
        THEN tarea' = [t EXCEPT !.paso = "reservar", !.hecho = hecho]
        ELSE \E b \in Elemento(t.listados, t.nro + t.j + 1) :
               tarea' = [t EXCEPT !.paso = IF b = Cae THEN "caido" ELSE @,
                           !.hecho = hecho, !.j = @ + 1, !.bloque = b]
     /\ UNCHANGED <<bitArray, bitmapBin, metadataBinVacia, metadata, cuentas>>

\* Mutant: the bit of the new block is not set.
reservarSinMarcar ==
  /\ tarea.paso = "reservar"
  /\ \E b \in buscarBloqueLibre :
       tarea' = [tarea EXCEPT !.paso = IF b = SinBloque THEN "enviar" ELSE "salvarNuevo", !.bloque = b]
  /\ UNCHANGED <<disco, escrito, cuentas>>

\* reservarNuevoBloque: the bit, then the metadata.  Without space the answer is
\* a failure, and what was written stays.
reservarNuevoBloque ==
  /\ tarea.paso = "reservar"
  /\ \E b \in buscarBloqueLibre :
       IF b = SinBloque
       THEN Sigue("enviar") /\ UNCHANGED bitArray
       ELSE /\ PoneBit(b)
            /\ tarea' = [tarea EXCEPT !.paso = "salvarNuevo", !.bloque = b]
  /\ UNCHANGED <<enDisco, escrito, cuentas>>

anotarBloque ==
  /\ tarea.paso = "anotar"
  /\ metadata' = [metadata EXCEPT ![tarea.archivo].bloques = Append(@, tarea.bloque)]
  /\ Sigue("escribir")
  /\ UNCHANGED <<bitArray, bitmapBin, metadataBinVacia, bloques, escrito, cuentas>>

Crece == tarea.offset + tarea.size > metadata[tarea.archivo].tamanio

aumentarTamanioArchivo ==
  /\ tarea.paso = "aumentar"
  /\ metadata' = [metadata EXCEPT ![tarea.archivo].tamanio =
                    IF Crece THEN tarea.offset + tarea.size ELSE @]
  /\ Sigue("enviar")
  /\ UNCHANGED <<bitArray, bitmapBin, metadataBinVacia, bloques, escrito, cuentas>>

----------------------------------------------------------------------------

\* What a fall in the middle of a save leaves of the bitmap: the old file, or the
\* first bytes of the new one.
RestosDeBitmap ==
  {bitmapBin} \cup
    IF tarea.paso \in DOMAIN Luego
    THEN {Prefijo(bitArray, n) : n \in 0 .. bitArray.size}
    ELSE IF tarea.paso = "bitmap" /\ bitmapBin = NoHay
    THEN {Prefijo(BitmapNuevo, n) : n \in 0 .. SizeBitArray}
    ELSE {}

\* And of the metadata of a file: the old one, or nothing.
SalvaMetadata ==
  tarea.paso \in {"crear", "anotar"} \/ (tarea.paso = "aumentar" /\ Crece)

RestosDeMetadata ==
  {metadata} \cup
    IF SalvaMetadata THEN {[metadata EXCEPT ![tarea.archivo] = Cortado]} ELSE {}

\* The buffer of a FILE (BUFSIZ in the comments of stdio, 4096 on Linux): a text
\* that does not fit is written in parts.  An element of BLOQUES takes 11 bytes
\* at most, what is around them less than 40.
BUFFER == 4096
SalvaPorPartes ==
  \/ SalvaMetadata /\ 40 + 11 * (Len(metadata[tarea.archivo].bloques) + 1) > BUFFER
  \/ tarea.paso = "escribir" /\ TAMANIO_BLOQUES > BUFFER

Borrando(a) == tarea.paso \in {"borrar", "salvarBaja"} /\ tarea.archivo = a

\* A fall from outside, at any step.  What it leaves of a deletion, or of a save
\* by parts, is not followed further.
caer ==
  /\ tarea.paso \notin {"caido", "indefinido"}
  /\ caidas < MaxCaidas
  /\ caidas' = caidas + 1
  /\ bitmapBin' \in RestosDeBitmap
  /\ metadata' \in RestosDeMetadata
  /\ metadataBinVacia' \in (IF tarea.paso = "metadataBin" THEN BOOLEAN ELSE {metadataBinVacia})
  /\ cortado' = (cortado \/ SalvaPorPartes \/ (\E a \in Archivos : Borrando(a)))
  /\ Sigue("caido")
  /\ UNCHANGED <<bitArray, bloques, escrito, pedidos, cruzado>>

\* main again: iniciarMetadata first reads Metadata.bin, and follows the NULL it
\* finds for CANTIDAD_BLOQUES in an empty one: that process never starts again.
iniciarMetadata ==
  /\ tarea.paso = "caido"
  /\ ~metadataBinVacia
  /\ tarea' = [SinPedido EXCEPT !.paso = "metadataBin"]
  /\ UNCHANGED <<disco, escrito, cuentas>>

\* It is always written again.
escribirMetadataBin ==
  /\ tarea.paso = "metadataBin"
  /\ Sigue("bitmap")
  /\ UNCHANGED <<disco, escrito, cuentas>>

\* The bitmap is what Bitmap.bin has, however short.
leerBitmap ==
  /\ tarea.paso = "bitmap"
  /\ bitArray' = IF bitmapBin = NoHay THEN BitmapNuevo ELSE bitmapBin
  /\ bitmapBin' = bitArray'
  /\ tarea' = SinPedido
  /\ UNCHANGED <<metadataBinVacia, metadata, bloques, escrito, cuentas>>

Pedido(a) ==
  \/ crearArchivo(a)
  \/ borrarArchivo(a)
  \/ \E acceso \in Lecturas : obtenerDatos(a, acceso)
  \/ \E acceso \in Accesos, valor \in Valores : guardarDatos(a, acceso, valor)

Next ==
  \/ \E a \in Archivos : Pedido(a)
  \/ escribirValorBitarray \/ desbordar
  \/ crearMetadata \/ liberarBloque \/ unlink
  \/ escribirEnArchivo \/ reservarNuevoBloque \/ anotarBloque
  \/ aumentarTamanioArchivo \/ liberar_paquete \/ enviar
  \/ caer \/ iniciarMetadata \/ escribirMetadataBin \/ leerBitmap

Spec == Init /\ [][Next]_vars

----------------------------------------------------------------------------
(* Properties.                                                             *)

DeArchivo(a) == ToSet(metadata[a].bloques)

TypeOK ==
  /\ bitArray \in [size : 0 .. SizeBitArray, bits : SUBSET Bloques]
  /\ bitmapBin \in [size : -1 .. SizeBitArray, bits : SUBSET Bloques]
  /\ metadataBinVacia \in BOOLEAN
  /\ \A a \in Archivos :
       /\ metadata[a].tamanio \in Offsets \cup {-1, -2}
       /\ metadata[a].bloques \in Seq(Bloques)
  /\ bloques \in [Bloques -> [BytesDeBloque -> Valores \cup {0}]]
  /\ tarea.bloque \in Bloques \cup {SinBloque, Cae}
  /\ tarea.hecho \in 0 .. tarea.size
  /\ escrito \in [Archivos -> [Offsets -> Valores \cup {-1}]]
  /\ pedidos \in 0 .. MaxPedidos /\ caidas \in 0 .. MaxCaidas

\* A process that started with a whole bitmap gives a block to one file, once,
\* whatever falls came before: between the save of the bitmap and that of the
\* metadata (crearArchivo, reservarNuevoBloque), or in the middle of the latter.
\* Three things break it, and are exempt: a fall in a deletion, where bits go
\* before the metadata (cortado); a Bitmap.bin shorter than the blocks, which a
\* fall in its save leaves, or sizeBitArray; and undefined behaviour.
BloquesDisjuntos ==
  Definido /\ ~cortado /\ Entero(bitArray) =>
    /\ \A a, b \in Archivos : a # b => DeArchivo(a) \cap DeArchivo(b) = {}
    /\ \A a \in Archivos : IsInjective(metadata[a].bloques)

\* A whole bitmap, in memory or on disk, has the bits of the files, except those
\* a deletion under way has cleared (borrarArchivo): what is saved in any order
\* and cut by a fall never says that a block of a file is free.  And no block is
\* lost between requests, whether they succeed or fail half way (guardarDatos,
\* 483): a fall from outside is the one way to lose one.
BitmapExacto ==
  Definido =>
    /\ ~cortado =>
         \A mapa \in {bitArray, bitmapBin} : Entero(mapa) =>
           \A a \in Archivos : Borrando(a) \/ DeArchivo(a) \subseteq mapa.bits
    /\ caidas = 0 /\ Entero(bitArray) /\ tarea.paso \in {"recibir", "enviar"} =>
         bitArray.bits = UNION {DeArchivo(a) : a \in Archivos}

\* The primitives write and read "tamanio bytes luego del cursor" (the comments
\* at primitivas.c:753 and :794 of CPU): what is read in a position is what was
\* last written there.
LeeLuegoDelCursor ==
  \A k \in DOMAIN tarea.leido :
    LET antes == escrito[tarea.archivo][tarea.offset + k - 1]
    IN antes # -1 => tarea.leido[k] = antes

\* No write makes the process fall (a read past the blocks of the file may: the
\* request of a read has no value).
NoCae == tarea.paso = "caido" /\ tarea.valor # 0 => caidas > 0

\* So it is, also after falls and restarts, while every write is as SinCruces
\* says; for the reads, as long as blocks are not shared (BloquesDisjuntos).
LeeLoEscrito ==
  ~cruzado => NoCae /\ (~cortado /\ Entero(bitArray) => LeeLuegoDelCursor)

(* What a reader would expect, and the code does not do.                   *)

\* Also with the bitmap a fall left short, or after a deletion cut.
BloquesSiempreDisjuntos ==
  \A a, b \in Archivos : a # b => DeArchivo(a) \cap DeArchivo(b) = {}

\* The process can always start again (file_system.c:81-83, 97).
SiempreArranca == ~metadataBinVacia

\* No file is left that can be neither read, written nor deleted.
SiempreLegibles == \A a \in Archivos : Existe(a) => Legible(a)

\* A read that was answered leaves a sound process (file_system.c:418, 234).
SigueDefinido == Definido
=============================================================================
