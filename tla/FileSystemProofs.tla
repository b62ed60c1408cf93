-------------------------- MODULE FileSystemProofs --------------------------
(***************************************************************************)
(* What File_System keeps on disk, for any number of blocks, files and     *)
(* requests, and any number of falls at any step, saves included.          *)
(***************************************************************************)
EXTENDS FileSystem, ColasProofs

(* Where a request works, and what it has in hand: a block taken that is in *)
(* no file yet, or the file it deletes.                                     *)
Toma == {"salvarAlta", "crear", "salvarNuevo", "anotar"}
Baja == {"borrar", "salvarBaja"}
Trabaja == Toma \cup Baja \cup {"escribir", "reservar", "aumentar"}
Arranca == {"caido", "metadataBin", "bitmap"}
Pasos == Trabaja \cup Arranca \cup {"recibir", "leido", "enviar", "indefinido"}

(* The shape of the state; the fields of a request whose values do not     *)
(* matter to the blocks are only there.                                    *)
TipoTarea ==
    /\ tarea \in [paso : Pasos, archivo : Archivos \cup {Ninguno}, offset : {tarea.offset},
                  size : {tarea.size}, valor : {tarea.valor}, nro : {tarea.nro},
                  listados : Seq(Bloques), hecho : {tarea.hecho}, j : {tarea.j},
                  bloque : {tarea.bloque}, leido : {tarea.leido}]
    /\ tarea.paso \in Trabaja => tarea.archivo \in Archivos
    /\ tarea.paso \in Toma => tarea.bloque \in Bloques
TipoMetadata ==
    /\ metadata = [a \in Archivos |-> metadata[a]]
    /\ \A a \in Archivos :
          metadata[a] \in [tamanio : {metadata[a].tamanio}, bloques : Seq(Bloques)]
TipoMapas ==
    /\ bitArray \in [size : Nat, bits : SUBSET Bloques]
    /\ bitmapBin \in [size : Nat, bits : SUBSET Bloques] \cup {NoHay}
Tipo ==
    /\ TipoTarea /\ TipoMetadata /\ TipoMapas
    /\ caidas \in Nat /\ (cortado => caidas > 0)

ArchivoNuevo == tarea.paso \in {"salvarAlta", "crear"} => metadata[tarea.archivo] = NoExiste

(* The map in memory is the one on disk, but for the save under way; and    *)
(* also before the start, if the process fell by a fault of its own.        *)
Salvado ==
    /\ tarea.paso \in DOMAIN Luego => bitmapBin.size = bitArray.size
    /\ tarea.paso \notin DOMAIN Luego \cup Arranca => bitmapBin = bitArray
    /\ tarea.paso \in Arranca /\ caidas = 0 => bitmapBin \in {bitArray, NoHay}
SinDisco == bitmapBin = NoHay => \A a \in Archivos : metadata[a] = NoExiste

(* Some map is whole, or it will be.                                        *)
Sano == Entero(bitArray) \/ Entero(bitmapBin) \/ bitmapBin = NoHay

(* The block that was taken and is in no file yet. *)
BloqueEnMano ==
    tarea.paso \in Toma =>
        /\ tarea.bloque \in bitArray.bits
        /\ \A a \in Archivos : tarea.bloque \notin DeArchivo(a)

(* The blocks a deletion has still to clear. *)
PorBorrar ==
    tarea.paso \in Baja => ToSet(tarea.listados) \subseteq DeArchivo(tarea.archivo)

CubreA(mapa) == \A a \in Archivos : Borrando(a) \/ DeArchivo(a) \subseteq mapa.bits
Disjuntos ==
    /\ \A a, b \in Archivos : a # b => DeArchivo(a) \cap DeArchivo(b) = {}
    /\ \A a \in Archivos : IsInjective(metadata[a].bloques)

(* The bits that are set are those of the files, the block in hand apart   *)
(* and those a deletion has still to clear apart.                          *)
DeAlguno(b) == \E a \in Archivos : ~Borrando(a) /\ b \in DeArchivo(a)
Justos ==
    \A b \in bitArray.bits :
        \/ DeAlguno(b)
        \/ tarea.paso \in Toma /\ b = tarea.bloque
        \/ tarea.paso \in Baja /\ b \in ToSet(tarea.listados)

InvBloques ==
    /\ Sano => Disjuntos /\ BloqueEnMano /\ PorBorrar
    /\ Entero(bitArray) => CubreA(bitArray)
    /\ Entero(bitmapBin) => CubreA(bitmapBin)
Inv ==
    /\ Tipo /\ ArchivoNuevo
    /\ Definido => /\ Salvado /\ SinDisco
                   /\ ~cortado => InvBloques
                   /\ caidas = 0 => Justos

-----------------------------------------------------------------------------
(* Lists of blocks.                                                        *)

LEMMA Vacia == ToSet(<< >>) = {} /\ IsInjective(<< >>)
BY DEF ToSet, IsInjective

LEMMA UnoSolo ==
  ASSUME NEW e
  PROVE  ToSet(<<e>>) = {e} /\ IsInjective(<<e>>)
BY DEF ToSet, IsInjective

(* A block added at the end of the array of a file. *)
LEMMA Agregado ==
  ASSUME NEW S, NEW s \in Seq(S), NEW e \in S
  PROVE  /\ Append(s, e) \in Seq(S)
         /\ ToSet(Append(s, e)) = ToSet(s) \cup {e}
         /\ IsInjective(s) /\ e \notin ToSet(s) => IsInjective(Append(s, e))
<1>1. /\ Append(s, e) \in Seq(S) /\ Len(Append(s, e)) = Len(s) + 1
      /\ \A i \in 1 .. Len(s) : Append(s, e)[i] = s[i]
      /\ Append(s, e)[Len(s) + 1] = e
  BY AppendProperties
<1>2. DOMAIN s = 1 .. Len(s) /\ DOMAIN Append(s, e) = 1 .. Len(s) + 1 /\ Len(s) \in Nat
  BY <1>1
<1>3. ToSet(Append(s, e)) = ToSet(s) \cup {e}
  BY <1>1, <1>2 DEF ToSet
<1>4. ASSUME IsInjective(s), e \notin ToSet(s)
      PROVE  IsInjective(Append(s, e))
  BY <1>1, <1>2, <1>4 DEF IsInjective, ToSet
<1> QED BY <1>1, <1>3, <1>4

LEMMA Partes ==
  ASSUME NEW S, NEW s \in Seq(S), s # << >>
  PROVE  /\ Head(s) \in S /\ Tail(s) \in Seq(S)
         /\ ToSet(s) = {Head(s)} \cup ToSet(Tail(s))
<1>1. /\ Head(s) \in S /\ Tail(s) \in Seq(S) /\ Len(Tail(s)) = Len(s) - 1
      /\ \A i \in 1 .. Len(s) - 1 : Tail(s)[i] = s[i + 1]
      /\ Len(s) \in Nat \ {0} /\ Head(s) = s[1]
  BY HeadTailProperties
<1>2. DOMAIN s = 1 .. Len(s) /\ DOMAIN Tail(s) = 1 .. Len(s) - 1
  BY <1>1
<1>3. \A i \in 1 .. Len(s) : i = 1 \/ (i - 1 \in 1 .. Len(s) - 1 /\ Tail(s)[i - 1] = s[i])
  BY <1>1
<1>4. \A i \in 1 .. Len(s) - 1 : i + 1 \in 1 .. Len(s)
  BY <1>1
<1>5. \A x \in ToSet(s) : x = Head(s) \/ x \in ToSet(Tail(s))
  <2>1. \A i \in 1 .. Len(s) : s[i] = Head(s) \/ s[i] \in ToSet(Tail(s))
    BY <1>1, <1>2, <1>3 DEF ToSet
  <2> QED BY <1>2, <2>1 DEF ToSet
<1>6. Head(s) \in ToSet(s) /\ ToSet(Tail(s)) \subseteq ToSet(s)
  BY <1>1, <1>2, <1>4 DEF ToSet
<1> QED BY <1>1, <1>5, <1>6

-----------------------------------------------------------------------------
(* Maps of bits.                                                           *)

LEMMA TamanioDelMapa == SizeBitArray \in Nat
<1>1. CANTIDAD_BLOQUES \div BITS \in Nat
  BY BloquesAssumption
<1> QED BY <1>1 DEF SizeBitArray

(* Who covers all the blocks with some bytes does so with more.            *)
LEMMA CubreMas ==
  ASSUME NEW n \in Nat, NEW m \in Nat, n <= m
  PROVE  Cubre(n) \subseteq Cubre(m)
<1>1. BITS * n \in Nat /\ BITS * m \in Nat /\ BITS * n <= BITS * m
  BY BloquesAssumption
<1>2. ASSUME NEW b \in Bloques, b < BITS * n
      PROVE  b < BITS * m
  <2>1. b \in Int
    BY BloquesAssumption DEF Bloques
  <2> QED BY <1>1, <1>2, <2>1
<1> QED BY <1>2 DEF Cubre

(* A cut map that is whole has all the bits of the one it was.             *)
LEMMA PrefijoEntero ==
  ASSUME NEW mapa, mapa.size \in Nat, mapa.bits \in SUBSET Bloques,
         NEW n \in 0 .. mapa.size
  PROVE  /\ Prefijo(mapa, n) \in [size : Nat, bits : SUBSET Bloques]
         /\ Entero(Prefijo(mapa, n)) => Entero(mapa) /\ Prefijo(mapa, n).bits = mapa.bits
<1>1. Prefijo(mapa, n).size = n /\ Prefijo(mapa, n).bits = mapa.bits \cap Cubre(n)
  BY DEF Prefijo
<1>2. n \in Nat /\ Cubre(n) \subseteq Cubre(mapa.size) /\ Cubre(mapa.size) \subseteq Bloques
  <2>1. n \in Nat /\ n <= mapa.size
    OBVIOUS
  <2> QED BY <2>1, CubreMas DEF Cubre
<1>3. Prefijo(mapa, n) \in [size : Nat, bits : SUBSET Bloques]
  BY <1>2 DEF Prefijo
<1> QED BY <1>1, <1>2, <1>3 DEF Entero

(* The scan of the map: a clear bit, when the map is whole.                *)
LEMMA BloqueLibre ==
  ASSUME TipoMapas, NEW b \in buscarBloqueLibre, b # SinBloque
  PROVE  /\ b \in Bloques
         /\ Entero(bitArray) => b \notin bitArray.bits
<1> DEFINE libres == Cubre(bitArray.size) \ bitArray.bits
<1>1. libres \in SUBSET Nat /\ libres \subseteq Bloques
  BY BloquesAssumption DEF Bloques, Cubre
<1>2. CASE libres # {}
  <2>1. b = Min(libres)
    BY <1>2 DEF buscarBloqueLibre
  <2> HIDE DEF libres
  <2>2. b \in libres
    BY <1>1, <1>2, <2>1, MinExiste
  <2> QED BY <1>1, <2>2 DEF libres
<1>3. CASE libres = {}
  <2>1. b \in Bloques \ Cubre(bitArray.size)
    BY <1>3 DEF buscarBloqueLibre
  <2> QED BY <2>1 DEF Entero
<1> QED BY <1>2, <1>3

-----------------------------------------------------------------------------
LEMMA InicioFS == Init => Inv
<1> SUFFICES ASSUME Init PROVE Inv
  OBVIOUS
<1>1. TipoTarea
  <2>1. tarea = [paso |-> "caido", archivo |-> Ninguno, offset |-> 0, size |-> 0,
                 valor |-> 0, nro |-> 0, listados |-> << >>, hecho |-> 0, j |-> 0,
                 bloque |-> SinBloque, leido |-> << >>]
    BY DEF Init, SinPedido
  <2>2. "caido" \in Pasos /\ << >> \in Seq(Bloques)
    BY DEF Pasos, Arranca
  <2> QED BY <2>1, <2>2 DEF TipoTarea, Trabaja, Toma, Baja
<1>2. \A a \in Archivos : metadata[a] = NoExiste
  BY DEF Init
<1>3. TipoMetadata
  BY <1>2 DEF Init, NoExiste, TipoMetadata
<1>4. \A a \in Archivos : DeArchivo(a) = {} /\ IsInjective(metadata[a].bloques)
  BY <1>2, Vacia DEF NoExiste, DeArchivo
<1>5. /\ tarea.paso = "caido" /\ caidas = 0 /\ ~cortado
      /\ bitArray = [size |-> 0, bits |-> {}] /\ bitmapBin = NoHay
  BY DEF Init, SinPedido
<1>6. TipoMapas /\ bitArray.bits = {}
  BY <1>5 DEF TipoMapas, NoHay
<1>7. ArchivoNuevo
  BY <1>2 DEF ArchivoNuevo, Init, SinPedido
<1>8. Salvado /\ SinDisco
  BY <1>2, <1>5 DEF Salvado, SinDisco, Luego, Arranca
<1>9. InvBloques
  BY <1>4, <1>5 DEF InvBloques, Disjuntos, BloqueEnMano, PorBorrar, CubreA, Toma, Baja
<1>10. Justos
  BY <1>6 DEF Justos
<1> QED BY <1>1, <1>3, <1>5, <1>6, <1>7, <1>8, <1>9, <1>10 DEF Inv, Tipo

-----------------------------------------------------------------------------
(* Once the behaviour is undefined, nothing more is claimed than the types.*)
LEMMA SeIndefine ==
  ASSUME Inv, Indefinido, UNCHANGED <<bitArray, bitmapBin, metadata, caidas, cortado>>
  PROVE  Inv'
<1>1. tarea' = [paso |-> "indefinido", archivo |-> Ninguno, offset |-> 0, size |-> 0,
                valor |-> 0, nro |-> 0, listados |-> << >>, hecho |-> 0, j |-> 0,
                bloque |-> SinBloque, leido |-> << >>]
  BY DEF Indefinido, SinPedido
<1>2. "indefinido" \in Pasos /\ << >> \in Seq(Bloques)
  BY DEF Pasos
<1>3. TipoTarea'
  BY <1>1, <1>2 DEF TipoTarea, Trabaja, Toma, Baja
<1>4. Tipo'
  BY <1>3 DEF Inv, Tipo, TipoMetadata, TipoMapas
<1>5. ArchivoNuevo' /\ ~Definido'
  BY <1>1 DEF ArchivoNuevo, Definido
<1> QED BY <1>4, <1>5 DEF Inv

(* While it serves a request there is a map on disk.                       *)
LEMMA HayMapa ==
  ASSUME Inv, Definido, tarea.paso \notin Arranca
  PROVE  /\ bitmapBin # NoHay /\ bitmapBin.size = bitArray.size
         /\ Sano <=> Entero(bitArray)
<1>1. bitmapBin.size = bitArray.size /\ bitArray.size \in Nat
  BY DEF Inv, Salvado, Tipo, TipoMapas
<1>2. bitmapBin # NoHay
  BY <1>1 DEF NoHay
<1> QED BY <1>1, <1>2 DEF Sano, Entero

(* A step that moves no block, and neither takes one nor begins nor ends a *)
(* deletion.                                                               *)
LEMMA MismosBloques ==
  ASSUME Inv, Definido, TipoTarea', TipoMetadata', SinDisco',
         UNCHANGED <<bitArray, bitmapBin, caidas, cortado>>,
         \A c \in Archivos : metadata'[c].bloques = metadata[c].bloques,
         tarea.paso \notin Toma \cup Baja, tarea'.paso \notin Toma \cup Baja,
         tarea.paso \notin Arranca \/ tarea'.paso \in Arranca \cup {"indefinido"}
  PROVE  Inv'
<1> USE DEF Inv
<1>1. (Tipo /\ ArchivoNuevo)'
  BY DEF Tipo, TipoMapas, ArchivoNuevo, Toma
<1>2. /\ \A c \in Archivos : DeArchivo(c)' = DeArchivo(c)
      /\ \A c \in Archivos : ~Borrando(c) /\ ~Borrando(c)'
  BY DEF DeArchivo, Borrando, Baja
<1>3. tarea.paso \notin DOMAIN Luego /\ tarea'.paso \notin DOMAIN Luego
  BY DEF Luego, Toma, Baja
<1>4. ASSUME Definido'
      PROVE  Salvado'
  <2>1. Salvado
    OBVIOUS
  <2>2. CASE tarea.paso \notin Arranca
    BY <1>3, <2>1, <2>2 DEF Salvado
  <2>3. CASE tarea'.paso \in Arranca
    BY <1>3, <2>1, <2>3 DEF Salvado
  <2> QED BY <1>4, <2>2, <2>3 DEF Definido
<1>5. ASSUME ~cortado'
      PROVE  InvBloques'
  <2>1. InvBloques
    BY <1>5
  <2>2. Sano' <=> Sano
    BY DEF Sano
  <2>3. (BloqueEnMano /\ PorBorrar)'
    BY DEF BloqueEnMano, PorBorrar
  <2>4. Disjuntos => Disjuntos'
    BY <1>2 DEF Disjuntos
  <2>5. CubreA(bitArray) => CubreA(bitArray)'
    BY <1>2 DEF CubreA
  <2>6. CubreA(bitmapBin) => CubreA(bitmapBin)'
    BY <1>2 DEF CubreA
  <2> QED BY <2>1, <2>2, <2>3, <2>4, <2>5, <2>6 DEF InvBloques
<1>6. ASSUME caidas' = 0
      PROVE  Justos'
  <2>1. Justos
    BY <1>6
  <2> QED BY <1>2, <2>1 DEF Justos, DeAlguno
<1> QED BY <1>1, <1>4, <1>5, <1>6

(* A step that leaves the disk alone and counts no fall. *)
LEMMA SoloTarea ==
  ASSUME Inv, Definido, TipoTarea',
         UNCHANGED <<bitArray, bitmapBin, metadata, caidas, cortado>>,
         tarea.paso \notin Toma \cup Baja, tarea'.paso \notin Toma \cup Baja,
         tarea.paso \notin Arranca \/ tarea'.paso \in Arranca
  PROVE  Inv'
<1>1. TipoMetadata' /\ SinDisco'
      /\ \A c \in Archivos : metadata'[c].bloques = metadata[c].bloques
  BY DEF Inv, Tipo, TipoMetadata, SinDisco
<1> QED BY <1>1, MismosBloques

(* The request that is served, when it begins. *)
LEMMA TareaNueva ==
  ASSUME NEW p \in Pasos, NEW a \in Archivos \cup {Ninguno}, NEW o, NEW s, NEW v, NEW n,
         NEW l \in Seq(Bloques), NEW h, NEW k, NEW b, NEW r,
         p \in Toma => b \in Bloques, p \in Trabaja => a \in Archivos,
         tarea' = [paso |-> p, archivo |-> a, offset |-> o, size |-> s, valor |-> v,
                   nro |-> n, listados |-> l, hecho |-> h, j |-> k, bloque |-> b,
                   leido |-> r]
  PROVE  /\ TipoTarea' /\ tarea'.paso = p /\ tarea'.archivo = a
         /\ tarea'.bloque = b /\ tarea'.listados = l
BY DEF TipoTarea

(* The same request, a step further. *)
LEMMA Siguiente ==
  ASSUME Inv, NEW p \in Pasos, Sigue(p),
         p \in Toma => tarea.bloque \in Bloques,
         p \in Trabaja => tarea.archivo \in Archivos
  PROVE  /\ TipoTarea' /\ tarea'.paso = p /\ tarea'.archivo = tarea.archivo
         /\ tarea'.bloque = tarea.bloque /\ tarea'.listados = tarea.listados
BY DEF Sigue, Inv, Tipo, TipoTarea

LEMMA PideTipo ==
  ASSUME NEW a \in Archivos \cup {Ninguno},
         NEW p \in {"enviar", "caido", "recibir", "metadataBin", "indefinido"},
         Empieza(a, p)
  PROVE  TipoTarea' /\ tarea'.paso = p
<1>1. tarea' = [paso |-> p, archivo |-> a, offset |-> 0, size |-> 0, valor |-> 0,
                nro |-> 0, listados |-> << >>, hecho |-> 0, j |-> 0,
                bloque |-> SinBloque, leido |-> << >>]
  BY DEF Empieza, SinPedido
<1>2. p \in Pasos /\ << >> \in Seq(Bloques) /\ p \notin Toma /\ p \notin Trabaja
  BY DEF Pasos, Arranca, Toma, Trabaja, Baja
<1> QED BY <1>1, <1>2, TareaNueva

(* Nobody's: between requests, or none yet. *)
LEMMA TareaSinPedido ==
  ASSUME NEW p \in {"recibir", "caido", "metadataBin", "indefinido"},
         tarea' = [SinPedido EXCEPT !.paso = p]
  PROVE  TipoTarea' /\ tarea'.paso = p
<1>1. SinPedido = [SinPedido EXCEPT !.archivo = Ninguno]
  BY DEF SinPedido
<1>2. [SinPedido EXCEPT !.paso = p] = [SinPedido EXCEPT !.paso = p, !.archivo = Ninguno]
  BY <1>1
<1>3. Empieza(Ninguno, p)
  BY <1>2 DEF Empieza
<1> QED BY <1>3, PideTipo

LEMMA PideLectura ==
  ASSUME Inv, NEW a \in Archivos, NEW acceso \in Lecturas, obtenerDatos(a, acceso)
  PROVE  Inv'
<1>1. /\ tarea.paso = "recibir" /\ Definido
      /\ UNCHANGED <<bitArray, bitmapBin, metadata, caidas, cortado>>
  BY DEF obtenerDatos, Recibe, disco, enDisco, Definido
<1>2. CASE Indefinido
  BY <1>1, <1>2, SeIndefine
<1>3. CASE ~Indefinido
  <2>1. ASSUME NEW leido,
               tarea' = [SinPedido EXCEPT !.paso = "leido", !.archivo = a,
                                          !.offset = acceso.offset, !.leido = leido]
        PROVE  TipoTarea' /\ tarea'.paso = "leido"
    <3>1. tarea' = [paso |-> "leido", archivo |-> a, offset |-> acceso.offset,
                    size |-> 0, valor |-> 0, nro |-> 0, listados |-> << >>,
                    hecho |-> 0, j |-> 0, bloque |-> SinBloque, leido |-> leido]
      BY <2>1 DEF SinPedido
    <3>2. << >> \in Seq(Bloques) /\ "leido" \in Pasos /\ "leido" \notin Toma
      BY DEF Pasos, Toma
    <3> QED BY <3>1, <3>2, TareaNueva
  <2>2. TipoTarea' /\ tarea'.paso \in {"enviar", "caido", "leido"}
    BY <1>3, <2>1, PideTipo DEF obtenerDatos
  <2> QED BY <1>1, <2>2, SoloTarea DEF Toma, Baja, Arranca
<1> QED BY <1>2, <1>3

LEMMA PideEscritura ==
  ASSUME Inv, NEW a \in Archivos, NEW acceso \in Accesos, NEW valor \in Valores,
         guardarDatos(a, acceso, valor)
  PROVE  Inv'
<1>1. /\ tarea.paso = "recibir" /\ Definido
      /\ UNCHANGED <<bitArray, bitmapBin, metadata, caidas, cortado>>
  BY DEF guardarDatos, Recibe, disco, enDisco, Definido
<1>2. TipoTarea' /\ tarea'.paso \in {"enviar", "caido", "escribir"}
  <2>1. /\ metadata[a].bloques \in Seq(Bloques) /\ << >> \in Seq(Bloques)
        /\ "caido" \in Pasos \ Toma /\ "escribir" \in Pasos \ Toma
    BY DEF Inv, Tipo, TipoMetadata, Pasos, Trabaja, Arranca, Toma
  <2>2. ASSUME tarea' = [SinPedido EXCEPT !.paso = "caido", !.archivo = a, !.valor = valor]
        PROVE  TipoTarea' /\ tarea'.paso = "caido"
    <3>1. tarea' = [paso |-> "caido", archivo |-> a, offset |-> 0, size |-> 0,
                    valor |-> valor, nro |-> 0, listados |-> << >>, hecho |-> 0,
                    j |-> 0, bloque |-> SinBloque, leido |-> << >>]
      BY <2>2 DEF SinPedido
    <3> QED BY <2>1, <3>1, TareaNueva
  <2>3. ASSUME NEW b, NEW nro,
               tarea' = [SinPedido EXCEPT
                      !.paso = "escribir", !.archivo = a, !.offset = acceso.offset,
                      !.size = acceso.size, !.valor = valor, !.nro = nro, !.j = nro,
                      !.listados = metadata[a].bloques, !.bloque = b]
        PROVE  TipoTarea' /\ tarea'.paso = "escribir"
    <3>1. tarea' = [paso |-> "escribir", archivo |-> a, offset |-> acceso.offset,
                    size |-> acceso.size, valor |-> valor, nro |-> nro,
                    listados |-> metadata[a].bloques, hecho |-> 0, j |-> nro,
                    bloque |-> b, leido |-> << >>]
      BY <2>3 DEF SinPedido
    <3> QED BY <2>1, <3>1, TareaNueva
  <2> QED BY <2>2, <2>3, PideTipo DEF guardarDatos
<1> QED BY <1>1, <1>2, SoloTarea DEF Toma, Baja, Arranca

(* The loop of a write moves no block. *)
LEMMA Escribe ==
  ASSUME Inv, escribirEnArchivo
  PROVE  Inv'
<1>1. /\ tarea.paso = "escribir" /\ tarea.archivo \in Archivos /\ Definido
      /\ UNCHANGED <<bitArray, bitmapBin, metadata, caidas, cortado>>
  BY DEF escribirEnArchivo, cuentas, Inv, Tipo, TipoTarea, Trabaja, Definido
<1>2. TipoTarea' /\ tarea'.paso \in {"aumentar", "reservar", "caido", "escribir"}
  <2>1. ASSUME NEW paso \in {"aumentar", "reservar"}, NEW hecho,
               tarea' = [tarea EXCEPT !.paso = paso, !.hecho = hecho]
        PROVE  TipoTarea' /\ tarea'.paso = paso
    <3>1. paso \in Pasos \ Toma
      BY DEF Pasos, Trabaja, Toma
    <3> QED BY <1>1, <2>1, <3>1 DEF Inv, Tipo, TipoTarea
  <2>2. ASSUME NEW paso \in {"caido", "escribir"}, NEW hecho, NEW b,
               tarea' = [tarea EXCEPT !.paso = paso, !.hecho = hecho, !.j = @ + 1, !.bloque = b]
        PROVE  TipoTarea' /\ tarea'.paso = paso
    <3>1. paso \in Pasos \ Toma
      BY DEF Pasos, Trabaja, Arranca, Toma
    <3> QED BY <1>1, <2>2, <3>1 DEF Inv, Tipo, TipoTarea
  <2> QED BY <1>1, <2>1, <2>2 DEF escribirEnArchivo
<1> QED BY <1>1, <1>2, SoloTarea DEF Toma, Baja, Arranca

(* The answer, and what follows one with data. *)
LEMMA Responde ==
  ASSUME Inv, enviar \/ liberar_paquete
  PROVE  Inv'
<1>1. /\ tarea.paso \in {"enviar", "leido"} /\ Definido
      /\ UNCHANGED <<bitArray, bitmapBin, metadata, caidas, cortado>>
  BY DEF enviar, liberar_paquete, disco, enDisco, cuentas, Definido
<1>2. CASE Indefinido
  BY <1>1, <1>2, SeIndefine
<1>3. CASE ~Indefinido
  <2>1. \E p \in {"recibir", "caido"} : tarea' = [SinPedido EXCEPT !.paso = p]
    BY <1>3 DEF enviar, liberar_paquete, SinPedido
  <2>2. TipoTarea' /\ tarea'.paso \in {"recibir", "caido"}
    BY <2>1, TareaSinPedido
  <2> QED BY <1>1, <2>2, SoloTarea DEF Toma, Baja, Arranca
<1> QED BY <1>2, <1>3

(* The start, until it reads the bitmap. *)
LEMMA Arrancando ==
  ASSUME Inv, iniciarMetadata \/ escribirMetadataBin
  PROVE  Inv'
<1>1. /\ tarea.paso \in {"caido", "metadataBin"} /\ Definido
      /\ UNCHANGED <<bitArray, bitmapBin, metadata, caidas, cortado>>
  BY DEF iniciarMetadata, escribirMetadataBin, disco, enDisco, cuentas, Definido
<1>2. TipoTarea' /\ tarea'.paso \in {"metadataBin", "bitmap"}
  <2>1. CASE iniciarMetadata
    BY <2>1, TareaSinPedido DEF iniciarMetadata
  <2>2. CASE escribirMetadataBin
    BY <2>2, Siguiente DEF escribirMetadataBin, Pasos, Arranca, Toma, Baja, Trabaja
  <2> QED BY <2>1, <2>2
<1> QED BY <1>1, <1>2, SoloTarea DEF Toma, Baja, Arranca

(* The map that is read is the one that was saved, whole or not; the first *)
(* time there are no files.                                                *)
LEMMA LeeBitmap ==
  ASSUME Inv, leerBitmap
  PROVE  Inv'
<1> USE DEF Inv
<1>1. /\ tarea.paso = "bitmap" /\ Definido
      /\ UNCHANGED <<metadata, caidas, cortado>> /\ bitmapBin' = bitArray'
      /\ bitArray' = IF bitmapBin = NoHay THEN BitmapNuevo ELSE bitmapBin
  BY DEF leerBitmap, cuentas, Definido
<1>2. TipoTarea' /\ tarea'.paso = "recibir"
  BY TareaSinPedido DEF leerBitmap, SinPedido
<1>3. BitmapNuevo \in [size : Nat, bits : SUBSET Bloques] /\ BitmapNuevo.bits = {}
  BY TamanioDelMapa DEF BitmapNuevo
<1>4. bitArray' \in [size : Nat, bits : SUBSET Bloques]
  BY <1>1, <1>3 DEF Tipo, TipoMapas
<1>5. (Tipo /\ ArchivoNuevo)'
  BY <1>1, <1>2, <1>4 DEF Tipo, TipoMapas, TipoMetadata, ArchivoNuevo
<1>6. bitmapBin' # NoHay
  BY <1>1, <1>4 DEF NoHay
<1>7. (Salvado /\ SinDisco)'
  BY <1>1, <1>2, <1>6 DEF Salvado, SinDisco, Luego, Arranca
<1>8. /\ \A c \in Archivos : DeArchivo(c)' = DeArchivo(c)
      /\ \A c \in Archivos : ~Borrando(c) /\ ~Borrando(c)'
  BY <1>1, <1>2 DEF DeArchivo, Borrando
<1>9. bitmapBin = NoHay => \A c \in Archivos : DeArchivo(c) = {}
  BY <1>1, Vacia DEF SinDisco, NoExiste, DeArchivo
<1>10. ASSUME ~cortado'
       PROVE  InvBloques'
  <2>1. InvBloques
    BY <1>1, <1>10
  <2>2. Sano' => Sano
    BY <1>1, <1>6 DEF Sano
  <2>3. Disjuntos => Disjuntos'
    BY <1>1, <1>8 DEF Disjuntos
  <2>4. (BloqueEnMano /\ PorBorrar)'
    BY <1>2 DEF BloqueEnMano, PorBorrar, Toma, Baja
  <2>5. Entero(bitArray') => CubreA(bitArray)'
    BY <1>1, <1>8, <1>9, <2>1 DEF InvBloques, CubreA
  <2> QED BY <1>1, <2>1, <2>2, <2>3, <2>4, <2>5 DEF InvBloques, CubreA
<1>11. ASSUME caidas' = 0
       PROVE  Justos'
  <2>1. Justos /\ bitmapBin \in {bitArray, NoHay}
    BY <1>1, <1>11 DEF Salvado, Arranca
  <2>2. CASE bitmapBin = NoHay
    BY <1>1, <1>3, <2>2 DEF Justos
  <2>3. CASE bitmapBin # NoHay
    <3>1. bitArray' = bitArray
      BY <1>1, <2>1, <2>3
    <3>2. \A b \in bitArray.bits : DeAlguno(b)
      BY <1>1, <2>1 DEF Justos, Toma, Baja
    <3> QED BY <1>8, <3>1, <3>2 DEF Justos, DeAlguno
  <2> QED BY <2>2, <2>3
<1> QED BY <1>1, <1>5, <1>7, <1>10, <1>11

(* A save of the bitmap that ends.                                         *)
LEMMA GuardaBitmap ==
  ASSUME Inv, escribirValorBitarray
  PROVE  Inv'
<1> USE DEF Inv
<1>1. /\ tarea.paso \in DOMAIN Luego /\ Definido /\ Sigue(Luego[tarea.paso])
      /\ bitmapBin' = bitArray /\ UNCHANGED <<bitArray, metadata, caidas, cortado>>
  BY DEF escribirValorBitarray, cuentas, Definido, Luego
<1>2. /\ Luego[tarea.paso] \in Pasos /\ tarea.archivo \in Archivos
      /\ Luego[tarea.paso] \in Toma <=> tarea.paso \in Toma
      /\ Luego[tarea.paso] \in Baja <=> tarea.paso \in Baja
      /\ Luego[tarea.paso] \in {"salvarAlta", "crear"} => tarea.paso = "salvarAlta"
      /\ Luego[tarea.paso] \notin DOMAIN Luego \cup Arranca \cup {"indefinido"}
  BY <1>1 DEF Luego, Pasos, Trabaja, Toma, Baja, Arranca, Tipo, TipoTarea
<1>3. tarea.paso \in Toma => tarea.bloque \in Bloques
  BY DEF Tipo, TipoTarea
<1>4. /\ TipoTarea' /\ tarea'.paso = Luego[tarea.paso] /\ tarea'.archivo = tarea.archivo
      /\ tarea'.bloque = tarea.bloque /\ tarea'.listados = tarea.listados
  BY <1>1, <1>2, <1>3, Siguiente
<1>5. (Tipo /\ ArchivoNuevo)'
  BY <1>1, <1>2, <1>4 DEF Tipo, TipoMetadata, TipoMapas, ArchivoNuevo
<1>6. bitArray # NoHay
  BY DEF Tipo, TipoMapas, NoHay
<1>7. (Salvado /\ SinDisco)'
  BY <1>1, <1>2, <1>4, <1>6 DEF Salvado, SinDisco
<1>8. /\ \A c \in Archivos : DeArchivo(c)' = DeArchivo(c)
      /\ \A c \in Archivos : Borrando(c)' <=> Borrando(c)
  BY <1>1, <1>2, <1>4 DEF DeArchivo, Borrando, Baja
<1>9. ASSUME ~cortado'
      PROVE  InvBloques'
  <2>1. InvBloques
    BY <1>1, <1>9
  <2>2. Sano' => Sano
    BY <1>1, <1>6 DEF Sano
  <2>3. Disjuntos => Disjuntos'
    BY <1>1, <1>8 DEF Disjuntos
  <2>4. /\ BloqueEnMano => BloqueEnMano'
        /\ PorBorrar => PorBorrar'
    BY <1>1, <1>2, <1>4, <1>8 DEF BloqueEnMano, PorBorrar, Tipo, TipoTarea, Trabaja
  <2>5. CubreA(bitArray) => CubreA(bitArray)' /\ CubreA(bitmapBin)'
    BY <1>1, <1>8 DEF CubreA
  <2> QED BY <1>1, <2>1, <2>2, <2>3, <2>4, <2>5 DEF InvBloques
<1>10. ASSUME caidas' = 0
       PROVE  Justos'
  <2>1. Justos
    BY <1>1, <1>10
  <2> QED BY <1>1, <1>2, <1>4, <1>8, <2>1 DEF Justos, DeAlguno
<1> QED BY <1>1, <1>5, <1>7, <1>9, <1>10

LEMMA Desborda ==
  ASSUME Inv, desbordar
  PROVE  Inv'
BY SeIndefine DEF desbordar, disco, enDisco, cuentas

(* What is left of a bitmap is the old one, or part of the one in memory,  *)
(* or part of the first.                                                   *)
LEMMA Restos ==
  ASSUME TipoMapas, bitmapBin' \in RestosDeBitmap
  PROVE  /\ bitmapBin' \in [size : Nat, bits : SUBSET Bloques] \cup {NoHay}
         /\ bitmapBin' = NoHay => bitmapBin = NoHay
         /\ Entero(bitmapBin') =>
              \/ Entero(bitmapBin) /\ bitmapBin'.bits = bitmapBin.bits
              \/ Entero(bitArray) /\ bitmapBin'.bits = bitArray.bits
              \/ bitmapBin = NoHay
<1>1. CASE bitmapBin' = bitmapBin
  BY <1>1 DEF TipoMapas
<1>2. ASSUME NEW n \in 0 .. bitArray.size, bitmapBin' = Prefijo(bitArray, n)
      PROVE  /\ bitmapBin' \in [size : Nat, bits : SUBSET Bloques]
             /\ Entero(bitmapBin') => Entero(bitArray) /\ bitmapBin'.bits = bitArray.bits
  BY <1>2, PrefijoEntero DEF TipoMapas
<1>3. ASSUME bitmapBin = NoHay, NEW n \in 0 .. SizeBitArray,
             bitmapBin' = Prefijo(BitmapNuevo, n)
      PROVE  bitmapBin' \in [size : Nat, bits : SUBSET Bloques]
  <2>1. /\ BitmapNuevo.size = SizeBitArray /\ BitmapNuevo.bits = {}
        /\ SizeBitArray \in Nat
    BY TamanioDelMapa DEF BitmapNuevo
  <2> QED BY <1>3, <2>1, PrefijoEntero
<1>4. \A mapa \in [size : Nat, bits : SUBSET Bloques] : mapa # NoHay
  BY DEF NoHay
<1> QED BY <1>1, <1>2, <1>3, <1>4 DEF RestosDeBitmap

(* A fall from outside: in a deletion, it stays written that it came.  A   *)
(* file whose metadata it cuts has no blocks; a bitmap it cuts is whole    *)
(* only if it has every bit.                                               *)
LEMMA Cayo ==
  ASSUME Inv, caer
  PROVE  Inv'
<1> USE DEF Inv
<1>1. /\ Definido /\ Sigue("caido") /\ bitArray' = bitArray
      /\ bitmapBin' \in RestosDeBitmap /\ metadata' \in RestosDeMetadata
  BY DEF caer, Definido
<1>2. TipoTarea' /\ tarea'.paso = "caido"
  BY <1>1, Siguiente DEF Pasos, Arranca, Trabaja, Toma, Baja
<1>3. caidas' \in Nat /\ caidas' > 0
  BY DEF caer, Tipo
<1>4. ~cortado' => ~cortado /\ \A c \in Archivos : ~Borrando(c)
  BY DEF caer
<1>5. /\ TipoMetadata'
      /\ \A c \in Archivos : metadata'[c] = metadata[c] \/ metadata'[c] = Cortado
      /\ bitmapBin = NoHay => metadata' = metadata
  <2>1. CASE metadata' = metadata
    BY <2>1 DEF Tipo, TipoMetadata
  <2>2. CASE SalvaMetadata /\ metadata' = [metadata EXCEPT ![tarea.archivo] = Cortado]
    <3>1. tarea.paso \in Trabaja /\ tarea.paso \notin Arranca
      BY <2>2 DEF SalvaMetadata, Trabaja, Arranca, Toma
    <3>2. tarea.archivo \in Archivos /\ bitmapBin # NoHay
      BY <1>1, <3>1, HayMapa DEF Tipo, TipoTarea
    <3>3. /\ metadata' = [c \in Archivos |-> metadata'[c]]
          /\ \A c \in Archivos : metadata'[c] = metadata[c] \/ metadata'[c] = Cortado
      BY <2>2, <3>2 DEF Tipo, TipoMetadata
    <3>4. Cortado \in [tamanio : {Cortado.tamanio}, bloques : Seq(Bloques)]
      BY DEF Cortado
    <3> QED BY <3>2, <3>3, <3>4 DEF Tipo, TipoMetadata
  <2> QED BY <1>1, <2>1, <2>2 DEF RestosDeMetadata
<1>6. \A c \in Archivos : /\ DeArchivo(c)' \subseteq DeArchivo(c)
                          /\ IsInjective(metadata[c].bloques) => IsInjective(metadata'[c].bloques)
  BY <1>5, Vacia DEF DeArchivo, Cortado
<1>7. /\ bitmapBin' \in [size : Nat, bits : SUBSET Bloques] \cup {NoHay}
      /\ bitmapBin' = NoHay => bitmapBin = NoHay
      /\ Entero(bitmapBin') =>
           \/ Entero(bitmapBin) /\ bitmapBin'.bits = bitmapBin.bits
           \/ Entero(bitArray) /\ bitmapBin'.bits = bitArray.bits
           \/ bitmapBin = NoHay
  BY <1>1, Restos DEF Tipo
<1>8. (Tipo /\ ArchivoNuevo)'
  BY <1>1, <1>2, <1>3, <1>5, <1>7 DEF Tipo, TipoMapas, ArchivoNuevo
<1>9. (Salvado /\ SinDisco)'
  BY <1>1, <1>2, <1>3, <1>5, <1>7 DEF Salvado, SinDisco, Luego, Arranca
<1>10. ASSUME ~cortado'
       PROVE  InvBloques'
  <2>1. InvBloques /\ \A c \in Archivos : ~Borrando(c) /\ ~Borrando(c)'
    BY <1>1, <1>2, <1>4, <1>10 DEF Borrando
  <2>2. Sano' => Sano
    BY <1>1, <1>7 DEF Sano
  <2>3. Disjuntos => Disjuntos'
    BY <1>6 DEF Disjuntos
  <2>4. (BloqueEnMano /\ PorBorrar)'
    BY <1>2 DEF BloqueEnMano, PorBorrar, Toma, Baja
  <2>5. CubreA(bitArray) => CubreA(bitArray)'
    BY <1>1, <1>6, <2>1 DEF CubreA
  <2>6. Entero(bitmapBin') => CubreA(bitmapBin)'
    <3>1. CASE bitmapBin = NoHay
      <4>1. \A c \in Archivos : DeArchivo(c) = {}
        BY <1>1, <3>1, Vacia DEF SinDisco, NoExiste, DeArchivo
      <4> QED BY <1>6, <4>1 DEF CubreA
    <3>2. CASE bitmapBin # NoHay
      BY <1>6, <1>7, <2>1, <3>2 DEF CubreA, InvBloques
    <3> QED BY <3>1, <3>2
  <2> QED BY <1>1, <2>1, <2>2, <2>3, <2>4, <2>5, <2>6 DEF InvBloques
<1> QED BY <1>3, <1>8, <1>9, <1>10

(* TAMANIO is not about blocks. *)
LEMMA CreceTamanio ==
  ASSUME Inv, aumentarTamanioArchivo
  PROVE  Inv'
<1>1. /\ tarea.paso = "aumentar" /\ tarea.archivo \in Archivos /\ Definido
      /\ UNCHANGED <<bitArray, bitmapBin, caidas, cortado>>
  BY DEF aumentarTamanioArchivo, cuentas, Inv, Tipo, TipoTarea, Trabaja, Definido
<1>2. TipoTarea' /\ tarea'.paso = "enviar"
  BY <1>1, Siguiente DEF aumentarTamanioArchivo, Pasos, Trabaja, Toma, Baja
<1>3. PICK t : metadata' = [metadata EXCEPT ![tarea.archivo].tamanio = t]
  BY DEF aumentarTamanioArchivo
<1>4. /\ metadata'[tarea.archivo] = [metadata[tarea.archivo] EXCEPT !.tamanio = t]
      /\ \A c \in Archivos : c # tarea.archivo => metadata'[c] = metadata[c]
  BY <1>1, <1>3 DEF Inv, Tipo, TipoMetadata
<1>5. TipoMetadata' /\ \A c \in Archivos : metadata'[c].bloques = metadata[c].bloques
  <2>1. /\ metadata'[tarea.archivo].bloques = metadata[tarea.archivo].bloques
        /\ metadata'[tarea.archivo] \in [tamanio : {metadata'[tarea.archivo].tamanio},
                                         bloques : Seq(Bloques)]
    BY <1>1, <1>4 DEF Inv, Tipo, TipoMetadata
  <2>2. metadata' = [c \in Archivos |-> metadata'[c]]
    BY <1>3 DEF Inv, Tipo, TipoMetadata
  <2> QED BY <1>4, <2>1, <2>2 DEF Inv, Tipo, TipoMetadata
<1>6. SinDisco'
  <2>1. bitmapBin # NoHay
    BY <1>1, HayMapa DEF Arranca
  <2> QED BY <1>1, <2>1 DEF SinDisco
<1> QED BY <1>1, <1>2, <1>5, <1>6, MismosBloques DEF Toma, Baja, Arranca

-----------------------------------------------------------------------------
(* The steps that move a block.                                            *)

(* A new block, marked first: for a new file, or for one that grows.  If   *)
(* the map is whole, no file has it.                                       *)
LEMMA Marca ==
  ASSUME Inv, tarea.paso \in {"recibir", "reservar"}, TipoTarea',
         NEW b \in buscarBloqueLibre, b # SinBloque, PoneBit(b),
         tarea'.bloque = b, tarea'.paso \in {"salvarAlta", "salvarNuevo"},
         ArchivoNuevo', UNCHANGED <<bitmapBin, metadata, caidas, cortado>>
  PROVE  Inv'
<1> USE DEF Inv
<1>1. /\ Definido /\ tarea.paso \notin Arranca /\ tarea'.paso \in DOMAIN Luego
      /\ tarea'.paso \in Toma /\ tarea'.paso \notin Baja
      /\ \A a \in Archivos : ~Borrando(a) /\ ~Borrando(a)'
  BY DEF Definido, Arranca, Luego, Toma, Baja, Borrando
<1>2. b \in Bloques /\ (Entero(bitArray) => b \notin bitArray.bits)
  BY BloqueLibre DEF Tipo
<1>3. /\ bitArray' \in [size : Nat, bits : SUBSET Bloques]
      /\ bitArray'.size = bitArray.size
      /\ bitArray'.bits = bitArray.bits \cup ({b} \cap Cubre(bitArray.size))
  BY <1>2 DEF PoneBit, Tipo, TipoMapas
<1>4. Tipo'
  BY <1>3 DEF Tipo, TipoMetadata, TipoMapas
<1>5. (Salvado /\ SinDisco)'
  <2>1. bitmapBin.size = bitArray.size
    BY <1>1, HayMapa
  <2> QED BY <1>1, <1>3, <2>1 DEF Salvado, SinDisco, Luego, Arranca
<1>6. Entero(bitArray') <=> Entero(bitArray)
  BY <1>3 DEF Entero
<1>7. \A a \in Archivos : DeArchivo(a)' = DeArchivo(a)
  BY DEF DeArchivo
<1>8. ASSUME ~cortado'
      PROVE  InvBloques'
  <2>1. InvBloques
    BY <1>1, <1>8
  <2>2. CubreA(bitArray) => CubreA(bitArray)'
    BY <1>1, <1>3, <1>7 DEF CubreA
  <2>3. CubreA(bitmapBin) => CubreA(bitmapBin)'
    BY <1>1, <1>7 DEF CubreA
  <2>4. ASSUME Sano'
        PROVE  (Disjuntos /\ BloqueEnMano /\ PorBorrar)'
    <3>1. Sano /\ Entero(bitArray) /\ Disjuntos /\ CubreA(bitArray)
      BY <1>1, <1>6, <2>1, <2>4, HayMapa DEF Sano, InvBloques
    <3>2. b \in bitArray'.bits /\ \A a \in Archivos : b \notin DeArchivo(a)
      BY <1>1, <1>2, <1>3, <3>1 DEF Entero, CubreA
    <3>3. Disjuntos'
      BY <1>7, <3>1 DEF Disjuntos
    <3> QED BY <1>1, <1>7, <3>2, <3>3 DEF BloqueEnMano, PorBorrar
  <2> QED BY <1>6, <2>1, <2>2, <2>3, <2>4 DEF InvBloques
<1>9. ASSUME caidas' = 0
      PROVE  Justos'
  <2>1. \A x \in bitArray.bits : DeAlguno(x)
    BY <1>1, <1>9 DEF Justos, Toma, Baja
  <2>2. \A x : DeAlguno(x) => DeAlguno(x)'
    BY <1>1, <1>7 DEF DeAlguno
  <2> QED BY <1>1, <1>3, <2>1, <2>2 DEF Justos
<1> QED BY <1>1, <1>4, <1>5, <1>8, <1>9

(* The block goes to its file: nobody else has it. *)
LEMMA Anota ==
  ASSUME Inv, tarea.paso \in {"crear", "anotar"}, NEW a \in Archivos, a = tarea.archivo,
         TipoTarea', TipoMetadata',
         tarea'.paso \in {"enviar", "escribir"},
         \A c \in Archivos : c # a => metadata'[c] = metadata[c],
         ToSet(metadata'[a].bloques) = ToSet(metadata[a].bloques) \cup {tarea.bloque},
         Sano /\ ~cortado => IsInjective(metadata'[a].bloques),
         UNCHANGED <<bitArray, bitmapBin, caidas, cortado>>
  PROVE  Inv'
<1> USE DEF Inv
<1>1. /\ Definido /\ tarea.paso \notin Arranca /\ tarea.paso \notin DOMAIN Luego
      /\ tarea'.paso \notin Toma /\ tarea'.paso \notin Baja
      /\ tarea.paso \in Toma /\ tarea.paso \notin Baja
      /\ tarea'.paso \notin Arranca \cup DOMAIN Luego
      /\ \A c \in Archivos : ~Borrando(c) /\ ~Borrando(c)'
  BY DEF Definido, Arranca, Luego, Toma, Baja, Borrando
<1>2. bitmapBin = bitArray /\ bitmapBin # NoHay /\ (Sano <=> Entero(bitArray))
  BY <1>1, HayMapa DEF Salvado
<1>3. (Tipo /\ ArchivoNuevo /\ Salvado /\ SinDisco)'
  BY <1>1, <1>2 DEF Tipo, TipoMapas, ArchivoNuevo, Salvado, SinDisco, Toma
<1>4. /\ DeArchivo(a)' = DeArchivo(a) \cup {tarea.bloque}
      /\ \A c \in Archivos : c # a => DeArchivo(c)' = DeArchivo(c)
  BY DEF DeArchivo
<1>5. ASSUME ~cortado'
      PROVE  InvBloques'
  <2>1. InvBloques
    BY <1>1, <1>5
  <2>2. ASSUME Entero(bitArray)
        PROVE  (Disjuntos /\ CubreA(bitArray))'
    <3>1. /\ Disjuntos /\ CubreA(bitArray) /\ tarea.bloque \in bitArray.bits
          /\ \A c \in Archivos : tarea.bloque \notin DeArchivo(c)
      BY <1>1, <1>2, <2>1, <2>2 DEF InvBloques, BloqueEnMano
    <3>2. CubreA(bitArray)'
      BY <1>1, <1>4, <3>1 DEF CubreA
    <3>3. Disjuntos'
      BY <1>2, <1>4, <1>5, <2>2, <3>1 DEF Disjuntos
    <3> QED BY <3>2, <3>3
  <2>3. (BloqueEnMano /\ PorBorrar)'
    BY <1>1 DEF BloqueEnMano, PorBorrar
  <2> QED BY <1>2, <2>2, <2>3 DEF InvBloques, Sano, CubreA
<1>6. ASSUME caidas' = 0
      PROVE  Justos'
  <2>1. \A b \in bitArray.bits : DeAlguno(b) \/ b = tarea.bloque
    BY <1>1, <1>6 DEF Justos
  <2>2. \A b : DeAlguno(b) \/ b = tarea.bloque => DeAlguno(b)'
    BY <1>1, <1>4 DEF DeAlguno
  <2> QED BY <2>1, <2>2 DEF Justos
<1> QED BY <1>1, <1>3, <1>5, <1>6

LEMMA PideAlta ==
  ASSUME Inv, NEW a \in Archivos, crearArchivo(a)
  PROVE  Inv'
<1>1. /\ tarea.paso = "recibir" /\ Definido
      /\ UNCHANGED <<bitmapBin, metadata, caidas, cortado>>
  BY DEF crearArchivo, Recibe, enDisco, Definido
<1>2. CASE Empieza(a, "enviar") /\ UNCHANGED bitArray
  <2>1. TipoTarea' /\ tarea'.paso = "enviar"
    BY <1>2, PideTipo
  <2> QED BY <1>1, <1>2, <2>1, SoloTarea DEF Toma, Baja, Arranca
<1>3. ASSUME ~Existe(a), NEW b \in buscarBloqueLibre, b # SinBloque, PoneBit(b),
             tarea' = [SinPedido EXCEPT !.paso = "salvarAlta", !.archivo = a, !.bloque = b]
      PROVE  Inv'
  <2>1. b \in Bloques
    BY <1>3, BloqueLibre DEF Inv, Tipo
  <2>2. /\ TipoTarea' /\ tarea'.paso = "salvarAlta" /\ tarea'.archivo = a
        /\ tarea'.bloque = b
    <3>1. tarea' = [paso |-> "salvarAlta", archivo |-> a, offset |-> 0, size |-> 0,
                    valor |-> 0, nro |-> 0, listados |-> << >>, hecho |-> 0,
                    j |-> 0, bloque |-> b, leido |-> << >>]
      BY <1>3 DEF SinPedido
    <3>2. << >> \in Seq(Bloques) /\ "salvarAlta" \in Pasos
      BY DEF Pasos, Trabaja, Toma
    <3> QED BY <2>1, <3>1, <3>2, TareaNueva
  <2>3. ArchivoNuevo'
    BY <1>1, <1>3, <2>2 DEF ArchivoNuevo, Existe
  <2> QED BY <1>1, <1>3, <2>2, <2>3, Marca
<1> QED BY <1>2, <1>3 DEF crearArchivo

LEMMA Reserva ==
  ASSUME Inv, reservarNuevoBloque
  PROVE  Inv'
<1>1. /\ tarea.paso = "reservar" /\ tarea.archivo \in Archivos /\ Definido
      /\ UNCHANGED <<bitmapBin, metadata, caidas, cortado>>
  BY DEF reservarNuevoBloque, enDisco, cuentas, Inv, Tipo, TipoTarea, Trabaja, Definido
<1>2. CASE Sigue("enviar") /\ UNCHANGED bitArray
  <2>1. TipoTarea' /\ tarea'.paso = "enviar"
    BY <1>1, <1>2, Siguiente DEF Pasos, Trabaja, Toma, Baja
  <2> QED BY <1>1, <1>2, <2>1, SoloTarea DEF Toma, Baja, Arranca
<1>3. ASSUME NEW b \in buscarBloqueLibre, b # SinBloque, PoneBit(b),
             tarea' = [tarea EXCEPT !.paso = "salvarNuevo", !.bloque = b]
      PROVE  Inv'
  <2>1. b \in Bloques
    BY <1>3, BloqueLibre DEF Inv, Tipo
  <2>2. TipoTarea' /\ tarea'.paso = "salvarNuevo" /\ tarea'.bloque = b
    BY <1>1, <1>3, <2>1 DEF Inv, Tipo, TipoTarea, Pasos, Trabaja, Toma
  <2>3. ArchivoNuevo'
    BY <2>2 DEF ArchivoNuevo
  <2> QED BY <1>1, <1>3, <2>2, <2>3, Marca
<1> QED BY <1>2, <1>3 DEF reservarNuevoBloque

LEMMA CreaMetadata ==
  ASSUME Inv, crearMetadata
  PROVE  Inv'
<1> DEFINE a == tarea.archivo
<1>1. /\ tarea.paso = "crear" /\ a \in Archivos /\ tarea.bloque \in Bloques
      /\ UNCHANGED <<bitArray, bitmapBin, caidas, cortado>>
  BY DEF crearMetadata, cuentas, Inv, Tipo, TipoTarea, Trabaja, Toma
<1>2. TipoTarea' /\ tarea'.paso = "enviar"
  BY <1>1, Siguiente DEF crearMetadata, Pasos, Trabaja, Toma, Baja
<1>3. /\ metadata' = [metadata EXCEPT ![a] = [tamanio |-> 0, bloques |-> <<tarea.bloque>>]]
      /\ <<tarea.bloque>> \in Seq(Bloques)
  BY <1>1 DEF crearMetadata
<1>4. TipoMetadata' /\ metadata'[a].bloques = <<tarea.bloque>>
      /\ \A c \in Archivos : c # a => metadata'[c] = metadata[c]
  BY <1>1, <1>3 DEF Inv, Tipo, TipoMetadata
<1>5. metadata[a].bloques = << >>
  BY <1>1 DEF Inv, ArchivoNuevo, NoExiste
<1>6. ToSet(metadata'[a].bloques) = ToSet(metadata[a].bloques) \cup {tarea.bloque}
      /\ IsInjective(metadata'[a].bloques)
  BY <1>4, <1>5, Vacia, UnoSolo
<1> QED BY <1>1, <1>2, <1>4, <1>6, Anota

LEMMA AnotaBloque ==
  ASSUME Inv, anotarBloque
  PROVE  Inv'
<1> DEFINE a == tarea.archivo
           l == metadata[a].bloques
<1>1. /\ tarea.paso = "anotar" /\ a \in Archivos /\ tarea.bloque \in Bloques
      /\ l \in Seq(Bloques) /\ Definido
      /\ UNCHANGED <<bitArray, bitmapBin, caidas, cortado>>
  BY DEF anotarBloque, cuentas, Inv, Tipo, TipoTarea, TipoMetadata, Trabaja, Toma, Definido
<1>2. TipoTarea' /\ tarea'.paso = "escribir"
  BY <1>1, Siguiente DEF anotarBloque, Pasos, Trabaja, Toma, Baja
<1>3. metadata' = [metadata EXCEPT ![a].bloques = Append(l, tarea.bloque)]
  BY <1>1 DEF anotarBloque, Inv, Tipo, TipoMetadata
<1>4. /\ Append(l, tarea.bloque) \in Seq(Bloques)
      /\ ToSet(Append(l, tarea.bloque)) = ToSet(l) \cup {tarea.bloque}
      /\ IsInjective(l) /\ tarea.bloque \notin ToSet(l)
           => IsInjective(Append(l, tarea.bloque))
  BY <1>1, Agregado
<1>5. /\ metadata'[a] = [metadata[a] EXCEPT !.bloques = Append(l, tarea.bloque)]
      /\ metadata' = [c \in Archivos |-> metadata'[c]]
      /\ \A c \in Archivos : c # a => metadata'[c] = metadata[c]
  BY <1>1, <1>3 DEF Inv, Tipo, TipoMetadata
<1>6. /\ metadata'[a].bloques = Append(l, tarea.bloque)
      /\ metadata'[a] \in [tamanio : {metadata'[a].tamanio}, bloques : Seq(Bloques)]
  BY <1>1, <1>4, <1>5 DEF Inv, Tipo, TipoMetadata
<1>7. TipoMetadata'
  BY <1>5, <1>6 DEF Inv, Tipo, TipoMetadata
<1>8. ASSUME Sano, ~cortado
      PROVE  IsInjective(metadata'[a].bloques)
  <2>1. Disjuntos /\ BloqueEnMano
    BY <1>1, <1>8 DEF Inv, InvBloques
  <2> QED BY <1>1, <1>4, <1>6, <2>1 DEF Disjuntos, BloqueEnMano, DeArchivo, Toma
<1>9. ToSet(metadata'[a].bloques) = ToSet(metadata[a].bloques) \cup {tarea.bloque}
  BY <1>4, <1>6
<1> QED BY <1>1, <1>2, <1>5, <1>7, <1>8, <1>9, Anota

LEMMA PideBaja ==
  ASSUME Inv, NEW a \in Archivos, borrarArchivo(a)
  PROVE  Inv'
<1> USE DEF Inv
<1>1. /\ tarea.paso = "recibir" /\ Definido
      /\ UNCHANGED <<bitArray, bitmapBin, metadata, caidas, cortado>>
  BY DEF borrarArchivo, Recibe, disco, enDisco, Definido
<1>2. CASE \E p \in {"enviar", "caido"} : Empieza(a, p)
  <2>1. TipoTarea' /\ tarea'.paso \in {"enviar", "caido"}
    BY <1>2, PideTipo
  <2> QED BY <1>1, <2>1, SoloTarea DEF Toma, Baja, Arranca
<1>3. CASE tarea' = [SinPedido EXCEPT !.paso = "borrar", !.archivo = a,
                                      !.listados = metadata[a].bloques]
  <2>1. tarea' = [paso |-> "borrar", archivo |-> a, offset |-> 0, size |-> 0,
                  valor |-> 0, nro |-> 0, listados |-> metadata[a].bloques,
                  hecho |-> 0, j |-> 0, bloque |-> SinBloque, leido |-> << >>]
    BY <1>3 DEF SinPedido
  <2>2. /\ TipoTarea' /\ tarea'.paso = "borrar" /\ tarea'.archivo = a
        /\ tarea'.listados = metadata[a].bloques
    <3>1. metadata[a].bloques \in Seq(Bloques) /\ "borrar" \in Pasos /\ "borrar" \notin Toma
      BY DEF Tipo, TipoMetadata, Pasos, Trabaja, Baja, Toma
    <3> QED BY <2>1, <3>1, TareaNueva
  <2>3. (Tipo /\ ArchivoNuevo /\ Salvado /\ SinDisco)'
    BY <1>1, <2>2 DEF Tipo, TipoMetadata, TipoMapas, ArchivoNuevo, Salvado, SinDisco,
                      Luego, Arranca
  <2>4. /\ \A c \in Archivos : DeArchivo(c)' = DeArchivo(c)
        /\ \A c \in Archivos : Borrando(c)' <=> c = a
        /\ \A c \in Archivos : ~Borrando(c)
        /\ ToSet(tarea'.listados) = DeArchivo(a)
    BY <1>1, <2>2 DEF DeArchivo, Borrando
  <2>5. ASSUME ~cortado'
        PROVE  InvBloques'
    <3>1. InvBloques
      BY <1>1, <2>5
    <3>2. Sano' => Sano
      BY <1>1 DEF Sano
    <3>3. /\ Disjuntos => Disjuntos'
          /\ CubreA(bitArray) => CubreA(bitArray)'
          /\ CubreA(bitmapBin) => CubreA(bitmapBin)'
      BY <1>1, <2>4 DEF Disjuntos, CubreA
    <3>4. (BloqueEnMano /\ PorBorrar)'
      BY <2>2, <2>4 DEF BloqueEnMano, PorBorrar, Toma
    <3> QED BY <1>1, <3>1, <3>2, <3>3, <3>4 DEF InvBloques
  <2>6. ASSUME caidas' = 0
        PROVE  Justos'
    <3>1. \A b \in bitArray.bits : DeAlguno(b)
      BY <1>1, <2>6 DEF Justos, Toma, Baja
    <3>2. tarea'.paso \in Baja
      BY <2>2 DEF Baja
    <3> QED BY <1>1, <2>4, <3>1, <3>2 DEF Justos, DeAlguno
  <2> QED BY <1>1, <2>3, <2>5, <2>6
<1> QED BY <1>2, <1>3 DEF borrarArchivo

(* A bit cleared is of the file being deleted, and of no other. *)
LEMMA Libera ==
  ASSUME Inv, liberarBloque
  PROVE  Inv'
<1> USE DEF Inv
<1> DEFINE a == tarea.archivo
           h == Head(tarea.listados)
           t == Tail(tarea.listados)
<1>1. /\ tarea.paso = "borrar" /\ a \in Archivos /\ Definido
      /\ tarea.listados \in Seq(Bloques) /\ tarea.listados # << >>
      /\ UNCHANGED <<bitmapBin, metadata, caidas, cortado>>
      /\ bitArray' = [bitArray EXCEPT !.bits = @ \ {h}]
  BY DEF liberarBloque, enDisco, cuentas, Tipo, TipoTarea, Trabaja, Baja, Definido
<1>2. t \in Seq(Bloques) /\ ToSet(tarea.listados) = {h} \cup ToSet(t)
  BY <1>1, Partes
<1>3. tarea' = [tarea EXCEPT !.paso = "salvarBaja", !.bloque = h, !.listados = t]
  BY DEF liberarBloque, Tipo, TipoTarea
<1> HIDE DEF h, t
<1>4. /\ TipoTarea' /\ tarea'.paso = "salvarBaja" /\ tarea'.archivo = a
      /\ tarea'.listados = t
  BY <1>1, <1>2, <1>3 DEF Tipo, TipoTarea, Pasos, Trabaja, Baja, Toma
<1>5. /\ bitArray' \in [size : Nat, bits : SUBSET Bloques]
      /\ bitArray'.size = bitArray.size /\ bitArray'.bits = bitArray.bits \ {h}
  BY <1>1 DEF Tipo, TipoMapas
<1>6. (Tipo /\ ArchivoNuevo)'
  BY <1>1, <1>4, <1>5 DEF Tipo, TipoMetadata, TipoMapas, ArchivoNuevo
<1>7. bitmapBin.size = bitArray.size /\ bitmapBin # NoHay /\ (Sano <=> Entero(bitArray))
  BY <1>1, HayMapa DEF Arranca
<1>8. (Salvado /\ SinDisco)'
  BY <1>1, <1>4, <1>5, <1>7 DEF Salvado, SinDisco, Luego, Arranca
<1>9. /\ \A c \in Archivos : DeArchivo(c)' = DeArchivo(c)
      /\ \A c \in Archivos : (Borrando(c)' <=> c = a) /\ (Borrando(c) <=> c = a)
  BY <1>1, <1>4 DEF DeArchivo, Borrando
<1>10. Entero(bitArray') <=> Entero(bitArray)
  BY <1>5 DEF Entero
<1>11. ASSUME ~cortado'
       PROVE  InvBloques'
  <2>1. InvBloques
    BY <1>1, <1>11
  <2>2. CubreA(bitmapBin) => CubreA(bitmapBin)'
    BY <1>1, <1>9 DEF CubreA
  <2>3. ASSUME Entero(bitArray)
        PROVE  (Disjuntos /\ BloqueEnMano /\ PorBorrar /\ CubreA(bitArray))'
    <3>1. Disjuntos /\ CubreA(bitArray) /\ PorBorrar
      BY <1>7, <2>1, <2>3 DEF InvBloques
    <3>2. h \in DeArchivo(a) /\ ToSet(t) \subseteq DeArchivo(a)
      BY <1>1, <1>2, <3>1 DEF PorBorrar, Baja
    <3>3. CubreA(bitArray)'
      <4> SUFFICES ASSUME NEW c \in Archivos, c # a
                   PROVE  DeArchivo(c) \subseteq bitArray.bits \ {h}
        BY <1>5, <1>9 DEF CubreA
      <4>1. DeArchivo(c) \subseteq bitArray.bits /\ DeArchivo(c) \cap DeArchivo(a) = {}
        BY <1>1, <1>9, <3>1 DEF CubreA, Disjuntos
      <4> QED BY <3>2, <4>1
    <3>4. (Disjuntos /\ BloqueEnMano /\ PorBorrar)'
      BY <1>1, <1>4, <1>9, <3>1, <3>2 DEF Disjuntos, BloqueEnMano, PorBorrar, Toma
    <3> QED BY <3>3, <3>4
  <2>4. Sano' => Entero(bitArray)
    BY <1>1, <1>7, <1>10 DEF Sano, Entero
  <2> QED BY <1>1, <1>10, <2>1, <2>2, <2>3, <2>4 DEF InvBloques
<1>12. ASSUME caidas' = 0
       PROVE  Justos'
  <2>1. \A b \in bitArray.bits : DeAlguno(b) \/ b \in ToSet(tarea.listados)
    BY <1>1, <1>12 DEF Justos, Toma
  <2>2. \A b : DeAlguno(b) => DeAlguno(b)'
    BY <1>9 DEF DeAlguno
  <2>3. tarea'.paso \in Baja
    BY <1>4 DEF Baja
  <2> QED BY <1>2, <1>4, <1>5, <2>1, <2>2, <2>3 DEF Justos
<1> QED BY <1>1, <1>6, <1>8, <1>11, <1>12

LEMMA TerminaBaja ==
  ASSUME Inv, unlink
  PROVE  Inv'
<1> USE DEF Inv
<1>0. PICK a \in Archivos : a = tarea.archivo
  BY DEF unlink, Tipo, TipoTarea, Trabaja, Baja
<1>1. /\ tarea.paso = "borrar" /\ tarea.archivo = a /\ tarea.listados = << >>
      /\ Definido /\ UNCHANGED <<bitArray, bitmapBin, caidas, cortado>>
      /\ metadata' = [metadata EXCEPT ![a] = NoExiste]
  BY <1>0 DEF unlink, cuentas, Definido
<1>2. TipoTarea' /\ tarea'.paso = "enviar"
  BY Siguiente DEF unlink, Pasos, Trabaja, Toma, Baja
<1>3. /\ TipoMetadata' /\ metadata'[a].bloques = << >>
      /\ \A c \in Archivos : c # a => metadata'[c] = metadata[c]
  <2>1. /\ metadata'[a] = [tamanio |-> -1, bloques |-> << >>]
        /\ metadata' = [c \in Archivos |-> metadata'[c]]
        /\ \A c \in Archivos : c # a => metadata'[c] = metadata[c]
    BY <1>1 DEF Tipo, TipoMetadata, NoExiste
  <2>2. /\ metadata'[a].bloques = << >>
        /\ metadata'[a] \in [tamanio : {metadata'[a].tamanio}, bloques : Seq(Bloques)]
    BY <2>1, EmptySeq
  <2> QED BY <2>1, <2>2 DEF Tipo, TipoMetadata
<1>4. bitmapBin = bitArray /\ bitmapBin # NoHay
  BY <1>1, HayMapa DEF Salvado, Luego, Arranca
<1>5. (Tipo /\ ArchivoNuevo /\ Salvado /\ SinDisco)'
  BY <1>1, <1>2, <1>3, <1>4 DEF Tipo, TipoMapas, ArchivoNuevo, Salvado, SinDisco, Luego,
                               Arranca
<1>6. /\ DeArchivo(a)' = {}
      /\ \A c \in Archivos : c # a => DeArchivo(c)' = DeArchivo(c)
      /\ \A c \in Archivos : ~Borrando(c)' /\ (Borrando(c) <=> c = a)
  <2>1. DeArchivo(a)' = {}
    BY <1>3, Vacia DEF DeArchivo
  <2>2. \A c \in Archivos : c # a => DeArchivo(c)' = DeArchivo(c)
    BY <1>3 DEF DeArchivo
  <2>3. \A c \in Archivos : ~Borrando(c)' /\ (Borrando(c) <=> c = a)
    BY <1>1, <1>2 DEF Borrando
  <2> QED BY <2>1, <2>2, <2>3
<1>7. ASSUME ~cortado'
      PROVE  InvBloques'
  <2>1. InvBloques
    BY <1>1, <1>7
  <2>2. CubreA(bitArray) => CubreA(bitArray)'
    <3> SUFFICES ASSUME CubreA(bitArray), NEW c \in Archivos
                 PROVE  (Borrando(c) \/ DeArchivo(c) \subseteq bitArray.bits)'
      BY DEF CubreA
    <3> QED BY <1>1, <1>6 DEF CubreA
  <2>3. Disjuntos => Disjuntos'
    <3>1. ASSUME Disjuntos, NEW c \in Archivos, NEW d \in Archivos, c # d
          PROVE  DeArchivo(c)' \cap DeArchivo(d)' = {}
      BY <1>6, <3>1 DEF Disjuntos
    <3>2. ASSUME Disjuntos, NEW c \in Archivos
          PROVE  IsInjective(metadata'[c].bloques)
      BY <1>3, <3>2, Vacia DEF Disjuntos
    <3> QED BY <3>1, <3>2 DEF Disjuntos
  <2>4. Sano' => Sano
    BY <1>1 DEF Sano
  <2>5. (BloqueEnMano /\ PorBorrar)'
    BY <1>2 DEF BloqueEnMano, PorBorrar, Toma, Baja
  <2> QED BY <1>1, <1>4, <2>1, <2>2, <2>3, <2>4, <2>5 DEF InvBloques, CubreA
<1>8. ASSUME caidas' = 0
      PROVE  Justos'
  <2>1. \A b \in bitArray.bits : DeAlguno(b)
    BY <1>1, <1>8, Vacia DEF Justos, Toma
  <2>2. \A b : DeAlguno(b) => DeAlguno(b)'
    BY <1>6 DEF DeAlguno
  <2> QED BY <1>1, <2>1, <2>2 DEF Justos
<1> QED BY <1>1, <1>5, <1>7, <1>8

-----------------------------------------------------------------------------
LEMMA PasoFS == Inv /\ [Next]_vars => Inv'
<1> SUFFICES ASSUME Inv, [Next]_vars
             PROVE  Inv'
  OBVIOUS
<1>1. ASSUME NEW a \in Archivos, Pedido(a)
      PROVE  Inv'
  BY <1>1, PideAlta, PideBaja, PideLectura, PideEscritura DEF Pedido
<1>2. CASE escribirValorBitarray \/ desbordar
  BY <1>2, GuardaBitmap, Desborda
<1>3. CASE crearMetadata \/ liberarBloque \/ unlink
  BY <1>3, CreaMetadata, Libera, TerminaBaja
<1>4. CASE escribirEnArchivo \/ reservarNuevoBloque \/ anotarBloque
  BY <1>4, Escribe, Reserva, AnotaBloque
<1>5. CASE aumentarTamanioArchivo \/ liberar_paquete \/ enviar
  BY <1>5, CreceTamanio, Responde
<1>6. CASE caer \/ iniciarMetadata \/ escribirMetadataBin \/ leerBitmap
  BY <1>6, Cayo, Arrancando, LeeBitmap
<1>7. CASE UNCHANGED vars
  <2>1. UNCHANGED <<bitArray, bitmapBin, metadata, tarea, caidas, cortado>>
    BY <1>7 DEF vars, disco, enDisco, cuentas
  <2>2. Tipo' /\ ArchivoNuevo' /\ (Definido' <=> Definido)
    BY <2>1 DEF Inv, Tipo, TipoTarea, TipoMetadata, TipoMapas, ArchivoNuevo, Definido
  <2>3. /\ Salvado => Salvado'
        /\ SinDisco => SinDisco'
    BY <2>1 DEF Salvado, SinDisco
  <2>4. InvBloques => InvBloques'
    BY <2>1 DEF InvBloques, Sano, CubreA, Disjuntos, BloqueEnMano, PorBorrar, Borrando,
                DeArchivo
  <2>5. Justos => Justos'
    BY <2>1 DEF Justos, DeAlguno, Borrando, DeArchivo
  <2> QED BY <2>1, <2>2, <2>3, <2>4, <2>5 DEF Inv
<1> QED BY <1>1, <1>2, <1>3, <1>4, <1>5, <1>6, <1>7 DEF Next

LEMMA InvFS == Spec => []Inv
BY InicioFS, PasoFS, PTL DEF Spec

(* No block is in two files nor twice in one, for any number of blocks,    *)
(* files and requests, and falls at any step, in the middle of a save too: *)
(* before the metadata has it the block is marked, in memory and on disk,  *)
(* and in the hand of one request (crearArchivo, reservarNuevoBloque).  It *)
(* says nothing after a fall in a deletion or in a save longer than a      *)
(* buffer, with a Bitmap.bin shorter than the blocks (cut by a fall in its *)
(* save, or by sizeBitArray), or after undefined behaviour.                *)
THEOREM BloquesSinCompartir == Spec => []BloquesDisjuntos
<1>1. Inv => BloquesDisjuntos
  BY DEF Inv, InvBloques, Sano, Disjuntos, BloquesDisjuntos
<1> QED BY <1>1, InvFS, PTL

(* What a whole bitmap says is free is free, in memory and on disk, after  *)
(* falls at any step but in a deletion or in a save longer than a buffer.  *)
(* And while the process has not been stopped from outside, between two    *)
(* requests its bits are those of the files: a write that fails half way   *)
(* loses no block (guardarDatos).  As above, a bitmap cut short by a fall  *)
(* or by sizeBitArray, and undefined behaviour, are outside.               *)
THEOREM BitmapCorrecto == Spec => []BitmapExacto
<1>1. Inv => BitmapExacto
  <2> SUFFICES ASSUME Inv, Definido PROVE BitmapExacto
    BY DEF BitmapExacto
  <2>1. ASSUME ~cortado, NEW mapa \in {bitArray, bitmapBin}, Entero(mapa), NEW a \in Archivos
        PROVE  Borrando(a) \/ DeArchivo(a) \subseteq mapa.bits
    BY <2>1 DEF Inv, InvBloques, CubreA
  <2>2. ASSUME caidas = 0, Entero(bitArray), tarea.paso \in {"recibir", "enviar"}
        PROVE  bitArray.bits = UNION {DeArchivo(a) : a \in Archivos}
    <3>1. ~cortado
      BY <2>2 DEF Inv, Tipo
    <3>2. \A a \in Archivos : DeArchivo(a) \subseteq bitArray.bits
      BY <2>1, <2>2, <3>1 DEF Borrando
    <3>3. \A b \in bitArray.bits : \E a \in Archivos : b \in DeArchivo(a)
      BY <2>2 DEF Inv, Justos, DeAlguno, Toma, Baja
    <3> QED BY <3>2, <3>3
  <2> QED BY <2>1, <2>2 DEF BitmapExacto
<1> QED BY <1>1, InvFS, PTL

-----------------------------------------------------------------------------
(* The contents.  The bytes of a file are in the block of its array that   *)
(* their position says.                                                    *)
Byte(a, i) == bloques[metadata[a].bloques[i \div TAMANIO_BLOQUES + 1]][i % TAMANIO_BLOQUES]
EnSuLugar(a) ==
    metadata[a] # Cortado =>
      \A i \in Offsets : escrito[a][i] # -1 =>
        /\ i \div TAMANIO_BLOQUES < Len(metadata[a].bloques)
        /\ Byte(a, i) = escrito[a][i]

(* A file that can be read has a block, so does one that is being written; *)
(* one that cannot was cut by a fall.                                      *)
Escribiendo == {"escribir", "reservar", "salvarNuevo", "anotar", "aumentar"}
ConBloques ==
    /\ \A a \in Archivos : Legible(a) => metadata[a].bloques # << >>
    /\ \A a \in Archivos : metadata[a] = Cortado => caidas > 0
    /\ tarea.paso \in Escribiendo =>
         metadata[tarea.archivo].bloques # << >> /\ tarea.valor \in Valores
TipoContenido ==
    /\ bloques \in [Bloques -> [BytesDeBloque -> Valores \cup {0}]]
    /\ escrito \in [Archivos -> [Offsets -> Valores \cup {-1}]]
    /\ tarea.leido # << >> => tarea.paso \in {"leido", "caido"}

(* A write under way has written whole blocks, c of them, and goes on with *)
(* the next: the one it will add, if the array it read has one element, or *)
(* the next of an array where all of it fits.                              *)
EscribeBien(lista, c) ==
    /\ tarea.hecho = c * TAMANIO_BLOQUES /\ tarea.hecho < tarea.size
    /\ \/ /\ Len(tarea.listados) = 1
          /\ Len(lista) = c + (IF tarea.paso = "escribir" THEN 1 ELSE 0)
       \/ /\ tarea.paso = "escribir" /\ tarea.listados = lista /\ tarea.j = c
          /\ Tramos(tarea.size) <= Len(lista)
    /\ tarea.paso = "escribir" => c < Len(lista) /\ tarea.bloque = lista[c + 1]
PedidoDeEscribir ==
    /\ tarea.offset \in Nat /\ tarea.size \in Nat \ {0} /\ tarea.nro = 0
    /\ tarea.offset = 0 \/ tarea.offset + tarea.size <= TAMANIO_BLOQUES
Escritura ==
    tarea.paso \in {"escribir", "reservar", "salvarNuevo", "anotar"} =>
        /\ PedidoDeEscribir
        /\ \E c \in Nat : EscribeBien(metadata[tarea.archivo].bloques, c)

(* While this holds, the bytes are where they should be.                   *)
Fiel == ~cruzado /\ ~cortado /\ Sano
InvContenido ==
    /\ TipoContenido /\ ConBloques
    /\ ~cruzado => NoCae
    /\ ~cruzado /\ ~cortado => Escritura
    /\ Fiel => (\A a \in Archivos : EnSuLugar(a)) /\ LeeLuegoDelCursor

-----------------------------------------------------------------------------
(* Blocks and bytes.                                                       *)

LEMMA Division ==
  ASSUME NEW n \in Nat
  PROVE  /\ n \div TAMANIO_BLOQUES \in Nat /\ n % TAMANIO_BLOQUES \in 0 .. TAMANIO_BLOQUES - 1
         /\ n = (n \div TAMANIO_BLOQUES) * TAMANIO_BLOQUES + (n % TAMANIO_BLOQUES)
BY BloquesAssumption

LEMMA DivisionUnica ==
  ASSUME NEW c \in Nat, NEW x \in 0 .. TAMANIO_BLOQUES - 1
  PROVE  /\ c * TAMANIO_BLOQUES + x \in Nat
         /\ (c * TAMANIO_BLOQUES + x) \div TAMANIO_BLOQUES = c
         /\ (c * TAMANIO_BLOQUES + x) % TAMANIO_BLOQUES = x
<1>1. c * TAMANIO_BLOQUES \in Nat
  BY BloquesAssumption
<1> QED BY <1>1, BloquesAssumption

LEMMA Multiplos ==
  ASSUME NEW c \in Nat, NEW d \in Nat
  PROVE  /\ c * TAMANIO_BLOQUES \in Nat
         /\ (c + 1) * TAMANIO_BLOQUES = c * TAMANIO_BLOQUES + TAMANIO_BLOQUES
         /\ c <= d => c * TAMANIO_BLOQUES <= d * TAMANIO_BLOQUES
         /\ 0 * TAMANIO_BLOQUES = 0
BY BloquesAssumption

(* The chunks of n bytes are more than the blocks those bytes fill.        *)
LEMMA TramosAlcanzan ==
  ASSUME NEW n \in Nat, NEW c \in Nat, c * TAMANIO_BLOQUES < n
  PROVE  Tramos(n) \in Nat /\ c < Tramos(n)
<1> DEFINE m == n + TAMANIO_BLOQUES - 1
           q == m \div TAMANIO_BLOQUES
<1>1. m \in Nat
  BY BloquesAssumption
<1>2. /\ q \in Nat /\ m % TAMANIO_BLOQUES \in 0 .. TAMANIO_BLOQUES - 1
      /\ m = q * TAMANIO_BLOQUES + (m % TAMANIO_BLOQUES)
  BY <1>1, Division
<1>3. Tramos(n) = q
  BY DEF Tramos
<1>4. ASSUME q <= c
      PROVE  FALSE
  <2>1. q * TAMANIO_BLOQUES <= c * TAMANIO_BLOQUES /\ q * TAMANIO_BLOQUES \in Nat
        /\ c * TAMANIO_BLOQUES \in Nat
    BY <1>2, <1>4, Multiplos
  <2> HIDE DEF q
  <2> QED BY <1>2, <2>1, BloquesAssumption
<1> QED BY <1>2, <1>3, <1>4

LEMMA MenorDeDos ==
  ASSUME NEW x \in Nat, NEW y \in Nat
  PROVE  Min({x, y}) = IF x <= y THEN x ELSE y
<1>1. Min({x, y}) \in {x, y} /\ \A z \in {x, y} : Min({x, y}) <= z
  BY MinExiste
<1> QED BY <1>1

(* The history reaches every byte that is read.                            *)
LEMMA OffsetsAlcanzan ==
  /\ Offsets \subseteq Nat
  /\ \A acceso \in Lecturas : \A k \in 1 .. acceso.size : k - 1 \in Offsets
<1> DEFINE A == Accesos \cup Lecturas
           f == [a \in A |-> a.offset + a.size]
           S == {a.offset + a.size : a \in A}
           T == S \cup {0}
<1>1. \A a \in A : a.offset \in Nat /\ a.size \in Nat
  BY AccesosAssumption
<1>2. T \in SUBSET Nat /\ T # {}
  BY <1>1
<1>3. IsFiniteSet(T)
  <2>1. IsFiniteSet(A)
    BY AccesosAssumption, FS_Union
  <2>2. f \in Surjection(A, S)
    BY DEF Surjection
  <2>3. IsFiniteSet(S)
    BY <2>1, <2>2, FS_Surjection
  <2> QED BY <2>3, FS_AddElement
<1>4. \A a \in A : a.offset + a.size \in T
  OBVIOUS
<1>5. Offsets = 0 .. Max(T)
  BY DEF Offsets
<1> HIDE DEF T
<1>6. PICK b \in Nat : \A x \in T : x <= b
  BY <1>2, <1>3, FinitoAcotado
<1>7. T \in SUBSET (0 .. b)
  BY <1>2, <1>6
<1>8. Max(T) \in T /\ \A x \in T : x <= Max(T)
  BY <1>2, <1>7, MaxExiste
<1>9. Max(T) \in Nat
  BY <1>2, <1>8
<1>10. ASSUME NEW acceso \in Lecturas, NEW k \in 1 .. acceso.size
       PROVE  k - 1 \in Offsets
  <2>1. acceso.offset = 0 /\ acceso.size \in Nat
    BY AccesosAssumption
  <2>2. acceso.offset + acceso.size <= Max(T)
    BY <1>4, <1>8
  <2> QED BY <1>5, <1>9, <2>1, <2>2
<1> QED BY <1>5, <1>9, <1>10

-----------------------------------------------------------------------------
(* A map that is not whole is not whole again.                             *)
LEMMA SanoAntes ==
  ASSUME Inv, [Next]_vars
  PROVE  Sano' => Sano
<1>1. CASE UNCHANGED <<bitArray, bitmapBin>>
  BY <1>1 DEF Sano
<1>2. CASE tarea.paso \in {"recibir", "reservar", "borrar"} /\ bitmapBin' = bitmapBin
           /\ \E bits : bitArray' = [bitArray EXCEPT !.bits = bits]
  <2>1. Definido /\ tarea.paso \notin Arranca
    BY <1>2 DEF Definido, Arranca
  <2>2. bitArray'.size = bitArray.size
    BY <1>2 DEF Inv, Tipo, TipoMapas
  <2>3. Entero(bitArray') <=> Entero(bitArray)
    BY <2>2 DEF Entero
  <2> QED BY <1>2, <2>1, <2>3 DEF Sano
<1>3. CASE escribirValorBitarray
  <2>1. bitArray # NoHay /\ bitmapBin' = bitArray /\ bitArray' = bitArray
    BY <1>3 DEF escribirValorBitarray, Inv, Tipo, TipoMapas, NoHay
  <2> QED BY <2>1 DEF Sano
<1>4. CASE leerBitmap
  <2>1. CASE bitmapBin = NoHay
    BY <2>1 DEF Sano
  <2>2. CASE bitmapBin # NoHay
    BY <1>4, <2>2 DEF leerBitmap, Sano
  <2> QED BY <2>1, <2>2
<1>5. CASE caer
  BY <1>5, Restos DEF caer, Sano, Inv, Tipo
<1>6. ASSUME NEW a \in Archivos, Pedido(a)
      PROVE  Sano' => Sano
  <2>1. CASE crearArchivo(a)
    BY <1>1, <1>2, <2>1 DEF crearArchivo, Recibe, PoneBit, enDisco
  <2>2. CASE ~crearArchivo(a)
    BY <1>1, <1>6, <2>2 DEF Pedido, borrarArchivo, obtenerDatos, guardarDatos, disco, enDisco
  <2> QED BY <2>1, <2>2
<1>7. CASE liberarBloque \/ reservarNuevoBloque
  BY <1>1, <1>2, <1>7 DEF liberarBloque, reservarNuevoBloque, PoneBit, enDisco
<1>8. CASE desbordar \/ crearMetadata \/ unlink \/ escribirEnArchivo \/ anotarBloque
           \/ aumentarTamanioArchivo
  BY <1>1, <1>8 DEF desbordar, crearMetadata, unlink, escribirEnArchivo, anotarBloque,
                    aumentarTamanioArchivo, disco, enDisco
<1>9. CASE liberar_paquete \/ enviar \/ iniciarMetadata \/ escribirMetadataBin
           \/ UNCHANGED vars
  BY <1>1, <1>9 DEF liberar_paquete, enviar, iniciarMetadata, escribirMetadataBin, vars,
                    disco, enDisco
<1> QED BY <1>3, <1>4, <1>5, <1>6, <1>7, <1>8, <1>9 DEF Next

-----------------------------------------------------------------------------
LEMMA InicioContenido == Init => InvContenido
<1> SUFFICES ASSUME Init PROVE InvContenido
  OBVIOUS
<1>1. tarea.paso = "caido" /\ tarea.leido = << >> /\ tarea.valor = 0
  BY DEF Init, SinPedido
<1>2. TipoContenido
  BY <1>1 DEF Init, TipoContenido
<1>3. ConBloques
  BY <1>1 DEF Init, ConBloques, Legible, NoExiste, Cortado, Escribiendo
<1>4. NoCae /\ Escritura /\ LeeLuegoDelCursor
  BY <1>1 DEF NoCae, Escritura, LeeLuegoDelCursor
<1>5. \A a \in Archivos : EnSuLugar(a)
  BY DEF Init, EnSuLugar
<1> QED BY <1>2, <1>3, <1>4, <1>5 DEF InvContenido

(* A step that writes no byte and moves no block.                          *)
LEMMA MismoContenido ==
  ASSUME InvContenido, UNCHANGED <<bloques, escrito, metadata, caidas, cortado>>,
         Sano' => Sano, cruzado => cruzado',
         tarea'.paso \in Escribiendo =>
           metadata[tarea'.archivo].bloques # << >> /\ tarea'.valor \in Valores,
         ~cruzado' => NoCae',
         ~cruzado' /\ ~cortado' => Escritura',
         \/ tarea'.leido = << >>
         \/ /\ tarea'.paso \in {"leido", "caido"}
            /\ Fiel' => LeeLuegoDelCursor'
  PROVE  InvContenido'
<1> USE DEF InvContenido
<1>1. TipoContenido'
  BY DEF TipoContenido
<1>2. ConBloques'
  BY DEF ConBloques, Legible
<1>3. \A a \in Archivos : EnSuLugar(a) => EnSuLugar(a)'
  BY DEF EnSuLugar, Byte
<1>4. tarea'.leido = << >> => LeeLuegoDelCursor'
  BY DEF LeeLuegoDelCursor
<1>5. Fiel' => Fiel
  BY DEF Fiel
<1> QED BY <1>1, <1>2, <1>3, <1>4, <1>5

(* A step that writes nothing and has no data, outside of a write.         *)
LEMMA SinEscribir ==
  ASSUME InvContenido, UNCHANGED <<bloques, escrito, metadata, caidas, cortado>>,
         Sano' => Sano, cruzado => cruzado',
         tarea'.paso \notin Escribiendo, tarea'.leido = << >>,
         tarea'.paso = "caido" => tarea'.valor = 0
  PROVE  InvContenido'
<1>1. NoCae' /\ Escritura'
  BY DEF NoCae, Escritura, Escribiendo
<1> QED BY <1>1, MismoContenido

LEMMA PideVacio ==
  ASSUME NEW a, NEW p, Empieza(a, p)
  PROVE  tarea'.paso = p /\ tarea'.leido = << >> /\ tarea'.valor = 0
BY DEF Empieza, SinPedido

LEMMA ContenidoIndefinido ==
  ASSUME InvContenido, Indefinido, Sano' => Sano, cruzado => cruzado',
         UNCHANGED <<bloques, escrito, metadata, caidas, cortado>>
  PROVE  InvContenido'
<1>1. tarea'.paso = "indefinido" /\ tarea'.leido = << >>
  BY DEF Indefinido, SinPedido
<1> QED BY <1>1, SinEscribir DEF Escribiendo

LEMMA ContenidoVuelve ==
  ASSUME InvContenido, Sano' => Sano,
         enviar \/ liberar_paquete \/ iniciarMetadata \/ leerBitmap
  PROVE  InvContenido'
<1>1. UNCHANGED <<bloques, escrito, metadata, caidas, cortado, cruzado>>
  BY DEF enviar, liberar_paquete, iniciarMetadata, leerBitmap, disco, enDisco, cuentas
<1>2. CASE Indefinido
  BY <1>1, <1>2, ContenidoIndefinido
<1>3. CASE ~Indefinido
  <2>1. /\ tarea'.paso \in {"recibir", "caido", "metadataBin"}
        /\ tarea'.leido = << >> /\ tarea'.valor = 0
    BY <1>3 DEF enviar, liberar_paquete, iniciarMetadata, leerBitmap, SinPedido
  <2> QED BY <1>1, <2>1, SinEscribir DEF Escribiendo
<1> QED BY <1>2, <1>3

LEMMA ContenidoArranca ==
  ASSUME Inv, InvContenido, Sano' => Sano, escribirMetadataBin
  PROVE  InvContenido'
<1>1. /\ UNCHANGED <<bloques, escrito, metadata, caidas, cortado, cruzado>>
      /\ tarea.leido = << >>
  BY DEF escribirMetadataBin, disco, enDisco, cuentas, InvContenido, TipoContenido
<1>2. tarea'.paso = "bitmap" /\ tarea'.leido = tarea.leido
  BY DEF escribirMetadataBin, Sigue, Inv, Tipo, TipoTarea
<1> QED BY <1>1, <1>2, SinEscribir DEF Escribiendo

LEMMA ContenidoAlta ==
  ASSUME InvContenido, Sano' => Sano, NEW a \in Archivos, crearArchivo(a) \/ borrarArchivo(a)
  PROVE  InvContenido'
<1>1. UNCHANGED <<bloques, escrito, metadata, caidas, cortado, cruzado>>
  BY DEF crearArchivo, borrarArchivo, Recibe, disco, enDisco
<1>2. /\ tarea'.paso \in {"enviar", "caido", "salvarAlta", "borrar"}
      /\ tarea'.leido = << >> /\ tarea'.valor = 0
  <2>1. ASSUME NEW p \in {"enviar", "caido"}, Empieza(a, p)
        PROVE  tarea'.paso = p /\ tarea'.leido = << >> /\ tarea'.valor = 0
    BY <2>1, PideVacio
  <2>2. ASSUME NEW b,
               tarea' = [SinPedido EXCEPT !.paso = "salvarAlta", !.archivo = a, !.bloque = b]
        PROVE  tarea'.paso = "salvarAlta" /\ tarea'.leido = << >> /\ tarea'.valor = 0
    BY <2>2 DEF SinPedido
  <2>3. ASSUME NEW l, tarea' = [SinPedido EXCEPT !.paso = "borrar", !.archivo = a, !.listados = l]
        PROVE  tarea'.paso = "borrar" /\ tarea'.leido = << >> /\ tarea'.valor = 0
    BY <2>3 DEF SinPedido
  <2> QED BY <2>1, <2>2, <2>3 DEF crearArchivo, borrarArchivo
<1> QED BY <1>1, <1>2, SinEscribir DEF Escribiendo

LEMMA ContenidoLibera ==
  ASSUME Inv, InvContenido, Sano' => Sano, liberarBloque
  PROVE  InvContenido'
<1>1. /\ UNCHANGED <<bloques, escrito, metadata, caidas, cortado, cruzado>>
      /\ tarea.paso = "borrar" /\ tarea.leido = << >>
  BY DEF liberarBloque, enDisco, cuentas, InvContenido, TipoContenido
<1>2. tarea'.paso = "salvarBaja" /\ tarea'.leido = tarea.leido
  BY <1>1 DEF liberarBloque, Inv, Tipo, TipoTarea
<1> QED BY <1>1, <1>2, SinEscribir DEF Escribiendo

(* A fall: what was read, if anything, was right, and the file whose       *)
(* metadata it cuts has nothing to read.                                   *)
LEMMA ContenidoCae ==
  ASSUME Inv, InvContenido, Sano' => Sano, caer
  PROVE  InvContenido'
<1>1. UNCHANGED <<bloques, escrito, cruzado>> /\ caidas' > 0 /\ (cortado => cortado')
  <2>1. UNCHANGED <<bloques, escrito, cruzado>> /\ caidas' > 0
    BY DEF caer, Inv, Tipo
  <2>2. cortado => cortado'
    BY Zenon DEF caer
  <2> QED BY <2>1, <2>2
<1>2. /\ tarea'.paso = "caido" /\ tarea'.leido = tarea.leido
      /\ tarea'.archivo = tarea.archivo /\ tarea'.offset = tarea.offset
  BY DEF caer, Sigue, Inv, Tipo, TipoTarea
<1>3. \A c \in Archivos : metadata'[c] = metadata[c] \/ metadata'[c] = Cortado
  <2>1. metadata' \in RestosDeMetadata
    BY DEF caer
  <2> QED BY <2>1 DEF RestosDeMetadata, Inv, Tipo, TipoMetadata
<1>4. TipoContenido'
  BY <1>1, <1>2 DEF InvContenido, TipoContenido
<1>5. ConBloques'
  BY <1>1, <1>2, <1>3 DEF InvContenido, ConBloques, Legible, Escribiendo
<1>6. NoCae' /\ Escritura'
  BY <1>1, <1>2 DEF NoCae, Escritura
<1>7. \A c \in Archivos : EnSuLugar(c) => EnSuLugar(c)'
  BY <1>1, <1>3 DEF EnSuLugar, Byte
<1>8. LeeLuegoDelCursor => LeeLuegoDelCursor'
  BY <1>1, <1>2 DEF LeeLuegoDelCursor
<1>9. Fiel' => Fiel
  BY <1>1 DEF Fiel
<1> QED BY <1>4, <1>5, <1>6, <1>7, <1>8, <1>9 DEF InvContenido

-----------------------------------------------------------------------------
(* Byte k of a read is the one that is in its place.                       *)
LEMMA LeeEnSuLugar ==
  ASSUME Inv, NEW a \in Archivos, EnSuLugar(a), Legible(a), NEW size \in Nat,
         NEW f \in Leidos(metadata[a].bloques, 0, Tramos(size)),
         NEW k \in 1 .. size, k - 1 \in Offsets, escrito[a][k - 1] # -1
  PROVE  ByteLeido(f, 0, k - 1) = escrito[a][k - 1]
<1> DEFINE l == metadata[a].bloques
           i == k - 1
           t == i \div TAMANIO_BLOQUES
           x == i % TAMANIO_BLOQUES
<1>1. l \in Seq(Bloques) /\ Len(l) \in Nat
  BY DEF Inv, Tipo, TipoMetadata
<1>2. i \in Nat /\ i < size
  OBVIOUS
<1>3. t < Len(l) /\ bloques[l[t + 1]][x] = escrito[a][i]
  BY DEF EnSuLugar, Byte, Legible
<1>4. t \in Nat /\ x \in 0 .. TAMANIO_BLOQUES - 1 /\ i = t * TAMANIO_BLOQUES + x
  BY <1>2, Division
<1> HIDE DEF l, t, x
<1>5. t * TAMANIO_BLOQUES < size
  <2>1. t * TAMANIO_BLOQUES \in Nat
    BY <1>4, Multiplos
  <2> QED BY <1>2, <1>4, <2>1
<1>6. t \in 0 .. Tramos(size) - 1
  BY <1>4, <1>5, TramosAlcanzan
<1>7. f[t] \in BloqueLeido(l, 0 + t)
  BY <1>6 DEF Leidos, l
<1>8. f[t] = l[t + 1]
  <2>1. t + 1 \in Nat /\ t + 1 <= Len(l) /\ 0 + t = t /\ t <= Len(l)
    BY <1>1, <1>3, <1>4
  <2>2. Min({t + 1, Len(l)}) = t + 1
    BY <1>1, <2>1, MenorDeDos
  <2>3. BloqueLeido(l, t) = {l[t + 1]}
    BY <2>1, <2>2 DEF BloqueLeido
  <2> QED BY <1>7, <2>1, <2>3
<1>9. ByteLeido(f, 0, i) = bloques[f[t]][x]
  <2>1. 0 % TAMANIO_BLOQUES = 0
    BY BloquesAssumption
  <2> QED BY <1>4, <2>1 DEF ByteLeido, t, x
<1> QED BY <1>3, <1>8, <1>9

LEMMA ContenidoLectura ==
  ASSUME Inv, InvContenido, Sano' => Sano, NEW a \in Archivos, NEW acceso \in Lecturas,
         obtenerDatos(a, acceso)
  PROVE  InvContenido'
<1> DEFINE l == metadata[a].bloques
           n == Tramos(acceso.size)
<1>1. UNCHANGED <<bloques, escrito, metadata, caidas, cortado, cruzado>>
  BY DEF obtenerDatos, Recibe, disco, enDisco
<1>2. /\ acceso.offset = 0 /\ acceso.size \in Nat
      /\ acceso.offset \div TAMANIO_BLOQUES = 0
  BY AccesosAssumption, BloquesAssumption
<1>3. CASE \E p \in {"enviar", "caido"} : Empieza(a, p)
  BY <1>1, <1>3, PideVacio, SinEscribir DEF Escribiendo
<1>4. CASE Indefinido
  BY <1>1, <1>4, ContenidoIndefinido
<1>5. ASSUME Legible(a), NEW f \in Leidos(l, 0, n),
             tarea' = [SinPedido EXCEPT
                  !.paso = "leido", !.archivo = a, !.offset = acceso.offset,
                  !.leido = Respuesta(f, acceso)]
      PROVE  InvContenido'
  <2> DEFINE r == Respuesta(f, acceso)
  <2>1. \A k \in DOMAIN r : k \in 1 .. acceso.size /\ r[k] = ByteLeido(f, 0, k - 1)
    BY <1>2 DEF Respuesta
  <2> HIDE DEF r
  <2>2. tarea'.paso = "leido" /\ tarea'.archivo = a /\ tarea'.offset = 0 /\ tarea'.leido = r
    BY <1>2, <1>5 DEF SinPedido, r
  <2>3. ASSUME Fiel'
        PROVE  LeeLuegoDelCursor'
    <3> SUFFICES ASSUME NEW k \in DOMAIN r, escrito[a][0 + k - 1] # -1
                 PROVE  r[k] = escrito[a][0 + k - 1]
      BY <1>1, <2>2 DEF LeeLuegoDelCursor
    <3>1. k \in 1 .. acceso.size /\ r[k] = ByteLeido(f, 0, k - 1)
      BY <2>1
    <3>2. EnSuLugar(a) /\ 0 + k - 1 = k - 1 /\ k - 1 \in Offsets
      BY <1>1, <1>2, <2>3, <3>1, OffsetsAlcanzan DEF InvContenido, Fiel
    <3>3. ByteLeido(f, 0, k - 1) = escrito[a][k - 1]
      BY <1>2, <1>5, <3>1, <3>2, LeeEnSuLugar
    <3> QED BY <3>1, <3>2, <3>3
  <2>4. NoCae' /\ Escritura'
    BY <2>2 DEF NoCae, Escritura
  <2> QED BY <1>1, <2>2, <2>3, <2>4, MismoContenido DEF Escribiendo
<1> QED BY <1>2, <1>3, <1>4, <1>5 DEF obtenerDatos

-----------------------------------------------------------------------------
(* A write begins: in the first block, and with an array it will not pass. *)
LEMMA ContenidoEscritura ==
  ASSUME Inv, InvContenido, Sano' => Sano, NEW a \in Archivos, NEW acceso \in Accesos, NEW valor \in Valores,
         guardarDatos(a, acceso, valor)
  PROVE  InvContenido'
<1> DEFINE l == metadata[a].bloques
           nro == acceso.offset \div TAMANIO_BLOQUES
<1>1. /\ UNCHANGED <<bloques, escrito, metadata, caidas, cortado>>
      /\ cruzado' = (cruzado \/ (Legible(a) /\ ~SinCruces(l, acceso)))
  BY DEF guardarDatos, Recibe, disco, enDisco
<1>2. l \in Seq(Bloques) /\ Len(l) \in Nat
  BY DEF Inv, Tipo, TipoMetadata
<1>3. acceso.offset \in Nat /\ acceso.size \in Nat \ {0} /\ nro \in Nat
  BY AccesosAssumption, Division
<1>4. cruzado => cruzado'
  BY <1>1
<1>5. ASSUME ~cruzado', Legible(a)
      PROVE  /\ nro = 0
             /\ acceso.offset = 0 \/ acceso.offset + acceso.size <= TAMANIO_BLOQUES
             /\ Len(l) <= 1 \/ Tramos(acceso.size) <= Len(l)
  <2>1. SinCruces(l, acceso)
    BY <1>1, <1>5
  <2>2. acceso.offset \in 0 .. TAMANIO_BLOQUES - 1
    BY <1>3, <2>1, BloquesAssumption DEF SinCruces, EnSuBloque
  <2> QED BY <2>1, <2>2, BloquesAssumption DEF SinCruces, EnSuBloque
<1>6. CASE Empieza(a, "enviar")
  BY <1>1, <1>4, <1>6, PideVacio, SinEscribir DEF Escribiendo
<1>7. ASSUME metadata[a] = Cortado,
             tarea' = [SinPedido EXCEPT !.paso = "caido", !.archivo = a, !.valor = valor]
      PROVE  InvContenido'
  <2>1. caidas' > 0
    BY <1>1, <1>7 DEF InvContenido, ConBloques
  <2>2. tarea'.paso = "caido" /\ tarea'.leido = << >>
    BY <1>7 DEF SinPedido
  <2>3. NoCae' /\ Escritura'
    BY <2>1, <2>2 DEF NoCae, Escritura
  <2> QED BY <1>1, <1>4, <2>2, <2>3, MismoContenido DEF Escribiendo
<1>8. CASE Legible(a) /\ ~Empieza(a, "enviar")
  <2>1. l # << >> /\ Len(l) >= 1
    BY <1>2, <1>8 DEF InvContenido, ConBloques
  <2>5. Len(l) = 1 \/ ~(Len(l) <= 1)
    <3> DEFINE n == Len(l)
    <3>1. n \in Nat /\ n >= 1
      BY <1>2, <2>1
    <3> HIDE DEF n
    <3>2. n = 1 \/ ~(n <= 1)
      BY <3>1
    <3> QED BY <3>2 DEF n
  <2>2. ~cruzado' => Elemento(l, nro) = {l[1]} /\ l[1] \in Bloques
    BY <1>2, <1>5, <1>8, <2>1 DEF Elemento
  <2>3. ASSUME tarea' = [SinPedido EXCEPT !.paso = "caido", !.archivo = a, !.valor = valor],
               Cae \in Elemento(l, nro)
        PROVE  InvContenido'
    <3>1. cruzado'
      BY <2>2, <2>3 DEF Cae, Bloques
    <3>2. tarea'.paso = "caido" /\ tarea'.leido = << >>
      BY <2>3 DEF SinPedido
    <3>3. Escritura'
      BY <3>2 DEF Escritura
    <3> QED BY <1>1, <3>1, <3>2, <3>3, MismoContenido DEF Escribiendo
  <2>4. ASSUME NEW b \in Elemento(l, nro),
               tarea' = [SinPedido EXCEPT
                      !.paso = "escribir", !.archivo = a, !.offset = acceso.offset,
                      !.size = acceso.size, !.valor = valor, !.nro = nro, !.j = nro,
                      !.listados = l, !.bloque = b]
        PROVE  InvContenido'
    <3> HIDE DEF l, nro
    <3>1. /\ tarea'.paso = "escribir" /\ tarea'.archivo = a /\ tarea'.offset = acceso.offset
          /\ tarea'.size = acceso.size /\ tarea'.valor = valor /\ tarea'.nro = nro
          /\ tarea'.listados = l /\ tarea'.j = nro /\ tarea'.bloque = b
          /\ tarea'.hecho = 0 /\ tarea'.leido = << >>
      BY <2>4 DEF SinPedido
    <3>2. ASSUME ~cruzado'
          PROVE  Escritura'
      <4>1. nro = 0 /\ b = l[1] /\ 0 * TAMANIO_BLOQUES = 0
        BY <1>5, <1>8, <2>2, <3>2, Multiplos
      <4>2. metadata'[a].bloques = l
        BY <1>1 DEF l
      <4>3. EscribeBien(metadata[a].bloques, 0)'
        <5>1. /\ tarea'.hecho = 0 * TAMANIO_BLOQUES /\ tarea'.hecho < tarea'.size
              /\ 0 < Len(l) /\ tarea'.bloque = l[0 + 1]
          BY <1>3, <2>1, <3>1, <4>1
        <5>2. CASE Len(l) = 1
          BY <3>1, <4>2, <5>1, <5>2 DEF EscribeBien
        <5>3. CASE Len(l) # 1
          <6>1. Tramos(acceso.size) <= Len(l)
            BY <1>5, <1>8, <2>5, <3>2, <5>3
          <6>2. Tramos(tarea'.size) <= Len(l)
            BY <3>1, <6>1
          <6> QED BY <3>1, <4>1, <4>2, <5>1, <6>2 DEF EscribeBien
        <5> QED BY <5>2, <5>3
      <4>4. PedidoDeEscribir'
        BY <1>3, <1>5, <1>8, <3>1, <3>2, <4>1 DEF PedidoDeEscribir
      <4> QED BY <3>1, <4>2, <4>3, <4>4 DEF Escritura
    <3>3. NoCae'
      BY <3>1 DEF NoCae
    <3> QED BY <1>1, <1>4, <2>1, <3>1, <3>2, <3>3, MismoContenido DEF l
  <2> QED BY <1>8, <2>3, <2>4 DEF guardarDatos, Legible, Existe
<1> QED BY <1>6, <1>7, <1>8 DEF guardarDatos, Legible, Existe

(* A new block: none if there is no space, or one that is yet to be noted. *)
LEMMA ContenidoReserva ==
  ASSUME Inv, InvContenido, Sano' => Sano, reservarNuevoBloque
  PROVE  InvContenido'
<1>1. /\ UNCHANGED <<bloques, escrito, metadata, cruzado, caidas, cortado>>
      /\ tarea.paso = "reservar"
  BY DEF reservarNuevoBloque, enDisco, cuentas
<1>2. /\ tarea.leido = << >> /\ tarea.valor \in Valores
      /\ metadata[tarea.archivo].bloques # << >>
  BY <1>1 DEF InvContenido, TipoContenido, ConBloques, Escribiendo
<1>3. /\ tarea'.paso \in {"enviar", "salvarNuevo"}
      /\ tarea'.archivo = tarea.archivo /\ tarea'.offset = tarea.offset
      /\ tarea'.size = tarea.size /\ tarea'.valor = tarea.valor /\ tarea'.nro = tarea.nro
      /\ tarea'.listados = tarea.listados /\ tarea'.hecho = tarea.hecho
      /\ tarea'.leido = << >>
  <2>1. CASE Sigue("enviar")
    BY <1>1, <1>2, <2>1 DEF Sigue, Inv, Tipo, TipoTarea
  <2>2. ASSUME NEW b, tarea' = [tarea EXCEPT !.paso = "salvarNuevo", !.bloque = b]
        PROVE  /\ tarea'.paso = "salvarNuevo"
               /\ tarea'.archivo = tarea.archivo /\ tarea'.offset = tarea.offset
               /\ tarea'.size = tarea.size /\ tarea'.valor = tarea.valor
               /\ tarea'.nro = tarea.nro /\ tarea'.listados = tarea.listados
               /\ tarea'.hecho = tarea.hecho /\ tarea'.leido = << >>
    BY <1>1, <1>2, <2>2 DEF Inv, Tipo, TipoTarea
  <2> QED BY <2>1, <2>2 DEF reservarNuevoBloque
<1>4. ASSUME ~cruzado', ~cortado', tarea'.paso = "salvarNuevo"
      PROVE  Escritura'
  <2>1. Escritura
    BY <1>1, <1>4 DEF InvContenido
  <2>2. PedidoDeEscribir'
    BY <1>1, <1>3, <2>1 DEF Escritura, PedidoDeEscribir
  <2>3. PICK c \in Nat : EscribeBien(metadata[tarea.archivo].bloques, c)
    BY <1>1, <2>1 DEF Escritura
  <2>4. EscribeBien(metadata[tarea.archivo].bloques, c)'
    BY <1>1, <1>3, <1>4, <2>3 DEF EscribeBien
  <2> QED BY <2>2, <2>4 DEF Escritura
<1>5. tarea'.paso # "salvarNuevo" => Escritura'
  BY <1>3 DEF Escritura
<1>6. NoCae'
  BY <1>3 DEF NoCae
<1> QED BY <1>1, <1>2, <1>3, <1>4, <1>5, <1>6, MismoContenido DEF Escribiendo

(* The save of the bitmap: a write goes on where it was.                   *)
LEMMA ContenidoBitmap ==
  ASSUME Inv, InvContenido, Sano' => Sano, escribirValorBitarray
  PROVE  InvContenido'
<1>1. /\ UNCHANGED <<bloques, escrito, metadata, cruzado, caidas, cortado>>
      /\ tarea.paso \in {"salvarAlta", "salvarBaja", "salvarNuevo"}
      /\ tarea' = [tarea EXCEPT !.paso = Luego[tarea.paso]]
  BY DEF escribirValorBitarray, cuentas, Luego, Sigue
<1>2. tarea.leido = << >>
  BY <1>1 DEF InvContenido, TipoContenido
<1>3. /\ tarea'.paso = Luego[tarea.paso]
      /\ tarea'.archivo = tarea.archivo /\ tarea'.offset = tarea.offset
      /\ tarea'.size = tarea.size /\ tarea'.valor = tarea.valor /\ tarea'.nro = tarea.nro
      /\ tarea'.listados = tarea.listados /\ tarea'.hecho = tarea.hecho
      /\ tarea'.leido = << >>
  <2> HIDE DEF Luego
  <2> QED BY <1>1, <1>2 DEF Inv, Tipo, TipoTarea
<1>4. CASE tarea.paso # "salvarNuevo"
  <2>1. tarea'.paso \in {"crear", "borrar"}
    BY <1>1, <1>3, <1>4 DEF Luego
  <2> QED BY <1>1, <1>3, <2>1, SinEscribir DEF Escribiendo
<1>5. CASE tarea.paso = "salvarNuevo"
  <2>1. tarea'.paso = "anotar"
    BY <1>3, <1>5 DEF Luego
  <2>2. tarea.valor \in Valores /\ metadata[tarea.archivo].bloques # << >>
    BY <1>5 DEF InvContenido, ConBloques, Escribiendo
  <2>3. ASSUME ~cruzado', ~cortado'
        PROVE  Escritura'
    <3>1. Escritura
      BY <1>1, <2>3 DEF InvContenido
    <3>2. PedidoDeEscribir'
      BY <1>3, <1>5, <3>1 DEF Escritura, PedidoDeEscribir
    <3>3. PICK c \in Nat : EscribeBien(metadata[tarea.archivo].bloques, c)
      BY <1>5, <3>1 DEF Escritura
    <3>4. EscribeBien(metadata[tarea.archivo].bloques, c)'
      BY <1>1, <1>3, <1>5, <2>1, <3>3 DEF EscribeBien
    <3> QED BY <3>2, <3>4 DEF Escritura
  <2>4. NoCae'
    BY <2>1 DEF NoCae
  <2> QED BY <1>1, <1>3, <2>1, <2>2, <2>3, <2>4, MismoContenido
<1> QED BY <1>4, <1>5

LEMMA ContenidoDesborda ==
  ASSUME InvContenido, Sano' => Sano, desbordar
  PROVE  InvContenido'
BY ContenidoIndefinido DEF desbordar, disco, enDisco, cuentas

(* A byte stays where it is when its file gets one block more.             *)
LEMMA LugaresSiguen ==
  ASSUME Inv, NEW a \in Archivos, EnSuLugar(a), UNCHANGED <<bloques, escrito>>,
         NEW l \in Seq(Bloques), metadata'[a].bloques = l, metadata[a] # Cortado,
         Len(metadata[a].bloques) <= Len(l),
         \A k \in 1 .. Len(metadata[a].bloques) : l[k] = metadata[a].bloques[k]
  PROVE  EnSuLugar(a)'
<1> SUFFICES ASSUME NEW i \in Offsets, escrito'[a][i] # -1
             PROVE  /\ i \div TAMANIO_BLOQUES < Len(metadata'[a].bloques)
                    /\ Byte(a, i)' = escrito'[a][i]
  BY DEF EnSuLugar
<1> DEFINE t == i \div TAMANIO_BLOQUES
<1>1. /\ t < Len(metadata[a].bloques)
      /\ bloques[metadata[a].bloques[t + 1]][i % TAMANIO_BLOQUES] = escrito[a][i]
  BY DEF EnSuLugar, Byte
<1>2. t \in Nat
  BY OffsetsAlcanzan, Division
<1>3. Len(metadata[a].bloques) \in Nat /\ Len(l) \in Nat
  BY DEF Inv, Tipo, TipoMetadata
<1> HIDE DEF t
<1>4. t < Len(l) /\ l[t + 1] = metadata[a].bloques[t + 1]
  BY <1>1, <1>2, <1>3
<1> QED BY <1>1, <1>4 DEF Byte, t

LEMMA ContenidoAnota ==
  ASSUME Inv, InvContenido, Sano' => Sano, anotarBloque
  PROVE  InvContenido'
<1>0. PICK a \in Archivos : a = tarea.archivo
  BY DEF anotarBloque, Inv, Tipo, TipoTarea, Trabaja, Toma
<1> DEFINE l == metadata[a].bloques
           m == Append(l, tarea.bloque)
<1>1. /\ UNCHANGED <<bloques, escrito, cruzado, caidas, cortado>>
      /\ tarea.paso = "anotar" /\ tarea.bloque \in Bloques
      /\ l \in Seq(Bloques) /\ Len(l) \in Nat
  BY <1>0 DEF anotarBloque, cuentas, Inv, Tipo, TipoTarea, TipoMetadata, Trabaja, Toma
<1>2. /\ m \in Seq(Bloques) /\ Len(m) = Len(l) + 1 /\ m[Len(l) + 1] = tarea.bloque
      /\ \A k \in 1 .. Len(l) : m[k] = l[k]
  BY <1>1, AppendProperties
<1>3. /\ metadata'[a].bloques = m
      /\ \A c \in Archivos : c # a => metadata'[c] = metadata[c]
  <2>1. metadata' = [metadata EXCEPT ![a].bloques = m]
    BY <1>0, <1>1 DEF anotarBloque, Inv, Tipo, TipoMetadata
  <2> HIDE DEF m
  <2> QED BY <1>1, <2>1 DEF Inv, Tipo, TipoMetadata
<1> HIDE DEF m
<1>4. m # << >> /\ metadata'[a] # Cortado
  BY <1>1, <1>2, <1>3 DEF Cortado
<1>5. tarea' = [tarea EXCEPT !.paso = "escribir"]
  BY DEF anotarBloque, Sigue
<1>6. /\ tarea'.paso = "escribir" /\ tarea'.archivo = a /\ tarea'.offset = tarea.offset
      /\ tarea'.size = tarea.size /\ tarea'.valor = tarea.valor /\ tarea'.nro = tarea.nro
      /\ tarea'.listados = tarea.listados /\ tarea'.hecho = tarea.hecho
      /\ tarea'.leido = tarea.leido /\ tarea'.bloque = tarea.bloque
  BY <1>0, <1>1, <1>5 DEF Inv, Tipo, TipoTarea
<1>7. tarea.leido = << >> /\ tarea.valor \in Valores /\ metadata[a] # Cortado
  BY <1>0, <1>1 DEF InvContenido, TipoContenido, ConBloques, Escribiendo, Cortado
<1>8. TipoContenido'
  BY <1>1, <1>6, <1>7 DEF InvContenido, TipoContenido
<1>9. ConBloques'
  BY <1>0, <1>1, <1>3, <1>4, <1>6, <1>7 DEF InvContenido, ConBloques, Legible
<1>10. ASSUME ~cruzado', ~cortado'
       PROVE  Escritura'
  <2>1. Escritura
    BY <1>1, <1>10 DEF InvContenido
  <2>2. PedidoDeEscribir'
    BY <1>1, <1>6, <2>1 DEF Escritura, PedidoDeEscribir
  <2>3. PICK c \in Nat : EscribeBien(l, c)
    BY <1>0, <1>1, <2>1 DEF Escritura
  <2>4. EscribeBien(metadata[a].bloques, c)'
    BY <1>1, <1>2, <1>3, <1>6, <2>3 DEF EscribeBien
  <2> QED BY <1>6, <2>2, <2>4 DEF Escritura
<1>11. ASSUME Fiel'
       PROVE  \A c \in Archivos : EnSuLugar(c)'
  <2>1. \A c \in Archivos : EnSuLugar(c)
    BY <1>1, <1>11 DEF InvContenido, Fiel
  <2>2. EnSuLugar(a)'
    BY <1>1, <1>2, <1>3, <1>7, <2>1, LugaresSiguen
  <2>3. \A d \in Archivos : d # a => EnSuLugar(d)'
    BY <1>1, <1>3, <2>1 DEF EnSuLugar, Byte
  <2> QED BY <2>2, <2>3
<1>12. NoCae' /\ LeeLuegoDelCursor'
  BY <1>6, <1>7 DEF NoCae, LeeLuegoDelCursor
<1> QED BY <1>8, <1>9, <1>10, <1>11, <1>12 DEF InvContenido

-----------------------------------------------------------------------------
(* A step that ends with the answer and changes one metadata file.         *)
LEMMA OtroMetadata ==
  ASSUME InvContenido, Sano' => Sano, TipoMetadata, NEW a \in Archivos,
         UNCHANGED <<bloques, cruzado, caidas, cortado>>,
         \A c \in Archivos : c # a => metadata'[c] = metadata[c] /\ escrito'[c] = escrito[c],
         escrito' \in [Archivos -> [Offsets -> Valores \cup {-1}]],
         Legible(a)' => metadata'[a].bloques # << >>, metadata'[a] # Cortado,
         Fiel => EnSuLugar(a)',
         tarea'.paso = "enviar", tarea'.leido = << >>
  PROVE  InvContenido'
<1>1. TipoContenido'
  BY DEF InvContenido, TipoContenido
<1>2. ConBloques'
  BY DEF InvContenido, ConBloques, Legible, Escribiendo
<1>3. NoCae' /\ Escritura' /\ LeeLuegoDelCursor'
  BY DEF NoCae, Escritura, LeeLuegoDelCursor
<1>4. ASSUME Fiel'
      PROVE  \A c \in Archivos : EnSuLugar(c)'
  <2>0. Fiel
    BY <1>4 DEF Fiel
  <2>1. \A c \in Archivos : EnSuLugar(c)
    BY <2>0 DEF InvContenido
  <2>2. \A c \in Archivos : c # a => EnSuLugar(c)'
    BY <2>1 DEF EnSuLugar, Byte
  <2> QED BY <2>0, <2>2
<1> QED BY <1>1, <1>2, <1>3, <1>4 DEF InvContenido

LEMMA ContenidoCrea ==
  ASSUME Inv, InvContenido, Sano' => Sano, crearMetadata
  PROVE  InvContenido'
<1>0. PICK a \in Archivos : a = tarea.archivo
  BY DEF crearMetadata, Inv, Tipo, TipoTarea, Trabaja, Toma
<1>1. /\ UNCHANGED <<bloques, escrito, cruzado, caidas, cortado>>
      /\ tarea.paso = "crear" /\ tarea.leido = << >>
      /\ metadata[a] = NoExiste /\ metadata[a].bloques = << >>
  BY <1>0 DEF crearMetadata, cuentas, Inv, ArchivoNuevo, NoExiste, InvContenido, TipoContenido
<1>2. /\ metadata'[a].bloques = <<tarea.bloque>>
      /\ \A c \in Archivos : c # a => metadata'[c] = metadata[c]
  BY <1>0 DEF crearMetadata, Inv, Tipo, TipoMetadata
<1>3. tarea'.paso = "enviar" /\ tarea'.leido = << >>
  BY <1>1 DEF crearMetadata, Sigue, Inv, Tipo, TipoTarea
<1>4. ASSUME Fiel
      PROVE  EnSuLugar(a)'
  <2>1. EnSuLugar(a) /\ Len(metadata[a].bloques) = 0 /\ metadata[a] # Cortado
    BY <1>1, <1>4 DEF InvContenido, NoExiste, Cortado
  <2>2. \A i \in Offsets : i \div TAMANIO_BLOQUES \in Nat
    BY OffsetsAlcanzan, Division
  <2>3. \A i \in Offsets : escrito[a][i] = -1
    BY <2>1, <2>2 DEF EnSuLugar
  <2> QED BY <1>1, <2>3 DEF EnSuLugar
<1>5. TipoMetadata /\ escrito' \in [Archivos -> [Offsets -> Valores \cup {-1}]]
  BY <1>1 DEF Inv, Tipo, InvContenido, TipoContenido
<1>6. metadata'[a].bloques # << >> /\ metadata'[a] # Cortado
  <2>1. metadata'[a].bloques # << >>
    BY <1>2
  <2> QED BY <2>1 DEF Cortado
<1> QED BY <1>1, <1>2, <1>3, <1>4, <1>5, <1>6, OtroMetadata

LEMMA ContenidoBaja ==
  ASSUME Inv, InvContenido, Sano' => Sano, unlink
  PROVE  InvContenido'
<1>0. PICK a \in Archivos : a = tarea.archivo
  BY DEF unlink, Inv, Tipo, TipoTarea, Trabaja, Baja
<1>1. /\ UNCHANGED <<bloques, cruzado, caidas, cortado>>
      /\ tarea.paso = "borrar" /\ tarea.leido = << >>
  BY DEF unlink, cuentas, InvContenido, TipoContenido
<1>2. /\ metadata'[a] = NoExiste
      /\ \A c \in Archivos : c # a => metadata'[c] = metadata[c]
  BY <1>0 DEF unlink, Inv, Tipo, TipoMetadata
<1>3. /\ escrito' \in [Archivos -> [Offsets -> Valores \cup {-1}]]
      /\ escrito'[a] = [i \in Offsets |-> -1]
      /\ \A c \in Archivos : c # a => escrito'[c] = escrito[c]
  BY <1>0 DEF unlink, InvContenido, TipoContenido
<1>4. tarea'.paso = "enviar" /\ tarea'.leido = << >>
  BY <1>1 DEF unlink, Sigue, Inv, Tipo, TipoTarea
<1>5. EnSuLugar(a)' /\ ~Legible(a)' /\ metadata'[a] # Cortado /\ TipoMetadata
  BY <1>2, <1>3 DEF EnSuLugar, Legible, NoExiste, Cortado, Inv, Tipo
<1> QED BY <1>1, <1>2, <1>3, <1>4, <1>5, OtroMetadata

LEMMA ContenidoCrece ==
  ASSUME Inv, InvContenido, Sano' => Sano, aumentarTamanioArchivo
  PROVE  InvContenido'
<1>0. PICK a \in Archivos : a = tarea.archivo
  BY DEF aumentarTamanioArchivo, Inv, Tipo, TipoTarea, Trabaja
<1>1. /\ UNCHANGED <<bloques, escrito, cruzado, caidas, cortado>>
      /\ tarea.paso = "aumentar" /\ tarea.leido = << >>
      /\ metadata[a].bloques # << >>
  BY <1>0 DEF aumentarTamanioArchivo, cuentas, InvContenido, TipoContenido, ConBloques,
              Escribiendo
<1>2. PICK t : metadata' = [metadata EXCEPT ![a].tamanio = t]
  BY <1>0 DEF aumentarTamanioArchivo
<1>3. /\ metadata'[a].bloques = metadata[a].bloques
      /\ \A c \in Archivos : c # a => metadata'[c] = metadata[c]
  BY <1>2 DEF Inv, Tipo, TipoMetadata
<1>4. tarea'.paso = "enviar" /\ tarea'.leido = << >>
  BY <1>1 DEF aumentarTamanioArchivo, Sigue, Inv, Tipo, TipoTarea
<1>5. metadata[a] # Cortado /\ metadata'[a] # Cortado
  BY <1>1, <1>3 DEF Cortado
<1>6. ASSUME Fiel
      PROVE  EnSuLugar(a)'
  BY <1>1, <1>3, <1>5, <1>6 DEF InvContenido, EnSuLugar, Byte
<1>7. TipoMetadata /\ escrito' \in [Archivos -> [Offsets -> Valores \cup {-1}]]
  BY <1>1 DEF Inv, Tipo, InvContenido, TipoContenido
<1> QED BY <1>1, <1>3, <1>4, <1>5, <1>6, <1>7, OtroMetadata

-----------------------------------------------------------------------------
(* The bytes of a chunk: position i of the file is written by chunk c if   *)
(* and only if it is in block c, at one of the places of the chunk.        *)
LEMMA TramoEsSuParte ==
  ASSUME PedidoDeEscribir, NEW c \in Nat, tarea.hecho = c * TAMANIO_BLOQUES,
         tarea.hecho < tarea.size, NEW i \in Nat
  PROVE  i \in tarea.offset + tarea.hecho .. tarea.offset + (tarea.hecho + Resto(tarea)) - 1
           <=> i \div TAMANIO_BLOQUES = c /\ i % TAMANIO_BLOQUES \in Tramo(tarea)
<1> DEFINE B == TAMANIO_BLOQUES
           o == tarea.offset
           h == tarea.hecho
           n == tarea.size
           r == Resto(tarea)
           d == OffsetBloque(tarea)
           q == i \div TAMANIO_BLOQUES
           x == i % TAMANIO_BLOQUES
<1>1. /\ B \in Nat \ {0} /\ o \in Nat /\ n \in Nat \ {0} /\ (o = 0 \/ o + n <= B)
      /\ h = c * B /\ h < n
  BY BloquesAssumption DEF PedidoDeEscribir
<1>2. h \in Nat
  BY <1>1, Multiplos
<1>3. r \in 1 .. B /\ r <= n - h
  <2>1. n - h \in Nat /\ n - h >= 1
    BY <1>1, <1>2
  <2>2. r = IF n - h <= B THEN n - h ELSE B
    BY <1>1, <2>1, MenorDeDos DEF Resto
  <2> HIDE DEF r, h, n, B
  <2> QED BY <1>1, <2>1, <2>2
<1>4. q \in Nat /\ x \in 0 .. B - 1 /\ i = q * B + x
  BY Division
<1>5. \A e \in Nat, y \in 0 .. B - 1 : i = e * B + y => q = e /\ x = y
  BY DivisionUnica
<1>6. d = IF h = 0 THEN o % B ELSE 0
  BY DEF OffsetBloque
<1>7. Tramo(tarea) = d .. d + r - 1
  BY DEF Tramo
<1>8. o < B => o % B = o
  BY <1>1
<1>9. c = 0 => h = 0
  BY <1>1, Multiplos
<1>10. c # 0 => h >= B
  <2>1. c # 0 => 1 * B <= c * B /\ 1 * B = B
    BY <1>1, Multiplos
  <2> QED BY <1>1, <2>1
<1> HIDE DEF B, o, h, n, r, d, q, x
<1>11. CASE c = 0
  <2>1. h = 0 /\ d = o /\ o + r <= B
    BY <1>1, <1>3, <1>6, <1>8, <1>9, <1>11
  <2>2. i \in o .. o + r - 1 => q = 0 /\ x = i
    <3>1. 0 * B = 0
      BY <1>1
    <3>2. ASSUME i \in o .. o + r - 1
          PROVE  i \in 0 .. B - 1
      BY <1>1, <1>3, <2>1, <3>2
    <3> QED BY <1>1, <1>5, <3>1, <3>2
  <2>3. q = 0 => x = i
    BY <1>1, <1>4
  <2>4. i \in o .. o + r - 1 <=> q = 0 /\ x \in o .. o + r - 1
    BY <2>2, <2>3
  <2>5. o + h = o /\ o + (h + r) - 1 = o + r - 1
    BY <1>1, <1>3, <2>1
  <2> QED BY <1>7, <1>11, <2>1, <2>4, <2>5 DEF o, h, r, q, x
<1>12. CASE c # 0
  <2>1. h >= B /\ o = 0 /\ d = 0
    BY <1>1, <1>2, <1>6, <1>10, <1>12
  <2>2. ASSUME i \in h .. h + r - 1
        PROVE  q = c /\ x \in 0 .. r - 1
    <3>1. i - h \in 0 .. B - 1 /\ i = c * B + (i - h) /\ i - h \in 0 .. r - 1
      BY <1>1, <1>2, <1>3, <2>2
    <3> QED BY <1>5, <3>1
  <2>3. ASSUME q = c, x \in 0 .. r - 1
        PROVE  i \in h .. h + r - 1
    <3>1. i = h + x
      BY <1>1, <1>4, <2>3
    <3> QED BY <1>2, <1>3, <2>3, <3>1
  <2>4. o + h = h /\ o + (h + r) - 1 = h + r - 1 /\ d + r - 1 = r - 1
    BY <1>2, <1>3, <2>1
  <2> QED BY <1>7, <2>1, <2>2, <2>3, <2>4 DEF o, h, r, q, x
<1> QED BY <1>11, <1>12

(* What a chunk leaves of the request.                                     *)
LEMMA EscribeYSigue ==
  ASSUME Inv, escribirEnArchivo
  PROVE  /\ tarea'.archivo = tarea.archivo /\ tarea'.offset = tarea.offset
         /\ tarea'.size = tarea.size /\ tarea'.valor = tarea.valor /\ tarea'.nro = tarea.nro
         /\ tarea'.listados = tarea.listados /\ tarea'.leido = tarea.leido
         /\ tarea'.hecho = tarea.hecho + Resto(tarea)
         /\ \/ tarea'.paso = "aumentar"
            \/ /\ tarea'.paso = "reservar" /\ haceFaltaBloque(tarea)
               /\ ~(tarea'.hecho >= tarea.size)
            \/ /\ ~haceFaltaBloque(tarea) /\ ~(tarea'.hecho >= tarea.size)
               /\ \E b \in Elemento(tarea.listados, tarea.nro + tarea.j + 1) :
                    /\ tarea'.paso = IF b = Cae THEN "caido" ELSE "escribir"
                    /\ tarea'.bloque = b /\ tarea'.j = tarea.j + 1
<1> DEFINE h == tarea.hecho + Resto(tarea)
<1>1. tarea.paso = "escribir"
  BY DEF escribirEnArchivo
<1>2. CASE h >= tarea.size
  <2>1. tarea' = [tarea EXCEPT !.paso = "aumentar", !.hecho = h]
    BY <1>2 DEF escribirEnArchivo
  <2> HIDE DEF h
  <2>2. /\ tarea'.archivo = tarea.archivo /\ tarea'.offset = tarea.offset
        /\ tarea'.size = tarea.size /\ tarea'.valor = tarea.valor /\ tarea'.nro = tarea.nro
        /\ tarea'.listados = tarea.listados /\ tarea'.leido = tarea.leido
        /\ tarea'.hecho = h /\ tarea'.paso = "aumentar"
    BY <2>1 DEF Inv, Tipo, TipoTarea
  <2> QED BY <2>2 DEF h
<1>3. CASE ~(h >= tarea.size) /\ haceFaltaBloque(tarea)
  <2>1. tarea' = [tarea EXCEPT !.paso = "reservar", !.hecho = h]
    BY <1>3 DEF escribirEnArchivo
  <2> HIDE DEF h
  <2>2. /\ tarea'.archivo = tarea.archivo /\ tarea'.offset = tarea.offset
        /\ tarea'.size = tarea.size /\ tarea'.valor = tarea.valor /\ tarea'.nro = tarea.nro
        /\ tarea'.listados = tarea.listados /\ tarea'.leido = tarea.leido
        /\ tarea'.hecho = h /\ tarea'.paso = "reservar"
    BY <2>1 DEF Inv, Tipo, TipoTarea
  <2> QED BY <1>3, <2>2 DEF h
<1>4. CASE ~(h >= tarea.size) /\ ~haceFaltaBloque(tarea)
  <2>1. PICK b \in Elemento(tarea.listados, tarea.nro + tarea.j + 1) :
               tarea' = [tarea EXCEPT !.paso = IF b = Cae THEN "caido" ELSE @,
                           !.hecho = h, !.j = @ + 1, !.bloque = b]
    BY <1>4 DEF escribirEnArchivo
  <2> HIDE DEF h
  <2>2. /\ tarea'.archivo = tarea.archivo /\ tarea'.offset = tarea.offset
        /\ tarea'.size = tarea.size /\ tarea'.valor = tarea.valor /\ tarea'.nro = tarea.nro
        /\ tarea'.listados = tarea.listados /\ tarea'.leido = tarea.leido
        /\ tarea'.hecho = h /\ tarea'.paso = (IF b = Cae THEN "caido" ELSE "escribir")
        /\ tarea'.bloque = b /\ tarea'.j = tarea.j + 1
    BY <1>1, <2>1 DEF Inv, Tipo, TipoTarea
  <2> QED BY <1>4, <2>2 DEF h
<1> QED BY <1>2, <1>3, <1>4

(* A chunk written in block c: the bytes of every file are in their places.*)
LEMMA EscribeEnSuLugar ==
  ASSUME Inv, Disjuntos, TipoContenido, escribirEnArchivo, PedidoDeEscribir,
         NEW c \in Nat, EscribeBien(metadata[tarea.archivo].bloques, c),
         NEW a \in Archivos, EnSuLugar(a), tarea.valor \in Valores
  PROVE  EnSuLugar(a)'
<1> DEFINE f == tarea.archivo
           l == metadata[f].bloques
           m == metadata[a].bloques
           b == tarea.bloque
           rango == tarea.offset + tarea.hecho .. tarea.offset + (tarea.hecho + Resto(tarea)) - 1
<1>1. /\ tarea.paso = "escribir" /\ f \in Archivos /\ metadata' = metadata
      /\ l \in Seq(Bloques) /\ m \in Seq(Bloques) /\ Len(l) \in Nat /\ Len(m) \in Nat
  <2>1. tarea.paso = "escribir" /\ f \in Archivos /\ metadata' = metadata
    BY DEF escribirEnArchivo, Inv, Tipo, TipoTarea, Trabaja
  <2>2. \A d \in Archivos : metadata[d].bloques \in Seq(Bloques)
    BY DEF Inv, Tipo, TipoMetadata
  <2> QED BY <2>1, <2>2
<1>2. /\ tarea.hecho = c * TAMANIO_BLOQUES /\ tarea.hecho < tarea.size
      /\ c < Len(l) /\ b = l[c + 1]
  BY <1>1 DEF EscribeBien
<1>3. b \in Bloques
  BY <1>1, <1>2
<1>4. /\ \A d \in Bloques : d # b => bloques'[d] = bloques[d]
      /\ \A x \in BytesDeBloque :
           bloques'[b][x] = IF x \in Tramo(tarea) THEN tarea.valor ELSE bloques[b][x]
  BY <1>3 DEF escribirEnArchivo, TipoContenido
<1>5. /\ a # f => escrito'[a] = escrito[a]
      /\ \A i \in Offsets :
           escrito'[f][i] = IF i \in rango THEN tarea.valor ELSE escrito[f][i]
  <2>1. escrito' = [escrito EXCEPT ![f] = [i \in Offsets |-> IF i \in rango THEN tarea.valor
                                                             ELSE @[i]]]
    BY DEF escribirEnArchivo
  <2> HIDE DEF rango
  <2> QED BY <1>1, <2>1 DEF TipoContenido
<1> SUFFICES ASSUME metadata[a] # Cortado, NEW i \in Offsets, escrito'[a][i] # -1
             PROVE  /\ i \div TAMANIO_BLOQUES < Len(m)
                    /\ bloques'[m[i \div TAMANIO_BLOQUES + 1]][i % TAMANIO_BLOQUES] = escrito'[a][i]
  BY <1>1 DEF EnSuLugar, Byte
<1> DEFINE q == i \div TAMANIO_BLOQUES
           x == i % TAMANIO_BLOQUES
<1>6. i \in Nat /\ q \in Nat /\ x \in BytesDeBloque
  <2>1. i \in Nat
    BY OffsetsAlcanzan
  <2>2. q \in Nat /\ x \in 0 .. TAMANIO_BLOQUES - 1
    BY <2>1, Division
  <2> HIDE DEF q, x
  <2> QED BY <2>1, <2>2, BloquesAssumption DEF BytesDeBloque
<1>7. i \in rango <=> q = c /\ x \in Tramo(tarea)
  BY <1>2, <1>6, TramoEsSuParte
<1>8. escrito[a][i] # -1 => q < Len(m) /\ bloques[m[q + 1]][x] = escrito[a][i]
  BY DEF EnSuLugar, Byte
<1> HIDE DEF q, x, rango, b, l, m
<1>9. q < Len(m) => m[q + 1] \in Bloques
  BY <1>1, <1>6
<1>10. CASE a = f /\ i \in rango
  <2>1. m = l /\ q = c /\ x \in Tramo(tarea)
    BY <1>7, <1>10 DEF l, m
  <2>2. bloques'[b][x] = tarea.valor /\ escrito'[a][i] = tarea.valor
    BY <1>4, <1>5, <1>6, <1>10, <2>1
  <2> QED BY <1>2, <2>1, <2>2 DEF q, x
<1>11. CASE ~(a = f /\ i \in rango)
  <2>1. escrito'[a][i] = escrito[a][i]
    BY <1>5, <1>11
  <2>2. q < Len(m) /\ bloques[m[q + 1]][x] = escrito[a][i]
    BY <1>8, <2>1
  <2>3. CASE m[q + 1] # b
    BY <1>4, <1>9, <2>1, <2>2, <2>3 DEF q, x
  <2>4. CASE m[q + 1] = b
    <3>1. a = f
      <4>1. c + 1 \in DOMAIN l /\ q + 1 \in DOMAIN m
        BY <1>1, <1>2, <1>6, <2>2
      <4>2. b \in DeArchivo(f) /\ b \in DeArchivo(a)
        BY <1>2, <2>4, <4>1 DEF DeArchivo, ToSet, l, m
      <4> QED BY <1>1, <4>2 DEF Disjuntos
    <3>2. q = c
      <4>1. c + 1 \in DOMAIN l /\ q + 1 \in DOMAIN l /\ l[c + 1] = l[q + 1]
        BY <1>1, <1>2, <1>6, <2>2, <2>4, <3>1 DEF l, m
      <4>2. IsInjective(l)
        BY <1>1, <3>1 DEF Disjuntos, l
      <4>3. c + 1 = q + 1
        BY <4>1, <4>2 DEF IsInjective
      <4> QED BY <1>6, <4>3
    <3>3. x \notin Tramo(tarea)
      BY <1>7, <1>11, <3>1, <3>2
    <3> QED BY <1>4, <1>6, <2>1, <2>2, <2>4, <3>3 DEF q, x
  <2> QED BY <2>3, <2>4
<1> QED BY <1>10, <1>11

(* The next chunk: in a block to be added, or in the next of the array.    *)
LEMMA SigueBien ==
  ASSUME Inv, escribirEnArchivo, PedidoDeEscribir, NEW c \in Nat,
         EscribeBien(metadata[tarea.archivo].bloques, c)
  PROVE  Escritura' /\ tarea'.paso # "caido"
<1> DEFINE l == metadata[tarea.archivo].bloques
           m == tarea.listados
           h == tarea.hecho + Resto(tarea)
<1>1. /\ tarea.paso = "escribir" /\ metadata' = metadata
      /\ l \in Seq(Bloques) /\ m \in Seq(Bloques) /\ Len(l) \in Nat /\ Len(m) \in Nat
  <2>1. tarea.paso = "escribir" /\ tarea.archivo \in Archivos /\ metadata' = metadata
        /\ m \in Seq(Bloques)
    BY DEF escribirEnArchivo, Inv, Tipo, TipoTarea, Trabaja
  <2>2. \A d \in Archivos : metadata[d].bloques \in Seq(Bloques)
    BY DEF Inv, Tipo, TipoMetadata
  <2> QED BY <2>1, <2>2
<1>2. /\ tarea.hecho = c * TAMANIO_BLOQUES /\ tarea.hecho < tarea.size /\ c < Len(l)
      /\ \/ Len(m) = 1 /\ Len(l) = c + 1
         \/ m = l /\ tarea.j = c /\ Tramos(tarea.size) <= Len(l)
  BY <1>1 DEF EscribeBien
<1>3. /\ tarea.size \in Nat \ {0} /\ tarea.nro = 0 /\ tarea.hecho \in Nat
      /\ (c + 1) * TAMANIO_BLOQUES = tarea.hecho + TAMANIO_BLOQUES
  BY <1>2, Multiplos DEF PedidoDeEscribir
<1>4. h \in Nat /\ (h < tarea.size => h = (c + 1) * TAMANIO_BLOQUES)
  <2> DEFINE r == Resto(tarea)
  <2>1. tarea.size - tarea.hecho \in Nat /\ TAMANIO_BLOQUES \in Nat
    BY <1>2, <1>3, BloquesAssumption
  <2>2. r = IF tarea.size - tarea.hecho <= TAMANIO_BLOQUES THEN tarea.size - tarea.hecho
            ELSE TAMANIO_BLOQUES
    BY <2>1, MenorDeDos DEF Resto
  <2> HIDE DEF r
  <2>3. tarea.hecho + r \in Nat
        /\ (tarea.hecho + r < tarea.size => tarea.hecho + r = (c + 1) * TAMANIO_BLOQUES)
    BY <1>3, <2>1, <2>2
  <2> QED BY <2>3 DEF r
<1> HIDE DEF h
<1>5. h < tarea.size => c + 1 < Tramos(tarea.size) /\ Tramos(tarea.size) \in Nat
  <2>1. c + 1 \in Nat
    OBVIOUS
  <2> QED BY <1>3, <1>4, <2>1, TramosAlcanzan
<1>6. PedidoDeEscribir'
  BY EscribeYSigue DEF PedidoDeEscribir
<1>7. /\ tarea'.hecho = h /\ tarea'.size = tarea.size /\ tarea'.listados = m
      /\ tarea'.archivo = tarea.archivo
  BY EscribeYSigue DEF h
<1>8. metadata'[tarea'.archivo].bloques = l
  BY <1>1, <1>7
<1>9. haceFaltaBloque(tarea) <=> Len(m) = 1
  BY <1>1, <1>3 DEF haceFaltaBloque
<1> HIDE DEF l, m
<1>10. CASE tarea'.paso = "aumentar"
  BY <1>10 DEF Escritura
<1>11. CASE tarea'.paso = "reservar" /\ haceFaltaBloque(tarea) /\ ~(tarea'.hecho >= tarea.size)
  <2>1. h < tarea.size /\ Len(m) = 1
    BY <1>3, <1>4, <1>7, <1>9, <1>11
  <2>2. Len(l) = c + 1
    <3>1. CASE m = l /\ tarea.j = c /\ Tramos(tarea.size) <= Len(l)
      <4>1. Tramos(tarea.size) <= 1
        BY <2>1, <3>1
      <4> QED BY <1>5, <2>1, <4>1
    <3> QED BY <1>2, <3>1
  <2>3. EscribeBien(metadata[tarea.archivo].bloques, c + 1)'
    BY <1>4, <1>7, <1>8, <1>11, <2>1, <2>2 DEF EscribeBien
  <2>4. c + 1 \in Nat
    OBVIOUS
  <2>5. \E e \in Nat : EscribeBien(metadata[tarea.archivo].bloques, e)'
    BY <2>3, <2>4
  <2> QED BY <1>6, <1>11, <2>5 DEF Escritura
<1>12. ASSUME ~haceFaltaBloque(tarea), ~(tarea'.hecho >= tarea.size),
              NEW b \in Elemento(m, tarea.nro + tarea.j + 1),
              tarea'.paso = IF b = Cae THEN "caido" ELSE "escribir",
              tarea'.bloque = b, tarea'.j = tarea.j + 1
       PROVE  Escritura' /\ tarea'.paso # "caido"
  <2>1. h < tarea.size /\ Len(m) # 1
    BY <1>3, <1>4, <1>7, <1>9, <1>12
  <2>2. m = l /\ tarea.j = c /\ Tramos(tarea.size) <= Len(l) /\ c + 1 < Len(l)
    BY <1>1, <1>2, <1>5, <2>1
  <2>3. b = l[(c + 1) + 1] /\ b \in Bloques
    <3>1. tarea.nro + tarea.j + 1 = c + 1 /\ c + 1 \in Nat
      BY <1>3, <2>2
    <3>2. Elemento(l, c + 1) = {l[(c + 1) + 1]}
      BY <2>2 DEF Elemento
    <3>3. l[(c + 1) + 1] \in Bloques
      BY <1>1, <2>2
    <3> QED BY <1>12, <2>2, <3>1, <3>2, <3>3
  <2>4. b # Cae
    BY <2>3 DEF Bloques, Cae
  <2>5. tarea'.paso = "escribir"
    BY <1>12, <2>4
  <2>6. EscribeBien(metadata[tarea.archivo].bloques, c + 1)'
    BY <1>4, <1>7, <1>8, <1>12, <2>1, <2>2, <2>3, <2>5 DEF EscribeBien
  <2>7. c + 1 \in Nat
    OBVIOUS
  <2>8. \E e \in Nat : EscribeBien(metadata[tarea.archivo].bloques, e)'
    BY <2>6, <2>7
  <2> QED BY <1>6, <2>5, <2>8 DEF Escritura
<1> QED BY <1>10, <1>11, <1>12, EscribeYSigue DEF m

LEMMA ContenidoEscribe ==
  ASSUME Inv, InvContenido, Sano' => Sano, escribirEnArchivo
  PROVE  InvContenido'
<1>0. PICK a \in Archivos : a = tarea.archivo
  BY DEF escribirEnArchivo, Inv, Tipo, TipoTarea, Trabaja
<1>1. /\ tarea.paso = "escribir" /\ tarea.leido = << >> /\ tarea.valor \in Valores
      /\ metadata[a].bloques # << >>
      /\ UNCHANGED <<metadata, caidas, cruzado, cortado>>
  BY <1>0 DEF escribirEnArchivo, cuentas, InvContenido, TipoContenido, ConBloques, Escribiendo
<1>2. /\ tarea'.leido = << >> /\ tarea'.archivo = a /\ tarea'.valor = tarea.valor
      /\ tarea'.paso \in {"aumentar", "reservar", "escribir", "caido"}
  BY <1>0, <1>1, EscribeYSigue
<1>3. TipoContenido'
  <2>1. /\ bloques' \in [Bloques -> [BytesDeBloque -> Valores \cup {0}]]
        /\ escrito' \in [Archivos -> [Offsets -> Valores \cup {-1}]]
    BY <1>1 DEF escribirEnArchivo, InvContenido, TipoContenido
  <2> QED BY <1>2, <2>1 DEF TipoContenido
<1>4. ConBloques'
  BY <1>1, <1>2 DEF InvContenido, ConBloques, Legible
<1>5. LeeLuegoDelCursor'
  BY <1>2 DEF LeeLuegoDelCursor
<1>6. ASSUME ~cruzado, ~cortado
      PROVE  /\ Escritura' /\ tarea'.paso # "caido"
             /\ Fiel => \A d \in Archivos : EnSuLugar(d)'
  <2>1. Escritura
    BY <1>6 DEF InvContenido
  <2>2. PICK c \in Nat : EscribeBien(metadata[tarea.archivo].bloques, c)
    BY <1>1, <2>1 DEF Escritura
  <2>3. PedidoDeEscribir /\ TipoContenido /\ Definido
    BY <1>1, <2>1 DEF Escritura, InvContenido, Definido
  <2>4. Escritura' /\ tarea'.paso # "caido"
    BY <2>2, <2>3, SigueBien
  <2>5. ASSUME Fiel
        PROVE  \A d \in Archivos : EnSuLugar(d)'
    <3>1. Disjuntos /\ \A d \in Archivos : EnSuLugar(d)
      BY <2>3, <2>5 DEF Fiel, Inv, InvBloques, InvContenido
    <3> QED BY <1>1, <2>2, <2>3, <3>1, EscribeEnSuLugar
  <2> QED BY <2>4, <2>5
<1>7. ~cruzado' => NoCae'
  <2>1. cortado => caidas > 0
    BY DEF Inv, Tipo
  <2> QED BY <1>1, <1>6, <2>1 DEF NoCae
<1>8. Fiel' => Fiel
  BY <1>1 DEF Fiel
<1> QED BY <1>1, <1>3, <1>4, <1>5, <1>6, <1>7, <1>8 DEF InvContenido, Fiel

-----------------------------------------------------------------------------
LEMMA PasoContenido == Inv /\ InvContenido /\ [Next]_vars => InvContenido'
<1> SUFFICES ASSUME Inv, InvContenido, [Next]_vars
             PROVE  InvContenido'
  OBVIOUS
<1>0. Sano' => Sano
  BY SanoAntes
<1>1. ASSUME NEW a \in Archivos, Pedido(a)
      PROVE  InvContenido'
  BY <1>0, <1>1, ContenidoAlta, ContenidoLectura, ContenidoEscritura DEF Pedido
<1>2. CASE escribirValorBitarray \/ desbordar
  BY <1>0, <1>2, ContenidoBitmap, ContenidoDesborda
<1>3. CASE crearMetadata \/ liberarBloque \/ unlink
  BY <1>0, <1>3, ContenidoCrea, ContenidoLibera, ContenidoBaja
<1>4. CASE escribirEnArchivo \/ reservarNuevoBloque \/ anotarBloque
  BY <1>0, <1>4, ContenidoEscribe, ContenidoReserva, ContenidoAnota
<1>5. CASE aumentarTamanioArchivo \/ liberar_paquete \/ enviar
  BY <1>0, <1>5, ContenidoCrece, ContenidoVuelve
<1>6. CASE caer \/ iniciarMetadata \/ escribirMetadataBin \/ leerBitmap
  BY <1>0, <1>6, ContenidoCae, ContenidoVuelve, ContenidoArranca
<1>7. CASE UNCHANGED vars
  <2>1. UNCHANGED <<bloques, escrito, metadata, tarea, caidas, cruzado, cortado>>
    BY <1>7 DEF vars, disco, enDisco, cuentas
  <2>2. /\ Escritura => Escritura'
        /\ NoCae => NoCae'
    BY <2>1 DEF Escritura, PedidoDeEscribir, EscribeBien, NoCae
  <2>3. \A a \in Archivos : EnSuLugar(a) => EnSuLugar(a)'
    BY <2>1 DEF EnSuLugar, Byte
  <2>4. TipoContenido' /\ ConBloques'
    BY <2>1 DEF InvContenido, TipoContenido, ConBloques, Legible
  <2>5. LeeLuegoDelCursor => LeeLuegoDelCursor'
    BY <2>1 DEF LeeLuegoDelCursor
  <2> QED BY <1>0, <2>1, <2>2, <2>3, <2>4, <2>5 DEF InvContenido, Fiel
<1> QED BY <1>1, <1>2, <1>3, <1>4, <1>5, <1>6, <1>7 DEF Next

(* What is read is what was last written there, after falls and restarts   *)
(* too, and no write makes the process fall, for any sizes of block, file, *)
(* read and write: while every write begins in the first block and does    *)
(* not pass an array of several blocks (guardarDatos, obtenerDatos).  For  *)
(* the reads, while also no fall has cut a deletion or a save longer than  *)
(* a buffer and the bitmap is whole, and no further than their answer: one *)
(* longer than the buffer of obtenerDatos may have none, and what follows  *)
(* any is undefined (liberar_paquete).                                     *)
THEOREM LecturasDelDisco == Spec => []LeeLoEscrito
<1>1. InvContenido => LeeLoEscrito
  BY DEF InvContenido, LeeLoEscrito, Fiel, Sano
<1> QED BY <1>1, InicioContenido, PasoContenido, InvFS, PTL DEF Spec

=============================================================================
