--------------------------- MODULE ArchivosProofs ---------------------------
(***************************************************************************)
(* What Archivos promises for every set of programs, names and flags, every *)
(* value of the variable that is not initialised, and any number of         *)
(* requests.                                                               *)
(***************************************************************************)
EXTENDS Archivos, ColasProofs, FiniteSetTheorems

ElementosGlobales == [path : [nombre : Nombres, fd : Nat], open : Nat]

-----------------------------------------------------------------------------
(* Lemmas on the operators.                                                *)

(* What is left after taking out position i: the elements after it move    *)
(* one place.                                                              *)
LEMMA RemoveAtElementos ==
  ASSUME NEW T, NEW q \in Seq(T), NEW i \in 1 .. Len(q), NEW k \in 1 .. Len(q) - 1
  PROVE  RemoveAt(q, i)[k] = IF k < i THEN q[k] ELSE q[k + 1]
<1> DEFINE a == SubSeq(q, 1, i - 1)
           b == SubSeq(q, i + 1, Len(q))
<1>1. a \in Seq(T) /\ Len(a) = i - 1 /\ \A j \in 1 .. i - 1 : a[j] = q[j]
  OBVIOUS
<1>2. b \in Seq(T) /\ Len(b) = Len(q) - i /\ \A j \in 1 .. Len(q) - i : b[j] = q[j + i]
  OBVIOUS
<1> HIDE DEF a, b
<1>3. \A j \in 1 .. Len(a) + Len(b) :
        (a \o b)[j] = IF j <= Len(a) THEN a[j] ELSE b[j - Len(a)]
  BY <1>1, <1>2, ConcatProperties
<1>4. RemoveAt(q, i) = a \o b
  BY DEF RemoveAt, a, b
<1>5. CASE k < i
  <2>1. (a \o b)[k] = a[k]
    BY <1>1, <1>2, <1>3, <1>5
  <2> QED BY <1>1, <1>4, <1>5, <2>1
<1>6. CASE ~(k < i)
  <2>1. (a \o b)[k] = b[k - (i - 1)]
    BY <1>1, <1>2, <1>3, <1>6
  <2>2. k - (i - 1) \in 1 .. Len(q) - i /\ (k - (i - 1)) + i = k + 1
    BY <1>6
  <2>3. b[k - (i - 1)] = q[k + 1]
    BY <1>2, <2>2
  <2> QED BY <1>4, <1>6, <2>1, <2>3
<1> QED BY <1>5, <1>6

(* The elements of the two tables. *)
LEMMA ElementoTipo ==
  ASSUME TypeOK
  PROVE  /\ DOMAIN tablaGlobalDeArchivos = 1 .. Len(tablaGlobalDeArchivos)
         /\ Len(tablaGlobalDeArchivos) \in Nat
         /\ \A j \in DOMAIN tablaGlobalDeArchivos : tablaGlobalDeArchivos[j].path.fd \in Nat
<1>1. tablaGlobalDeArchivos \in Seq(ElementosGlobales)
  BY DEF TypeOK, ElementosGlobales
<1>2. \A j \in DOMAIN tablaGlobalDeArchivos : tablaGlobalDeArchivos[j] \in ElementosGlobales
  BY <1>1
<1> QED BY <1>1, <1>2 DEF ElementosGlobales

LEMMA EntradaTipo ==
  ASSUME TypeOK, NEW p \in Procesos
  PROVE  /\ DOMAIN tablasArchivosPorProceso[p] = 1 .. Len(tablasArchivosPorProceso[p])
         /\ Len(tablasArchivosPorProceso[p]) \in Nat
         /\ \A i \in DOMAIN tablasArchivosPorProceso[p] :
              tablasArchivosPorProceso[p][i] \in Entradas
         /\ \A i \in DOMAIN tablasArchivosPorProceso[p] :
              /\ tablasArchivosPorProceso[p][i].fd \in Nat
              /\ tablasArchivosPorProceso[p][i].globalFD \in Int
<1>1. tablasArchivosPorProceso[p] \in Seq(Entradas)
  BY DEF TypeOK
<1>2. \A i \in DOMAIN tablasArchivosPorProceso[p] : tablasArchivosPorProceso[p][i] \in Entradas
  BY <1>1
<1> QED BY <1>1, <1>2 DEF Entradas

(* A descriptor a program may use is in the table of its process.          *)
LEMMA PosicionDelDescriptor ==
  ASSUME TypeOK, NEW p \in Procesos, NEW fd \in Abiertos(p)
  PROVE  /\ obtenerArchivoDeLaTablaDeUnProcesoPorFD(p, fd)
               \in DOMAIN tablasArchivosPorProceso[p]
         /\ Entrada(p, fd) \in Entradas
         /\ Entrada(p, fd).fd = fd
<1> DEFINE t == tablasArchivosPorProceso[p]
           I == {i \in 1 .. Len(t) : t[i].fd = fd}
<1>1. t \in Seq(Entradas)
  BY DEF TypeOK
<1>2. I # {} /\ I \in SUBSET Nat
  BY <1>1 DEF Abiertos
<1>3. Min(I) \in I
  BY <1>2, MinExiste
<1>4. obtenerArchivoDeLaTablaDeUnProcesoPorFD(p, fd) = Min(I)
  BY <1>2 DEF obtenerArchivoDeLaTablaDeUnProcesoPorFD, SelectInSeq
<1>5. \A i \in I : i \in DOMAIN t /\ t[i] \in Entradas /\ t[i].fd = fd
  BY <1>1
<1> HIDE DEF I
<1> QED BY <1>3, <1>4, <1>5, Zenon DEF Entrada

(* The open adds one element, with the new path, and changes no path.      *)
LEMMA TablaDelOpen ==
  ASSUME TypeOK, NEW path \in [nombre : Nombres, fd : Nat], NEW a \in ValoresDeA
  PROVE  LET r == chequearTablaGlobal(path, a)
         IN /\ r.j \in Int
            /\ r.tabla \in Seq(ElementosGlobales)
            /\ Len(r.tabla) = Len(tablaGlobalDeArchivos) + 1
            /\ \A k \in 1 .. Len(tablaGlobalDeArchivos) :
                 r.tabla[k].path = tablaGlobalDeArchivos[k].path
            /\ r.tabla[Len(tablaGlobalDeArchivos) + 1].path = path
<1> DEFINE g == tablaGlobalDeArchivos
           n == Len(g)
           e == [path |-> path, open |-> 0]
           t == Append(g, e)
           j == buscarEntradaEnTablaGlobal(t, path, a)
           js == {k \in a .. Len(t) - 1 : k >= 0 /\ t[k + 1].path = path}
           r == chequearTablaGlobal(path, a)
<1>1. g \in Seq(ElementosGlobales) /\ e \in ElementosGlobales
  BY DEF TypeOK, ElementosGlobales
<1>2. t \in Seq(ElementosGlobales) /\ Len(t) = n + 1
  BY <1>1
<1>3. t[n + 1] = e /\ \A k \in 1 .. n : t[k] = g[k]
  BY <1>1
<1>4. j = -1 \/ j \in 0 .. n
  <2>1. js \in SUBSET Nat
    BY <1>2, NumerosAssumption
  <2>2. CASE a < 0 \/ js = {}
    BY <2>2 DEF buscarEntradaEnTablaGlobal
  <2>3. CASE ~(a < 0 \/ js = {})
    <3>1. Min(js) \in js
      BY <2>1, <2>3, MinExiste
    <3>2. \A k \in js : k \in 0 .. n
      BY <1>1, <1>2, NumerosAssumption
    <3>3. j = Min(js)
      BY <2>3 DEF buscarEntradaEnTablaGlobal
    <3> QED BY <3>1, <3>2, <3>3, Zenon
  <2> QED BY <2>2, <2>3
<1>5. r.j = j /\ r.tabla = IF j = -1 THEN t ELSE [t EXCEPT ![j + 1].open = @ + 1]
  BY DEF chequearTablaGlobal
<1> HIDE DEF t, j, r
<1>6. CASE j = -1
  BY <1>1, <1>2, <1>3, <1>5, <1>6 DEF r
<1>7. CASE j \in 0 .. n
  <2>1. j + 1 \in 1 .. Len(t) /\ j # -1
    BY <1>1, <1>2, <1>7
  <2>2. t[j + 1] \in ElementosGlobales
    BY <1>2, <2>1
  <2>3. [t[j + 1] EXCEPT !.open = @ + 1] \in ElementosGlobales
    BY <2>2 DEF ElementosGlobales
  <2>4. r.tabla = [t EXCEPT ![j + 1] = [t[j + 1] EXCEPT !.open = @ + 1]]
    BY <1>5, <2>1
  <2>5. r.tabla \in Seq(ElementosGlobales) /\ Len(r.tabla) = Len(t)
    BY <1>2, <2>1, <2>3, <2>4
  <2>6. \A k \in 1 .. Len(t) : r.tabla[k].path = t[k].path
    BY <1>2, <2>1, <2>2, <2>4 DEF ElementosGlobales
  <2>7. r.tabla[n + 1].path = path /\ \A k \in 1 .. n : r.tabla[k].path = g[k].path
    BY <1>1, <1>2, <1>3, <2>6
  <2> QED BY <1>2, <1>5, <1>7, <2>5, <2>7 DEF r
<1> QED BY <1>4, <1>6, <1>7

(* A search from the start finds the path that is new in its own element.  *)
LEMMA IndiceDelOpen ==
  ASSUME TypeOK, NEW path \in [nombre : Nombres, fd : Nat],
         \A k \in DOMAIN tablaGlobalDeArchivos : tablaGlobalDeArchivos[k].path # path
  PROVE  chequearTablaGlobal(path, 0).j = Len(tablaGlobalDeArchivos)
<1> DEFINE g == tablaGlobalDeArchivos
           n == Len(g)
           e == [path |-> path, open |-> 0]
           t == Append(g, e)
           js == {k \in 0 .. Len(t) - 1 : k >= 0 /\ t[k + 1].path = path}
<1>1. g \in Seq(ElementosGlobales) /\ e \in ElementosGlobales
  BY DEF TypeOK, ElementosGlobales
<1>2. Len(t) = n + 1 /\ t[n + 1] = e /\ n \in Nat /\ \A k \in 1 .. n : t[k] = g[k]
  BY <1>1
<1>3. \A k \in 0 .. n - 1 : t[k + 1].path # path
  BY <1>1, <1>2
<1>4. js = {n}
  BY <1>2, <1>3
<1>5. Min(js) = n
  <2>1. Min({n}) \in {n}
    BY <1>2, MinExiste
  <2> QED BY <1>4, <2>1
<1>6. js # {} /\ n # -1 /\ ~(0 < 0)
  BY <1>2, <1>4
<1> QED BY <1>5, <1>6 DEF chequearTablaGlobal, buscarEntradaEnTablaGlobal

(* The close takes no path that was not there, and while it takes the last *)
(* element no other one moves.                                             *)
LEMMA TablaDelClose ==
  ASSUME TypeOK, NEW e \in Entradas, HayEntradaGlobal(e)
  PROVE  /\ SacarDeGlobal(e) \in Seq(ElementosGlobales)
         /\ \A k \in DOMAIN SacarDeGlobal(e) : \E l \in DOMAIN tablaGlobalDeArchivos :
              SacarDeGlobal(e)[k].path = tablaGlobalDeArchivos[l].path
         /\ e.globalFD = Len(tablaGlobalDeArchivos) - 1 =>
              \A k \in 1 .. Len(tablaGlobalDeArchivos) - 1 :
                /\ k \in DOMAIN SacarDeGlobal(e)
                /\ SacarDeGlobal(e)[k].path = tablaGlobalDeArchivos[k].path
<1> DEFINE g == tablaGlobalDeArchivos
           i == e.globalFD + 1
           s == SacarDeGlobal(e)
<1>1. g \in Seq(ElementosGlobales)
  BY DEF TypeOK, ElementosGlobales
<1>2. i \in 1 .. Len(g) /\ e.globalFD \in Int
  BY <1>1 DEF HayEntradaGlobal, Entradas
<1>3. g[i] \in ElementosGlobales
  BY <1>1, <1>2
<1>4. CASE g[i].open > 1
  <2>1. s = [g EXCEPT ![i] = [g[i] EXCEPT !.open = @ - 1]]
    BY <1>2, <1>4 DEF SacarDeGlobal, obtenerEntradaTablaGlobalDeArchivos
  <2>2. [g[i] EXCEPT !.open = @ - 1] \in ElementosGlobales
    BY <1>3, <1>4 DEF ElementosGlobales
  <2>3. s \in Seq(ElementosGlobales) /\ Len(s) = Len(g)
    BY <1>1, <1>2, <2>1, <2>2
  <2>4. \A k \in 1 .. Len(g) : s[k].path = g[k].path
    BY <1>1, <1>2, <1>3, <2>1 DEF ElementosGlobales
  <2>5. DOMAIN s = 1 .. Len(g) /\ DOMAIN g = 1 .. Len(g) /\ Len(g) \in Nat
    BY <1>1, <2>3
  <2> QED BY <2>3, <2>4, <2>5
<1>5. CASE ~(g[i].open > 1)
  <2>1. s = RemoveAt(g, i)
    BY <1>5 DEF SacarDeGlobal, obtenerEntradaTablaGlobalDeArchivos
  <2>2. s \in Seq(ElementosGlobales) /\ Len(s) = Len(g) - 1
    BY <1>1, <1>2, <2>1, RemoveAtTipo
  <2>3. \A k \in 1 .. Len(g) - 1 : s[k] = IF k < i THEN g[k] ELSE g[k + 1]
    BY <1>1, <1>2, <2>1, RemoveAtElementos
  <2>4. DOMAIN s = 1 .. Len(g) - 1 /\ DOMAIN g = 1 .. Len(g) /\ Len(g) \in Nat
    BY <1>1, <2>2
  <2>5. \A k \in 1 .. Len(g) - 1 : k \in 1 .. Len(g) /\ k + 1 \in 1 .. Len(g)
    BY <2>4
  <2> HIDE DEF s, g
  <2>6. \A k \in DOMAIN s : \E l \in DOMAIN g : s[k].path = g[l].path
    BY <2>3, <2>4, <2>5
  <2>7. e.globalFD = Len(g) - 1 => \A k \in 1 .. Len(g) - 1 : k < i
    BY <1>2, <2>4
  <2> QED BY <2>2, <2>3, <2>4, <2>6, <2>7 DEF s, g
<1> QED BY <1>4, <1>5
-----------------------------------------------------------------------------
(* The invariant.                                                          *)

(* fdcounter is past every descriptor, and past the mark of every path.    *)
FDViejo ==
  /\ \A p \in Procesos : \A i \in DOMAIN tablasArchivosPorProceso[p] :
       tablasArchivosPorProceso[p][i].fd < fdcounter
  /\ \A j \in DOMAIN tablaGlobalDeArchivos : tablaGlobalDeArchivos[j].path.fd < fdcounter

(* An entry of a process is that of an open, with its flags; and the path   *)
(* that open put in the global list, if it is there, has the name it asked *)
(* for.                                                                    *)
AperturaDe(p, e) ==
  \E ap \in aperturas :
    /\ ap.pid = p /\ ap.fd = e.fd /\ ap.flags = e.flags
    /\ \A j \in DOMAIN tablaGlobalDeArchivos :
         tablaGlobalDeArchivos[j].path.fd = e.fd =>
           tablaGlobalDeArchivos[j].path.nombre = ap.nombre

AperturaPropia ==
  \A p \in Procesos : \A i \in DOMAIN tablasArchivosPorProceso[p] :
    AperturaDe(p, tablasArchivosPorProceso[p][i])

InvTablas == TypeOK /\ FDViejo /\ FDUnico /\ IndicePropio /\ AperturaPropia

Inv == InvTablas /\ PathDondeDebeAlineadas

LEMMA InvInicial == Init => Inv
<1> SUFFICES ASSUME Init PROVE Inv
  OBVIOUS
<1>1. TypeOK
  <2>1. << >> \in Seq([path : [nombre : Nombres, fd : Nat], open : Nat])
        /\ << >> \in Seq(Entradas)
    OBVIOUS
  <2>2. 3 \in Nat /\ 0 \in 0 .. MaxPedidos
    BY NumerosAssumption
  <2> QED BY <2>1, <2>2 DEF Init, TypeOK
<1>2. FDViejo /\ FDUnico /\ IndicePropio /\ AperturaPropia
  BY DEF Init, FDViejo, FDUnico, IndicePropio, AperturaPropia
<1>3. PathDondeDebeAlineadas
  BY DEF Init, PathDondeDebeAlineadas, PathDondeDebe
<1> QED BY <1>1, <1>2, <1>3 DEF Inv, InvTablas

-----------------------------------------------------------------------------
(* An open.                                                                *)

(* What agregarNuevoArchivoATablas leaves in the tables.                   *)
LEMMA TrasElOpen ==
  ASSUME TypeOK, NEW p \in Procesos, NEW nombre \in Nombres, NEW flags \in Permisos,
         agregarNuevoArchivoATablas(p, nombre, flags)
  PROVE  LET n == Len(tablaGlobalDeArchivos)
             m == Len(tablasArchivosPorProceso[p])
         IN /\ tablaGlobalDeArchivos' \in Seq(ElementosGlobales)
            /\ n \in Nat /\ Len(tablaGlobalDeArchivos') = n + 1
            /\ \A k \in 1 .. n : tablaGlobalDeArchivos'[k].path = tablaGlobalDeArchivos[k].path
            /\ tablaGlobalDeArchivos'[n + 1].path = Ruta(nombre)
            /\ tablasArchivosPorProceso' \in [Procesos -> Seq(Entradas)]
            /\ \A q \in Procesos \ {p} :
                 tablasArchivosPorProceso'[q] = tablasArchivosPorProceso[q]
            /\ m \in Nat /\ Len(tablasArchivosPorProceso'[p]) = m + 1
            /\ \A i \in 1 .. m :
                 tablasArchivosPorProceso'[p][i] = tablasArchivosPorProceso[p][i]
            /\ tablasArchivosPorProceso'[p][m + 1].fd = fdcounter
            /\ tablasArchivosPorProceso'[p][m + 1].flags = flags
            /\ ~basura' => /\ ~basura
                           /\ (FDViejo => tablasArchivosPorProceso'[p][m + 1].globalFD = n)
            /\ basura \in BOOLEAN => basura' \in BOOLEAN
<1> DEFINE n == Len(tablaGlobalDeArchivos)
           t == tablasArchivosPorProceso[p]
           m == Len(t)
<1>1. PICK a \in ValoresDeA :
        LET r == chequearTablaGlobal(Ruta(nombre), a)
        IN /\ tablaGlobalDeArchivos' = r.tabla
           /\ tablasArchivosPorProceso' = [tablasArchivosPorProceso EXCEPT ![p] =
                Append(@, [fd |-> fdcounter, flags |-> flags, globalFD |-> r.j, puntero |-> 0])]
           /\ basura' = (basura \/ a # 0)
  BY DEF agregarNuevoArchivoATablas
<1> DEFINE r == chequearTablaGlobal(Ruta(nombre), a)
           e == [fd |-> fdcounter, flags |-> flags, globalFD |-> r.j, puntero |-> 0]
<1>2. Ruta(nombre) \in [nombre : Nombres, fd : Nat]
  BY DEF Ruta, TypeOK
<1>3. /\ r.j \in Int
      /\ r.tabla \in Seq(ElementosGlobales)
      /\ Len(r.tabla) = n + 1
      /\ \A k \in 1 .. n : r.tabla[k].path = tablaGlobalDeArchivos[k].path
      /\ r.tabla[n + 1].path = Ruta(nombre)
  BY <1>2, TablaDelOpen
<1>4. n \in Nat /\ t \in Seq(Entradas) /\ m \in Nat
  BY DEF TypeOK
<1>5. FDViejo /\ a = 0 => r.j = n
  <2> SUFFICES ASSUME FDViejo, a = 0 PROVE r.j = n
    OBVIOUS
  <2>1. \A k \in DOMAIN tablaGlobalDeArchivos : tablaGlobalDeArchivos[k].path # Ruta(nombre)
    <3> SUFFICES ASSUME NEW k \in DOMAIN tablaGlobalDeArchivos
                 PROVE  tablaGlobalDeArchivos[k].path.fd # Ruta(nombre).fd
      OBVIOUS
    <3>1. tablaGlobalDeArchivos[k].path.fd < fdcounter
      BY DEF FDViejo
    <3>2. tablaGlobalDeArchivos[k].path.fd \in Nat /\ fdcounter \in Nat
      BY ElementoTipo DEF TypeOK
    <3> QED BY <3>1, <3>2 DEF Ruta
  <2> QED BY <1>2, <2>1, IndiceDelOpen
<1> HIDE DEF r
<1>6. e \in Entradas
  <2>1. fdcounter \in Nat
    BY DEF TypeOK
  <2>2. r.j \in Int
    BY <1>3
  <2> QED BY <2>1, <2>2 DEF Entradas
<1>7. tablasArchivosPorProceso' = [tablasArchivosPorProceso EXCEPT ![p] = Append(t, e)]
  BY <1>1 DEF r
<1>8. Append(t, e) \in Seq(Entradas) /\ Len(Append(t, e)) = m + 1
      /\ Append(t, e)[m + 1] = e /\ \A i \in 1 .. m : Append(t, e)[i] = t[i]
  BY <1>4, <1>6
<1> HIDE DEF e
<1>9. /\ tablasArchivosPorProceso' \in [Procesos -> Seq(Entradas)]
      /\ tablasArchivosPorProceso'[p] = Append(t, e)
      /\ \A q \in Procesos \ {p} : tablasArchivosPorProceso'[q] = tablasArchivosPorProceso[q]
  BY <1>7, <1>8 DEF TypeOK
<1>10. e.fd = fdcounter /\ e.flags = flags /\ e.globalFD = r.j
  BY DEF e
<1>11. ~basura' => ~basura /\ a = 0
  BY <1>1
<1>12. basura \in BOOLEAN => basura' \in BOOLEAN
  BY <1>1
<1>13. tablaGlobalDeArchivos' = r.tabla
  BY <1>1 DEF r
<1> QED BY <1>3, <1>4, <1>5, <1>8, <1>9, <1>10, <1>11, <1>12, <1>13

(* An open keeps the invariant of the tables. *)
LEMMA OpenInv ==
  ASSUME InvTablas, TypeOK',
         NEW p \in Procesos, NEW nombre \in Nombres, NEW flags \in Permisos,
         agregarNuevoArchivoATablas(p, nombre, flags)
  PROVE  InvTablas'
<1> DEFINE n == Len(tablaGlobalDeArchivos)
           m == Len(tablasArchivosPorProceso[p])
           g == tablaGlobalDeArchivos
           gp == tablaGlobalDeArchivos'
           t(q) == tablasArchivosPorProceso[q]
           tp(q) == tablasArchivosPorProceso'[q]
<1>0. TypeOK /\ FDViejo /\ FDUnico /\ IndicePropio /\ AperturaPropia
  BY DEF InvTablas
<1>1. /\ n \in Nat /\ Len(gp) = n + 1
      /\ \A k \in 1 .. n : gp[k].path = g[k].path
      /\ gp[n + 1].path = Ruta(nombre)
      /\ \A q \in Procesos \ {p} : tp(q) = t(q)
      /\ m \in Nat /\ Len(tp(p)) = m + 1
      /\ \A i \in 1 .. m : tp(p)[i] = t(p)[i]
      /\ tp(p)[m + 1].fd = fdcounter /\ tp(p)[m + 1].flags = flags
      /\ ~basura' => ~basura /\ tp(p)[m + 1].globalFD = n
  BY <1>0, TrasElOpen
<1>2. fdcounter' = fdcounter + 1 /\ corrida' = corrida
      /\ aperturas' = aperturas \cup
           {[pid |-> p, fd |-> fdcounter, nombre |-> nombre, flags |-> flags]}
  BY DEF agregarNuevoArchivoATablas
<1>3. DOMAIN g = 1 .. n /\ DOMAIN gp = 1 .. n + 1 /\ fdcounter \in Nat
      /\ \A j \in 1 .. n : g[j].path.fd \in Nat /\ g[j].path.fd < fdcounter
  <2>1. gp \in Seq(ElementosGlobales)
    BY <1>0, TrasElOpen
  <2>2. DOMAIN gp = 1 .. Len(gp)
    BY <2>1
  <2> QED BY <1>0, <1>1, <2>2, ElementoTipo DEF FDViejo, TypeOK
<1>4. \A q \in Procesos : \A i \in DOMAIN t(q) :
        t(q)[i].fd \in Nat /\ t(q)[i].fd < fdcounter /\ t(q)[i].globalFD \in Int
  BY <1>0, EntradaTipo DEF FDViejo
<1>5. \A q \in Procesos : \A i \in DOMAIN tp(q) :
        \/ i \in DOMAIN t(q) /\ tp(q)[i] = t(q)[i]
        \/ q = p /\ i = m + 1 /\ i \notin DOMAIN t(q)
  <2> SUFFICES ASSUME NEW q \in Procesos, NEW i \in DOMAIN tp(q)
               PROVE  \/ i \in DOMAIN t(q) /\ tp(q)[i] = t(q)[i]
                      \/ q = p /\ i = m + 1 /\ i \notin DOMAIN t(q)
    OBVIOUS
  <2>1. CASE q # p
    BY <1>1, <2>1
  <2>2. CASE q = p
    <3>1. tp(p) \in Seq(Entradas)
      BY <1>0, TrasElOpen
    <3>2. DOMAIN tp(p) = 1 .. m + 1 /\ DOMAIN t(p) = 1 .. m
      BY <1>0, <1>1, <3>1, EntradaTipo
    <3> QED BY <1>1, <2>2, <3>2
  <2> QED BY <2>1, <2>2
<1>6. Ruta(nombre).fd = fdcounter /\ Ruta(nombre).nombre = nombre
  BY DEF Ruta
<1> HIDE DEF n, m, g, gp, t, tp
<1>7. FDViejo'
  <2>1. \A q \in Procesos : \A i \in DOMAIN tp(q) : tp(q)[i].fd < fdcounter'
    BY <1>1, <1>2, <1>3, <1>4, <1>5
  <2>2. \A j \in DOMAIN gp : gp[j].path.fd < fdcounter'
    BY <1>1, <1>2, <1>3, <1>6
  <2> QED BY <2>1, <2>2 DEF FDViejo, tp, gp
<1>8. FDUnico'
  <2> SUFFICES ASSUME NEW q \in Procesos, NEW r \in Procesos,
                      NEW i \in DOMAIN tp(q), NEW j \in DOMAIN tp(r),
                      tp(q)[i].fd = tp(r)[j].fd
               PROVE  q = r /\ i = j
    BY DEF FDUnico, tp
  <2>1. \A u, v \in Procesos : \A k \in DOMAIN t(u), l \in DOMAIN t(v) :
          t(u)[k].fd = t(v)[l].fd => u = v /\ k = l
    BY <1>0 DEF FDUnico, t
  <2>2. CASE i \in DOMAIN t(q) /\ tp(q)[i] = t(q)[i]
    <3>1. tp(q)[i].fd \in Nat /\ tp(q)[i].fd < fdcounter
      BY <1>4, <2>2
    <3>2. ~(r = p /\ j = m + 1 /\ j \notin DOMAIN t(r))
      BY <1>1, <1>3, <3>1
    <3>3. j \in DOMAIN t(r) /\ tp(r)[j] = t(r)[j]
      BY <1>5, <3>2
    <3> QED BY <2>1, <2>2, <3>3
  <2>3. CASE q = p /\ i = m + 1 /\ i \notin DOMAIN t(q)
    <3>1. ~(j \in DOMAIN t(r) /\ tp(r)[j] = t(r)[j])
      BY <1>1, <1>3, <1>4, <2>3
    <3>2. r = p /\ j = m + 1
      BY <1>5, <3>1
    <3> QED BY <2>3, <3>2
  <2> QED BY <1>5, <2>2, <2>3
<1>9. IndicePropio'
  <2> SUFFICES ASSUME ~corrida', ~basura', NEW q \in Procesos, NEW i \in DOMAIN tp(q)
               PROVE  /\ tp(q)[i].globalFD \in 0 .. Len(gp) - 1
                      /\ gp[tp(q)[i].globalFD + 1].path.fd = tp(q)[i].fd
    BY DEF IndicePropio, Alineadas, HayEntradaGlobal, obtenerEntradaTablaGlobalDeArchivos, tp, gp
  <2>1. ~corrida /\ ~basura
    BY <1>1, <1>2
  <2>2. CASE i \in DOMAIN t(q) /\ tp(q)[i] = t(q)[i]
    <3>1. /\ t(q)[i].globalFD \in 0 .. n - 1
          /\ g[t(q)[i].globalFD + 1].path.fd = t(q)[i].fd
      BY <1>0, <2>1, <2>2
         DEF IndicePropio, Alineadas, HayEntradaGlobal, obtenerEntradaTablaGlobalDeArchivos, t, g, n
    <3>2. t(q)[i].globalFD + 1 \in 1 .. n
      BY <1>1, <3>1
    <3> QED BY <1>1, <2>2, <3>1, <3>2
  <2>3. CASE q = p /\ i = m + 1
    BY <1>1, <1>6, <2>3
  <2> QED BY <1>5, <2>2, <2>3
<1>10. AperturaPropia'
  <2> DEFINE De(q, e) == \E ap \in aperturas' :
               /\ ap.pid = q /\ ap.fd = e.fd /\ ap.flags = e.flags
               /\ \A j \in DOMAIN gp : gp[j].path.fd = e.fd => gp[j].path.nombre = ap.nombre
  <2> SUFFICES ASSUME NEW q \in Procesos, NEW i \in DOMAIN tp(q)
               PROVE  De(q, tp(q)[i])
    BY DEF AperturaPropia, AperturaDe, tp, gp
  <2>1. CASE i \in DOMAIN t(q) /\ tp(q)[i] = t(q)[i]
    <3>1. PICK ap \in aperturas :
            /\ ap.pid = q /\ ap.fd = t(q)[i].fd /\ ap.flags = t(q)[i].flags
            /\ \A j \in DOMAIN g : g[j].path.fd = t(q)[i].fd => g[j].path.nombre = ap.nombre
      BY <1>0, <2>1 DEF AperturaPropia, AperturaDe, t, g
    <3>2. \A j \in DOMAIN gp : gp[j].path.fd = t(q)[i].fd => gp[j].path.nombre = ap.nombre
      <4> SUFFICES ASSUME NEW j \in DOMAIN gp, gp[j].path.fd = t(q)[i].fd
                   PROVE  gp[j].path.nombre = ap.nombre
        OBVIOUS
      <4>1. t(q)[i].fd \in Nat /\ t(q)[i].fd < fdcounter
        BY <1>4, <2>1
      <4>2. j # n + 1
        BY <1>1, <1>3, <1>6, <4>1
      <4>3. j \in 1 .. n
        BY <1>1, <1>3, <4>2
      <4>4. gp[j].path = g[j].path /\ j \in DOMAIN g
        BY <1>1, <1>3, <4>3
      <4> QED BY <3>1, <4>4
    <3>3. ap \in aperturas'
      BY <1>2, <3>1
    <3> QED BY <2>1, <3>1, <3>2, <3>3
  <2>2. CASE q = p /\ i = m + 1
    <3> DEFINE ap == [pid |-> p, fd |-> fdcounter, nombre |-> nombre, flags |-> flags]
    <3>1. ap \in aperturas'
      BY <1>2
    <3>2. ap.pid = q /\ ap.fd = tp(q)[i].fd /\ ap.flags = tp(q)[i].flags
      BY <1>1, <2>2
    <3>3. \A j \in DOMAIN gp : gp[j].path.fd = fdcounter => gp[j].path.nombre = nombre
      BY <1>1, <1>3, <1>6
    <3> QED BY <1>1, <2>2, <3>1, <3>2, <3>3
  <2> QED BY <1>5, <2>1, <2>2
<1> QED BY <1>7, <1>8, <1>9, <1>10 DEF InvTablas

-----------------------------------------------------------------------------
(* A close.                                                                *)

(* The entries of a process after a step are entries it had, each in one    *)
(* place, and none has the descriptor fd.                                  *)
SinEntradaDe(fd) ==
  \E lugar \in [Procesos -> [Nat -> Nat]] :
    \A q \in Procesos : \A i \in DOMAIN tablasArchivosPorProceso'[q] :
      /\ i \in Nat /\ lugar[q][i] \in DOMAIN tablasArchivosPorProceso[q]
      /\ tablasArchivosPorProceso'[q][i] = tablasArchivosPorProceso[q][lugar[q][i]]
      /\ tablasArchivosPorProceso'[q][i].fd # fd
      /\ \A j \in DOMAIN tablasArchivosPorProceso'[q] : lugar[q][i] = lugar[q][j] => i = j

LEMMA TablasTrasElClose ==
  ASSUME TypeOK, FDUnico, NEW p \in Procesos, NEW fd \in Abiertos(p),
         tablasArchivosPorProceso' =
           [tablasArchivosPorProceso EXCEPT ![p] = borrarArchivoDeTabla(p, fd)]
  PROVE  /\ tablasArchivosPorProceso' \in [Procesos -> Seq(Entradas)]
         /\ SinEntradaDe(fd)
<1> DEFINE t(q) == tablasArchivosPorProceso[q]
           tp(q) == tablasArchivosPorProceso'[q]
           c == obtenerArchivoDeLaTablaDeUnProcesoPorFD(p, fd)
           lugar == [q \in Procesos |-> [i \in Nat |-> IF q = p /\ ~(i < c) THEN i + 1 ELSE i]]
<1>1. /\ t(p) \in Seq(Entradas) /\ c \in 1 .. Len(t(p)) /\ t(p)[c].fd = fd
      /\ tablasArchivosPorProceso \in [Procesos -> Seq(Entradas)]
  BY PosicionDelDescriptor, EntradaTipo DEF TypeOK, Entrada
<1>2. tp(p) = RemoveAt(t(p), c) /\ \A q \in Procesos : q # p => tp(q) = t(q)
  BY <1>1 DEF borrarArchivoDeTabla
<1>3. RemoveAt(t(p), c) \in Seq(Entradas) /\ Len(RemoveAt(t(p), c)) = Len(t(p)) - 1
  BY <1>1, RemoveAtTipo
<1>4. \A i \in 1 .. Len(t(p)) - 1 : RemoveAt(t(p), c)[i] = IF i < c THEN t(p)[i] ELSE t(p)[i + 1]
  BY <1>1, RemoveAtElementos
<1>5. tablasArchivosPorProceso' \in [Procesos -> Seq(Entradas)]
  BY <1>1, <1>3 DEF borrarArchivoDeTabla
<1>6. DOMAIN tp(p) = 1 .. Len(t(p)) - 1 /\ Len(t(p)) \in Nat
  BY <1>1, <1>2, <1>3
<1>7. \A q \in Procesos : DOMAIN t(q) = 1 .. Len(t(q)) /\ Len(t(q)) \in Nat
  BY EntradaTipo
<1>8. \A q \in Procesos : \A i \in DOMAIN t(q) : t(q)[i].fd = fd => q = p /\ i = c
  BY <1>1, <1>7 DEF FDUnico
<1>9. lugar \in [Procesos -> [Nat -> Nat]]
  BY <1>1, <1>7
<1>10. c \in Nat
  BY <1>1, <1>7
<1> HIDE DEF t, tp, c
<1>11. ASSUME NEW q \in Procesos, NEW i \in DOMAIN tp(q)
       PROVE  /\ i \in Nat /\ lugar[q][i] \in DOMAIN t(q)
              /\ tp(q)[i] = t(q)[lugar[q][i]]
              /\ tp(q)[i].fd # fd
              /\ \A j \in DOMAIN tp(q) : lugar[q][i] = lugar[q][j] => i = j
  <2>1. CASE q # p
    <3>1. tp(q) = t(q) /\ i \in DOMAIN t(q) /\ DOMAIN t(q) \subseteq Nat
      BY <1>2, <1>7, <2>1
    <3>2. \A j \in DOMAIN tp(q) : j \in Nat /\ lugar[q][j] = j
      BY <2>1, <3>1
    <3> QED BY <1>8, <2>1, <3>1, <3>2
  <2>2. CASE q = p
    <3>1. \A j \in DOMAIN tp(p) : j \in 1 .. Len(t(p)) - 1 /\ j \in Nat
      BY <1>6
    <3>2. \A j \in DOMAIN tp(p) : lugar[p][j] = IF j < c THEN j ELSE j + 1
      BY <3>1, <1>10
    <3> HIDE DEF lugar
    <3>3. lugar[p][i] \in DOMAIN t(p) /\ lugar[p][i] # c
      BY <1>6, <1>7, <1>10, <2>2, <3>1, <3>2
    <3>4. tp(p)[i] = t(p)[lugar[p][i]]
      BY <1>2, <1>4, <2>2, <3>1, <3>2
    <3>5. \A j \in DOMAIN tp(p) : lugar[p][i] = lugar[p][j] => i = j
      BY <1>10, <2>2, <3>1, <3>2
    <3> QED BY <1>8, <2>2, <3>1, <3>3, <3>4, <3>5
  <2> QED BY <2>1, <2>2
<1> HIDE DEF lugar
<1>12. SinEntradaDe(fd)
  BY <1>9, <1>11 DEF SinEntradaDe, t, tp
<1> QED BY <1>5, <1>12

(* A close keeps the invariant of the tables. *)
LEMMA CloseInv ==
  ASSUME InvTablas, TypeOK', NEW p \in Procesos, NEW fd \in Abiertos(p),
         HayEntradaGlobal(Entrada(p, fd)), cerrarArchivo(p, fd)
  PROVE  InvTablas'
<1> DEFINE e == Entrada(p, fd)
           n == Len(tablaGlobalDeArchivos)
           g == tablaGlobalDeArchivos
           gp == tablaGlobalDeArchivos'
           t(q) == tablasArchivosPorProceso[q]
           tp(q) == tablasArchivosPorProceso'[q]
<1>0. TypeOK /\ FDViejo /\ FDUnico /\ IndicePropio /\ AperturaPropia
  BY DEF InvTablas
<1>1. /\ tablasArchivosPorProceso' =
           [tablasArchivosPorProceso EXCEPT ![p] = borrarArchivoDeTabla(p, fd)]
      /\ gp = SacarDeGlobal(e)
      /\ corrida' = (corrida \/ e.globalFD # n - 1)
      /\ aperturas' = {ap \in aperturas : ap.fd # fd}
      /\ fdcounter' = fdcounter /\ basura' = basura
  BY DEF cerrarArchivo
<1>2. e \in Entradas /\ e.fd = fd
  BY <1>0, PosicionDelDescriptor
<1>3. /\ \A k \in DOMAIN gp : \E l \in DOMAIN g : gp[k].path = g[l].path
      /\ e.globalFD = n - 1 =>
           \A k \in 1 .. n - 1 : k \in DOMAIN gp /\ gp[k].path = g[k].path
      /\ DOMAIN gp = 1 .. Len(gp)
  BY <1>0, <1>1, <1>2, TablaDelClose
<1>4. PICK lugar \in [Procesos -> [Nat -> Nat]] :
        \A q \in Procesos : \A i \in DOMAIN tp(q) :
          /\ i \in Nat /\ lugar[q][i] \in DOMAIN t(q)
          /\ tp(q)[i] = t(q)[lugar[q][i]]
          /\ tp(q)[i].fd # fd
          /\ \A j \in DOMAIN tp(q) : lugar[q][i] = lugar[q][j] => i = j
  <2>1. tablasArchivosPorProceso' =
          [tablasArchivosPorProceso EXCEPT ![p] = borrarArchivoDeTabla(p, fd)]
    BY <1>1
  <2>2. TypeOK /\ FDUnico
    BY <1>0
  <2>3. SinEntradaDe(fd)
    BY <2>1, <2>2, TablasTrasElClose
  <2> QED BY <2>3, Zenon DEF SinEntradaDe
<1>5. n \in Nat /\ DOMAIN g = 1 .. n
  BY <1>0, ElementoTipo
<1>6. \A q \in Procesos : \A i \in DOMAIN t(q) : t(q)[i].globalFD \in Int
  BY <1>0, EntradaTipo
<1>7. ~corrida /\ ~basura => g[e.globalFD + 1].path.fd = fd
  <2>1. obtenerArchivoDeLaTablaDeUnProcesoPorFD(p, fd) \in DOMAIN t(p)
    BY <1>0, PosicionDelDescriptor
  <2> QED BY <1>0, <1>2, <2>1
          DEF IndicePropio, Alineadas, Entrada, obtenerEntradaTablaGlobalDeArchivos
<1> HIDE DEF e, n, g, gp, t, tp
<1>8. FDViejo'
  <2>1. \A q \in Procesos : \A i \in DOMAIN tp(q) : tp(q)[i].fd < fdcounter
    BY <1>0, <1>4 DEF FDViejo, t
  <2>2. \A j \in DOMAIN gp : gp[j].path.fd < fdcounter
    BY <1>0, <1>3 DEF FDViejo, g
  <2> QED BY <1>1, <2>1, <2>2 DEF FDViejo, tp, gp
<1>9. FDUnico'
  <2> SUFFICES ASSUME NEW q \in Procesos, NEW r \in Procesos,
                      NEW i \in DOMAIN tp(q), NEW j \in DOMAIN tp(r),
                      tp(q)[i].fd = tp(r)[j].fd
               PROVE  q = r /\ i = j
    BY DEF FDUnico, tp
  <2>1. q = r /\ lugar[q][i] = lugar[r][j]
    BY <1>0, <1>4 DEF FDUnico, t
  <2> QED BY <1>4, <2>1
<1>10. IndicePropio'
  <2> SUFFICES ASSUME ~corrida', ~basura', NEW q \in Procesos, NEW i \in DOMAIN tp(q)
               PROVE  /\ tp(q)[i].globalFD \in 0 .. Len(gp) - 1
                      /\ gp[tp(q)[i].globalFD + 1].path.fd = tp(q)[i].fd
    BY DEF IndicePropio, Alineadas, HayEntradaGlobal, obtenerEntradaTablaGlobalDeArchivos, tp, gp
  <2> DEFINE d == t(q)[lugar[q][i]]
  <2>1. ~corrida /\ ~basura /\ e.globalFD = n - 1
    BY <1>1
  <2>2. lugar[q][i] \in DOMAIN t(q) /\ tp(q)[i] = d /\ d.fd # fd /\ d.globalFD \in Int
    BY <1>4, <1>6
  <2>3. d.globalFD \in 0 .. n - 1 /\ g[d.globalFD + 1].path.fd = d.fd
    BY <1>0, <2>1, <2>2
       DEF IndicePropio, Alineadas, HayEntradaGlobal, obtenerEntradaTablaGlobalDeArchivos, t, g, n
  <2> HIDE DEF d
  <2>4. d.globalFD # n - 1
    BY <1>7, <2>1, <2>2, <2>3
  <2>5. \A k \in 0 .. n - 1 : k # n - 1 => k + 1 \in 1 .. n - 1
    BY <1>5
  <2>6. d.globalFD + 1 \in DOMAIN gp /\ gp[d.globalFD + 1].path = g[d.globalFD + 1].path
    BY <1>3, <2>1, <2>3, <2>4, <2>5
  <2>7. d.globalFD \in 0 .. Len(gp) - 1
    <3>1. \A k \in Int : k + 1 \in 1 .. Len(gp) => k \in 0 .. Len(gp) - 1
      BY <1>3
    <3> QED BY <1>3, <2>2, <2>6, <3>1
  <2> QED BY <2>2, <2>3, <2>6, <2>7
<1>11. AperturaPropia'
  <2> SUFFICES ASSUME NEW q \in Procesos, NEW i \in DOMAIN tp(q)
               PROVE  \E ap \in aperturas' :
                        /\ ap.pid = q /\ ap.fd = tp(q)[i].fd /\ ap.flags = tp(q)[i].flags
                        /\ \A j \in DOMAIN gp :
                             gp[j].path.fd = tp(q)[i].fd => gp[j].path.nombre = ap.nombre
    BY DEF AperturaPropia, AperturaDe, tp, gp
  <2>1. PICK ap \in aperturas :
          /\ ap.pid = q /\ ap.fd = tp(q)[i].fd /\ ap.flags = tp(q)[i].flags
          /\ \A j \in DOMAIN g : g[j].path.fd = tp(q)[i].fd => g[j].path.nombre = ap.nombre
    <3>1. AperturaDe(q, t(q)[lugar[q][i]])
      BY <1>0, <1>4 DEF AperturaPropia, t
    <3>2. tp(q)[i] = t(q)[lugar[q][i]]
      BY <1>4
    <3> QED BY <3>1, <3>2, Zenon DEF AperturaDe, g
  <2>2. ap \in aperturas'
    BY <1>1, <1>4, <2>1
  <2>3. \A j \in DOMAIN gp : gp[j].path.fd = tp(q)[i].fd => gp[j].path.nombre = ap.nombre
    BY <1>3, <2>1
  <2> QED BY <2>1, <2>2, <2>3
<1> QED BY <1>8, <1>9, <1>10, <1>11 DEF InvTablas

-----------------------------------------------------------------------------
(* The other steps.                                                        *)

(* What moverCursor leaves: the cursor is the only field that changes.     *)
LEMMA TablasTrasMover ==
  ASSUME TypeOK, NEW p \in Procesos, NEW fd \in Abiertos(p), NEW posicion \in Cursores,
         moverCursor(p, fd, posicion)
  PROVE  /\ tablasArchivosPorProceso' \in [Procesos -> Seq(Entradas)]
         /\ \A q \in Procesos :
              /\ DOMAIN tablasArchivosPorProceso'[q] = DOMAIN tablasArchivosPorProceso[q]
              /\ \A i \in DOMAIN tablasArchivosPorProceso[q] :
                   LET e == tablasArchivosPorProceso[q][i]
                       f == tablasArchivosPorProceso'[q][i]
                   IN f.fd = e.fd /\ f.flags = e.flags /\ f.globalFD = e.globalFD
<1> DEFINE t == tablasArchivosPorProceso[p]
           c == obtenerArchivoDeLaTablaDeUnProcesoPorFD(p, fd)
           f == [t[c] EXCEPT !.puntero = posicion]
<1>1. t \in Seq(Entradas) /\ c \in DOMAIN t /\ t[c] \in Entradas
      /\ tablasArchivosPorProceso \in [Procesos -> Seq(Entradas)]
  BY PosicionDelDescriptor, EntradaTipo DEF TypeOK
<1>2. tablasArchivosPorProceso' = [tablasArchivosPorProceso EXCEPT ![p] = [t EXCEPT ![c] = f]]
  BY DEF moverCursor
<1> HIDE DEF c
<1>3. f \in Entradas /\ f.fd = t[c].fd /\ f.flags = t[c].flags /\ f.globalFD = t[c].globalFD
  BY <1>1, NumerosAssumption DEF Entradas
<1> HIDE DEF f
<1>4. [t EXCEPT ![c] = f] \in Seq(Entradas)
      /\ DOMAIN [t EXCEPT ![c] = f] = DOMAIN t
      /\ \A i \in DOMAIN t : [t EXCEPT ![c] = f][i] = IF i = c THEN f ELSE t[i]
  BY <1>1, <1>3
<1> HIDE DEF t
<1>5. tablasArchivosPorProceso' \in [Procesos -> Seq(Entradas)]
  BY <1>1, <1>2, <1>4
<1>6. tablasArchivosPorProceso'[p] = [t EXCEPT ![c] = f]
      /\ \A q \in Procesos : q # p => tablasArchivosPorProceso'[q] = tablasArchivosPorProceso[q]
  BY <1>1, <1>2
<1> QED BY <1>3, <1>4, <1>5, <1>6 DEF t

(* A step keeps the invariant of the tables if it leaves the descriptors,  *)
(* their flags and their positions, the global list and the history.       *)
LEMMA MismasTablas ==
  ASSUME InvTablas, TypeOK',
         UNCHANGED <<tablaGlobalDeArchivos, fdcounter, historia>>,
         \A q \in Procesos :
           /\ DOMAIN tablasArchivosPorProceso'[q] = DOMAIN tablasArchivosPorProceso[q]
           /\ \A i \in DOMAIN tablasArchivosPorProceso[q] :
                LET e == tablasArchivosPorProceso[q][i]
                    f == tablasArchivosPorProceso'[q][i]
                IN f.fd = e.fd /\ f.flags = e.flags /\ f.globalFD = e.globalFD
  PROVE  InvTablas'
<1>0. FDViejo /\ FDUnico /\ IndicePropio /\ AperturaPropia
  BY DEF InvTablas
<1>1. /\ tablaGlobalDeArchivos' = tablaGlobalDeArchivos /\ fdcounter' = fdcounter
      /\ aperturas' = aperturas /\ corrida' = corrida /\ basura' = basura
  BY DEF historia
<1>2. FDViejo'
  BY <1>0, <1>1 DEF FDViejo
<1>3. FDUnico'
  BY <1>0, <1>1 DEF FDUnico
<1>4. IndicePropio'
  BY <1>0, <1>1
     DEF IndicePropio, Alineadas, HayEntradaGlobal, obtenerEntradaTablaGlobalDeArchivos
<1>5. AperturaPropia'
  <2> SUFFICES ASSUME NEW q \in Procesos, NEW i \in DOMAIN tablasArchivosPorProceso[q]
               PROVE  AperturaDe(q, tablasArchivosPorProceso[q][i])'
    BY <1>0, <1>1 DEF AperturaPropia
  <2>1. AperturaDe(q, tablasArchivosPorProceso[q][i])
    BY <1>0 DEF AperturaPropia
  <2> QED BY <1>1, <2>1 DEF AperturaDe
<1> QED BY <1>2, <1>3, <1>4, <1>5 DEF InvTablas

(* While the positions are those that were given, a descriptor leads to    *)
(* its own element, and that one was granted what the entry says.          *)
LEMMA DescriptorEnRegla ==
  ASSUME InvTablas, Alineadas, NEW p \in Procesos, NEW fd \in Abiertos(p)
  PROVE  LET e == Entrada(p, fd)
         IN /\ HayEntradaGlobal(e)
            /\ \E ap \in aperturas :
                 /\ ap.pid = p /\ ap.fd = fd /\ ap.flags = e.flags
                 /\ ap.nombre = obtenerEntradaTablaGlobalDeArchivos(e).path.nombre
<1> DEFINE c == obtenerArchivoDeLaTablaDeUnProcesoPorFD(p, fd)
           e == Entrada(p, fd)
<1>0. TypeOK /\ IndicePropio /\ AperturaPropia
  BY DEF InvTablas
<1>1. c \in DOMAIN tablasArchivosPorProceso[p] /\ e = tablasArchivosPorProceso[p][c]
      /\ e.fd = fd /\ e \in Entradas
  BY <1>0, PosicionDelDescriptor DEF Entrada
<1> HIDE DEF c, e
<1>2. HayEntradaGlobal(e) /\ obtenerEntradaTablaGlobalDeArchivos(e).path.fd = fd
  BY <1>0, <1>1 DEF IndicePropio
<1>3. PICK ap \in aperturas :
        /\ ap.pid = p /\ ap.fd = e.fd /\ ap.flags = e.flags
        /\ \A j \in DOMAIN tablaGlobalDeArchivos :
             tablaGlobalDeArchivos[j].path.fd = e.fd =>
               tablaGlobalDeArchivos[j].path.nombre = ap.nombre
  BY <1>0, <1>1 DEF AperturaPropia, AperturaDe
<1>4. e.globalFD + 1 \in DOMAIN tablaGlobalDeArchivos
  BY <1>0, <1>1, <1>2, ElementoTipo DEF HayEntradaGlobal, Entradas
<1>5. obtenerEntradaTablaGlobalDeArchivos(e).path.nombre = ap.nombre
  BY <1>1, <1>2, <1>3, <1>4 DEF obtenerEntradaTablaGlobalDeArchivos
<1> QED BY <1>1, <1>2, <1>3, <1>5 DEF e

(* A write or a read names the file of its descriptor, and follows no NULL *)
(* while the positions are those that were given.                          *)
LEMMA PedidoInv ==
  ASSUME Inv, TypeOK', NEW p \in Procesos, NEW fd \in Abiertos(p),
         escribirArchivo(p, fd) \/ leerArchivo(p, fd)
  PROVE  Inv'
<1> DEFINE e == Entrada(p, fd)
           g == obtenerEntradaTablaGlobalDeArchivos(e)
<1>0. InvTablas /\ PathDondeDebeAlineadas
  BY DEF Inv
<1>1. /\ ~caido
      /\ UNCHANGED <<tablas, fdcounter, historia>>
      /\ \/ ~HayEntradaGlobal(e)
         \/ caido' = caido /\ pedidoFS' = Nada
         \/ caido' = caido /\ Puede(e, g, "w") /\ Manda("GUARDAR_DATOS", p, fd, g, e.puntero)
         \/ caido' = caido /\ Puede(e, g, "r") /\ Manda("SOLICITUD_OBTENCION_DATOS", p, fd, g, 0)
  <2>1. CASE escribirArchivo(p, fd)
    BY <2>1 DEF escribirArchivo, Pide, Cae, NadaParaFS
  <2>2. CASE leerArchivo(p, fd)
    BY <2>2 DEF leerArchivo, Pide, Cae, NadaParaFS
  <2> QED BY <2>1, <2>2
<1>2. InvTablas'
  BY <1>0, <1>1, MismasTablas DEF tablas
<1>3. PathDondeDebeAlineadas'
  <2> SUFFICES ASSUME Alineadas' PROVE PathDondeDebe' /\ ~caido'
    BY DEF PathDondeDebeAlineadas
  <2>1. Alineadas
    BY <1>1 DEF Alineadas, historia
  <2>2. /\ HayEntradaGlobal(e)
        /\ \E ap \in aperturas :
             ap.pid = p /\ ap.fd = fd /\ ap.flags = e.flags /\ ap.nombre = g.path.nombre
    BY <1>0, <2>1, DescriptorEnRegla
  <2>3. aperturas' = aperturas
    BY <1>1 DEF historia
  <2> HIDE DEF e, g
  <2>4. CASE caido' = caido /\ pedidoFS' = Nada
    BY <1>1, <2>4 DEF PathDondeDebe
  <2>5. CASE /\ caido' = caido /\ Puede(e, g, "w")
             /\ Manda("GUARDAR_DATOS", p, fd, g, e.puntero)
    BY <1>1, <2>2, <2>3, <2>5 DEF Puede, Manda, PathDondeDebe, Concedido
  <2>6. CASE /\ caido' = caido /\ Puede(e, g, "r")
             /\ Manda("SOLICITUD_OBTENCION_DATOS", p, fd, g, 0)
    BY <1>1, <2>2, <2>3, <2>6 DEF Puede, Manda, PathDondeDebe, Concedido
  <2> QED BY <1>1, <2>2, <2>4, <2>5, <2>6
<1> QED BY <1>2, <1>3 DEF Inv

-----------------------------------------------------------------------------
(* Every step.                                                             *)

LEMMA TipoPaso == TypeOK /\ [Next]_vars => TypeOK'
<1> SUFFICES ASSUME TypeOK, [Next]_vars PROVE TypeOK'
  OBVIOUS
<1> DEFINE TipoGlobal == tablaGlobalDeArchivos \in Seq(ElementosGlobales)
           TipoTablas == tablasArchivosPorProceso \in [Procesos -> Seq(Entradas)]
           TipoEstado == estado \in [Procesos -> {"corre", "finalizado", "espera"}]
           TipoResto == /\ fdcounter \in Nat /\ existentes \subseteq Nombres
                        /\ caido \in BOOLEAN /\ corrida \in BOOLEAN /\ basura \in BOOLEAN
                        /\ pedidos \in 0 .. MaxPedidos
<1>0. TipoGlobal /\ TipoTablas /\ TipoEstado /\ TipoResto
  BY DEF TypeOK, ElementosGlobales
<1>1. SUFFICES TipoGlobal' /\ TipoTablas' /\ TipoEstado' /\ TipoResto'
  BY DEF TypeOK, ElementosGlobales
<1>2. ASSUME NEW p \in Procesos, Pide(p) PROVE pedidos' \in 0 .. MaxPedidos
  BY <1>0, <1>2, NumerosAssumption DEF Pide
<1>3. \A p \in Procesos : finalizarProcesoPorPID(p) => TipoEstado'
  BY <1>0 DEF finalizarProcesoPorPID
<1>4. \A p \in Procesos : NoContesta(p) => TipoEstado'
  BY <1>0 DEF NoContesta
<1>5. ASSUME NEW p \in Procesos, NEW nombre \in Nombres, NEW flags \in Permisos,
             abrirArchivo(p, nombre, flags)
      PROVE  TipoGlobal' /\ TipoTablas' /\ TipoEstado' /\ TipoResto'
  <2>1. Pide(p) /\ caido' = caido
    BY <1>5 DEF abrirArchivo
  <2>2. CASE /\ existentes' = existentes \cup {nombre}
             /\ agregarNuevoArchivoATablas(p, nombre, flags) /\ UNCHANGED estado
    <3>1. TipoGlobal' /\ TipoTablas' /\ basura' \in BOOLEAN
      BY <1>0, <2>2, TrasElOpen
    <3>2. fdcounter' \in Nat /\ corrida' = corrida
      BY <1>0, <2>2 DEF agregarNuevoArchivoATablas
    <3> QED BY <1>0, <1>2, <2>1, <2>2, <3>1, <3>2
  <2>3. CASE /\ finalizarProcesoPorPID(p)
             /\ UNCHANGED <<tablas, fdcounter, existentes, historia>>
    BY <1>0, <1>2, <1>3, <2>1, <2>3 DEF tablas, historia
  <2> QED BY <1>5, <2>2, <2>3 DEF abrirArchivo
<1>6. ASSUME NEW p \in Procesos, Pide(p), Cae
      PROVE  TipoGlobal' /\ TipoTablas' /\ TipoEstado' /\ TipoResto'
  BY <1>0, <1>2, <1>6 DEF Cae, tablas, historia
<1>7. ASSUME NEW p \in Procesos, NEW fd \in Abiertos(p),
             escribirArchivo(p, fd) \/ leerArchivo(p, fd) \/ borrarArchivo(p, fd)
      PROVE  TipoGlobal' /\ TipoTablas' /\ TipoEstado' /\ TipoResto'
  <2>1. Pide(p)
    BY <1>7 DEF escribirArchivo, leerArchivo, borrarArchivo
  <2>2. \/ Cae
        \/ /\ UNCHANGED <<tablas, fdcounter, existentes, caido, historia>>
           /\ UNCHANGED estado \/ finalizarProcesoPorPID(p) \/ NoContesta(p)
    <3>1. CASE escribirArchivo(p, fd)
      BY <3>1 DEF escribirArchivo
    <3>2. CASE leerArchivo(p, fd)
      BY <3>2 DEF leerArchivo
    <3>3. CASE borrarArchivo(p, fd)
      BY <3>3 DEF borrarArchivo
    <3> QED BY <1>7, <3>1, <3>2, <3>3
  <2>3. CASE Cae
    BY <1>6, <2>1, <2>3
  <2>4. CASE /\ UNCHANGED <<tablas, fdcounter, existentes, caido, historia>>
             /\ UNCHANGED estado \/ finalizarProcesoPorPID(p) \/ NoContesta(p)
    <3>1. TipoEstado'
      BY <1>0, <1>3, <1>4, <2>4
    <3> QED BY <1>0, <1>2, <2>1, <2>4, <3>1 DEF tablas, historia
  <2> QED BY <2>2, <2>3, <2>4
<1>8. ASSUME NEW p \in Procesos, NEW fd \in Abiertos(p), cerrarArchivo(p, fd)
      PROVE  TipoGlobal' /\ TipoTablas' /\ TipoEstado' /\ TipoResto'
  <2> DEFINE e == Entrada(p, fd)
  <2>1. Pide(p)
    BY <1>8 DEF cerrarArchivo
  <2>2. CASE ~HayEntradaGlobal(e)
    BY <1>6, <1>8, <2>1, <2>2 DEF cerrarArchivo
  <2>3. CASE HayEntradaGlobal(e)
    <3>1. e \in Entradas
      BY PosicionDelDescriptor
    <3>2. SacarDeGlobal(e) \in Seq(ElementosGlobales)
      BY <2>3, <3>1, TablaDelClose
    <3>3. borrarArchivoDeTabla(p, fd) \in Seq(Entradas)
      <4>1. /\ tablasArchivosPorProceso[p] \in Seq(Entradas)
            /\ obtenerArchivoDeLaTablaDeUnProcesoPorFD(p, fd)
                  \in 1 .. Len(tablasArchivosPorProceso[p])
        BY <1>0, PosicionDelDescriptor, EntradaTipo
      <4> QED BY <4>1, RemoveAtTipo DEF borrarArchivoDeTabla
    <3>4. /\ tablaGlobalDeArchivos' = SacarDeGlobal(e)
          /\ tablasArchivosPorProceso' =
               [tablasArchivosPorProceso EXCEPT ![p] = borrarArchivoDeTabla(p, fd)]
          /\ corrida' \in BOOLEAN
          /\ UNCHANGED <<fdcounter, existentes, estado, caido, basura>>
      BY <1>0, <1>8, <2>3 DEF cerrarArchivo
    <3>5. TipoTablas'
      BY <1>0, <3>3, <3>4
    <3> QED BY <1>0, <1>2, <2>1, <3>2, <3>4, <3>5
  <2> QED BY <2>2, <2>3
<1>9. ASSUME NEW p \in Procesos, NEW fd \in Abiertos(p), NEW posicion \in Cursores,
             moverCursor(p, fd, posicion)
      PROVE  TipoGlobal' /\ TipoTablas' /\ TipoEstado' /\ TipoResto'
  <2>1. Pide(p) /\ UNCHANGED <<tablaGlobalDeArchivos, fdcounter, existentes, estado, caido, historia>>
    BY <1>9 DEF moverCursor
  <2>2. TipoTablas'
    BY <1>9, TablasTrasMover
  <2> QED BY <1>0, <1>2, <2>1, <2>2 DEF historia
<1>10. ASSUME NEW p \in Procesos, respuestaAjena(p)
       PROVE  TipoGlobal' /\ TipoTablas' /\ TipoEstado' /\ TipoResto'
  BY <1>0, <1>10 DEF respuestaAjena, tablas, historia
<1>11. CASE UNCHANGED vars
  BY <1>0, <1>11 DEF vars, tablas, historia
<1> HIDE DEF TipoGlobal, TipoTablas, TipoEstado, TipoResto
<1> QED BY <1>5, <1>7, <1>8, <1>9, <1>10, <1>11 DEF Next

(* The requests that send nothing to File_System leave the last one        *)
(* forgotten, and only a NULL makes the Kernel fall.                        *)
LEMMA InvPaso == Inv /\ [Next]_vars => Inv'
<1> SUFFICES ASSUME Inv, [Next]_vars PROVE Inv'
  OBVIOUS
<1>0. InvTablas /\ PathDondeDebeAlineadas /\ TypeOK
  BY DEF Inv, InvTablas
<1>1. TypeOK'
  BY <1>0, TipoPaso
<1>2. ASSUME UNCHANGED <<tablas, fdcounter, historia>> PROVE InvTablas'
  BY <1>0, <1>1, <1>2, MismasTablas DEF tablas
<1>3. ASSUME NadaParaFS, ~caido' PROVE PathDondeDebeAlineadas'
  BY <1>3 DEF NadaParaFS, PathDondeDebeAlineadas, PathDondeDebe
<1>4. ASSUME NEW p \in Procesos, NEW nombre \in Nombres, NEW flags \in Permisos,
             abrirArchivo(p, nombre, flags)
      PROVE  Inv'
  <2>1. NadaParaFS /\ ~caido'
    BY <1>4 DEF abrirArchivo, Pide
  <2>2. CASE agregarNuevoArchivoATablas(p, nombre, flags)
    <3>1. InvTablas'
      BY <1>0, <1>1, <2>2, OpenInv
    <3> QED BY <1>3, <2>1, <3>1 DEF Inv
  <2>3. CASE UNCHANGED <<tablas, fdcounter, existentes, historia>>
    <3>1. InvTablas'
      BY <1>2, <2>3
    <3> QED BY <1>3, <2>1, <3>1 DEF Inv
  <2> QED BY <1>4, <2>2, <2>3 DEF abrirArchivo
<1>5. ASSUME NEW p \in Procesos, NEW fd \in Abiertos(p), escribirArchivo(p, fd) \/ leerArchivo(p, fd)
      PROVE  Inv'
  BY <1>1, <1>5, PedidoInv
<1>6. ASSUME NEW p \in Procesos, NEW fd \in Abiertos(p), cerrarArchivo(p, fd)
      PROVE  Inv'
  <2>1. CASE HayEntradaGlobal(Entrada(p, fd))
    <3>1. InvTablas'
      BY <1>0, <1>1, <1>6, <2>1, CloseInv
    <3>2. NadaParaFS /\ ~caido'
      BY <1>6, <2>1 DEF cerrarArchivo, Pide
    <3> QED BY <1>3, <3>1, <3>2 DEF Inv
  <2>2. CASE ~HayEntradaGlobal(Entrada(p, fd))
    <3>1. Cae
      BY <1>6, <2>2 DEF cerrarArchivo
    <3>2. InvTablas'
      BY <1>2, <3>1 DEF Cae
    <3>3. ~Alineadas'
      <4>1. ~Alineadas
        BY <1>0, <2>2, DescriptorEnRegla
      <4> QED BY <3>1, <4>1 DEF Cae, Alineadas, historia
    <3> QED BY <3>2, <3>3 DEF Inv, PathDondeDebeAlineadas
  <2> QED BY <2>1, <2>2
<1>7. ASSUME NEW p \in Procesos, NEW fd \in Abiertos(p), NEW posicion \in Cursores,
             moverCursor(p, fd, posicion)
      PROVE  Inv'
  <2>1. /\ NadaParaFS /\ ~caido'
        /\ UNCHANGED <<tablaGlobalDeArchivos, fdcounter, historia>>
    BY <1>7 DEF moverCursor, Pide
  <2>2. InvTablas'
    BY <1>0, <1>1, <1>7, <2>1, TablasTrasMover, MismasTablas
  <2> QED BY <1>3, <2>1, <2>2 DEF Inv
<1>8. ASSUME NEW p \in Procesos, NEW fd \in Abiertos(p), borrarArchivo(p, fd)
      PROVE  Inv'
  <2>1. NadaParaFS /\ ~caido' /\ UNCHANGED <<tablas, fdcounter, historia>>
    BY <1>8 DEF borrarArchivo, Pide
  <2> QED BY <1>2, <1>3, <2>1 DEF Inv
<1>9. ASSUME UNCHANGED <<tablas, fdcounter, pedidoFS, caido, historia>>
      PROVE  Inv'
  <2>1. PathDondeDebeAlineadas'
    BY <1>0, <1>9
       DEF PathDondeDebeAlineadas, PathDondeDebe, Concedido, Alineadas, historia
  <2> QED BY <1>2, <1>9, <2>1 DEF Inv
<1>10. ASSUME NEW p \in Procesos, respuestaAjena(p)
       PROVE  Inv'
  BY <1>9, <1>10 DEF respuestaAjena
<1>11. CASE UNCHANGED vars
  BY <1>9, <1>11 DEF vars
<1> QED BY <1>4, <1>5, <1>6, <1>7, <1>8, <1>10, <1>11 DEF Next

LEMMA InvCorrecto == Spec => []Inv
  BY InvInicial, InvPaso, PTL DEF Spec

-----------------------------------------------------------------------------
(* The two tables, element by element.                                     *)

(* No element is open twice: each open brings a path of its own, so that   *)
(* counting it never reaches an element that was counted before, and a     *)
(* close always takes an element out.                                      *)
UnaSolaVez ==
  \A j \in DOMAIN tablaGlobalDeArchivos : tablaGlobalDeArchivos[j].open <= 1

InvParejas == UnaSolaVez /\ IsFiniteSet(Descriptores) /\ TablasParejas

LEMMA ParejasInicial == Init => InvParejas
<1> SUFFICES ASSUME Init PROVE InvParejas
  OBVIOUS
<1>1. Descriptores = {}
  BY DEF Init, Descriptores, Abiertos
<1>2. IsFiniteSet({}) /\ Cardinality({}) = 0
  BY FS_EmptySet
<1> QED BY <1>1, <1>2 DEF Init, InvParejas, UnaSolaVez, TablasParejas

(* Whatever the search starts from, the only element it can count is the   *)
(* new one.                                                                *)
LEMMA CuentaElNuevo ==
  ASSUME TypeOK, UnaSolaVez, NEW path \in [nombre : Nombres, fd : Nat], NEW a \in ValoresDeA,
         \A k \in DOMAIN tablaGlobalDeArchivos : tablaGlobalDeArchivos[k].path # path
  PROVE  LET r == chequearTablaGlobal(path, a)
         IN \A k \in DOMAIN r.tabla : r.tabla[k].open <= 1
<1> DEFINE g == tablaGlobalDeArchivos
           n == Len(g)
           e == [path |-> path, open |-> 0]
           t == Append(g, e)
           j == buscarEntradaEnTablaGlobal(t, path, a)
           js == {k \in a .. Len(t) - 1 : k >= 0 /\ t[k + 1].path = path}
           r == chequearTablaGlobal(path, a)
<1>1. g \in Seq(ElementosGlobales) /\ e \in ElementosGlobales /\ n \in Nat
  BY DEF TypeOK, ElementosGlobales
<1>2. /\ t \in Seq(ElementosGlobales) /\ DOMAIN t = 1 .. n + 1 /\ Len(t) = n + 1
      /\ t[n + 1] = e /\ \A k \in 1 .. n : t[k] = g[k]
  BY <1>1
<1>3. \A k \in 1 .. n : g[k].open <= 1 /\ g[k].path # path
  BY <1>1 DEF UnaSolaVez
<1>4. \A k \in 1 .. n + 1 : t[k].open <= 1
  <2>1. e.open = 0
    OBVIOUS
  <2> HIDE DEF t, e, g, n
  <2>2. \A k \in 1 .. n + 1 : k \in 1 .. n \/ k = n + 1
    BY <1>1
  <2> QED BY <1>2, <1>3, <2>1, <2>2
<1>5. j = -1 \/ j = n
  <2>1. \A k \in js : k = n
    <3> SUFFICES ASSUME NEW k \in js PROVE k = n
      OBVIOUS
    <3>1. k \in 0 .. n /\ t[k + 1].path = path
      BY <1>1, <1>2, NumerosAssumption
    <3>2. k + 1 \notin 1 .. n
      BY <1>2, <1>3, <3>1
    <3> QED BY <1>1, <3>1, <3>2
  <2>2. CASE a < 0 \/ js = {}
    BY <2>2 DEF buscarEntradaEnTablaGlobal
  <2>3. CASE ~(a < 0 \/ js = {})
    <3>1. js \in SUBSET Nat
      BY <1>2, NumerosAssumption
    <3>2. Min(js) \in js
      BY <2>3, <3>1, MinExiste
    <3>3. j = Min(js)
      BY <2>3 DEF buscarEntradaEnTablaGlobal
    <3> QED BY <2>1, <3>2, <3>3, Zenon
  <2> QED BY <2>2, <2>3
<1>6. r.tabla = IF j = -1 THEN t ELSE [t EXCEPT ![j + 1].open = @ + 1]
  BY DEF chequearTablaGlobal
<1> HIDE DEF j, r
<1>7. ASSUME j = -1 PROVE \A k \in DOMAIN r.tabla : r.tabla[k].open <= 1
  BY <1>2, <1>4, <1>6, <1>7
<1>8. ASSUME j = n PROVE \A k \in DOMAIN r.tabla : r.tabla[k].open <= 1
  <2> DEFINE f == [t[n + 1] EXCEPT !.open = @ + 1]
  <2>1. r.tabla = [t EXCEPT ![n + 1] = f]
    BY <1>1, <1>2, <1>6, <1>8
  <2>2. f.open <= 1
    BY <1>2
  <2> HIDE DEF f, t, e, g, n
  <2>3. DOMAIN r.tabla = 1 .. n + 1
    BY <1>2, <2>1
  <2>4. \A k \in 1 .. n + 1 : r.tabla[k] = IF k = n + 1 THEN f ELSE t[k]
    BY <1>2, <2>1
  <2> QED BY <1>4, <2>2, <2>3, <2>4
<1> QED BY <1>5, <1>7, <1>8 DEF r

LEMMA ParejasOpen ==
  ASSUME InvTablas, InvParejas,
         NEW p \in Procesos, NEW nombre \in Nombres, NEW flags \in Permisos,
         agregarNuevoArchivoATablas(p, nombre, flags)
  PROVE  InvParejas'
<1> DEFINE n == Len(tablaGlobalDeArchivos)
           m == Len(tablasArchivosPorProceso[p])
<1>0. TypeOK /\ FDViejo /\ UnaSolaVez /\ IsFiniteSet(Descriptores) /\ TablasParejas
  BY DEF InvTablas, InvParejas
<1>1. fdcounter \in Nat
  BY <1>0 DEF TypeOK
<1>2. UnaSolaVez'
  <2>1. PICK a \in ValoresDeA : tablaGlobalDeArchivos' = chequearTablaGlobal(Ruta(nombre), a).tabla
    BY DEF agregarNuevoArchivoATablas
  <2>2. Ruta(nombre) \in [nombre : Nombres, fd : Nat] /\ Ruta(nombre).fd = fdcounter
    BY <1>1 DEF Ruta
  <2>3. \A k \in DOMAIN tablaGlobalDeArchivos : tablaGlobalDeArchivos[k].path # Ruta(nombre)
    BY <1>0, <1>1, <2>2, ElementoTipo DEF FDViejo
  <2>4. \A k \in DOMAIN chequearTablaGlobal(Ruta(nombre), a).tabla :
          chequearTablaGlobal(Ruta(nombre), a).tabla[k].open <= 1
    BY <1>0, <2>2, <2>3, CuentaElNuevo
  <2> QED BY <2>1, <2>4 DEF UnaSolaVez
<1>3. /\ n \in Nat /\ Len(tablaGlobalDeArchivos') = n + 1
      /\ \A q \in Procesos \ {p} : tablasArchivosPorProceso'[q] = tablasArchivosPorProceso[q]
      /\ m \in Nat /\ Len(tablasArchivosPorProceso'[p]) = m + 1
      /\ tablasArchivosPorProceso'[p] \in Seq(Entradas)
      /\ \A i \in 1 .. m : tablasArchivosPorProceso'[p][i] = tablasArchivosPorProceso[p][i]
      /\ tablasArchivosPorProceso'[p][m + 1].fd = fdcounter
  BY <1>0, TrasElOpen
<1>4. DOMAIN tablasArchivosPorProceso'[p] = 1 .. m + 1 /\ DOMAIN tablasArchivosPorProceso[p] = 1 .. m
  BY <1>0, <1>3, EntradaTipo
<1>5. Abiertos(p)' = Abiertos(p) \cup {fdcounter}
  <2> DEFINE tp == tablasArchivosPorProceso'[p]
             t == tablasArchivosPorProceso[p]
  <2>1. Abiertos(p)' = {tp[i].fd : i \in 1 .. m + 1} /\ Abiertos(p) = {t[i].fd : i \in 1 .. m}
    BY <1>4 DEF Abiertos
  <2>2. 1 .. m + 1 = (1 .. m) \cup {m + 1}
    BY <1>3
  <2>3. tp[m + 1].fd = fdcounter /\ \A i \in 1 .. m : tp[i] = t[i]
    BY <1>3
  <2> HIDE DEF tp, t, m
  <2> QED BY <2>1, <2>2, <2>3
<1>6. \A q \in Procesos \ {p} : Abiertos(q)' = Abiertos(q)
  BY <1>3 DEF Abiertos
<1>7. Descriptores' = Descriptores \cup {fdcounter}
  <2>1. Descriptores' = UNION {Abiertos(q)' : q \in Procesos}
    BY DEF Descriptores
  <2> QED BY <1>5, <1>6, <2>1 DEF Descriptores
<1>8. fdcounter \notin Descriptores
  <2> SUFFICES ASSUME NEW q \in Procesos PROVE fdcounter \notin Abiertos(q)
    BY DEF Descriptores
  <2> QED BY <1>0, <1>1, EntradaTipo DEF FDViejo, Abiertos
<1>9. /\ IsFiniteSet(Descriptores \cup {fdcounter})
      /\ Cardinality(Descriptores \cup {fdcounter}) = Cardinality(Descriptores) + 1
  BY <1>0, <1>8, FS_AddElement
<1> QED BY <1>0, <1>2, <1>3, <1>7, <1>9 DEF InvParejas, TablasParejas

(* The close takes one element, and one descriptor. *)
LEMMA ParejasClose ==
  ASSUME InvTablas, InvParejas, NEW p \in Procesos, NEW fd \in Abiertos(p),
         HayEntradaGlobal(Entrada(p, fd)), cerrarArchivo(p, fd)
  PROVE  InvParejas'
<1> DEFINE e == Entrada(p, fd)
           g == tablaGlobalDeArchivos
           i == e.globalFD + 1
<1>0. TypeOK /\ FDUnico /\ UnaSolaVez /\ IsFiniteSet(Descriptores) /\ TablasParejas
  BY DEF InvTablas, InvParejas
<1>1. g \in Seq(ElementosGlobales) /\ e \in Entradas /\ Len(g) \in Nat
  BY <1>0, PosicionDelDescriptor DEF TypeOK, ElementosGlobales
<1>2. i \in 1 .. Len(g)
  BY <1>1 DEF HayEntradaGlobal, Entradas
<1>3. g' = RemoveAt(g, i)
  <2>1. ~(g[i].open > 1)
    <3>1. g[i] \in ElementosGlobales /\ g[i].open <= 1
      BY <1>0, <1>1, <1>2 DEF UnaSolaVez
    <3> QED BY <3>1 DEF ElementosGlobales
  <2>2. g' = SacarDeGlobal(e)
    BY DEF cerrarArchivo
  <2> QED BY <2>1, <2>2 DEF SacarDeGlobal, obtenerEntradaTablaGlobalDeArchivos
<1>4. g' \in Seq(ElementosGlobales) /\ Len(g') = Len(g) - 1
  BY <1>1, <1>2, <1>3, RemoveAtTipo
<1>5. \A k \in 1 .. Len(g) - 1 : g'[k] = IF k < i THEN g[k] ELSE g[k + 1]
  BY <1>1, <1>2, <1>3, RemoveAtElementos
<1>6. UnaSolaVez'
  <2> SUFFICES ASSUME NEW k \in 1 .. Len(g) - 1 PROVE g'[k].open <= 1
    BY <1>4 DEF UnaSolaVez
  <2>1. k \in DOMAIN g /\ k + 1 \in DOMAIN g
    BY <1>1
  <2> QED BY <1>0, <1>5, <2>1 DEF UnaSolaVez
<1>7. Descriptores' = Descriptores \ {fd} /\ fd \in Descriptores
  <2>1. tablasArchivosPorProceso' =
          [tablasArchivosPorProceso EXCEPT ![p] = borrarArchivoDeTabla(p, fd)]
    BY DEF cerrarArchivo
  <2> DEFINE c == obtenerArchivoDeLaTablaDeUnProcesoPorFD(p, fd)
             t(q) == tablasArchivosPorProceso[q]
             tp(q) == tablasArchivosPorProceso'[q]
  <2>2. c \in 1 .. Len(t(p)) /\ t(p) \in Seq(Entradas) /\ t(p)[c].fd = fd
        /\ DOMAIN t(p) = 1 .. Len(t(p)) /\ Len(t(p)) \in Nat
    BY <1>0, PosicionDelDescriptor, EntradaTipo DEF TypeOK, Entrada
  <2>3. tp(p) = RemoveAt(t(p), c) /\ \A q \in Procesos \ {p} : tp(q) = t(q)
    BY <1>0, <2>1 DEF TypeOK, borrarArchivoDeTabla
  <2>4. tp(p) \in Seq(Entradas) /\ DOMAIN tp(p) = 1 .. Len(t(p)) - 1
    BY <2>2, <2>3, RemoveAtTipo
  <2>5. \A k \in 1 .. Len(t(p)) - 1 : tp(p)[k] = IF k < c THEN t(p)[k] ELSE t(p)[k + 1]
    BY <2>2, <2>3, RemoveAtElementos
  <2>6. \A q \in Procesos : \A k \in DOMAIN t(q) : t(q)[k].fd = fd => q = p /\ k = c
    BY <1>0, <2>2 DEF FDUnico
  <2>7. Abiertos(p)' = {tp(p)[k].fd : k \in 1 .. Len(t(p)) - 1}
        /\ Abiertos(p) = {t(p)[k].fd : k \in 1 .. Len(t(p))}
        /\ \A q \in Procesos \ {p} : Abiertos(q)' = Abiertos(q)
    BY <2>2, <2>3, <2>4 DEF Abiertos
  <2>8. \A q \in Procesos \ {p} : fd \notin Abiertos(q)
    BY <2>6 DEF Abiertos
  <2> HIDE DEF c, t, tp
  <2>9. Abiertos(p)' = Abiertos(p) \ {fd}
    <3>1. ASSUME NEW k \in 1 .. Len(t(p)) - 1 PROVE tp(p)[k].fd \in Abiertos(p) \ {fd}
      <4>1. PICK l \in 1 .. Len(t(p)) : l # c /\ tp(p)[k] = t(p)[l]
        BY <2>2, <2>5
      <4> QED BY <2>2, <2>6, <2>7, <4>1
    <3>2. ASSUME NEW l \in 1 .. Len(t(p)), l # c
          PROVE  \E k \in 1 .. Len(t(p)) - 1 : tp(p)[k] = t(p)[l]
      <4>1. CASE l < c
        <5>1. l \in 1 .. Len(t(p)) - 1
          BY <2>2, <4>1
        <5> QED BY <2>5, <4>1, <5>1
      <4>2. CASE l > c
        <5>1. l - 1 \in 1 .. Len(t(p)) - 1 /\ ~(l - 1 < c) /\ (l - 1) + 1 = l
          BY <2>2, <4>2
        <5> QED BY <2>5, <5>1
      <4> QED BY <2>2, <3>2, <4>1, <4>2
    <3>3. Abiertos(p)' \subseteq Abiertos(p) \ {fd}
      BY <2>7, <3>1
    <3>4. ASSUME NEW x \in Abiertos(p) \ {fd} PROVE x \in Abiertos(p)'
      <4>1. PICK l \in 1 .. Len(t(p)) : x = t(p)[l].fd
        BY <2>7
      <4>2. l # c
        BY <2>2, <4>1
      <4> QED BY <2>7, <3>2, <4>1, <4>2
    <3> QED BY <3>3, <3>4
  <2>10. Descriptores' = UNION {Abiertos(q)' : q \in Procesos}
    BY DEF Descriptores
  <2>11. Descriptores' = Descriptores \ {fd}
    BY <2>7, <2>8, <2>9, <2>10 DEF Descriptores
  <2> QED BY <2>11 DEF Descriptores
<1>8. /\ IsFiniteSet(Descriptores \ {fd})
      /\ Cardinality(Descriptores \ {fd}) = Cardinality(Descriptores) - 1
  BY <1>0, <1>7, FS_RemoveElement
<1> QED BY <1>0, <1>4, <1>6, <1>7, <1>8 DEF InvParejas, TablasParejas

LEMMA ParejasIguales ==
  ASSUME InvParejas, UNCHANGED tablaGlobalDeArchivos,
         \A q \in Procesos : Abiertos(q)' = Abiertos(q)
  PROVE  InvParejas'
<1>1. Descriptores' = UNION {Abiertos(q)' : q \in Procesos}
  BY DEF Descriptores
<1>2. Descriptores' = Descriptores
  BY <1>1 DEF Descriptores
<1> QED BY <1>2 DEF InvParejas, UnaSolaVez, TablasParejas

LEMMA ParejasPaso == Inv /\ InvParejas /\ [Next]_vars => InvParejas'
<1> SUFFICES ASSUME Inv, InvParejas, [Next]_vars PROVE InvParejas'
  OBVIOUS
<1>0. InvTablas /\ TypeOK
  BY DEF Inv, InvTablas
<1>1. ASSUME UNCHANGED tablas PROVE InvParejas'
  BY <1>1, ParejasIguales DEF tablas, Abiertos
<1>2. ASSUME NEW p \in Procesos, NEW nombre \in Nombres, NEW flags \in Permisos,
             abrirArchivo(p, nombre, flags)
      PROVE  InvParejas'
  <2>1. agregarNuevoArchivoATablas(p, nombre, flags) \/ UNCHANGED tablas
    BY <1>2 DEF abrirArchivo
  <2> QED BY <1>0, <1>1, <2>1, ParejasOpen
<1>3. ASSUME NEW p \in Procesos, NEW fd \in Abiertos(p),
             escribirArchivo(p, fd) \/ leerArchivo(p, fd) \/ borrarArchivo(p, fd)
      PROVE  InvParejas'
  <2>1. UNCHANGED tablas
    <3>1. CASE escribirArchivo(p, fd)
      BY <3>1 DEF escribirArchivo, Cae
    <3>2. CASE leerArchivo(p, fd)
      BY <3>2 DEF leerArchivo, Cae
    <3>3. CASE borrarArchivo(p, fd)
      BY <3>3 DEF borrarArchivo
    <3> QED BY <1>3, <3>1, <3>2, <3>3
  <2> QED BY <1>1, <2>1
<1>4. ASSUME NEW p \in Procesos, NEW fd \in Abiertos(p), cerrarArchivo(p, fd)
      PROVE  InvParejas'
  <2>1. CASE HayEntradaGlobal(Entrada(p, fd))
    BY <1>0, <1>4, <2>1, ParejasClose
  <2>2. CASE ~HayEntradaGlobal(Entrada(p, fd))
    BY <1>1, <1>4, <2>2 DEF cerrarArchivo, Cae
  <2> QED BY <2>1, <2>2
<1>5. ASSUME NEW p \in Procesos, NEW fd \in Abiertos(p), NEW posicion \in Cursores,
             moverCursor(p, fd, posicion)
      PROVE  InvParejas'
  <2>1. \A q \in Procesos :
          /\ DOMAIN tablasArchivosPorProceso'[q] = DOMAIN tablasArchivosPorProceso[q]
          /\ \A i \in DOMAIN tablasArchivosPorProceso[q] :
               tablasArchivosPorProceso'[q][i].fd = tablasArchivosPorProceso[q][i].fd
    BY <1>0, <1>5, TablasTrasMover
  <2>2. \A q \in Procesos : Abiertos(q)' = Abiertos(q)
    BY <2>1 DEF Abiertos
  <2> QED BY <1>5, <2>2, ParejasIguales DEF moverCursor
<1>6. ASSUME NEW p \in Procesos, respuestaAjena(p) PROVE InvParejas'
  BY <1>1, <1>6 DEF respuestaAjena
<1>7. CASE UNCHANGED vars
  BY <1>1, <1>7 DEF vars
<1> QED BY <1>2, <1>3, <1>4, <1>5, <1>6, <1>7 DEF Next

-----------------------------------------------------------------------------
(* Theorems.                                                               *)

(* Every reachable state of the tables of files is well typed.             *)
THEOREM TipoCorrecto == Spec => []TypeOK
<1>1. Inv => TypeOK
  BY DEF Inv, InvTablas
<1> QED BY InvCorrecto, <1>1, PTL

(* Two descriptors are never one, whatever opens and closes come between:   *)
(* fdcounter only grows, and a closed descriptor leaves its table.         *)
THEOREM DescriptoresUnicos == Spec => []FDUnico
<1>1. Inv => FDUnico
  BY DEF Inv, InvTablas
<1> QED BY InvCorrecto, <1>1, PTL

(* While every close takes the last element of the global list, each       *)
(* descriptor leads to the element of its own open.                        *)
THEOREM IndicesCorrectos == Spec => []IndicePropio
<1>1. Inv => IndicePropio
  BY DEF Inv, InvTablas
<1> QED BY InvCorrecto, <1>1, PTL

(* And then what is sent to File_System names the file the process opened  *)
(* under that descriptor, with that permission, and no request follows a   *)
(* NULL: the shift of the positions by list_remove (Kernel.c:1076), and    *)
(* the variable that is not initialised (975), are the only ways out.      *)
THEOREM PedidosCorrectos == Spec => []PathDondeDebeAlineadas
<1>1. Inv => PathDondeDebeAlineadas
  BY DEF Inv
<1> QED BY InvCorrecto, <1>1, PTL

(* The global list has exactly one element for each descriptor that is      *)
(* open, whatever order files are opened and closed in, and also after its  *)
(* positions have shifted (chequearTablaGlobal, cerrarArchivo).             *)
THEOREM TablasIguales == Spec => []TablasParejas
<1>1. Init => InvParejas
  BY ParejasInicial
<1>2. Inv /\ InvParejas /\ [Next]_vars => InvParejas'
  BY ParejasPaso
<1>3. InvParejas => TablasParejas
  BY DEF InvParejas
<1> QED BY InvCorrecto, <1>1, <1>2, <1>3, PTL DEF Spec
=============================================================================
