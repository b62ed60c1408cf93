---------------------------- MODULE MemoriaProofs ----------------------------
(***************************************************************************)
(* What the module Memoria keeps for every number of CPUs, processes,      *)
(* frames, entries and requests: its types, the page table (InvMarcos),    *)
(* the cache (InvCache, InvMano) and what is read (InvLecturas), over what *)
(* each thread has in its hands (InvHilos).                                *)
(***************************************************************************)
EXTENDS Memoria, ColasProofs, FiniteSetTheorems

(* The threads: what each has in its hands, and that no two serve one      *)
(* process at once, as the clients see to.                                 *)
Activo(h) == hilo[h].paso # "recibir"
ConPagina == {"mirarCache", "leerDeCache", "copiar", "leerMemoria", "cachear",
              "replicar", "actualizar"}
ConCache == {"mirarCache", "leerDeCache", "copiar", "cachear", "actualizar"}
DeBaja == {"liberarCache", "buscar", "sacar", "liberarTabla"}
HiloDe(h) ==
  /\ hilo[h].paso = "recibir" => hilo[h] = EnRecibir
  /\ Activo(h) => hilo[h].pid \in PIDs
  /\ hilo[h].paso \in ConPagina => hilo[h].pagina \in Paginas /\ vida[hilo[h].pid] = "viva"
  /\ hilo[h].paso \in ConCache => CACHE_X_PROC > 0
  /\ hilo[h].paso = "copiar" => hilo[h].entrada \in Ids
  /\ hilo[h].paso \in DeBaja => h = Kernel /\ vida[hilo[h].pid] = "terminada"
  /\ hilo[h].paso = "sacar" => hilo[h].posicion >= 1
  /\ hilo[h].paso = "enviar" => vida[hilo[h].pid] \in {"viva", "rechazada"}
  /\ hilo[h].codigo = "BYTES" =>
       hilo[h].paso = "enviar" /\ hilo[h].pagina \in Paginas /\ vida[hilo[h].pid] = "viva"
UnoPorProceso ==
  \A g, h \in Hilos : Activo(g) /\ Activo(h) /\ hilo[g].pid = hilo[h].pid => g = h
InvHilos == (\A h \in Hilos : HiloDe(h)) /\ UnoPorProceso

(* The page table: a living process has each of its pages in one frame, and *)
(* one that is not there has none.                                         *)
SinMarcos(p) == \A i \in Indices : tabla[i].pid # p
PaginasDe(p) ==
  /\ ultimaPagina[p] \in Paginas
  /\ \A g \in Paginas : IF g <= ultimaPagina[p]
                        THEN \E i \in Indices : MarcosDe(tabla, p, g) = {i}
                        ELSE MarcosDe(tabla, p, g) = {}
InvMarcos ==
  \A p \in PIDs :
    /\ vida[p] = "sin iniciar" => SinMarcos(p)
    /\ vida[p] = "viva" => PaginasDe(p)
    /\ vida[p] = "terminada" /\ ~Atendido(p) => SinMarcos(p)

(* The bytes of a page, in whichever frame of the block it is.             *)
Tiene(p, g, valor) ==
  /\ MarcosDe(tabla, p, g) # {}
  /\ \A i \in MarcosDe(tabla, p, g) : i < Marcos => memoria[i] = valor
Replica(p, g) ==
  \E h \in Hilos : /\ hilo[h].pid = p /\ hilo[h].pagina = g
                   /\ hilo[h].paso \in {"replicar", "actualizar"}

(* An entry is of a page that is in the table, and has its bytes unless a   *)
(* thread has still to replicate them; the process being released has none *)
(* left when its frames go.                                                *)
EntradaDe(e) ==
  /\ entradas[e].pid \in PIDs /\ entradas[e].pagina \in Paginas
  /\ MarcosDe(tabla, entradas[e].pid, entradas[e].pagina) # {}
  /\ \/ Replica(entradas[e].pid, entradas[e].pagina)
     \/ Tiene(entradas[e].pid, entradas[e].pagina, entradas[e].contenido)
InvCache ==
  /\ CacheAcotada
  /\ \A e \in EnCache : EntradaDe(e)
  /\ hilo[Kernel].paso = "liberarTabla" =>
       \A e \in EnCache : entradas[e].pid # hilo[Kernel].pid

(* What a thread read and has still to write in the cache is in the frame.  *)
ManoDe(h) ==
  /\ hilo[h].paso \in {"cachear", "actualizar"} => Tiene(hilo[h].pid, hilo[h].pagina, hilo[h].valor)
  /\ hilo[h].paso = "replicar" => MarcosDe(tabla, hilo[h].pid, hilo[h].pagina) # {}
InvMano == \A h \in Hilos : ManoDe(h)

(* What was last stored in a page of a living process is in its frame, and, *)
(* with room for everybody, in the entry a reader points to and in what it  *)
(* answers.                                                                *)
EscritoDe(p) ==
  \A g \in Paginas : escrito[<<p, g>>] # -1 =>
    /\ vida[p] # "sin iniciar"
    /\ vida[p] = "viva" => Tiene(p, g, escrito[<<p, g>>])
LecturaDe(h) ==
  /\ hilo[h].paso = "copiar" =>
       /\ Es(hilo[h].entrada, hilo[h].pid, hilo[h].pagina)
       /\ Tiene(hilo[h].pid, hilo[h].pagina, entradas[hilo[h].entrada].contenido)
  /\ hilo[h].codigo = "BYTES" => Tiene(hilo[h].pid, hilo[h].pagina, hilo[h].valor)
InvLecturas ==
  /\ \A p \in PIDs : EscritoDe(p)
  /\ HayLugarParaTodos => \A h \in Hilos : LecturaDe(h)

Inv == TypeOK /\ InvHilos /\ InvMarcos /\ InvCache /\ InvMano /\ InvLecturas

-----------------------------------------------------------------------------
(* The page table.                                                         *)

LEMMA NumerosDeMemoria ==
  /\ Indices \subseteq Nat /\ IsFiniteSet(Indices) /\ Fallo \notin Indices
  /\ Libre \notin PIDs /\ DeLaTabla \notin PIDs /\ 0 \notin PIDs /\ 0 \notin Paginas
  /\ Paginas \subseteq Nat /\ Fallo \notin Paginas /\ PIDs \subseteq Nat
<1>1. IsFiniteSet(Indices)
  BY MarcosAssumption, FS_Interval DEF Indices
<1> QED BY <1>1, MarcosAssumption, PIDsAssumption, CotasAssumption
        DEF Indices, Fallo, Libre, DeLaTabla, Paginas

(* What the search finds is one of the candidates, wherever it starts.     *)
LEMMA PrimeroEntre ==
  ASSUME NEW pos, NEW S \in SUBSET Indices
  PROVE  /\ S # {} => PrimeroDesde(pos, S) \in S
         /\ S = {} => PrimeroDesde(pos, S) = Fallo
         /\ PrimeroDesde(pos, S) # Fallo => PrimeroDesde(pos, S) \in S
<1> DEFINE arriba == {i \in S : i >= pos}
<1>1. CASE S = {}
  BY <1>1 DEF PrimeroDesde
<1>2. CASE S # {} /\ arriba # {}
  <2>1. arriba \in SUBSET Nat /\ arriba \in SUBSET S
    BY NumerosDeMemoria
  <2> HIDE DEF arriba
  <2>2. Min(arriba) \in arriba
    BY <1>2, <2>1, MinExiste
  <2>3. PrimeroDesde(pos, S) = Min(arriba)
    BY <1>2 DEF PrimeroDesde, arriba
  <2> QED BY <1>2, <2>1, <2>2, <2>3
<1>3. CASE S # {} /\ arriba = {}
  <2>1. Max(S) \in S
    BY <1>3, MarcosAssumption, MaxExiste DEF Indices
  <2>2. PrimeroDesde(pos, S) = Max(S)
    BY <1>3 DEF PrimeroDesde
  <2> QED BY <1>3, <2>1, <2>2
<1> QED BY <1>1, <1>2, <1>3

EntradasDeTabla == [pid : PIDs \cup {Libre, DeLaTabla}, pagina : Paginas \cup {-1}]

(* A reservation page by page, as a function of how many it has made.      *)
Reserva(v, pid, g) ==
  LET marco == getFrameDisponibleHash(v, pid, g)
  IN IF marco = Fallo THEN v ELSE [v EXCEPT ![marco] = [pid |-> pid, pagina |-> g]]
EsReserva(f, t, pid, primera, n) ==
  f = [k \in 0 .. n |-> IF k = 0 THEN t ELSE Reserva(f[k - 1], pid, primera + k - 1)]

LEMMA HayReserva ==
  ASSUME NEW t, NEW pid, NEW primera, NEW n \in Nat
  PROVE  \E f : /\ EsReserva(f, t, pid, primera, n)
                /\ reservar(t, pid, primera, n) = f[n]
<1> DEFINE Mal == {m \in 0 .. n : ~ \E f : EsReserva(f, t, pid, primera, m)}
<1>1. Mal = {}
  <2> SUFFICES ASSUME Mal # {}
               PROVE  FALSE
    OBVIOUS
  <2>1. Mal \in SUBSET Nat
    OBVIOUS
  <2> DEFINE m == Min(Mal)
  <2>2. m \in Mal /\ \A y \in Mal : m <= y
    BY <2>1, MinExiste
  <2> HIDE DEF m
  <2>3. m \in 0 .. n /\ ~ \E f : EsReserva(f, t, pid, primera, m)
    BY <2>2
  <2>4. CASE m = 0
    <3> DEFINE f == [k \in 0 .. 0 |-> t]
    <3>1. EsReserva(f, t, pid, primera, m)
      BY <2>4 DEF EsReserva
    <3> QED BY <2>3, <3>1
  <2>5. CASE m # 0
    <3>1. m - 1 \in 0 .. n /\ m - 1 \notin Mal
      BY <2>2, <2>3, <2>5
    <3>2. PICK f : EsReserva(f, t, pid, primera, m - 1)
      BY <3>1
    <3> DEFINE g == [k \in 0 .. m |-> IF k = m THEN Reserva(f[m - 1], pid, primera + m - 1)
                                                ELSE f[k]]
    <3>3. \A k \in 0 .. m - 1 : g[k] = f[k]
      BY <2>3
    <3>4. \A k \in 0 .. m - 1 :
            f[k] = IF k = 0 THEN t ELSE Reserva(f[k - 1], pid, primera + k - 1)
      BY <3>2 DEF EsReserva
    <3>5. \A k \in 0 .. m :
            g[k] = IF k = 0 THEN t ELSE Reserva(g[k - 1], pid, primera + k - 1)
      <4> SUFFICES ASSUME NEW k \in 0 .. m
                   PROVE  g[k] = IF k = 0 THEN t ELSE Reserva(g[k - 1], pid, primera + k - 1)
        OBVIOUS
      <4>1. CASE k = m
        <5>1. g[k] = Reserva(f[m - 1], pid, primera + m - 1) /\ g[m - 1] = f[m - 1]
          BY <2>3, <2>5, <3>3, <4>1
        <5> QED BY <2>5, <4>1, <5>1
      <4>2. CASE k # m /\ k = 0
        BY <2>3, <3>3, <3>4, <4>2
      <4>3. CASE k # m /\ k # 0
        <5>1. k \in 0 .. m - 1 /\ k - 1 \in 0 .. m - 1
          BY <2>3, <4>3
        <5>2. g[k] = f[k] /\ g[k - 1] = f[k - 1]
          BY <3>3, <5>1
        <5>3. f[k] = Reserva(f[k - 1], pid, primera + k - 1)
          BY <3>4, <4>3, <5>1
        <5> QED BY <4>3, <5>2, <5>3
      <4> QED BY <4>1, <4>2, <4>3
    <3>6. g = [k \in 0 .. m |-> g[k]]
      OBVIOUS
    <3> HIDE DEF g
    <3>7. EsReserva(g, t, pid, primera, m)
      BY <3>5, <3>6 DEF EsReserva
    <3> QED BY <2>3, <3>7
  <2> QED BY <2>4, <2>5
<1>2. \E f : EsReserva(f, t, pid, primera, n)
  BY <1>1
<1> DEFINE f == CHOOSE f : f = [k \in 0 .. n |->
                 IF k = 0 THEN t ELSE Reserva(f[k - 1], pid, primera + k - 1)]
<1>3. EsReserva(f, t, pid, primera, n)
  BY <1>2 DEF EsReserva
<1>4. reservar(t, pid, primera, n) = f[n]
  BY DEF reservar, Reserva
<1> QED BY <1>3, <1>4

(* One reservation: the first free frame found goes to the page, if any.   *)
LEMMA ReservaUna ==
  ASSUME NEW v \in [Indices -> EntradasDeTabla], NEW pid \in PIDs, NEW g \in Paginas
  PROVE  /\ Libres(v) \in SUBSET Indices
         /\ Libres(v) = {} => Reserva(v, pid, g) = v
         /\ Libres(v) # {} =>
              \E i \in Libres(v) : Reserva(v, pid, g) = [v EXCEPT ![i] = [pid |-> pid, pagina |-> g]]
<1>1. Libres(v) \in SUBSET Indices
  BY DEF Libres
<1> DEFINE i == getFrameDisponibleHash(v, pid, g)
<1>2. Libres(v) # {} => i \in Libres(v)
  BY <1>1, PrimeroEntre DEF getFrameDisponibleHash
<1>3. Libres(v) = {} => i = Fallo
  BY <1>1, PrimeroEntre DEF getFrameDisponibleHash
<1>4. Reserva(v, pid, g) = IF i = Fallo THEN v ELSE [v EXCEPT ![i] = [pid |-> pid, pagina |-> g]]
  BY DEF Reserva
<1> HIDE DEF i
<1> QED BY <1>1, <1>2, <1>3, <1>4, NumerosDeMemoria

(* Where the pages of pid are after the first k of a reservation.          *)
Reservadas(t, v, pid, primera, k) ==
  /\ v \in [Indices -> EntradasDeTabla]
  /\ \A i \in Indices : \/ v[i] = t[i]
                        \/ /\ t[i].pid = Libre /\ v[i].pid = pid
                           /\ v[i].pagina \in primera .. primera + k - 1
  /\ Cardinality(Libres(t)) >= k =>
       /\ Cardinality(Libres(v)) = Cardinality(Libres(t)) - k
       /\ \A g \in primera .. primera + k - 1 : \E i \in Indices : MarcosDe(v, pid, g) = {i}

LEMMA ReservadasUnaMas ==
  ASSUME NEW t \in [Indices -> EntradasDeTabla], NEW v, NEW pid \in PIDs,
         NEW primera \in Paginas, NEW k \in Nat, primera + k \in Paginas,
         MarcosDe(t, pid, primera + k) = {},
         Reservadas(t, v, pid, primera, k)
  PROVE  Reservadas(t, Reserva(v, pid, primera + k), pid, primera, k + 1)
<1> DEFINE g == primera + k
           e == [pid |-> pid, pagina |-> g]
           w == Reserva(v, pid, g)
<1>0. /\ primera \in Nat /\ g \in Nat /\ pid # Libre
      /\ primera .. primera + (k + 1) - 1 = (primera .. primera + k - 1) \cup {g}
  BY NumerosDeMemoria DEF Paginas
<1>1. /\ v \in [Indices -> EntradasDeTabla] /\ IsFiniteSet(Libres(t)) /\ IsFiniteSet(Libres(v))
      /\ Cardinality(Libres(t)) \in Nat /\ Cardinality(Libres(v)) \in Nat
  <2>1. Libres(t) \in SUBSET Indices /\ Libres(v) \in SUBSET Indices
    BY DEF Libres
  <2>2. IsFiniteSet(Libres(t)) /\ IsFiniteSet(Libres(v))
    BY <2>1, NumerosDeMemoria, FS_Subset
  <2> QED BY <2>2, FS_CardinalityType DEF Reservadas
<1>2. e \in EntradasDeTabla /\ e.pid = pid /\ e.pagina = g
  BY DEF EntradasDeTabla
<1>3. MarcosDe(v, pid, g) = {}
  BY <1>0, <1>1, <1>2 DEF Reservadas, MarcosDe
<1>4. CASE Libres(v) = {}
  <2>1. w = v
    BY <1>1, <1>4, ReservaUna
  <2>2. Cardinality(Libres(v)) = 0
    BY <1>4, FS_EmptySet
  <2>3. ~ (Cardinality(Libres(t)) >= k + 1)
    BY <1>1, <2>2 DEF Reservadas
  <2> QED BY <1>0, <2>1, <2>3 DEF Reservadas
<1>5. CASE Libres(v) # {}
  <2>1. PICK i \in Libres(v) : w = [v EXCEPT ![i] = e]
    BY <1>1, <1>5, ReservaUna
  <2>2. i \in Indices /\ v[i].pid = Libre
    BY <2>1 DEF Libres
  <2> HIDE DEF w, g, e
  <2>3. w \in [Indices -> EntradasDeTabla] /\ w[i] = e /\ \A j \in Indices : j # i => w[j] = v[j]
    BY <1>1, <1>2, <2>1, <2>2
  <2>4. t[i].pid = Libre
    BY <1>0, <2>2 DEF Reservadas
  <2>5. \A j \in Indices : \/ w[j] = t[j]
                           \/ /\ t[j].pid = Libre /\ w[j].pid = pid
                              /\ w[j].pagina \in primera .. primera + (k + 1) - 1
    BY <1>0, <1>2, <2>3, <2>4 DEF Reservadas
  <2>6. Libres(w) = Libres(v) \ {i}
    BY <1>0, <1>2, <2>2, <2>3 DEF Libres
  <2>7. Cardinality(Libres(w)) = Cardinality(Libres(v)) - 1
    BY <1>1, <2>1, <2>6, FS_RemoveElement
  <2>8. MarcosDe(w, pid, g) = {i}
    BY <1>2, <1>3, <2>2, <2>3 DEF MarcosDe, e
  <2>9. \A q \in primera .. primera + k - 1 : MarcosDe(w, pid, q) = MarcosDe(v, pid, q)
    <3> SUFFICES ASSUME NEW q \in primera .. primera + k - 1
                 PROVE  MarcosDe(w, pid, q) = MarcosDe(v, pid, q)
      OBVIOUS
    <3>1. q # g
      BY <1>0 DEF g
    <3>2. w[i] # [pid |-> pid, pagina |-> q] /\ v[i] # [pid |-> pid, pagina |-> q]
      BY <1>0, <1>2, <2>2, <2>3, <3>1
    <3> QED BY <2>2, <2>3, <3>2 DEF MarcosDe
  <2>10. Cardinality(Libres(t)) >= k + 1 =>
           /\ Cardinality(Libres(w)) = Cardinality(Libres(t)) - (k + 1)
           /\ \A q \in primera .. primera + (k + 1) - 1 :
                \E j \in Indices : MarcosDe(w, pid, q) = {j}
    <3> SUFFICES ASSUME Cardinality(Libres(t)) >= k + 1
                 PROVE  /\ Cardinality(Libres(w)) = Cardinality(Libres(t)) - (k + 1)
                        /\ \A q \in primera .. primera + (k + 1) - 1 :
                             \E j \in Indices : MarcosDe(w, pid, q) = {j}
      OBVIOUS
    <3>1. /\ Cardinality(Libres(v)) = Cardinality(Libres(t)) - k
          /\ \A q \in primera .. primera + k - 1 : \E j \in Indices : MarcosDe(v, pid, q) = {j}
      BY <1>1 DEF Reservadas
    <3>2. Cardinality(Libres(w)) = Cardinality(Libres(t)) - (k + 1)
      BY <1>1, <2>7, <3>1
    <3> QED BY <1>0, <2>2, <2>8, <2>9, <3>1, <3>2
  <2> QED BY <2>3, <2>5, <2>10 DEF Reservadas, w, g
<1> QED BY <1>4, <1>5

(* A whole reservation: what was not free stays, and if there was room each *)
(* page has one frame.                                                     *)
LEMMA ReservarTodas ==
  ASSUME NEW t \in [Indices -> EntradasDeTabla], NEW pid \in PIDs, NEW primera \in Paginas,
         NEW n \in Paginas, primera + n - 1 \in Paginas,
         \A g \in primera .. primera + n - 1 : MarcosDe(t, pid, g) = {}
  PROVE  Reservadas(t, reservar(t, pid, primera, n), pid, primera, n)
<1>0. n \in Nat /\ primera \in Nat /\ n >= 1
      /\ \A k \in 0 .. n - 1 : primera + k \in Paginas /\ primera + k \in primera .. primera + n - 1
  BY NumerosDeMemoria, CotasAssumption DEF Paginas
<1>1. PICK f : /\ EsReserva(f, t, pid, primera, n)
               /\ reservar(t, pid, primera, n) = f[n]
  BY <1>0, HayReserva
<1>2. \A k \in 0 .. n : f[k] = IF k = 0 THEN t ELSE Reserva(f[k - 1], pid, primera + k - 1)
  BY <1>1 DEF EsReserva
<1> DEFINE Mal == {k \in 0 .. n : ~ Reservadas(t, f[k], pid, primera, k)}
<1>3. Mal = {}
  <2> SUFFICES ASSUME Mal # {}
               PROVE  FALSE
    OBVIOUS
  <2>1. Mal \in SUBSET Nat
    OBVIOUS
  <2> DEFINE m == Min(Mal)
  <2>2. m \in Mal /\ \A y \in Mal : m <= y
    BY <2>1, MinExiste
  <2> HIDE DEF m
  <2>3. m \in 0 .. n /\ ~ Reservadas(t, f[m], pid, primera, m)
    BY <2>2
  <2>4. CASE m = 0
    <3>1. f[m] = t /\ primera .. primera + m - 1 = {}
      BY <1>0, <1>2, <2>3, <2>4
    <3>2. Cardinality(Libres(t)) \in Nat
      <4>1. Libres(t) \in SUBSET Indices
        BY DEF Libres
      <4> QED BY <4>1, NumerosDeMemoria, FS_Subset, FS_CardinalityType
    <3> QED BY <2>3, <2>4, <3>1, <3>2 DEF Reservadas
  <2>5. CASE m # 0
    <3>1. m - 1 \in 0 .. n /\ m - 1 \notin Mal
      BY <1>0, <2>2, <2>3, <2>5
    <3> DEFINE k == m - 1
    <3>2. k \in Nat /\ k \in 0 .. n - 1 /\ k + 1 = m /\ primera + m - 1 = primera + k
      BY <1>0, <2>3, <2>5
    <3>3. Reservadas(t, f[k], pid, primera, k)
      BY <3>1
    <3>4. f[m] = Reserva(f[k], pid, primera + k)
      BY <1>2, <2>3, <2>5, <3>2
    <3> HIDE DEF k
    <3>5. primera + k \in Paginas /\ MarcosDe(t, pid, primera + k) = {}
      BY <1>0, <3>2
    <3>6. Reservadas(t, Reserva(f[k], pid, primera + k), pid, primera, k + 1)
      BY <3>2, <3>3, <3>5, ReservadasUnaMas
    <3> QED BY <2>3, <3>2, <3>4, <3>6
  <2> QED BY <2>4, <2>5
<1>4. Reservadas(t, f[n], pid, primera, n)
  BY <1>0, <1>3
<1> QED BY <1>1, <1>4

-----------------------------------------------------------------------------
(* The cache, as a set of entries.                                         *)

(* There are identities for what is in the list and what readers point to. *)
LEMMA IdsAlcanzan ==
  /\ IsFiniteSet(Hilos) /\ Cardinality(Hilos) \in Nat
  /\ Ids \in SUBSET Nat /\ IsFiniteSet(Ids) /\ SinEntrada \notin Ids /\ Cardinality(Ids) \in Nat
  /\ \A c \in Configuraciones :
       c.entradas \in Nat /\ c.entradas >= 1 /\ Cardinality(Ids) >= c.entradas + Cardinality(Hilos)
<1> DEFINE E == {c.entradas : c \in Configuraciones}
           M == Max(E)
           f == [c \in Configuraciones |-> c.entradas]
<1>1. IsFiniteSet(Hilos) /\ Cardinality(Hilos) \in Nat
  <2>1. IsFiniteSet(Hilos)
    BY HilosAssumption, FS_AddElement DEF Hilos
  <2> QED BY <2>1, FS_CardinalityType
<1>2. E \in SUBSET Nat /\ E # {} /\ \A c \in Configuraciones : c.entradas \in Nat /\ c.entradas >= 1
  BY ConfiguracionesAssumption
<1>3. IsFiniteSet(E)
  <2>1. f \in Surjection(Configuraciones, E)
    BY DEF Surjection
  <2> QED BY <2>1, ConfiguracionesAssumption, FS_Surjection
<1>4. PICK b \in Nat : \A x \in E : x <= b
  <2> HIDE DEF E
  <2> QED BY <1>2, <1>3, FinitoAcotado
<1>5. M \in E /\ \A x \in E : x <= M
  <2>1. E \in SUBSET (0 .. b)
    BY <1>2, <1>4
  <2> HIDE DEF E
  <2> QED BY <1>2, <2>1, MaxExiste
<1>6. M \in Nat /\ \A c \in Configuraciones : c.entradas <= M
  BY <1>2, <1>5
<1>7. Ids = 1 .. (M + Cardinality(Hilos))
  BY DEF Ids
<1> HIDE DEF M, E
<1>8. M + Cardinality(Hilos) \in Nat
  BY <1>1, <1>6
<1>9. IsFiniteSet(Ids) /\ Cardinality(Ids) = M + Cardinality(Hilos)
  <2>1. IsFiniteSet(Ids) /\ Cardinality(Ids) =
          IF 1 > M + Cardinality(Hilos) THEN 0 ELSE (M + Cardinality(Hilos)) - 1 + 1
    BY <1>7, <1>8, FS_Interval
  <2> QED BY <1>8, <2>1
<1> QED BY <1>1, <1>2, <1>6, <1>7, <1>8, <1>9 DEF SinEntrada

EntradasDeCache == [pid : PIDs \cup {0}, pagina : Paginas \cup {0},
                    lecturas : Nat, contenido : Valores]
PropiasEn(q, ent, p) == {e \in ToSet(q) : ent[e].pid = p}
AcotadaEn(q, ent, cota) ==
  /\ SinRepetidos(q) /\ Cardinality(ToSet(q)) <= cota
  /\ \A p \in PIDs : Cardinality(PropiasEn(q, ent, p)) <= CACHE_X_PROC
  /\ \A d, e \in ToSet(q) : ent[d].pid = ent[e].pid /\ ent[d].pagina = ent[e].pagina => d = e

LEMMA SonFinitos ==
  ASSUME NEW q \in Seq(Ids), NEW ent, NEW p
  PROVE  /\ ToSet(q) \subseteq Ids /\ IsFiniteSet(ToSet(q)) /\ Cardinality(ToSet(q)) \in Nat
         /\ PropiasEn(q, ent, p) \subseteq ToSet(q) /\ IsFiniteSet(PropiasEn(q, ent, p))
         /\ Cardinality(PropiasEn(q, ent, p)) \in Nat
         /\ Range(q) = ToSet(q)
<1>1. ToSet(q) \subseteq Ids /\ PropiasEn(q, ent, p) \subseteq ToSet(q)
  BY ElementosTipo DEF PropiasEn
<1>2. IsFiniteSet(ToSet(q)) /\ IsFiniteSet(PropiasEn(q, ent, p))
  BY <1>1, IdsAlcanzan, FS_Subset
<1> QED BY <1>1, <1>2, FS_CardinalityType DEF Range, ToSet

(* Positions and entries are counted alike, if no entry is twice.          *)
LEMMA PosicionesSonEntradas ==
  ASSUME NEW q \in Seq(Ids), NEW ent, SinRepetidos(q)
  PROVE  /\ Cardinality(ToSet(q)) = Len(q)
         /\ \A p : /\ IsFiniteSet({i \in DOMAIN q : ent[q[i]].pid = p})
                   /\ Cardinality({i \in DOMAIN q : ent[q[i]].pid = p})
                        = Cardinality(PropiasEn(q, ent, p))
<1>1. /\ DOMAIN q = 1 .. Len(q) /\ Len(q) \in Nat
      /\ \A i, j \in DOMAIN q : q[i] = q[j] => i = j
  BY DEF SinRepetidos
<1>2. Cardinality(ToSet(q)) = Len(q)
  <2> DEFINE f == [i \in 1 .. Len(q) |-> q[i]]
  <2>1. f \in [1 .. Len(q) -> ToSet(q)] /\ \A t \in ToSet(q) : \E i \in 1 .. Len(q) : f[i] = t
    BY <1>1 DEF ToSet
  <2>2. \A i, j \in 1 .. Len(q) : f[i] = f[j] => i = j
    BY <1>1
  <2>3. f \in Bijection(1 .. Len(q), ToSet(q))
    BY <2>1, <2>2 DEF Bijection, Injection, Surjection, IsInjective
  <2> HIDE DEF f
  <2> QED BY <1>1, <2>3, FS_CountingElements DEF ExistsBijection
<1>3. ASSUME NEW p
      PROVE  /\ IsFiniteSet({i \in DOMAIN q : ent[q[i]].pid = p})
             /\ Cardinality({i \in DOMAIN q : ent[q[i]].pid = p})
                  = Cardinality(PropiasEn(q, ent, p))
  <2> DEFINE S == {i \in DOMAIN q : ent[q[i]].pid = p}
             f == [i \in S |-> q[i]]
  <2>1. f \in [S -> PropiasEn(q, ent, p)] /\ \A t \in PropiasEn(q, ent, p) : \E i \in S : f[i] = t
    BY DEF ToSet, PropiasEn
  <2>2. \A i, j \in S : f[i] = f[j] => i = j
    BY <1>1
  <2>3. f \in Bijection(S, PropiasEn(q, ent, p))
    BY <2>1, <2>2 DEF Bijection, Injection, Surjection, IsInjective
  <2>4. IsFiniteSet(S)
    <3>1. IsFiniteSet(1 .. Len(q)) /\ S \in SUBSET (1 .. Len(q))
      BY <1>1, FS_Interval
    <3> QED BY <3>1, FS_Subset
  <2> HIDE DEF f, S
  <2>5. Cardinality(PropiasEn(q, ent, p)) = Cardinality(S)
    BY <2>3, <2>4, FS_Bijection DEF ExistsBijection
  <2> QED BY <2>4, <2>5 DEF S
<1> QED BY <1>2, <1>3

LEMMA AcotadaEquivale ==
  ASSUME NEW q \in Seq(Ids), NEW ent, NEW cota
  PROVE  (/\ Len(q) <= cota
          /\ \A p \in PIDs : Cardinality({i \in DOMAIN q : ent[q[i]].pid = p}) <= CACHE_X_PROC
          /\ \A i, j \in DOMAIN q :
               ent[q[i]].pid = ent[q[j]].pid /\ ent[q[i]].pagina = ent[q[j]].pagina => i = j)
         <=> AcotadaEn(q, ent, cota)
<1>1. /\ DOMAIN q = 1 .. Len(q)
      /\ \A e : e \in ToSet(q) <=> \E i \in DOMAIN q : q[i] = e
  BY DEF ToSet
<1>2. ASSUME SinRepetidos(q)
      PROVE  /\ Cardinality(ToSet(q)) = Len(q)
             /\ \A p : Cardinality({i \in DOMAIN q : ent[q[i]].pid = p})
                         = Cardinality(PropiasEn(q, ent, p))
  BY <1>2, PosicionesSonEntradas
<1>3. ASSUME \A i, j \in DOMAIN q :
               ent[q[i]].pid = ent[q[j]].pid /\ ent[q[i]].pagina = ent[q[j]].pagina => i = j
      PROVE  /\ SinRepetidos(q)
             /\ \A d, e \in ToSet(q) : ent[d].pid = ent[e].pid /\ ent[d].pagina = ent[e].pagina => d = e
  BY <1>1, <1>3 DEF SinRepetidos
<1>4. ASSUME SinRepetidos(q),
             \A d, e \in ToSet(q) : ent[d].pid = ent[e].pid /\ ent[d].pagina = ent[e].pagina => d = e
      PROVE  \A i, j \in DOMAIN q :
               ent[q[i]].pid = ent[q[j]].pid /\ ent[q[i]].pagina = ent[q[j]].pagina => i = j
  BY <1>1, <1>4 DEF SinRepetidos
<1> QED BY <1>2, <1>3, <1>4 DEF AcotadaEn

MismaEntrada(e) ==
  /\ entradas'[e].pid = entradas[e].pid /\ entradas'[e].pagina = entradas[e].pagina
  /\ entradas'[e].contenido = entradas[e].contenido
EsAhora(e, pid, pagina, contenido) ==
  entradas'[e].pid = pid /\ entradas'[e].pagina = pagina /\ entradas'[e].contenido = contenido

LEMMA EntradasNat ==
  TipoDatos => ENTRADAS_CACHE \in Nat /\ ENTRADAS_CACHE >= 1
               /\ Cardinality(Ids) >= ENTRADAS_CACHE + Cardinality(Hilos)
  BY IdsAlcanzan DEF TipoDatos, ENTRADAS_CACHE

(* While the list is not full there is an identity nobody uses.            *)
LEMMA HayEntradaNueva ==
  ASSUME TypeOK, Len(cache) < ENTRADAS_CACHE
  PROVE  /\ EntradaNueva \in Ids /\ EntradaNueva \notin EnCache
         /\ \A h \in Hilos : hilo[h].entrada # EntradaNueva
<1> DEFINE R == {hilo[h].entrada : h \in Hilos}
           L == Ids \ (EnCache \cup R)
<1>1. cache \in Seq(Ids) /\ Len(cache) \in Nat /\ DOMAIN cache = 1 .. Len(cache)
  BY DEF TypeOK, TipoCache
<1>2. IsFiniteSet(EnCache) /\ Cardinality(EnCache) \in Nat /\ Cardinality(EnCache) <= Len(cache)
  <2>1. [i \in 1 .. Len(cache) |-> cache[i]] \in Surjection(1 .. Len(cache), EnCache)
    BY <1>1 DEF Surjection, EnCache, Range
  <2>2. Cardinality(EnCache) <= Len(cache)
    BY <1>1, <2>1, FS_SurjCardinalityBound DEF ExistsSurjection
  <2> QED BY <1>1, <2>2, SonFinitos DEF EnCache
<1>3. IsFiniteSet(R) /\ Cardinality(R) \in Nat /\ Cardinality(R) <= Cardinality(Hilos)
  <2>1. [h \in Hilos |-> hilo[h].entrada] \in Surjection(Hilos, R)
    BY DEF Surjection
  <2> HIDE DEF R
  <2>2. IsFiniteSet(R) /\ Cardinality(R) <= Cardinality(Hilos)
    BY <2>1, IdsAlcanzan, FS_Surjection
  <2> QED BY <2>2, FS_CardinalityType
<1>4. L # {}
  <2> SUFFICES ASSUME L = {}
               PROVE  FALSE
    OBVIOUS
  <2>1. Ids \in SUBSET (EnCache \cup R)
    OBVIOUS
  <2> HIDE DEF R, L
  <2>2. /\ IsFiniteSet(EnCache \cup R)
        /\ Cardinality(EnCache \cup R)
             = Cardinality(EnCache) + Cardinality(R) - Cardinality(EnCache \cap R)
    BY <1>2, <1>3, FS_Union
  <2>3. Cardinality(EnCache \cap R) \in Nat
    BY <1>2, FS_Intersection, FS_CardinalityType
  <2>4. Cardinality(Ids) <= Cardinality(EnCache \cup R)
    BY <2>1, <2>2, FS_Subset
  <2>5. /\ Cardinality(Ids) >= ENTRADAS_CACHE + Cardinality(Hilos) /\ ENTRADAS_CACHE \in Nat
        /\ Cardinality(Ids) \in Nat /\ Cardinality(Hilos) \in Nat
    BY EntradasNat, IdsAlcanzan DEF TypeOK
  <2> QED BY <1>1, <1>2, <1>3, <2>2, <2>3, <2>4, <2>5
<1>5. L \in SUBSET Nat
  BY IdsAlcanzan
<1>6. EntradaNueva = Min(L)
  BY DEF EntradaNueva
<1>7. EntradaNueva \in L
  <2> HIDE DEF L
  <2> QED BY <1>4, <1>5, <1>6, MinExiste
<1> QED BY <1>7

(* The entry that is replaced is in the list, and is one of the process    *)
(* when it has all it may have.                                            *)
LEMMA Victima ==
  ASSUME TypeOK, CacheAcotada, CACHE_X_PROC > 0,
         NEW pid \in PIDs, ~ hayEspacioEnCache(pid)
  PROVE  /\ getEntradaMasAntigua(pid, Envejecidas) \in EnCache
         /\ Cardinality(Propias(pid)) = CACHE_X_PROC =>
              entradas[getEntradaMasAntigua(pid, Envejecidas)].pid = pid
<1> DEFINE candidatas == IF Cardinality(Propias(pid)) = CACHE_X_PROC
                         THEN Propias(pid) ELSE DOMAIN cache
           lecturas(i) == Envejecidas[cache[i]].lecturas
           masViejas == {i \in candidatas : \A j \in candidatas : lecturas(j) <= lecturas(i)}
<1>1. /\ cache \in Seq(Ids) /\ Len(cache) \in Nat /\ DOMAIN cache = 1 .. Len(cache)
      /\ \A i \in DOMAIN cache : cache[i] \in Ids /\ cache[i] \in EnCache
  BY DEF TypeOK, TipoCache, EnCache, Range
<1>2. \A i \in DOMAIN cache : lecturas(i) \in Nat
  <2>1. \A e \in Ids : entradas[e].lecturas \in Nat /\ DOMAIN entradas = Ids
    BY DEF TypeOK, TipoCache
  <2>2. \A e \in Ids : Envejecidas[e].lecturas \in Nat
    BY <2>1 DEF Envejecidas, TypeOK, TipoCache
  <2> QED BY <1>1, <2>2
<1>3. Propias(pid) \subseteq DOMAIN cache /\ \A i \in Propias(pid) : entradas[cache[i]].pid = pid
  BY DEF Propias
<1>4. IsFiniteSet(Propias(pid)) /\ Cardinality(Propias(pid)) \in Nat
  <2>1. IsFiniteSet(1 .. Len(cache))
    BY <1>1, FS_Interval
  <2>2. IsFiniteSet(Propias(pid))
    BY <1>1, <1>3, <2>1, FS_Subset
  <2> QED BY <2>2, FS_CardinalityType
<1>5. candidatas \subseteq DOMAIN cache /\ candidatas # {}
  <2>1. CASE Cardinality(Propias(pid)) = CACHE_X_PROC
    <3>1. Propias(pid) # {}
      BY <2>1, FS_EmptySet, CacheAssumption
    <3> QED BY <1>3, <2>1, <3>1
  <2>2. CASE Cardinality(Propias(pid)) # CACHE_X_PROC
    <3>1. Cardinality(Propias(pid)) < CACHE_X_PROC
      BY <1>4, <2>2, CacheAssumption DEF CacheAcotada
    <3>2. ~ (Len(cache) < ENTRADAS_CACHE) /\ ENTRADAS_CACHE \in Nat /\ ENTRADAS_CACHE >= 1
      BY <3>1, EntradasNat DEF hayEspacioEnCache, TypeOK
    <3>3. 1 \in DOMAIN cache
      BY <1>1, <3>2
    <3> QED BY <2>2, <3>3
  <2> QED BY <2>1, <2>2
<1> HIDE DEF lecturas
<1>6. masViejas # {}
  <2> DEFINE L == {lecturas(i) : i \in candidatas}
             f == [i \in candidatas |-> lecturas(i)]
  <2> HIDE DEF candidatas
  <2>1. L \in SUBSET Nat /\ L # {}
    BY <1>2, <1>5
  <2>2. f \in Surjection(candidatas, L)
    BY DEF Surjection
  <2>3. IsFiniteSet(candidatas)
    <3>1. IsFiniteSet(1 .. Len(cache))
      BY <1>1, FS_Interval
    <3> QED BY <1>1, <1>5, <3>1, FS_Subset
  <2> HIDE DEF f
  <2>4. IsFiniteSet(L)
    <3> HIDE DEF L
    <3> QED BY <2>2, <2>3, FS_Surjection
  <2>5. PICK b \in Nat : \A x \in L : x <= b
    <3> HIDE DEF L
    <3> QED BY <2>1, <2>4, FinitoAcotado
  <2>6. Max(L) \in L /\ \A x \in L : x <= Max(L)
    <3>1. L \in SUBSET (0 .. b)
      BY <2>1, <2>5
    <3> HIDE DEF L
    <3> QED BY <2>1, <3>1, MaxExiste
  <2>7. PICK i \in candidatas : lecturas(i) = Max(L)
    BY <2>6
  <2>8. \A j \in candidatas : lecturas(j) \in L
    OBVIOUS
  <2> HIDE DEF L
  <2>9. \A j \in candidatas : lecturas(j) <= lecturas(i)
    BY <2>6, <2>7, <2>8
  <2> QED BY <2>7, <2>9
<1>7. masViejas \in SUBSET (0 .. Len(cache))
  BY <1>1, <1>5
<1>8. Max(masViejas) \in masViejas
  <2> HIDE DEF masViejas
  <2> QED BY <1>1, <1>6, <1>7, MaxExiste
<1>9. getEntradaMasAntigua(pid, Envejecidas) = cache[Max(masViejas)]
  BY DEF getEntradaMasAntigua, lecturas
<1>10. Max(masViejas) \in candidatas
  BY <1>8
<1> HIDE DEF masViejas
<1> QED BY <1>1, <1>3, <1>5, <1>9, <1>10

(* With room for everybody, who has not all its entries finds one.         *)
LEMMA HayLugar ==
  ASSUME TypeOK, CacheAcotada, HayLugarParaTodos, \A e \in EnCache : entradas[e].pid \in PIDs,
         NEW pid \in PIDs, Cardinality(Propias(pid)) < CACHE_X_PROC
  PROVE  Len(cache) < ENTRADAS_CACHE
<1> DEFINE C == CACHE_X_PROC
           Suyas(p) == PropiasEn(cache, entradas, p)
           T == PIDs \X (1 .. C)
           U == {t \in T : t[2] <= Cardinality(Suyas(t[1]))}
<1>1. cache \in Seq(Ids) /\ C \in Nat /\ IsFiniteSet(PIDs)
  BY CacheAssumption, PIDsAssumption DEF TypeOK, TipoCache
<1>2. AcotadaEn(cache, entradas, ENTRADAS_CACHE)
  BY <1>1, AcotadaEquivale DEF CacheAcotada, Es, Propias
<1>3. /\ Cardinality(EnCache) = Len(cache) /\ EnCache = ToSet(cache)
      /\ \A p : Cardinality(Propias(p)) = Cardinality(Suyas(p))
  BY <1>1, <1>2, PosicionesSonEntradas, SonFinitos DEF AcotadaEn, Propias, EnCache
<1>4. \A p : IsFiniteSet(Suyas(p)) /\ Cardinality(Suyas(p)) \in Nat
             /\ ExistsBijection(1 .. Cardinality(Suyas(p)), Suyas(p))
  BY <1>1, SonFinitos, FS_CardinalityType
<1>5. \A p \in PIDs : Cardinality(Suyas(p)) <= C
  BY <1>2 DEF AcotadaEn
<1>6. IsFiniteSet(T) /\ Cardinality(T) = Cardinality(PIDs) * C /\ Cardinality(PIDs) \in Nat
  <2>1. IsFiniteSet(1 .. C) /\ Cardinality(1 .. C) = C
    <3>1. 1 \in Int /\ C \in Int
      BY <1>1
    <3>2. Cardinality(1 .. C) = IF 1 > C THEN 0 ELSE C - 1 + 1
      BY <3>1, FS_Interval
    <3> QED BY <1>1, <3>1, <3>2, FS_Interval
  <2> QED BY <1>1, <2>1, FS_Product, FS_CardinalityType
<1>7. <<pid, C>> \in T /\ <<pid, C>> \notin U /\ U \subseteq T
  <2>1. Cardinality(Suyas(pid)) < C
    BY <1>3
  <2>2. C \in 1 .. C
    BY <1>1, <1>4, <2>1
  <2> QED BY <1>1, <1>4, <2>1, <2>2
<1> DEFINE b == [p \in PIDs |-> CHOOSE f : f \in Bijection(1 .. Cardinality(Suyas(p)), Suyas(p))]
           g == [t \in U |-> b[t[1]][t[2]]]
<1>8. \A p \in PIDs : /\ b[p] \in [1 .. Cardinality(Suyas(p)) -> Suyas(p)]
                      /\ \A e \in Suyas(p) : \E k \in 1 .. Cardinality(Suyas(p)) : b[p][k] = e
  <2> SUFFICES ASSUME NEW p \in PIDs
               PROVE  /\ b[p] \in [1 .. Cardinality(Suyas(p)) -> Suyas(p)]
                      /\ \A e \in Suyas(p) : \E k \in 1 .. Cardinality(Suyas(p)) : b[p][k] = e
    OBVIOUS
  <2>1. Bijection(1 .. Cardinality(Suyas(p)), Suyas(p)) # {}
    BY <1>4 DEF ExistsBijection
  <2>2. b[p] = CHOOSE f : f \in Bijection(1 .. Cardinality(Suyas(p)), Suyas(p))
    OBVIOUS
  <2> HIDE DEF b, Suyas
  <2>3. b[p] \in Bijection(1 .. Cardinality(Suyas(p)), Suyas(p))
    BY <2>1, <2>2
  <2> QED BY <2>3 DEF Bijection, Surjection
<1> HIDE DEF b, Suyas
<1>9. g \in Surjection(U, EnCache)
  <2>1. ASSUME NEW t \in U
        PROVE  g[t] \in EnCache
    <3>1. t[1] \in PIDs /\ t[2] \in 1 .. Cardinality(Suyas(t[1]))
      BY <1>4
    <3>2. b[t[1]][t[2]] \in Suyas(t[1])
      BY <1>8, <3>1
    <3>3. Suyas(t[1]) \subseteq EnCache
      BY <1>3 DEF Suyas, PropiasEn
    <3> QED BY <3>2, <3>3
  <2>2. ASSUME NEW e \in EnCache
        PROVE  \E t \in U : g[t] = e
    <3>1. entradas[e].pid \in PIDs /\ e \in Suyas(entradas[e].pid)
      BY <1>3 DEF Suyas, PropiasEn
    <3>2. PICK k \in 1 .. Cardinality(Suyas(entradas[e].pid)) : b[entradas[e].pid][k] = e
      BY <1>8, <3>1
    <3>3. k \in 1 .. C /\ k <= Cardinality(Suyas(entradas[e].pid))
      BY <1>1, <1>4, <1>5, <3>1
    <3>4. <<entradas[e].pid, k>> \in U
      BY <3>1, <3>3
    <3> QED BY <3>2, <3>4
  <2> QED BY <2>1, <2>2 DEF Surjection
<1> HIDE DEF g, U, T
<1>10. Cardinality(U) <= Cardinality(T) - 1
  <2>1. IsFiniteSet(T \ {<<pid, C>>}) /\ Cardinality(T \ {<<pid, C>>}) = Cardinality(T) - 1
    BY <1>6, <1>7, FS_RemoveElement
  <2>2. U \in SUBSET (T \ {<<pid, C>>})
    BY <1>7
  <2> QED BY <2>1, <2>2, FS_Subset
<1>11. IsFiniteSet(U) /\ Cardinality(EnCache) <= Cardinality(U)
  BY <1>6, <1>7, <1>9, FS_Subset, FS_Surjection
<1>12. Cardinality(U) \in Nat /\ Cardinality(T) \in Nat /\ Cardinality(T) <= ENTRADAS_CACHE
       /\ ENTRADAS_CACHE \in Nat
  <2>1. C * Cardinality(PIDs) = Cardinality(PIDs) * C
    BY <1>1, <1>6
  <2> QED BY <1>6, <1>11, <2>1, FS_CardinalityType, EntradasNat DEF HayLugarParaTodos, TypeOK
<1> QED BY <1>1, <1>3, <1>10, <1>11, <1>12

(* The count of readings is all an entry changes by when the cache is read. *)
LEMMA EnvejecerEsLeer ==
  ASSUME TypeOK, NEW e \in Ids
  PROVE  /\ Envejecidas[e] \in EntradasDeCache
         /\ Envejecidas[e].pid = entradas[e].pid /\ Envejecidas[e].pagina = entradas[e].pagina
         /\ Envejecidas[e].contenido = entradas[e].contenido
<1> DEFINE x == entradas[e]
<1>1. x \in EntradasDeCache
  BY DEF TypeOK, TipoCache, EntradasDeCache
<1>2. Envejecidas[e] = IF e \in EnCache THEN [x EXCEPT !.lecturas = @ + 1] ELSE x
  BY DEF Envejecidas
<1> HIDE DEF x
<1>3. /\ Envejecidas[e] \in EntradasDeCache /\ Envejecidas[e].pid = x.pid
      /\ Envejecidas[e].pagina = x.pagina /\ Envejecidas[e].contenido = x.contenido
  BY <1>1, <1>2 DEF EntradasDeCache
<1> QED BY <1>3 DEF x

(* The entry a page has in the list.                                       *)
LEMMA EntradaHallada ==
  ASSUME TypeOK, NEW pid, NEW pagina, estaEnCache(pid, pagina)
  PROVE  LET e == getEntradaCache(pid, pagina)
         IN e \in EnCache /\ e \in Ids /\ Es(e, pid, pagina)
<1> DEFINE P == {i \in DOMAIN cache : Es(cache[i], pid, pagina)}
           e == getEntradaCache(pid, pagina)
<1>1. cache \in Seq(Ids) /\ \A i \in DOMAIN cache : i \in Nat /\ cache[i] \in Ids
  BY DEF TypeOK, TipoCache
<1>2. P # {} /\ P \in SUBSET Nat
  BY <1>1 DEF estaEnCache, EnCache, Range
<1>3. Min(P) \in P
  <2> HIDE DEF P
  <2> QED BY <1>2, MinExiste
<1>4. e = cache[Min(P)]
  BY DEF getEntradaCache
<1>5. Min(P) \in DOMAIN cache /\ Es(cache[Min(P)], pid, pagina)
  BY <1>3
<1> HIDE DEF P, e
<1>6. e \in EnCache /\ e \in Ids /\ Es(e, pid, pagina)
  BY <1>1, <1>4, <1>5 DEF EnCache, Range
<1> QED BY <1>6 DEF e

(* A process with an entry may have one.                                   *)
LEMMA CacheConLugar ==
  ASSUME TypeOK, CacheAcotada, NEW e \in EnCache, entradas[e].pid \in PIDs
  PROVE  CACHE_X_PROC > 0
<1> DEFINE p == entradas[e].pid
<1>1. cache \in Seq(Ids) /\ DOMAIN cache = 1 .. Len(cache) /\ Len(cache) \in Nat
  BY DEF TypeOK, TipoCache
<1>2. PICK i \in DOMAIN cache : cache[i] = e
  BY DEF EnCache, Range
<1>3. i \in Propias(p) /\ Propias(p) \subseteq 1 .. Len(cache)
  BY <1>1, <1>2 DEF Propias
<1> HIDE DEF p
<1>4. IsFiniteSet(Propias(p)) /\ Cardinality(Propias(p)) \in Nat
  <2>1. IsFiniteSet(1 .. Len(cache))
    BY <1>1, FS_Interval
  <2>2. IsFiniteSet(Propias(p))
    BY <1>3, <2>1, FS_Subset
  <2> QED BY <2>2, FS_CardinalityType
<1>5. Cardinality(Propias(p)) # 0
  BY <1>3, <1>4, FS_EmptySet
<1>6. Cardinality(Propias(p)) <= CACHE_X_PROC
  BY DEF CacheAcotada, p
<1> QED BY <1>4, <1>5, <1>6, CacheAssumption

(* An element more is at most one more.                                    *)
LEMMA UnoMas ==
  ASSUME NEW S, IsFiniteSet(S), NEW x
  PROVE  Cardinality(S \cup {x}) \in {Cardinality(S), Cardinality(S) + 1}
<1>1. Cardinality(S \cup {x}) = IF x \in S THEN Cardinality(S) ELSE Cardinality(S) + 1
  BY FS_AddElement
<1> QED BY <1>1

(* The list without one of its positions, and what stays bounded.          *)
LEMMA QuitarAcotada ==
  ASSUME NEW q \in Seq(Ids), NEW ent, NEW cota \in Nat, AcotadaEn(q, ent, cota), NEW i \in DOMAIN q
  PROVE  /\ RemoveAt(q, i) \in Seq(Ids) /\ ToSet(RemoveAt(q, i)) \subseteq ToSet(q)
         /\ AcotadaEn(RemoveAt(q, i), ent, cota)
<1> DEFINE r == RemoveAt(q, i)
<1>1. Len(q) \in Nat /\ DOMAIN q = 1 .. Len(q) /\ i \in 1 .. Len(q)
  OBVIOUS
<1>2. r \in Seq(Ids) /\ Len(r) = Len(q) - 1
      /\ \A j \in 1 .. (Len(q) - 1) : r[j] = IF j < i THEN q[j] ELSE q[j + 1]
  BY <1>1, RemoveAtTipo, RemoveAtPosiciones
<1> HIDE DEF r
<1>3. DOMAIN r = 1 .. (Len(q) - 1) /\ Len(r) = Len(q) - 1
  BY <1>2
<1>4. ToSet(r) \subseteq ToSet(q)
  BY <1>1, <1>2, <1>3 DEF ToSet
<1>5. SinRepetidos(r)
  <2> SUFFICES ASSUME NEW j \in 1 .. (Len(q) - 1), NEW k \in 1 .. (Len(q) - 1), r[j] = r[k]
               PROVE  j = k
    BY <1>3 DEF SinRepetidos
  <2>1. \A x, y \in 1 .. Len(q) : q[x] = q[y] => x = y
    BY DEF AcotadaEn, SinRepetidos
  <2>2. /\ j \in 1 .. Len(q) /\ j + 1 \in 1 .. Len(q) /\ k \in 1 .. Len(q) /\ k + 1 \in 1 .. Len(q)
        /\ j \in Int /\ k \in Int /\ i \in Int
    BY <1>1
  <2>3. /\ r[j] = IF j < i THEN q[j] ELSE q[j + 1]
        /\ r[k] = IF k < i THEN q[k] ELSE q[k + 1]
    BY <1>2
  <2>4. CASE j < i
    <3>1. CASE k < i
      BY <2>1, <2>2, <2>3, <2>4, <3>1
    <3>2. CASE ~ (k < i)
      <4>1. j = k + 1
        BY <2>1, <2>2, <2>3, <2>4, <3>2
      <4> QED BY <2>2, <2>4, <3>2, <4>1
    <3> QED BY <3>1, <3>2
  <2>5. CASE ~ (j < i)
    <3>1. CASE k < i
      <4>1. j + 1 = k
        BY <2>1, <2>2, <2>3, <2>5, <3>1
      <4> QED BY <2>2, <2>5, <3>1, <4>1
    <3>2. CASE ~ (k < i)
      <4>1. j + 1 = k + 1
        BY <2>1, <2>2, <2>3, <2>5, <3>2
      <4> QED BY <2>2, <4>1
    <3> QED BY <3>1, <3>2
  <2> QED BY <2>4, <2>5
<1>6. Cardinality(ToSet(r)) <= cota
  <2>1. /\ IsFiniteSet(ToSet(q)) /\ Cardinality(ToSet(q)) \in Nat
        /\ Cardinality(ToSet(r)) \in Nat
    BY <1>2, SonFinitos
  <2>2. Cardinality(ToSet(r)) <= Cardinality(ToSet(q))
    BY <1>4, <2>1, FS_Subset
  <2>3. Cardinality(ToSet(q)) <= cota
    BY DEF AcotadaEn
  <2> QED BY <2>1, <2>2, <2>3
<1>7. ASSUME NEW p \in PIDs
      PROVE  Cardinality(PropiasEn(r, ent, p)) <= CACHE_X_PROC
  <2>1. PropiasEn(r, ent, p) \in SUBSET PropiasEn(q, ent, p)
    BY <1>4 DEF PropiasEn
  <2>2. /\ Cardinality(PropiasEn(r, ent, p)) <= Cardinality(PropiasEn(q, ent, p))
        /\ Cardinality(PropiasEn(q, ent, p)) \in Nat /\ Cardinality(PropiasEn(r, ent, p)) \in Nat
    BY <1>2, <2>1, SonFinitos, FS_Subset
  <2> QED BY <2>2, CacheAssumption DEF AcotadaEn
<1> QED BY <1>2, <1>4, <1>5, <1>6, <1>7 DEF AcotadaEn, r

LEMMA VaciaAcotada ==
  ASSUME NEW ent, NEW cota \in Nat
  PROVE  AcotadaEn(<< >>, ent, cota)
<1>1. ToSet(<< >>) = {} /\ \A p : PropiasEn(<< >>, ent, p) = {}
  BY ElementosCortos DEF PropiasEn
<1> QED BY <1>1, FS_EmptySet, CacheAssumption DEF AcotadaEn, SinRepetidos

(* A page that is written in the cache is there once, with its bytes; other *)
(* entries of the list are those that were, and while there is room for    *)
(* everybody the process changes only its own.                             *)
LEMMA EscribirCache ==
  ASSUME TypeOK, CacheAcotada, CACHE_X_PROC > 0, config' = config,
         NEW pid \in PIDs, NEW pagina \in Paginas, NEW contenido \in Valores,
         escribirCache(pid, pagina, contenido)
  PROVE  /\ TipoCache' /\ CacheAcotada'
         /\ \A e \in EnCache' : \/ EsAhora(e, pid, pagina, contenido)
                                \/ e \in EnCache /\ MismaEntrada(e) /\ ~ Es(e, pid, pagina)
         /\ HayLugarParaTodos /\ (\A e \in EnCache : entradas[e].pid \in PIDs) =>
              \A h \in Hilos : hilo[h].entrada \in Ids /\ entradas[hilo[h].entrada].pid # pid =>
                MismaEntrada(hilo[h].entrada)
<1>1. /\ cache \in Seq(Ids) /\ entradas \in [Ids -> EntradasDeCache]
      /\ EnCache = ToSet(cache) /\ EnCache \subseteq Ids
  <2>1. cache \in Seq(Ids) /\ entradas \in [Ids -> EntradasDeCache]
    BY DEF TypeOK, TipoCache, EntradasDeCache
  <2> QED BY <2>1, SonFinitos DEF EnCache
<1>2. AcotadaEn(cache, entradas, ENTRADAS_CACHE)
  BY <1>1, AcotadaEquivale DEF CacheAcotada, Es, Propias
<1>3. ASSUME cache' \in Seq(Ids), entradas' \in [Ids -> EntradasDeCache],
             AcotadaEn(cache', entradas', ENTRADAS_CACHE)
      PROVE  TipoCache' /\ CacheAcotada' /\ EnCache' = ToSet(cache')
  <2>1. ENTRADAS_CACHE' = ENTRADAS_CACHE
    BY DEF ENTRADAS_CACHE
  <2>2. EnCache' = ToSet(cache')
    BY <1>3, SonFinitos DEF EnCache
  <2>3. CacheAcotada'
    BY <1>3, <2>1, AcotadaEquivale DEF CacheAcotada, Es, Propias
  <2> QED BY <1>3, <2>2, <2>3 DEF TipoCache, EntradasDeCache
<1>4. ASSUME NEW e \in Ids
      PROVE  /\ Envejecidas[e] \in EntradasDeCache
             /\ Envejecidas[e].pid = entradas[e].pid /\ Envejecidas[e].pagina = entradas[e].pagina
             /\ Envejecidas[e].contenido = entradas[e].contenido
  BY EnvejecerEsLeer
<1>5. Envejecidas \in [Ids -> EntradasDeCache]
  BY <1>4 DEF Envejecidas
<1>6. Cargada(pid, pagina, contenido) \in EntradasDeCache
      /\ Cargada(pid, pagina, contenido).pid = pid
      /\ Cargada(pid, pagina, contenido).pagina = pagina
      /\ Cargada(pid, pagina, contenido).contenido = contenido
  BY DEF Cargada, EntradasDeCache
<1>7. /\ ENTRADAS_CACHE \in Nat /\ CACHE_X_PROC \in Nat
      /\ Cardinality(ToSet(cache)) = Len(cache) /\ Len(cache) \in Nat
      /\ \A p : Cardinality(Propias(p)) = Cardinality(PropiasEn(cache, entradas, p))
      /\ \A p : IsFiniteSet(PropiasEn(cache, entradas, p))
                /\ Cardinality(PropiasEn(cache, entradas, p)) \in Nat
      /\ IsFiniteSet(ToSet(cache))
  BY <1>1, <1>2, EntradasNat, CacheAssumption, PosicionesSonEntradas, SonFinitos
  DEF AcotadaEn, Propias, TypeOK
<1>8. CASE actualizarCache(pid, pagina, contenido)
  <2> DEFINE d == getEntradaCache(pid, pagina)
  <2>1. d \in EnCache /\ Es(d, pid, pagina)
    BY <1>8, EntradaHallada DEF actualizarCache
  <2>2. cache' = cache /\ entradas' = [entradas EXCEPT ![d].contenido = contenido]
    BY <1>8 DEF actualizarCache
  <2> HIDE DEF d
  <2>3. /\ entradas' \in [Ids -> EntradasDeCache]
        /\ \A e \in Ids : e # d => entradas'[e] = entradas[e]
        /\ entradas'[d].pid = pid /\ entradas'[d].pagina = pagina
        /\ entradas'[d].contenido = contenido
    BY <1>1, <2>1, <2>2 DEF EntradasDeCache, Es
  <2>4. \A e \in Ids : entradas'[e].pid = entradas[e].pid /\ entradas'[e].pagina = entradas[e].pagina
    BY <1>1, <2>1, <2>3 DEF Es
  <2>5. \A p : PropiasEn(cache, entradas', p) = PropiasEn(cache, entradas, p)
    BY <1>1, <2>4 DEF PropiasEn
  <2>6. AcotadaEn(cache', entradas', ENTRADAS_CACHE)
    <3>1. \A p \in PIDs : Cardinality(PropiasEn(cache', entradas', p)) <= CACHE_X_PROC
      BY <1>2, <2>2, <2>5 DEF AcotadaEn
    <3>2. \A x, y \in ToSet(cache) :
            entradas'[x].pid = entradas'[y].pid /\ entradas'[x].pagina = entradas'[y].pagina => x = y
      BY <1>1, <1>2, <2>4 DEF AcotadaEn
    <3> QED BY <1>2, <2>2, <3>1, <3>2 DEF AcotadaEn
  <2>7. \A e \in EnCache : e # d => ~ Es(e, pid, pagina)
    BY <1>1, <1>2, <2>1 DEF AcotadaEn, Es
  <2>8. \A e \in Ids : entradas[e].pid # pid => MismaEntrada(e)
    BY <1>1, <2>1, <2>3 DEF MismaEntrada, Es
  <2>9. \A e \in EnCache : \/ EsAhora(e, pid, pagina, contenido)
                           \/ MismaEntrada(e) /\ ~ Es(e, pid, pagina)
    BY <1>1, <2>3, <2>7 DEF EsAhora, MismaEntrada
  <2> QED BY <1>1, <1>3, <2>2, <2>3, <2>6, <2>8, <2>9
<1>9. CASE agregarACache(pid, pagina, contenido)
  <2> DEFINE x == EntradaNueva
             nueva == Cargada(pid, pagina, contenido)
  <2>1. /\ ~ estaEnCache(pid, pagina) /\ Len(cache) < ENTRADAS_CACHE
        /\ Cardinality(Propias(pid)) < CACHE_X_PROC
        /\ cache' = Append(cache, x) /\ entradas' = [Envejecidas EXCEPT ![x] = nueva]
    BY <1>9 DEF agregarACache, hayEspacioEnCache
  <2>2. x \in Ids /\ x \notin EnCache /\ \A h \in Hilos : hilo[h].entrada # x
    BY <2>1, HayEntradaNueva
  <2> HIDE DEF x, nueva
  <2>3. /\ entradas' \in [Ids -> EntradasDeCache]
        /\ \A e \in Ids : e # x => MismaEntrada(e)
        /\ EsAhora(x, pid, pagina, contenido)
    BY <1>4, <1>5, <1>6, <2>1, <2>2 DEF MismaEntrada, EsAhora, nueva
  <2>4. /\ cache' \in Seq(Ids) /\ ToSet(cache') = ToSet(cache) \cup {x} /\ SinRepetidos(cache')
    BY <1>1, <1>2, <2>1, <2>2, ElementosAppend DEF AcotadaEn
  <2>5. /\ PropiasEn(cache', entradas', pid) = PropiasEn(cache, entradas, pid) \cup {x}
        /\ \A p : p # pid => PropiasEn(cache', entradas', p) = PropiasEn(cache, entradas, p)
    BY <1>1, <2>2, <2>3, <2>4 DEF PropiasEn, MismaEntrada, EsAhora
  <2>6. Cardinality(ToSet(cache')) <= ENTRADAS_CACHE
    <3>1. Cardinality(ToSet(cache) \cup {x}) = Cardinality(ToSet(cache)) + 1
      BY <1>1, <1>7, <2>2, FS_AddElement
    <3> QED BY <1>7, <2>1, <2>4, <3>1
  <2>7. Cardinality(PropiasEn(cache', entradas', pid)) <= CACHE_X_PROC
    <3>1. Cardinality(PropiasEn(cache', entradas', pid)) \in
            {Cardinality(PropiasEn(cache, entradas, pid)),
             Cardinality(PropiasEn(cache, entradas, pid)) + 1}
      BY <1>7, <2>5, UnoMas
    <3> QED BY <1>7, <2>1, <3>1
  <2>8. \A e \in EnCache : ~ Es(e, pid, pagina)
    BY <2>1 DEF estaEnCache
  <2>9. \A d, e \in ToSet(cache') :
          entradas'[d].pid = entradas'[e].pid /\ entradas'[d].pagina = entradas'[e].pagina => d = e
    BY <1>1, <1>2, <2>2, <2>3, <2>4, <2>8 DEF AcotadaEn, MismaEntrada, EsAhora, Es
  <2>10. AcotadaEn(cache', entradas', ENTRADAS_CACHE)
    BY <1>2, <2>4, <2>5, <2>6, <2>7, <2>9 DEF AcotadaEn
  <2>11. \A e \in ToSet(cache') : \/ EsAhora(e, pid, pagina, contenido)
                                  \/ e \in EnCache /\ MismaEntrada(e) /\ ~ Es(e, pid, pagina)
    BY <1>1, <2>2, <2>3, <2>4, <2>8
  <2> QED BY <1>3, <2>2, <2>3, <2>4, <2>10, <2>11
<1>10. CASE remplazoLRU(pid, pagina, contenido)
  <2> DEFINE v == getEntradaMasAntigua(pid, Envejecidas)
             nueva == Cargada(pid, pagina, contenido)
  <2>1. /\ ~ estaEnCache(pid, pagina) /\ ~ hayEspacioEnCache(pid)
        /\ cache' = cache /\ entradas' = [Envejecidas EXCEPT ![v] = nueva]
    BY <1>10 DEF remplazoLRU
  <2>2. v \in EnCache /\ (Cardinality(Propias(pid)) = CACHE_X_PROC => entradas[v].pid = pid)
    BY <2>1, Victima
  <2> HIDE DEF v, nueva
  <2>3. /\ entradas' \in [Ids -> EntradasDeCache]
        /\ \A e \in Ids : e # v => MismaEntrada(e)
        /\ EsAhora(v, pid, pagina, contenido)
    BY <1>1, <1>4, <1>5, <1>6, <2>1, <2>2 DEF MismaEntrada, EsAhora, nueva
  <2>4. /\ PropiasEn(cache', entradas', pid) = PropiasEn(cache, entradas, pid) \cup {v}
        /\ \A p : p # pid => PropiasEn(cache', entradas', p) = PropiasEn(cache, entradas, p) \ {v}
    BY <1>1, <2>1, <2>2, <2>3 DEF PropiasEn, MismaEntrada, EsAhora
  <2>5. Cardinality(PropiasEn(cache, entradas, pid)) <= CACHE_X_PROC
    BY <1>2 DEF AcotadaEn
  <2>6. Cardinality(PropiasEn(cache', entradas', pid)) <= CACHE_X_PROC
    <3>1. CASE Cardinality(Propias(pid)) = CACHE_X_PROC
      <4>1. v \in PropiasEn(cache, entradas, pid)
        BY <1>1, <2>2, <3>1 DEF PropiasEn
      <4>2. PropiasEn(cache', entradas', pid) = PropiasEn(cache, entradas, pid)
        BY <2>4, <4>1
      <4> QED BY <2>5, <4>2
    <3>2. CASE Cardinality(Propias(pid)) # CACHE_X_PROC
      <4>1. Cardinality(PropiasEn(cache, entradas, pid)) < CACHE_X_PROC
        BY <1>7, <2>5, <3>2
      <4>2. Cardinality(PropiasEn(cache', entradas', pid)) \in
              {Cardinality(PropiasEn(cache, entradas, pid)),
               Cardinality(PropiasEn(cache, entradas, pid)) + 1}
        BY <1>7, <2>4, UnoMas
      <4> QED BY <1>7, <4>1, <4>2
    <3> QED BY <3>1, <3>2
  <2>7. ASSUME NEW p \in PIDs, p # pid
        PROVE  Cardinality(PropiasEn(cache', entradas', p)) <= CACHE_X_PROC
    <3>1. PropiasEn(cache', entradas', p) \in SUBSET PropiasEn(cache, entradas, p)
      BY <2>4, <2>7
    <3>2. /\ Cardinality(PropiasEn(cache', entradas', p)) <= Cardinality(PropiasEn(cache, entradas, p))
          /\ Cardinality(PropiasEn(cache', entradas', p)) \in Nat
      BY <1>7, <3>1, FS_Subset, FS_CardinalityType
    <3>3. Cardinality(PropiasEn(cache, entradas, p)) <= CACHE_X_PROC
      BY <1>2 DEF AcotadaEn
    <3> QED BY <1>7, <3>2, <3>3
  <2>8. \A e \in EnCache : ~ Es(e, pid, pagina)
    BY <2>1 DEF estaEnCache
  <2>9. \A d, e \in ToSet(cache') :
          entradas'[d].pid = entradas'[e].pid /\ entradas'[d].pagina = entradas'[e].pagina => d = e
    BY <1>1, <1>2, <2>1, <2>2, <2>3, <2>8 DEF AcotadaEn, MismaEntrada, EsAhora, Es
  <2>10. AcotadaEn(cache', entradas', ENTRADAS_CACHE)
    BY <1>2, <2>1, <2>6, <2>7, <2>9 DEF AcotadaEn
  <2>11. \A e \in ToSet(cache') : \/ EsAhora(e, pid, pagina, contenido)
                                  \/ e \in EnCache /\ MismaEntrada(e) /\ ~ Es(e, pid, pagina)
    BY <1>1, <2>1, <2>2, <2>3, <2>8
  <2>12. ASSUME HayLugarParaTodos, \A e \in EnCache : entradas[e].pid \in PIDs
         PROVE  entradas[v].pid = pid
    <3>1. Cardinality(Propias(pid)) = CACHE_X_PROC
      <4> SUFFICES ASSUME Cardinality(Propias(pid)) # CACHE_X_PROC
                   PROVE  FALSE
        OBVIOUS
      <4>1. Cardinality(Propias(pid)) < CACHE_X_PROC
        BY <1>7, <2>5
      <4>2. Len(cache) < ENTRADAS_CACHE
        BY <2>12, <4>1, HayLugar
      <4> QED BY <2>1, <4>1, <4>2 DEF hayEspacioEnCache
    <3> QED BY <2>2, <3>1
  <2> QED BY <1>1, <1>3, <2>1, <2>3, <2>10, <2>11, <2>12
<1> QED BY <1>8, <1>9, <1>10 DEF escribirCache

-----------------------------------------------------------------------------
(* A step of one thread.                                                   *)

Registro == [paso : Pasos, pid : PIDs \cup {0}, pagina : Paginas \cup {0}, valor : Valores,
             entrada : Ids \cup {SinEntrada}, posicion : 0 .. ENTRADAS_CACHE,
             codigo : {"-", "OK", "FALLO", "BYTES"}]
UnHilo(h) == hilo' \in [Hilos -> Registro] /\ \A g \in Hilos : g # h => hilo'[g] = hilo[g]
MismoProceso(h) ==
  Activo(h)' => IF Activo(h) THEN hilo'[h].pid = hilo[h].pid ELSE ~ Atendido(hilo'[h].pid)

LEMMA HilosSiguen ==
  ASSUME TypeOK, InvHilos, config' = config, NEW h \in Hilos, UnHilo(h), HiloDe(h)',
         MismoProceso(h),
         \A p \in PIDs : vida'[p] = vida[p] \/ (Activo(h)' /\ hilo'[h].pid = p)
  PROVE  TipoHilos' /\ InvHilos'
<1>1. TipoHilos'
  BY DEF UnHilo, TipoHilos, Registro, ENTRADAS_CACHE
<1>2. ASSUME NEW g \in Hilos, g # h, Activo(g), Activo(h)'
      PROVE  hilo[g].pid # hilo'[h].pid
  BY <1>2 DEF InvHilos, UnoPorProceso, MismoProceso, Atendido, Activo
<1>3. ASSUME NEW g \in Hilos, g # h
      PROVE  HiloDe(g)'
  <2>1. hilo'[g] = hilo[g] /\ HiloDe(g)
    BY <1>3 DEF UnHilo, InvHilos
  <2>2. Activo(g) => hilo[g].pid \in PIDs /\ vida'[hilo[g].pid] = vida[hilo[g].pid]
    BY <1>2, <1>3, <2>1 DEF HiloDe
  <2>3. CASE Activo(g)
    BY <2>1, <2>2, <2>3 DEF HiloDe, Activo
  <2>4. CASE ~ Activo(g)
    BY <2>1, <2>4 DEF HiloDe, Activo, EnRecibir, ConPagina, ConCache, DeBaja
  <2> QED BY <2>3, <2>4
<1>4. UnoPorProceso'
  <2> SUFFICES ASSUME NEW a \in Hilos, NEW b \in Hilos, Activo(a)', Activo(b)',
                      hilo'[a].pid = hilo'[b].pid
               PROVE  a = b
    BY DEF UnoPorProceso
  <2>1. ASSUME NEW g \in Hilos, g # h
        PROVE  hilo'[g] = hilo[g] /\ (Activo(g)' <=> Activo(g))
    BY <2>1 DEF UnHilo, Activo
  <2>2. CASE a = h \/ b = h
    BY <1>2, <2>1, <2>2
  <2>3. CASE a # h /\ b # h
    BY <2>1, <2>3 DEF InvHilos, UnoPorProceso
  <2> QED BY <2>2, <2>3
<1> QED BY <1>1, <1>3, <1>4 DEF InvHilos

(* The page table and the lives are as they were, or the process of this   *)
(* request has just ended.                                                 *)
LEMMA MarcosSiguen ==
  ASSUME InvMarcos, NEW h \in Hilos, UnHilo(h),
         tabla' = tabla, ultimaPagina' = ultimaPagina,
         \A p \in PIDs : vida'[p] = vida[p] \/ (vida'[p] = "terminada" /\ Atendido(p)'),
         \A p \in PIDs : vida[p] = "terminada" /\ Atendido(p) => Atendido(p)'
  PROVE  InvMarcos'
<1> SUFFICES ASSUME NEW p \in PIDs
             PROVE  /\ vida'[p] = "sin iniciar" => SinMarcos(p)'
                    /\ vida'[p] = "viva" => PaginasDe(p)'
                    /\ vida'[p] = "terminada" /\ ~ Atendido(p)' => SinMarcos(p)'
  BY DEF InvMarcos
<1>1. (SinMarcos(p)' <=> SinMarcos(p)) /\ (PaginasDe(p)' <=> PaginasDe(p))
  BY DEF SinMarcos, PaginasDe
<1> QED BY <1>1 DEF InvMarcos

(* What a thread leaves in the cache, in its hands and in what others read: *)
(* no frame of a page in use moves, save those of the processes fuera, which *)
(* nobody uses; each entry has its bytes or is as it was, and no one who    *)
(* was to replicate it stops doing so.                                     *)
Replicando(h) == hilo[h].paso \in {"replicar", "actualizar"}
DejaDeReplicar(h) ==
  Replicando(h) /\ ~ (Replicando(h)' /\ hilo'[h].pid = hilo[h].pid /\ hilo'[h].pagina = hilo[h].pagina)
TieneEntrada(e) ==
  /\ entradas[e].pid \in PIDs /\ entradas[e].pagina \in Paginas
  /\ Tiene(entradas[e].pid, entradas[e].pagina, entradas[e].contenido)

LEMMA TieneSigue ==
  ASSUME memoria' = memoria, NEW p, NEW g, NEW v,
         MarcosDe(tabla, p, g) # {} => MarcosDe(tabla', p, g) = MarcosDe(tabla, p, g),
         Tiene(p, g, v)
  PROVE  /\ MarcosDe(tabla', p, g) # {}
         /\ \A i \in MarcosDe(tabla', p, g) : i < Marcos => memoria'[i] = v
  BY DEF Tiene

LEMMA Paso ==
  ASSUME Inv, NEW h \in Hilos, UnHilo(h), NEW fuera \in SUBSET PIDs,
         memoria' = memoria, escrito' = escrito, config' = config,
         \A p \in PIDs \ fuera, g \in Paginas :
           MarcosDe(tabla, p, g) # {} => MarcosDe(tabla', p, g) = MarcosDe(tabla, p, g),
         \A p \in PIDs : vida[p] # "sin iniciar" =>
           vida'[p] # "sin iniciar" /\ (vida'[p] = "viva" => vida[p] = "viva" /\ p \notin fuera),
         \A g \in Hilos : g # h /\ Activo(g) => hilo[g].pid \notin fuera,
         CacheAcotada',
         \A e \in EnCache' :
           \/ TieneEntrada(e)'
           \/ /\ e \in EnCache /\ MismaEntrada(e) /\ entradas[e].pid \notin fuera
              /\ ~ (DejaDeReplicar(h) /\ Es(e, hilo[h].pid, hilo[h].pagina)),
         hilo'[Kernel].paso = "liberarTabla" =>
           \A e \in EnCache' : entradas'[e].pid # hilo'[Kernel].pid,
         HayLugarParaTodos =>
           \A g \in Hilos : g # h /\ hilo[g].paso = "copiar" => MismaEntrada(hilo[g].entrada),
         ManoDe(h)', HayLugarParaTodos => LecturaDe(h)'
  PROVE  InvCache' /\ InvMano' /\ InvLecturas'
<1>1. \A g \in Hilos : g # h => hilo'[g] = hilo[g] /\ HiloDe(g) /\ ManoDe(g)
  BY DEF UnHilo, Inv, InvHilos, InvMano
<1>2. ASSUME NEW p \in PIDs \ fuera, NEW g \in Paginas, NEW v, Tiene(p, g, v)
      PROVE  /\ MarcosDe(tabla', p, g) # {}
             /\ \A i \in MarcosDe(tabla', p, g) : i < Marcos => memoria'[i] = v
  BY <1>2, TieneSigue
<1>3. ASSUME NEW e \in EnCache'
      PROVE  EntradaDe(e)'
  <2>1. CASE TieneEntrada(e)'
    BY <2>1 DEF TieneEntrada, EntradaDe, Tiene
  <2>2. CASE /\ e \in EnCache /\ MismaEntrada(e) /\ entradas[e].pid \notin fuera
             /\ ~ (DejaDeReplicar(h) /\ Es(e, hilo[h].pid, hilo[h].pagina))
    <3>1. EntradaDe(e)
      BY <2>2 DEF Inv, InvCache
    <3>2. /\ entradas[e].pid \in PIDs \ fuera /\ entradas[e].pagina \in Paginas
          /\ entradas'[e].pid = entradas[e].pid /\ entradas'[e].pagina = entradas[e].pagina
          /\ entradas'[e].contenido = entradas[e].contenido
      BY <2>2, <3>1 DEF EntradaDe, MismaEntrada
    <3>3. MarcosDe(tabla', entradas[e].pid, entradas[e].pagina) # {}
      BY <3>1, <3>2 DEF EntradaDe
    <3>4. CASE Tiene(entradas[e].pid, entradas[e].pagina, entradas[e].contenido)
      <4>1. \A i \in MarcosDe(tabla', entradas[e].pid, entradas[e].pagina) :
              i < Marcos => memoria'[i] = entradas[e].contenido
        BY <1>2, <3>2, <3>4
      <4> QED BY <3>2, <3>3, <4>1 DEF EntradaDe, Tiene
    <3>5. CASE Replica(entradas[e].pid, entradas[e].pagina)
      <4>1. PICK g \in Hilos : /\ hilo[g].pid = entradas[e].pid /\ hilo[g].pagina = entradas[e].pagina
                               /\ Replicando(g)
        BY <3>5 DEF Replica, Replicando
      <4>2. hilo'[g].pid = entradas[e].pid /\ hilo'[g].pagina = entradas[e].pagina /\ Replicando(g)'
        BY <1>1, <2>2, <4>1 DEF DejaDeReplicar, Es, Replicando
      <4>3. Replica(entradas[e].pid, entradas[e].pagina)'
        BY <3>2, <4>2 DEF Replica, Replicando
      <4> QED BY <3>2, <3>3, <4>3 DEF EntradaDe
    <3> QED BY <3>1, <3>4, <3>5 DEF EntradaDe
  <2> QED BY <2>1, <2>2
<1>4. InvCache'
  BY <1>3 DEF InvCache
<1>5. ASSUME NEW g \in Hilos
      PROVE  ManoDe(g)'
  <2>1. CASE g = h
    BY <2>1
  <2>2. CASE g # h /\ hilo[g].paso \in {"cachear", "actualizar", "replicar"}
    <3>1. hilo[g].pid \in PIDs \ fuera /\ hilo[g].pagina \in Paginas /\ hilo'[g] = hilo[g]
      BY <1>1, <2>2 DEF HiloDe, Activo, ConPagina
    <3>2. hilo[g].paso \in {"cachear", "actualizar"} =>
            /\ MarcosDe(tabla', hilo[g].pid, hilo[g].pagina) # {}
            /\ \A i \in MarcosDe(tabla', hilo[g].pid, hilo[g].pagina) :
                 i < Marcos => memoria'[i] = hilo[g].valor
      <4> SUFFICES ASSUME hilo[g].paso \in {"cachear", "actualizar"}
                   PROVE  /\ MarcosDe(tabla', hilo[g].pid, hilo[g].pagina) # {}
                          /\ \A i \in MarcosDe(tabla', hilo[g].pid, hilo[g].pagina) :
                               i < Marcos => memoria'[i] = hilo[g].valor
        OBVIOUS
      <4>1. Tiene(hilo[g].pid, hilo[g].pagina, hilo[g].valor)
        BY <1>1, <2>2 DEF ManoDe
      <4> QED BY <1>2, <3>1, <4>1
    <3>3. hilo[g].paso = "replicar" => MarcosDe(tabla', hilo[g].pid, hilo[g].pagina) # {}
      BY <1>1, <2>2, <3>1 DEF ManoDe
    <3> QED BY <3>1, <3>2, <3>3 DEF ManoDe, Tiene
  <2>3. CASE g # h /\ hilo[g].paso \notin {"cachear", "actualizar", "replicar"}
    BY <1>1, <2>3 DEF ManoDe
  <2> QED BY <2>1, <2>2, <2>3
<1>6. ASSUME NEW p \in PIDs
      PROVE  EscritoDe(p)'
  <2> SUFFICES ASSUME NEW g \in Paginas, escrito[<<p, g>>] # -1
               PROVE  /\ vida'[p] # "sin iniciar"
                      /\ vida'[p] = "viva" =>
                           /\ MarcosDe(tabla', p, g) # {}
                           /\ \A i \in MarcosDe(tabla', p, g) : i < Marcos => memoria'[i] = escrito[<<p, g>>]
    BY DEF EscritoDe, Tiene
  <2>1. vida[p] # "sin iniciar" /\ (vida[p] = "viva" => Tiene(p, g, escrito[<<p, g>>]))
    BY DEF Inv, InvLecturas, EscritoDe
  <2> QED BY <1>2, <2>1
<1>7. ASSUME HayLugarParaTodos, NEW g \in Hilos
      PROVE  LecturaDe(g)'
  <2>1. CASE g = h
    BY <1>7, <2>1
  <2>2. CASE g # h
    <3>1. LecturaDe(g) /\ HiloDe(g) /\ hilo'[g] = hilo[g]
      BY <1>1, <1>7, <2>2 DEF Inv, InvLecturas
    <3>2. hilo[g].paso = "copiar" \/ hilo[g].codigo = "BYTES" =>
            hilo[g].pid \in PIDs \ fuera /\ hilo[g].pagina \in Paginas
      BY <2>2, <3>1 DEF HiloDe, Activo, ConPagina
    <3>3. hilo[g].paso = "copiar" =>
            /\ Es(hilo[g].entrada, hilo[g].pid, hilo[g].pagina)'
            /\ Tiene(hilo[g].pid, hilo[g].pagina, entradas[hilo[g].entrada].contenido)'
      <4> SUFFICES ASSUME hilo[g].paso = "copiar"
                   PROVE  /\ Es(hilo[g].entrada, hilo[g].pid, hilo[g].pagina)'
                          /\ Tiene(hilo[g].pid, hilo[g].pagina, entradas[hilo[g].entrada].contenido)'
        OBVIOUS
      <4>1. MismaEntrada(hilo[g].entrada)
        BY <1>7, <2>2
      <4>2. /\ MarcosDe(tabla', hilo[g].pid, hilo[g].pagina) # {}
            /\ \A i \in MarcosDe(tabla', hilo[g].pid, hilo[g].pagina) :
                 i < Marcos => memoria'[i] = entradas[hilo[g].entrada].contenido
        BY <1>2, <3>1, <3>2 DEF LecturaDe
      <4>3. entradas'[hilo'[g].entrada].contenido = entradas[hilo[g].entrada].contenido
        BY <3>1, <4>1 DEF MismaEntrada
      <4>4. Tiene(hilo[g].pid, hilo[g].pagina, entradas[hilo[g].entrada].contenido)'
        BY <3>1, <4>2, <4>3 DEF Tiene
      <4>5. Es(hilo[g].entrada, hilo[g].pid, hilo[g].pagina)'
        BY <3>1, <4>1 DEF LecturaDe, Es, MismaEntrada
      <4> QED BY <4>4, <4>5
    <3>4. hilo[g].codigo = "BYTES" => Tiene(hilo[g].pid, hilo[g].pagina, hilo[g].valor)'
      <4> SUFFICES ASSUME hilo[g].codigo = "BYTES"
                   PROVE  Tiene(hilo[g].pid, hilo[g].pagina, hilo[g].valor)'
        OBVIOUS
      <4>1. /\ MarcosDe(tabla', hilo[g].pid, hilo[g].pagina) # {}
            /\ \A i \in MarcosDe(tabla', hilo[g].pid, hilo[g].pagina) :
                 i < Marcos => memoria'[i] = hilo[g].valor
        BY <1>2, <3>1, <3>2 DEF LecturaDe
      <4> QED BY <3>1, <4>1 DEF Tiene
    <3> QED BY <3>1, <3>3, <3>4 DEF LecturaDe
  <2> QED BY <2>1, <2>2
<1>8. HayLugarParaTodos' <=> HayLugarParaTodos
  BY DEF HayLugarParaTodos, ENTRADAS_CACHE
<1> QED BY <1>4, <1>5, <1>6, <1>7, <1>8 DEF InvMano, InvLecturas

(* A step that leaves the data alone, and of the cache only takes entries  *)
(* out or counts readings.                                                 *)
LEMMA PasoTranquilo ==
  ASSUME Inv, NEW h \in Hilos, UnHilo(h), HiloDe(h)', MismoProceso(h),
         UNCHANGED <<datos, vida, escrito>>, pedidos' \in 0 .. MaxPedidos,
         TipoCache', CacheAcotada', EnCache' \subseteq EnCache, \A e \in Ids : MismaEntrada(e),
         hilo[h].paso \in DeBaja => Activo(h)',
         DejaDeReplicar(h) => \A e \in EnCache : ~ Es(e, hilo[h].pid, hilo[h].pagina),
         hilo'[h].paso = "liberarTabla" => \A e \in EnCache' : entradas[e].pid # hilo'[h].pid,
         ManoDe(h)', HayLugarParaTodos => LecturaDe(h)'
  PROVE  Inv'
<1>0. /\ config' = config /\ tabla' = tabla /\ ultimaPagina' = ultimaPagina
      /\ memoria' = memoria /\ vida' = vida /\ escrito' = escrito
  BY DEF datos
<1>1. TipoHilos' /\ InvHilos'
  BY <1>0, HilosSiguen DEF Inv
<1>2. TypeOK'
  BY <1>0, <1>1 DEF Inv, TypeOK, TipoDatos, TipoClientes
<1>3. InvMarcos'
  <2>1. ASSUME NEW p \in PIDs, vida[p] = "terminada", Atendido(p)
        PROVE  Atendido(p)'
    <3>1. PICK g \in Hilos : Activo(g) /\ hilo[g].pid = p
      BY <2>1 DEF Atendido, Activo
    <3>2. HiloDe(g) /\ HiloDe(h)
      BY DEF Inv, InvHilos
    <3>3. CASE g # h
      BY <3>1, <3>3 DEF UnHilo, Atendido, Activo
    <3>4. CASE g = h
      <4>1. Activo(h)'
        BY <2>1, <3>1, <3>2, <3>4 DEF HiloDe, Activo, ConPagina, ConCache, DeBaja, Inv, TypeOK,
             TipoHilos, Pasos
      <4>2. hilo'[h].pid = p
        BY <3>1, <3>4, <4>1 DEF MismoProceso
      <4> QED BY <4>1, <4>2 DEF Atendido, Activo
    <3> QED BY <3>3, <3>4
  <2> QED BY <1>0, <2>1, MarcosSiguen DEF Inv
<1>4. \A e \in EnCache' : e \in Ids /\ e \in EnCache /\ MismaEntrada(e)
                          /\ ~ (DejaDeReplicar(h) /\ Es(e, hilo[h].pid, hilo[h].pagina))
  <2>1. EnCache \subseteq Ids
    BY SonFinitos DEF EnCache, Inv, TypeOK, TipoCache
  <2> QED BY <2>1
<1>5. hilo'[Kernel].paso = "liberarTabla" => \A e \in EnCache' : entradas'[e].pid # hilo'[Kernel].pid
  <2>1. CASE h = Kernel
    BY <1>4, <2>1 DEF MismaEntrada
  <2>2. CASE h # Kernel
    BY <1>4, <2>2 DEF UnHilo, Hilos, MismaEntrada, Inv, InvCache
  <2> QED BY <2>1, <2>2
<1>6. \A g \in Hilos : hilo[g].paso = "copiar" => MismaEntrada(hilo[g].entrada)
  BY DEF Inv, InvHilos, HiloDe
<1>7. InvCache' /\ InvMano' /\ InvLecturas'
  <2>1. {} \in SUBSET PIDs
    OBVIOUS
  <2>2. \A e \in EnCache' :
           \/ TieneEntrada(e)'
           \/ /\ e \in EnCache /\ MismaEntrada(e) /\ entradas[e].pid \notin {}
              /\ ~ (DejaDeReplicar(h) /\ Es(e, hilo[h].pid, hilo[h].pagina))
    BY <1>4
  <2> QED BY <1>0, <1>5, <1>6, <2>1, <2>2, Paso
<1> QED BY <1>1, <1>2, <1>3, <1>7 DEF Inv

(* The cache is as it was but for the count of readings.                   *)
LEMMA CacheQuieta ==
  ASSUME TypeOK, CacheAcotada, config' = config, cache' = cache, TipoCache',
         \A e \in Ids : MismaEntrada(e)
  PROVE  CacheAcotada' /\ EnCache' = EnCache
<1>1. cache \in Seq(Ids) /\ \A i \in DOMAIN cache : cache[i] \in Ids
  BY DEF TypeOK, TipoCache
<1>2. \A i \in DOMAIN cache : entradas'[cache[i]].pid = entradas[cache[i]].pid
                              /\ entradas'[cache[i]].pagina = entradas[cache[i]].pagina
  BY <1>1 DEF MismaEntrada
<1>3. \A p : {i \in DOMAIN cache : entradas'[cache[i]].pid = p} = {i \in DOMAIN cache : entradas[cache[i]].pid = p}
  BY <1>2
<1>4. EnCache' = EnCache
  BY DEF EnCache, Range
<1>5. \A p \in PIDs : Propias(p)' = Propias(p)
  BY <1>3 DEF Propias
<1>6. Len(cache') <= ENTRADAS_CACHE'
  BY DEF CacheAcotada, ENTRADAS_CACHE
<1>7. \A i, j \in DOMAIN cache :
        entradas'[cache[i]].pid = entradas'[cache[j]].pid
        /\ entradas'[cache[i]].pagina = entradas'[cache[j]].pagina => i = j
  BY <1>2 DEF CacheAcotada, Es
<1>8. \A p \in PIDs : Cardinality(Propias(p)') <= CACHE_X_PROC
  BY <1>5 DEF CacheAcotada
<1> QED BY <1>4, <1>6, <1>7, <1>8 DEF CacheAcotada, Es

(* And when nothing of it changes.                                         *)
LEMMA CacheIgual ==
  ASSUME TypeOK, CacheAcotada, config' = config, UNCHANGED laCache
  PROVE  TipoCache' /\ CacheAcotada' /\ EnCache' = EnCache /\ \A e \in Ids : MismaEntrada(e)
<1>1. cache' = cache /\ entradas' = entradas
  BY DEF laCache
<1>2. TipoCache' /\ \A e \in Ids : MismaEntrada(e)
  BY <1>1 DEF TypeOK, TipoCache, MismaEntrada
<1> QED BY <1>1, <1>2, CacheQuieta

-----------------------------------------------------------------------------
(* What each thread does with a request.                                   *)

LEMMA DeUnHilo ==
  ASSUME TypeOK, NEW h \in Hilos, NEW r \in Registro, hilo' = [hilo EXCEPT ![h] = r]
  PROVE  UnHilo(h) /\ hilo'[h] = r
  BY DEF TypeOK, TipoHilos, Registro, UnHilo

(* The record of a thread that answers, and of one that goes on.           *)
Codigos == {"OK", "FALLO", "BYTES"}
LEMMA AlContestar ==
  ASSUME TypeOK, NEW h \in Hilos, NEW codigo \in Codigos, NEW valor \in Valores,
         Contesta(h, codigo, valor)
  PROVE  /\ UnHilo(h)
         /\ hilo'[h].paso = "enviar" /\ hilo'[h].pid = hilo[h].pid
         /\ hilo'[h].pagina = hilo[h].pagina
         /\ hilo'[h].codigo = codigo /\ hilo'[h].valor = valor
<1> DEFINE r == [hilo[h] EXCEPT !.paso = "enviar", !.codigo = codigo, !.valor = valor]
<1>1. hilo \in [Hilos -> Registro]
  BY DEF TypeOK, TipoHilos, Registro
<1>2. r \in Registro
  BY <1>1 DEF Registro, Pasos, Codigos
<1>3. hilo' = [hilo EXCEPT ![h] = r]
  BY <1>1 DEF Contesta
<1> HIDE DEF r
<1>4. UnHilo(h) /\ hilo'[h] = r
  BY <1>2, <1>3, DeUnHilo
<1>5. /\ r.paso = "enviar" /\ r.pid = hilo[h].pid /\ r.pagina = hilo[h].pagina
      /\ r.codigo = codigo /\ r.valor = valor
  BY <1>1 DEF Registro, r
<1> QED BY <1>4, <1>5

LEMMA AlSeguir ==
  ASSUME TypeOK, NEW h \in Hilos, NEW paso \in Pasos, Sigue(h, paso)
  PROVE  /\ UnHilo(h)
         /\ hilo'[h].paso = paso /\ hilo'[h].pid = hilo[h].pid
         /\ hilo'[h].pagina = hilo[h].pagina
         /\ hilo'[h].codigo = hilo[h].codigo /\ hilo'[h].posicion = hilo[h].posicion
<1> DEFINE r == [hilo[h] EXCEPT !.paso = paso]
<1>1. hilo \in [Hilos -> Registro]
  BY DEF TypeOK, TipoHilos, Registro
<1>2. r \in Registro
  BY <1>1 DEF Registro
<1>3. hilo' = [hilo EXCEPT ![h] = r]
  BY <1>1 DEF Sigue
<1> HIDE DEF r
<1>4. UnHilo(h) /\ hilo'[h] = r
  BY <1>2, <1>3, DeUnHilo
<1>5. /\ r.paso = paso /\ r.pid = hilo[h].pid /\ r.pagina = hilo[h].pagina
      /\ r.codigo = hilo[h].codigo /\ r.posicion = hilo[h].posicion
  BY <1>1 DEF Registro, r
<1> QED BY <1>4, <1>5

LEMMA AlFallar ==
  ASSUME TypeOK, NEW h \in Hilos, NEW pid \in PIDs, EnviaFallo(h, pid)
  PROVE  /\ UnHilo(h)
         /\ hilo'[h] = [EnRecibir EXCEPT !.paso = "enviar", !.pid = pid, !.codigo = "FALLO"]
<1> DEFINE r == [EnRecibir EXCEPT !.paso = "enviar", !.pid = pid, !.codigo = "FALLO"]
<1>1. r \in Registro
  <2>1. 0 \in 0 .. ENTRADAS_CACHE /\ 0 \in Valores
    BY EntradasNat, ValoresAssumption DEF TypeOK
  <2> QED BY <2>1 DEF Registro, Pasos, EnRecibir
<1>2. hilo' = [hilo EXCEPT ![h] = r]
  BY DEF EnviaFallo
<1> HIDE DEF r
<1>3. UnHilo(h) /\ hilo'[h] = r
  BY <1>1, <1>2, DeUnHilo
<1> QED BY <1>3 DEF r

LEMMA AlRecibir ==
  ASSUME TypeOK, NEW h \in Hilos, hilo' = [hilo EXCEPT ![h] = EnRecibir]
  PROVE  UnHilo(h) /\ hilo'[h] = EnRecibir
<1>1. EnRecibir \in Registro
  <2>1. 0 \in 0 .. ENTRADAS_CACHE /\ 0 \in Valores
    BY EntradasNat, ValoresAssumption DEF TypeOK
  <2> QED BY <2>1 DEF Registro, Pasos, EnRecibir
<1> QED BY <1>1, DeUnHilo

LEMMA AlAceptar ==
  ASSUME TypeOK, NEW h \in Hilos, NEW pid \in PIDs,
         hilo' = [hilo EXCEPT ![h].pid = pid, ![h].paso = "enviar", ![h].codigo = "OK"]
  PROVE  /\ UnHilo(h) /\ hilo'[h].paso = "enviar" /\ hilo'[h].pid = pid
         /\ hilo'[h].codigo = "OK" /\ hilo'[h].codigo # "BYTES"
<1> DEFINE r == [hilo[h] EXCEPT !.pid = pid, !.paso = "enviar", !.codigo = "OK"]
<1>1. hilo \in [Hilos -> Registro]
  BY DEF TypeOK, TipoHilos, Registro
<1>2. r \in Registro
  BY <1>1 DEF Registro, Pasos
<1>3. hilo' = [hilo EXCEPT ![h] = r]
  BY <1>1
<1>4. r.paso = "enviar" /\ r.pid = pid /\ r.codigo = "OK"
  BY <1>1 DEF Registro
<1> HIDE DEF r
<1>5. UnHilo(h) /\ hilo'[h] = r
  BY <1>2, <1>3, DeUnHilo
<1> QED BY <1>4, <1>5

(* A page of a living process is read from the only frame it has.          *)
LEMMA LeeElMarco ==
  ASSUME Inv, NEW pid \in PIDs, NEW pagina \in Paginas, vida[pid] = "viva"
  PROVE  LET marco == getEntradaTablaDePaginasHash(tabla, pid, pagina)
         IN /\ MarcosDe(tabla, pid, pagina) # {} => marco # Fallo
            /\ marco # Fallo => \A v \in leerFrame(marco) : v \in Valores /\ Tiene(pid, pagina, v)
<1> DEFINE marco == getEntradaTablaDePaginasHash(tabla, pid, pagina)
           S == MarcosDe(tabla, pid, pagina)
<1>1. S \in SUBSET Indices /\ Fallo \notin Indices
  BY NumerosDeMemoria DEF MarcosDe
<1>2. marco = PrimeroDesde(calcularPosicion(pid, pagina), S)
  BY DEF getEntradaTablaDePaginasHash
<1> HIDE DEF S, marco
<1>3. (S # {} => marco \in S) /\ (S = {} => marco = Fallo)
  BY <1>1, <1>2, PrimeroEntre
<1>4. S = {} \/ \E i \in Indices : S = {i}
  BY DEF Inv, InvMarcos, PaginasDe, S
<1>5. ASSUME marco # Fallo, NEW v \in leerFrame(marco)
      PROVE  v \in Valores /\ Tiene(pid, pagina, v)
  <2>1. S = {marco} /\ marco \in Indices
    BY <1>3, <1>4, <1>5
  <2>2. marco < Marcos => marco \in 0 .. Marcos - 1
    BY <2>1, MarcosAssumption DEF Indices
  <2>3. v \in Valores /\ (marco < Marcos => v = memoria[marco])
    BY <1>5, <2>2 DEF leerFrame, Inv, TypeOK, TipoDatos
  <2> QED BY <2>1, <2>3 DEF Tiene, S
<1> QED BY <1>1, <1>3, <1>5 DEF S, marco

(* What is known of the thread before its step.                            *)
LEMMA DelHilo ==
  ASSUME Inv, NEW h \in Hilos
  PROVE  /\ TypeOK /\ CacheAcotada /\ HiloDe(h) /\ ManoDe(h) /\ hilo[h] \in Registro
         /\ config' = config /\ UNCHANGED laCache =>
              TipoCache' /\ CacheAcotada' /\ EnCache' = EnCache /\ \A e \in Ids : MismaEntrada(e)
<1>1. TypeOK /\ CacheAcotada /\ HiloDe(h) /\ ManoDe(h) /\ hilo[h] \in Registro
  BY DEF Inv, InvHilos, InvCache, InvMano, TypeOK, TipoHilos, Registro
<1> QED BY <1>1, CacheIgual

LEMMA MirarCache ==
  ASSUME Inv, NEW h \in Hilos, mirarCache(h)
  PROVE  Inv'
<1>1. /\ hilo[h].paso = "mirarCache" /\ UNCHANGED <<datos, laCache, vida, pedidos, escrito>>
      /\ config' = config
      /\ \E paso \in {"leerDeCache", "leerMemoria"} : Sigue(h, paso)
  BY DEF mirarCache, clientes, datos
<1>2. PICK paso \in {"leerDeCache", "leerMemoria"} : Sigue(h, paso)
  BY <1>1
<1>3. UnHilo(h)
  BY <1>2, AlSeguir, DelHilo DEF Pasos
<1>4. /\ hilo'[h].paso = paso /\ hilo'[h].pid = hilo[h].pid /\ hilo'[h].pagina = hilo[h].pagina
      /\ hilo'[h].codigo = hilo[h].codigo
  BY <1>2, AlSeguir, DelHilo DEF Pasos
<1>5. HiloDe(h)' /\ MismoProceso(h) /\ hilo'[h].codigo # "BYTES"
  BY <1>1, <1>4, DelHilo DEF HiloDe, Activo, MismoProceso, ConPagina, ConCache, DeBaja
<1>6. ManoDe(h)' /\ LecturaDe(h)' /\ ~ DejaDeReplicar(h) /\ hilo[h].paso \notin DeBaja
  BY <1>1, <1>4, <1>5 DEF ManoDe, LecturaDe, DejaDeReplicar, Replicando, DeBaja
<1>7. pedidos' \in 0 .. MaxPedidos
  BY <1>1 DEF Inv, TypeOK, TipoClientes
<1> QED BY <1>1, <1>3, <1>4, <1>5, <1>6, <1>7, DelHilo, PasoTranquilo

LEMMA LeerDeCache ==
  ASSUME Inv, NEW h \in Hilos, leerDeCache(h)
  PROVE  Inv'
<1>0. TypeOK /\ hilo[h] \in Registro /\ HiloDe(h)
  BY DelHilo
<1>1. /\ hilo[h].paso = "leerDeCache" /\ UNCHANGED <<datos, vida, pedidos, escrito>>
      /\ config' = config /\ cache' = cache /\ entradas' = Envejecidas
  BY DEF leerDeCache, clientes, datos
<1>2. TipoCache' /\ \A e \in Ids : MismaEntrada(e)
  <2>1. entradas' \in [Ids -> EntradasDeCache]
    BY <1>0, <1>1, EnvejecerEsLeer DEF Envejecidas
  <2>2. \A e \in Ids : MismaEntrada(e)
    BY <1>0, <1>1, EnvejecerEsLeer DEF MismaEntrada
  <2> QED BY <1>0, <1>1, <2>1, <2>2 DEF TypeOK, TipoCache, EntradasDeCache
<1>3. CacheAcotada' /\ EnCache' = EnCache
  BY <1>1, <1>2, DelHilo, CacheQuieta
<1>4. pedidos' \in 0 .. MaxPedidos
  BY <1>0, <1>1 DEF TypeOK, TipoClientes
<1>5. CASE estaEnCache(hilo[h].pid, hilo[h].pagina)
  <2> DEFINE e == getEntradaCache(hilo[h].pid, hilo[h].pagina)
             r == [hilo[h] EXCEPT !.paso = "copiar", !.entrada = e]
  <2>1. e \in EnCache /\ e \in Ids /\ Es(e, hilo[h].pid, hilo[h].pagina)
    BY <1>0, <1>5, EntradaHallada
  <2>2. hilo' = [hilo EXCEPT ![h] = r]
    BY <1>0, <1>5 DEF leerDeCache, TypeOK, TipoHilos
  <2> HIDE DEF e
  <2>3. r \in Registro
    BY <1>0, <2>1 DEF Registro, Pasos
  <2> HIDE DEF r
  <2>4. UnHilo(h) /\ hilo'[h] = r
    BY <1>0, <2>2, <2>3, DeUnHilo
  <2>5. /\ hilo'[h].paso = "copiar" /\ hilo'[h].pid = hilo[h].pid /\ hilo'[h].pagina = hilo[h].pagina
        /\ hilo'[h].codigo = hilo[h].codigo /\ hilo'[h].entrada = e
    BY <1>0, <2>4 DEF Registro, r
  <2>6. HiloDe(h)' /\ MismoProceso(h) /\ hilo'[h].codigo # "BYTES"
    BY <1>0, <1>1, <2>1, <2>5 DEF HiloDe, Activo, MismoProceso, ConPagina, ConCache, DeBaja
  <2>7. ManoDe(h)' /\ ~ DejaDeReplicar(h) /\ hilo[h].paso \notin DeBaja
    BY <1>1, <2>5 DEF ManoDe, DejaDeReplicar, Replicando, DeBaja
  <2>8. LecturaDe(h)'
    <3>1. EntradaDe(e)
      BY <2>1 DEF Inv, InvCache
    <3>2. ~ Replica(hilo[h].pid, hilo[h].pagina)
      <4> SUFFICES ASSUME NEW g \in Hilos, hilo[g].pid = hilo[h].pid,
                          hilo[g].paso \in {"replicar", "actualizar"}
                   PROVE  FALSE
        BY DEF Replica
      <4> QED BY <1>1 DEF Inv, InvHilos, UnoPorProceso, Activo
    <3>3. Tiene(hilo[h].pid, hilo[h].pagina, entradas[e].contenido)
      BY <2>1, <3>1, <3>2 DEF EntradaDe, Es
    <3>4. Tiene(hilo[h].pid, hilo[h].pagina, entradas[hilo[h].entrada].contenido)'
      BY <1>1, <1>2, <2>1, <2>5, <3>3 DEF Tiene, datos, MismaEntrada
    <3>5. Es(hilo[h].entrada, hilo[h].pid, hilo[h].pagina)'
      BY <1>2, <2>1, <2>5 DEF Es, MismaEntrada
    <3> QED BY <2>6, <3>4, <3>5 DEF LecturaDe
  <2> QED BY <1>1, <1>2, <1>3, <1>4, <2>4, <2>5, <2>6, <2>7, <2>8, PasoTranquilo
<1>6. CASE ~ estaEnCache(hilo[h].pid, hilo[h].pagina)
  <2>1. Contesta(h, "FALLO", 0)
    BY <1>6 DEF leerDeCache
  <2>2. UnHilo(h)
    BY <1>0, <2>1, AlContestar, ValoresAssumption DEF Codigos
  <2>3. /\ hilo'[h].paso = "enviar" /\ hilo'[h].pid = hilo[h].pid /\ hilo'[h].pagina = hilo[h].pagina
        /\ hilo'[h].codigo = "FALLO"
    BY <1>0, <2>1, AlContestar, ValoresAssumption DEF Codigos
  <2>4. HiloDe(h)' /\ MismoProceso(h)
    BY <1>0, <1>1, <2>3 DEF HiloDe, Activo, MismoProceso, ConPagina, ConCache, DeBaja
  <2>5. ManoDe(h)' /\ LecturaDe(h)' /\ ~ DejaDeReplicar(h) /\ hilo[h].paso \notin DeBaja
    BY <1>1, <2>3 DEF ManoDe, LecturaDe, DejaDeReplicar, Replicando, DeBaja
  <2> QED BY <1>1, <1>2, <1>3, <1>4, <2>2, <2>3, <2>4, <2>5, PasoTranquilo
<1> QED BY <1>5, <1>6

LEMMA CopiarDeCache ==
  ASSUME Inv, NEW h \in Hilos, copiarDeCache(h)
  PROVE  Inv'
<1> DEFINE d == hilo[h].entrada
           valor == entradas[d].contenido
<1>0. TypeOK /\ hilo[h] \in Registro /\ HiloDe(h) /\ entradas \in [Ids -> EntradasDeCache]
  BY DelHilo DEF TypeOK, TipoCache, EntradasDeCache
<1>1. /\ hilo[h].paso = "copiar" /\ UNCHANGED <<datos, vida, pedidos, escrito>>
      /\ config' = config /\ cache' = cache /\ entradas' = [entradas EXCEPT ![d].lecturas = 0]
      /\ Contesta(h, "BYTES", valor)
  BY DEF copiarDeCache, clientes, datos
<1>2. d \in Ids /\ valor \in Valores
  BY <1>0, <1>1 DEF HiloDe, EntradasDeCache
<1>3. entradas' \in [Ids -> EntradasDeCache] /\ \A e \in Ids : MismaEntrada(e)
  <2> HIDE DEF d, valor
  <2> QED BY <1>0, <1>1, <1>2 DEF EntradasDeCache, MismaEntrada
<1>4. TipoCache' /\ CacheAcotada' /\ EnCache' = EnCache
  <2>1. TipoCache'
    BY <1>0, <1>1, <1>3 DEF TypeOK, TipoCache, EntradasDeCache
  <2> QED BY <1>1, <1>3, <2>1, DelHilo, CacheQuieta
<1> HIDE DEF d, valor
<1>5. UnHilo(h)
  BY <1>0, <1>1, <1>2, AlContestar DEF Codigos
<1>6. /\ hilo'[h].paso = "enviar" /\ hilo'[h].pid = hilo[h].pid /\ hilo'[h].pagina = hilo[h].pagina
      /\ hilo'[h].codigo = "BYTES" /\ hilo'[h].valor = valor
  BY <1>0, <1>1, <1>2, AlContestar DEF Codigos
<1>7. HiloDe(h)' /\ MismoProceso(h)
  BY <1>0, <1>1, <1>6 DEF HiloDe, Activo, MismoProceso, ConPagina, ConCache, DeBaja
<1>8. ManoDe(h)' /\ ~ DejaDeReplicar(h) /\ hilo[h].paso \notin DeBaja
  BY <1>1, <1>6 DEF ManoDe, DejaDeReplicar, Replicando, DeBaja
<1>9. HayLugarParaTodos => LecturaDe(h)'
  <2> SUFFICES ASSUME HayLugarParaTodos
               PROVE  LecturaDe(h)'
    OBVIOUS
  <2>1. Tiene(hilo[h].pid, hilo[h].pagina, valor)
    BY <1>1 DEF Inv, InvLecturas, LecturaDe, d, valor
  <2> QED BY <1>1, <1>6, <2>1 DEF LecturaDe, Tiene, datos
<1>10. pedidos' \in 0 .. MaxPedidos
  BY <1>0, <1>1 DEF TypeOK, TipoClientes
<1> QED BY <1>1, <1>3, <1>4, <1>5, <1>6, <1>7, <1>8, <1>9, <1>10, PasoTranquilo

(* An answer of failure, or of what is done, from a step that is no longer *)
(* to replicate a page of the cache.                                       *)
LEMMA ContestarTranquilo ==
  ASSUME Inv, NEW h \in Hilos, NEW codigo \in Codigos, NEW valor \in Valores,
         Contesta(h, codigo, valor), UNCHANGED <<datos, laCache, clientes, escrito>>,
         hilo[h].paso \in {"leerMemoria", "replicar"},
         hilo[h].paso = "replicar" => ~ estaEnCache(hilo[h].pid, hilo[h].pagina),
         codigo = "BYTES" => Tiene(hilo[h].pid, hilo[h].pagina, valor)
  PROVE  Inv'
<1>0. TypeOK /\ hilo[h] \in Registro /\ HiloDe(h)
  BY DelHilo
<1>1. UNCHANGED <<datos, vida, pedidos, escrito>> /\ config' = config
  BY DEF clientes, datos
<1>2. UnHilo(h)
  BY <1>0, AlContestar
<1>3. /\ hilo'[h].paso = "enviar" /\ hilo'[h].pid = hilo[h].pid /\ hilo'[h].pagina = hilo[h].pagina
      /\ hilo'[h].codigo = codigo /\ hilo'[h].valor = valor
  BY <1>0, AlContestar
<1>4. HiloDe(h)' /\ MismoProceso(h)
  BY <1>0, <1>1, <1>3 DEF HiloDe, Activo, MismoProceso, ConPagina, ConCache, DeBaja
<1>5. ManoDe(h)' /\ hilo[h].paso \notin DeBaja
  BY <1>3 DEF ManoDe, DeBaja
<1>6. LecturaDe(h)'
  BY <1>1, <1>3 DEF LecturaDe, Tiene, datos
<1>7. DejaDeReplicar(h) => \A e \in EnCache : ~ Es(e, hilo[h].pid, hilo[h].pagina)
  BY DEF DejaDeReplicar, Replicando, estaEnCache
<1>8. pedidos' \in 0 .. MaxPedidos
  BY <1>0, <1>1 DEF TypeOK, TipoClientes
<1> QED BY <1>1, <1>2, <1>3, <1>4, <1>5, <1>6, <1>7, <1>8, DelHilo, PasoTranquilo

LEMMA LeerDeMemoria ==
  ASSUME Inv, NEW h \in Hilos, leerDeMemoria(h)
  PROVE  Inv'
<1> DEFINE marco == getEntradaTablaDePaginasHash(tabla, hilo[h].pid, hilo[h].pagina)
<1>0. TypeOK /\ hilo[h] \in Registro /\ HiloDe(h)
  BY DelHilo
<1>1. /\ hilo[h].paso = "leerMemoria" /\ UNCHANGED <<datos, laCache, clientes, escrito>>
      /\ UNCHANGED <<datos, vida, pedidos, escrito>> /\ config' = config
      /\ hilo[h].pid \in PIDs /\ hilo[h].pagina \in Paginas /\ vida[hilo[h].pid] = "viva"
  BY <1>0 DEF leerDeMemoria, clientes, datos, HiloDe, Activo, ConPagina
<1>2. marco # Fallo =>
        \A v \in leerFrame(marco) : v \in Valores /\ Tiene(hilo[h].pid, hilo[h].pagina, v)
  BY <1>1, LeeElMarco
<1>3. \/ marco = Fallo /\ Contesta(h, "FALLO", 0)
      \/ marco # Fallo /\ \E valor \in leerFrame(marco) :
           IF CACHE_X_PROC > 0
           THEN hilo' = [hilo EXCEPT ![h].paso = "cachear", ![h].valor = valor]
           ELSE Contesta(h, "BYTES", valor)
  BY DEF leerDeMemoria
<1> HIDE DEF marco
<1>4. CASE marco = Fallo /\ Contesta(h, "FALLO", 0)
  BY <1>1, <1>4, ContestarTranquilo, ValoresAssumption DEF Codigos
<1>5. CASE marco # Fallo /\ \E valor \in leerFrame(marco) :
             IF CACHE_X_PROC > 0
             THEN hilo' = [hilo EXCEPT ![h].paso = "cachear", ![h].valor = valor]
             ELSE Contesta(h, "BYTES", valor)
  <2>1. PICK valor \in leerFrame(marco) :
               IF CACHE_X_PROC > 0
               THEN hilo' = [hilo EXCEPT ![h].paso = "cachear", ![h].valor = valor]
               ELSE Contesta(h, "BYTES", valor)
    BY <1>5
  <2>2. valor \in Valores /\ Tiene(hilo[h].pid, hilo[h].pagina, valor)
    BY <1>2, <1>5
  <2>3. CASE ~ (CACHE_X_PROC > 0)
    BY <1>1, <2>1, <2>2, <2>3, ContestarTranquilo DEF Codigos
  <2>4. CASE CACHE_X_PROC > 0
    <3> DEFINE r == [hilo[h] EXCEPT !.paso = "cachear", !.valor = valor]
    <3>1. r \in Registro
      BY <1>0, <2>2 DEF Registro, Pasos
    <3>2. hilo' = [hilo EXCEPT ![h] = r]
      BY <1>0, <2>1, <2>4 DEF TypeOK, TipoHilos
    <3> HIDE DEF r
    <3>3. UnHilo(h) /\ hilo'[h] = r
      BY <1>0, <3>1, <3>2, DeUnHilo
    <3>4. /\ hilo'[h].paso = "cachear" /\ hilo'[h].pid = hilo[h].pid /\ hilo'[h].pagina = hilo[h].pagina
          /\ hilo'[h].codigo = hilo[h].codigo /\ hilo'[h].valor = valor
      BY <1>0, <3>3 DEF Registro, r
    <3>5. HiloDe(h)' /\ MismoProceso(h) /\ hilo'[h].codigo # "BYTES"
      BY <1>0, <1>1, <2>4, <3>4 DEF HiloDe, Activo, MismoProceso, ConPagina, ConCache, DeBaja
    <3>6. ManoDe(h)' /\ LecturaDe(h)' /\ ~ DejaDeReplicar(h) /\ hilo[h].paso \notin DeBaja
      BY <1>1, <2>2, <3>4, <3>5
      DEF ManoDe, LecturaDe, Tiene, datos, DejaDeReplicar, Replicando, DeBaja
    <3>7. pedidos' \in 0 .. MaxPedidos
      BY <1>0, <1>1 DEF TypeOK, TipoClientes
    <3> QED BY <1>1, <3>3, <3>4, <3>5, <3>6, <3>7, DelHilo, PasoTranquilo
  <2> QED BY <2>3, <2>4
<1> QED BY <1>3, <1>4, <1>5

LEMMA ReplicarEnCache ==
  ASSUME Inv, NEW h \in Hilos, replicarEnCache(h)
  PROVE  Inv'
<1> DEFINE marco == getEntradaTablaDePaginasHash(tabla, hilo[h].pid, hilo[h].pagina)
<1>0. TypeOK /\ hilo[h] \in Registro /\ HiloDe(h) /\ ManoDe(h)
  BY DelHilo
<1>1. /\ hilo[h].paso = "replicar" /\ UNCHANGED <<datos, laCache, clientes, escrito>>
      /\ UNCHANGED <<datos, vida, pedidos, escrito>> /\ config' = config
      /\ hilo[h].pid \in PIDs /\ hilo[h].pagina \in Paginas /\ vida[hilo[h].pid] = "viva"
  BY <1>0 DEF replicarEnCache, clientes, datos, HiloDe, Activo, ConPagina
<1>2. \A v \in leerFrame(marco) : v \in Valores /\ Tiene(hilo[h].pid, hilo[h].pagina, v)
  BY <1>0, <1>1, LeeElMarco DEF ManoDe
<1>3. \/ ~ estaEnCache(hilo[h].pid, hilo[h].pagina) /\ Contesta(h, "OK", 0)
      \/ /\ estaEnCache(hilo[h].pid, hilo[h].pagina)
         /\ \E valor \in leerFrame(marco) :
              hilo' = [hilo EXCEPT ![h].paso = "actualizar", ![h].valor = valor]
  BY DEF replicarEnCache
<1> HIDE DEF marco
<1>4. CASE ~ estaEnCache(hilo[h].pid, hilo[h].pagina) /\ Contesta(h, "OK", 0)
  BY <1>1, <1>4, ContestarTranquilo, ValoresAssumption DEF Codigos
<1>5. CASE /\ estaEnCache(hilo[h].pid, hilo[h].pagina)
           /\ \E valor \in leerFrame(marco) :
                hilo' = [hilo EXCEPT ![h].paso = "actualizar", ![h].valor = valor]
  <2>1. PICK valor \in leerFrame(marco) :
               hilo' = [hilo EXCEPT ![h].paso = "actualizar", ![h].valor = valor]
    BY <1>5
  <2>2. valor \in Valores /\ Tiene(hilo[h].pid, hilo[h].pagina, valor)
    BY <1>2
  <2>3. CACHE_X_PROC > 0
    <3>1. PICK e \in EnCache : Es(e, hilo[h].pid, hilo[h].pagina)
      BY <1>5 DEF estaEnCache
    <3> QED BY <1>0, <1>1, <3>1, CacheConLugar DEF Inv, InvCache, Es
  <2> DEFINE r == [hilo[h] EXCEPT !.paso = "actualizar", !.valor = valor]
  <2>4. r \in Registro
    BY <1>0, <2>2 DEF Registro, Pasos
  <2>5. hilo' = [hilo EXCEPT ![h] = r]
    BY <1>0, <2>1 DEF TypeOK, TipoHilos
  <2> HIDE DEF r
  <2>6. UnHilo(h) /\ hilo'[h] = r
    BY <1>0, <2>4, <2>5, DeUnHilo
  <2>7. /\ hilo'[h].paso = "actualizar" /\ hilo'[h].pid = hilo[h].pid /\ hilo'[h].pagina = hilo[h].pagina
        /\ hilo'[h].codigo = hilo[h].codigo /\ hilo'[h].valor = valor
    BY <1>0, <2>6 DEF Registro, r
  <2>8. HiloDe(h)' /\ MismoProceso(h) /\ hilo'[h].codigo # "BYTES"
    BY <1>0, <1>1, <2>3, <2>7 DEF HiloDe, Activo, MismoProceso, ConPagina, ConCache, DeBaja
  <2>9. ManoDe(h)' /\ LecturaDe(h)' /\ ~ DejaDeReplicar(h) /\ hilo[h].paso \notin DeBaja
    BY <1>1, <2>2, <2>7, <2>8
    DEF ManoDe, LecturaDe, Tiene, datos, DejaDeReplicar, Replicando, DeBaja
  <2>10. pedidos' \in 0 .. MaxPedidos
    BY <1>0, <1>1 DEF TypeOK, TipoClientes
  <2> QED BY <1>1, <2>6, <2>7, <2>8, <2>9, <2>10, DelHilo, PasoTranquilo
<1> QED BY <1>3, <1>4, <1>5

LEMMA Enviar ==
  ASSUME Inv, NEW h \in Hilos, enviar(h)
  PROVE  Inv'
<1>0. TypeOK /\ HiloDe(h)
  BY DelHilo
<1>1. /\ hilo[h].paso = "enviar" /\ UNCHANGED <<datos, laCache, vida, pedidos, escrito>>
      /\ config' = config
  BY DEF enviar, clientes, datos
<1>2. UnHilo(h) /\ hilo'[h] = EnRecibir
  BY <1>0, AlRecibir DEF enviar
<1>3. HiloDe(h)' /\ MismoProceso(h)
  BY <1>2 DEF HiloDe, Activo, MismoProceso, ConPagina, ConCache, DeBaja, EnRecibir
<1>4. ManoDe(h)' /\ LecturaDe(h)' /\ ~ DejaDeReplicar(h) /\ hilo[h].paso \notin DeBaja
      /\ hilo'[h].paso = "recibir"
  BY <1>1, <1>2 DEF ManoDe, LecturaDe, DejaDeReplicar, Replicando, DeBaja, EnRecibir
<1>5. pedidos' \in 0 .. MaxPedidos
  BY <1>0, <1>1 DEF TypeOK, TipoClientes
<1> QED BY <1>1, <1>2, <1>3, <1>4, <1>5, DelHilo, PasoTranquilo

(* A thread that goes on with its process: who was served still is.        *)
LEMMA AtendidosSiguen ==
  ASSUME NEW h \in Hilos, UnHilo(h), Activo(h) => Activo(h)' /\ hilo'[h].pid = hilo[h].pid
  PROVE  \A p : Atendido(p) => Atendido(p)'
<1> SUFFICES ASSUME NEW p, Atendido(p)
             PROVE  Atendido(p)'
  OBVIOUS
<1>1. PICK g \in Hilos : Activo(g) /\ hilo[g].pid = p
  BY DEF Atendido, Activo
<1>2. Activo(g)' /\ hilo'[g].pid = p
  BY <1>1 DEF UnHilo, Activo
<1> QED BY <1>2 DEF Atendido, Activo

(* The bytes in hand go to the cache under its mutex, and then the answer. *)
LEMMA EscribirYContestar ==
  ASSUME Inv, NEW h \in Hilos, hilo[h].paso \in {"cachear", "actualizar"},
         escribirCache(hilo[h].pid, hilo[h].pagina, hilo[h].valor),
         NEW codigo \in Codigos, NEW valor \in Valores, Contesta(h, codigo, valor),
         codigo = "BYTES" => valor = hilo[h].valor,
         UNCHANGED <<datos, clientes, escrito>>
  PROVE  Inv'
<1> DEFINE pid == hilo[h].pid
           pagina == hilo[h].pagina
<1>0. TypeOK /\ CacheAcotada /\ hilo[h] \in Registro /\ HiloDe(h) /\ ManoDe(h)
  BY DelHilo
<1>1. /\ UNCHANGED <<datos, vida, pedidos, escrito>>
      /\ config' = config /\ tabla' = tabla /\ ultimaPagina' = ultimaPagina
      /\ memoria' = memoria /\ vida' = vida /\ escrito' = escrito /\ pedidos' = pedidos
  BY DEF clientes, datos
<1>2. /\ Activo(h) /\ pid \in PIDs /\ pagina \in Paginas /\ hilo[h].valor \in Valores
      /\ vida[pid] = "viva" /\ CACHE_X_PROC > 0 /\ hilo[h].codigo # "BYTES"
  BY <1>0 DEF HiloDe, Activo, ConPagina, ConCache, Registro
<1>3. Tiene(pid, pagina, hilo[h].valor)
  BY <1>0 DEF ManoDe
<1>4. /\ UnHilo(h)
      /\ hilo'[h].paso = "enviar" /\ hilo'[h].pid = pid /\ hilo'[h].pagina = pagina
      /\ hilo'[h].codigo = codigo /\ hilo'[h].valor = valor
  BY <1>0, AlContestar
<1>5. HiloDe(h)' /\ MismoProceso(h) /\ Activo(h)'
  BY <1>1, <1>2, <1>4 DEF HiloDe, Activo, MismoProceso, ConPagina, ConCache, DeBaja
<1>6. \A e \in EnCache : EntradaDe(e) /\ entradas[e].pid \in PIDs
  BY DEF Inv, InvCache, EntradaDe
<1> HIDE DEF pid, pagina
<1>7. /\ TipoCache' /\ CacheAcotada'
      /\ \A e \in EnCache' : \/ EsAhora(e, pid, pagina, hilo[h].valor)
                             \/ e \in EnCache /\ MismaEntrada(e) /\ ~ Es(e, pid, pagina)
      /\ HayLugarParaTodos =>
           \A g \in Hilos : hilo[g].entrada \in Ids /\ entradas[hilo[g].entrada].pid # pid =>
             MismaEntrada(hilo[g].entrada)
  <2>1. escribirCache(pid, pagina, hilo[h].valor)
    BY DEF pid, pagina
  <2> QED BY <1>0, <1>1, <1>2, <1>6, <2>1, EscribirCache
<1>8. TipoHilos' /\ InvHilos'
  BY <1>0, <1>1, <1>4, <1>5, HilosSiguen DEF Inv
<1>9. TypeOK'
  BY <1>0, <1>1, <1>7, <1>8 DEF TypeOK, TipoDatos, TipoClientes
<1>10. InvMarcos'
  <2>1. \A p : Atendido(p) => Atendido(p)'
    BY <1>4, <1>5, AtendidosSiguen DEF pid
  <2> QED BY <1>1, <1>4, <2>1, MarcosSiguen DEF Inv
<1>11. ASSUME NEW g \in Hilos, g # h, Activo(g)
       PROVE  hilo[g].pid # pid
  BY <1>2, <1>11 DEF Inv, InvHilos, UnoPorProceso, pid
<1>12. ASSUME NEW e \in EnCache', EsAhora(e, pid, pagina, hilo[h].valor)
       PROVE  TieneEntrada(e)'
  BY <1>1, <1>2, <1>3, <1>12 DEF EsAhora, TieneEntrada, Tiene
<1>13. \A e \in EnCache' :
         \/ TieneEntrada(e)'
         \/ /\ e \in EnCache /\ MismaEntrada(e) /\ entradas[e].pid \notin {}
            /\ ~ (DejaDeReplicar(h) /\ Es(e, hilo[h].pid, hilo[h].pagina))
  BY <1>7, <1>12 DEF pid, pagina
<1>14. hilo'[Kernel].paso = "liberarTabla" => \A e \in EnCache' : entradas'[e].pid # hilo'[Kernel].pid
  <2> SUFFICES ASSUME hilo'[Kernel].paso = "liberarTabla", NEW e \in EnCache'
               PROVE  entradas'[e].pid # hilo'[Kernel].pid
    OBVIOUS
  <2>1. Kernel \in Hilos /\ Kernel # h /\ hilo'[Kernel] = hilo[Kernel]
    BY <1>4 DEF Hilos, UnHilo
  <2>2. CASE EsAhora(e, pid, pagina, hilo[h].valor)
    BY <1>11, <2>1, <2>2 DEF EsAhora, Activo
  <2>3. CASE e \in EnCache /\ MismaEntrada(e)
    BY <2>1, <2>3 DEF MismaEntrada, Inv, InvCache
  <2> QED BY <1>7, <2>2, <2>3
<1>15. HayLugarParaTodos =>
         \A g \in Hilos : g # h /\ hilo[g].paso = "copiar" => MismaEntrada(hilo[g].entrada)
  <2> SUFFICES ASSUME HayLugarParaTodos, NEW g \in Hilos, g # h, hilo[g].paso = "copiar"
               PROVE  MismaEntrada(hilo[g].entrada)
    OBVIOUS
  <2>1. LecturaDe(g) /\ HiloDe(g)
    BY DEF Inv, InvLecturas, InvHilos
  <2>2. hilo[g].entrada \in Ids /\ entradas[hilo[g].entrada].pid = hilo[g].pid
    BY <2>1 DEF LecturaDe, Es, HiloDe
  <2> QED BY <1>7, <1>11, <2>2 DEF Activo
<1>16. ManoDe(h)' /\ LecturaDe(h)'
  BY <1>1, <1>3, <1>4 DEF ManoDe, LecturaDe, Tiene
<1>17. InvCache' /\ InvMano' /\ InvLecturas'
  <2>1. {} \in SUBSET PIDs
    OBVIOUS
  <2> QED BY <1>1, <1>4, <1>7, <1>13, <1>14, <1>15, <1>16, <2>1, Paso
<1> QED BY <1>8, <1>9, <1>10, <1>17 DEF Inv

LEMMA Cachear ==
  ASSUME Inv, NEW h \in Hilos, cachear(h)
  PROVE  Inv'
<1>1. hilo[h].valor \in Valores
  BY DelHilo DEF Registro
<1> DEFINE v == hilo[h].valor
<1>2. /\ hilo[h].paso \in {"cachear", "actualizar"}
      /\ escribirCache(hilo[h].pid, hilo[h].pagina, hilo[h].valor)
      /\ Contesta(h, "BYTES", v) /\ UNCHANGED <<datos, clientes, escrito>>
  BY DEF cachear
<1>3. v \in Valores /\ v = hilo[h].valor /\ "BYTES" \in Codigos
  BY <1>1 DEF Codigos
<1> HIDE DEF v
<1> QED BY <1>2, <1>3, EscribirYContestar

LEMMA Actualizar ==
  ASSUME Inv, NEW h \in Hilos, actualizar(h)
  PROVE  Inv'
<1>1. /\ hilo[h].paso \in {"cachear", "actualizar"}
      /\ escribirCache(hilo[h].pid, hilo[h].pagina, hilo[h].valor)
      /\ Contesta(h, "OK", 0) /\ UNCHANGED <<datos, clientes, escrito>>
  BY DEF actualizar
<1>2. 0 \in Valores /\ "OK" \in Codigos
  BY ValoresAssumption DEF Codigos
<1> QED BY <1>1, <1>2, EscribirYContestar

(* A request begins: the thread was waiting for one, and nobody serves pid. *)
LEMMA AlLlegar ==
  ASSUME Inv, NEW h \in Hilos, NEW pid \in PIDs, Recibe(h, pid)
  PROVE  /\ hilo[h] = EnRecibir /\ ~ Activo(h) /\ ~ Atendido(pid) /\ ~ DejaDeReplicar(h)
         /\ hilo[h].paso \notin DeBaja /\ pedidos' \in 0 .. MaxPedidos
<1>1. hilo[h].paso = "recibir" /\ HiloDe(h)
  BY DelHilo DEF Recibe
<1>2. pedidos' \in 0 .. MaxPedidos
  <2>1. pedidos \in 0 .. MaxPedidos /\ pedidos < MaxPedidos /\ pedidos' = pedidos + 1
    BY DEF Recibe, Inv, TypeOK, TipoClientes
  <2> QED BY <2>1, CotasAssumption
<1>3. hilo[h] = EnRecibir
  BY <1>1 DEF HiloDe
<1>4. ~ Activo(h) /\ ~ Atendido(pid) /\ ~ DejaDeReplicar(h) /\ hilo[h].paso \notin DeBaja
  BY <1>1 DEF Activo, Recibe, DejaDeReplicar, Replicando, DeBaja
<1> QED BY <1>2, <1>3, <1>4

LEMMA FallarTranquilo ==
  ASSUME Inv, NEW h \in Hilos, NEW pid \in PIDs, Recibe(h, pid), EnviaFallo(h, pid),
         vida[pid] = "viva", UNCHANGED <<datos, laCache, vida, escrito>>
  PROVE  Inv'
<1>1. UNCHANGED <<datos, vida, escrito>> /\ config' = config /\ vida' = vida
  BY DEF datos
<1>2. /\ UnHilo(h)
      /\ hilo'[h] = [EnRecibir EXCEPT !.paso = "enviar", !.pid = pid, !.codigo = "FALLO"]
  BY AlFallar, DelHilo
<1>3. hilo'[h].paso = "enviar" /\ hilo'[h].pid = pid /\ hilo'[h].codigo = "FALLO"
  BY <1>2 DEF EnRecibir
<1>4. HiloDe(h)' /\ MismoProceso(h)
  BY <1>1, <1>3, AlLlegar DEF HiloDe, Activo, MismoProceso, ConPagina, ConCache, DeBaja
<1>5. ManoDe(h)' /\ LecturaDe(h)'
  BY <1>3 DEF ManoDe, LecturaDe
<1> QED BY <1>1, <1>2, <1>3, <1>4, <1>5, AlLlegar, DelHilo, PasoTranquilo

LEMMA SolicitarBytes ==
  ASSUME Inv, NEW h \in Hilos, NEW pid \in PIDs, NEW pagina \in Paginas, NEW excede \in BOOLEAN,
         solicitarBytesDePagina(h, pid, pagina, excede)
  PROVE  Inv'
<1>1. /\ Recibe(h, pid) /\ vida[pid] = "viva" /\ UNCHANGED <<datos, laCache, vida, escrito>>
      /\ UNCHANGED <<datos, vida, escrito>> /\ config' = config /\ vida' = vida
  BY DEF solicitarBytesDePagina, datos
<1>2. CASE excede
  <2>1. EnviaFallo(h, pid)
    BY <1>2 DEF solicitarBytesDePagina
  <2> QED BY <1>1, <2>1, FallarTranquilo
<1>3. CASE ~ excede
  <2> DEFINE paso == IF CACHE_X_PROC > 0 THEN "mirarCache" ELSE "leerMemoria"
             r == [EnRecibir EXCEPT !.paso = paso, !.pid = pid, !.pagina = pagina]
  <2>1. paso \in {"mirarCache", "leerMemoria"} /\ (paso = "mirarCache" => CACHE_X_PROC > 0)
    OBVIOUS
  <2>2. hilo' = [hilo EXCEPT ![h].pid = pid, ![h].pagina = pagina, ![h].paso = paso]
    BY <1>3 DEF solicitarBytesDePagina
  <2> HIDE DEF paso
  <2>3. r \in Registro
    <3>1. 0 \in 0 .. ENTRADAS_CACHE /\ 0 \in Valores
      BY EntradasNat, ValoresAssumption DEF Inv, TypeOK
    <3> QED BY <2>1, <3>1 DEF Registro, Pasos, EnRecibir
  <2>4. hilo' = [hilo EXCEPT ![h] = r]
    <3>1. hilo[h] = EnRecibir
      BY <1>1, AlLlegar
    <3> QED BY <2>2, <3>1 DEF EnRecibir
  <2>5. /\ r.paso = paso /\ r.pid = pid /\ r.pagina = pagina /\ r.codigo = "-"
    BY DEF EnRecibir
  <2> HIDE DEF r
  <2>6. UnHilo(h) /\ hilo'[h] = r
    BY <2>3, <2>4, DeUnHilo DEF Inv
  <2>7. HiloDe(h)' /\ MismoProceso(h)
    BY <1>1, <2>1, <2>5, <2>6, AlLlegar DEF HiloDe, Activo, MismoProceso, ConPagina, ConCache, DeBaja
  <2>8. ManoDe(h)' /\ LecturaDe(h)' /\ hilo'[h].paso # "liberarTabla"
    BY <2>1, <2>5, <2>6 DEF ManoDe, LecturaDe
  <2> QED BY <1>1, <2>6, <2>7, <2>8, AlLlegar, DelHilo, PasoTranquilo
<1> QED BY <1>2, <1>3

(* A write: the frame of the page, and of no other, and the page has still *)
(* to be replicated in the cache.                                          *)
LEMMA AlmacenarBytes ==
  ASSUME Inv, NEW h \in Hilos, NEW pid \in PIDs, NEW pagina \in Paginas, NEW valor \in Valores,
         NEW excede \in BOOLEAN, almacenarBytesEnPagina(h, pid, pagina, valor, excede)
  PROVE  Inv'
<1> DEFINE marco == getFrameByPIDPagina(tabla, pid, pagina)
           S == MarcosDe(tabla, pid, pagina)
<1>1. /\ Recibe(h, pid) /\ vida[pid] = "viva"
      /\ UNCHANGED <<config, tabla, ultimaPagina, laCache, vida>>
      /\ config' = config /\ tabla' = tabla /\ ultimaPagina' = ultimaPagina /\ vida' = vida
      /\ cache' = cache /\ entradas' = entradas
  BY DEF almacenarBytesEnPagina, laCache
<1>2. CASE marco = Fallo \/ excede
  <2>1. EnviaFallo(h, pid) /\ UNCHANGED <<memoria, escrito>>
    BY <1>2 DEF almacenarBytesEnPagina
  <2> QED BY <1>1, <2>1, FallarTranquilo DEF datos
<1>3. CASE ~ (marco = Fallo \/ excede)
  <2>1. /\ escribirFrame(marco, valor)
        /\ escrito' = [escrito EXCEPT ![<<pid, pagina>>] = valor]
        /\ hilo' = [hilo EXCEPT ![h].pid = pid, ![h].pagina = pagina, ![h].paso = "replicar"]
    BY <1>3 DEF almacenarBytesEnPagina
  <2>2. S = {marco} /\ marco \in Indices
    <3>1. S # {} /\ S \in SUBSET Nat /\ S \in SUBSET Indices
      BY <1>3, NumerosDeMemoria DEF getFrameByPIDPagina, MarcosDe
    <3>2. marco = Min(S)
      BY <3>1 DEF getFrameByPIDPagina
    <3>3. S = {} \/ \E i \in Indices : S = {i}
      BY <1>1 DEF Inv, InvMarcos, PaginasDe
    <3> HIDE DEF marco, S
    <3> QED BY <3>1, <3>2, <3>3, MinExiste
  <2> HIDE DEF marco
  <2>3. /\ memoria \in [0 .. Marcos - 1 -> Valores] /\ escrito \in [PIDs \X Paginas -> Valores \cup {-1}]
        /\ tabla[marco] = [pid |-> pid, pagina |-> pagina]
        /\ TypeOK
    BY <2>2 DEF Inv, TypeOK, TipoDatos, TipoClientes, MarcosDe
  <2>4. /\ memoria' \in [0 .. Marcos - 1 -> Valores]
        /\ marco < Marcos => memoria'[marco] = valor
        /\ \A i \in Indices : i < Marcos /\ i # marco => memoria'[i] = memoria[i]
    <3>1. memoria' = IF marco < Marcos THEN [memoria EXCEPT ![marco] = valor] ELSE memoria
      BY <2>1 DEF escribirFrame
    <3>2. \A i \in Indices : i < Marcos => i \in 0 .. Marcos - 1
      BY MarcosAssumption DEF Indices
    <3> QED BY <2>2, <2>3, <3>1, <3>2
  <2>5. /\ escrito' \in [PIDs \X Paginas -> Valores \cup {-1}]
        /\ escrito'[<<pid, pagina>>] = valor
        /\ \A p \in PIDs, g \in Paginas : <<p, g>> # <<pid, pagina>> => escrito'[<<p, g>>] = escrito[<<p, g>>]
    BY <2>1, <2>3
  <2>6. Tiene(pid, pagina, valor)'
    BY <1>1, <2>2, <2>4 DEF Tiene
  <2>7. ASSUME NEW p, NEW g, NEW v, Tiene(p, g, v), p # pid \/ g # pagina
        PROVE  /\ MarcosDe(tabla, p, g) # {}
               /\ \A i \in MarcosDe(tabla, p, g) : i < Marcos => memoria'[i] = v
    <3>1. \A i \in MarcosDe(tabla, p, g) : i \in Indices /\ i # marco
      BY <2>3, <2>7 DEF MarcosDe
    <3> QED BY <2>4, <2>7, <3>1 DEF Tiene
  <2> DEFINE r == [EnRecibir EXCEPT !.paso = "replicar", !.pid = pid, !.pagina = pagina]
  <2>8. r \in Registro /\ r.paso = "replicar" /\ r.pid = pid /\ r.pagina = pagina /\ r.codigo = "-"
    <3>1. 0 \in 0 .. ENTRADAS_CACHE /\ 0 \in Valores
      BY EntradasNat, ValoresAssumption DEF Inv, TypeOK
    <3> QED BY <3>1 DEF Registro, Pasos, EnRecibir
  <2>9. hilo' = [hilo EXCEPT ![h] = r]
    <3>1. hilo[h] = EnRecibir
      BY <1>1, AlLlegar
    <3> QED BY <2>1, <3>1 DEF EnRecibir
  <2> HIDE DEF r
  <2>10. UnHilo(h) /\ hilo'[h] = r /\ \A g \in Hilos : g # h => hilo'[g] = hilo[g]
    BY <2>3, <2>8, <2>9, DeUnHilo DEF UnHilo
  <2>11. HiloDe(h)' /\ MismoProceso(h)
    BY <1>1, <2>8, <2>10, AlLlegar DEF HiloDe, Activo, MismoProceso, ConPagina, ConCache, DeBaja
  <2>12. TipoHilos' /\ InvHilos'
    BY <1>1, <2>3, <2>10, <2>11, HilosSiguen DEF Inv
  <2>13. TipoCache' /\ CacheAcotada' /\ EnCache' = EnCache
    BY <1>1, DelHilo
  <2>14. TypeOK'
    <3>1. pedidos' \in 0 .. MaxPedidos
      BY <1>1, AlLlegar
    <3> QED BY <1>1, <2>3, <2>4, <2>5, <2>12, <2>13, <3>1 DEF TypeOK, TipoDatos, TipoClientes
  <2>15. InvMarcos'
    <3>1. \A p : Atendido(p) => Atendido(p)'
      BY <1>1, <2>10, AlLlegar, AtendidosSiguen
    <3> QED BY <1>1, <2>10, <3>1, MarcosSiguen DEF Inv
  <2>16. ASSUME NEW g \in Hilos, g # h, Activo(g)
         PROVE  hilo[g].pid # pid
    BY <1>1, <2>16 DEF Recibe, Atendido, Activo
  <2>17. ASSUME NEW e \in EnCache
         PROVE  EntradaDe(e)'
    <3> DEFINE p == entradas[e].pid
               g == entradas[e].pagina
               c == entradas[e].contenido
    <3>1. /\ p \in PIDs /\ g \in Paginas /\ MarcosDe(tabla, p, g) # {}
          /\ Replica(p, g) \/ Tiene(p, g, c)
      BY DEF Inv, InvCache, EntradaDe
    <3>2. CASE p = pid /\ g = pagina
      <4>1. Replica(entradas[e].pid, entradas[e].pagina)'
        BY <1>1, <2>8, <2>10, <3>2 DEF Replica
      <4> QED BY <1>1, <3>1, <4>1 DEF EntradaDe
    <3>3. CASE ~ (p = pid /\ g = pagina) /\ Replica(p, g)
      <4>1. PICK k \in Hilos : hilo[k].pid = p /\ hilo[k].pagina = g /\ Replicando(k)
        BY <3>3 DEF Replica, Replicando
      <4>2. k # h
        BY <1>1, <4>1, AlLlegar DEF Replicando, EnRecibir
      <4>3. Replica(entradas[e].pid, entradas[e].pagina)'
        BY <1>1, <2>10, <4>1, <4>2 DEF Replica, Replicando
      <4> QED BY <1>1, <3>1, <4>3 DEF EntradaDe
    <3>4. CASE ~ (p = pid /\ g = pagina) /\ Tiene(p, g, c)
      <4> HIDE DEF p, g, c
      <4>1. \A i \in MarcosDe(tabla, p, g) : i < Marcos => memoria'[i] = c
        BY <2>7, <3>4
      <4> QED BY <1>1, <3>1, <4>1 DEF EntradaDe, Tiene, p, g, c
    <3> QED BY <3>1, <3>2, <3>3, <3>4
  <2>18. InvCache'
    <3>1. hilo'[Kernel].paso = "liberarTabla" => Kernel # h
      BY <2>8, <2>10
    <3> QED BY <1>1, <2>10, <2>13, <2>17, <3>1 DEF InvCache, Inv, Hilos
  <2>19. ASSUME NEW g \in Hilos
         PROVE  ManoDe(g)'
    <3>1. CASE g = h
      BY <1>1, <2>2, <2>8, <2>10, <3>1 DEF ManoDe
    <3>2. CASE g # h
      <4>1. ManoDe(g) /\ hilo'[g] = hilo[g]
        BY <2>10, <3>2, DelHilo
      <4>2. hilo[g].paso \in {"cachear", "actualizar"} => Tiene(hilo[g].pid, hilo[g].pagina, hilo[g].valor)'
        <5> SUFFICES ASSUME hilo[g].paso \in {"cachear", "actualizar"}
                     PROVE  Tiene(hilo[g].pid, hilo[g].pagina, hilo[g].valor)'
          OBVIOUS
        <5>1. hilo[g].pid # pid /\ Tiene(hilo[g].pid, hilo[g].pagina, hilo[g].valor)
          BY <2>16, <3>2, <4>1 DEF ManoDe, Activo
        <5>2. /\ MarcosDe(tabla, hilo[g].pid, hilo[g].pagina) # {}
              /\ \A i \in MarcosDe(tabla, hilo[g].pid, hilo[g].pagina) :
                   i < Marcos => memoria'[i] = hilo[g].valor
          BY <2>7, <5>1
        <5> QED BY <1>1, <4>1, <5>2 DEF Tiene
      <4> QED BY <1>1, <4>1, <4>2 DEF ManoDe
    <3> QED BY <3>1, <3>2
  <2>20. ASSUME NEW p \in PIDs
         PROVE  EscritoDe(p)'
    <3> SUFFICES ASSUME NEW g \in Paginas, escrito'[<<p, g>>] # -1
                 PROVE  /\ vida'[p] # "sin iniciar"
                        /\ vida'[p] = "viva" => Tiene(p, g, escrito[<<p, g>>])'
      BY DEF EscritoDe
    <3>1. CASE p = pid /\ g = pagina
      BY <1>1, <2>5, <2>6, <3>1 DEF Tiene
    <3>2. CASE ~ (p = pid /\ g = pagina)
      <4>1. escrito'[<<p, g>>] = escrito[<<p, g>>]
        BY <2>5, <3>2
      <4>2. vida[p] # "sin iniciar" /\ (vida[p] = "viva" => Tiene(p, g, escrito[<<p, g>>]))
        BY <4>1 DEF Inv, InvLecturas, EscritoDe
      <4>3. vida[p] = "viva" =>
              /\ MarcosDe(tabla, p, g) # {}
              /\ \A i \in MarcosDe(tabla, p, g) : i < Marcos => memoria'[i] = escrito[<<p, g>>]
        BY <2>7, <3>2, <4>2
      <4> QED BY <1>1, <4>1, <4>2, <4>3 DEF Tiene
    <3> QED BY <3>1, <3>2
  <2>21. ASSUME HayLugarParaTodos, NEW g \in Hilos
         PROVE  LecturaDe(g)'
    <3>1. CASE g = h
      BY <2>8, <2>10, <3>1 DEF LecturaDe
    <3>2. CASE g # h
      <4>1. LecturaDe(g) /\ hilo'[g] = hilo[g] /\ HiloDe(g)
        BY <2>10, <2>21, <3>2, DelHilo DEF Inv, InvLecturas
      <4>2. hilo[g].paso = "copiar" \/ hilo[g].codigo = "BYTES" => hilo[g].pid # pid
        BY <2>16, <3>2, <4>1 DEF HiloDe, Activo
      <4>3. hilo[g].paso = "copiar" =>
              Tiene(hilo[g].pid, hilo[g].pagina, entradas[hilo[g].entrada].contenido)'
        <5> SUFFICES ASSUME hilo[g].paso = "copiar"
                     PROVE  Tiene(hilo[g].pid, hilo[g].pagina, entradas[hilo[g].entrada].contenido)'
          OBVIOUS
        <5>1. /\ MarcosDe(tabla, hilo[g].pid, hilo[g].pagina) # {}
              /\ \A i \in MarcosDe(tabla, hilo[g].pid, hilo[g].pagina) :
                   i < Marcos => memoria'[i] = entradas[hilo[g].entrada].contenido
          BY <2>7, <4>1, <4>2 DEF LecturaDe
        <5> QED BY <1>1, <4>1, <5>1 DEF Tiene
      <4>4. hilo[g].codigo = "BYTES" => Tiene(hilo[g].pid, hilo[g].pagina, hilo[g].valor)'
        <5> SUFFICES ASSUME hilo[g].codigo = "BYTES"
                     PROVE  Tiene(hilo[g].pid, hilo[g].pagina, hilo[g].valor)'
          OBVIOUS
        <5>1. /\ MarcosDe(tabla, hilo[g].pid, hilo[g].pagina) # {}
              /\ \A i \in MarcosDe(tabla, hilo[g].pid, hilo[g].pagina) :
                   i < Marcos => memoria'[i] = hilo[g].valor
          BY <2>7, <4>1, <4>2 DEF LecturaDe
        <5> QED BY <1>1, <4>1, <5>1 DEF Tiene
      <4> QED BY <1>1, <4>1, <4>3, <4>4 DEF LecturaDe, Es
    <3> QED BY <3>1, <3>2
  <2>22. HayLugarParaTodos' <=> HayLugarParaTodos
    BY <1>1 DEF HayLugarParaTodos, ENTRADAS_CACHE
  <2> QED BY <2>12, <2>14, <2>15, <2>18, <2>19, <2>20, <2>21, <2>22 DEF Inv, InvMano, InvLecturas
<1> QED BY <1>2, <1>3

-----------------------------------------------------------------------------
(* What the Kernel's thread does with the page table.                      *)

LEMMA KernelEsHilo == Kernel \in Hilos
  BY DEF Hilos

(* Frames the table gives to a process take none from another page.        *)
LEMMA ReservarEsAjeno ==
  ASSUME NEW t \in [Indices -> EntradasDeTabla], NEW v, NEW pid \in PIDs,
         NEW primera \in Paginas, NEW k \in Nat, Reservadas(t, v, pid, primera, k),
         NEW p \in PIDs, NEW g, p # pid
  PROVE  MarcosDe(v, p, g) = MarcosDe(t, p, g)
<1>1. p # Libre
  BY NumerosDeMemoria
<1>2. \A i \in Indices : v[i] = [pid |-> p, pagina |-> g] <=> t[i] = [pid |-> p, pagina |-> g]
  BY <1>1 DEF Reservadas
<1> QED BY <1>2 DEF MarcosDe

LEMMA ReservarEnOtras ==
  ASSUME NEW t \in [Indices -> EntradasDeTabla], NEW v, NEW pid \in PIDs,
         NEW primera \in Paginas, NEW k \in Nat, Reservadas(t, v, pid, primera, k)
  PROVE  \A g : g \notin primera .. primera + k - 1 => MarcosDe(v, pid, g) = MarcosDe(t, pid, g)
<1>1. pid # Libre
  BY NumerosDeMemoria
<1>2. ASSUME NEW g, g \notin primera .. primera + k - 1
      PROVE  MarcosDe(v, pid, g) = MarcosDe(t, pid, g)
  <2>1. \A i \in Indices : v[i] = [pid |-> pid, pagina |-> g] <=> t[i] = [pid |-> pid, pagina |-> g]
    BY <1>1, <1>2 DEF Reservadas
  <2> QED BY <2>1 DEF MarcosDe
<1> QED BY <1>2

LEMMA ReservarNoDa ==
  ASSUME NEW t, NEW v, NEW pid, NEW primera, NEW k, Reservadas(t, v, pid, primera, k),
         NEW p, p # pid, \A i \in Indices : t[i].pid # p
  PROVE  \A i \in Indices : v[i].pid # p
  BY DEF Reservadas

(* The page table before and after a reservation for pid.                  *)
LEMMA MarcosCrecen ==
  ASSUME InvMarcos, tabla \in [Indices -> EntradasDeTabla],
         NEW pid \in PIDs,
         UnHilo(Kernel), ~ Activo(Kernel), Activo(Kernel)', hilo'[Kernel].pid = pid,
         NEW primera \in Paginas, NEW n \in Nat,
         Reservadas(tabla, tabla', pid, primera, n),
         \A p \in PIDs : p # pid => vida'[p] = vida[p] /\ ultimaPagina'[p] = ultimaPagina[p],
         vida'[pid] \in {"viva", "rechazada"},
         vida'[pid] = "viva" => PaginasDe(pid)'
  PROVE  InvMarcos'
<1> SUFFICES ASSUME NEW p \in PIDs
             PROVE  /\ vida'[p] = "sin iniciar" => SinMarcos(p)'
                    /\ vida'[p] = "viva" => PaginasDe(p)'
                    /\ vida'[p] = "terminada" /\ ~ Atendido(p)' => SinMarcos(p)'
  BY DEF InvMarcos
<1>1. CASE p = pid
  BY <1>1
<1>2. CASE p # pid
  <2>1. ASSUME NEW g
        PROVE  MarcosDe(tabla', p, g) = MarcosDe(tabla, p, g)
    BY <1>2, ReservarEsAjeno
  <2>2. SinMarcos(p) => SinMarcos(p)'
    BY <1>2, ReservarNoDa DEF SinMarcos
  <2>3. PaginasDe(p) => PaginasDe(p)'
    BY <1>2, <2>1 DEF PaginasDe
  <2>4. Atendido(p) => Atendido(p)'
    BY KernelEsHilo, AtendidosSiguen
  <2> QED BY <1>2, <2>2, <2>3, <2>4 DEF InvMarcos
<1> QED BY <1>1, <1>2

(* A reservation for pid, whose pages in use are none of those reserved.   *)
VidasTras(pid) ==
  /\ vida' \in [PIDs -> {"sin iniciar", "viva", "rechazada", "terminada"}]
  /\ ultimaPagina' \in [PIDs -> Paginas \cup {Fallo}]
  /\ \A p \in PIDs : p # pid => vida'[p] = vida[p] /\ ultimaPagina'[p] = ultimaPagina[p]
  /\ vida'[pid] \in {"viva", "rechazada"}
  /\ vida'[pid] = vida[pid] \/ vida[pid] = "sin iniciar"
LEMMA ReservarSigue ==
  ASSUME Inv, NEW pid \in PIDs, NEW primera \in Paginas, NEW n \in Nat,
         Recibe(Kernel, pid), Reservadas(tabla, tabla', pid, primera, n),
         \A g \in primera .. primera + n - 1 : MarcosDe(tabla, pid, g) = {},
         UnHilo(Kernel), hilo'[Kernel].paso = "enviar", hilo'[Kernel].pid = pid,
         hilo'[Kernel].codigo # "BYTES",
         UNCHANGED <<config, memoria, laCache, escrito>>,
         VidasTras(pid),
         vida'[pid] = "viva" => PaginasDe(pid)'
  PROVE  Inv'
<1>1. /\ config' = config /\ memoria' = memoria /\ escrito' = escrito
      /\ TypeOK /\ tabla \in [Indices -> EntradasDeTabla] /\ Kernel \in Hilos
  BY KernelEsHilo DEF Inv, TypeOK, TipoDatos, EntradasDeTabla
<1>2. HiloDe(Kernel)' /\ MismoProceso(Kernel) /\ Activo(Kernel)' /\ ~ Activo(Kernel)
  BY <1>1, AlLlegar DEF HiloDe, Activo, MismoProceso, ConPagina, ConCache, DeBaja, VidasTras
<1>3. TipoHilos' /\ InvHilos'
  <2>1. \A p \in PIDs : vida'[p] = vida[p] \/ (Activo(Kernel)' /\ hilo'[Kernel].pid = p)
    BY <1>2 DEF VidasTras
  <2> QED BY <1>1, <1>2, <2>1, HilosSiguen DEF Inv
<1>4. /\ TipoCache' /\ CacheAcotada' /\ EnCache' = EnCache
      /\ EnCache \subseteq Ids /\ \A e \in Ids : MismaEntrada(e)
  BY <1>1, DelHilo, SonFinitos DEF EnCache, TypeOK, TipoCache
<1>5. TypeOK'
  <2>1. tabla' \in [Indices -> EntradasDeTabla]
    BY DEF Reservadas
  <2>2. pedidos' \in 0 .. MaxPedidos
    BY <1>1, AlLlegar
  <2> QED BY <1>1, <1>3, <1>4, <2>1, <2>2
         DEF TypeOK, TipoDatos, TipoClientes, EntradasDeTabla, VidasTras
<1>6. InvMarcos'
  BY <1>1, <1>2, MarcosCrecen DEF Inv, VidasTras
<1>7. ASSUME NEW p \in PIDs \ {}, NEW g \in Paginas, MarcosDe(tabla, p, g) # {}
      PROVE  MarcosDe(tabla', p, g) = MarcosDe(tabla, p, g)
  <2>1. CASE p # pid
    BY <1>1, <1>7, <2>1, ReservarEsAjeno
  <2>2. CASE p = pid
    <3>1. g \notin primera .. primera + n - 1
      BY <1>7, <2>2
    <3>2. \A q : q \notin primera .. primera + n - 1 => MarcosDe(tabla', pid, q) = MarcosDe(tabla, pid, q)
      BY <1>1, ReservarEnOtras
    <3> QED BY <2>2, <3>1, <3>2
  <2> QED BY <2>1, <2>2
<1>8. \A p \in PIDs : vida[p] # "sin iniciar" =>
        vida'[p] # "sin iniciar" /\ (vida'[p] = "viva" => vida[p] = "viva" /\ p \notin {})
  BY DEF VidasTras
<1>9. \A e \in EnCache' :
        \/ TieneEntrada(e)'
        \/ /\ e \in EnCache /\ MismaEntrada(e) /\ entradas[e].pid \notin {}
           /\ ~ (DejaDeReplicar(Kernel) /\ Es(e, hilo[Kernel].pid, hilo[Kernel].pagina))
  BY <1>1, <1>4, AlLlegar
<1>10. \A g \in Hilos : hilo[g].paso = "copiar" => MismaEntrada(hilo[g].entrada)
  BY <1>4 DEF Inv, InvHilos, HiloDe
<1>11. ManoDe(Kernel)' /\ LecturaDe(Kernel)'
  BY DEF ManoDe, LecturaDe
<1>12. InvCache' /\ InvMano' /\ InvLecturas'
  <2>1. {} \in SUBSET PIDs /\ hilo'[Kernel].paso # "liberarTabla"
    OBVIOUS
  <2> QED BY <1>1, <1>4, <1>7, <1>8, <1>9, <1>10, <1>11, <2>1, Paso
<1> QED BY <1>3, <1>5, <1>6, <1>12 DEF Inv

(* The count of the pages asked for, and of the frames that are free.      *)
LEMMA LibresCuentan ==
  ASSUME tabla \in [Indices -> EntradasDeTabla], NEW n \in Nat, paginasDisponibles(tabla, n)
  PROVE  Cardinality(Libres(tabla)) >= n
<1> DEFINE L == {i \in Libres(tabla) : i < Marcos}
<1>1. L \in SUBSET Libres(tabla) /\ Libres(tabla) \in SUBSET Indices
  BY DEF Libres
<1>2. IsFiniteSet(Libres(tabla))
  BY <1>1, NumerosDeMemoria, FS_Subset
<1> HIDE DEF L
<1>3. IsFiniteSet(L) /\ Cardinality(L) <= Cardinality(Libres(tabla))
  BY <1>1, <1>2, FS_Subset
<1>4. Cardinality(L) >= n
  BY DEF paginasDisponibles, L
<1>5. Cardinality(L) \in Nat /\ Cardinality(Libres(tabla)) \in Nat
  BY <1>2, <1>3, FS_CardinalityType
<1> QED BY <1>3, <1>4, <1>5

LEMMA InicializarProceso ==
  ASSUME Inv, NEW pid \in PIDs, NEW n \in Paginas, inicializarProceso(pid, n)
  PROVE  Inv'
<1> DEFINE alcanza == Cardinality(Libres(tabla)) >= n
<1>1. /\ Recibe(Kernel, pid) /\ vida[pid] = "sin iniciar" /\ tabla' = reservar(tabla, pid, 1, n)
      /\ UNCHANGED <<config, memoria, laCache, escrito>>
      /\ vida' = [vida EXCEPT ![pid] = IF alcanza THEN "viva" ELSE "rechazada"]
      /\ ultimaPagina' = IF alcanza THEN [ultimaPagina EXCEPT ![pid] = n] ELSE ultimaPagina
      /\ IF alcanza
         THEN hilo' = [hilo EXCEPT ![Kernel].pid = pid, ![Kernel].paso = "enviar",
                                   ![Kernel].codigo = "OK"]
         ELSE EnviaFallo(Kernel, pid)
  BY DEF inicializarProceso
<1> HIDE DEF alcanza
<1>2. TypeOK /\ tabla \in [Indices -> EntradasDeTabla] /\ Kernel \in Hilos
  BY KernelEsHilo DEF Inv, TypeOK, TipoDatos, EntradasDeTabla
<1>3. n \in Nat /\ n >= 1 /\ n \in Int /\ 1 \in Paginas /\ 1 + n - 1 \in Paginas /\ 1 .. (1 + n - 1) = 1 .. n
  BY CotasAssumption DEF Paginas
<1>4. ASSUME NEW g
      PROVE  MarcosDe(tabla, pid, g) = {}
  <2>1. \A i \in Indices : tabla[i].pid # pid
    BY <1>1 DEF Inv, InvMarcos, SinMarcos
  <2> QED BY <2>1 DEF MarcosDe
<1>5. Reservadas(tabla, tabla', pid, 1, n)
  BY <1>1, <1>2, <1>3, <1>4, ReservarTodas
<1>6. /\ UnHilo(Kernel) /\ hilo'[Kernel].paso = "enviar" /\ hilo'[Kernel].pid = pid
      /\ hilo'[Kernel].codigo # "BYTES"
  <2>1. CASE alcanza
    BY <1>1, <1>2, <2>1, AlAceptar
  <2>2. CASE ~ alcanza
    <3>1. /\ UnHilo(Kernel)
          /\ hilo'[Kernel] = [EnRecibir EXCEPT !.paso = "enviar", !.pid = pid, !.codigo = "FALLO"]
      BY <1>1, <1>2, <2>2, AlFallar
    <3> QED BY <3>1 DEF EnRecibir
  <2> QED BY <2>1, <2>2
<1>7. VidasTras(pid) /\ (vida'[pid] = "viva" => alcanza /\ ultimaPagina'[pid] = n)
  <2>1. /\ vida \in [PIDs -> {"sin iniciar", "viva", "rechazada", "terminada"}]
        /\ ultimaPagina \in [PIDs -> Paginas \cup {Fallo}]
    BY DEF Inv, TypeOK, TipoDatos, TipoClientes
  <2> QED BY <1>1, <2>1 DEF VidasTras
<1>8. vida'[pid] = "viva" => PaginasDe(pid)'
  <2> SUFFICES ASSUME vida'[pid] = "viva"
               PROVE  PaginasDe(pid)'
    OBVIOUS
  <2>1. \A g \in 1 .. n : \E i \in Indices : MarcosDe(tabla', pid, g) = {i}
    BY <1>3, <1>5, <1>7 DEF Reservadas, alcanza
  <2>2. ASSUME NEW g, g \notin 1 .. n
        PROVE  MarcosDe(tabla', pid, g) = {}
    <3>1. \A q : q \notin 1 .. 1 + n - 1 => MarcosDe(tabla', pid, q) = MarcosDe(tabla, pid, q)
      BY <1>2, <1>3, <1>5, ReservarEnOtras
    <3>2. MarcosDe(tabla', pid, g) = MarcosDe(tabla, pid, g)
      BY <1>3, <2>2, <3>1
    <3> QED BY <1>4, <3>2
  <2>3. \A g \in Paginas : g <= n <=> g \in 1 .. n
    BY <1>3 DEF Paginas
  <2> QED BY <1>7, <2>1, <2>2, <2>3 DEF PaginasDe
<1>9. \A g \in 1 .. 1 + n - 1 : MarcosDe(tabla, pid, g) = {}
  BY <1>4
<1> QED BY <1>1, <1>3, <1>5, <1>6, <1>7, <1>8, <1>9, ReservarSigue

LEMMA AsignarPaginas ==
  ASSUME Inv, NEW pid \in PIDs, NEW n \in Paginas, asignarPaginasAProceso(pid, n)
  PROVE  Inv'
<1> DEFINE u == ultimaPagina[pid]
<1>1. /\ Recibe(Kernel, pid) /\ vida[pid] = "viva" /\ u + n <= MaxPaginas
      /\ UNCHANGED <<config, memoria, laCache, vida, escrito>>
      /\ vida' = vida /\ Kernel \in Hilos
  BY KernelEsHilo DEF asignarPaginasAProceso
<1>2. TypeOK /\ tabla \in [Indices -> EntradasDeTabla] /\ ultimaPagina \in [PIDs -> Paginas \cup {Fallo}]
  BY DEF Inv, TypeOK, TipoDatos, EntradasDeTabla
<1>3. PaginasDe(pid)
  BY <1>1 DEF Inv, InvMarcos
<1>4. CASE ~ paginasDisponibles(tabla, n)
  <2>1. EnviaFallo(Kernel, pid) /\ UNCHANGED <<tabla, ultimaPagina>>
    BY <1>4 DEF asignarPaginasAProceso
  <2> QED BY <1>1, <2>1, FallarTranquilo DEF datos
<1>5. CASE paginasDisponibles(tabla, n)
  <2>1. /\ tabla' = reservar(tabla, pid, u + 1, n)
        /\ ultimaPagina' = [ultimaPagina EXCEPT ![pid] = u + n]
        /\ hilo' = [hilo EXCEPT ![Kernel].pid = pid, ![Kernel].paso = "enviar",
                                ![Kernel].codigo = "OK"]
    BY <1>5 DEF asignarPaginasAProceso, remplazarUltimaPagina
  <2>2. u \in Paginas
    BY <1>3 DEF PaginasDe
  <2> HIDE DEF u
  <2>3. /\ n \in Nat /\ n >= 1 /\ u \in Nat /\ u >= 1
        /\ u + 1 \in Paginas /\ (u + 1) + n - 1 \in Paginas /\ u + n \in Paginas
        /\ (u + 1) + n - 1 = u + n /\ (u + 1) .. (u + 1) + n - 1 = (u + 1) .. (u + n)
    BY <1>1, <2>2, CotasAssumption DEF Paginas
  <2>4. \A g \in Paginas : IF g <= u THEN \E i \in Indices : MarcosDe(tabla, pid, g) = {i}
                                     ELSE MarcosDe(tabla, pid, g) = {}
    BY <1>3 DEF PaginasDe, u
  <2>5. \A g \in (u + 1) .. (u + n) : g \in Paginas /\ ~ (g <= u)
    BY <1>1, <2>3, CotasAssumption DEF Paginas
  <2>6. \A g \in (u + 1) .. (u + 1) + n - 1 : MarcosDe(tabla, pid, g) = {}
    BY <2>3, <2>4, <2>5
  <2>7. Reservadas(tabla, tabla', pid, u + 1, n)
    BY <1>2, <2>1, <2>3, <2>6, ReservarTodas
  <2>8. /\ UnHilo(Kernel) /\ hilo'[Kernel].paso = "enviar" /\ hilo'[Kernel].pid = pid
        /\ hilo'[Kernel].codigo # "BYTES"
    BY <1>1, <1>2, <2>1, AlAceptar
  <2>9. VidasTras(pid) /\ ultimaPagina'[pid] = u + n
    <3>1. vida \in [PIDs -> {"sin iniciar", "viva", "rechazada", "terminada"}]
      BY DEF Inv, TypeOK, TipoClientes
    <3>2. /\ ultimaPagina' \in [PIDs -> Paginas \cup {Fallo}] /\ ultimaPagina'[pid] = u + n
          /\ \A p \in PIDs : p # pid => ultimaPagina'[p] = ultimaPagina[p]
      BY <1>2, <2>1, <2>3
    <3> QED BY <1>1, <3>1, <3>2 DEF VidasTras
  <2>10. PaginasDe(pid)'
    <3>1. Cardinality(Libres(tabla)) >= n
      BY <1>2, <1>5, <2>3, LibresCuentan
    <3>2. \A g \in (u + 1) .. (u + n) : \E i \in Indices : MarcosDe(tabla', pid, g) = {i}
      BY <2>3, <2>7, <3>1 DEF Reservadas
    <3>3. ASSUME NEW g, g \notin (u + 1) .. (u + n)
          PROVE  MarcosDe(tabla', pid, g) = MarcosDe(tabla, pid, g)
      <4>1. \A q : q \notin (u + 1) .. (u + 1) + n - 1 => MarcosDe(tabla', pid, q) = MarcosDe(tabla, pid, q)
        BY <1>2, <2>3, <2>7, ReservarEnOtras
      <4> QED BY <2>3, <3>3, <4>1
    <3>4. ASSUME NEW g \in Paginas
          PROVE  IF g <= u + n THEN \E i \in Indices : MarcosDe(tabla', pid, g) = {i}
                               ELSE MarcosDe(tabla', pid, g) = {}
      <4>0. g \in Int
        BY DEF Paginas
      <4>1. CASE g \in (u + 1) .. (u + n)
        BY <2>3, <3>2, <4>0, <4>1
      <4>2. CASE g <= u
        <5>1. g \notin (u + 1) .. (u + n) /\ g <= u + n
          BY <2>3, <4>0, <4>2
        <5> QED BY <2>4, <3>3, <4>2, <5>1
      <4>3. CASE ~ (g <= u + n)
        <5>1. g \notin (u + 1) .. (u + n) /\ ~ (g <= u)
          BY <2>3, <4>0, <4>3
        <5> QED BY <2>4, <3>3, <4>3, <5>1
      <4> QED BY <2>3, <4>0, <4>1, <4>2, <4>3
    <3> QED BY <2>3, <2>9, <3>4 DEF PaginasDe
  <2> QED BY <1>1, <1>2, <2>3, <2>6, <2>7, <2>8, <2>9, <2>10, ReservarSigue
<1> QED BY <1>4, <1>5

(* The process ends: its pages stay until the Kernel's thread has released *)
(* its entries of the cache.                                               *)
LEMMA FinalizarProceso ==
  ASSUME Inv, NEW pid \in PIDs, finalizarProceso(pid)
  PROVE  Inv'
<1>1. /\ Recibe(Kernel, pid) /\ vida[pid] \in {"viva", "rechazada"}
      /\ vida' = [vida EXCEPT ![pid] = "terminada"]
      /\ hilo' = [hilo EXCEPT ![Kernel].pid = pid, ![Kernel].paso = "liberarCache"]
      /\ UNCHANGED <<datos, laCache, escrito>>
      /\ config' = config /\ tabla' = tabla /\ ultimaPagina' = ultimaPagina
      /\ memoria' = memoria /\ escrito' = escrito
  BY DEF finalizarProceso, datos
<1>2. TypeOK /\ Kernel \in Hilos /\ hilo[Kernel] \in Registro /\ hilo \in [Hilos -> Registro]
  BY KernelEsHilo, DelHilo DEF TypeOK, TipoHilos, Registro
<1> DEFINE r == [hilo[Kernel] EXCEPT !.pid = pid, !.paso = "liberarCache"]
<1>3. r \in Registro /\ r.pid = pid /\ r.paso = "liberarCache" /\ r.codigo = hilo[Kernel].codigo
  BY <1>2 DEF Registro, Pasos
<1>4. hilo' = [hilo EXCEPT ![Kernel] = r]
  BY <1>1, <1>2
<1> HIDE DEF r
<1>5. UnHilo(Kernel) /\ hilo'[Kernel] = r
  BY <1>2, <1>3, <1>4, DeUnHilo
<1>6. /\ hilo'[Kernel].pid = pid /\ hilo'[Kernel].paso = "liberarCache" /\ hilo'[Kernel].codigo = "-"
      /\ ~ Activo(Kernel)
  BY <1>1, <1>2, <1>3, <1>5, AlLlegar DEF EnRecibir
<1>7. /\ \A p \in PIDs : p # pid => vida'[p] = vida[p]
      /\ vida'[pid] = "terminada" /\ vida[pid] # "sin iniciar"
      /\ vida' \in [PIDs -> {"sin iniciar", "viva", "rechazada", "terminada"}]
  BY <1>1, <1>2 DEF TypeOK, TipoClientes
<1>8. HiloDe(Kernel)' /\ MismoProceso(Kernel) /\ Activo(Kernel)'
  BY <1>1, <1>2, <1>6, <1>7, AlLlegar DEF HiloDe, Activo, MismoProceso, ConPagina, ConCache, DeBaja
<1>9. TipoHilos' /\ InvHilos'
  <2>1. \A p \in PIDs : vida'[p] = vida[p] \/ (Activo(Kernel)' /\ hilo'[Kernel].pid = p)
    BY <1>6, <1>7, <1>8
  <2> QED BY <1>1, <1>2, <1>5, <1>8, <2>1, HilosSiguen DEF Inv
<1>10. /\ TipoCache' /\ CacheAcotada' /\ EnCache' = EnCache
       /\ EnCache \subseteq Ids /\ \A e \in Ids : MismaEntrada(e)
  BY <1>1, <1>2, DelHilo, SonFinitos DEF EnCache, TypeOK, TipoCache
<1>11. TypeOK'
  <2>1. pedidos' \in 0 .. MaxPedidos
    BY <1>1, <1>2, AlLlegar
  <2> QED BY <1>1, <1>2, <1>7, <1>9, <1>10, <2>1 DEF TypeOK, TipoDatos, TipoClientes
<1>12. InvMarcos'
  <2>1. \A p : Atendido(p) => Atendido(p)'
    BY <1>2, <1>5, <1>6, AtendidosSiguen
  <2>2. Atendido(pid)'
    BY <1>2, <1>6, <1>8 DEF Atendido, Activo
  <2>3. \A p \in PIDs : vida'[p] = vida[p] \/ (vida'[p] = "terminada" /\ Atendido(p)')
    BY <1>7, <2>2
  <2> QED BY <1>1, <1>2, <1>5, <2>1, <2>3, MarcosSiguen DEF Inv
<1>13. \A p \in PIDs : vida[p] # "sin iniciar" =>
         vida'[p] # "sin iniciar" /\ (vida'[p] = "viva" => vida[p] = "viva" /\ p \notin {})
  BY <1>7
<1>14. \A e \in EnCache' :
         \/ TieneEntrada(e)'
         \/ /\ e \in EnCache /\ MismaEntrada(e) /\ entradas[e].pid \notin {}
            /\ ~ (DejaDeReplicar(Kernel) /\ Es(e, hilo[Kernel].pid, hilo[Kernel].pagina))
  BY <1>1, <1>2, <1>10, AlLlegar
<1>15. \A g \in Hilos : hilo[g].paso = "copiar" => MismaEntrada(hilo[g].entrada)
  BY <1>10 DEF Inv, InvHilos, HiloDe
<1>16. ManoDe(Kernel)' /\ LecturaDe(Kernel)' /\ hilo'[Kernel].paso # "liberarTabla"
  BY <1>6 DEF ManoDe, LecturaDe
<1>17. InvCache' /\ InvMano' /\ InvLecturas'
  <2>1. {} \in SUBSET PIDs
    OBVIOUS
  <2>2. \A p \in PIDs \ {}, g \in Paginas :
           MarcosDe(tabla, p, g) # {} => MarcosDe(tabla', p, g) = MarcosDe(tabla, p, g)
    BY <1>1
  <2> QED BY <1>1, <1>2, <1>5, <1>10, <1>13, <1>14, <1>15, <1>16, <2>1, <2>2, Paso
<1> QED BY <1>9, <1>11, <1>12, <1>17 DEF Inv

(* The steps of the release that do not touch the page table.              *)
LEMMA LiberarCache ==
  ASSUME Inv, liberarProcesoDeCache
  PROVE  Inv'
<1>1. /\ hilo[Kernel].paso = "liberarCache" /\ UNCHANGED <<datos, laCache, vida, pedidos, escrito>>
      /\ config' = config /\ Kernel \in Hilos
  BY KernelEsHilo DEF liberarProcesoDeCache, clientes, datos
<1>2. PICK paso \in {"buscar", "liberarTabla"} :
        /\ Sigue(Kernel, paso)
        /\ paso = "liberarTabla" => Propias(hilo[Kernel].pid) = {}
  BY DEF liberarProcesoDeCache
<1>3. /\ UnHilo(Kernel) /\ hilo'[Kernel].paso = paso /\ hilo'[Kernel].pid = hilo[Kernel].pid
      /\ hilo'[Kernel].codigo = hilo[Kernel].codigo
  BY <1>1, <1>2, AlSeguir, DelHilo DEF Pasos
<1>4. HiloDe(Kernel)' /\ MismoProceso(Kernel) /\ hilo'[Kernel].codigo # "BYTES" /\ Activo(Kernel)'
  BY <1>1, <1>3, DelHilo DEF HiloDe, Activo, MismoProceso, ConPagina, ConCache, DeBaja
<1>5. ManoDe(Kernel)' /\ LecturaDe(Kernel)' /\ ~ DejaDeReplicar(Kernel)
  BY <1>1, <1>3, <1>4 DEF ManoDe, LecturaDe, DejaDeReplicar, Replicando
<1>6. paso = "liberarTabla" => \A e \in EnCache : entradas[e].pid # hilo[Kernel].pid
  BY <1>2 DEF Propias, EnCache, Range
<1>7. pedidos' \in 0 .. MaxPedidos
  BY <1>1 DEF Inv, TypeOK, TipoClientes
<1> QED BY <1>1, <1>3, <1>4, <1>5, <1>6, <1>7, DelHilo, PasoTranquilo

LEMMA BuscarEntrada ==
  ASSUME Inv, buscarEntrada
  PROVE  Inv'
<1>1. /\ hilo[Kernel].paso = "buscar" /\ UNCHANGED <<datos, laCache, vida, pedidos, escrito>>
      /\ config' = config /\ Kernel \in Hilos
  BY KernelEsHilo DEF buscarEntrada, clientes, datos
<1>2. PICK i \in Propias(hilo[Kernel].pid) :
        hilo' = [hilo EXCEPT ![Kernel].paso = "sacar", ![Kernel].posicion = i]
  BY DEF buscarEntrada
<1>3. i \in 0 .. ENTRADAS_CACHE /\ i >= 1
  <2>1. i \in 1 .. Len(cache) /\ Len(cache) \in Nat
    BY DEF Propias, Inv, TypeOK, TipoCache
  <2>2. Len(cache) <= ENTRADAS_CACHE /\ ENTRADAS_CACHE \in Nat
    BY EntradasNat DEF Inv, InvCache, CacheAcotada, TypeOK
  <2> QED BY <2>1, <2>2
<1>4. TypeOK /\ hilo \in [Hilos -> Registro]
  BY DEF Inv, TypeOK, TipoHilos, Registro
<1> DEFINE r == [hilo[Kernel] EXCEPT !.paso = "sacar", !.posicion = i]
<1>5. /\ r \in Registro /\ r.paso = "sacar" /\ r.posicion = i /\ r.pid = hilo[Kernel].pid
      /\ r.codigo = hilo[Kernel].codigo
  BY <1>1, <1>3, <1>4 DEF Registro, Pasos
<1>6. hilo' = [hilo EXCEPT ![Kernel] = r]
  BY <1>1, <1>2, <1>4
<1> HIDE DEF r
<1>7. UnHilo(Kernel) /\ hilo'[Kernel] = r
  BY <1>1, <1>4, <1>5, <1>6, DeUnHilo
<1>8. HiloDe(Kernel)' /\ MismoProceso(Kernel) /\ hilo'[Kernel].codigo # "BYTES" /\ Activo(Kernel)'
  BY <1>1, <1>3, <1>5, <1>7, DelHilo DEF HiloDe, Activo, MismoProceso, ConPagina, ConCache, DeBaja
<1>9. ManoDe(Kernel)' /\ LecturaDe(Kernel)' /\ ~ DejaDeReplicar(Kernel)
      /\ hilo'[Kernel].paso # "liberarTabla"
  BY <1>1, <1>5, <1>7, <1>8 DEF ManoDe, LecturaDe, DejaDeReplicar, Replicando
<1>10. pedidos' \in 0 .. MaxPedidos
  BY <1>1 DEF Inv, TypeOK, TipoClientes
<1> QED BY <1>1, <1>7, <1>8, <1>9, <1>10, DelHilo, PasoTranquilo

LEMMA SacarEntrada ==
  ASSUME Inv, sacarEntrada
  PROVE  Inv'
<1> DEFINE queda == \E e \in Range(Quedan) : entradas[e].pid = hilo[Kernel].pid
           paso == IF queda THEN "buscar" ELSE "liberarTabla"
<1>1. /\ hilo[Kernel].paso = "sacar" /\ UNCHANGED <<datos, vida, pedidos, escrito>>
      /\ config' = config /\ Kernel \in Hilos /\ cache' = Quedan /\ entradas' = entradas
  BY KernelEsHilo DEF sacarEntrada, clientes, datos
<1>2. hilo' = [hilo EXCEPT ![Kernel].posicion = 0, ![Kernel].paso = paso]
  BY DEF sacarEntrada
<1>3. /\ TypeOK /\ hilo \in [Hilos -> Registro] /\ cache \in Seq(Ids) /\ ENTRADAS_CACHE \in Nat
      /\ 0 \in 0 .. ENTRADAS_CACHE
  BY EntradasNat DEF Inv, TypeOK, TipoHilos, TipoCache, Registro
<1>4. AcotadaEn(cache, entradas, ENTRADAS_CACHE)
  BY <1>3, AcotadaEquivale DEF CacheAcotada, Es, Propias, Inv, InvCache
<1>5. cache' \in Seq(Ids) /\ ToSet(cache') \subseteq ToSet(cache) /\ AcotadaEn(cache', entradas, ENTRADAS_CACHE)
  <2>1. CASE hilo[Kernel].posicion \in DOMAIN cache
    <3>1. cache' = RemoveAt(cache, hilo[Kernel].posicion)
      BY <1>1, <2>1 DEF Quedan
    <3> QED BY <1>3, <1>4, <2>1, <3>1, QuitarAcotada
  <2>2. CASE hilo[Kernel].posicion \notin DOMAIN cache
    BY <1>1, <1>3, <1>4, <2>2 DEF Quedan
  <2> QED BY <2>1, <2>2
<1>6. TipoCache' /\ EnCache' \subseteq EnCache /\ \A e \in Ids : MismaEntrada(e)
  <2>1. EnCache' = ToSet(cache') /\ EnCache = ToSet(cache)
    BY <1>3, <1>5, SonFinitos DEF EnCache
  <2> QED BY <1>1, <1>3, <1>5, <2>1 DEF TypeOK, TipoCache, MismaEntrada
<1>7. CacheAcotada'
  <2>1. ENTRADAS_CACHE' = ENTRADAS_CACHE
    BY <1>1 DEF ENTRADAS_CACHE
  <2> QED BY <1>1, <1>5, <2>1, AcotadaEquivale DEF CacheAcotada, Es, Propias
<1>8. paso \in {"buscar", "liberarTabla"}
      /\ (paso = "liberarTabla" => \A e \in EnCache' : entradas[e].pid # hilo[Kernel].pid)
  BY <1>1 DEF EnCache
<1> HIDE DEF paso
<1> DEFINE r == [hilo[Kernel] EXCEPT !.posicion = 0, !.paso = paso]
<1>9. r \in Registro /\ r.paso = paso /\ r.pid = hilo[Kernel].pid /\ r.codigo = hilo[Kernel].codigo
  BY <1>1, <1>3, <1>8 DEF Registro, Pasos
<1>10. hilo' = [hilo EXCEPT ![Kernel] = r]
  BY <1>1, <1>2, <1>3
<1> HIDE DEF r
<1>11. UnHilo(Kernel) /\ hilo'[Kernel] = r
  BY <1>1, <1>3, <1>9, <1>10, DeUnHilo
<1>12. HiloDe(Kernel)' /\ MismoProceso(Kernel) /\ hilo'[Kernel].codigo # "BYTES" /\ Activo(Kernel)'
  BY <1>1, <1>8, <1>9, <1>11, DelHilo DEF HiloDe, Activo, MismoProceso, ConPagina, ConCache, DeBaja
<1>13. ManoDe(Kernel)' /\ LecturaDe(Kernel)' /\ ~ DejaDeReplicar(Kernel)
  BY <1>1, <1>8, <1>9, <1>11, <1>12 DEF ManoDe, LecturaDe, DejaDeReplicar, Replicando
<1>14. pedidos' \in 0 .. MaxPedidos
  BY <1>1 DEF Inv, TypeOK, TipoClientes
<1>15. hilo'[Kernel].paso = "liberarTabla" => \A e \in EnCache' : entradas[e].pid # hilo'[Kernel].pid
  BY <1>8, <1>9, <1>11
<1> QED BY <1>1, <1>6, <1>7, <1>11, <1>12, <1>13, <1>14, <1>15, PasoTranquilo

(* The flush, and a step of none of this: no thread moves.                 *)
LEMMA VaciarOSeguir ==
  ASSUME Inv, UNCHANGED <<datos, vida, escrito>>, hilo' = hilo, entradas' = entradas,
         cache' = << >> \/ cache' = cache, pedidos' \in 0 .. MaxPedidos
  PROVE  Inv'
<1>1. TypeOK /\ cache \in Seq(Ids) /\ ENTRADAS_CACHE \in Nat /\ hilo \in [Hilos -> Registro]
      /\ Kernel \in Hilos /\ HiloDe(Kernel) /\ ManoDe(Kernel)
      /\ config' = config /\ tabla' = tabla /\ memoria' = memoria /\ vida' = vida
  BY EntradasNat, KernelEsHilo, DelHilo DEF TypeOK, TipoCache, TipoHilos, Registro, datos
<1>2. /\ cache' \in Seq(Ids) /\ ToSet(cache') \subseteq ToSet(cache)
      /\ AcotadaEn(cache', entradas, ENTRADAS_CACHE)
  <2>1. AcotadaEn(cache, entradas, ENTRADAS_CACHE)
    BY <1>1, AcotadaEquivale DEF CacheAcotada, Es, Propias, Inv, InvCache
  <2>2. << >> \in Seq(Ids) /\ ToSet(<< >>) = {}
    BY ElementosCortos
  <2> QED BY <1>1, <2>1, <2>2, VaciaAcotada
<1>3. TipoCache' /\ EnCache' \subseteq EnCache /\ \A e \in Ids : MismaEntrada(e)
  <2>1. EnCache' = ToSet(cache') /\ EnCache = ToSet(cache)
    BY <1>1, <1>2, SonFinitos DEF EnCache
  <2> QED BY <1>1, <1>2, <2>1 DEF TypeOK, TipoCache, MismaEntrada
<1>4. CacheAcotada'
  <2>1. ENTRADAS_CACHE' = ENTRADAS_CACHE
    BY <1>1 DEF ENTRADAS_CACHE
  <2> QED BY <1>2, <2>1, AcotadaEquivale DEF CacheAcotada, Es, Propias
<1>5. UnHilo(Kernel) /\ MismoProceso(Kernel) /\ ~ DejaDeReplicar(Kernel)
      /\ (hilo[Kernel].paso \in DeBaja => Activo(Kernel)')
  BY <1>1 DEF UnHilo, MismoProceso, Activo, DejaDeReplicar, Replicando, DeBaja
<1>6. HiloDe(Kernel)'
  BY <1>1 DEF HiloDe, Activo
<1>7. ManoDe(Kernel)'
  BY <1>1 DEF ManoDe, Tiene
<1>8. HayLugarParaTodos => LecturaDe(Kernel)'
  BY <1>1 DEF Inv, InvLecturas, LecturaDe, Tiene, Es
<1>9. hilo'[Kernel].paso = "liberarTabla" => \A e \in EnCache' : entradas[e].pid # hilo'[Kernel].pid
  BY <1>3 DEF Inv, InvCache
<1> QED BY <1>1, <1>3, <1>4, <1>5, <1>6, <1>7, <1>8, <1>9, PasoTranquilo

(* The frames of the process that ended go, and nobody uses them.          *)
LEMMA LiberarTabla ==
  ASSUME Inv, liberarTabla
  PROVE  Inv'
<1> DEFINE pid == hilo[Kernel].pid
<1>1. /\ hilo[Kernel].paso = "liberarTabla" /\ tabla' = Liberar(tabla, pid)
      /\ hilo' = [hilo EXCEPT ![Kernel] = EnRecibir]
      /\ config' = config /\ ultimaPagina' = ultimaPagina /\ memoria' = memoria
      /\ vida' = vida /\ pedidos' = pedidos /\ escrito' = escrito /\ UNCHANGED laCache
      /\ Kernel \in Hilos
  BY KernelEsHilo DEF liberarTabla, clientes
<1>2. TypeOK /\ HiloDe(Kernel) /\ tabla \in [Indices -> EntradasDeTabla]
  BY <1>1, DelHilo DEF TypeOK, TipoDatos, EntradasDeTabla
<1>3. pid \in PIDs /\ vida[pid] = "terminada" /\ Activo(Kernel)
  BY <1>1, <1>2 DEF HiloDe, Activo, DeBaja
<1>4. UnHilo(Kernel) /\ hilo'[Kernel] = EnRecibir /\ hilo'[Kernel].paso = "recibir"
      /\ hilo'[Kernel].codigo = "-"
  <2>1. UnHilo(Kernel) /\ hilo'[Kernel] = EnRecibir
    BY <1>1, <1>2, AlRecibir
  <2> QED BY <2>1 DEF EnRecibir
<1>5. \A e \in EnCache : entradas[e].pid # pid
  BY <1>1 DEF Inv, InvCache
<1>6. \A g \in Hilos : g # Kernel /\ Activo(g) => hilo[g].pid # pid
  BY <1>1, <1>3 DEF Inv, InvHilos, UnoPorProceso
<1> HIDE DEF pid
<1>7. /\ tabla' \in [Indices -> EntradasDeTabla]
      /\ \A i \in Indices : tabla[i].pid # pid => tabla'[i] = tabla[i]
      /\ \A i \in Indices : tabla[i].pid = pid => tabla'[i] = [pid |-> Libre, pagina |-> -1]
  <2>1. [pid |-> Libre, pagina |-> -1] \in EntradasDeTabla
    BY DEF EntradasDeTabla
  <2> QED BY <1>1, <1>2, <2>1 DEF Liberar
<1>8. \A i \in Indices : tabla'[i].pid # pid
  BY <1>3, <1>7, NumerosDeMemoria
<1>9. ASSUME NEW p \in PIDs, p # pid
      PROVE  /\ \A g : MarcosDe(tabla', p, g) = MarcosDe(tabla, p, g)
             /\ SinMarcos(p) => SinMarcos(p)'
  <2>1. \A i \in Indices : tabla'[i] = tabla[i] \/ (tabla[i].pid = pid /\ tabla'[i].pid = Libre)
    BY <1>7
  <2>2. p # Libre
    BY NumerosDeMemoria
  <2>3. ASSUME NEW g
        PROVE  MarcosDe(tabla', p, g) = MarcosDe(tabla, p, g)
    <3>1. \A i \in Indices : tabla'[i] = [pid |-> p, pagina |-> g] <=> tabla[i] = [pid |-> p, pagina |-> g]
      BY <1>9, <2>1, <2>2
    <3> QED BY <3>1 DEF MarcosDe
  <2>4. SinMarcos(p) => SinMarcos(p)'
    BY <2>1, <2>2 DEF SinMarcos
  <2> QED BY <2>3, <2>4
<1>10. HiloDe(Kernel)' /\ MismoProceso(Kernel) /\ ~ Activo(Kernel)'
  BY <1>4 DEF HiloDe, Activo, MismoProceso, ConPagina, ConCache, DeBaja, EnRecibir
<1>11. TipoHilos' /\ InvHilos'
  BY <1>1, <1>2, <1>4, <1>10, HilosSiguen DEF Inv
<1>12. /\ TipoCache' /\ CacheAcotada' /\ EnCache' = EnCache
       /\ EnCache \subseteq Ids /\ \A e \in Ids : MismaEntrada(e)
  BY <1>1, <1>2, DelHilo, SonFinitos DEF EnCache, TypeOK, TipoCache
<1>13. TypeOK'
  BY <1>1, <1>2, <1>7, <1>11, <1>12 DEF TypeOK, TipoDatos, TipoClientes, EntradasDeTabla
<1>14. InvMarcos'
  <2> SUFFICES ASSUME NEW p \in PIDs
               PROVE  /\ vida'[p] = "sin iniciar" => SinMarcos(p)'
                      /\ vida'[p] = "viva" => PaginasDe(p)'
                      /\ vida'[p] = "terminada" /\ ~ Atendido(p)' => SinMarcos(p)'
    BY DEF InvMarcos
  <2>1. CASE p = pid
    BY <1>1, <1>3, <1>8, <2>1 DEF SinMarcos
  <2>2. CASE p # pid
    <3>1. PaginasDe(p) => PaginasDe(p)'
      BY <1>1, <1>9, <2>2 DEF PaginasDe
    <3>2. Atendido(p) => Atendido(p)'
      <4> SUFFICES ASSUME NEW g \in Hilos, Activo(g), hilo[g].pid = p
                   PROVE  Atendido(p)'
        BY DEF Atendido, Activo
      <4>1. g # Kernel
        BY <2>2 DEF pid
      <4>2. hilo'[g] = hilo[g]
        BY <1>4, <4>1 DEF UnHilo
      <4> QED BY <4>2 DEF Atendido, Activo
    <3> QED BY <1>1, <1>9, <2>2, <3>1, <3>2 DEF Inv, InvMarcos
  <2> QED BY <2>1, <2>2
<1>15. InvCache' /\ InvMano' /\ InvLecturas'
  <2>1. {pid} \in SUBSET PIDs
    BY <1>3
  <2>2. \A p \in PIDs \ {pid}, g \in Paginas :
          MarcosDe(tabla, p, g) # {} => MarcosDe(tabla', p, g) = MarcosDe(tabla, p, g)
    BY <1>9
  <2>3. \A p \in PIDs : vida[p] # "sin iniciar" =>
          vida'[p] # "sin iniciar" /\ (vida'[p] = "viva" => vida[p] = "viva" /\ p \notin {pid})
    BY <1>1, <1>3
  <2>4. \A e \in EnCache' :
          \/ TieneEntrada(e)'
          \/ /\ e \in EnCache /\ MismaEntrada(e) /\ entradas[e].pid \notin {pid}
             /\ ~ (DejaDeReplicar(Kernel) /\ Es(e, hilo[Kernel].pid, hilo[Kernel].pagina))
    BY <1>1, <1>5, <1>12 DEF DejaDeReplicar, Replicando
  <2>5. \A g \in Hilos : hilo[g].paso = "copiar" => MismaEntrada(hilo[g].entrada)
    BY <1>12 DEF Inv, InvHilos, HiloDe
  <2>6. ManoDe(Kernel)' /\ LecturaDe(Kernel)' /\ hilo'[Kernel].paso # "liberarTabla"
    BY <1>4 DEF ManoDe, LecturaDe
  <2>7. \A g \in Hilos : g # Kernel /\ Activo(g) => hilo[g].pid \notin {pid}
    BY <1>6 DEF pid
  <2> QED BY <1>1, <1>4, <1>12, <2>1, <2>2, <2>3, <2>4, <2>5, <2>6, <2>7, Paso
<1> QED BY <1>11, <1>13, <1>14, <1>15 DEF Inv

-----------------------------------------------------------------------------
(* The invariant.                                                          *)

LEMMA AlEmpezar == Init => Inv
<1> SUFFICES ASSUME Init
             PROVE  Inv
  OBVIOUS
<1>1. /\ config \in Configuraciones /\ tabla = inicializarTablaDePaginas
      /\ ultimaPagina = [p \in PIDs |-> Fallo] /\ memoria = [f \in 0 .. Marcos - 1 |-> 0]
      /\ cache = << >> /\ entradas = [e \in Ids |-> EntradaVacia]
      /\ hilo = [h \in Hilos |-> EnRecibir]
      /\ escrito = [pp \in PIDs \X Paginas |-> -1] /\ pedidos = 0
  BY DEF Init
<1>0. vida = [p \in PIDs |-> "sin iniciar"]
  BY DEF Init
<1>2. 0 \in Valores /\ MaxPedidos \in Nat
  BY ValoresAssumption, CotasAssumption
<1>3. TipoDatos
  <2>1. tabla \in [Indices -> [pid : PIDs \cup {Libre, DeLaTabla}, pagina : Paginas \cup {-1}]]
    BY <1>1 DEF inicializarTablaDePaginas
  <2> QED BY <1>1, <1>2, <2>1 DEF TipoDatos
<1>4. ENTRADAS_CACHE \in Nat
  BY <1>3, EntradasNat
<1>5. TipoCache
  <2>1. EntradaVacia \in [pid : PIDs \cup {0}, pagina : Paginas \cup {0},
                          lecturas : Nat, contenido : Valores]
    BY <1>2 DEF EntradaVacia
  <2>2. entradas \in [Ids -> [pid : PIDs \cup {0}, pagina : Paginas \cup {0},
                              lecturas : Nat, contenido : Valores]]
    BY <1>1, <2>1
  <2>3. cache \in Seq(Ids)
    BY <1>1
  <2> QED BY <2>2, <2>3 DEF TipoCache
<1>6. TipoHilos
  <2>1. 0 \in 0 .. ENTRADAS_CACHE
    BY <1>4
  <2>2. EnRecibir \in Registro
    BY <1>2, <2>1 DEF EnRecibir, Registro, Pasos
  <2> QED BY <1>1, <2>2 DEF TipoHilos, Registro
<1>7. TypeOK
  <2>1. escrito \in [PIDs \X Paginas -> Valores \cup {-1}] /\ pedidos \in 0 .. MaxPedidos
    BY <1>1, <1>2
  <2>2. TipoClientes
    BY <1>0, <2>1 DEF TipoClientes
  <2> QED BY <1>3, <1>5, <1>6, <2>2 DEF TypeOK
<1>8. \A h \in Hilos : hilo[h] = EnRecibir /\ ~ Activo(h) /\ hilo[h].paso = "recibir"
                       /\ hilo[h].codigo = "-"
  BY <1>1 DEF Activo, EnRecibir
<1>9. InvHilos
  BY <1>8 DEF InvHilos, UnoPorProceso, HiloDe, ConPagina, ConCache, DeBaja, Activo
<1>10. InvMarcos
  <2>1. \A p \in PIDs : vida[p] = "sin iniciar"
    BY <1>0
  <2>2. \A i \in Indices : tabla[i].pid \in {DeLaTabla, Libre}
    BY <1>1 DEF inicializarTablaDePaginas
  <2>3. \A p \in PIDs : SinMarcos(p)
    BY <2>2, NumerosDeMemoria DEF SinMarcos
  <2> QED BY <2>1, <2>3 DEF InvMarcos
<1>11. InvCache
  <2>1. EnCache = {}
    <3>1. DOMAIN cache = {}
      BY <1>1
    <3> QED BY <3>1 DEF EnCache, Range
  <2>2. CacheAcotada
    <3>1. cache \in Seq(Ids)
      BY <1>1
    <3>2. AcotadaEn(cache, entradas, ENTRADAS_CACHE)
      BY <1>1, <1>4, VaciaAcotada
    <3> QED BY <3>1, <3>2, AcotadaEquivale DEF CacheAcotada, Es, Propias
  <2> QED BY <2>1, <2>2 DEF InvCache
<1>12. InvMano
  BY <1>8 DEF InvMano, ManoDe
<1>13. InvLecturas
  <2>1. \A p \in PIDs, g \in Paginas : escrito[<<p, g>>] = -1
    BY <1>1
  <2> QED BY <1>8, <2>1 DEF InvLecturas, EscritoDe, LecturaDe
<1> QED BY <1>7, <1>9, <1>10, <1>11, <1>12, <1>13 DEF Inv

LEMMA CadaPaso == Inv /\ [Next]_vars => Inv'
<1> SUFFICES ASSUME Inv, [Next]_vars
             PROVE  Inv'
  OBVIOUS
<1>1. ASSUME NEW h \in Hilos, Pedido(h)
      PROVE  Inv'
  BY <1>1, SolicitarBytes, AlmacenarBytes DEF Pedido
<1>2. ASSUME NEW h \in Hilos, Atiende(h)
      PROVE  Inv'
  BY <1>2, MirarCache, LeerDeCache, CopiarDeCache, LeerDeMemoria, Cachear, ReplicarEnCache,
     Actualizar, Enviar DEF Atiende
<1>3. CASE PedidoDelKernel
  BY <1>3, InicializarProceso, AsignarPaginas, FinalizarProceso DEF PedidoDelKernel
<1>4. CASE Finaliza
  BY <1>4, LiberarCache, BuscarEntrada, SacarEntrada, LiberarTabla DEF Finaliza
<1>5. CASE flush
  <2>1. pedidos' \in 0 .. MaxPedidos
    <3>1. pedidos \in 0 .. MaxPedidos /\ pedidos < MaxPedidos /\ pedidos' = pedidos + 1
      BY <1>5 DEF flush, Inv, TypeOK, TipoClientes
    <3> QED BY <3>1, CotasAssumption
  <2>2. /\ UNCHANGED <<datos, vida, escrito>> /\ hilo' = hilo /\ entradas' = entradas
        /\ cache' = << >>
    BY <1>5 DEF flush
  <2> QED BY <2>1, <2>2, VaciarOSeguir
<1>6. CASE UNCHANGED vars
  <2>1. pedidos' \in 0 .. MaxPedidos
    BY <1>6 DEF vars, clientes, Inv, TypeOK, TipoClientes
  <2>2. /\ UNCHANGED <<datos, vida, escrito>> /\ hilo' = hilo /\ entradas' = entradas
        /\ cache' = cache
    BY <1>6 DEF vars, clientes, laCache
  <2> QED BY <2>1, <2>2, VaciarOSeguir
<1> QED BY <1>1, <1>2, <1>3, <1>4, <1>5, <1>6 DEF Next

LEMMA SiempreInv == Spec => []Inv
  BY AlEmpezar, CadaPaso, PTL DEF Spec

-----------------------------------------------------------------------------
(* What the processes see of it.                                           *)

LEMMA MarcosSegunInv == Inv => MarcosDeCadaUno
<1> SUFFICES ASSUME Inv, NEW p \in PIDs
             PROVE  /\ vida[p] = "viva" =>
                         /\ ultimaPagina[p] \in Paginas
                         /\ \A g \in Paginas : Cardinality(MarcosDe(tabla, p, g))
                                                 = IF g <= ultimaPagina[p] THEN 1 ELSE 0
                    /\ vida[p] = "terminada" /\ ~ Atendido(p) =>
                         Propias(p) = {} /\ \A i \in Indices : tabla[i].pid # p
  BY DEF MarcosDeCadaUno
<1>1. ASSUME PaginasDe(p), NEW g \in Paginas
      PROVE  Cardinality(MarcosDe(tabla, p, g)) = IF g <= ultimaPagina[p] THEN 1 ELSE 0
  <2>1. \A i : Cardinality({i}) = 1
    BY FS_Singleton
  <2>2. Cardinality({}) = 0
    BY FS_EmptySet
  <2>3. CASE g <= ultimaPagina[p]
    <3>1. \E i \in Indices : MarcosDe(tabla, p, g) = {i}
      BY <1>1, <2>3 DEF PaginasDe
    <3> QED BY <2>1, <2>3, <3>1
  <2>4. CASE ~ (g <= ultimaPagina[p])
    <3>1. MarcosDe(tabla, p, g) = {}
      BY <1>1, <2>4 DEF PaginasDe
    <3> QED BY <2>2, <2>4, <3>1
  <2> QED BY <2>3, <2>4
<1>2. ASSUME SinMarcos(p)
      PROVE  Propias(p) = {} /\ \A i \in Indices : tabla[i].pid # p
  <2>1. \A i \in Indices : tabla[i].pid # p
    BY <1>2 DEF SinMarcos
  <2>2. ASSUME NEW i \in Propias(p)
        PROVE  FALSE
    <3>1. cache[i] \in EnCache /\ entradas[cache[i]].pid = p
      BY DEF Propias, EnCache, Range
    <3>2. MarcosDe(tabla, p, entradas[cache[i]].pagina) # {}
      BY <3>1 DEF Inv, InvCache, EntradaDe
    <3> QED BY <2>1, <3>2 DEF MarcosDe
  <2> QED BY <2>1, <2>2
<1>3. vida[p] = "viva" => PaginasDe(p) /\ ultimaPagina[p] \in Paginas
  BY DEF Inv, InvMarcos, PaginasDe
<1>4. vida[p] = "terminada" /\ ~ Atendido(p) => SinMarcos(p)
  BY DEF Inv, InvMarcos
<1> QED BY <1>1, <1>2, <1>3, <1>4

LEMMA CacheSegunInv == Inv => CacheCoherente
<1> SUFFICES ASSUME Inv
             PROVE  CacheCoherente
  OBVIOUS
<1>1. ASSUME NEW e \in EnCache
      PROVE  LET pid == entradas[e].pid
                 pagina == entradas[e].pagina
                 marco == getFrameByPIDPagina(tabla, pid, pagina)
             IN \/ ~ EnBloque(pid, pagina)
                \/ \E h \in Hilos : hilo[h].pid = pid /\ hilo[h].paso \in {"replicar", "actualizar"}
                \/ marco # Fallo /\ memoria[marco] = entradas[e].contenido
  <2> DEFINE pid == entradas[e].pid
             pagina == entradas[e].pagina
             valor == entradas[e].contenido
             S == MarcosDe(tabla, pid, pagina)
             marco == getFrameByPIDPagina(tabla, pid, pagina)
  <2>1. S # {} /\ (Replica(pid, pagina) \/ Tiene(pid, pagina, valor))
    BY DEF Inv, InvCache, EntradaDe
  <2>2. S \in SUBSET Nat /\ S \in SUBSET Indices /\ Fallo \notin Indices
    BY NumerosDeMemoria DEF MarcosDe
  <2>3. marco = Min(S)
    BY <2>1 DEF getFrameByPIDPagina
  <2> HIDE DEF pid, pagina, valor, marco, S
  <2>4. marco \in S /\ marco # Fallo
    BY <2>1, <2>2, <2>3, MinExiste
  <2>5. CASE Replica(pid, pagina)
    BY <2>5 DEF Replica, pid
  <2>6. CASE Tiene(pid, pagina, valor)
    <3>1. EnBloque(pid, pagina) => memoria[marco] = valor
      BY <2>4, <2>6 DEF Tiene, EnBloque, S
    <3> QED BY <2>4, <3>1 DEF pid, pagina, valor, marco
  <2> QED BY <2>1, <2>5, <2>6
<1>2. CacheAcotada
  BY DEF Inv, InvCache
<1> QED BY <1>1, <1>2 DEF CacheCoherente

LEMMA LecturasSegunInv == Inv => LeeLoUltimoConLugar
<1> SUFFICES ASSUME Inv, HayLugarParaTodos, NEW h \in Hilos, hilo[h].codigo = "BYTES",
                    EnBloque(hilo[h].pid, hilo[h].pagina), escrito[<<hilo[h].pid, hilo[h].pagina>>] # -1
             PROVE  hilo[h].valor = escrito[<<hilo[h].pid, hilo[h].pagina>>]
  BY DEF LeeLoUltimoConLugar, LeeLoUltimo
<1> DEFINE pid == hilo[h].pid
           pagina == hilo[h].pagina
           ultimo == escrito[<<pid, pagina>>]
           valor == hilo[h].valor
<1>1. pid \in PIDs /\ pagina \in Paginas /\ vida[pid] = "viva"
  BY DEF Inv, InvHilos, HiloDe, Activo
<1>2. Tiene(pid, pagina, valor)
  BY DEF Inv, InvLecturas, LecturaDe
<1> HIDE DEF pid, pagina, valor
<1>3. Tiene(pid, pagina, ultimo)
  BY <1>1 DEF Inv, InvLecturas, EscritoDe, pid, pagina
<1> HIDE DEF ultimo
<1>4. EnBloque(pid, pagina)
  BY DEF pid, pagina
<1>5. PICK i \in MarcosDe(tabla, pid, pagina) : i < Marcos
  BY <1>2, <1>4 DEF Tiene, EnBloque
<1>6. valor = ultimo
  BY <1>2, <1>3, <1>5 DEF Tiene
<1> QED BY <1>6 DEF valor, ultimo, pid, pagina

(* The table, the cache, the threads and the history keep their types,     *)
(* whatever the threads do at once.                                        *)
THEOREM TipoCorrecto == Spec => []TypeOK
<1>1. Inv => TypeOK
  BY DEF Inv
<1> QED BY <1>1, SiempreInv, PTL

(* Each page of a living process has one frame, and a process released has *)
(* neither frames nor entries of the cache: reservar, remplazarUltimaPagina *)
(* and liberarProcesoDeCache of hiloKernel.c, tablaDePaginas.c and cache.c. *)
THEOREM MarcosCorrectos == Spec => []MarcosDeCadaUno
  BY SiempreInv, MarcosSegunInv, PTL

(* The cache keeps within its limits, has a page once, and has the bytes of *)
(* its frame save while they are being replicated: escribirCache and       *)
(* almacenarBytesEnPagina against readers that take no mutex.              *)
THEOREM CacheCorrecta == Spec => []CacheCoherente
  BY SiempreInv, CacheSegunInv, PTL

(* With room for every process in the cache, SOLICITAR_BYTES answers what  *)
(* was last stored in the page, although leerDeCache copies an entry that  *)
(* others may be changing.                                                 *)
THEOREM LecturasCorrectas == Spec => []LeeLoUltimoConLugar
  BY SiempreInv, LecturasSegunInv, PTL
=============================================================================
