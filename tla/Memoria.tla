------------------------------ MODULE Memoria ------------------------------
(***************************************************************************)
(* The process Memoria: a thread per connected CPU (hiloCPU.c) and one for *)
(* the Kernel (hiloKernel.c) serve requests over one page table, one block *)
(* of frames and one LRU cache of pages.  Writes to the cache take its     *)
(* mutex; reads, and the release of a process, do not.                     *)
(*                                                                         *)
(* The clients are modelled by what Kernel and CPU do: a connection has    *)
(* one request at a time, and a process is used through one connection at  *)
(* a time, for its CPU waits for every answer and the Kernel touches its   *)
(* pages only while its CPU waits for the Kernel.  A page holds one datum. *)
(***************************************************************************)
EXTENDS TablaDePaginas, Sequences, SequencesExt

CONSTANTS CPUs, Kernel,     \* the threads of Memoria, named after their clients
          PIDs,             \* pids, used once each
          MaxPaginas,       \* bound: pages of a process
          MaxPedidos,       \* bound: requests of all clients
          Valores,          \* what a page may hold; 0 is a zeroed page
          CACHE_X_PROC,     \* memoria.config
          Configuraciones   \* entries of the cache, and whether there is an
                            \* operator who flushes it

ASSUME PIDsAssumption == PIDs \subseteq Nat \ {0} /\ IsFiniteSet(PIDs)
ASSUME HilosAssumption == IsFiniteSet(CPUs)
ASSUME CotasAssumption == MaxPaginas \in Nat /\ MaxPedidos \in Nat
ASSUME CacheAssumption == CACHE_X_PROC \in Nat
ASSUME ConfiguracionesAssumption ==
  /\ IsFiniteSet(Configuraciones) /\ Configuraciones # {}
  /\ Configuraciones \subseteq [entradas : Nat \ {0}, operador : BOOLEAN]
ASSUME ValoresAssumption == 0 \in Valores /\ Valores \subseteq Nat

Hilos == CPUs \cup {Kernel}
Paginas == 1 .. MaxPaginas     \* the first page of a process is page 1

VARIABLES
  config,         \* the configuration in force; nothing changes it
  tabla,          \* tablaDePaginas
  ultimaPagina,   \* ultimasPaginasDePIDs; Fallo for a pid that is not there
  memoria,        \* the content of the frames
  cache,          \* the list: identities of entries, in order
  entradas,       \* the entries, changed in place
  hilo,           \* what each thread is doing
  vida,           \* of each pid, as the Kernel knows it
  escrito,        \* history: what was last stored in each page
  pedidos         \* requests made so far

ENTRADAS_CACHE == config.entradas
ConOperador == config.operador

datos == <<config, tabla, ultimaPagina, memoria>>
laCache == <<cache, entradas>>
clientes == <<vida, pedidos>>
vars == <<datos, laCache, hilo, clientes, escrito>>

\* An entry taken out of the list is never freed: identities for all that can
\* be in the list and all that a reader can still point to.
Ids == 1 .. (Max({c.entradas : c \in Configuraciones}) + Cardinality(Hilos))
SinEntrada == 0
EntradaVacia == [pid |-> 0, pagina |-> 0, lecturas |-> 0, contenido |-> 0]

EnRecibir == [paso |-> "recibir", pid |-> 0, pagina |-> 0, valor |-> 0,
              entrada |-> SinEntrada, posicion |-> 0, codigo |-> "-"]

Pasos == {"recibir", "mirarCache", "leerDeCache", "copiar", "leerMemoria",
          "cachear", "replicar", "actualizar", "liberarCache", "buscar",
          "sacar", "liberarTabla", "enviar"}

TipoDatos ==
  /\ config \in Configuraciones
  /\ tabla \in [Indices -> [pid : PIDs \cup {Libre, DeLaTabla},
                            pagina : Paginas \cup {-1}]]
  /\ ultimaPagina \in [PIDs -> Paginas \cup {Fallo}]
  /\ memoria \in [0 .. Marcos - 1 -> Valores]

TipoCache ==
  /\ cache \in Seq(Ids)
  /\ entradas \in [Ids -> [pid : PIDs \cup {0}, pagina : Paginas \cup {0},
                           lecturas : Nat, contenido : Valores]]

TipoHilos ==
  hilo \in [Hilos -> [paso : Pasos, pid : PIDs \cup {0},
                      pagina : Paginas \cup {0}, valor : Valores,
                      entrada : Ids \cup {SinEntrada},
                      posicion : 0 .. ENTRADAS_CACHE,
                      codigo : {"-", "OK", "FALLO", "BYTES"}]]

TipoClientes ==
  /\ vida \in [PIDs -> {"sin iniciar", "viva", "rechazada", "terminada"}]
  /\ escrito \in [PIDs \X Paginas -> Valores \cup {-1}]
  /\ pedidos \in 0 .. MaxPedidos

TypeOK == TipoDatos /\ TipoCache /\ TipoHilos /\ TipoClientes

Init ==
  /\ config \in Configuraciones
  /\ tabla = inicializarTablaDePaginas
  /\ ultimaPagina = [p \in PIDs |-> Fallo]
  /\ memoria = [f \in 0 .. Marcos - 1 |-> 0]
  /\ cache = << >>
  /\ entradas = [e \in Ids |-> EntradaVacia]
  /\ hilo = [h \in Hilos |-> EnRecibir]
  /\ vida = [p \in PIDs |-> "sin iniciar"]
  /\ escrito = [pp \in PIDs \X Paginas |-> -1]
  /\ pedidos = 0

----------------------------------------------------------------------------
(* The cache: cache.c.                                                     *)

Es(e, pid, pagina) == entradas[e].pid = pid /\ entradas[e].pagina = pagina

EnCache == Range(cache)

estaEnCache(pid, pagina) == \E e \in EnCache : Es(e, pid, pagina)

getEntradaCache(pid, pagina) ==
  cache[Min({i \in DOMAIN cache : Es(cache[i], pid, pagina)})]

Propias(pid) == {i \in DOMAIN cache : entradas[cache[i]].pid = pid}

\* Mutant: <= where the code has <.
haySiempreUnoMas(pid) ==
  Len(cache) <= ENTRADAS_CACHE /\ Cardinality(Propias(pid)) <= CACHE_X_PROC

hayEspacioEnCache(pid) ==
  Len(cache) < ENTRADAS_CACHE /\ Cardinality(Propias(pid)) < CACHE_X_PROC

\* entradas after incrementarCantidadDeLecturas.
Envejecidas ==
  [e \in Ids |-> IF e \in EnCache
                 THEN [entradas[e] EXCEPT !.lecturas = @ + 1] ELSE entradas[e]]

\* Among its own entries once it has all it may have, else among all: the one
\* read longest ago, and the last in the list of those.
getEntradaMasAntigua(pid, deEntradas) ==
  LET candidatas == IF Cardinality(Propias(pid)) = CACHE_X_PROC
                    THEN Propias(pid) ELSE DOMAIN cache
      lecturas(i) == deEntradas[cache[i]].lecturas
  IN cache[Max({i \in candidatas :
                  \A j \in candidatas : lecturas(j) <= lecturas(i)})]

EntradaNueva == Min(Ids \ (EnCache \cup {hilo[h].entrada : h \in Hilos}))

actualizarCache(pid, pagina, contenido) ==
  /\ estaEnCache(pid, pagina)
  /\ entradas' = [entradas EXCEPT ![getEntradaCache(pid, pagina)].contenido = contenido]
  /\ UNCHANGED cache

Cargada(pid, pagina, contenido) ==
  [pid |-> pid, pagina |-> pagina, lecturas |-> 0, contenido |-> contenido]

agregarACache(pid, pagina, contenido) ==
  /\ ~estaEnCache(pid, pagina)
  /\ hayEspacioEnCache(pid)
  /\ entradas' = [Envejecidas EXCEPT ![EntradaNueva] = Cargada(pid, pagina, contenido)]
  /\ cache' = Append(cache, EntradaNueva)

remplazoLRU(pid, pagina, contenido) ==
  /\ ~estaEnCache(pid, pagina)
  /\ ~hayEspacioEnCache(pid)
  /\ entradas' = [Envejecidas EXCEPT
                    ![getEntradaMasAntigua(pid, Envejecidas)] = Cargada(pid, pagina, contenido)]
  /\ UNCHANGED cache

\* One step: it runs under cacheMutex, and only the release of a process and
\* the readers run meanwhile.
escribirCache(pid, pagina, contenido) ==
  \/ actualizarCache(pid, pagina, contenido)
  \/ agregarACache(pid, pagina, contenido)
  \/ remplazoLRU(pid, pagina, contenido)

----------------------------------------------------------------------------
(* Requests.                                                               *)

Atendido(pid) == \E h \in Hilos : hilo[h].paso # "recibir" /\ hilo[h].pid = pid

Recibe(h, pid) ==
  /\ hilo[h].paso = "recibir"
  /\ pedidos < MaxPedidos
  /\ ~Atendido(pid)
  /\ pedidos' = pedidos + 1

Sigue(h, paso) == hilo' = [hilo EXCEPT ![h].paso = paso]

Contesta(h, codigo, valor) ==
  hilo' = [hilo EXCEPT ![h].paso = "enviar", ![h].codigo = codigo, ![h].valor = valor]

EnviaFallo(h, pid) ==
  hilo' = [hilo EXCEPT ![h] = [EnRecibir EXCEPT !.paso = "enviar", !.pid = pid,
                                                !.codigo = "FALLO"]]

\* Outside the block (frame = Marcos) the bytes are whatever lies after it.
leerFrame(f) == IF f < Marcos THEN {memoria[f]} ELSE Valores

escribirFrame(f, valor) ==
  memoria' = IF f < Marcos THEN [memoria EXCEPT ![f] = valor] ELSE memoria

\* SOLICITAR_BYTES.  excede: offset and tamanio go past the frame.
solicitarBytesDePagina(h, pid, pagina, excede) ==
  /\ Recibe(h, pid)
  /\ vida[pid] = "viva"
  /\ IF excede
     THEN EnviaFallo(h, pid)
     ELSE hilo' = [hilo EXCEPT ![h].pid = pid, ![h].pagina = pagina,
                     ![h].paso = IF CACHE_X_PROC > 0 THEN "mirarCache" ELSE "leerMemoria"]
  /\ UNCHANGED <<datos, laCache, vida, escrito>>

mirarCache(h) ==
  /\ hilo[h].paso = "mirarCache"
  /\ Sigue(h, IF estaEnCache(hilo[h].pid, hilo[h].pagina)
              THEN "leerDeCache" ELSE "leerMemoria")
  /\ UNCHANGED <<datos, laCache, clientes, escrito>>

\* The entry may be gone by now: leerDeCache does not take the mutex.
leerDeCache(h) ==
  /\ hilo[h].paso = "leerDeCache"
  /\ entradas' = Envejecidas
  /\ IF estaEnCache(hilo[h].pid, hilo[h].pagina)
     THEN hilo' = [hilo EXCEPT ![h].paso = "copiar",
                     ![h].entrada = getEntradaCache(hilo[h].pid, hilo[h].pagina)]
     ELSE Contesta(h, "FALLO", 0)
  /\ UNCHANGED <<datos, cache, clientes, escrito>>

copiarDeCache(h) ==
  /\ hilo[h].paso = "copiar"
  /\ entradas' = [entradas EXCEPT ![hilo[h].entrada].lecturas = 0]
  /\ Contesta(h, "BYTES", entradas[hilo[h].entrada].contenido)
  /\ UNCHANGED <<datos, cache, clientes, escrito>>

leerDeMemoria(h) ==
  /\ hilo[h].paso = "leerMemoria"
  /\ LET marco == getEntradaTablaDePaginasHash(tabla, hilo[h].pid, hilo[h].pagina)
     IN IF marco = Fallo
        THEN Contesta(h, "FALLO", 0)
        ELSE \E valor \in leerFrame(marco) :
               IF CACHE_X_PROC > 0
               THEN hilo' = [hilo EXCEPT ![h].paso = "cachear", ![h].valor = valor]
               ELSE Contesta(h, "BYTES", valor)
  /\ UNCHANGED <<datos, laCache, clientes, escrito>>

cachear(h) ==
  /\ hilo[h].paso = "cachear"
  /\ escribirCache(hilo[h].pid, hilo[h].pagina, hilo[h].valor)
  /\ Contesta(h, "BYTES", hilo[h].valor)
  /\ UNCHANGED <<datos, clientes, escrito>>

\* ALMACENAR_BYTES: the frame first, then the copy in the cache, if any.
almacenarBytesEnPagina(h, pid, pagina, valor, excede) ==
  LET marco == getFrameByPIDPagina(tabla, pid, pagina)
  IN /\ Recibe(h, pid)
     /\ vida[pid] = "viva"
     /\ IF marco = Fallo \/ excede
        THEN EnviaFallo(h, pid) /\ UNCHANGED <<memoria, escrito>>
        ELSE /\ escribirFrame(marco, valor)
             /\ escrito' = [escrito EXCEPT ![<<pid, pagina>>] = valor]
             /\ hilo' = [hilo EXCEPT ![h].pid = pid, ![h].pagina = pagina,
                                     ![h].paso = "replicar"]
     /\ UNCHANGED <<config, tabla, ultimaPagina, laCache, vida>>

\* Mutant: the write does not reach the cache.
sinReplicar(h) ==
  /\ hilo[h].paso = "replicar"
  /\ Contesta(h, "OK", 0)
  /\ UNCHANGED <<datos, laCache, clientes, escrito>>

replicarEnCache(h) ==
  /\ hilo[h].paso = "replicar"
  /\ LET marco == getEntradaTablaDePaginasHash(tabla, hilo[h].pid, hilo[h].pagina)
     IN IF estaEnCache(hilo[h].pid, hilo[h].pagina)
        THEN \E valor \in leerFrame(marco) :
               hilo' = [hilo EXCEPT ![h].paso = "actualizar", ![h].valor = valor]
        ELSE Contesta(h, "OK", 0)
  /\ UNCHANGED <<datos, laCache, clientes, escrito>>

actualizar(h) ==
  /\ hilo[h].paso = "actualizar"
  /\ escribirCache(hilo[h].pid, hilo[h].pagina, hilo[h].valor)
  /\ Contesta(h, "OK", 0)
  /\ UNCHANGED <<datos, clientes, escrito>>

enviar(h) ==
  /\ hilo[h].paso = "enviar"
  /\ hilo' = [hilo EXCEPT ![h] = EnRecibir]
  /\ UNCHANGED <<datos, laCache, clientes, escrito>>

----------------------------------------------------------------------------
(* Requests only the Kernel makes: it alone writes the page table.         *)

\* INICIALIZAR_PROCESO.  Both results of paginasDisponibles are true in C: the
\* failure comes from reservarPaginas, which leaves what it had reserved.
inicializarProceso(pid, n) ==
  LET alcanza == Cardinality(Libres(tabla)) >= n
  IN /\ Recibe(Kernel, pid)
     /\ vida[pid] = "sin iniciar"
     /\ tabla' = reservar(tabla, pid, 1, n)
     /\ ultimaPagina' = IF alcanza THEN [ultimaPagina EXCEPT ![pid] = n] ELSE ultimaPagina
     /\ vida' = [vida EXCEPT ![pid] = IF alcanza THEN "viva" ELSE "rechazada"]
     /\ IF alcanza
        THEN hilo' = [hilo EXCEPT ![Kernel].pid = pid, ![Kernel].paso = "enviar",
                                  ![Kernel].codigo = "OK"]
        ELSE EnviaFallo(Kernel, pid)
     /\ UNCHANGED <<config, memoria, laCache, escrito>>

\* Mutant: the last page is not written back.
noRemplaza(pid, n) == UNCHANGED ultimaPagina

\* Mutant: the page that comes after the last one.
remplazaLaSiguiente(pid, n) ==
  ultimaPagina' = [ultimaPagina EXCEPT ![pid] = @ + n + 1]

\* remplazarUltimaPagina at the end of asignarMasPaginasAProceso.
remplazarUltimaPagina(pid, n) ==
  ultimaPagina' = [ultimaPagina EXCEPT ![pid] = @ + n]

\* ASIGNAR_PAGINAS: here the count of free frames is looked at.
asignarPaginasAProceso(pid, n) ==
  /\ Recibe(Kernel, pid)
  /\ vida[pid] = "viva"
  /\ ultimaPagina[pid] + n <= MaxPaginas
  /\ IF paginasDisponibles(tabla, n)
     THEN /\ tabla' = reservar(tabla, pid, ultimaPagina[pid] + 1, n)
          /\ remplazarUltimaPagina(pid, n)
          /\ hilo' = [hilo EXCEPT ![Kernel].pid = pid, ![Kernel].paso = "enviar",
                                  ![Kernel].codigo = "OK"]
     ELSE EnviaFallo(Kernel, pid) /\ UNCHANGED <<tabla, ultimaPagina>>
  /\ UNCHANGED <<config, memoria, laCache, vida, escrito>>

\* FINALIZAR_PROCESO, which has no answer.
finalizarProceso(pid) ==
  /\ Recibe(Kernel, pid)
  /\ vida[pid] \in {"viva", "rechazada"}
  /\ vida' = [vida EXCEPT ![pid] = "terminada"]
  /\ hilo' = [hilo EXCEPT ![Kernel].pid = pid, ![Kernel].paso = "liberarCache"]
  /\ UNCHANGED <<datos, laCache, escrito>>

\* liberarProcesoDeCache, which takes no mutex: first estaEnCachePID ...
liberarProcesoDeCache ==
  /\ hilo[Kernel].paso = "liberarCache"
  /\ Sigue(Kernel, IF Propias(hilo[Kernel].pid) # {} THEN "buscar" ELSE "liberarTabla")
  /\ UNCHANGED <<datos, laCache, clientes, escrito>>

\* ... then a loop over the list while existeProceso, which only a removal
\* looks at again: with no entry of the process left the loop never ends.
buscarEntrada ==
  /\ hilo[Kernel].paso = "buscar"
  /\ \E i \in Propias(hilo[Kernel].pid) :
       hilo' = [hilo EXCEPT ![Kernel].paso = "sacar", ![Kernel].posicion = i]
  /\ UNCHANGED <<datos, laCache, clientes, escrito>>

\* list_remove, which does nothing past the end of the list.
Quedan ==
  IF hilo[Kernel].posicion \in DOMAIN cache
  THEN RemoveAt(cache, hilo[Kernel].posicion) ELSE cache

\* Mutant: existeProceso is not looked at after the removal.
sacarSinMirar ==
  /\ hilo[Kernel].paso = "sacar"
  /\ cache' = Quedan
  /\ hilo' = [hilo EXCEPT ![Kernel].posicion = 0, ![Kernel].paso = "buscar"]
  /\ UNCHANGED <<datos, entradas, clientes, escrito>>

\* The entry in that position goes, whatever it holds by now.
sacarEntrada ==
  LET queda == \E e \in Range(Quedan) : entradas[e].pid = hilo[Kernel].pid
  IN /\ hilo[Kernel].paso = "sacar"
     /\ cache' = Quedan
     /\ hilo' = [hilo EXCEPT ![Kernel].posicion = 0,
                   ![Kernel].paso = IF queda THEN "buscar" ELSE "liberarTabla"]
     /\ UNCHANGED <<datos, entradas, clientes, escrito>>

liberarTabla ==
  /\ hilo[Kernel].paso = "liberarTabla"
  /\ tabla' = Liberar(tabla, hilo[Kernel].pid)
  /\ hilo' = [hilo EXCEPT ![Kernel] = EnRecibir]
  /\ UNCHANGED <<config, ultimaPagina, memoria, laCache, clientes, escrito>>

\* flush, of the operator's console: the list is replaced by an empty one.
flush ==
  /\ ConOperador
  /\ pedidos < MaxPedidos
  /\ pedidos' = pedidos + 1
  /\ cache' = << >>
  /\ UNCHANGED <<datos, entradas, hilo, vida, escrito>>

----------------------------------------------------------------------------

Pedido(h) ==
  \E pid \in PIDs, pagina \in Paginas, excede \in BOOLEAN :
    \/ solicitarBytesDePagina(h, pid, pagina, excede)
    \/ \E valor \in Valores : almacenarBytesEnPagina(h, pid, pagina, valor, excede)

PedidoDelKernel ==
  \E pid \in PIDs :
    \/ \E n \in Paginas : inicializarProceso(pid, n)
    \/ \E n \in Paginas : asignarPaginasAProceso(pid, n)
    \/ finalizarProceso(pid)

Atiende(h) ==
  \/ mirarCache(h) \/ leerDeCache(h) \/ copiarDeCache(h) \/ leerDeMemoria(h)
  \/ cachear(h) \/ replicarEnCache(h) \/ actualizar(h) \/ enviar(h)

Finaliza == liberarProcesoDeCache \/ buscarEntrada \/ sacarEntrada \/ liberarTabla

Next ==
  \/ \E h \in Hilos : Pedido(h) \/ Atiende(h)
  \/ PedidoDelKernel
  \/ Finaliza
  \/ flush

Spec == Init /\ [][Next]_vars

\* Every thread runs; no client has to ask for anything.
SpecJusta == Spec /\ WF_vars(Finaliza) /\ \A h \in Hilos : WF_vars(Atiende(h))

----------------------------------------------------------------------------
(* Properties.                                                             *)

EnBloque(pid, pagina) ==
  \A i \in MarcosDe(tabla, pid, pagina) : i < Marcos

\* The pages of a living process are 1 .. ultimaPagina and each is in one frame:
\* an assignment that follows another never reuses the number of a page.  Once
\* FINALIZAR_PROCESO is served no frame and no entry of the cache belongs to the
\* process, the pages of a reservation that failed half way included.
MarcosDeCadaUno ==
  \A p \in PIDs :
    /\ vida[p] = "viva" =>
         /\ ultimaPagina[p] \in Paginas
         /\ \A g \in Paginas :
              Cardinality(MarcosDe(tabla, p, g)) = IF g <= ultimaPagina[p] THEN 1 ELSE 0
    /\ vida[p] = "terminada" /\ ~Atendido(p) =>
         Propias(p) = {} /\ \A i \in Indices : tabla[i].pid # p

CacheAcotada ==
  /\ Len(cache) <= ENTRADAS_CACHE
  /\ \A p \in PIDs : Cardinality(Propias(p)) <= CACHE_X_PROC
  /\ \A i, j \in DOMAIN cache :
       Es(cache[i], entradas[cache[j]].pid, entradas[cache[j]].pagina) => i = j

\* Whatever threads write, replace and release at once, the cache keeps within
\* ENTRADAS_CACHE and CACHE_X_PROC and has a page once, with the bytes of its
\* frame, except while the thread that wrote the frame has still to replicate them.
CacheCoherente ==
  CacheAcotada /\ \A e \in EnCache :
    LET pid == entradas[e].pid
        pagina == entradas[e].pagina
        marco == getFrameByPIDPagina(tabla, pid, pagina)
    IN \/ ~EnBloque(pid, pagina)
       \/ \E h \in Hilos : hilo[h].pid = pid /\ hilo[h].paso \in {"replicar", "actualizar"}
       \/ marco # Fallo /\ memoria[marco] = entradas[e].contenido

\* The bytes of SOLICITAR_BYTES_OK are the last that were stored in the page
\* (log of hiloCPU.c:78, "fue completado correctamente").
LeeLoUltimo ==
  \A h \in Hilos :
    LET pp == <<hilo[h].pid, hilo[h].pagina>>
    IN hilo[h].codigo = "BYTES" /\ EnBloque(hilo[h].pid, hilo[h].pagina)
       /\ escrito[pp] # -1 => hilo[h].valor = escrito[pp]

\* Every process may have its whole share of the cache at once.
HayLugarParaTodos == CACHE_X_PROC * Cardinality(PIDs) <= ENTRADAS_CACHE

\* With such a cache no entry is replaced by another process, and what is read
\* is what was last stored (entradas are changed in place, cache.c:92).
LeeLoUltimoConLugar == HayLugarParaTodos => LeeLoUltimo

\* With such a cache and no flush, the Kernel's thread always ends the release
\* of a process (log of hiloKernel.c:114, the request FINALIZAR PROCESO "fue
\* completado correctamente").
FinalizarTermina ==
  HayLugarParaTodos /\ ~ConOperador =>
    (hilo[Kernel].paso = "liberarCache" ~> hilo[Kernel].paso = "recibir")

\* Every page is inside the block grandMalloc reserved: frames * frame_size bytes.
PaginaEnElBloque == \A i \in Indices : tabla[i].pid \in PIDs => i < Marcos
=============================================================================
