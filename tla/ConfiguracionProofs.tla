------------------------ MODULE ConfiguracionProofs ------------------------
(***************************************************************************)
(* What Configuracion promises for any number of programs, semaphores and  *)
(* variables, whatever the operator writes in kernel.config and however    *)
(* many times it is reloaded.                                              *)
(***************************************************************************)
EXTENDS Configuracion, ColasProofs, FiniteSetTheorems

-----------------------------------------------------------------------------
(* Types.                                                                  *)

Ops == {"PEDIR_SEMAFORO", "LIBERAR_SEMAFORO", "SOLICITAR_VARIABLE",
        "ESCRIBIR_VARIABLE", "VALOR", "PROGRAMA_BLOQUEADO_SEMAFORO",
        "PEDIDO_SEMAFORO_OK", "PEDIDO_SEMAFORO_FALLO", "SOLICITAR_VARIABLE_OK"}
Nombres == Semaforos \cup Variables \cup {Nulo}
Paquetes == [op : Ops, nombre : Nombres, valor : Nat]
PasosPrograma == {"ejecuta", "wait", "signal", "asigna", "lee", "bloqueado"}
PasosPrincipal == {"select", "pide", "pidePCB", "libera", "solicita", "valor", "escribe"}
PasosNotify == {"lee", "mira", "toma", "otra"}

TipoCarga ==
    /\ archivo \in Archivos /\ config \in Archivos /\ eventos \in Nat
    /\ valor_semaforos \in [DOMAIN config.ids -> Nat]
    /\ cola_semaforos \in [DOMAIN config.ids -> Seq(Procesos)]
    /\ valor_shared_vars \in [config.vars -> Nat]
    /\ cola_ready \in Seq(Procesos)
TipoRed ==
    /\ aKernel \in [Procesos -> Seq(Paquetes)]
    /\ aCPU \in [Procesos -> Seq(Paquetes)]
TipoProgramas ==
    /\ programa \in [Procesos -> [paso : PasosPrograma, nombre : Nombres, valor : Nat]]
    /\ dentro \subseteq Procesos \X Semaforos
TipoHilos ==
    /\ principal \in [paso : PasosPrincipal, proc : Procesos \cup {Nulo},
                      nombre : Nombres, valor : Nat]
    /\ notify \in [paso : PasosNotify, i : Nat, visto : BOOLEAN, restan : Int]
    /\ mutex_config = IF principal.paso = "pidePCB" THEN "principal" ELSE "libre"
TipoHistoria ==
    /\ tomadas \subseteq Procesos \X Semaforos
    /\ heredadas \in [Semaforos -> Nat]
    /\ escrito \in [Variables -> Nat]
    /\ alMirar \subseteq Procesos
Tipos == TipoCarga /\ TipoRed /\ TipoProgramas /\ TipoHilos /\ TipoHistoria

-----------------------------------------------------------------------------
(* Where the last request of a program is: in its socket, after the        *)
(* assignments; in the hands of the main thread; answered.                 *)

EsEscritura(paq) == paq.op \in {"ESCRIBIR_VARIABLE", "VALOR"}
Atiende(t) == principal.paso # "select" /\ principal.proc = t
Partida(t) == principal.paso = "valor" /\ principal.proc = t
Escribiendo(t) == Atiende(t) => principal.paso \in {"valor", "escribe"}

(* A value comes after the packet that names its variable, and only then;  *)
(* the first of a pair may be in the hands of the main thread already.     *)
Alterna(q, p) ==
    \A k \in 1 .. Len(q) :
        q[k].op = "VALOR" <=> (IF k = 1 THEN p ELSE q[k - 1].op = "ESCRIBIR_VARIABLE")
Abierta(q, p) == IF q = <<>> THEN p ELSE q[Len(q)].op = "ESCRIBIR_VARIABLE"

HayEscritura(t) ==
    \/ Atiende(t) /\ principal.paso \in {"valor", "escribe"}
    \/ \E k \in 1 .. Len(aKernel[t]) : EsEscritura(aKernel[t][k])

EnSocket(t, op) ==
    LET q == aKernel[t] IN
    /\ q # <<>> /\ q[Len(q)].op = op /\ q[Len(q)].nombre = programa[t].nombre
    /\ \A k \in 1 .. Len(q) - 1 : EsEscritura(q[k])
    /\ aCPU[t] = <<>> /\ Escribiendo(t)
EnServicio(t, paso) ==
    /\ Atiende(t) /\ principal.paso = paso /\ principal.nombre = programa[t].nombre
    /\ aKernel[t] = <<>> /\ aCPU[t] = <<>>
Contestado(t, op) ==
    /\ ~Atiende(t) /\ aKernel[t] = <<>>
    /\ Len(aCPU[t]) = 1 /\ aCPU[t][1].op = op /\ aCPU[t][1].nombre = programa[t].nombre

Sigue(t) ==
    /\ \A k \in 1 .. Len(aKernel[t]) : EsEscritura(aKernel[t][k])
    /\ aCPU[t] = <<>> /\ Escribiendo(t)
FaseAsigna(t) == Sigue(t) /\ ConCandado(t) /\ programa[t].nombre \in Variables
FaseLee(t) ==
    /\ ConCandado(t) /\ programa[t].nombre \in Variables
    /\ \/ EnSocket(t, "SOLICITAR_VARIABLE") \/ EnServicio(t, "solicita")
       \/ Contestado(t, "SOLICITAR_VARIABLE_OK")
Fuera(t) == \A r \in Semaforos : <<t, r>> \notin dentro
FaseSignal(t) ==
    /\ Fuera(t) /\ programa[t].nombre \in Semaforos
    /\ \/ /\ EnSocket(t, "LIBERAR_SEMAFORO") \/ EnServicio(t, "libera")
          /\ <<t, programa[t].nombre>> \in tomadas
       \/ Contestado(t, "LIBERAR_SEMAFORO")
FaseWait(t) ==
    /\ Fuera(t) /\ programa[t].nombre \in Semaforos
    /\ \/ EnSocket(t, "PEDIR_SEMAFORO") \/ EnServicio(t, "pide")
       \/ /\ Contestado(t, "PEDIDO_SEMAFORO_OK")
          /\ <<t, programa[t].nombre>> \in tomadas
       \/ /\ Atiende(t) /\ principal.paso = "pidePCB"
          /\ principal.nombre = programa[t].nombre
          /\ aKernel[t] = <<>>
          /\ Len(aCPU[t]) = 1 /\ aCPU[t][1].op = "PEDIDO_SEMAFORO_FALLO"
(* Blocked, its PCB in the queue that bloqueoSemaforo chose, or lost.      *)
Dormido(t) ==
    /\ programa[t].paso = "bloqueado"
    /\ aKernel[t] = <<>> /\ ~Atiende(t)
FaseBloqueado(t) ==
    /\ Fuera(t) /\ programa[t].nombre \in Semaforos /\ aCPU[t] = <<>>
    /\ \/ Dormido(t)
       \/ /\ Atiende(t) /\ principal.paso = "pidePCB"
          /\ principal.nombre = programa[t].nombre
          /\ Len(aKernel[t]) = 1 /\ aKernel[t][1].op = "PROGRAMA_BLOQUEADO_SEMAFORO"

Fase(t) ==
    /\ programa[t].paso = "ejecuta" => Sigue(t)
    /\ programa[t].paso = "asigna" => FaseAsigna(t)
    /\ programa[t].paso = "lee" => FaseLee(t)
    /\ programa[t].paso = "signal" => FaseSignal(t)
    /\ programa[t].paso = "wait" => FaseWait(t)
    /\ programa[t].paso = "bloqueado" => FaseBloqueado(t)
Pares(t) ==
    /\ Alterna(aKernel[t], Partida(t))
    /\ Abierta(aKernel[t], Partida(t)) <=> programa[t].paso = "asigna"
(* Assignments are of the program that has Candado, or is about to leave.  *)
ConLicencia(t) ==
    HayEscritura(t) =>
        ConCandado(t) \/ (programa[t].paso = "signal" /\ programa[t].nombre = Candado)
UnaSeccion(t) ==
    \A r, s \in Semaforos : <<t, r>> \in dentro /\ <<t, s>> \in dentro => r = s

Protocolo ==
    /\ principal.paso # "select" => principal.proc \in Procesos
    /\ \A t \in Procesos : Fase(t) /\ Pares(t) /\ ConLicencia(t) /\ UnaSeccion(t)

(* Who waits for a semaphore is asleep, in one queue; who was given a unit *)
(* is in ready.                                                            *)
EnEspera(i, t) == t \in ToSet(cola_semaforos[i])
Esperas ==
    /\ \A i \in DOMAIN cola_semaforos :
        /\ SinRepetidos(cola_semaforos[i])
        /\ \A t \in Procesos :
             EnEspera(i, t) => Dormido(t) /\ programa[t].nombre = config.ids[i]
    /\ SinRepetidos(cola_ready)
    /\ \A t \in Procesos : t \in ToSet(cola_ready) =>
          /\ Dormido(t) /\ t \notin Esperan
          /\ <<t, programa[t].nombre>> \in tomadas

(* The units of a lock.                                                    *)
Unidades ==
    /\ dentro \subseteq tomadas
    /\ \A s \in Semaforos : \A i \in EnSemIds(s) :
         valor_semaforos[i] + Cardinality(Tomada(s)) <= config.inits[i] + heredadas[s]

(* The queues already looked at had none of those who waited.              *)
Mirada ==
    /\ alMirar \subseteq Esperan /\ notify.i >= 1
    /\ notify.paso = "mira" /\ ~notify.visto =>
         \A j \in DOMAIN cola_semaforos :
            j < notify.i => \A t \in alMirar : ~EnEspera(j, t)
    /\ notify.paso = "toma" => alMirar = {}

(* The assignments to x on their way, the one in hand among them: the last *)
(* one has the value of escrito; with none, it is in x already.            *)
NombreDe(t, k) == IF k = 1 THEN principal.nombre ELSE aKernel[t][k - 1].nombre
Viajan(t, x) ==
    {k \in 1 .. Len(aKernel[t]) : aKernel[t][k].op = "VALOR" /\ NombreDe(t, k) = x}
EnMano(t, x) == principal.paso = "escribe" /\ principal.proc = t /\ principal.nombre = x
UnaUnidad ==
    \E i \in EnSemIds(Candado) : config.inits[i] = 1 /\ heredadas[Candado] = 0
EscritoAlDia(x) ==
    /\ (\A t \in Procesos : Viajan(t, x) = {} /\ ~EnMano(t, x)) =>
          valor_shared_vars[x] = escrito[x]
    /\ \A t \in Procesos :
        /\ \A k \in Viajan(t, x) :
             (\A j \in Viajan(t, x) : j <= k) => aKernel[t][k].valor = escrito[x]
        /\ EnMano(t, x) /\ Viajan(t, x) = {} => principal.valor = escrito[x]
LeidoAlDia ==
    \A t \in Procesos : \A k \in 1 .. Len(aCPU[t]) :
        aCPU[t][k].op = "SOLICITAR_VARIABLE_OK" =>
            aCPU[t][k].valor = escrito[aCPU[t][k].nombre]
(* What a program that has still to send the value named.                  *)
Nombrada(t) ==
    programa[t].paso = "asigna" => NombreDe(t, Len(aKernel[t]) + 1) = programa[t].nombre
Variable ==
    /\ \A t \in Procesos : Nombrada(t)
    /\ UnaUnidad => LeidoAlDia /\ \A x \in config.vars : EscritoAlDia(x)

Inv == Tipos /\ Protocolo /\ Esperas /\ Unidades /\ Mirada /\ Variable

-----------------------------------------------------------------------------
(* A file that kernel.config may be. *)
LEMMA DelArchivo ==
  ASSUME NEW f \in Archivos
  PROVE  /\ f.ids \in Seq(Semaforos) /\ f.ids \in [DOMAIN f.ids -> Semaforos]
         /\ DOMAIN f.ids \subseteq Nat
         /\ \A i, j \in DOMAIN f.ids : f.ids[i] = f.ids[j] => i = j
         /\ f.inits \in [DOMAIN f.ids -> Nat]
         /\ f.vars \subseteq Variables
<1>1. /\ f.ids \in Seq(Semaforos) /\ IsInjective(f.ids)
      /\ f.inits \in Seq(Nat) /\ Len(f.inits) = Len(f.ids)
      /\ f.vars \subseteq Variables
  BY ArchivosAssumption
<1>2. /\ DOMAIN f.ids = 1 .. Len(f.ids) /\ DOMAIN f.inits = 1 .. Len(f.inits)
      /\ Len(f.ids) \in Nat
      /\ f.ids \in [DOMAIN f.ids -> Semaforos] /\ f.inits \in [DOMAIN f.inits -> Nat]
  BY <1>1
<1>3. \A i, j \in DOMAIN f.ids : f.ids[i] = f.ids[j] => i = j
  BY <1>1 DEF IsInjective
<1> QED BY <1>1, <1>2, <1>3

(* What an action leaves alone keeps its type. *)
LEMMA Marco ==
  /\ TipoCarga /\ UNCHANGED <<archivo, eventos, config, valor_semaforos, cola_semaforos,
                              valor_shared_vars, cola_ready>> => TipoCarga'
  /\ TipoRed /\ UNCHANGED red => TipoRed'
  /\ TipoProgramas /\ UNCHANGED programas => TipoProgramas'
  /\ TipoHilos /\ UNCHANGED <<principal, notify, mutex_config>> => TipoHilos'
  /\ TipoHistoria /\ UNCHANGED historia => TipoHistoria'
<1>1. TipoCarga /\ UNCHANGED <<archivo, eventos, config, valor_semaforos, cola_semaforos,
                              valor_shared_vars, cola_ready>> => TipoCarga'
  BY DEF TipoCarga
<1>2. TipoRed /\ UNCHANGED red => TipoRed'
  BY DEF TipoRed, red
<1>3. TipoProgramas /\ UNCHANGED programas => TipoProgramas'
  BY DEF TipoProgramas, programas
<1>4. TipoHilos /\ UNCHANGED <<principal, notify, mutex_config>> => TipoHilos'
  BY DEF TipoHilos
<1>5. TipoHistoria /\ UNCHANGED historia => TipoHistoria'
  BY DEF TipoHistoria, historia
<1> QED BY <1>1, <1>2, <1>3, <1>4, <1>5

(* Packets that are sent and read are packets. *)
LEMMA TipoPaquete ==
  ASSUME NEW op \in Ops, NEW nombre \in Nombres, NEW valor \in Nat
  PROVE  t_paquete(op, nombre, valor) \in Paquetes
BY DEF t_paquete, Paquetes

LEMMA TipoEnvia ==
  ASSUME TipoRed, NEW t \in Procesos, NEW paq \in Paquetes, Envia(t, paq)
  PROVE  /\ aKernel' \in [Procesos -> Seq(Paquetes)]
         /\ aKernel'[t] = Append(aKernel[t], paq)
         /\ \A u \in Procesos \ {t} : aKernel'[u] = aKernel[u]
BY DEF TipoRed, Envia

LEMMA TipoLee ==
  ASSUME TipoRed, NEW t \in Procesos, aKernel[t] # <<>>, Lee(t)
  PROVE  /\ aKernel' \in [Procesos -> Seq(Paquetes)]
         /\ aKernel'[t] = Tail(aKernel[t])
         /\ Head(aKernel[t]) \in Paquetes
         /\ \A u \in Procesos \ {t} : aKernel'[u] = aKernel[u]
<1>1. Tail(aKernel[t]) \in Seq(Paquetes) /\ Head(aKernel[t]) \in Paquetes
  BY DEF TipoRed
<1> QED BY <1>1 DEF TipoRed, Lee

LEMMA TipoPasa ==
  ASSUME TipoProgramas, NEW t \in Procesos, NEW paso \in PasosPrograma,
         NEW nombre \in Nombres, NEW valor \in Nat, Pasa(t, paso, nombre, valor)
  PROVE  /\ programa' \in [Procesos -> [paso : PasosPrograma, nombre : Nombres, valor : Nat]]
         /\ programa'[t] = [paso |-> paso, nombre |-> nombre, valor |-> valor]
         /\ \A u \in Procesos \ {t} : programa'[u] = programa[u]
<1> DEFINE R == [paso : PasosPrograma, nombre : Nombres, valor : Nat]
           r == [paso |-> paso, nombre |-> nombre, valor |-> valor]
<1>1. r \in R
  OBVIOUS
<1>2. programa \in [Procesos -> R] /\ programa' = [programa EXCEPT ![t] = r]
  BY DEF TipoProgramas, Pasa
<1> HIDE DEF R, r
<1>3. /\ programa' \in [Procesos -> R] /\ programa'[t] = r
      /\ \A u \in Procesos \ {t} : programa'[u] = programa[u]
  BY <1>1, <1>2
<1> QED BY <1>3 DEF R, r

LEMMA TipoContesta ==
  ASSUME TipoRed, TipoHilos, principal.proc \in Procesos, NEW op \in Ops, NEW valor \in Nat,
         Contesta(op, valor)
  PROVE  /\ aCPU' \in [Procesos -> Seq(Paquetes)]
         /\ aCPU'[principal.proc] = Append(aCPU[principal.proc], t_paquete(op, principal.nombre, valor))
         /\ \A u \in Procesos \ {principal.proc} : aCPU'[u] = aCPU[u]
         /\ principal' = EnSelect
<1>1. t_paquete(op, principal.nombre, valor) \in Paquetes
  BY TipoPaquete DEF TipoHilos
<1> DEFINE paq == t_paquete(op, principal.nombre, valor)
           t == principal.proc
<1>2. aCPU' = [aCPU EXCEPT ![t] = Append(@, paq)] /\ principal' = EnSelect
  BY DEF Contesta
<1> HIDE DEF paq
<1>3. /\ aCPU' \in [Procesos -> Seq(Paquetes)]
      /\ aCPU'[t] = Append(aCPU[t], paq)
      /\ \A u \in Procesos \ {t} : aCPU'[u] = aCPU[u]
  BY <1>1, <1>2 DEF TipoRed, paq
<1> QED BY <1>2, <1>3 DEF paq

-----------------------------------------------------------------------------
(* The protocol of one program, and what it is about.                      *)

Propio(t) == Fase(t) /\ Pares(t) /\ ConLicencia(t) /\ UnaSeccion(t)

(* A step that neither touches the sockets of a program nor the request of *)
(* it that is served leaves it where it was.                               *)
LEMMA Ajeno ==
  ASSUME NEW t \in Procesos, Propio(t),
         programa'[t] = programa[t], aKernel'[t] = aKernel[t], aCPU'[t] = aCPU[t],
         Atiende(t)' <=> Atiende(t), Atiende(t) => UNCHANGED principal,
         \A r \in Semaforos : <<t, r>> \in dentro' <=> <<t, r>> \in dentro,
         \A r \in Semaforos : <<t, r>> \in tomadas => <<t, r>> \in tomadas'
  PROVE  Propio(t)'
<1>1. Partida(t)' = Partida(t)
  BY DEF Partida, Atiende
<1>2. Candado \in Semaforos
  BY ProgramasAssumption
<1>3. (ConCandado(t)' <=> ConCandado(t)) /\ (Fuera(t)' <=> Fuera(t))
  BY <1>2 DEF ConCandado, Fuera
<1>4. Sigue(t)' <=> Sigue(t)
  BY DEF Sigue, Escribiendo
<1>5. \A op : EnSocket(t, op)' <=> EnSocket(t, op)
  BY DEF EnSocket, Escribiendo
<1>6. \A paso : EnServicio(t, paso)' <=> EnServicio(t, paso)
  BY DEF EnServicio
<1>7. \A op : Contestado(t, op)' <=> Contestado(t, op)
  BY DEF Contestado
<1>8. Dormido(t)' <=> Dormido(t)
  BY DEF Dormido
<1>9. Fase(t)'
  <2>1. FaseAsigna(t) => FaseAsigna(t)'
    BY <1>3, <1>4 DEF FaseAsigna
  <2>2. FaseLee(t) => FaseLee(t)'
    BY <1>3, <1>5, <1>6, <1>7 DEF FaseLee
  <2>3. FaseSignal(t) => FaseSignal(t)'
    BY <1>3, <1>5, <1>6, <1>7 DEF FaseSignal
  <2>4. FaseWait(t) => FaseWait(t)'
    BY <1>3, <1>5, <1>6, <1>7 DEF FaseWait
  <2>5. FaseBloqueado(t) => FaseBloqueado(t)'
    BY <1>3, <1>8 DEF FaseBloqueado
  <2> QED BY <1>4, <2>1, <2>2, <2>3, <2>4, <2>5 DEF Fase, Propio
<1>10. Pares(t)'
  BY <1>1 DEF Pares, Propio
<1>11. ConLicencia(t)'
  <2>1. HayEscritura(t)' => HayEscritura(t)
    BY DEF HayEscritura
  <2> QED BY <1>3, <2>1 DEF ConLicencia, Propio
<1>12. UnaSeccion(t)'
  BY DEF UnaSeccion, Propio
<1> QED BY <1>9, <1>10, <1>11, <1>12 DEF Propio

(* A packet after the others, and the first of them taken.                 *)
LEMMA AlternaAppend ==
  ASSUME NEW q \in Seq(Paquetes), NEW p \in BOOLEAN, NEW paq \in Paquetes,
         Alterna(q, p), paq.op = "VALOR" <=> Abierta(q, p)
  PROVE  /\ Alterna(Append(q, paq), p)
         /\ Abierta(Append(q, paq), p) <=> paq.op = "ESCRIBIR_VARIABLE"
<1> DEFINE n == Len(q)
           w == Append(q, paq)
<1>1. /\ n \in Nat /\ Len(w) = n + 1 /\ w[n + 1] = paq
      /\ \A k \in 1 .. n : w[k] = q[k]
      /\ q = <<>> <=> n = 0
      /\ w # <<>>
  OBVIOUS
<1> HIDE DEF n, w
<1>2. Abierta(w, p) <=> paq.op = "ESCRIBIR_VARIABLE"
  BY <1>1 DEF Abierta
<1>3. ASSUME NEW k \in 1 .. Len(w)
      PROVE  w[k].op = "VALOR" <=> (IF k = 1 THEN p ELSE w[k - 1].op = "ESCRIBIR_VARIABLE")
  <2>1. CASE k = n + 1
    <3>1. Abierta(q, p) <=> IF n = 0 THEN p ELSE q[n].op = "ESCRIBIR_VARIABLE"
      BY <1>1 DEF Abierta, n
    <3>2. n # 0 => w[n] = q[n]
      BY <1>1
    <3> QED BY <1>1, <2>1, <3>1, <3>2
  <2>2. CASE k # n + 1
    <3>1. k \in 1 .. n /\ w[k] = q[k] /\ (k # 1 => w[k - 1] = q[k - 1])
      BY <1>1, <2>2
    <3>2. q[k].op = "VALOR" <=> (IF k = 1 THEN p ELSE q[k - 1].op = "ESCRIBIR_VARIABLE")
      BY <3>1 DEF Alterna, n
    <3> QED BY <3>1, <3>2
  <2> QED BY <2>1, <2>2
<1>4. Alterna(w, p)
  BY <1>3 DEF Alterna
<1> QED BY <1>2, <1>4 DEF w

LEMMA AlternaTail ==
  ASSUME NEW q \in Seq(Paquetes), NEW p \in BOOLEAN, q # <<>>, Alterna(q, p)
  PROVE  /\ Head(q) = q[1] /\ Len(Tail(q)) = Len(q) - 1 /\ Len(q) \in Nat
         /\ \A k \in 1 .. Len(q) - 1 : Tail(q)[k] = q[k + 1]
         /\ Head(q).op = "VALOR" <=> p
         /\ Alterna(Tail(q), Head(q).op = "ESCRIBIR_VARIABLE")
         /\ Abierta(Tail(q), Head(q).op = "ESCRIBIR_VARIABLE") <=> Abierta(q, p)
<1> DEFINE n == Len(q)
           w == Tail(q)
           b == (q[1].op = "ESCRIBIR_VARIABLE")
<1>1. /\ n \in Nat /\ n >= 1 /\ Len(w) = n - 1 /\ Head(q) = q[1]
      /\ \A k \in 1 .. n - 1 : w[k] = q[k + 1]
  OBVIOUS
<1>0. w = <<>> <=> n = 1
  <2>1. w \in Seq(Paquetes)
    OBVIOUS
  <2>2. w = <<>> <=> Len(w) = 0
    <3> HIDE DEF w
    <3> QED BY <2>1
  <2> QED BY <1>1, <2>2
<1> HIDE DEF n, w
<1>2. q[1].op = "VALOR" <=> p
  BY <1>1 DEF Alterna, n
<1>3. ASSUME NEW k \in 1 .. Len(w)
      PROVE  w[k].op = "VALOR" <=> (IF k = 1 THEN b ELSE w[k - 1].op = "ESCRIBIR_VARIABLE")
  <2>1. /\ k \in 1 .. n - 1 /\ k + 1 \in 1 .. n /\ k + 1 # 1 /\ (k + 1) - 1 = k
        /\ w[k] = q[k + 1] /\ (k # 1 => w[k - 1] = q[k])
    BY <1>1
  <2>2. q[k + 1].op = "VALOR" <=> q[k].op = "ESCRIBIR_VARIABLE"
    BY <2>1 DEF Alterna, n
  <2> QED BY <2>1, <2>2
<1>4. Alterna(w, b)
  BY <1>3 DEF Alterna
<1>5. Abierta(w, b) <=> Abierta(q, p)
  <2>1. CASE n = 1
    BY <1>0, <1>1, <2>1 DEF Abierta, n
  <2>2. CASE n > 1
    <3>1. w # <<>> /\ w[n - 1] = q[n] /\ Len(w) = n - 1
      BY <1>0, <1>1, <2>2
    <3> QED BY <3>1 DEF Abierta, n
  <2> QED BY <1>1, <2>1, <2>2
<1> QED BY <1>1, <1>2, <1>4, <1>5 DEF n, w

(* A program that sends one more packet. *)
LEMMA Manda ==
  ASSUME TipoRed, NEW t \in Procesos, Sigue(t), Pares(t),
         NEW paq \in Paquetes, Envia(t, paq), UNCHANGED <<principal, aCPU>>,
         paq.op = "VALOR" <=> programa[t].paso = "asigna",
         paq.op = "ESCRIBIR_VARIABLE" <=> programa'[t].paso = "asigna"
  PROVE  /\ Pares(t)'
         /\ EsEscritura(paq) => Sigue(t)'
         /\ ~EsEscritura(paq) /\ paq.nombre = programa'[t].nombre => EnSocket(t, paq.op)'
         /\ ~EsEscritura(paq) => (HayEscritura(t)' <=> HayEscritura(t))
<1> DEFINE q == aKernel[t]
           n == Len(q)
           w == Append(q, paq)
<1>1. q \in Seq(Paquetes)
  BY DEF TipoRed
<1>2. /\ n \in Nat /\ Len(w) = n + 1 /\ w[n + 1] = paq /\ w # <<>>
      /\ \A k \in 1 .. n : w[k] = q[k]
  BY <1>1
<1>3. aKernel'[t] = w
  BY TipoEnvia
<1>4. Partida(t) \in BOOLEAN /\ Partida(t)' = Partida(t)
  BY DEF Partida
<1>5. Alterna(w, Partida(t)) /\ (Abierta(w, Partida(t)) <=> paq.op = "ESCRIBIR_VARIABLE")
  BY <1>1, <1>4, AlternaAppend DEF Pares
<1> HIDE DEF w, n, q
<1>6. Pares(t)'
  BY <1>3, <1>4, <1>5 DEF Pares
<1>7. \A k \in 1 .. n : EsEscritura(w[k])
  BY <1>2 DEF Sigue, q, n
<1>8. aCPU'[t] = <<>> /\ Escribiendo(t)'
  BY DEF Sigue, Escribiendo, Atiende
<1>9. EsEscritura(paq) => Sigue(t)'
  <2> SUFFICES ASSUME EsEscritura(paq) PROVE Sigue(t)'
    OBVIOUS
  <2>1. \A k \in 1 .. Len(w) : EsEscritura(w[k])
    BY <1>2, <1>7
  <2> QED BY <1>3, <1>8, <2>1 DEF Sigue, EsEscritura
<1>10. ~EsEscritura(paq) /\ paq.nombre = programa'[t].nombre => EnSocket(t, paq.op)'
  <2>1. w[Len(w)] = paq /\ Len(w) - 1 = n
    BY <1>2
  <2> QED BY <1>2, <1>3, <1>7, <1>8, <2>1 DEF EnSocket, EsEscritura
<1>11. ~EsEscritura(paq) => (HayEscritura(t)' <=> HayEscritura(t))
  <2> SUFFICES ASSUME ~EsEscritura(paq) PROVE HayEscritura(t)' <=> HayEscritura(t)
    OBVIOUS
  <2>1. (\E k \in 1 .. Len(w) : EsEscritura(w[k])) <=> (\E k \in 1 .. n : EsEscritura(q[k]))
    <3>1. (\E k \in 1 .. Len(w) : EsEscritura(w[k])) => (\E k \in 1 .. n : EsEscritura(q[k]))
      BY <1>2
    <3>2. (\E k \in 1 .. n : EsEscritura(q[k])) => (\E k \in 1 .. Len(w) : EsEscritura(w[k]))
      BY <1>2
    <3> QED BY <3>1, <3>2
  <2> QED BY <1>3, <2>1 DEF HayEscritura, EsEscritura, Atiende, q, n
<1> QED BY <1>6, <1>9, <1>10, <1>11

(* A program that is out of its sections has no assignment on its way. *)
LEMMA SinEscrituras ==
  ASSUME TipoRed, NEW t \in Procesos, Propio(t), Sigue(t), Fuera(t), programa[t].paso # "signal"
  PROVE  ~HayEscritura(t) /\ aKernel[t] = <<>> /\ ~Atiende(t)
<1>1. ~ConCandado(t)
  BY ProgramasAssumption DEF Fuera, ConCandado
<1>2. ~HayEscritura(t)
  BY <1>1 DEF ConLicencia, Propio
<1>3. ~Atiende(t)
  BY <1>2 DEF HayEscritura, Sigue, Escribiendo
<1>4. Len(aKernel[t]) \in Nat /\ (aKernel[t] = <<>> <=> Len(aKernel[t]) = 0)
  BY DEF TipoRed
<1>5. Len(aKernel[t]) # 0 => 1 \in 1 .. Len(aKernel[t])
  BY <1>4
<1>6. aKernel[t] = <<>>
  BY <1>2, <1>4, <1>5 DEF HayEscritura, Sigue
<1> QED BY <1>2, <1>3, <1>6

-----------------------------------------------------------------------------
(* The protocol, action by action: what a program sends.                   *)

LEMMA ProtocoloDef == Protocolo <=>
    /\ principal.paso # "select" => principal.proc \in Procesos
    /\ \A t \in Procesos : Propio(t)
BY DEF Protocolo, Propio

(* Every other program is where it was. *)
LEMMA Otros ==
  ASSUME Protocolo, NEW t \in Procesos, Propio(t)',
         \A u \in Procesos \ {t} :
            /\ programa'[u] = programa[u] /\ aKernel'[u] = aKernel[u] /\ aCPU'[u] = aCPU[u]
            /\ \A r \in Semaforos : <<u, r>> \in dentro' <=> <<u, r>> \in dentro
            /\ \A r \in Semaforos : <<u, r>> \in tomadas => <<u, r>> \in tomadas',
         \/ UNCHANGED principal
         \/ principal.paso = "select" /\ principal'.proc = t
         \/ principal.proc = t /\ (principal'.paso = "select" \/ principal'.proc = t)
  PROVE  Protocolo'
<1>1. principal'.paso # "select" => principal'.proc \in Procesos
  BY DEF Protocolo
<1>2. ASSUME NEW u \in Procesos, u # t
      PROVE  Propio(u)'
  <2>1. Atiende(u)' <=> Atiende(u)
    BY <1>2 DEF Atiende
  <2>2. Atiende(u) => UNCHANGED principal
    BY <1>2 DEF Atiende
  <2>3. Propio(u)
    BY ProtocoloDef
  <2> QED BY <1>2, <2>1, <2>2, <2>3, Ajeno
<1>3. \A u \in Procesos : Propio(u)'
  BY <1>2
<1> QED BY <1>1, <1>3 DEF Protocolo, Propio

LEMMA ProtocoloWait ==
  ASSUME Tipos, Protocolo, NEW t \in Procesos, NEW s \in Semaforos, wait_kernel(t, s)
  PROVE  Protocolo'
<1> DEFINE paq == t_paquete("PEDIR_SEMAFORO", s, 0)
<1>1. paq \in Paquetes /\ paq.op = "PEDIR_SEMAFORO" /\ paq.nombre = s
  <2>1. paq \in Paquetes
    BY TipoPaquete DEF Ops, Nombres
  <2> QED BY <2>1 DEF t_paquete
<1>2. /\ Envia(t, paq) /\ Pasa(t, "wait", s, 0) /\ programa[t].paso = "ejecuta" /\ Fuera(t)
      /\ UNCHANGED <<principal, aCPU, dentro, tomadas>>
  BY DEF wait_kernel, Ejecuta, RestoDelSistema, Fuera, historia
<1> HIDE DEF paq
<1>3. /\ programa'[t] = [paso |-> "wait", nombre |-> s, valor |-> 0]
      /\ \A u \in Procesos \ {t} : programa'[u] = programa[u]
      /\ \A u \in Procesos \ {t} : aKernel'[u] = aKernel[u]
  BY <1>1, <1>2, TipoEnvia, TipoPasa DEF Tipos, PasosPrograma, Nombres
<1>4. Propio(t) /\ Sigue(t) /\ Pares(t)
  BY <1>2, ProtocoloDef DEF Propio, Fase
<1>5. ~HayEscritura(t)
  BY <1>2, <1>4, SinEscrituras DEF Tipos
<1>6. /\ Pares(t)' /\ EnSocket(t, "PEDIR_SEMAFORO")' /\ ~HayEscritura(t)'
  BY <1>1, <1>2, <1>3, <1>4, <1>5, Manda DEF Tipos, EsEscritura
<1>7. Fuera(t)' /\ UnaSeccion(t)'
  BY <1>2 DEF Fuera, UnaSeccion
<1>8. FaseWait(t)'
  BY <1>3, <1>6, <1>7 DEF FaseWait
<1>9. Propio(t)'
  BY <1>3, <1>6, <1>7, <1>8 DEF Propio, Fase, ConLicencia
<1> QED BY <1>2, <1>3, <1>9, Otros

LEMMA ProtocoloSignal ==
  ASSUME Tipos, Protocolo, dentro \subseteq tomadas, NEW t \in Procesos, NEW s \in Semaforos,
         signal_kernel(t, s)
  PROVE  Protocolo'
<1> DEFINE paq == t_paquete("LIBERAR_SEMAFORO", s, 0)
<1>1. paq \in Paquetes /\ paq.op = "LIBERAR_SEMAFORO" /\ paq.nombre = s
  <2>1. paq \in Paquetes
    BY TipoPaquete DEF Ops, Nombres
  <2> QED BY <2>1 DEF t_paquete
<1>2. /\ Envia(t, paq) /\ Pasa(t, "signal", s, 0) /\ programa[t].paso = "ejecuta"
      /\ <<t, s>> \in dentro /\ dentro' = dentro \ {<<t, s>>}
      /\ UNCHANGED <<principal, aCPU, tomadas>>
  BY DEF signal_kernel, Ejecuta, RestoDelSistema, historia
<1> HIDE DEF paq
<1>3. /\ programa'[t] = [paso |-> "signal", nombre |-> s, valor |-> 0]
      /\ \A u \in Procesos \ {t} : programa'[u] = programa[u]
      /\ \A u \in Procesos \ {t} : aKernel'[u] = aKernel[u]
  BY <1>1, <1>2, TipoEnvia, TipoPasa DEF Tipos, PasosPrograma, Nombres
<1>4. Propio(t) /\ Sigue(t) /\ Pares(t) /\ UnaSeccion(t) /\ ConLicencia(t)
  BY <1>2, ProtocoloDef DEF Propio, Fase
<1>5. /\ Pares(t)' /\ EnSocket(t, "LIBERAR_SEMAFORO")' /\ (HayEscritura(t)' <=> HayEscritura(t))
  BY <1>1, <1>2, <1>3, <1>4, Manda DEF Tipos, EsEscritura
<1>6. Fuera(t)' /\ UnaSeccion(t)'
  BY <1>2, <1>4 DEF Fuera, UnaSeccion
<1>7. FaseSignal(t)'
  BY <1>2, <1>3, <1>5, <1>6 DEF FaseSignal
<1>8. ConLicencia(t)'
  <2>1. HayEscritura(t) => ConCandado(t)
    BY <1>2, <1>4 DEF ConLicencia
  <2>2. HayEscritura(t) => s = Candado
    BY <1>2, <1>4, <2>1, ProgramasAssumption DEF UnaSeccion, ConCandado
  <2> QED BY <1>3, <1>5, <2>2 DEF ConLicencia
<1>9. Propio(t)'
  BY <1>3, <1>5, <1>6, <1>7, <1>8 DEF Propio, Fase
<1>10. \A u \in Procesos \ {t} : \A r \in Semaforos : <<u, r>> \in dentro' <=> <<u, r>> \in dentro
  BY <1>2
<1> QED BY <1>2, <1>3, <1>9, <1>10, Otros

LEMMA ProtocoloAsigna ==
  ASSUME Tipos, Protocolo, NEW t \in Procesos, NEW x \in Variables, NEW v \in Valores,
         asignarValorCompartida(t, x, v)
  PROVE  Protocolo'
<1> DEFINE paq == t_paquete("ESCRIBIR_VARIABLE", x, 0)
<1>1. paq \in Paquetes /\ paq.op = "ESCRIBIR_VARIABLE" /\ paq.nombre = x
  <2>1. paq \in Paquetes
    BY TipoPaquete DEF Ops, Nombres
  <2> QED BY <2>1 DEF t_paquete
<1>2. /\ Envia(t, paq) /\ Pasa(t, "asigna", x, v) /\ programa[t].paso = "ejecuta"
      /\ ConCandado(t)
      /\ UNCHANGED <<principal, aCPU, tomadas, dentro>>
  BY DEF asignarValorCompartida, Ejecuta, RestoDelSistema, historia
<1> HIDE DEF paq
<1>3. /\ programa'[t] = [paso |-> "asigna", nombre |-> x, valor |-> v]
      /\ \A u \in Procesos \ {t} : programa'[u] = programa[u]
      /\ \A u \in Procesos \ {t} : aKernel'[u] = aKernel[u]
  <2>1. v \in Nat
    BY ProgramasAssumption
  <2> QED BY <2>1, <1>1, <1>2, TipoEnvia, TipoPasa DEF Tipos, PasosPrograma, Nombres
<1>4. Propio(t) /\ Sigue(t) /\ Pares(t) /\ UnaSeccion(t)
  BY <1>2, ProtocoloDef DEF Propio, Fase
<1>5. Pares(t)' /\ Sigue(t)'
  BY <1>1, <1>2, <1>3, <1>4, Manda DEF Tipos, EsEscritura
<1>6. ConCandado(t)' /\ UnaSeccion(t)'
  BY <1>2, <1>4 DEF ConCandado, UnaSeccion
<1>7. FaseAsigna(t)'
  BY <1>3, <1>5, <1>6 DEF FaseAsigna
<1>8. Propio(t)'
  BY <1>3, <1>5, <1>6, <1>7 DEF Propio, Fase, ConLicencia
<1> QED BY <1>2, <1>3, <1>8, Otros

LEMMA ProtocoloValor ==
  ASSUME Tipos, Protocolo, NEW t \in Procesos, enviarValor(t)
  PROVE  Protocolo'
<1> DEFINE paq == t_paquete("VALOR", Nulo, programa[t].valor)
<1>1. paq \in Paquetes /\ paq.op = "VALOR"
  <2>1. paq \in Paquetes
    BY TipoPaquete DEF Ops, Nombres, Tipos, TipoProgramas
  <2> QED BY <2>1 DEF t_paquete
<1>2. /\ Envia(t, paq) /\ Pasa(t, "ejecuta", Nulo, 0) /\ programa[t].paso = "asigna"
      /\ UNCHANGED <<principal, aCPU, tomadas, dentro>>
  BY DEF enviarValor, RestoDelSistema
<1> HIDE DEF paq
<1>3. /\ programa'[t] = [paso |-> "ejecuta", nombre |-> Nulo, valor |-> 0]
      /\ \A u \in Procesos \ {t} : programa'[u] = programa[u]
      /\ \A u \in Procesos \ {t} : aKernel'[u] = aKernel[u]
  <2>1. \A u \in Procesos \ {t} : aKernel'[u] = aKernel[u]
    BY <1>1, <1>2, TipoEnvia DEF Tipos
  <2>2. "ejecuta" \in PasosPrograma /\ Nulo \in Nombres /\ 0 \in Nat /\ TipoProgramas
    BY DEF Tipos, PasosPrograma, Nombres
  <2>3. /\ programa'[t] = [paso |-> "ejecuta", nombre |-> Nulo, valor |-> 0]
        /\ \A u \in Procesos \ {t} : programa'[u] = programa[u]
    BY <1>2, <2>2, TipoPasa
  <2> QED BY <2>1, <2>3
<1>4. Propio(t) /\ Sigue(t) /\ Pares(t) /\ UnaSeccion(t) /\ ConCandado(t)
  BY <1>2, ProtocoloDef DEF Propio, Fase, FaseAsigna
<1>5. Pares(t)' /\ Sigue(t)'
  BY <1>1, <1>2, <1>3, <1>4, Manda DEF Tipos, EsEscritura
<1>6. ConCandado(t)' /\ UnaSeccion(t)'
  BY <1>2, <1>4 DEF ConCandado, UnaSeccion
<1>7. Propio(t)'
  BY <1>3, <1>5, <1>6 DEF Propio, Fase, ConLicencia
<1> QED BY <1>2, <1>3, <1>7, Otros

LEMMA ProtocoloObtiene ==
  ASSUME Tipos, Protocolo, NEW t \in Procesos, NEW x \in Variables,
         obtenerValorCompartida(t, x)
  PROVE  Protocolo'
<1> DEFINE paq == t_paquete("SOLICITAR_VARIABLE", x, 0)
<1>1. paq \in Paquetes /\ paq.op = "SOLICITAR_VARIABLE" /\ paq.nombre = x
  <2>1. paq \in Paquetes
    BY TipoPaquete DEF Ops, Nombres
  <2> QED BY <2>1 DEF t_paquete
<1>2. /\ Envia(t, paq) /\ Pasa(t, "lee", x, 0) /\ programa[t].paso = "ejecuta"
      /\ ConCandado(t)
      /\ UNCHANGED <<principal, aCPU, tomadas, dentro>>
  BY DEF obtenerValorCompartida, Ejecuta, RestoDelSistema, historia
<1> HIDE DEF paq
<1>3. /\ programa'[t] = [paso |-> "lee", nombre |-> x, valor |-> 0]
      /\ \A u \in Procesos \ {t} : programa'[u] = programa[u]
      /\ \A u \in Procesos \ {t} : aKernel'[u] = aKernel[u]
  BY <1>1, <1>2, TipoEnvia, TipoPasa DEF Tipos, PasosPrograma, Nombres
<1>4. Propio(t) /\ Sigue(t) /\ Pares(t) /\ UnaSeccion(t)
  BY <1>2, ProtocoloDef DEF Propio, Fase
<1>5. Pares(t)' /\ EnSocket(t, "SOLICITAR_VARIABLE")'
  BY <1>1, <1>2, <1>3, <1>4, Manda DEF Tipos, EsEscritura
<1>6. ConCandado(t)' /\ UnaSeccion(t)'
  BY <1>2, <1>4 DEF ConCandado, UnaSeccion
<1>7. FaseLee(t)'
  BY <1>3, <1>5, <1>6 DEF FaseLee
<1>8. Propio(t)'
  BY <1>3, <1>5, <1>6, <1>7 DEF Propio, Fase, ConLicencia
<1> QED BY <1>2, <1>3, <1>8, Otros

(* What a program has to read, and when. *)
LEMMA Respuesta ==
  ASSUME Tipos, NEW t \in Procesos, Propio(t), aCPU[t] # <<>>
  PROVE  /\ Len(aCPU[t]) = 1 /\ Head(aCPU[t]) = aCPU[t][1] /\ Tail(aCPU[t]) = <<>>
         /\ aKernel[t] = <<>>
         /\ \/ /\ programa[t].paso = "lee" /\ FaseLee(t)
               /\ Contestado(t, "SOLICITAR_VARIABLE_OK")
            \/ /\ programa[t].paso = "signal" /\ FaseSignal(t)
               /\ Contestado(t, "LIBERAR_SEMAFORO")
            \/ /\ programa[t].paso = "wait" /\ FaseWait(t)
               /\ Contestado(t, "PEDIDO_SEMAFORO_OK")
               /\ <<t, programa[t].nombre>> \in tomadas
            \/ /\ programa[t].paso = "wait" /\ FaseWait(t)
               /\ aCPU[t][1].op = "PEDIDO_SEMAFORO_FALLO"
               /\ Atiende(t) /\ principal.paso = "pidePCB"
               /\ principal.nombre = programa[t].nombre
<1>1. programa[t].paso \in PasosPrograma
  BY DEF Tipos, TipoProgramas
<1>2. programa[t].paso \in {"lee", "signal", "wait"}
  BY <1>1 DEF Propio, Fase, PasosPrograma, Sigue, FaseAsigna, FaseBloqueado
<1>3. /\ Len(aCPU[t]) = 1 /\ aKernel[t] = <<>>
      /\ \/ /\ programa[t].paso = "lee" /\ FaseLee(t)
            /\ Contestado(t, "SOLICITAR_VARIABLE_OK")
         \/ /\ programa[t].paso = "signal" /\ FaseSignal(t)
            /\ Contestado(t, "LIBERAR_SEMAFORO")
         \/ /\ programa[t].paso = "wait" /\ FaseWait(t)
            /\ Contestado(t, "PEDIDO_SEMAFORO_OK")
            /\ <<t, programa[t].nombre>> \in tomadas
         \/ /\ programa[t].paso = "wait" /\ FaseWait(t)
            /\ aCPU[t][1].op = "PEDIDO_SEMAFORO_FALLO"
            /\ Atiende(t) /\ principal.paso = "pidePCB"
            /\ principal.nombre = programa[t].nombre
  <2>1. CASE programa[t].paso = "lee"
    BY <2>1 DEF Propio, Fase, FaseLee, EnSocket, EnServicio, Contestado
  <2>2. CASE programa[t].paso = "signal"
    BY <2>2 DEF Propio, Fase, FaseSignal, EnSocket, EnServicio, Contestado
  <2>3. CASE programa[t].paso = "wait"
    BY <2>3 DEF Propio, Fase, FaseWait, EnSocket, EnServicio, Contestado
  <2> QED BY <1>2, <2>1, <2>2, <2>3
<1>4. Head(aCPU[t]) = aCPU[t][1] /\ Tail(aCPU[t]) = <<>>
  <2>1. aCPU[t] \in Seq(Paquetes)
    BY DEF Tipos, TipoRed
  <2>2. Tail(aCPU[t]) \in Seq(Paquetes) /\ Len(Tail(aCPU[t])) = 0
    BY <1>3, <2>1
  <2>3. Tail(aCPU[t]) = <<>>
    BY <2>2, EmptySeq
  <2> QED BY <2>1, <2>3
<1> QED BY <1>3, <1>4

LEMMA ProtocoloRespuesta ==
  ASSUME Tipos, Protocolo, NEW t \in Procesos, recibirRespuesta(t)
  PROVE  Protocolo'
<1> DEFINE s == programa[t].nombre
           paq == Head(aCPU[t])
           b == t_paquete("PROGRAMA_BLOQUEADO_SEMAFORO", s, 0)
<1>1. Propio(t) /\ aCPU[t] # <<>> /\ s \in Nombres
  BY ProtocoloDef DEF recibirRespuesta, Tipos, TipoProgramas
<1>2. b \in Paquetes /\ b.op = "PROGRAMA_BLOQUEADO_SEMAFORO"
  <2>1. b \in Paquetes
    BY <1>1, TipoPaquete DEF Ops
  <2> QED BY <2>1 DEF t_paquete
<1>3. /\ aCPU'[t] = <<>> /\ \A u \in Procesos \ {t} : aCPU'[u] = aCPU[u]
  <2>1. aCPU' = [aCPU EXCEPT ![t] = Tail(@)]
    BY DEF recibirRespuesta
  <2> QED BY <1>1, <2>1, Respuesta DEF Tipos, TipoRed
<1>4. UNCHANGED <<principal, tomadas>>
  BY DEF recibirRespuesta, RestoDelSistema, historia
<1>5. UnaSeccion(t) /\ Pares(t) /\ ConLicencia(t)
  BY <1>1 DEF Propio
<1>6. CASE paq.op = "PEDIDO_SEMAFORO_FALLO"
  <2>1. /\ programa[t].paso = "wait" /\ FaseWait(t) /\ aKernel[t] = <<>>
        /\ Atiende(t) /\ principal.paso = "pidePCB" /\ principal.nombre = s
    BY <1>1, <1>6, Respuesta DEF Contestado
  <2>2. /\ Pasa(t, "bloqueado", s, 0) /\ Envia(t, b) /\ UNCHANGED dentro
    BY <1>6 DEF recibirRespuesta
  <2> HIDE DEF b, s
  <2>3. /\ programa'[t] = [paso |-> "bloqueado", nombre |-> s, valor |-> 0]
        /\ \A u \in Procesos \ {t} : programa'[u] = programa[u]
        /\ aKernel'[t] = Append(<<>>, b)
        /\ \A u \in Procesos \ {t} : aKernel'[u] = aKernel[u]
    BY <1>1, <1>2, <2>1, <2>2, TipoEnvia, TipoPasa DEF Tipos, PasosPrograma
  <2>4. Append(<<>>, b) = <<b>> /\ Len(<<b>>) = 1 /\ <<b>>[1] = b /\ <<b>> # <<>>
    OBVIOUS
  <2>5. Fuera(t)' /\ s \in Semaforos
    BY <2>1, <2>2 DEF FaseWait, Fuera, s
  <2>6. FaseBloqueado(t)'
    BY <1>2, <1>3, <1>4, <2>1, <2>3, <2>4, <2>5 DEF FaseBloqueado, Atiende
  <2>7. Pares(t)'
    <3>1. Partida(t)' = FALSE
      BY <1>4, <2>1 DEF Partida
    <3>2. Alterna(<<b>>, FALSE) /\ ~Abierta(<<b>>, FALSE)
      BY <1>2, <2>4 DEF Alterna, Abierta
    <3>3. aKernel'[t] = <<b>> /\ programa'[t].paso # "asigna"
      BY <2>3, <2>4
    <3> QED BY <3>1, <3>2, <3>3, Zenon DEF Pares
  <2>8. ~HayEscritura(t)'
    BY <1>2, <1>4, <2>1, <2>3, <2>4 DEF HayEscritura, EsEscritura
  <2>9. Propio(t)'
    BY <1>5, <2>2, <2>3, <2>6, <2>7, <2>8 DEF Propio, Fase, ConLicencia, UnaSeccion
  <2> QED BY <1>3, <1>4, <2>2, <2>3, <2>9, Otros
<1>7. CASE paq.op # "PEDIDO_SEMAFORO_FALLO"
  <2>1. /\ aKernel[t] = <<>> /\ ~Atiende(t)
        /\ \/ programa[t].paso = "lee" /\ paq.op = "SOLICITAR_VARIABLE_OK"
           \/ programa[t].paso = "signal" /\ Fuera(t) /\ paq.op = "LIBERAR_SEMAFORO"
           \/ programa[t].paso = "wait" /\ Fuera(t) /\ paq.op = "PEDIDO_SEMAFORO_OK"
    BY <1>1, <1>7, Respuesta DEF Contestado, FaseSignal, FaseWait
  <2>2. Pasa(t, "ejecuta", Nulo, 0) /\ UNCHANGED aKernel
    BY <1>7 DEF recibirRespuesta
  <2>3. dentro' = IF paq.op = "PEDIDO_SEMAFORO_OK" THEN dentro \cup {<<t, s>>} ELSE dentro
    BY DEF recibirRespuesta
  <2> HIDE DEF b, s, paq
  <2>4. /\ programa'[t] = [paso |-> "ejecuta", nombre |-> Nulo, valor |-> 0]
        /\ \A u \in Procesos \ {t} : programa'[u] = programa[u]
    BY <2>2, TipoPasa DEF Tipos, PasosPrograma, Nombres
  <2>5. ~HayEscritura(t)' /\ Sigue(t)'
    BY <1>3, <1>4, <2>1, <2>2 DEF HayEscritura, Sigue, Escribiendo, Atiende
  <2>6. Pares(t)'
    BY <1>4, <1>5, <2>1, <2>2, <2>4 DEF Pares, Partida, Atiende, Alterna, Abierta
  <2>7. UnaSeccion(t)'
    BY <1>5, <2>1, <2>3 DEF UnaSeccion, Fuera
  <2>8. Propio(t)'
    BY <2>4, <2>5, <2>6, <2>7 DEF Propio, Fase, ConLicencia
  <2>9. \A u \in Procesos \ {t} : \A r \in Semaforos : <<u, r>> \in dentro' <=> <<u, r>> \in dentro
    BY <2>3
  <2> QED BY <1>3, <1>4, <2>2, <2>4, <2>8, <2>9, Otros
<1> QED BY <1>6, <1>7

-----------------------------------------------------------------------------
(* What the main thread reads and answers.                                 *)

(* The packet that heads a socket when it is not of an assignment. *)
LEMMA Pedido ==
  ASSUME Tipos, NEW t \in Procesos, Propio(t), aKernel[t] # <<>>, ~EsEscritura(Head(aKernel[t]))
  PROVE  /\ HayEscritura(t) => Atiende(t)
         /\ Tail(aKernel[t]) = <<>> /\ aCPU[t] = <<>>
         /\ \A k \in 1 .. Len(aKernel[t]) : ~EsEscritura(aKernel[t][k])
         /\ \/ /\ programa[t].paso = "lee" /\ FaseLee(t) /\ EnSocket(t, "SOLICITAR_VARIABLE")
               /\ Head(aKernel[t]).op = "SOLICITAR_VARIABLE"
               /\ Head(aKernel[t]).nombre = programa[t].nombre
            \/ /\ programa[t].paso = "signal" /\ FaseSignal(t) /\ EnSocket(t, "LIBERAR_SEMAFORO")
               /\ Head(aKernel[t]).op = "LIBERAR_SEMAFORO"
               /\ Head(aKernel[t]).nombre = programa[t].nombre
               /\ <<t, programa[t].nombre>> \in tomadas
            \/ /\ programa[t].paso = "wait" /\ FaseWait(t) /\ EnSocket(t, "PEDIR_SEMAFORO")
               /\ Head(aKernel[t]).op = "PEDIR_SEMAFORO"
               /\ Head(aKernel[t]).nombre = programa[t].nombre
            \/ /\ programa[t].paso = "bloqueado" /\ FaseBloqueado(t)
               /\ Head(aKernel[t]).op = "PROGRAMA_BLOQUEADO_SEMAFORO"
               /\ Atiende(t) /\ principal.paso = "pidePCB"
               /\ principal.nombre = programa[t].nombre
<1> DEFINE q == aKernel[t]
<1>1. /\ q \in Seq(Paquetes) /\ Len(q) \in Nat /\ Len(q) >= 1 /\ Head(q) = q[1] /\ 1 \in 1 .. Len(q)
  <2>1. q \in Seq(Paquetes)
    BY DEF Tipos, TipoRed
  <2> QED BY <2>1
<1>2. programa[t].paso \in PasosPrograma
  BY DEF Tipos, TipoProgramas
<1>3. ~Sigue(t)
  BY <1>1 DEF Sigue
<1>4. ASSUME NEW op, EnSocket(t, op)
      PROVE  Len(q) = 1
  <2>1. \A k \in 1 .. Len(q) - 1 : EsEscritura(q[k])
    BY <1>4 DEF EnSocket
  <2>2. ~(1 \in 1 .. Len(q) - 1)
    BY <1>1, <2>1
  <2> DEFINE n == Len(q)
  <2>3. n \in Nat /\ n >= 1 /\ ~(1 \in 1 .. n - 1)
    BY <1>1, <2>2
  <2> HIDE DEF n
  <2>4. n = 1
    BY <2>3
  <2> QED BY <2>4 DEF n
<1>5. programa[t].paso \in {"lee", "signal", "wait", "bloqueado"}
  BY <1>2, <1>3 DEF Propio, Fase, PasosPrograma, FaseAsigna
<1>6. /\ Len(q) = 1 /\ aCPU[t] = <<>>
      /\ \/ /\ programa[t].paso = "lee" /\ FaseLee(t) /\ EnSocket(t, "SOLICITAR_VARIABLE")
            /\ q[1].op = "SOLICITAR_VARIABLE"
            /\ q[1].nombre = programa[t].nombre
         \/ /\ programa[t].paso = "signal" /\ FaseSignal(t) /\ EnSocket(t, "LIBERAR_SEMAFORO")
            /\ q[1].op = "LIBERAR_SEMAFORO"
            /\ q[1].nombre = programa[t].nombre
            /\ <<t, programa[t].nombre>> \in tomadas
         \/ /\ programa[t].paso = "wait" /\ FaseWait(t) /\ EnSocket(t, "PEDIR_SEMAFORO")
            /\ q[1].op = "PEDIR_SEMAFORO"
            /\ q[1].nombre = programa[t].nombre
         \/ /\ programa[t].paso = "bloqueado" /\ FaseBloqueado(t)
            /\ q[1].op = "PROGRAMA_BLOQUEADO_SEMAFORO"
            /\ Atiende(t) /\ principal.paso = "pidePCB"
            /\ principal.nombre = programa[t].nombre
  <2>1. CASE programa[t].paso = "lee"
    BY <1>4, <2>1 DEF Propio, Fase, FaseLee, EnSocket, EnServicio, Contestado
  <2>2. CASE programa[t].paso = "signal"
    BY <1>4, <2>2 DEF Propio, Fase, FaseSignal, EnSocket, EnServicio, Contestado
  <2>3. CASE programa[t].paso = "wait"
    BY <1>4, <2>3 DEF Propio, Fase, FaseWait, EnSocket, EnServicio, Contestado
  <2>4. CASE programa[t].paso = "bloqueado"
    BY <2>4 DEF Propio, Fase, FaseBloqueado, Dormido
  <2> QED BY <1>5, <2>1, <2>2, <2>3, <2>4
<1>7. Tail(q) = <<>>
  <2>1. Tail(q) \in Seq(Paquetes) /\ Len(Tail(q)) = 0
    BY <1>1, <1>6
  <2> QED BY <2>1, EmptySeq
<1>8. \A k \in 1 .. Len(q) : ~EsEscritura(q[k])
  BY <1>1, <1>6
<1>9. HayEscritura(t) => Atiende(t)
  BY <1>8 DEF HayEscritura
<1> QED BY <1>1, <1>6, <1>7, <1>8, <1>9

(* The main thread takes the first packet, or the value, of an assignment. *)
LEMMA TomaEscritura ==
  ASSUME Tipos, NEW t \in Procesos, Propio(t), aKernel[t] # <<>>,
         EsEscritura(Head(aKernel[t])), aKernel'[t] = Tail(aKernel[t]),
         UNCHANGED <<aCPU, programa, dentro, tomadas>>,
         principal'.proc = t,
         principal'.paso = IF Head(aKernel[t]).op = "ESCRIBIR_VARIABLE" THEN "valor" ELSE "escribe",
         Escribiendo(t)
  PROVE  Propio(t)'
<1> DEFINE q == aKernel[t]
           n == Len(q)
           w == Tail(q)
           p == Partida(t)
<1>0. q \in Seq(Paquetes) /\ q # <<>> /\ p \in BOOLEAN
  BY DEF Tipos, TipoRed, Partida
<1>1. /\ Head(q) = q[1] /\ Len(w) = n - 1 /\ n \in Nat
      /\ \A k \in 1 .. n - 1 : w[k] = q[k + 1]
      /\ Alterna(w, Head(q).op = "ESCRIBIR_VARIABLE")
      /\ Abierta(w, Head(q).op = "ESCRIBIR_VARIABLE") <=> Abierta(q, p)
  BY <1>0, AlternaTail DEF Propio, Pares
<1>2. n >= 1 /\ (w = <<>> <=> n = 1) /\ aKernel'[t] = w
  <2>1. n >= 1 /\ w \in Seq(Paquetes)
    BY <1>0
  <2>2. w = <<>> <=> Len(w) = 0
    <3> HIDE DEF w
    <3> QED BY <2>1
  <2> QED BY <1>1, <2>1, <2>2
<1>3. Partida(t)' = (Head(q).op = "ESCRIBIR_VARIABLE")
  BY DEF Partida
<1>4. Pares(t)'
  BY <1>1, <1>2, <1>3 DEF Propio, Pares
<1> HIDE DEF n, w, p
<1>5. Escribiendo(t)'
  BY DEF Escribiendo
<1>6. Sigue(t) => Sigue(t)'
  <2> SUFFICES ASSUME Sigue(t) PROVE Sigue(t)'
    OBVIOUS
  <2>1. \A k \in 1 .. n : EsEscritura(q[k])
    BY DEF Sigue, n
  <2>2. \A k \in 1 .. n - 1 : k + 1 \in 1 .. n
    BY <1>1
  <2>3. \A k \in 1 .. Len(w) : EsEscritura(w[k])
    BY <1>1, <2>1, <2>2
  <2> QED BY <1>2, <1>5, <2>3 DEF Sigue, EsEscritura
<1>7. ASSUME NEW op, op \notin {"ESCRIBIR_VARIABLE", "VALOR"}, EnSocket(t, op)
      PROVE  EnSocket(t, op)'
  <2>1. n # 1
    BY <1>1, <1>7 DEF EnSocket, EsEscritura, n
  <2>2. w # <<>> /\ w[Len(w)] = q[n]
    <3>1. n - 1 \in 1 .. n - 1 /\ (n - 1) + 1 = n
      BY <1>1, <1>2, <2>1
    <3> QED BY <1>1, <1>2, <2>1, <3>1
  <2>3. \A k \in 1 .. n - 1 : EsEscritura(q[k])
    BY <1>7 DEF EnSocket, n
  <2>4. \A k \in 1 .. Len(w) - 1 : k \in 1 .. n - 1 /\ k + 1 \in 1 .. n - 1
    BY <1>1
  <2>5. \A k \in 1 .. Len(w) - 1 : EsEscritura(w[k])
    BY <1>1, <2>3, <2>4
  <2> QED BY <1>2, <1>5, <1>7, <2>2, <2>5 DEF EnSocket, EsEscritura, n
<1>8. q # <<>> /\ q[1].op # "PROGRAMA_BLOQUEADO_SEMAFORO"
  BY <1>1 DEF EsEscritura
<1>9. Fase(t)'
  <2>1. ConCandado(t)' = ConCandado(t) /\ Fuera(t)' = Fuera(t)
    BY DEF ConCandado, Fuera
  <2>2. FaseAsigna(t) => FaseAsigna(t)'
    BY <1>6, <2>1 DEF FaseAsigna
  <2>3. FaseLee(t) => FaseLee(t)'
    BY <1>7, <1>8, <2>1 DEF FaseLee, EnServicio, Contestado
  <2>4. FaseSignal(t) => FaseSignal(t)'
    BY <1>7, <1>8, <2>1 DEF FaseSignal, EnServicio, Contestado
  <2>5. FaseWait(t) => FaseWait(t)'
    BY <1>7, <1>8, <2>1 DEF FaseWait, EnServicio, Contestado
  <2>6. ~FaseBloqueado(t)
    BY <1>8 DEF FaseBloqueado, Dormido
  <2> QED BY <1>6, <2>2, <2>3, <2>4, <2>5, <2>6 DEF Fase, Propio
<1>10. HayEscritura(t)
  <2>1. 1 \in 1 .. Len(aKernel[t]) /\ EsEscritura(aKernel[t][1])
    BY <1>1, <1>2 DEF n
  <2> QED BY <2>1 DEF HayEscritura
<1>11. ConLicencia(t)' /\ UnaSeccion(t)'
  BY <1>10 DEF ConLicencia, UnaSeccion, Propio, ConCandado
<1> QED BY <1>4, <1>9, <1>11 DEF Propio

LEMMA ProtocoloSirve ==
  ASSUME Tipos, Protocolo, NEW t \in Procesos, NEW op, NEW paso,
         Llega(t, op), Sirve(t, paso),
         <<op, paso>> \in {<<"PEDIR_SEMAFORO", "pide">>, <<"LIBERAR_SEMAFORO", "libera">>,
                           <<"SOLICITAR_VARIABLE", "solicita">>, <<"ESCRIBIR_VARIABLE", "valor">>}
  PROVE  Protocolo'
<1>1. Propio(t) /\ aKernel[t] # <<>> /\ Head(aKernel[t]).op = op /\ ~Atiende(t)
  BY ProtocoloDef DEF Llega, Atiende
<1>2. /\ aKernel'[t] = Tail(aKernel[t]) /\ \A u \in Procesos \ {t} : aKernel'[u] = aKernel[u]
      /\ UNCHANGED <<aCPU, programa, dentro, tomadas>>
  <2>1. Lee(t) /\ UNCHANGED <<aCPU, programa, dentro, tomadas>>
    BY DEF Sirve, programas, historia
  <2> QED BY <1>1, <2>1, TipoLee DEF Tipos
<1>3. /\ principal'.paso = paso /\ principal'.proc = t
      /\ principal'.nombre = Head(aKernel[t]).nombre
      /\ principal.paso = "select"
  BY DEF Sirve, EnSelect, Llega
<1>4. CASE op = "ESCRIBIR_VARIABLE" /\ paso = "valor"
  <2>1. Propio(t)'
    BY <1>1, <1>2, <1>3, <1>4, TomaEscritura DEF EsEscritura, Escribiendo
  <2> QED BY <1>2, <1>3, <2>1, Otros
<1>5. CASE op # "ESCRIBIR_VARIABLE"
  <2>1. op # "VALOR" /\ ~EsEscritura(Head(aKernel[t]))
    BY <1>1, <1>5 DEF EsEscritura
  <2>2. aKernel'[t] = <<>> /\ aCPU[t] = <<>> /\ ~HayEscritura(t)
    BY <1>1, <1>2, <2>1, Pedido
  <2>3. /\ Len(aKernel'[t]) = 0 /\ paso \notin {"valor", "escribe"} /\ paso # "select"
    BY <1>5, <2>2
  <2>4. ~HayEscritura(t)'
    BY <1>3, <2>3 DEF HayEscritura
  <2>5. \/ /\ programa[t].paso = "lee" /\ FaseLee(t) /\ paso = "solicita"
           /\ Head(aKernel[t]).nombre = programa[t].nombre
        \/ /\ programa[t].paso = "signal" /\ FaseSignal(t) /\ paso = "libera"
           /\ Head(aKernel[t]).nombre = programa[t].nombre
           /\ <<t, programa[t].nombre>> \in tomadas
        \/ /\ programa[t].paso = "wait" /\ FaseWait(t) /\ paso = "pide"
           /\ Head(aKernel[t]).nombre = programa[t].nombre
    BY <1>1, <1>5, <2>1, Pedido
  <2>6. Head(aKernel[t]).nombre = programa[t].nombre => EnServicio(t, paso)'
    BY <1>2, <1>3, <2>2, <2>3 DEF EnServicio, Atiende
  <2>7. Fase(t)'
    BY <1>2, <2>5, <2>6 DEF Fase, FaseLee, FaseSignal, FaseWait, ConCandado, Fuera
  <2>8. Pares(t)'
    <3>1. Partida(t)' = FALSE
      BY <1>3, <2>3 DEF Partida
    <3>2. Alterna(<<>>, FALSE) /\ ~Abierta(<<>>, FALSE)
      BY DEF Alterna, Abierta
    <3>3. programa'[t].paso # "asigna"
      BY <1>2, <2>5
    <3> QED BY <2>2, <3>1, <3>2, <3>3 DEF Pares
  <2>9. Propio(t)'
    BY <1>1, <1>2, <2>4, <2>7, <2>8 DEF Propio, ConLicencia, UnaSeccion
  <2> QED BY <1>2, <1>3, <2>9, Otros
<1> QED BY <1>4, <1>5

(* The request the main thread has in hand is the one its program waits    *)
(* for.                                                                    *)
LEMMA Servido ==
  ASSUME Tipos, Protocolo, NEW t, t = principal.proc, principal.paso # "select"
  PROVE  /\ t \in Procesos /\ Propio(t) /\ Atiende(t)
         /\ principal.paso = "pide" =>
              /\ programa[t].paso = "wait" /\ FaseWait(t) /\ EnServicio(t, "pide")
         /\ principal.paso = "libera" =>
              /\ programa[t].paso = "signal" /\ FaseSignal(t) /\ EnServicio(t, "libera")
              /\ <<t, principal.nombre>> \in tomadas
         /\ principal.paso = "solicita" =>
              /\ programa[t].paso = "lee" /\ FaseLee(t) /\ EnServicio(t, "solicita")
         /\ principal.paso = "pidePCB" =>
              /\ programa[t].nombre = principal.nombre /\ principal.nombre \in Semaforos
              /\ \/ /\ programa[t].paso = "wait" /\ FaseWait(t) /\ aKernel[t] = <<>>
                 \/ /\ programa[t].paso = "bloqueado" /\ FaseBloqueado(t)
                    /\ aKernel[t] # <<>> /\ ~Dormido(t)
<1>1. t \in Procesos /\ Propio(t) /\ Atiende(t)
  BY ProtocoloDef DEF Protocolo, Atiende
<1>2. programa[t].paso \in PasosPrograma
  BY <1>1 DEF Tipos, TipoProgramas
<1>3. SUFFICES ASSUME principal.paso \notin {"valor", "escribe"}
               PROVE  /\ principal.paso = "pide" =>
                           /\ programa[t].paso = "wait" /\ FaseWait(t) /\ EnServicio(t, "pide")
                      /\ principal.paso = "libera" =>
                           /\ programa[t].paso = "signal" /\ FaseSignal(t) /\ EnServicio(t, "libera")
                           /\ <<t, principal.nombre>> \in tomadas
                      /\ principal.paso = "solicita" =>
                           /\ programa[t].paso = "lee" /\ FaseLee(t) /\ EnServicio(t, "solicita")
                      /\ principal.paso = "pidePCB" =>
                           /\ programa[t].nombre = principal.nombre /\ principal.nombre \in Semaforos
                           /\ \/ /\ programa[t].paso = "wait" /\ FaseWait(t) /\ aKernel[t] = <<>>
                              \/ /\ programa[t].paso = "bloqueado" /\ FaseBloqueado(t)
                                 /\ aKernel[t] # <<>> /\ ~Dormido(t)
  BY <1>1
<1>4. ~Escribiendo(t)
  BY <1>1, <1>3 DEF Escribiendo
<1>5. /\ ~Sigue(t) /\ \A op : ~EnSocket(t, op)
      /\ \A op : ~Contestado(t, op)
      /\ ~Dormido(t)
      /\ \A paso : EnServicio(t, paso) => principal.paso = paso
  BY <1>1, <1>4 DEF Sigue, EnSocket, Contestado, Dormido, EnServicio
<1>6. programa[t].paso \in {"lee", "signal", "wait", "bloqueado"}
  BY <1>1, <1>2, <1>5 DEF Propio, Fase, PasosPrograma, FaseAsigna
<1>7. CASE programa[t].paso = "lee"
  BY <1>1, <1>5, <1>7 DEF Propio, Fase, FaseLee
<1>8. CASE programa[t].paso = "signal"
  BY <1>1, <1>5, <1>8 DEF Propio, Fase, FaseSignal, EnServicio
<1>9. CASE programa[t].paso = "wait"
  BY <1>1, <1>5, <1>9 DEF Propio, Fase, FaseWait
<1>10. CASE programa[t].paso = "bloqueado"
  <2>1. FaseBloqueado(t) /\ Len(aKernel[t]) = 1
    BY <1>1, <1>5, <1>10 DEF Propio, Fase, FaseBloqueado
  <2>2. aKernel[t] # <<>>
    BY <2>1
  <2> QED BY <1>1, <1>5, <1>10, <2>1, <2>2 DEF FaseBloqueado
<1> QED BY <1>6, <1>7, <1>8, <1>9, <1>10

(* The answer goes out and the main thread is free. *)
LEMMA Contesto ==
  ASSUME Tipos, Protocolo, NEW t, t = principal.proc, principal.paso # "select",
         aKernel[t] = <<>>, aCPU[t] = <<>>, NEW op \in Ops, NEW valor \in Nat,
         Contesta(op, valor), principal.nombre = programa[t].nombre,
         UNCHANGED <<aKernel, programa>>, programa[t].paso # "asigna"
  PROVE  /\ Contestado(t, op)' /\ Pares(t)' /\ ~HayEscritura(t)'
         /\ \A u \in Procesos \ {t} : aCPU'[u] = aCPU[u]
         /\ principal'.paso = "select" /\ aCPU'[t] = <<t_paquete(op, principal.nombre, valor)>>
<1>1. t \in Procesos
  BY DEF Protocolo
<1>2. /\ aCPU'[t] = Append(aCPU[t], t_paquete(op, principal.nombre, valor))
      /\ \A u \in Procesos \ {t} : aCPU'[u] = aCPU[u]
      /\ principal' = EnSelect
  BY <1>1, TipoContesta DEF Tipos
<1> DEFINE paq == t_paquete(op, principal.nombre, valor)
<1>3. paq.op = op /\ paq.nombre = principal.nombre
  BY DEF t_paquete
<1> HIDE DEF paq
<1>4. aCPU'[t] = <<paq>> /\ Len(<<paq>>) = 1 /\ <<paq>>[1] = paq
  BY <1>2 DEF paq
<1>5. principal'.paso = "select"
  BY <1>2 DEF EnSelect
<1>6. Contestado(t, op)'
  BY <1>3, <1>4, <1>5 DEF Contestado, Atiende
<1>7. Partida(t)' = FALSE /\ aKernel'[t] = <<>> /\ programa'[t].paso # "asigna"
  BY <1>5 DEF Partida
<1>8. Alterna(<<>>, FALSE) /\ ~Abierta(<<>>, FALSE)
  BY DEF Alterna, Abierta
<1>9. Pares(t)'
  BY <1>7, <1>8 DEF Pares
<1>10. ~HayEscritura(t)'
  BY <1>5, <1>7 DEF HayEscritura, Atiende
<1> QED BY <1>2, <1>4, <1>5, <1>6, <1>9, <1>10 DEF paq

LEMMA ProtocoloPedido ==
  ASSUME Tipos, Protocolo, semaforoPedido
  PROVE  Protocolo'
<1> PICK t, s : t = principal.proc /\ s = principal.nombre
  OBVIOUS
<1>1. /\ principal.paso = "pide" /\ t \in Procesos /\ Propio(t)
      /\ programa[t].paso = "wait" /\ FaseWait(t) /\ EnServicio(t, "pide")
  <2>1. principal.paso = "pide"
    BY DEF semaforoPedido, TomaConfig
  <2> QED BY <2>1, Servido
<1>2. CASE Cae
  <2>1. UNCHANGED <<principal, programa, aKernel, aCPU, dentro, tomadas>>
    BY <1>2 DEF Cae, red, programas, historia
  <2>2. Propio(t)'
    <3>1. Atiende(t)' <=> Atiende(t)
      BY <2>1 DEF Atiende
    <3> QED BY <1>1, <2>1, <3>1, Ajeno
  <2> QED BY <1>1, <2>1, <2>2, Otros
<1>3. CASE /\ aCPU' = [aCPU EXCEPT ![t] = Append(@, t_paquete("PEDIDO_SEMAFORO_FALLO", s, 1))]
           /\ principal' = [principal EXCEPT !.paso = "pidePCB"]
           /\ UNCHANGED <<aKernel, programas, historia>>
  <2>1. /\ UNCHANGED <<programa, aKernel, dentro, tomadas>>
        /\ principal'.paso = "pidePCB" /\ principal'.proc = t /\ principal'.nombre = s
    BY <1>3 DEF programas, historia, Tipos, TipoHilos
  <2> DEFINE paq == t_paquete("PEDIDO_SEMAFORO_FALLO", s, 1)
  <2>2. aCPU'[t] = <<paq>> /\ \A u \in Procesos \ {t} : aCPU'[u] = aCPU[u]
    BY <1>1, <1>3 DEF EnServicio, Tipos, TipoRed
  <2>3. paq.op = "PEDIDO_SEMAFORO_FALLO"
    BY DEF t_paquete
  <2> HIDE DEF paq
  <2>4. Len(aCPU'[t]) = 1 /\ aCPU'[t][1].op = "PEDIDO_SEMAFORO_FALLO"
    BY <2>2, <2>3
  <2>5. FaseWait(t)'
    BY <1>1, <2>1, <2>4 DEF FaseWait, EnServicio, Atiende, Fuera
  <2>6. ~HayEscritura(t)' /\ Partida(t)' = FALSE /\ aKernel'[t] = <<>>
    BY <1>1, <2>1 DEF HayEscritura, EnServicio, Partida
  <2>7. Alterna(<<>>, FALSE) /\ ~Abierta(<<>>, FALSE) /\ programa'[t].paso = "wait"
    BY <1>1, <2>1 DEF Alterna, Abierta
  <2>8. Pares(t)'
    BY <2>6, <2>7 DEF Pares
  <2>9. Propio(t)'
    BY <1>1, <2>1, <2>5, <2>6, <2>7, <2>8 DEF Propio, Fase, ConLicencia, UnaSeccion
  <2> QED BY <1>1, <2>1, <2>2, <2>9, Otros
<1>4. CASE /\ tomadas' = tomadas \cup {<<t, s>>} /\ Contesta("PEDIDO_SEMAFORO_OK", 0)
           /\ UNCHANGED <<aKernel, programas>>
  <2>1. UNCHANGED <<aKernel, programa, dentro>> /\ s = programa[t].nombre
    BY <1>1, <1>4 DEF programas, EnServicio
  <2>2. /\ Contestado(t, "PEDIDO_SEMAFORO_OK")' /\ Pares(t)' /\ ~HayEscritura(t)'
        /\ \A u \in Procesos \ {t} : aCPU'[u] = aCPU[u]
        /\ principal'.paso = "select"
    <3>1. /\ "PEDIDO_SEMAFORO_OK" \in Ops /\ 0 \in Nat /\ aKernel[t] = <<>> /\ aCPU[t] = <<>>
          /\ principal.paso # "select" /\ programa[t].paso # "asigna"
      BY <1>1 DEF Ops, EnServicio
    <3> QED BY <1>4, <2>1, <3>1, Contesto
  <2>3. FaseWait(t)'
    BY <1>1, <1>4, <2>1, <2>2 DEF FaseWait, Fuera
  <2>4. Propio(t)'
    BY <1>1, <2>1, <2>2, <2>3 DEF Propio, Fase, ConLicencia, UnaSeccion
  <2>5. \A u \in Procesos : \A r \in Semaforos : <<u, r>> \in tomadas => <<u, r>> \in tomadas'
    BY <1>4
  <2> QED BY <1>1, <2>1, <2>2, <2>4, <2>5, Otros
<1> QED BY <1>2, <1>3, <1>4 DEF semaforoPedido

LEMMA ProtocoloBloquea ==
  ASSUME Tipos, Protocolo, bloquearProceso
  PROVE  Protocolo' /\ \A t \in Procesos : t = principal.proc => Dormido(t)'
<1> PICK t : t = principal.proc
  OBVIOUS
<1>1. /\ principal.paso = "pidePCB" /\ t \in Procesos /\ Propio(t) /\ aKernel[t] # <<>>
      /\ programa[t].paso = "bloqueado" /\ FaseBloqueado(t) /\ ~Dormido(t)
  <2>1. principal.paso = "pidePCB" /\ aKernel[t] # <<>>
    BY DEF bloquearProceso
  <2> QED BY <2>1, Servido
<1>2. ~EsEscritura(Head(aKernel[t]))
  <2>1. /\ Len(aKernel[t]) = 1 /\ aKernel[t][1].op = "PROGRAMA_BLOQUEADO_SEMAFORO"
        /\ Head(aKernel[t]) = aKernel[t][1]
    BY <1>1 DEF FaseBloqueado, Tipos, TipoRed
  <2> QED BY <2>1 DEF EsEscritura
<1>3. /\ aKernel'[t] = <<>> /\ \A u \in Procesos \ {t} : aKernel'[u] = aKernel[u]
      /\ UNCHANGED <<aCPU, programa, dentro, tomadas>> /\ principal'.paso = "select"
  <2>1. Lee(t) /\ UNCHANGED <<aCPU, programa, dentro, tomadas>> /\ principal' = EnSelect
    BY DEF bloquearProceso, programas, historia
  <2>2. Tail(aKernel[t]) = <<>>
    BY <1>1, <1>2, Pedido
  <2> QED BY <1>1, <2>1, <2>2, TipoLee DEF Tipos, EnSelect
<1>4. Dormido(t)' /\ FaseBloqueado(t)'
  BY <1>1, <1>3 DEF Dormido, FaseBloqueado, Fuera, Atiende
<1>5. ~HayEscritura(t)'
  BY <1>3 DEF HayEscritura, Atiende
<1>6. Pares(t)'
  <2>1. Partida(t)' = FALSE /\ programa'[t].paso # "asigna"
    BY <1>1, <1>3 DEF Partida
  <2>2. Alterna(<<>>, FALSE) /\ ~Abierta(<<>>, FALSE)
    BY DEF Alterna, Abierta
  <2> QED BY <1>3, <2>1, <2>2 DEF Pares
<1>7. Propio(t)'
  BY <1>1, <1>3, <1>4, <1>5, <1>6 DEF Propio, Fase, ConLicencia, UnaSeccion
<1> QED BY <1>1, <1>3, <1>4, <1>7, Otros

LEMMA ProtocoloLibera ==
  ASSUME Tipos, Protocolo, semaforoLiberado
  PROVE  Protocolo'
<1> PICK t, s : t = principal.proc /\ s = principal.nombre
  OBVIOUS
<1>1. /\ principal.paso = "libera" /\ t \in Procesos /\ Propio(t)
      /\ programa[t].paso = "signal" /\ FaseSignal(t) /\ EnServicio(t, "libera")
  <2>1. principal.paso = "libera"
    BY DEF semaforoLiberado, TomaConfig
  <2> QED BY <2>1, Servido
<1>2. /\ UNCHANGED <<aKernel, programa, dentro>> /\ s = programa[t].nombre
      /\ Contesta("LIBERAR_SEMAFORO", 0)
      /\ tomadas \ {<<t, s>>} \subseteq tomadas'
  BY <1>1 DEF semaforoLiberado, programas, EnServicio
<1>3. /\ Contestado(t, "LIBERAR_SEMAFORO")' /\ Pares(t)' /\ ~HayEscritura(t)'
      /\ \A u \in Procesos \ {t} : aCPU'[u] = aCPU[u]
      /\ principal'.paso = "select"
  <2>1. /\ "LIBERAR_SEMAFORO" \in Ops /\ 0 \in Nat /\ aKernel[t] = <<>> /\ aCPU[t] = <<>>
        /\ principal.paso # "select" /\ programa[t].paso # "asigna"
    BY <1>1 DEF Ops, EnServicio
  <2> QED BY <1>2, <2>1, Contesto
<1>4. FaseSignal(t)'
  BY <1>1, <1>2, <1>3 DEF FaseSignal, Fuera
<1>5. Propio(t)'
  BY <1>1, <1>2, <1>3, <1>4 DEF Propio, Fase, ConLicencia, UnaSeccion
<1>6. \A u \in Procesos \ {t} : \A r \in Semaforos : <<u, r>> \in tomadas => <<u, r>> \in tomadas'
  BY <1>2
<1> QED BY <1>1, <1>2, <1>3, <1>5, <1>6, Otros

LEMMA ProtocoloSolicita ==
  ASSUME Tipos, Protocolo, variableSolicitada
  PROVE  Protocolo'
<1> PICK t : t = principal.proc
  OBVIOUS
<1>1. /\ principal.paso = "solicita" /\ t \in Procesos /\ Propio(t)
      /\ programa[t].paso = "lee" /\ FaseLee(t) /\ EnServicio(t, "solicita")
  <2>1. principal.paso = "solicita"
    BY DEF variableSolicitada, TomaConfig
  <2> QED BY <2>1, Servido
<1>2. CASE Cae
  <2>1. UNCHANGED <<principal, programa, aKernel, aCPU, dentro, tomadas>>
    BY <1>2 DEF Cae, red, programas, historia
  <2>2. Propio(t)'
    <3>1. Atiende(t)' <=> Atiende(t)
      BY <2>1 DEF Atiende
    <3> QED BY <1>1, <2>1, <3>1, Ajeno
  <2> QED BY <1>1, <2>1, <2>2, Otros
<1>3. CASE /\ principal.nombre \in config.vars
           /\ Contesta("SOLICITAR_VARIABLE_OK", valor_shared_vars[principal.nombre])
           /\ UNCHANGED <<aKernel, programas, historia>>
  <2>1. /\ UNCHANGED <<aKernel, programa, dentro, tomadas>>
        /\ principal.nombre = programa[t].nombre
        /\ valor_shared_vars[principal.nombre] \in Nat
    BY <1>1, <1>3 DEF programas, historia, EnServicio, Tipos, TipoCarga
  <2>2. /\ Contestado(t, "SOLICITAR_VARIABLE_OK")' /\ Pares(t)' /\ ~HayEscritura(t)'
        /\ \A u \in Procesos \ {t} : aCPU'[u] = aCPU[u]
        /\ principal'.paso = "select"
    <3>1. /\ "SOLICITAR_VARIABLE_OK" \in Ops /\ aKernel[t] = <<>> /\ aCPU[t] = <<>>
          /\ principal.paso # "select" /\ programa[t].paso # "asigna"
      BY <1>1 DEF Ops, EnServicio
    <3> QED BY <1>3, <2>1, <3>1, Contesto
  <2>3. FaseLee(t)'
    BY <1>1, <2>1, <2>2 DEF FaseLee, ConCandado
  <2>4. Propio(t)'
    BY <1>1, <2>1, <2>2, <2>3 DEF Propio, Fase, ConLicencia, UnaSeccion
  <2> QED BY <1>1, <2>1, <2>2, <2>4, Otros
<1> QED BY <1>2, <1>3 DEF variableSolicitada

(* The value of an assignment, which has to be the next packet. *)
LEMMA LlegaValor ==
  ASSUME Tipos, Protocolo, NEW t, t = principal.proc, principal.paso = "valor",
         aKernel[t] # <<>>
  PROVE  t \in Procesos /\ Propio(t) /\ Head(aKernel[t]) = aKernel[t][1]
         /\ Head(aKernel[t]).op = "VALOR"
<1>1. t \in Procesos /\ Propio(t)
  BY ProtocoloDef DEF Protocolo
<1>2. Partida(t) = TRUE
  BY DEF Partida
<1>3. aKernel[t] \in Seq(Paquetes)
  BY <1>1 DEF Tipos, TipoRed
<1>4. Alterna(aKernel[t], TRUE)
  BY <1>1, <1>2 DEF Propio, Pares
<1> QED BY <1>1, <1>3, <1>4, AlternaTail

LEMMA ProtocoloRecibe ==
  ASSUME Tipos, Protocolo, recibirValor
  PROVE  Protocolo'
<1> PICK t : t = principal.proc
  OBVIOUS
<1>1. /\ principal.paso = "valor" /\ t \in Procesos /\ Propio(t) /\ aKernel[t] # <<>>
      /\ Head(aKernel[t]).op = "VALOR"
  BY LlegaValor DEF recibirValor
<1>2. /\ Lee(t) /\ UNCHANGED <<aCPU, programa, dentro, tomadas>>
      /\ principal' = [principal EXCEPT !.paso = "escribe", !.valor = ValorDelPaquete(t)]
  BY DEF recibirValor, programas, historia
<1>3. principal'.paso = "escribe" /\ principal'.proc = t
  BY <1>2 DEF Tipos, TipoHilos
<1>4. /\ aKernel'[t] = Tail(aKernel[t])
      /\ \A u \in Procesos \ {t} : aKernel'[u] = aKernel[u]
  BY <1>1, <1>2, TipoLee DEF Tipos
<1>5. Propio(t)'
  <2>1. Escribiendo(t) /\ EsEscritura(Head(aKernel[t])) /\ Head(aKernel[t]).op # "ESCRIBIR_VARIABLE"
    BY <1>1 DEF Escribiendo, EsEscritura
  <2> QED BY <1>1, <1>2, <1>3, <1>4, <2>1, TomaEscritura
<1> QED BY <1>1, <1>2, <1>3, <1>4, <1>5, Otros

LEMMA ProtocoloEscrita ==
  ASSUME Tipos, Protocolo, variableEscrita
  PROVE  Protocolo'
<1> PICK t : t = principal.proc
  OBVIOUS
<1>1. principal.paso = "escribe" /\ t \in Procesos /\ Propio(t) /\ Atiende(t)
  <2>1. principal.paso = "escribe"
    BY DEF variableEscrita, TomaConfig
  <2> QED BY <2>1, Servido
<1>2. UNCHANGED <<programa, aKernel, aCPU, dentro, tomadas>>
  BY DEF variableEscrita, Cae, red, programas, historia
<1>3. CASE Cae
  <2>1. UNCHANGED principal
    BY <1>3 DEF Cae
  <2>2. Propio(t)'
    <3>1. Atiende(t)' <=> Atiende(t)
      BY <2>1 DEF Atiende
    <3> QED BY <1>1, <1>2, <2>1, <3>1, Ajeno
  <2> QED BY <1>1, <1>2, <2>1, <2>2, Otros
<1>4. CASE principal' = EnSelect
  <2>1. principal'.paso = "select" /\ ~Atiende(t)' /\ Escribiendo(t)'
    BY <1>4 DEF EnSelect, Atiende, Escribiendo
  <2>2. Sigue(t) => Sigue(t)'
    BY <1>2, <2>1 DEF Sigue
  <2>3. \A op : EnSocket(t, op) => EnSocket(t, op)'
    BY <1>2, <2>1 DEF EnSocket
  <2>4. /\ \A paso : EnServicio(t, paso) => paso = "escribe"
        /\ \A op : ~Contestado(t, op)
        /\ ~Dormido(t)
    BY <1>1 DEF EnServicio, Contestado, Dormido
  <2>5. ConCandado(t)' = ConCandado(t) /\ Fuera(t)' = Fuera(t)
    BY <1>2 DEF ConCandado, Fuera
  <2>6. Fase(t)'
    <3>1. FaseAsigna(t) => FaseAsigna(t)'
      BY <1>2, <2>2, <2>5 DEF FaseAsigna
    <3>2. FaseLee(t) => FaseLee(t)'
      BY <1>2, <2>3, <2>4, <2>5 DEF FaseLee
    <3>3. FaseSignal(t) => FaseSignal(t)'
      BY <1>2, <2>3, <2>4, <2>5 DEF FaseSignal
    <3>4. FaseWait(t) => FaseWait(t)'
      BY <1>1, <1>2, <2>3, <2>4, <2>5 DEF FaseWait
    <3>5. ~FaseBloqueado(t)
      BY <1>1, <2>4 DEF FaseBloqueado
    <3> QED BY <1>1, <1>2, <2>2, <3>1, <3>2, <3>3, <3>4, <3>5 DEF Fase, Propio
  <2>7. Partida(t) = FALSE /\ Partida(t)' = FALSE
    BY <1>1, <2>1 DEF Partida
  <2>8. Pares(t)'
    BY <1>1, <1>2, <2>7 DEF Propio, Pares
  <2>9. HayEscritura(t)
    BY <1>1 DEF HayEscritura
  <2>10. Propio(t)'
    BY <1>1, <1>2, <2>5, <2>6, <2>8, <2>9 DEF Propio, ConLicencia, UnaSeccion
  <2> QED BY <1>1, <1>2, <2>1, <2>10, Otros
<1> QED BY <1>3, <1>4 DEF variableEscrita

LEMMA ProtocoloPlanifica ==
  ASSUME Tipos, Protocolo, Esperas, planificadorCortoPlazo
  PROVE  Protocolo'
<1> PICK t, s : t = Head(cola_ready) /\ s = programa[t].nombre
  OBVIOUS
<1>1. t \in Procesos /\ t \in ToSet(cola_ready)
  <2>1. cola_ready \in Seq(Procesos) /\ cola_ready # <<>>
    BY DEF planificadorCortoPlazo, Tipos, TipoCarga
  <2>2. t \in ToSet(cola_ready)
    BY <2>1, ElementosTail
  <2> QED BY <2>1, <2>2, ElementosTipo
<1>2. /\ dentro' = dentro \cup {<<t, s>>} /\ Pasa(t, "ejecuta", Nulo, 0)
      /\ UNCHANGED <<principal, aKernel, aCPU, tomadas>>
  BY DEF planificadorCortoPlazo, red, historia
<1>3. Propio(t) /\ Dormido(t) /\ programa[t].paso = "bloqueado" /\ aKernel[t] = <<>> /\ ~Atiende(t)
  BY <1>1, ProtocoloDef DEF Esperas, Dormido
<1>4. FaseBloqueado(t) /\ Fuera(t) /\ aCPU[t] = <<>>
  BY <1>3 DEF Propio, Fase, FaseBloqueado
<1>5. /\ programa'[t] = [paso |-> "ejecuta", nombre |-> Nulo, valor |-> 0]
      /\ \A u \in Procesos \ {t} : programa'[u] = programa[u]
  <2>1. "ejecuta" \in PasosPrograma /\ Nulo \in Nombres /\ 0 \in Nat /\ TipoProgramas
    BY DEF Tipos, PasosPrograma, Nombres
  <2> QED BY <1>1, <1>2, <2>1, TipoPasa
<1>6. Sigue(t)' /\ ~HayEscritura(t)'
  BY <1>2, <1>3, <1>4 DEF Sigue, HayEscritura, Escribiendo, Atiende
<1>7. Pares(t)'
  <2>1. Partida(t)' = FALSE /\ programa'[t].paso # "asigna" /\ aKernel'[t] = <<>>
    BY <1>2, <1>3, <1>5 DEF Partida, Atiende
  <2>2. Alterna(<<>>, FALSE) /\ ~Abierta(<<>>, FALSE)
    BY DEF Alterna, Abierta
  <2> QED BY <2>1, <2>2 DEF Pares
<1>8. UnaSeccion(t)'
  BY <1>2, <1>4 DEF UnaSeccion, Fuera
<1>9. Propio(t)'
  BY <1>5, <1>6, <1>7, <1>8 DEF Propio, Fase, ConLicencia
<1>10. \A u \in Procesos \ {t} : \A r \in Semaforos : <<u, r>> \in dentro' <=> <<u, r>> \in dentro
  BY <1>2
<1> QED BY <1>1, <1>2, <1>5, <1>9, <1>10, Otros

(* What the operator and the notify thread do is none of the programs'. *)
LEMMA ProtocoloQuieto ==
  ASSUME Protocolo, UNCHANGED <<principal, red, programas, tomadas>>
  PROVE  Protocolo'
<1>1. UNCHANGED <<principal, aKernel, aCPU, programa, dentro, tomadas>>
  BY DEF red, programas
<1>2. ASSUME NEW t \in Procesos
      PROVE  Propio(t)'
  <2>1. Atiende(t)' <=> Atiende(t)
    BY <1>1 DEF Atiende
  <2> QED BY <1>1, <2>1, ProtocoloDef, Ajeno
<1>3. principal'.paso # "select" => principal'.proc \in Procesos
  BY <1>1 DEF Protocolo
<1> QED BY <1>2, <1>3 DEF Protocolo, Propio

-----------------------------------------------------------------------------
(* Types, action by action.                                                *)

LEMMA TiposPrograma ==
  ASSUME Tipos, NEW t \in Procesos, Programa(t)
  PROVE  Tipos'
<1> USE DEF Tipos
<1>1. RestoDelSistema /\ UNCHANGED <<aCPU, historia>> /\ dentro' \subseteq dentro
  BY DEF Programa, wait_kernel, signal_kernel, asignarValorCompartida, obtenerValorCompartida
<1>2. TipoCarga' /\ TipoHilos' /\ TipoHistoria'
  BY <1>1, Marco DEF RestoDelSistema, disco, semaforos, carga
<1> DEFINE Pide == \E op \in Ops, paso \in PasosPrograma, nombre \in Nombres, v \in Nat :
                     Envia(t, t_paquete(op, nombre, 0)) /\ Pasa(t, paso, nombre, v)
<1>3. Pide
  <2>1. ASSUME NEW s \in Semaforos, wait_kernel(t, s) PROVE Pide
    BY <2>1 DEF wait_kernel, Ops, PasosPrograma, Nombres
  <2>2. ASSUME NEW s \in Semaforos, signal_kernel(t, s) PROVE Pide
    BY <2>2 DEF signal_kernel, Ops, PasosPrograma, Nombres
  <2>3. ASSUME NEW x \in Variables, NEW v \in Valores, asignarValorCompartida(t, x, v)
        PROVE Pide
    BY <2>3, ProgramasAssumption DEF asignarValorCompartida, Ops, PasosPrograma, Nombres
  <2>4. ASSUME NEW x \in Variables, obtenerValorCompartida(t, x) PROVE Pide
    BY <2>4 DEF obtenerValorCompartida, Ops, PasosPrograma, Nombres
  <2> HIDE DEF Pide
  <2> QED BY <2>1, <2>2, <2>3, <2>4 DEF Programa
<1> PICK op \in Ops, paso \in PasosPrograma, nombre \in Nombres, v \in Nat :
        Envia(t, t_paquete(op, nombre, 0)) /\ Pasa(t, paso, nombre, v)
  BY <1>3
<1>4. TipoRed'
  <2>1. t_paquete(op, nombre, 0) \in Paquetes
    BY TipoPaquete
  <2> QED BY <1>1, <2>1, TipoEnvia DEF TipoRed
<1>5. TipoProgramas'
  BY <1>1, TipoPasa DEF TipoProgramas
<1> QED BY <1>2, <1>4, <1>5

LEMMA TiposValor ==
  ASSUME Tipos, Protocolo, NEW t \in Procesos, enviarValor(t)
  PROVE  Tipos'
<1> USE DEF Tipos
<1>1. /\ Envia(t, t_paquete("VALOR", Nulo, programa[t].valor)) /\ Pasa(t, "ejecuta", Nulo, 0)
      /\ escrito' = [escrito EXCEPT ![programa[t].nombre] = programa[t].valor]
      /\ RestoDelSistema /\ UNCHANGED <<aCPU, dentro, tomadas, heredadas, alMirar>>
      /\ programa[t].valor \in Nat
  BY DEF enviarValor, TipoProgramas
<1>2. TipoCarga' /\ TipoHilos'
  BY <1>1, Marco DEF RestoDelSistema, disco, semaforos, carga
<1>3. TipoRed'
  <2>1. t_paquete("VALOR", Nulo, programa[t].valor) \in Paquetes
    BY <1>1, TipoPaquete DEF Ops, Nombres
  <2> QED BY <1>1, <2>1, TipoEnvia DEF TipoRed
<1>4. TipoProgramas'
  <2>1. "ejecuta" \in PasosPrograma /\ Nulo \in Nombres /\ 0 \in Nat
    BY DEF PasosPrograma, Nombres
  <2> QED BY <1>1, <2>1, TipoPasa DEF TipoProgramas
<1>5. TipoHistoria'
  BY <1>1 DEF TipoHistoria
<1> QED BY <1>2, <1>3, <1>4, <1>5

LEMMA TiposRespuesta ==
  ASSUME Tipos, Protocolo, NEW t \in Procesos, recibirRespuesta(t)
  PROVE  Tipos'
<1> USE DEF Tipos
<1> DEFINE s == programa[t].nombre
           paq == Head(aCPU[t])
           b == t_paquete("PROGRAMA_BLOQUEADO_SEMAFORO", s, 0)
<1>1. /\ RestoDelSistema /\ UNCHANGED historia /\ s \in Nombres
      /\ aCPU' = [aCPU EXCEPT ![t] = Tail(@)] /\ aCPU[t] # <<>>
      /\ dentro' = IF paq.op = "PEDIDO_SEMAFORO_OK" THEN dentro \cup {<<t, s>>} ELSE dentro
      /\ \/ Pasa(t, "bloqueado", s, 0) /\ Envia(t, b)
         \/ Pasa(t, "ejecuta", Nulo, 0) /\ UNCHANGED aKernel
  BY DEF recibirRespuesta, TipoProgramas
<1>2. paq.op = "PEDIDO_SEMAFORO_OK" => s \in Semaforos
  BY <1>1, Respuesta, ProtocoloDef DEF Contestado, FaseWait
<1>3. TipoCarga' /\ TipoHilos' /\ TipoHistoria'
  BY <1>1, Marco DEF RestoDelSistema, disco, semaforos, carga
<1>4. b \in Paquetes
  BY <1>1, TipoPaquete DEF Ops
<1> HIDE DEF s, paq, b
<1>5. TipoRed'
  <2>1. aCPU' \in [Procesos -> Seq(Paquetes)]
    BY <1>1 DEF TipoRed
  <2>2. aKernel' \in [Procesos -> Seq(Paquetes)]
    BY <1>1, <1>4, TipoEnvia DEF TipoRed
  <2> QED BY <2>1, <2>2 DEF TipoRed
<1>6. TipoProgramas'
  <2>1. "ejecuta" \in PasosPrograma /\ "bloqueado" \in PasosPrograma /\ Nulo \in Nombres /\ 0 \in Nat
    BY DEF PasosPrograma, Nombres
  <2>2. programa' \in [Procesos -> [paso : PasosPrograma, nombre : Nombres, valor : Nat]]
    BY <1>1, <2>1, TipoPasa
  <2>3. dentro' \subseteq Procesos \X Semaforos
    BY <1>1, <1>2 DEF TipoProgramas
  <2> QED BY <2>2, <2>3 DEF TipoProgramas
<1> QED BY <1>3, <1>5, <1>6

(* The main thread, what it has in hand and the mutex.                     *)
LEMMA TipoEnSelect == EnSelect \in [paso : PasosPrincipal, proc : Procesos \cup {Nulo},
                                    nombre : Nombres, valor : Nat]
                      /\ EnSelect.paso = "select"
BY DEF EnSelect, PasosPrincipal, Nombres

LEMMA TiposSirve ==
  ASSUME Tipos, NEW t \in Procesos, NEW op, Llega(t, op),
         NEW paso \in {"pide", "libera", "solicita", "valor"}, Sirve(t, paso)
  PROVE  Tipos'
<1> USE DEF Tipos
<1> DEFINE m == Head(aKernel[t]).nombre
<1>1. /\ Lee(t) /\ aKernel[t] # <<>> /\ principal.paso = "select"
      /\ principal' = [EnSelect EXCEPT !.paso = paso, !.proc = t, !.nombre = m]
      /\ UNCHANGED <<archivo, eventos, config, valor_semaforos, cola_semaforos,
                     valor_shared_vars, cola_ready, mutex_config, notify, aCPU>>
      /\ UNCHANGED programas /\ UNCHANGED historia
  BY DEF Sirve, Llega, disco, semaforos, carga
<1>2. TipoCarga' /\ TipoProgramas' /\ TipoHistoria'
  BY <1>1, Marco
<1>3. aKernel' \in [Procesos -> Seq(Paquetes)] /\ m \in Nombres
  <2>1. aKernel' \in [Procesos -> Seq(Paquetes)] /\ Head(aKernel[t]) \in Paquetes
    BY <1>1, TipoLee
  <2> QED BY <2>1 DEF Paquetes
<1>4. TipoRed'
  BY <1>1, <1>3 DEF TipoRed
<1>5. TipoHilos'
  <2>1. principal' = [paso |-> paso, proc |-> t, nombre |-> m, valor |-> 0]
    BY <1>1 DEF EnSelect
  <2> HIDE DEF m
  <2>2. /\ principal' \in [paso : PasosPrincipal, proc : Procesos \cup {Nulo},
                           nombre : Nombres, valor : Nat]
        /\ principal'.paso # "pidePCB"
    BY <1>3, <2>1 DEF PasosPrincipal
  <2> QED BY <1>1, <2>2 DEF TipoHilos
<1> QED BY <1>2, <1>4, <1>5

LEMMA TiposPedido ==
  ASSUME Tipos, Protocolo, semaforoPedido
  PROVE  Tipos'
<1> USE DEF Tipos
<1> PICK t, s : t = principal.proc /\ s = principal.nombre
  OBVIOUS
<1>1. /\ principal.paso = "pide" /\ t \in Procesos /\ s \in Semaforos
      /\ mutex_config = "libre" /\ s \in Nombres
  <2>1. principal.paso = "pide" /\ mutex_config = "libre"
    BY DEF semaforoPedido, TomaConfig
  <2> QED BY <2>1, Servido DEF FaseWait, EnServicio, Nombres
<1>2. CASE Cae
  BY <1>2, Marco DEF Cae, disco, semaforos, carga
<1>3. CASE /\ aCPU' = [aCPU EXCEPT ![t] = Append(@, t_paquete("PEDIDO_SEMAFORO_FALLO", s, 1))]
           /\ principal' = [principal EXCEPT !.paso = "pidePCB"]
           /\ mutex_config' = "principal"
           /\ UNCHANGED <<disco, semaforos, carga, valor_shared_vars, notify,
                          caido, aKernel, programas, historia>>
  <2>1. TipoCarga' /\ TipoProgramas' /\ TipoHistoria'
    BY <1>3, Marco DEF disco, semaforos, carga
  <2>2. t_paquete("PEDIDO_SEMAFORO_FALLO", s, 1) \in Paquetes
    BY <1>1, TipoPaquete DEF Ops
  <2> DEFINE paq == t_paquete("PEDIDO_SEMAFORO_FALLO", s, 1)
  <2>3. aCPU' = [aCPU EXCEPT ![t] = Append(@, paq)] /\ UNCHANGED aKernel
    BY <1>3
  <2> HIDE DEF paq
  <2>4. TipoRed'
    BY <1>1, <2>2, <2>3 DEF TipoRed, paq
  <2>5. TipoHilos'
    <3>1. principal' \in [paso : PasosPrincipal, proc : Procesos \cup {Nulo},
                          nombre : Nombres, valor : Nat] /\ principal'.paso = "pidePCB"
      BY <1>3 DEF TipoHilos, PasosPrincipal
    <3> QED BY <1>3, <3>1 DEF TipoHilos
  <2> QED BY <2>1, <2>4, <2>5
<1>4. CASE \E i \in EnSemIds(s) :
             /\ valor_semaforos[i] > 0
             /\ valor_semaforos' = [valor_semaforos EXCEPT ![i] = @ - 1]
             /\ tomadas' = tomadas \cup {<<t, s>>}
             /\ Contesta("PEDIDO_SEMAFORO_OK", 0)
             /\ UNCHANGED <<disco, cola_semaforos, cola_block, cola_ready, carga,
                            valor_shared_vars, mutex_config, notify, caido,
                            aKernel, programas, heredadas, escrito, alMirar>>
  <2>1. TipoProgramas'
    BY <1>4, Marco
  <2>2. TipoCarga'
    <3>1. valor_semaforos' \in [DOMAIN config.ids -> Nat]
      <4>1. PICK i \in EnSemIds(s) : /\ valor_semaforos[i] > 0
                                     /\ valor_semaforos' = [valor_semaforos EXCEPT ![i] = @ - 1]
        BY <1>4
      <4>2. valor_semaforos \in [DOMAIN config.ids -> Nat] /\ i \in DOMAIN config.ids
        BY <4>1 DEF TipoCarga, EnSemIds
      <4>3. valor_semaforos[i] - 1 \in Nat
        BY <4>1, <4>2
      <4> QED BY <4>1, <4>2, <4>3
    <3>2. UNCHANGED <<archivo, eventos, config, cola_semaforos, valor_shared_vars, cola_ready>>
      BY <1>4 DEF disco, carga
    <3> QED BY <3>1, <3>2 DEF TipoCarga
  <2>3. TipoHistoria'
    BY <1>1, <1>4 DEF TipoHistoria
  <2>4. TipoRed' /\ TipoHilos'
    <3>1. "PEDIDO_SEMAFORO_OK" \in Ops /\ 0 \in Nat
      BY DEF Ops
    <3>2. /\ aCPU' \in [Procesos -> Seq(Paquetes)] /\ principal' = EnSelect
          /\ UNCHANGED <<aKernel, notify, mutex_config>>
      BY <1>1, <1>4, <3>1, TipoContesta
    <3>3. TipoRed'
      BY <3>2 DEF TipoRed
    <3>4. TipoHilos'
      BY <1>1, <3>2, TipoEnSelect DEF TipoHilos
    <3> QED BY <3>3, <3>4
  <2> QED BY <2>1, <2>2, <2>3, <2>4
<1> QED BY <1>2, <1>3, <1>4 DEF semaforoPedido

LEMMA TiposBloquea ==
  ASSUME Tipos, Protocolo, bloquearProceso
  PROVE  Tipos'
<1> USE DEF Tipos
<1> PICK t, s : t = principal.proc /\ s = principal.nombre
  OBVIOUS
<1>1. /\ principal.paso = "pidePCB" /\ t \in Procesos /\ aKernel[t] # <<>> /\ Lee(t)
      /\ cola_semaforos' = [i \in DOMAIN cola_semaforos |->
                              IF i \in EnSemIds(s) THEN Append(cola_semaforos[i], t)
                                                     ELSE cola_semaforos[i]]
      /\ mutex_config' = "libre" /\ principal' = EnSelect
      /\ UNCHANGED <<archivo, eventos, config, valor_semaforos, valor_shared_vars,
                     cola_ready, notify, aCPU>>
      /\ UNCHANGED programas /\ UNCHANGED historia
  BY Servido DEF bloquearProceso, disco, carga
<1>2. TipoCarga'
  BY <1>1 DEF TipoCarga
<1>3. TipoProgramas' /\ TipoHistoria'
  BY <1>1, Marco
<1>4. TipoRed'
  BY <1>1, TipoLee DEF TipoRed
<1>5. TipoHilos'
  BY <1>1, TipoEnSelect DEF TipoHilos
<1> QED BY <1>2, <1>3, <1>4, <1>5

LEMMA TiposLibera ==
  ASSUME Tipos, Protocolo, semaforoLiberado
  PROVE  Tipos'
<1> USE DEF Tipos
<1> PICK t, s : t = principal.proc /\ s = principal.nombre
  OBVIOUS
<1>1. /\ principal.paso = "libera" /\ t \in Procesos /\ s \in Semaforos
      /\ mutex_config = "libre"
  <2>1. principal.paso = "libera" /\ mutex_config = "libre"
    BY DEF semaforoLiberado, TomaConfig
  <2> QED BY <2>1, Servido DEF FaseSignal, EnServicio
<1>2. /\ Contesta("LIBERAR_SEMAFORO", 0)
      /\ UNCHANGED <<archivo, eventos, config, valor_shared_vars, mutex_config, notify,
                     aKernel, heredadas, escrito>>
      /\ UNCHANGED programas
  BY DEF semaforoLiberado, disco, carga
<1>3. TipoProgramas'
  BY <1>2, Marco
<1>4. TipoRed' /\ TipoHilos'
  <2>1. "LIBERAR_SEMAFORO" \in Ops /\ 0 \in Nat
    BY DEF Ops
  <2>2. aCPU' \in [Procesos -> Seq(Paquetes)] /\ principal' = EnSelect
    BY <1>1, <1>2, <2>1, TipoContesta
  <2> QED BY <1>1, <1>2, <2>2, TipoEnSelect DEF TipoRed, TipoHilos
<1>5. CASE /\ tomadas' = tomadas \ {<<t, s>>} /\ UNCHANGED <<semaforos, alMirar>>
  BY <1>2, <1>3, <1>4, <1>5 DEF TipoCarga, TipoHistoria, semaforos
<1>6. ASSUME NEW i \in EnSemIds(s), SumaUnidad(i)
      PROVE  valor_semaforos' \in [DOMAIN config.ids -> Nat]
  BY <1>6 DEF SumaUnidad, TipoCarga, EnSemIds
<1>7. ASSUME NEW i \in EnSemIds(s), SumaUnidad(i), cola_semaforos[i] = <<>>,
             tomadas' = tomadas \ {<<t, s>>},
             UNCHANGED <<cola_semaforos, cola_ready, alMirar>>
      PROVE  Tipos'
  BY <1>2, <1>3, <1>4, <1>6, <1>7 DEF TipoCarga, TipoHistoria
<1>8. ASSUME NEW i \in EnSemIds(s), SumaUnidad(i), cola_semaforos[i] # <<>>, NEW d,
             d = Head(cola_semaforos[i]),
             cola_semaforos' = [cola_semaforos EXCEPT ![i] = Tail(@)],
             cola_ready' = Append(cola_ready, d),
             tomadas' = (tomadas \ {<<t, s>>}) \cup {<<d, s>>},
             alMirar' = alMirar \ {d}
      PROVE  Tipos'
  <2>1. d \in Procesos /\ Tail(cola_semaforos[i]) \in Seq(Procesos)
    BY <1>8 DEF TipoCarga, EnSemIds
  <2>2. TipoCarga'
    <3>1. cola_semaforos' \in [DOMAIN config.ids -> Seq(Procesos)]
      BY <1>8, <2>1 DEF TipoCarga
    <3>2. cola_ready' \in Seq(Procesos)
      BY <1>8, <2>1 DEF TipoCarga
    <3>3. valor_semaforos' \in [DOMAIN config.ids -> Nat]
      BY <1>6, <1>8
    <3> QED BY <1>2, <3>1, <3>2, <3>3 DEF TipoCarga
  <2>3. TipoHistoria'
    BY <1>1, <1>2, <1>8, <2>1 DEF TipoHistoria
  <2> QED BY <1>3, <1>4, <2>2, <2>3
<1>9. \/ tomadas' = tomadas \ {<<t, s>>} /\ UNCHANGED <<semaforos, alMirar>>
      \/ \E i \in EnSemIds(s) :
            /\ SumaUnidad(i)
            /\ \/ /\ cola_semaforos[i] = <<>> /\ tomadas' = tomadas \ {<<t, s>>}
                  /\ UNCHANGED <<cola_semaforos, cola_ready, alMirar>>
               \/ /\ cola_semaforos[i] # <<>>
                  /\ cola_semaforos' = [cola_semaforos EXCEPT ![i] = Tail(@)]
                  /\ cola_ready' = Append(cola_ready, Head(cola_semaforos[i]))
                  /\ tomadas' = (tomadas \ {<<t, s>>}) \cup {<<Head(cola_semaforos[i]), s>>}
                  /\ alMirar' = alMirar \ {Head(cola_semaforos[i])}
  BY DEF semaforoLiberado
<1> QED BY <1>5, <1>7, <1>8, <1>9

LEMMA TiposVariable ==
  ASSUME Tipos, Protocolo, variableSolicitada \/ recibirValor \/ variableEscrita
  PROVE  Tipos'
<1> USE DEF Tipos
<1> PICK t, x : t = principal.proc /\ x = principal.nombre
  OBVIOUS
<1>1. CASE Cae
  BY <1>1, Marco DEF Cae, disco, semaforos, carga
<1>2. CASE variableSolicitada /\ ~Cae
  <2>1. /\ principal.paso = "solicita" /\ mutex_config = "libre" /\ x \in config.vars
        /\ Contesta("SOLICITAR_VARIABLE_OK", valor_shared_vars[x])
        /\ UNCHANGED <<archivo, eventos, config, valor_semaforos, cola_semaforos,
                       valor_shared_vars, cola_ready, mutex_config, notify, aKernel>>
        /\ UNCHANGED programas /\ UNCHANGED historia
    BY <1>2 DEF variableSolicitada, TomaConfig, disco, semaforos, carga
  <2>2. t \in Procesos /\ "SOLICITAR_VARIABLE_OK" \in Ops /\ valor_shared_vars[x] \in Nat
    BY <2>1 DEF Protocolo, Ops, TipoCarga
  <2>3. aCPU' \in [Procesos -> Seq(Paquetes)] /\ principal' = EnSelect
    BY <2>1, <2>2, TipoContesta
  <2>4. TipoRed'
    BY <2>1, <2>3 DEF TipoRed
  <2>5. TipoHilos'
    BY <2>1, <2>3, TipoEnSelect DEF TipoHilos
  <2> QED BY <2>1, <2>4, <2>5, Marco
<1>3. CASE recibirValor
  <2>1. /\ principal.paso = "valor" /\ aKernel[t] # <<>> /\ Lee(t)
        /\ principal' = [principal EXCEPT !.paso = "escribe", !.valor = Head(aKernel[t]).valor]
        /\ UNCHANGED <<archivo, eventos, config, valor_semaforos, cola_semaforos,
                       valor_shared_vars, cola_ready, mutex_config, notify, aCPU>>
        /\ UNCHANGED programas /\ UNCHANGED historia
    BY <1>3 DEF recibirValor, ValorDelPaquete, disco, semaforos, carga
  <2>2. t \in Procesos
    BY <2>1 DEF Protocolo
  <2>3. aKernel' \in [Procesos -> Seq(Paquetes)] /\ Head(aKernel[t]).valor \in Nat
    BY <2>1, <2>2, TipoLee DEF Paquetes
  <2>4. TipoRed'
    BY <2>1, <2>3 DEF TipoRed
  <2>5. TipoHilos'
    <3> DEFINE v == Head(aKernel[t]).valor
    <3>1. v \in Nat /\ principal' = [principal EXCEPT !.paso = "escribe", !.valor = v]
      BY <2>1, <2>3
    <3> HIDE DEF v
    <3>2. /\ principal' \in [paso : PasosPrincipal, proc : Procesos \cup {Nulo},
                             nombre : Nombres, valor : Nat]
          /\ principal'.paso = "escribe"
      BY <3>1 DEF TipoHilos, PasosPrincipal
    <3> QED BY <2>1, <3>2 DEF TipoHilos
  <2> QED BY <2>1, <2>4, <2>5, Marco
<1>4. CASE variableEscrita /\ ~Cae
  <2>1. /\ principal.paso = "escribe" /\ mutex_config = "libre" /\ x \in config.vars
        /\ valor_shared_vars' = [valor_shared_vars EXCEPT ![x] = principal.valor]
        /\ principal' = EnSelect
        /\ UNCHANGED <<archivo, eventos, config, valor_semaforos, cola_semaforos,
                       cola_ready, mutex_config, notify>>
        /\ UNCHANGED red /\ UNCHANGED programas /\ UNCHANGED historia
    BY <1>4 DEF variableEscrita, TomaConfig, disco, semaforos, carga
  <2>2. TipoCarga'
    <3>1. principal.valor \in Nat
      BY DEF TipoHilos
    <3> QED BY <2>1, <3>1 DEF TipoCarga
  <2>3. TipoHilos'
    BY <2>1, TipoEnSelect DEF TipoHilos
  <2> QED BY <2>1, <2>2, <2>3, Marco
<1> QED BY <1>1, <1>2, <1>3, <1>4

LEMMA TiposPlanifica ==
  ASSUME Tipos, Protocolo, Esperas, planificadorCortoPlazo
  PROVE  Tipos'
<1> USE DEF Tipos
<1> PICK t, s : t = Head(cola_ready) /\ s = programa[t].nombre
  OBVIOUS
<1>1. /\ cola_ready # <<>> /\ dentro' = dentro \cup {<<t, s>>} /\ Pasa(t, "ejecuta", Nulo, 0)
      /\ cola_ready' = Tail(cola_ready)
      /\ UNCHANGED <<archivo, eventos, config, valor_semaforos, cola_semaforos,
                     valor_shared_vars, mutex_config, principal, notify>>
      /\ UNCHANGED red /\ UNCHANGED historia
  BY DEF planificadorCortoPlazo, disco, carga
<1>2. cola_ready \in Seq(Procesos) /\ Tail(cola_ready) \in Seq(Procesos) /\ t \in ToSet(cola_ready)
  BY <1>1, ElementosTail DEF TipoCarga
<1>3. t \in Procesos
  BY <1>2, ElementosTipo
<1>4. s \in Semaforos
  <2>1. Propio(t) /\ Dormido(t)
    BY <1>2, <1>3, ProtocoloDef DEF Esperas
  <2> QED BY <2>1 DEF Propio, Fase, Dormido, FaseBloqueado
<1>5. TipoCarga'
  BY <1>1, <1>2 DEF TipoCarga
<1>6. TipoProgramas'
  <2>1. "ejecuta" \in PasosPrograma /\ Nulo \in Nombres /\ 0 \in Nat
    BY DEF PasosPrograma, Nombres
  <2>2. programa' \in [Procesos -> [paso : PasosPrograma, nombre : Nombres, valor : Nat]]
    BY <1>1, <1>3, <2>1, TipoPasa
  <2>3. dentro' \subseteq Procesos \X Semaforos
    BY <1>1, <1>3, <1>4 DEF TipoProgramas
  <2> QED BY <2>2, <2>3 DEF TipoProgramas
<1> QED BY <1>1, <1>5, <1>6, Marco

LEMMA TiposArchivo ==
  ASSUME Tipos, NEW f \in Archivos, escribirArchivo(f)
  PROVE  Tipos'
<1>1. TipoCarga'
  BY DEF Tipos, TipoCarga, escribirArchivo, semaforos, carga
<1> QED BY <1>1, Marco DEF Tipos, escribirArchivo

(* The programs that hold a lock. *)
LEMMA TomadaFinita ==
  ASSUME NEW s
  PROVE  /\ IsFiniteSet(Tomada(s)) /\ Cardinality(Tomada(s)) \in Nat
         /\ \A A \in SUBSET Tomada(s) : Cardinality(A) \in Nat /\ Cardinality(A) <= Cardinality(Tomada(s))
<1>1. IsFiniteSet(Procesos) /\ Tomada(s) \subseteq Procesos
  BY ProgramasAssumption DEF Tomada
<1>2. IsFiniteSet(Tomada(s))
  BY <1>1, FS_Subset
<1>3. \A A \in SUBSET Tomada(s) : IsFiniteSet(A) /\ Cardinality(A) <= Cardinality(Tomada(s))
  BY <1>2, FS_Subset
<1> QED BY <1>2, <1>3, FS_CardinalityType

(* Only the notify thread itself writes what it looks at, under alMirar. *)
LEMMA TiposMira ==
  ASSUME Tipos, EnElKernelNadaMas, UNCHANGED mutex_config, eventos' \in Nat,
         notify' \in [paso : PasosNotify, i : Nat, visto : BOOLEAN, restan : Int],
         alMirar' = alMirar \/ alMirar' = Esperan
  PROVE  Tipos'
<1> USE DEF Tipos
<1>1. /\ UNCHANGED <<archivo, config, valor_semaforos, cola_semaforos, cola_ready,
                     valor_shared_vars, principal, mutex_config, tomadas, heredadas, escrito>>
      /\ UNCHANGED red /\ UNCHANGED programas
  BY DEF EnElKernelNadaMas, semaforos, carga
<1>2. TipoCarga' /\ TipoRed' /\ TipoProgramas'
  BY <1>1, Marco DEF TipoCarga
<1>3. TipoHilos'
  BY <1>1 DEF TipoHilos
<1>4. Esperan \subseteq Procesos
  BY ElementosTipo DEF Esperan, TipoCarga
<1>5. TipoHistoria'
  BY <1>1, <1>4 DEF TipoHistoria
<1> QED BY <1>2, <1>3, <1>5

LEMMA TiposEmpieza ==
  ASSUME NEW restan \in Int, EmpiezaAMirar(restan)
  PROVE  /\ notify' \in [paso : PasosNotify, i : Nat, visto : BOOLEAN, restan : Int]
         /\ notify'.paso = "mira" /\ notify'.i = 1 /\ alMirar' = Esperan
BY DEF EmpiezaAMirar, NotifyReposo, PasosNotify

LEMMA TiposCarga ==
  ASSUME Tipos, cargarConfiguracion
  PROVE  Tipos'
<1> USE DEF Tipos
<1>1. CASE Cae
  BY <1>1, Marco DEF Cae, disco, semaforos, carga
<1>2. CASE ~Cae
  <2>1. /\ config' = archivo
        /\ valor_semaforos' = archivo.inits /\ cola_semaforos' = SinColas(archivo)
        /\ valor_shared_vars' = [x \in archivo.vars |-> 0]
        /\ heredadas' = [s \in Semaforos |-> Cardinality(Tomada(s))]
        /\ escrito' = [x \in Variables |-> 0]
        /\ mutex_config' = "libre" /\ mutex_config \in {"libre", "notify"}
        /\ notify' = IF notify.restan = 0 THEN NotifyReposo
                     ELSE [NotifyReposo EXCEPT !.paso = "otra", !.restan = notify.restan - 1]
        /\ UNCHANGED <<archivo, eventos, cola_ready, principal, tomadas, alMirar>>
        /\ UNCHANGED red /\ UNCHANGED programas
    BY <1>2 DEF cargarConfiguracion, disco
  <2>2. TipoCarga'
    BY <2>1, DelArchivo DEF TipoCarga, SinColas
  <2>3. notify' \in [paso : PasosNotify, i : Nat, visto : BOOLEAN, restan : Int]
    <3> DEFINE r == notify.restan - 1
    <3>1. r \in Int
      BY DEF TipoHilos
    <3>2. \/ notify' = NotifyReposo
          \/ notify' = [paso |-> "otra", i |-> 1, visto |-> FALSE, restan |-> r]
      BY <2>1 DEF NotifyReposo
    <3> HIDE DEF r
    <3>3. NotifyReposo \in [paso : PasosNotify, i : Nat, visto : BOOLEAN, restan : Int]
      BY DEF NotifyReposo, PasosNotify
    <3>4. [paso |-> "otra", i |-> 1, visto |-> FALSE, restan |-> r]
            \in [paso : PasosNotify, i : Nat, visto : BOOLEAN, restan : Int]
      BY <3>1 DEF PasosNotify
    <3> QED BY <3>2, <3>3, <3>4
  <2>4. TipoHilos'
    BY <2>1, <2>3 DEF TipoHilos
  <2>5. TipoHistoria'
    BY <2>1, TomadaFinita DEF TipoHistoria
  <2> QED BY <2>1, <2>2, <2>4, <2>5, Marco
<1> QED BY <1>1, <1>2

LEMMA TiposNotify ==
  ASSUME Tipos, Notify
  PROVE  Tipos'
<1> USE DEF Tipos
<1>1. /\ notify \in [paso : PasosNotify, i : Nat, visto : BOOLEAN, restan : Int]
      /\ eventos \in Nat
  BY DEF TipoHilos, TipoCarga
<1>2. CASE verNotify
  <2>1. eventos - 1 \in Int /\ eventos' = 0
    BY <1>1, <1>2 DEF verNotify
  <2> QED BY <1>1, <1>2, <2>1, TiposEmpieza, TiposMira DEF verNotify
<1>3. CASE haySemaforos
  <2> DEFINE j == notify.i + 1
             v == notify.visto \/ HayEnEsta
  <2>1. j \in Nat /\ v \in BOOLEAN /\ notify' = [notify EXCEPT !.i = j, !.visto = v]
    BY <1>1, <1>3 DEF haySemaforos, HayEnEsta
  <2> HIDE DEF j, v
  <2>2. notify' \in [paso : PasosNotify, i : Nat, visto : BOOLEAN, restan : Int]
    BY <1>1, <2>1
  <2> QED BY <1>1, <1>3, <2>2, TiposMira DEF haySemaforos
<1>4. CASE terminarDeMirar
  <2>1. CASE OtraMirada
    BY <1>1, <1>4, <2>1, TiposEmpieza, TiposMira DEF terminarDeMirar, OtraMirada
  <2>2. CASE notify' = [notify EXCEPT !.paso = "toma"] /\ UNCHANGED alMirar
    BY <1>1, <1>4, <2>2, TiposMira DEF terminarDeMirar, PasosNotify
  <2> QED BY <1>4, <2>1, <2>2 DEF terminarDeMirar
<1>5. CASE cargarConfiguracion
  BY <1>5, TiposCarga
<1>6. CASE siguienteEvento
  BY <1>1, <1>6, TiposEmpieza, TiposMira DEF siguienteEvento
<1> QED BY <1>2, <1>3, <1>4, <1>5, <1>6 DEF Notify

LEMMA TiposNext ==
  ASSUME Tipos, Protocolo, Esperas, Next
  PROVE  Tipos'
<1>1. ASSUME NEW t \in Procesos, Programa(t) \/ CPU(t) PROVE Tipos'
  BY <1>1, TiposPrograma, TiposValor, TiposRespuesta DEF CPU
<1>2. ASSUME NEW t \in Procesos,
             pideSemaforo(t) \/ liberarSemaforo(t) \/ solicitaVariable(t) \/ escribirVariable(t)
      PROVE  Tipos'
  BY <1>2, TiposSirve DEF pideSemaforo, liberarSemaforo, solicitaVariable, escribirVariable
<1>3. CASE Principal
  BY <1>2, <1>3, TiposPedido, TiposBloquea, TiposLibera, TiposVariable DEF Principal
<1> QED BY <1>1, <1>3, TiposPlanifica, TiposNotify, TiposArchivo DEF Next

LEMMA ProtocoloNext ==
  ASSUME Tipos, Protocolo, Esperas, dentro \subseteq tomadas, Next
  PROVE  Protocolo'
<1>1. ASSUME NEW t \in Procesos, Programa(t) PROVE Protocolo'
  BY <1>1, ProtocoloWait, ProtocoloSignal, ProtocoloAsigna, ProtocoloObtiene DEF Programa
<1>2. ASSUME NEW t \in Procesos, CPU(t) PROVE Protocolo'
  BY <1>2, ProtocoloValor, ProtocoloRespuesta DEF CPU
<1>3. ASSUME NEW t \in Procesos,
             pideSemaforo(t) \/ liberarSemaforo(t) \/ solicitaVariable(t) \/ escribirVariable(t)
      PROVE  Protocolo'
  BY <1>3, ProtocoloSirve DEF pideSemaforo, liberarSemaforo, solicitaVariable, escribirVariable
<1>4. CASE Principal
  BY <1>3, <1>4, ProtocoloPedido, ProtocoloBloquea, ProtocoloLibera, ProtocoloSolicita,
     ProtocoloRecibe, ProtocoloEscrita DEF Principal
<1>5. CASE Notify
  <2>1. EnElKernelNadaMas => UNCHANGED <<principal, red, programas, tomadas>>
    BY DEF EnElKernelNadaMas
  <2>2. cargarConfiguracion => UNCHANGED <<principal, red, programas, tomadas>>
    BY DEF cargarConfiguracion, Cae, historia
  <2> QED BY <1>5, <2>1, <2>2, ProtocoloQuieto
       DEF Notify, verNotify, haySemaforos, terminarDeMirar, siguienteEvento
<1>6. ASSUME NEW f \in Archivos, escribirArchivo(f) PROVE Protocolo'
  BY <1>6, ProtocoloQuieto DEF escribirArchivo, historia
<1> QED BY <1>1, <1>2, <1>4, <1>5, <1>6, ProtocoloPlanifica DEF Next

-----------------------------------------------------------------------------
(* Who waits.                                                              *)

(* t moves, awake; what the others are at, and what is served of them,     *)
(* stays.                                                                  *)
Mueve(t) ==
    /\ ~Dormido(t)
    /\ \A u \in Procesos \ {t} :
         programa'[u] = programa[u] /\ aKernel'[u] = aKernel[u] /\ aCPU'[u] = aCPU[u]
    /\ \/ UNCHANGED principal
       \/ principal.paso = "select" /\ principal'.proc = t
       \/ principal.proc = t /\ (principal'.paso = "select" \/ principal'.proc = t)

LEMMA MueveElPrograma ==
  ASSUME Tipos, Protocolo, NEW t \in Procesos, Programa(t) \/ CPU(t)
  PROVE  Mueve(t) /\ UNCHANGED principal
<1>1. RestoDelSistema
  BY DEF Programa, CPU, wait_kernel, signal_kernel, asignarValorCompartida,
         obtenerValorCompartida, enviarValor, recibirRespuesta
<1>2. \A paso, nombre, valor : Pasa(t, paso, nombre, valor) =>
        \A u \in Procesos \ {t} : programa'[u] = programa[u]
  BY DEF Pasa, Tipos, TipoProgramas
<1>3. \A paq : Envia(t, paq) => \A u \in Procesos \ {t} : aKernel'[u] = aKernel[u]
  BY DEF Envia, Tipos, TipoRed
<1>4. CASE Programa(t)
  <2>1. /\ programa[t].paso = "ejecuta" /\ UNCHANGED aCPU
        /\ \E paq : Envia(t, paq)
        /\ \E paso, nombre, valor : Pasa(t, paso, nombre, valor)
    BY <1>4 DEF Programa, wait_kernel, signal_kernel, asignarValorCompartida,
                obtenerValorCompartida, Ejecuta
  <2> QED BY <1>1, <1>2, <1>3, <2>1 DEF Mueve, Dormido, RestoDelSistema
<1>5. CASE enviarValor(t)
  <2>1. /\ programa[t].paso = "asigna" /\ UNCHANGED aCPU
        /\ \E paq : Envia(t, paq)
        /\ \E paso, nombre, valor : Pasa(t, paso, nombre, valor)
    BY <1>5 DEF enviarValor
  <2> QED BY <1>1, <1>2, <1>3, <2>1 DEF Mueve, Dormido, RestoDelSistema
<1>6. CASE recibirRespuesta(t)
  <2>1. /\ aCPU[t] # <<>> /\ aCPU' = [aCPU EXCEPT ![t] = Tail(@)]
        /\ UNCHANGED aKernel \/ \E paq : Envia(t, paq)
        /\ \E paso, nombre, valor : Pasa(t, paso, nombre, valor)
    BY <1>6 DEF recibirRespuesta
  <2>2. programa[t].paso \in {"lee", "signal", "wait"}
    BY <2>1, Respuesta, ProtocoloDef
  <2>3. \A u \in Procesos \ {t} : aCPU'[u] = aCPU[u]
    BY <2>1 DEF Tipos, TipoRed
  <2> QED BY <1>1, <1>2, <1>3, <2>1, <2>2, <2>3 DEF Mueve, Dormido, RestoDelSistema
<1> QED BY <1>4, <1>5, <1>6 DEF CPU, Mueve, RestoDelSistema

LEMMA MuevePrincipal ==
  ASSUME Tipos, Protocolo, Principal
  PROVE  /\ \E t \in Procesos : Mueve(t) /\ (principal.paso # "select" => t = principal.proc)
         /\ UNCHANGED <<programa, dentro, config>>
<1>1. UNCHANGED <<programa, dentro, config>>
  BY DEF Principal, pideSemaforo, liberarSemaforo, solicitaVariable, escribirVariable, Sirve,
         semaforoPedido, bloquearProceso, semaforoLiberado, variableSolicitada, recibirValor,
         variableEscrita, Cae, programas, carga
<1>2. ASSUME NEW t \in Procesos,
             pideSemaforo(t) \/ liberarSemaforo(t) \/ solicitaVariable(t) \/ escribirVariable(t)
      PROVE  Mueve(t) /\ principal.paso = "select"
  <2>1. /\ aKernel[t] # <<>> /\ principal.paso = "select" /\ principal'.proc = t
        /\ aKernel' = [aKernel EXCEPT ![t] = Tail(@)] /\ UNCHANGED aCPU
    BY <1>2 DEF pideSemaforo, liberarSemaforo, solicitaVariable, escribirVariable, Llega, Sirve,
                Lee, EnSelect
  <2>2. \A u \in Procesos \ {t} : aKernel'[u] = aKernel[u]
    BY <2>1 DEF Tipos, TipoRed
  <2> QED BY <1>1, <2>1, <2>2 DEF Mueve, Dormido
<1>3. ASSUME principal.paso # "select", NEW t, t = principal.proc,
             UNCHANGED aKernel \/ aKernel' = [aKernel EXCEPT ![t] = Tail(@)],
             UNCHANGED aCPU \/ \E paq : aCPU' = [aCPU EXCEPT ![t] = Append(@, paq)],
             UNCHANGED principal \/ principal'.paso = "select" \/ principal'.proc = t
      PROVE  t \in Procesos /\ Mueve(t)
  <2>1. t \in Procesos /\ Atiende(t)
    BY <1>3 DEF Protocolo, Atiende
  <2>2. \A u \in Procesos \ {t} : aKernel'[u] = aKernel[u]
    BY <1>3, <2>1 DEF Tipos, TipoRed
  <2>3. \A u \in Procesos \ {t} : aCPU'[u] = aCPU[u]
    BY <1>3, <2>1 DEF Tipos, TipoRed
  <2> QED BY <1>1, <1>3, <2>1, <2>2, <2>3 DEF Mueve, Dormido
<1> PICK t : t = principal.proc
  OBVIOUS
<1>4. CASE Cae /\ principal.paso # "select"
  <2>1. UNCHANGED <<aKernel, aCPU, principal>>
    BY <1>4 DEF Cae, red
  <2> QED BY <1>1, <1>3, <1>4, <2>1
<1>5. EnSelect.paso = "select"
  BY TipoEnSelect
<1>6. CASE semaforoPedido /\ ~Cae
  <2>1. /\ principal.paso = "pide" /\ UNCHANGED aKernel
        /\ \E paq : aCPU' = [aCPU EXCEPT ![t] = Append(@, paq)]
        /\ principal' = EnSelect \/ principal' = [principal EXCEPT !.paso = "pidePCB"]
    BY <1>6 DEF semaforoPedido, TomaConfig, Contesta
  <2>2. principal'.paso = "select" \/ principal'.proc = t
    BY <1>5, <2>1 DEF Tipos, TipoHilos
  <2> QED BY <1>1, <1>3, <2>1, <2>2
<1>7. CASE bloquearProceso
  <2>1. /\ principal.paso = "pidePCB" /\ aKernel' = [aKernel EXCEPT ![t] = Tail(@)]
        /\ UNCHANGED aCPU /\ principal' = EnSelect
    BY <1>7 DEF bloquearProceso, Lee
  <2> QED BY <1>1, <1>3, <1>5, <2>1
<1>8. CASE semaforoLiberado
  <2>1. /\ principal.paso = "libera" /\ UNCHANGED aKernel /\ principal' = EnSelect
        /\ \E paq : aCPU' = [aCPU EXCEPT ![t] = Append(@, paq)]
    BY <1>8 DEF semaforoLiberado, TomaConfig, Contesta
  <2> QED BY <1>1, <1>3, <1>5, <2>1
<1>9. CASE variableSolicitada /\ ~Cae
  <2>1. /\ principal.paso = "solicita" /\ UNCHANGED aKernel /\ principal' = EnSelect
        /\ \E paq : aCPU' = [aCPU EXCEPT ![t] = Append(@, paq)]
    BY <1>9 DEF variableSolicitada, TomaConfig, Contesta
  <2> QED BY <1>1, <1>3, <1>5, <2>1
<1>10. CASE recibirValor
  <2>1. /\ principal.paso = "valor" /\ aKernel' = [aKernel EXCEPT ![t] = Tail(@)]
        /\ UNCHANGED aCPU
        /\ principal' = [principal EXCEPT !.paso = "escribe", !.valor = ValorDelPaquete(t)]
    BY <1>10 DEF recibirValor, Lee
  <2>2. principal'.proc = t
    BY <2>1 DEF Tipos, TipoHilos
  <2> QED BY <1>1, <1>3, <2>1, <2>2
<1>11. CASE variableEscrita /\ ~Cae
  <2>1. /\ principal.paso = "escribe" /\ UNCHANGED <<aKernel, aCPU>> /\ principal' = EnSelect
    BY <1>11 DEF variableEscrita, TomaConfig, red
  <2> QED BY <1>1, <1>3, <1>5, <2>1
<1>12. Cae /\ (semaforoPedido \/ variableSolicitada \/ variableEscrita) => principal.paso # "select"
  BY DEF semaforoPedido, variableSolicitada, variableEscrita, TomaConfig
<1> QED BY <1>1, <1>2, <1>4, <1>6, <1>7, <1>8, <1>9, <1>10, <1>11, <1>12 DEF Principal

LEMMA DormidosSiguen ==
  ASSUME NEW t \in Procesos, Mueve(t)
  PROVE  \A u \in Procesos : Dormido(u) => u # t /\ Dormido(u)' /\ programa'[u] = programa[u]
<1>1. ASSUME NEW u \in Procesos, Dormido(u)
      PROVE  u # t /\ Dormido(u)' /\ programa'[u] = programa[u]
  <2>1. u # t
    BY <1>1 DEF Mueve
  <2>2. programa'[u] = programa[u] /\ aKernel'[u] = aKernel[u] /\ ~Atiende(u)'
    BY <1>1, <2>1 DEF Mueve, Dormido, Atiende
  <2> QED BY <1>1, <2>1, <2>2 DEF Dormido
<1> QED BY <1>1

LEMMA EsperanDef ==
  \A t : t \in Esperan <=> \E i \in DOMAIN cola_semaforos : EnEspera(i, t)
BY DEF Esperan, EnEspera

(* The queues as they were, with who was in them asleep. *)
LEMMA EsperasQuietas ==
  ASSUME Esperas, UNCHANGED <<cola_semaforos, cola_ready, config>>,
         \A u \in Procesos : Dormido(u) => Dormido(u)' /\ programa'[u] = programa[u],
         \A u \in Procesos : \A r : Dormido(u) /\ <<u, r>> \in tomadas => <<u, r>> \in tomadas'
  PROVE  Esperas'
<1>1. \A i \in DOMAIN cola_semaforos : \A t \in Procesos : EnEspera(i, t)' <=> EnEspera(i, t)
  BY DEF EnEspera
<1>2. \A t : t \in Esperan' <=> t \in Esperan
  BY DEF Esperan
<1>3. \A i \in DOMAIN cola_semaforos' :
        /\ SinRepetidos(cola_semaforos'[i])
        /\ \A t \in Procesos :
             EnEspera(i, t)' => Dormido(t)' /\ programa'[t].nombre = config'.ids[i]
  BY <1>1 DEF Esperas
<1>4. \A t \in Procesos : t \in ToSet(cola_ready') =>
          /\ Dormido(t)' /\ t \notin Esperan'
          /\ <<t, programa'[t].nombre>> \in tomadas'
  BY <1>2 DEF Esperas
<1> QED BY <1>3, <1>4 DEF Esperas

LEMMA EsperasBloquea ==
  ASSUME Tipos, Protocolo, Esperas, bloquearProceso
  PROVE  /\ Esperas'
         /\ \A i \in DOMAIN cola_semaforos : \A u \in Procesos :
              /\ EnEspera(i, u) => EnEspera(i, u)'
              /\ EnEspera(i, u)' => EnEspera(i, u) \/ u \notin Esperan
         /\ DOMAIN cola_semaforos' = DOMAIN cola_semaforos
<1> PICK t, s : t = principal.proc /\ s = principal.nombre
  OBVIOUS
<1>1. /\ principal.paso = "pidePCB" /\ UNCHANGED <<programa, config, cola_ready, tomadas>>
      /\ cola_semaforos' = [i \in DOMAIN cola_semaforos |->
                              IF i \in EnSemIds(s) THEN Append(cola_semaforos[i], t)
                                                     ELSE cola_semaforos[i]]
      /\ aKernel[t] # <<>>
  BY DEF bloquearProceso, programas, carga, historia
<1>2. t \in Procesos /\ ~Dormido(t) /\ Dormido(t)' /\ programa[t].nombre = s
  BY <1>1, Servido, ProtocoloBloquea DEF Dormido
<1>3. \A u \in Procesos : Dormido(u) => u # t /\ Dormido(u)'
  BY <1>1, DormidosSiguen, MuevePrincipal DEF Principal
<1>4. \A i \in DOMAIN cola_semaforos : cola_semaforos[i] \in Seq(Procesos)
  BY DEF Tipos, TipoCarga
<1>5. t \notin Esperan /\ t \notin ToSet(cola_ready)
  BY <1>2, EsperanDef DEF Esperas
<1>6. \A i \in DOMAIN cola_semaforos : t \notin ToSet(cola_semaforos[i])
  BY <1>5, EsperanDef DEF EnEspera
<1>7. ASSUME NEW i \in DOMAIN cola_semaforos
      PROVE  /\ SinRepetidos(cola_semaforos'[i])
             /\ ToSet(cola_semaforos'[i]) = IF i \in EnSemIds(s) THEN ToSet(cola_semaforos[i]) \cup {t}
                                                                ELSE ToSet(cola_semaforos[i])
  <2>1. SinRepetidos(cola_semaforos[i]) /\ cola_semaforos[i] \in Seq(Procesos)
        /\ t \notin ToSet(cola_semaforos[i])
    BY <1>4, <1>6, <1>7 DEF Esperas
  <2>2. /\ ToSet(Append(cola_semaforos[i], t)) = ToSet(cola_semaforos[i]) \cup {t}
        /\ SinRepetidos(Append(cola_semaforos[i], t))
    BY <1>2, <2>1, ElementosAppend
  <2>3. cola_semaforos'[i] = IF i \in EnSemIds(s) THEN Append(cola_semaforos[i], t)
                                                 ELSE cola_semaforos[i]
    BY <1>1, <1>7
  <2> QED BY <2>1, <2>2, <2>3
<1>8. \A i \in DOMAIN cola_semaforos : \A u \in Procesos :
         EnEspera(i, u)' <=> EnEspera(i, u) \/ (u = t /\ i \in EnSemIds(s))
  BY <1>7 DEF EnEspera
<1>9. DOMAIN cola_semaforos' = DOMAIN cola_semaforos
  BY <1>1
<1>10. \A u \in Procesos : u \in Esperan' => u \in Esperan \/ u = t
  <2>1. \A u : u \in Esperan' <=> \E i \in DOMAIN cola_semaforos' : EnEspera(i, u)'
    BY DEF Esperan, EnEspera
  <2> QED BY <1>8, <1>9, <2>1, EsperanDef
<1>11. \A i \in DOMAIN cola_semaforos' :
        /\ SinRepetidos(cola_semaforos'[i])
        /\ \A u \in Procesos :
             EnEspera(i, u)' => Dormido(u)' /\ programa'[u].nombre = config'.ids[i]
  <2>1. ASSUME NEW i \in DOMAIN cola_semaforos, NEW u \in Procesos, EnEspera(i, u)'
        PROVE  Dormido(u)' /\ programa'[u].nombre = config'.ids[i]
    <3>1. CASE EnEspera(i, u)
      BY <1>1, <1>3, <2>1, <3>1 DEF Esperas
    <3>2. CASE u = t /\ i \in EnSemIds(s)
      BY <1>1, <1>2, <3>2 DEF EnSemIds
    <3> QED BY <1>8, <2>1, <3>1, <3>2
  <2> QED BY <1>7, <1>9, <2>1
<1>12. \A u \in Procesos : u \in ToSet(cola_ready') =>
          /\ Dormido(u)' /\ u \notin Esperan'
          /\ <<u, programa'[u].nombre>> \in tomadas'
  BY <1>1, <1>3, <1>10 DEF Esperas
<1>13. SinRepetidos(cola_ready')
  BY <1>1 DEF Esperas
<1>14. Esperas'
  BY <1>11, <1>12, <1>13 DEF Esperas
<1> QED BY <1>5, <1>8, <1>9, <1>14

(* A signal that finds who to wake: i is the semaforo's queue, d its head. *)
Despierta(i, d) ==
    /\ cola_semaforos[i] # <<>> /\ d = Head(cola_semaforos[i])
    /\ cola_semaforos' = [cola_semaforos EXCEPT ![i] = Tail(@)]
    /\ cola_ready' = Append(cola_ready, d)
    /\ tomadas' = (tomadas \ {<<principal.proc, principal.nombre>>}) \cup {<<d, principal.nombre>>}
    /\ alMirar' = alMirar \ {d} /\ UNCHANGED valor_semaforos

(* What a signal does. *)
LEMMA Liberado ==
  ASSUME semaforoLiberado
  PROVE  /\ principal.paso = "libera"
         /\ UNCHANGED <<archivo, config, programa, dentro, aKernel, heredadas, escrito,
                        valor_shared_vars, notify>>
         /\ Contesta("LIBERAR_SEMAFORO", 0)
         /\ \/ /\ tomadas' = tomadas \ {<<principal.proc, principal.nombre>>}
               /\ UNCHANGED <<cola_semaforos, cola_ready, alMirar>>
               /\ \/ UNCHANGED valor_semaforos
                  \/ \E i \in EnSemIds(principal.nombre) :
                       valor_semaforos' = [valor_semaforos EXCEPT ![i] = @ + 1]
            \/ \E i \in EnSemIds(principal.nombre) : Despierta(i, Head(cola_semaforos[i]))
<1> DEFINE s == principal.nombre
<1>1. /\ principal.paso = "libera"
      /\ UNCHANGED <<archivo, config, programa, dentro, aKernel, heredadas, escrito,
                     valor_shared_vars, notify>>
      /\ Contesta("LIBERAR_SEMAFORO", 0)
  BY DEF semaforoLiberado, TomaConfig, disco, carga, programas
<1>2. \/ tomadas' = tomadas \ {<<principal.proc, s>>} /\ UNCHANGED <<semaforos, alMirar>>
      \/ \E i \in EnSemIds(s) :
            /\ SumaUnidad(i)
            /\ \/ /\ cola_semaforos[i] = <<>>
                  /\ tomadas' = tomadas \ {<<principal.proc, s>>}
                  /\ UNCHANGED <<cola_semaforos, cola_ready, alMirar>>
               \/ /\ cola_semaforos[i] # <<>>
                  /\ cola_semaforos' = [cola_semaforos EXCEPT ![i] = Tail(@)]
                  /\ cola_ready' = Append(cola_ready, Head(cola_semaforos[i]))
                  /\ tomadas' = (tomadas \ {<<principal.proc, s>>})
                                  \cup {<<Head(cola_semaforos[i]), s>>}
                  /\ alMirar' = alMirar \ {Head(cola_semaforos[i])}
  BY DEF semaforoLiberado
<1>3. ASSUME NEW i \in EnSemIds(s), SumaUnidad(i), cola_semaforos[i] # <<>>,
             cola_semaforos' = [cola_semaforos EXCEPT ![i] = Tail(@)],
             cola_ready' = Append(cola_ready, Head(cola_semaforos[i])),
             tomadas' = (tomadas \ {<<principal.proc, s>>}) \cup {<<Head(cola_semaforos[i]), s>>},
             alMirar' = alMirar \ {Head(cola_semaforos[i])}
      PROVE  Despierta(i, Head(cola_semaforos[i]))
  BY <1>3 DEF Despierta, SumaUnidad
<1>4. ASSUME NEW i \in EnSemIds(s), SumaUnidad(i), cola_semaforos[i] = <<>>
      PROVE  valor_semaforos' = [valor_semaforos EXCEPT ![i] = @ + 1]
  BY <1>4 DEF SumaUnidad
<1>5. UNCHANGED semaforos => UNCHANGED <<cola_semaforos, cola_ready, valor_semaforos>>
  BY DEF semaforos
<1> HIDE DEF s
<1>6. \/ /\ tomadas' = tomadas \ {<<principal.proc, s>>}
         /\ UNCHANGED <<cola_semaforos, cola_ready, alMirar>>
         /\ \/ UNCHANGED valor_semaforos
            \/ \E i \in EnSemIds(s) : valor_semaforos' = [valor_semaforos EXCEPT ![i] = @ + 1]
      \/ \E i \in EnSemIds(s) : Despierta(i, Head(cola_semaforos[i]))
  BY <1>2, <1>3, <1>4, <1>5
<1> QED BY <1>1, <1>6 DEF s

(* Who is woken waited in that queue and in no other.                      *)
LEMMA Despertado ==
  ASSUME Tipos, Esperas, NEW s, NEW i \in EnSemIds(s), NEW d, Despierta(i, d)
  PROVE  /\ d \in Procesos /\ Dormido(d) /\ programa[d].nombre = s /\ d \in Esperan
         /\ d \notin ToSet(cola_ready)
         /\ DOMAIN cola_semaforos' = DOMAIN cola_semaforos
         /\ \A j \in DOMAIN cola_semaforos :
              /\ SinRepetidos(cola_semaforos'[j])
              /\ \A u \in Procesos : EnEspera(j, u)' <=> EnEspera(j, u) /\ u # d
         /\ SinRepetidos(cola_ready') /\ ToSet(cola_ready') = ToSet(cola_ready) \cup {d}
<1>1. /\ cola_semaforos \in [DOMAIN config.ids -> Seq(Procesos)] /\ cola_ready \in Seq(Procesos)
      /\ i \in DOMAIN config.ids /\ config.ids[i] = s /\ config \in Archivos
  BY DEF Tipos, TipoCarga, EnSemIds
<1> DEFINE q == cola_semaforos[i]
<1>2. /\ q \in Seq(Procesos) /\ q # <<>> /\ d = Head(q) /\ SinRepetidos(q)
      /\ cola_semaforos' = [cola_semaforos EXCEPT ![i] = Tail(q)]
      /\ cola_ready' = Append(cola_ready, d)
  BY <1>1 DEF Despierta, Esperas
<1>3. /\ d \in ToSet(q) /\ ToSet(Tail(q)) = ToSet(q) \ {d} /\ SinRepetidos(Tail(q))
  BY <1>2, ElementosTail
<1>4. d \in Procesos /\ EnEspera(i, d)
  BY <1>2, <1>3, ElementosTipo DEF EnEspera
<1>5. Dormido(d) /\ programa[d].nombre = s /\ d \in Esperan
  BY <1>1, <1>4, EsperanDef DEF Esperas
<1>6. d \notin ToSet(cola_ready)
  BY <1>4, <1>5 DEF Esperas
<1>7. \A j \in DOMAIN cola_semaforos : EnEspera(j, d) => j = i
  <2>1. ASSUME NEW j \in DOMAIN cola_semaforos, EnEspera(j, d) PROVE j = i
    <3>1. config.ids[j] = config.ids[i] /\ j \in DOMAIN config.ids
      BY <1>1, <1>4, <1>5, <2>1 DEF Esperas
    <3> QED BY <1>1, <3>1, DelArchivo
  <2> QED BY <2>1
<1>8. ASSUME NEW j \in DOMAIN cola_semaforos
      PROVE  /\ SinRepetidos(cola_semaforos'[j])
             /\ \A u \in Procesos : EnEspera(j, u)' <=> EnEspera(j, u) /\ u # d
  <2>1. CASE j = i
    <3>1. cola_semaforos'[j] = Tail(q) /\ cola_semaforos[j] = q
      BY <1>1, <1>2, <2>1
    <3> HIDE DEF q
    <3> QED BY <1>3, <3>1 DEF EnEspera
  <2>2. CASE j # i
    <3>1. cola_semaforos'[j] = cola_semaforos[j] /\ ~EnEspera(j, d)
      BY <1>1, <1>2, <1>7, <2>2
    <3> QED BY <3>1 DEF EnEspera, Esperas
  <2> QED BY <2>1, <2>2
<1>9. SinRepetidos(cola_ready') /\ ToSet(cola_ready') = ToSet(cola_ready) \cup {d}
  BY <1>1, <1>2, <1>4, <1>6, ElementosAppend DEF Esperas
<1>10. DOMAIN cola_semaforos' = DOMAIN cola_semaforos
  BY <1>1, <1>2
<1> QED BY <1>4, <1>5, <1>6, <1>8, <1>9, <1>10

LEMMA EsperasLibera ==
  ASSUME Tipos, Protocolo, Esperas, semaforoLiberado
  PROVE  Esperas'
<1> PICK t, s : t = principal.proc /\ s = principal.nombre
  OBVIOUS
<1>1. principal.paso = "libera" /\ UNCHANGED <<config, programa>> /\ ~Dormido(t)
  BY Liberado, Servido DEF Dormido
<1>2. \A u \in Procesos : Dormido(u) => u # t /\ Dormido(u)'
  BY <1>1, DormidosSiguen, MuevePrincipal DEF Principal
<1>3. CASE /\ tomadas' = tomadas \ {<<t, s>>}
           /\ UNCHANGED <<cola_semaforos, cola_ready, alMirar>>
  BY <1>1, <1>2, <1>3, EsperasQuietas
<1>4. ASSUME NEW i \in EnSemIds(s), NEW d, Despierta(i, d)
      PROVE  Esperas'
  <2>1. /\ d \in Procesos /\ Dormido(d) /\ programa[d].nombre = s
        /\ d \notin ToSet(cola_ready)
        /\ DOMAIN cola_semaforos' = DOMAIN cola_semaforos
        /\ \A j \in DOMAIN cola_semaforos :
              /\ SinRepetidos(cola_semaforos'[j])
              /\ \A u \in Procesos : EnEspera(j, u)' <=> EnEspera(j, u) /\ u # d
        /\ SinRepetidos(cola_ready') /\ ToSet(cola_ready') = ToSet(cola_ready) \cup {d}
    BY <1>4, Despertado
  <2>2. tomadas' = (tomadas \ {<<t, s>>}) \cup {<<d, s>>}
    BY <1>4 DEF Despierta
  <2>3. \A u \in Procesos : u \in Esperan' <=> u \in Esperan /\ u # d
    <3>1. \A u : u \in Esperan' <=> \E j \in DOMAIN cola_semaforos' : EnEspera(j, u)'
      BY DEF Esperan, EnEspera
    <3> QED BY <2>1, <3>1, EsperanDef
  <2>4. \A j \in DOMAIN cola_semaforos' :
        /\ SinRepetidos(cola_semaforos'[j])
        /\ \A u \in Procesos :
             EnEspera(j, u)' => Dormido(u)' /\ programa'[u].nombre = config'.ids[j]
    BY <1>1, <1>2, <2>1 DEF Esperas
  <2>5. ASSUME NEW u \in Procesos, u \in ToSet(cola_ready')
        PROVE  /\ Dormido(u)' /\ u \notin Esperan'
               /\ <<u, programa'[u].nombre>> \in tomadas'
    <3>1. CASE u = d
      BY <1>1, <1>2, <2>1, <2>2, <2>3, <3>1
    <3>2. CASE u \in ToSet(cola_ready)
      BY <1>1, <1>2, <2>2, <2>3, <3>2 DEF Esperas
    <3> QED BY <2>1, <2>5, <3>1, <3>2
  <2> QED BY <2>1, <2>4, <2>5 DEF Esperas
<1> QED BY <1>3, <1>4, Liberado

LEMMA EsperasPlanifica ==
  ASSUME Tipos, Protocolo, Esperas, planificadorCortoPlazo
  PROVE  Esperas'
<1> PICK t : t = Head(cola_ready)
  OBVIOUS
<1>1. /\ cola_ready # <<>> /\ cola_ready' = Tail(cola_ready) /\ Pasa(t, "ejecuta", Nulo, 0)
      /\ UNCHANGED <<cola_semaforos, config, principal, aKernel, tomadas>>
  BY DEF planificadorCortoPlazo, carga, red, historia
<1>2. cola_ready \in Seq(Procesos) /\ SinRepetidos(cola_ready)
  BY DEF Tipos, TipoCarga, Esperas
<1>3. /\ t \in ToSet(cola_ready) /\ SinRepetidos(cola_ready')
      /\ ToSet(cola_ready') = ToSet(cola_ready) \ {t}
  BY <1>1, <1>2, ElementosTail
<1>4. t \in Procesos /\ t \notin Esperan
  BY <1>2, <1>3, ElementosTipo DEF Esperas
<1>5. \A u \in Procesos \ {t} : programa'[u] = programa[u]
  BY <1>1 DEF Pasa, Tipos, TipoProgramas
<1>6. \A u \in Procesos \ {t} : Dormido(u)' <=> Dormido(u)
  BY <1>1, <1>5 DEF Dormido, Atiende
<1>7. \A u : u \in Esperan' <=> u \in Esperan
  BY <1>1 DEF Esperan
<1>8. \A j \in DOMAIN cola_semaforos : \A u \in Procesos :
        (EnEspera(j, u)' <=> EnEspera(j, u)) /\ (EnEspera(j, u) => u # t)
  BY <1>1, <1>4, EsperanDef DEF EnEspera
<1>9. \A j \in DOMAIN cola_semaforos' :
        /\ SinRepetidos(cola_semaforos'[j])
        /\ \A u \in Procesos :
             EnEspera(j, u)' => Dormido(u)' /\ programa'[u].nombre = config'.ids[j]
  BY <1>1, <1>5, <1>6, <1>8 DEF Esperas
<1>10. \A u \in Procesos : u \in ToSet(cola_ready') =>
          /\ Dormido(u)' /\ u \notin Esperan'
          /\ <<u, programa'[u].nombre>> \in tomadas'
  BY <1>1, <1>3, <1>5, <1>6, <1>7 DEF Esperas
<1> QED BY <1>3, <1>9, <1>10 DEF Esperas

(* A reload leaves nobody in a queue; those in ready stay.                 *)
LEMMA Recargado ==
  ASSUME cargarConfiguracion, ~Cae
  PROVE  /\ notify.paso = "toma" /\ mutex_config \in {"libre", "notify"}
         /\ config' = archivo /\ valor_semaforos' = archivo.inits
         /\ cola_semaforos' = SinColas(archivo)
         /\ valor_shared_vars' = [x \in archivo.vars |-> 0]
         /\ heredadas' = [s \in Semaforos |-> Cardinality(Tomada(s))]
         /\ escrito' = [x \in Variables |-> 0]
         /\ notify'.paso # "mira" /\ notify'.paso # "toma" /\ notify'.i = 1
         /\ UNCHANGED <<cola_ready, principal, tomadas, alMirar, aKernel, aCPU, programa, dentro>>
<1>1. /\ notify.paso = "toma" /\ mutex_config \in {"libre", "notify"}
      /\ config' = archivo /\ valor_semaforos' = archivo.inits
      /\ cola_semaforos' = SinColas(archivo)
      /\ valor_shared_vars' = [x \in archivo.vars |-> 0]
      /\ heredadas' = [s \in Semaforos |-> Cardinality(Tomada(s))]
      /\ escrito' = [x \in Variables |-> 0]
      /\ notify' = IF notify.restan = 0 THEN NotifyReposo
                   ELSE [NotifyReposo EXCEPT !.paso = "otra", !.restan = notify.restan - 1]
      /\ UNCHANGED <<cola_ready, principal, tomadas, alMirar, aKernel, aCPU, programa, dentro>>
  BY DEF cargarConfiguracion, Notifica, red, programas
<1>2. notify'.paso \in {"lee", "otra"} /\ notify'.i = 1
  BY <1>1 DEF NotifyReposo
<1> QED BY <1>1, <1>2

LEMMA EsperasCarga ==
  ASSUME Tipos, Esperas, cargarConfiguracion, ~Cae
  PROVE  Esperas' /\ Esperan' = {}
<1>1. /\ cola_semaforos' = SinColas(archivo)
      /\ UNCHANGED <<cola_ready, principal, tomadas, aKernel, programa>>
  BY Recargado
<1>2. \A i \in DOMAIN cola_semaforos' : cola_semaforos'[i] = <<>>
  BY <1>1 DEF SinColas
<1>3. \A i \in DOMAIN cola_semaforos' : SinRepetidos(cola_semaforos'[i]) /\ ToSet(cola_semaforos'[i]) = {}
  BY <1>2, ElementosCortos DEF SinRepetidos
<1>4. Esperan' = {}
  BY <1>3 DEF Esperan
<1>5. \A u \in Procesos : Dormido(u)' <=> Dormido(u)
  BY <1>1 DEF Dormido, Atiende
<1>6. \A i \in DOMAIN cola_semaforos' : \A u \in Procesos : ~EnEspera(i, u)'
  BY <1>3 DEF EnEspera
<1>7. \A u \in Procesos : u \in ToSet(cola_ready') =>
          /\ Dormido(u)' /\ u \notin Esperan'
          /\ <<u, programa'[u].nombre>> \in tomadas'
  BY <1>1, <1>4, <1>5 DEF Esperas
<1>8. SinRepetidos(cola_ready')
  BY <1>1 DEF Esperas
<1> QED BY <1>3, <1>4, <1>6, <1>7, <1>8 DEF Esperas

(* Steps of the main thread that are neither a wait nor a signal.          *)
Sosegado ==
    \/ \E t \in Procesos : \/ pideSemaforo(t) \/ liberarSemaforo(t)
                           \/ solicitaVariable(t) \/ escribirVariable(t)
    \/ variableSolicitada \/ recibirValor \/ variableEscrita

LEMMA SosegadoDeja ==
  ASSUME Sosegado
  PROVE  UNCHANGED <<archivo, config, cola_semaforos, cola_ready, cola_block, valor_semaforos,
                     mutex_config, notify, programa, dentro, tomadas, heredadas, escrito, alMirar>>
BY DEF Sosegado, pideSemaforo, liberarSemaforo, solicitaVariable, escribirVariable, Sirve,
       variableSolicitada, recibirValor, variableEscrita, Cae, disco, semaforos, carga,
       programas, historia

LEMMA PedidoDeja ==
  ASSUME semaforoPedido
  PROVE  /\ principal.paso = "pide"
         /\ UNCHANGED <<archivo, config, cola_semaforos, cola_ready, cola_block,
                        notify, aKernel, programa, dentro, heredadas, escrito, alMirar,
                        valor_shared_vars>>
         /\ \/ UNCHANGED <<valor_semaforos, tomadas>>
            \/ \E i \in EnSemIds(principal.nombre) :
                 /\ valor_semaforos[i] > 0
                 /\ valor_semaforos' = [valor_semaforos EXCEPT ![i] = @ - 1]
                 /\ tomadas' = tomadas \cup {<<principal.proc, principal.nombre>>}
<1>1. /\ principal.paso = "pide"
      /\ UNCHANGED <<archivo, config, cola_semaforos, cola_ready, cola_block,
                     notify, aKernel, programa, dentro, heredadas, escrito, alMirar,
                     valor_shared_vars>>
  BY DEF semaforoPedido, TomaConfig, Cae, disco, semaforos, carga, red, programas, historia
<1>2. \/ UNCHANGED <<valor_semaforos, tomadas>>
      \/ \E i \in EnSemIds(principal.nombre) :
           /\ valor_semaforos[i] > 0
           /\ valor_semaforos' = [valor_semaforos EXCEPT ![i] = @ - 1]
           /\ tomadas' = tomadas \cup {<<principal.proc, principal.nombre>>}
  BY DEF semaforoPedido, Cae, semaforos, historia
<1> QED BY <1>1, <1>2

LEMMA EsperasNext ==
  ASSUME Tipos, Protocolo, Esperas, Next
  PROVE  Esperas'
<1>1. ASSUME NEW t \in Procesos, Programa(t) \/ CPU(t) PROVE Esperas'
  <2>1. UNCHANGED <<cola_semaforos, cola_ready, config, tomadas>>
    BY <1>1 DEF Programa, CPU, wait_kernel, signal_kernel, asignarValorCompartida,
         obtenerValorCompartida, enviarValor, recibirRespuesta, RestoDelSistema, semaforos,
         carga, historia
  <2> QED BY <1>1, <2>1, MueveElPrograma, DormidosSiguen, EsperasQuietas
<1>2. CASE Sosegado
  <2>1. UNCHANGED <<cola_semaforos, cola_ready, config, tomadas>>
    BY <1>2, SosegadoDeja
  <2>2. Principal
    BY <1>2 DEF Sosegado, Principal
  <2> QED BY <2>1, <2>2, MuevePrincipal, DormidosSiguen, EsperasQuietas
<1>3. CASE semaforoPedido
  <2>1. UNCHANGED <<cola_semaforos, cola_ready, config>> /\ tomadas \subseteq tomadas'
    BY <1>3, PedidoDeja
  <2>2. Principal
    BY <1>3 DEF Principal
  <2> QED BY <2>1, <2>2, MuevePrincipal, DormidosSiguen, EsperasQuietas
<1>4. CASE Notify
  <2>1. CASE EnElKernelNadaMas
    <3>1. UNCHANGED <<cola_semaforos, cola_ready, config, principal, aKernel, programa, tomadas>>
      BY <2>1 DEF EnElKernelNadaMas, semaforos, carga, red, programas
    <3>2. \A u \in Procesos : Dormido(u)' <=> Dormido(u)
      BY <3>1 DEF Dormido, Atiende
    <3> QED BY <3>1, <3>2, EsperasQuietas
  <2>2. CASE Cae
    <3>1. UNCHANGED <<cola_semaforos, cola_ready, config, principal, aKernel, programa, tomadas>>
      BY <2>2 DEF Cae, semaforos, carga, red, programas, historia
    <3>2. \A u \in Procesos : Dormido(u)' <=> Dormido(u)
      BY <3>1 DEF Dormido, Atiende
    <3> QED BY <3>1, <3>2, EsperasQuietas
  <2> QED BY <1>4, <2>1, <2>2, EsperasCarga
       DEF Notify, verNotify, haySemaforos, terminarDeMirar, siguienteEvento
<1>5. ASSUME NEW f \in Archivos, escribirArchivo(f) PROVE Esperas'
  <2>1. UNCHANGED <<cola_semaforos, cola_ready, config, principal, aKernel, programa, tomadas>>
    BY <1>5 DEF escribirArchivo, semaforos, carga, red, programas, historia
  <2>2. \A u \in Procesos : Dormido(u)' <=> Dormido(u)
    BY <2>1 DEF Dormido, Atiende
  <2> QED BY <2>1, <2>2, EsperasQuietas
<1>6. Principal => Sosegado \/ semaforoPedido \/ bloquearProceso \/ semaforoLiberado
  BY DEF Principal, Sosegado
<1> QED BY <1>1, <1>2, <1>3, <1>4, <1>5, <1>6, EsperasBloquea, EsperasLibera, EsperasPlanifica DEF Next

-----------------------------------------------------------------------------
(* The units.                                                              *)

Cupo(s) == \A i \in EnSemIds(s) :
              valor_semaforos[i] + Cardinality(Tomada(s)) <= config.inits[i] + heredadas[s]

LEMMA UnidadesDef == Unidades <=> dentro \subseteq tomadas /\ \A s \in Semaforos : Cupo(s)
BY DEF Unidades, Cupo

LEMMA UnidadesQuietas ==
  ASSUME Unidades, UNCHANGED <<valor_semaforos, config, heredadas, tomadas>>,
         dentro' \subseteq tomadas
  PROVE  Unidades'
<1>1. \A s \in Semaforos : Tomada(s)' = Tomada(s) /\ EnSemIds(s)' = EnSemIds(s)
  BY DEF Tomada, EnSemIds
<1>2. \A s \in Semaforos : Cupo(s)'
  BY <1>1, UnidadesDef DEF Cupo
<1> QED BY <1>2 DEF Unidades, Cupo

(* One more, one less, one for another. *)
LEMMA CuentaTomada ==
  ASSUME NEW s, NEW t
  PROVE  /\ Cardinality(Tomada(s) \cup {t}) \in Nat
         /\ Cardinality(Tomada(s) \cup {t}) <= Cardinality(Tomada(s)) + 1
         /\ t \in Tomada(s) =>
              /\ Cardinality(Tomada(s) \ {t}) + 1 = Cardinality(Tomada(s))
              /\ Cardinality(Tomada(s) \ {t}) \in Nat
              /\ \A d : /\ Cardinality((Tomada(s) \ {t}) \cup {d}) \in Nat
                        /\ Cardinality((Tomada(s) \ {t}) \cup {d}) <= Cardinality(Tomada(s))
<1> DEFINE A == Tomada(s)
<1>1. IsFiniteSet(A) /\ Cardinality(A) \in Nat
  BY TomadaFinita
<1> HIDE DEF A
<1>2. /\ IsFiniteSet(A \cup {t})
      /\ Cardinality(A \cup {t}) = IF t \in A THEN Cardinality(A) ELSE Cardinality(A) + 1
  BY <1>1, FS_AddElement
<1>3. /\ IsFiniteSet(A \ {t})
      /\ Cardinality(A \ {t}) = IF t \in A THEN Cardinality(A) - 1 ELSE Cardinality(A)
  BY <1>1, FS_RemoveElement
<1>4. Cardinality(A \ {t}) \in Nat
  BY <1>3, FS_CardinalityType
<1>5. ASSUME NEW d
      PROVE  /\ Cardinality((A \ {t}) \cup {d}) \in Nat
             /\ Cardinality((A \ {t}) \cup {d}) <= Cardinality(A \ {t}) + 1
  <2> DEFINE B == A \ {t}
  <2>1. IsFiniteSet(B) /\ Cardinality(B) \in Nat
    BY <1>3, <1>4
  <2> HIDE DEF B
  <2>2. Cardinality(B \cup {d}) = IF d \in B THEN Cardinality(B) ELSE Cardinality(B) + 1
    BY <2>1, FS_AddElement
  <2>3. Cardinality(B \cup {d}) \in Nat /\ Cardinality(B \cup {d}) <= Cardinality(B) + 1
    BY <2>1, <2>2
  <2> QED BY <2>3 DEF B
<1>6. Cardinality(A \cup {t}) \in Nat /\ Cardinality(A \cup {t}) <= Cardinality(A) + 1
  BY <1>1, <1>2
<1>7. t \in A => /\ Cardinality(A \ {t}) + 1 = Cardinality(A)
                 /\ \A d : /\ Cardinality((A \ {t}) \cup {d}) \in Nat
                           /\ Cardinality((A \ {t}) \cup {d}) <= Cardinality(A)
  <2>1. SUFFICES ASSUME t \in A
                 PROVE  /\ Cardinality(A \ {t}) + 1 = Cardinality(A)
                        /\ \A d : /\ Cardinality((A \ {t}) \cup {d}) \in Nat
                                  /\ Cardinality((A \ {t}) \cup {d}) <= Cardinality(A)
    OBVIOUS
  <2>2. Cardinality(A \ {t}) + 1 = Cardinality(A)
    BY <1>1, <1>3, <2>1
  <2> QED BY <1>5, <2>2
<1> QED BY <1>4, <1>6, <1>7 DEF A

(* The counts are numbers. *)
LEMMA CupoTipo ==
  ASSUME Tipos, NEW s \in Semaforos, NEW i \in EnSemIds(s)
  PROVE  /\ valor_semaforos[i] \in Nat /\ config.inits[i] \in Nat /\ heredadas[s] \in Nat
         /\ Cardinality(Tomada(s)) \in Nat
         /\ i \in DOMAIN config.ids /\ config.ids[i] = s
         /\ \A j \in EnSemIds(s) : j = i
<1>1. /\ config \in Archivos /\ i \in DOMAIN config.ids /\ config.ids[i] = s
      /\ valor_semaforos \in [DOMAIN config.ids -> Nat] /\ heredadas \in [Semaforos -> Nat]
  BY DEF Tipos, TipoCarga, TipoHistoria, EnSemIds
<1>2. config.inits \in [DOMAIN config.ids -> Nat]
      /\ \A j, k \in DOMAIN config.ids : config.ids[j] = config.ids[k] => j = k
  BY <1>1, DelArchivo
<1>3. \A j \in EnSemIds(s) : j = i
  BY <1>1, <1>2 DEF EnSemIds
<1> QED BY <1>1, <1>2, <1>3, TomadaFinita

LEMMA UnidadesPedido ==
  ASSUME Tipos, Protocolo, Unidades, semaforoPedido
  PROVE  Unidades'
<1> PICK t, s : t = principal.proc /\ s = principal.nombre
  OBVIOUS
<1>1. /\ t \in Procesos /\ s \in Semaforos /\ UNCHANGED <<config, heredadas, dentro>>
      /\ dentro \subseteq tomadas
  BY Servido, PedidoDeja DEF FaseWait, EnServicio, Unidades
<1>2. CASE UNCHANGED <<valor_semaforos, tomadas>>
  BY <1>1, <1>2, UnidadesQuietas
<1>3. ASSUME NEW i \in EnSemIds(s), valor_semaforos[i] > 0,
             valor_semaforos' = [valor_semaforos EXCEPT ![i] = @ - 1],
             tomadas' = tomadas \cup {<<t, s>>}
      PROVE  Unidades'
  <2>1. \A r : EnSemIds(r)' = EnSemIds(r)
    BY <1>1 DEF EnSemIds
  <2>2. ASSUME NEW r \in Semaforos, r # s
        PROVE  Cupo(r)'
    <3>1. Tomada(r)' = Tomada(r)
      BY <1>3, <2>2 DEF Tomada
    <3>2. \A j \in EnSemIds(r) : valor_semaforos'[j] = valor_semaforos[j]
      BY <1>3, <2>2 DEF EnSemIds, Tipos, TipoCarga
    <3>3. Cupo(r)
      BY UnidadesDef
    <3> QED BY <1>1, <2>1, <3>1, <3>2, <3>3 DEF Cupo
  <2>3. Cupo(s)'
    <3>1. Tomada(s)' = Tomada(s) \cup {t}
      BY <1>1, <1>3 DEF Tomada
    <3> DEFINE c == Cardinality(Tomada(s))
               d == Cardinality(Tomada(s)')
               v == valor_semaforos[i]
               m == config.inits[i] + heredadas[s]
    <3>2. d \in Nat /\ d <= c + 1 /\ c \in Nat /\ v \in Nat /\ m \in Nat
      <4>1. c \in Nat /\ v \in Nat /\ m \in Nat
        BY <1>1, CupoTipo
      <4>2. d \in Nat /\ d <= c + 1
        BY <3>1, CuentaTomada
      <4> QED BY <4>1, <4>2
    <3>3. v + c <= m
      BY <1>1, UnidadesDef DEF Cupo
    <3>4. valor_semaforos'[i] = v - 1
      BY <1>1, <1>3, CupoTipo DEF Tipos, TipoCarga
    <3>5. \A j \in EnSemIds(s) : j = i
      BY <1>1, CupoTipo
    <3> HIDE DEF c, d, v
    <3>6. (v - 1) + d <= m
      BY <3>2, <3>3
    <3> QED BY <1>1, <2>1, <3>4, <3>5, <3>6 DEF Cupo, d
  <2>4. dentro' \subseteq tomadas'
    BY <1>1, <1>3
  <2> QED BY <2>2, <2>3, <2>4 DEF Unidades, Cupo
<1> QED BY <1>2, <1>3, PedidoDeja

LEMMA UnidadesLibera ==
  ASSUME Tipos, Protocolo, Esperas, Unidades, semaforoLiberado
  PROVE  Unidades'
<1> PICK t, s : t = principal.proc /\ s = principal.nombre
  OBVIOUS
<1>1. /\ t \in Procesos /\ s \in Semaforos /\ UNCHANGED <<config, heredadas, dentro>>
      /\ dentro \subseteq tomadas /\ <<t, s>> \in tomadas /\ Fuera(t) /\ <<t, s>> \notin dentro
  BY Servido, Liberado DEF FaseSignal, EnServicio, Unidades, Fuera
<1>2. t \in Tomada(s)
  BY <1>1 DEF Tomada
<1>3. \A r : EnSemIds(r)' = EnSemIds(r)
  BY <1>1 DEF EnSemIds
<1>4. ASSUME NEW r \in Semaforos, r # s, tomadas \ {<<t, s>>} \subseteq tomadas',
             tomadas' \subseteq tomadas \cup (Procesos \X {s}),
             \A j \in EnSemIds(r) : valor_semaforos'[j] = valor_semaforos[j]
      PROVE  Cupo(r)'
  <2>1. Tomada(r)' = Tomada(r)
    BY <1>4 DEF Tomada
  <2> QED BY <1>1, <1>3, <1>4, <2>1, UnidadesDef DEF Cupo
<1>5. CASE tomadas' = tomadas \ {<<t, s>>}
           /\ \/ UNCHANGED valor_semaforos
              \/ \E i \in EnSemIds(s) : valor_semaforos' = [valor_semaforos EXCEPT ![i] = @ + 1]
  <2>1. ASSUME NEW r \in Semaforos, r # s, NEW j \in EnSemIds(r)
        PROVE  valor_semaforos'[j] = valor_semaforos[j]
    BY <1>5, <2>1 DEF EnSemIds, Tipos, TipoCarga
  <2>2. Tomada(s)' = Tomada(s) \ {t}
    BY <1>1, <1>5 DEF Tomada
  <2>3. ASSUME NEW i \in EnSemIds(s)
        PROVE  valor_semaforos'[i] + Cardinality(Tomada(s)') <= config.inits[i] + heredadas[s]
    <3> DEFINE c == Cardinality(Tomada(s))
               d == Cardinality(Tomada(s)')
               v == valor_semaforos[i]
               m == config.inits[i] + heredadas[s]
               w == valor_semaforos'[i]
    <3>1. c \in Nat /\ v \in Nat /\ m \in Nat
      BY <1>1, <2>3, CupoTipo
    <3>2. d \in Nat /\ d + 1 = c
      BY <1>2, <2>2, CuentaTomada
    <3>3. w = v \/ w = v + 1
      <4>1. \A j \in EnSemIds(s) : j = i
        BY <1>1, <2>3, CupoTipo
      <4>2. i \in DOMAIN valor_semaforos
        BY <2>3 DEF Tipos, TipoCarga, EnSemIds
      <4>3. CASE UNCHANGED valor_semaforos
        BY <4>3
      <4>4. CASE valor_semaforos' = [valor_semaforos EXCEPT ![i] = @ + 1]
        BY <4>2, <4>4
      <4> QED BY <1>5, <4>1, <4>3, <4>4
    <3>4. v + c <= m
      BY <1>1, <2>3, UnidadesDef DEF Cupo
    <3> HIDE DEF c, d, v, m, w
    <3>5. w + d <= m
      BY <3>1, <3>2, <3>3, <3>4
    <3> QED BY <3>5 DEF d, w, m
  <2>4. Cupo(s)'
    BY <1>1, <1>3, <2>3 DEF Cupo
  <2>5. \A r \in Semaforos : Cupo(r)'
    BY <1>4, <1>5, <2>1, <2>4
  <2>6. dentro' \subseteq tomadas'
    BY <1>1, <1>5
  <2> QED BY <2>5, <2>6 DEF Unidades, Cupo
<1>6. ASSUME NEW i \in EnSemIds(s), NEW d, Despierta(i, d)
      PROVE  Unidades'
  <2>1. /\ tomadas' = (tomadas \ {<<t, s>>}) \cup {<<d, s>>} /\ UNCHANGED valor_semaforos
        /\ d \in Procesos
    BY <1>6, Despertado DEF Despierta
  <2>2. Tomada(s)' = (Tomada(s) \ {t}) \cup {d}
    BY <1>1, <2>1 DEF Tomada
  <2>3. Cupo(s)'
    <3>1. ASSUME NEW j \in EnSemIds(s)
          PROVE  valor_semaforos'[j] + Cardinality(Tomada(s)') <= config.inits[j] + heredadas[s]
      <4> DEFINE c == Cardinality(Tomada(s))
                 e == Cardinality(Tomada(s)')
                 v == valor_semaforos[j]
                 m == config.inits[j] + heredadas[s]
      <4>1. c \in Nat /\ v \in Nat /\ m \in Nat
        BY <1>1, <3>1, CupoTipo
      <4>2. e \in Nat /\ e <= c
        <5>1. /\ Cardinality((Tomada(s) \ {t}) \cup {d}) \in Nat
              /\ Cardinality((Tomada(s) \ {t}) \cup {d}) <= Cardinality(Tomada(s))
          BY <1>2, CuentaTomada
        <5> QED BY <2>2, <5>1
      <4>3. v + c <= m
        BY <1>1, <3>1, UnidadesDef DEF Cupo
      <4> HIDE DEF c, e, v, m
      <4>4. v + e <= m
        BY <4>1, <4>2, <4>3
      <4> QED BY <2>1, <4>4 DEF e, v, m
    <3> QED BY <1>1, <1>3, <3>1 DEF Cupo
  <2>4. \A r \in Semaforos : Cupo(r)'
    <3>1. tomadas \ {<<t, s>>} \subseteq tomadas' /\ tomadas' \subseteq tomadas \cup (Procesos \X {s})
      BY <2>1
    <3> QED BY <1>4, <2>1, <2>3, <3>1
  <2>5. dentro' \subseteq tomadas'
    BY <1>1, <2>1
  <2> QED BY <2>4, <2>5 DEF Unidades, Cupo
<1> QED BY <1>5, <1>6, Liberado

LEMMA UnidadesCarga ==
  ASSUME Tipos, Unidades, cargarConfiguracion, ~Cae
  PROVE  Unidades'
<1>1. /\ config' = archivo /\ valor_semaforos' = archivo.inits
      /\ heredadas' = [s \in Semaforos |-> Cardinality(Tomada(s))]
      /\ UNCHANGED <<tomadas, dentro>>
  BY Recargado
<1>2. ASSUME NEW s \in Semaforos, NEW i \in EnSemIds(s)'
      PROVE  valor_semaforos'[i] + Cardinality(Tomada(s)') <= config'.inits[i] + heredadas'[s]
  <2>1. Tomada(s)' = Tomada(s) /\ Cardinality(Tomada(s)) \in Nat
    BY <1>1, TomadaFinita DEF Tomada
  <2>2. archivo.inits[i] \in Nat
    <3>1. archivo \in Archivos /\ i \in DOMAIN archivo.ids
      BY <1>1, <1>2 DEF EnSemIds, Tipos, TipoCarga
    <3> QED BY <3>1, DelArchivo
  <2> QED BY <1>1, <2>1, <2>2
<1> QED BY <1>1, <1>2 DEF Unidades

LEMMA UnidadesNext ==
  ASSUME Tipos, Protocolo, Esperas, Unidades, Next
  PROVE  Unidades'
<1>1. ASSUME NEW t \in Procesos, Programa(t) \/ CPU(t) PROVE Unidades'
  <2>1. UNCHANGED <<valor_semaforos, config, heredadas, tomadas>>
    BY <1>1 DEF Programa, CPU, wait_kernel, signal_kernel, asignarValorCompartida,
         obtenerValorCompartida, enviarValor, recibirRespuesta, RestoDelSistema, semaforos,
         carga, historia
  <2>2. dentro' \subseteq tomadas
    <3>1. CASE dentro' \subseteq dentro
      BY <3>1 DEF Unidades
    <3>2. CASE recibirRespuesta(t)
      <4>1. /\ aCPU[t] # <<>>
            /\ dentro' = IF Head(aCPU[t]).op = "PEDIDO_SEMAFORO_OK"
                         THEN dentro \cup {<<t, programa[t].nombre>>} ELSE dentro
        BY <3>2 DEF recibirRespuesta
      <4>2. Head(aCPU[t]).op = "PEDIDO_SEMAFORO_OK" => <<t, programa[t].nombre>> \in tomadas
        BY <4>1, Respuesta, ProtocoloDef DEF Contestado
      <4> QED BY <4>1, <4>2 DEF Unidades
    <3> QED BY <1>1, <3>1, <3>2 DEF Programa, CPU, wait_kernel, signal_kernel,
         asignarValorCompartida, obtenerValorCompartida, enviarValor
  <2> QED BY <2>1, <2>2, UnidadesQuietas
<1>2. CASE Sosegado
  BY <1>2, SosegadoDeja, UnidadesQuietas DEF Unidades
<1>3. CASE bloquearProceso
  BY <1>3, UnidadesQuietas DEF Unidades, bloquearProceso, carga, programas, historia
<1>4. CASE planificadorCortoPlazo
  <2>1. /\ dentro' = dentro \cup {<<Head(cola_ready), programa[Head(cola_ready)].nombre>>}
        /\ UNCHANGED <<valor_semaforos, config, heredadas, tomadas>> /\ cola_ready # <<>>
    BY <1>4 DEF planificadorCortoPlazo, carga, historia
  <2>2. Head(cola_ready) \in ToSet(cola_ready) /\ Head(cola_ready) \in Procesos
    BY <2>1, ElementosTail, ElementosTipo DEF Tipos, TipoCarga
  <2>3. dentro' \subseteq tomadas
    BY <2>1, <2>2 DEF Esperas, Unidades
  <2> QED BY <2>1, <2>3, UnidadesQuietas
<1>5. CASE Notify
  <2>1. EnElKernelNadaMas => UNCHANGED <<valor_semaforos, config, heredadas, tomadas, dentro>>
    BY DEF EnElKernelNadaMas, semaforos, carga, programas
  <2>2. Cae => UNCHANGED <<valor_semaforos, config, heredadas, tomadas, dentro>>
    BY DEF Cae, semaforos, carga, programas, historia
  <2> QED BY <1>5, <2>1, <2>2, UnidadesQuietas, UnidadesCarga
       DEF Unidades, Notify, verNotify, haySemaforos, terminarDeMirar, siguienteEvento
<1>6. ASSUME NEW f \in Archivos, escribirArchivo(f) PROVE Unidades'
  BY <1>6, UnidadesQuietas DEF Unidades, escribirArchivo, semaforos, carga, programas, historia
<1>7. Principal => Sosegado \/ semaforoPedido \/ bloquearProceso \/ semaforoLiberado
  BY DEF Principal, Sosegado
<1> QED BY <1>1, <1>2, <1>3, <1>4, <1>5, <1>6, <1>7, UnidadesPedido, UnidadesLibera DEF Next

-----------------------------------------------------------------------------
(* The look at the queues.                                                 *)

LEMMA EsperanPrima ==
  \A t : t \in Esperan' <=> \E i \in DOMAIN cola_semaforos' : EnEspera(i, t)'
BY DEF Esperan, EnEspera

LEMMA MiradaQuieta ==
  ASSUME Mirada, UNCHANGED <<cola_semaforos, notify, alMirar>>
  PROVE  Mirada'
BY DEF Mirada, Esperan, EnEspera

LEMMA Posicion ==
  ASSUME Tipos
  PROVE  /\ DOMAIN cola_semaforos = 1 .. Len(config.ids) /\ Len(config.ids) \in Nat
         /\ notify.i \in Nat
<1>1. config \in Archivos /\ DOMAIN cola_semaforos = DOMAIN config.ids /\ notify.i \in Nat
  BY DEF Tipos, TipoCarga, TipoHilos
<1>2. config.ids \in Seq(Semaforos)
  BY <1>1, DelArchivo
<1> QED BY <1>1, <1>2

LEMMA MiradaLibera ==
  ASSUME Tipos, Protocolo, Esperas, Mirada, semaforoLiberado
  PROVE  Mirada'
<1>1. UNCHANGED notify
  BY Liberado
<1>2. ASSUME NEW i \in EnSemIds(principal.nombre), NEW d, Despierta(i, d)
      PROVE  Mirada'
  <2>1. /\ DOMAIN cola_semaforos' = DOMAIN cola_semaforos
        /\ \A j \in DOMAIN cola_semaforos :
             \A u \in Procesos : EnEspera(j, u)' <=> EnEspera(j, u) /\ u # d
        /\ alMirar' = alMirar \ {d} /\ alMirar \subseteq Procesos
    BY <1>2, Despertado DEF Despierta, Tipos, TipoHistoria
  <2>2. alMirar' \subseteq Esperan'
    BY <2>1, EsperanDef, EsperanPrima DEF Mirada
  <2> QED BY <1>1, <2>1, <2>2 DEF Mirada
<1> QED BY <1>1, <1>2, Liberado, MiradaQuieta

LEMMA MiradaBloquea ==
  ASSUME Tipos, Protocolo, Esperas, Mirada, bloquearProceso
  PROVE  Mirada'
<1>1. UNCHANGED <<notify, alMirar>>
  BY DEF bloquearProceso, historia
<1>2. /\ \A i \in DOMAIN cola_semaforos : \A u \in Procesos :
           /\ EnEspera(i, u) => EnEspera(i, u)'
           /\ EnEspera(i, u)' => EnEspera(i, u) \/ u \notin Esperan
      /\ DOMAIN cola_semaforos' = DOMAIN cola_semaforos
      /\ alMirar \subseteq Procesos
  BY EsperasBloquea DEF Tipos, TipoHistoria
<1>3. alMirar' \subseteq Esperan'
  BY <1>1, <1>2, EsperanDef, EsperanPrima DEF Mirada
<1> QED BY <1>1, <1>2, <1>3 DEF Mirada

LEMMA MiradaEmpieza ==
  ASSUME Tipos, NEW restan \in Int, EmpiezaAMirar(restan), EnElKernelNadaMas
  PROVE  Mirada'
<1>1. notify'.paso = "mira" /\ notify'.i = 1 /\ alMirar' = Esperan
  BY TiposEmpieza
<1>2. UNCHANGED cola_semaforos /\ Esperan' = Esperan
  BY DEF EnElKernelNadaMas, semaforos, Esperan
<1>3. \A j \in DOMAIN cola_semaforos' : ~(j < 1)
  BY <1>2, Posicion
<1> QED BY <1>1, <1>2, <1>3 DEF Mirada

LEMMA MiradaNotify ==
  ASSUME Tipos, Mirada, Notify
  PROVE  Mirada'
<1>1. eventos \in Nat /\ notify.restan \in Int /\ notify.i \in Nat /\ notify.i >= 1
      /\ notify.visto \in BOOLEAN
  BY DEF Tipos, TipoCarga, TipoHilos, Mirada
<1>2. CASE verNotify
  <2>1. eventos - 1 \in Int
    BY <1>1
  <2> QED BY <1>2, <2>1, MiradaEmpieza DEF verNotify
<1>3. CASE haySemaforos
  <2> DEFINE v == notify.visto \/ HayEnEsta
  <2>1. /\ notify.paso = "mira" /\ notify.i \in DOMAIN cola_semaforos
        /\ notify' = [notify EXCEPT !.i = @ + 1, !.visto = v]
        /\ UNCHANGED <<cola_semaforos, alMirar>>
    BY <1>3 DEF haySemaforos, Notifica, EnElKernelNadaMas, semaforos
  <2> HIDE DEF v
  <2>2. notify'.paso = "mira" /\ notify'.i = notify.i + 1 /\ notify'.visto = v
    BY <2>1 DEF Tipos, TipoHilos
  <2>3. ASSUME ~v, NEW j \in DOMAIN cola_semaforos, j < notify.i + 1, NEW t \in alMirar
        PROVE  ~EnEspera(j, t)
    <3>1. ~notify.visto /\ cola_semaforos[notify.i] = <<>>
      BY <2>3 DEF v, HayEnEsta
    <3>2. CASE j = notify.i
      BY <3>1, <3>2, ElementosCortos DEF EnEspera
    <3>3. CASE j # notify.i
      <4>1. j \in Nat
        BY <2>3, Posicion
      <4>2. j < notify.i
        BY <1>1, <2>3, <3>3, <4>1
      <4> QED BY <2>1, <2>3, <3>1, <4>2 DEF Mirada
    <3> QED BY <3>2, <3>3
  <2>4. \A j, t : EnEspera(j, t)' <=> EnEspera(j, t)
    BY <2>1 DEF EnEspera
  <2>5. alMirar' \subseteq Esperan' /\ notify'.i >= 1
    BY <1>1, <2>1, <2>2 DEF Mirada, Esperan
  <2> QED BY <2>1, <2>2, <2>3, <2>4, <2>5 DEF Mirada
<1>4. CASE terminarDeMirar
  <2>1. CASE notify.visto
    BY <1>1, <1>4, <2>1, MiradaEmpieza DEF terminarDeMirar, OtraMirada
  <2>2. CASE ~notify.visto
    <3>1. /\ notify.paso = "mira" /\ notify.i \notin DOMAIN cola_semaforos
          /\ notify' = [notify EXCEPT !.paso = "toma"]
          /\ UNCHANGED <<cola_semaforos, alMirar>>
      BY <1>4, <2>2 DEF terminarDeMirar, Notifica, EnElKernelNadaMas, semaforos
    <3>2. \A j \in DOMAIN cola_semaforos : j < notify.i
      BY <1>1, <3>1, Posicion
    <3>3. alMirar = {}
      BY <2>2, <3>1, <3>2, EsperanDef DEF Mirada
    <3>4. notify'.paso = "toma" /\ notify'.i = notify.i
      BY <3>1 DEF Tipos, TipoHilos
    <3> QED BY <1>1, <3>1, <3>3, <3>4 DEF Mirada
  <2> QED BY <2>1, <2>2
<1>5. CASE cargarConfiguracion /\ ~Cae
  <2>1. alMirar' = {} /\ notify'.paso # "mira" /\ notify'.i = 1
    BY <1>5, Recargado DEF Mirada
  <2> QED BY <2>1 DEF Mirada
<1>6. CASE Cae
  BY <1>6, MiradaQuieta DEF Cae, semaforos, historia
<1>7. CASE siguienteEvento
  BY <1>1, <1>7, MiradaEmpieza DEF siguienteEvento
<1> QED BY <1>2, <1>3, <1>4, <1>5, <1>6, <1>7 DEF Notify

LEMMA MiradaNext ==
  ASSUME Tipos, Protocolo, Esperas, Mirada, Next
  PROVE  Mirada'
<1>1. ASSUME NEW t \in Procesos, Programa(t) \/ CPU(t) PROVE Mirada'
  BY <1>1, MiradaQuieta DEF Programa, CPU, wait_kernel, signal_kernel, asignarValorCompartida,
         obtenerValorCompartida, enviarValor, recibirRespuesta, RestoDelSistema, semaforos,
         historia
<1>2. CASE Sosegado
  BY <1>2, SosegadoDeja, MiradaQuieta
<1>3. CASE semaforoPedido
  BY <1>3, PedidoDeja, MiradaQuieta
<1>4. CASE planificadorCortoPlazo
  BY <1>4, MiradaQuieta DEF planificadorCortoPlazo, historia
<1>5. ASSUME NEW f \in Archivos, escribirArchivo(f) PROVE Mirada'
  BY <1>5, MiradaQuieta DEF escribirArchivo, semaforos, historia
<1>6. Principal => Sosegado \/ semaforoPedido \/ bloquearProceso \/ semaforoLiberado
  BY DEF Principal, Sosegado
<1> QED BY <1>1, <1>2, <1>3, <1>4, <1>5, <1>6, MiradaNotify, MiradaBloquea, MiradaLibera DEF Next

-----------------------------------------------------------------------------
(* The assignments on their way.                                           *)

(* Nothing changed of what program u has on its way. *)
Igual(u) ==
    /\ \A x \in Variables :
        /\ Viajan(u, x)' = Viajan(u, x)
        /\ \A k \in Viajan(u, x) : aKernel'[u][k].valor = aKernel[u][k].valor
        /\ EnMano(u, x)' = EnMano(u, x)
        /\ EnMano(u, x) => principal'.valor = principal.valor
SinLectura(q) == \A k \in 1 .. Len(q) : q[k].op # "SOLICITAR_VARIABLE_OK"

LEMMA VariableQuieta ==
  ASSUME Tipos, Variable, UNCHANGED <<config, heredadas, escrito, valor_shared_vars>>,
         \A u \in Procesos : Igual(u) /\ Nombrada(u)',
         \/ \A u \in Procesos : aCPU'[u] = aCPU[u] \/ SinLectura(aCPU'[u])
         \/ UnaUnidad => LeidoAlDia'
  PROVE  Variable'
<1>1. config.vars \subseteq Variables
  BY DelArchivo DEF Tipos, TipoCarga
<1>2. UnaUnidad' <=> UnaUnidad
  BY DEF UnaUnidad, EnSemIds
<1>3. SUFFICES ASSUME UnaUnidad
               PROVE  LeidoAlDia' /\ \A x \in config.vars : EscritoAlDia(x)'
  BY <1>2 DEF Variable
<1>4. LeidoAlDia'
  BY <1>3 DEF Variable, LeidoAlDia, SinLectura
<1>5. ASSUME NEW x \in config.vars
      PROVE  EscritoAlDia(x)'
  <2>1. EscritoAlDia(x) /\ x \in Variables
    BY <1>1, <1>3, <1>5 DEF Variable
  <2>2. \A u \in Procesos :
          /\ Viajan(u, x)' = Viajan(u, x)
          /\ \A k \in Viajan(u, x) : aKernel'[u][k].valor = aKernel[u][k].valor
          /\ EnMano(u, x)' = EnMano(u, x)
          /\ EnMano(u, x) => principal'.valor = principal.valor
    BY <2>1 DEF Igual
  <2> QED BY <2>1, <2>2 DEF EscritoAlDia
<1> QED BY <1>4, <1>5

(* The first packet is a value only when its name was read already. *)
LEMMA PrimeraEsDeLaPartida ==
  ASSUME NEW u \in Procesos, Pares(u), 1 \in 1 .. Len(aKernel[u]), aKernel[u][1].op = "VALOR"
  PROVE  Partida(u)
BY DEF Pares, Alterna

LEMMA Quieto ==
  ASSUME Tipos, NEW u \in Procesos, Pares(u), Nombrada(u), aKernel'[u] = aKernel[u],
         Partida(u) => principal'.nombre = principal.nombre,
         \/ UNCHANGED principal
         \/ principal.paso # "escribe" /\ principal'.paso # "escribe"
         \/ principal.proc # u /\ principal'.proc # u
  PROVE  Igual(u) /\ (programa'[u] = programa[u] => Nombrada(u)')
<1> DEFINE q == aKernel[u]
<1>1. q \in Seq(Paquetes)
  BY DEF Tipos, TipoRed
<1>2. \A k \in 1 .. Len(q) : q[k].op = "VALOR" => NombreDe(u, k)' = NombreDe(u, k)
  BY PrimeraEsDeLaPartida DEF NombreDe
<1>3. \A x : Viajan(u, x)' = Viajan(u, x)
  BY <1>2 DEF Viajan
<1>4. \A x : EnMano(u, x)' = EnMano(u, x) /\ (EnMano(u, x) => principal'.valor = principal.valor)
  <2>1. CASE UNCHANGED principal
    BY <2>1 DEF EnMano
  <2>2. CASE principal.paso # "escribe" /\ principal'.paso # "escribe"
    BY <2>2 DEF EnMano
  <2>3. CASE principal.proc # u /\ principal'.proc # u
    BY <2>3 DEF EnMano
  <2> QED BY <2>1, <2>2, <2>3
<1>5. Igual(u)
  BY <1>3, <1>4 DEF Igual
<1>6. ASSUME programa'[u] = programa[u], programa[u].paso = "asigna"
      PROVE  NombreDe(u, Len(q) + 1)' = NombreDe(u, Len(q) + 1)
  <2>1. Abierta(q, Partida(u))
    BY <1>6 DEF Pares
  <2>2. q = <<>> => Partida(u)
    BY <2>1 DEF Abierta
  <2> DEFINE n == Len(q)
  <2>3. n \in Nat /\ (q = <<>> <=> n = 0)
    BY <1>1
  <2> HIDE DEF n
  <2>4. CASE n = 0
    BY <2>2, <2>3, <2>4 DEF NombreDe, n
  <2>5. CASE n # 0
    <3>1. n + 1 # 1
      BY <2>3, <2>5
    <3> QED BY <3>1 DEF NombreDe, n
  <2> QED BY <2>4, <2>5
<1>7. programa'[u] = programa[u] => Nombrada(u)'
  BY <1>6 DEF Nombrada
<1> QED BY <1>5, <1>7

(* One packet more. *)
LEMMA ViajanAppend ==
  ASSUME Tipos, NEW u \in Procesos, NEW paq \in Paquetes, UNCHANGED principal,
         aKernel'[u] = Append(aKernel[u], paq), NEW n, n = Len(aKernel[u])
  PROVE  /\ n \in Nat /\ Len(aKernel'[u]) = n + 1 /\ aKernel'[u][n + 1] = paq
         /\ \A k \in 1 .. n : aKernel'[u][k] = aKernel[u][k]
         /\ \A k \in 1 .. n + 1 : NombreDe(u, k)' = NombreDe(u, k)
         /\ \A x : Viajan(u, x) \subseteq 1 .. n
         /\ \A x : Viajan(u, x)' = IF paq.op = "VALOR" /\ NombreDe(u, n + 1) = x
                                   THEN Viajan(u, x) \cup {n + 1} ELSE Viajan(u, x)
<1> DEFINE q == aKernel[u]
           w == aKernel'[u]
<1>1. q \in Seq(Paquetes)
  BY DEF Tipos, TipoRed
<1>2. n \in Nat /\ Len(w) = n + 1 /\ w[n + 1] = paq /\ \A k \in 1 .. n : w[k] = q[k]
  BY <1>1
<1> HIDE DEF w, q
<1>3. ASSUME NEW k \in 1 .. n + 1
      PROVE  NombreDe(u, k)' = NombreDe(u, k)
  <2>1. k # 1 => k - 1 \in 1 .. n
    BY <1>2
  <2>2. k # 1 => w[k - 1] = q[k - 1]
    BY <1>2, <2>1
  <2> QED BY <2>2 DEF NombreDe, w, q
<1>4. ASSUME NEW x
      PROVE  /\ Viajan(u, x) = {k \in 1 .. n : q[k].op = "VALOR" /\ NombreDe(u, k) = x}
             /\ Viajan(u, x)' = {k \in 1 .. n + 1 : w[k].op = "VALOR" /\ NombreDe(u, k) = x}
  <2>1. Viajan(u, x)' = {k \in 1 .. n + 1 : w[k].op = "VALOR" /\ NombreDe(u, k)' = x}
    BY <1>2 DEF Viajan, w
  <2> QED BY <1>3, <2>1 DEF Viajan, q
<1>5. ASSUME NEW x
      PROVE  Viajan(u, x)' = IF paq.op = "VALOR" /\ NombreDe(u, n + 1) = x
                             THEN Viajan(u, x) \cup {n + 1} ELSE Viajan(u, x)
  <2>1. \A k : k \in 1 .. n + 1 <=> k \in 1 .. n \/ k = n + 1
    BY <1>2
  <2> DEFINE A == Viajan(u, x)
             B == Viajan(u, x)'
  <2>2. /\ \A k : k \in A <=> k \in 1 .. n /\ q[k].op = "VALOR" /\ NombreDe(u, k) = x
        /\ \A k : k \in B <=> k \in 1 .. n + 1 /\ w[k].op = "VALOR" /\ NombreDe(u, k) = x
    BY <1>4
  <2> HIDE DEF A, B
  <2>3. \A k : k \in B <=> k \in A \/ (k = n + 1 /\ paq.op = "VALOR" /\ NombreDe(u, n + 1) = x)
    BY <1>2, <2>1, <2>2
  <2>4. CASE paq.op = "VALOR" /\ NombreDe(u, n + 1) = x
    <3>1. B = A \cup {n + 1}
      BY <2>3, <2>4
    <3> QED BY <2>4, <3>1 DEF A, B
  <2>5. CASE ~(paq.op = "VALOR" /\ NombreDe(u, n + 1) = x)
    <3>1. B = A
      <4>1. \A k : k \in B <=> k \in A
        BY <2>3, <2>5
      <4>2. A \subseteq B /\ B \subseteq A
        BY <4>1
      <4> QED BY <4>2
    <3> QED BY <2>5, <3>1 DEF A, B
  <2> QED BY <2>4, <2>5
<1> QED BY <1>2, <1>3, <1>4, <1>5 DEF w, q

(* One packet less: the others move one place, with their names. *)
LEMMA ViajanTail ==
  ASSUME Tipos, NEW u \in Procesos, Pares(u), aKernel[u] # <<>>, aKernel'[u] = Tail(aKernel[u]),
         Head(aKernel[u]).op = "ESCRIBIR_VARIABLE" => principal'.nombre = Head(aKernel[u]).nombre
  PROVE  /\ \A x : \A k : k \in Viajan(u, x)' <=> k \in Nat \ {0} /\ k + 1 \in Viajan(u, x)
         /\ \A x : \A k \in Viajan(u, x)' : aKernel'[u][k] = aKernel[u][k + 1]
         /\ \A x : \A k \in Viajan(u, x) : k # 1 => k - 1 \in Viajan(u, x)'
         /\ \A x : Viajan(u, x) \subseteq Nat
         /\ programa'[u] = programa[u] /\ Nombrada(u) => Nombrada(u)'
<1> DEFINE q == aKernel[u]
           w == aKernel'[u]
           p == Partida(u)
<1> PICK n : n = Len(q)
  OBVIOUS
<1>1. q \in Seq(Paquetes) /\ q # <<>> /\ w = Tail(q)
  BY DEF Tipos, TipoRed
<1>2. Alterna(q, p) /\ p \in BOOLEAN
  BY DEF Pares, Partida
<1>3. /\ n \in Nat /\ n >= 1 /\ Len(w) = n - 1 /\ Head(q) = q[1]
      /\ \A k \in 1 .. n - 1 : w[k] = q[k + 1]
  BY <1>1
<1>4. \A k \in 1 .. n : q[k].op = "VALOR" <=> (IF k = 1 THEN p ELSE q[k - 1].op = "ESCRIBIR_VARIABLE")
  BY <1>2 DEF Alterna
<1>5. q[1].op = "ESCRIBIR_VARIABLE" => principal'.nombre = q[1].nombre
  BY <1>3
<1>6. Abierta(q, p) <=> programa[u].paso = "asigna"
  BY DEF Pares
<1>7. Abierta(q, p) <=> q[n].op = "ESCRIBIR_VARIABLE"
  BY <1>1 DEF Abierta
<1> HIDE DEF q, w, p
<1>8. ASSUME NEW k \in 1 .. n - 1, q[k].op = "ESCRIBIR_VARIABLE"
      PROVE  NombreDe(u, k)' = NombreDe(u, k + 1)
  <2>1. k \in Nat /\ k >= 1 /\ k + 1 # 1 /\ (k + 1) - 1 = k
    BY <1>3
  <2>2. NombreDe(u, k + 1) = q[k].nombre
    BY <2>1 DEF NombreDe, q
  <2>3. CASE k = 1
    BY <1>5, <1>8, <2>2, <2>3 DEF NombreDe
  <2>4. CASE k # 1
    <3>1. k - 1 \in 1 .. n - 1 /\ (k - 1) + 1 = k
      BY <1>3, <2>4
    <3>2. w[k - 1] = q[k]
      BY <1>3, <3>1
    <3> QED BY <2>2, <2>4, <3>2 DEF NombreDe, w
  <2> QED BY <2>3, <2>4
<1>9. ASSUME NEW k \in 1 .. n - 1
      PROVE  /\ k + 1 \in 1 .. n /\ w[k] = q[k + 1]
             /\ w[k].op = "VALOR" => NombreDe(u, k)' = NombreDe(u, k + 1)
  <2>1. k + 1 \in 1 .. n /\ w[k] = q[k + 1] /\ k + 1 # 1 /\ (k + 1) - 1 = k
    BY <1>3
  <2>2. q[k + 1].op = "VALOR" <=> q[k].op = "ESCRIBIR_VARIABLE"
    BY <1>4, <2>1
  <2> QED BY <1>8, <2>1, <2>2
<1>10. ASSUME NEW x, NEW k
       PROVE  /\ k \in Viajan(u, x)' <=> k \in 1 .. n - 1 /\ w[k].op = "VALOR" /\ NombreDe(u, k)' = x
              /\ k \in Viajan(u, x) <=> k \in 1 .. n /\ q[k].op = "VALOR" /\ NombreDe(u, k) = x
  BY <1>3 DEF Viajan, w, q
<1>11. ASSUME NEW x, NEW k
       PROVE  /\ k \in Viajan(u, x)' <=> k \in Nat \ {0} /\ k + 1 \in Viajan(u, x)
              /\ k \in Viajan(u, x)' => w[k] = q[k + 1]
  <2>1. k \in 1 .. n - 1 <=> k \in Nat \ {0} /\ k + 1 \in 1 .. n
    BY <1>3
  <2>2. k \in 1 .. n - 1 =>
          (/\ w[k] = q[k + 1]
           /\ w[k].op = "VALOR" => NombreDe(u, k)' = NombreDe(u, k + 1))
    BY <1>9
  <2>3. k + 1 \in Viajan(u, x) <=> k + 1 \in 1 .. n /\ q[k + 1].op = "VALOR" /\ NombreDe(u, k + 1) = x
    BY <1>10
  <2> QED BY <1>10, <2>1, <2>2, <2>3
<1>12. ASSUME NEW x, NEW k \in Viajan(u, x)
       PROVE  k \in Nat /\ (k # 1 => k - 1 \in Viajan(u, x)')
  <2>1. k \in 1 .. n
    BY <1>10
  <2>2. k # 1 => k - 1 \in Nat \ {0} /\ (k - 1) + 1 = k
    BY <1>3, <2>1
  <2> QED BY <1>11, <1>12, <2>1, <2>2
<1>13. ASSUME programa'[u] = programa[u], Nombrada(u), programa[u].paso = "asigna"
       PROVE  NombreDe(u, Len(aKernel[u]) + 1)' = programa[u].nombre
  <2>1. q[n].op = "ESCRIBIR_VARIABLE" /\ (n - 1) + 1 = n
    BY <1>3, <1>6, <1>7, <1>13
  <2>2. programa[u].nombre = NombreDe(u, n + 1) /\ n + 1 # 1 /\ (n + 1) - 1 = n
    BY <1>3, <1>13 DEF Nombrada, q
  <2>3. programa[u].nombre = q[n].nombre
    BY <2>2 DEF NombreDe, q
  <2>4. NombreDe(u, n)' = q[n].nombre
    <3>1. CASE n = 1
      BY <1>5, <2>1, <3>1 DEF NombreDe
    <3>2. CASE n # 1
      <4>1. n - 1 \in 1 .. n - 1 /\ w[n - 1] = q[n]
        BY <1>3, <2>1, <3>2
      <4> QED BY <3>2, <4>1 DEF NombreDe, w
    <3> QED BY <3>1, <3>2
  <2>5. Len(aKernel'[u]) + 1 = n
    BY <1>3 DEF w
  <2>6. NombreDe(u, Len(aKernel[u]) + 1)' = NombreDe(u, n)'
    BY <2>5 DEF NombreDe
  <2> QED BY <2>3, <2>4, <2>6
<1>14. programa'[u] = programa[u] /\ Nombrada(u) => Nombrada(u)'
  BY <1>13 DEF Nombrada
<1> QED BY <1>11, <1>12, <1>14 DEF w, q

(* Under one unit only one program has assignments on their way.           *)
LEMMA Dueno ==
  ASSUME Tipos, Protocolo, Unidades, NEW t \in Procesos
  PROVE  /\ \A x : Viajan(t, x) # {} \/ EnMano(t, x) => HayEscritura(t)
         /\ HayEscritura(t) => <<t, Candado>> \in tomadas
         /\ ConCandado(t) => <<t, Candado>> \in tomadas
         /\ ~SinLectura(aCPU[t]) => /\ programa[t].paso = "lee" /\ ConCandado(t)
                                    /\ aKernel[t] = <<>> /\ ~Atiende(t)
<1>1. Propio(t)
  BY ProtocoloDef
<1>2. ASSUME NEW x, Viajan(t, x) # {} \/ EnMano(t, x)
      PROVE  HayEscritura(t)
  <2>1. CASE Viajan(t, x) # {}
    BY <2>1 DEF Viajan, HayEscritura, EsEscritura
  <2>2. CASE EnMano(t, x)
    BY <2>2 DEF EnMano, HayEscritura, Atiende
  <2> QED BY <1>2, <2>1, <2>2
<1>3. ConCandado(t) => <<t, Candado>> \in tomadas
  BY DEF ConCandado, Unidades
<1>4. HayEscritura(t) => <<t, Candado>> \in tomadas
  <2>1. ASSUME HayEscritura(t), programa[t].paso = "signal", programa[t].nombre = Candado
        PROVE  <<t, Candado>> \in tomadas
    <3>1. FaseSignal(t)
      BY <1>1, <2>1 DEF Propio, Fase
    <3>2. ~Contestado(t, "LIBERAR_SEMAFORO")
      BY <2>1 DEF Contestado, HayEscritura
    <3> QED BY <2>1, <3>1, <3>2 DEF FaseSignal
  <2> QED BY <1>1, <1>3, <2>1 DEF Propio, ConLicencia
<1>5. ASSUME ~SinLectura(aCPU[t])
      PROVE  programa[t].paso = "lee" /\ ConCandado(t) /\ aKernel[t] = <<>> /\ ~Atiende(t)
  <2>1. PICK k \in 1 .. Len(aCPU[t]) : aCPU[t][k].op = "SOLICITAR_VARIABLE_OK"
    BY <1>5 DEF SinLectura
  <2>2. aCPU[t] # <<>>
    BY <2>1
  <2>3. Len(aCPU[t]) = 1
    BY <1>1, <2>2, Respuesta
  <2>4. k = 1
    BY <2>1, <2>3
  <2> QED BY <1>1, <2>1, <2>2, <2>4, Respuesta DEF Contestado, FaseLee
<1> QED BY <1>2, <1>3, <1>4, <1>5

LEMMA UnDueno ==
  ASSUME Tipos, Unidades, UnaUnidad, NEW t \in Procesos, NEW u \in Procesos,
         <<t, Candado>> \in tomadas, <<u, Candado>> \in tomadas
  PROVE  t = u
<1>1. PICK i \in EnSemIds(Candado) : config.inits[i] = 1 /\ heredadas[Candado] = 0
  BY DEF UnaUnidad
<1>2. Candado \in Semaforos
  BY ProgramasAssumption
<1> DEFINE c == Cardinality(Tomada(Candado))
           v == valor_semaforos[i]
<1>3. c \in Nat /\ v \in Nat /\ v + c <= 1 + 0
  BY <1>1, <1>2, CupoTipo, UnidadesDef DEF Cupo
<1>4. c <= 1
  <2> HIDE DEF c, v
  <2> QED BY <1>3
<1>5. t \in Tomada(Candado) /\ u \in Tomada(Candado)
  BY DEF Tomada
<1>6. IsFiniteSet(Tomada(Candado)) /\ {t, u} \in SUBSET Tomada(Candado)
  BY <1>5, TomadaFinita
<1>7. Cardinality({t, u}) <= c
  BY <1>6, FS_Subset
<1>8. t # u => Cardinality({t, u}) = 2
  <2>1. IsFiniteSet({t}) /\ Cardinality({t}) = 1
    BY FS_Singleton
  <2>2. {t, u} = {t} \cup {u}
    OBVIOUS
  <2> QED BY <2>1, <2>2, FS_AddElement
<1> QED BY <1>3, <1>4, <1>7, <1>8

LEMMA VariableSinEnvio ==
  ASSUME Tipos, Protocolo, Variable,
         UNCHANGED <<principal, aKernel, config, heredadas, escrito, valor_shared_vars>>,
         \A u \in Procesos : /\ programa'[u] = programa[u] \/ programa'[u].paso # "asigna"
                             /\ aCPU'[u] = aCPU[u] \/ SinLectura(aCPU'[u])
  PROVE  Variable'
<1>1. ASSUME NEW u \in Procesos
      PROVE  Igual(u) /\ Nombrada(u)'
  <2>1. Pares(u) /\ Nombrada(u)
    BY ProtocoloDef DEF Propio, Variable
  <2>2. Igual(u) /\ (programa'[u] = programa[u] => Nombrada(u)')
    BY <2>1, Quieto
  <2>3. programa'[u].paso # "asigna" => Nombrada(u)'
    BY DEF Nombrada
  <2> QED BY <2>2, <2>3
<1> QED BY <1>1, VariableQuieta

LEMMA VariableManda ==
  ASSUME Tipos, Protocolo, Variable, NEW t \in Procesos, NEW paq \in Paquetes,
         paq.op # "VALOR", Envia(t, paq),
         UNCHANGED <<principal, config, heredadas, escrito, valor_shared_vars>>,
         \A u \in Procesos \ {t} : programa'[u] = programa[u],
         programa'[t].paso = "asigna" => paq.nombre = programa'[t].nombre,
         \A u \in Procesos : aCPU'[u] = aCPU[u] \/ SinLectura(aCPU'[u])
  PROVE  Variable'
<1>1. aKernel'[t] = Append(aKernel[t], paq) /\ \A u \in Procesos \ {t} : aKernel'[u] = aKernel[u]
  BY TipoEnvia DEF Tipos
<1>2. ASSUME NEW u \in Procesos, u # t
      PROVE  Igual(u) /\ Nombrada(u)'
  <2>1. Pares(u) /\ Nombrada(u) /\ aKernel'[u] = aKernel[u] /\ programa'[u] = programa[u]
    BY <1>1, <1>2, ProtocoloDef DEF Propio, Variable
  <2> QED BY <2>1, Quieto
<1>3. Igual(t) /\ Nombrada(t)'
  <2> PICK n : n = Len(aKernel[t])
    OBVIOUS
  <2>1. /\ n \in Nat /\ Len(aKernel'[t]) = n + 1 /\ aKernel'[t][n + 1] = paq
        /\ \A k \in 1 .. n : aKernel'[t][k] = aKernel[t][k]
        /\ \A x : Viajan(t, x) \subseteq 1 .. n
        /\ \A x : Viajan(t, x)' = Viajan(t, x)
    BY <1>1, ViajanAppend
  <2>2. \A x : EnMano(t, x)' = EnMano(t, x)
    BY DEF EnMano
  <2>3. Igual(t)
    BY <2>1, <2>2 DEF Igual
  <2>4. NombreDe(t, Len(aKernel[t]) + 1)' = paq.nombre
    <3>1. (n + 1) + 1 # 1 /\ ((n + 1) + 1) - 1 = n + 1
      BY <2>1
    <3>2. NombreDe(t, Len(aKernel[t]) + 1)' = aKernel'[t][n + 1].nombre
      BY <2>1, <3>1 DEF NombreDe
    <3> QED BY <2>1, <3>2
  <2>5. Nombrada(t)'
    BY <2>4 DEF Nombrada
  <2> QED BY <2>3, <2>5
<1> QED BY <1>2, <1>3, VariableQuieta

LEMMA VariablePrograma ==
  ASSUME Tipos, Protocolo, Variable, NEW t \in Procesos, Programa(t)
  PROVE  Variable'
<1> DEFINE Pide == \E op \in Ops \ {"VALOR"}, paso \in PasosPrograma, nombre \in Nombres, v \in Nat :
                     /\ Envia(t, t_paquete(op, nombre, 0)) /\ Pasa(t, paso, nombre, v)
<1>1. Pide
  <2>1. ASSUME NEW s \in Semaforos, wait_kernel(t, s) PROVE Pide
    BY <2>1 DEF wait_kernel, Ops, PasosPrograma, Nombres
  <2>2. ASSUME NEW s \in Semaforos, signal_kernel(t, s) PROVE Pide
    BY <2>2 DEF signal_kernel, Ops, PasosPrograma, Nombres
  <2>3. ASSUME NEW x \in Variables, NEW v \in Valores, asignarValorCompartida(t, x, v)
        PROVE Pide
    BY <2>3, ProgramasAssumption DEF asignarValorCompartida, Ops, PasosPrograma, Nombres
  <2>4. ASSUME NEW x \in Variables, obtenerValorCompartida(t, x) PROVE Pide
    BY <2>4 DEF obtenerValorCompartida, Ops, PasosPrograma, Nombres
  <2> HIDE DEF Pide
  <2> QED BY <2>1, <2>2, <2>3, <2>4 DEF Programa
<1> PICK op \in Ops \ {"VALOR"}, paso \in PasosPrograma, nombre \in Nombres, v \in Nat :
        Envia(t, t_paquete(op, nombre, 0)) /\ Pasa(t, paso, nombre, v)
  BY <1>1
<1>2. UNCHANGED <<principal, aCPU, config, heredadas, escrito, valor_shared_vars>>
  BY DEF Programa, wait_kernel, signal_kernel, asignarValorCompartida, obtenerValorCompartida,
         RestoDelSistema, carga, historia
<1>3. /\ t_paquete(op, nombre, 0) \in Paquetes /\ t_paquete(op, nombre, 0).op # "VALOR"
      /\ t_paquete(op, nombre, 0).nombre = nombre
  <2>1. t_paquete(op, nombre, 0) \in Paquetes
    BY TipoPaquete
  <2> QED BY <2>1 DEF t_paquete
<1>4. programa'[t].nombre = nombre /\ \A u \in Procesos \ {t} : programa'[u] = programa[u]
  <2>1. /\ programa'[t] = [paso |-> paso, nombre |-> nombre, valor |-> v]
        /\ \A u \in Procesos \ {t} : programa'[u] = programa[u]
    <3>1. TipoProgramas /\ Pasa(t, paso, nombre, v)
      BY DEF Tipos
    <3> QED BY <3>1, TipoPasa
  <2> QED BY <2>1
<1> QED BY <1>2, <1>3, <1>4, VariableManda

LEMMA VariableRespuesta ==
  ASSUME Tipos, Protocolo, Variable, NEW t \in Procesos, recibirRespuesta(t)
  PROVE  Variable'
<1> PICK s : s = programa[t].nombre
  OBVIOUS
<1>1. /\ UNCHANGED <<principal, config, heredadas, escrito, valor_shared_vars>>
      /\ aCPU[t] # <<>> /\ aCPU' = [aCPU EXCEPT ![t] = Tail(@)] /\ s \in Nombres
  BY DEF recibirRespuesta, RestoDelSistema, carga, historia, Tipos, TipoProgramas
<1>2. \A u \in Procesos : aCPU'[u] = aCPU[u] \/ SinLectura(aCPU'[u])
  <2>1. Tail(aCPU[t]) = <<>>
    BY <1>1, Respuesta, ProtocoloDef
  <2>2. SinLectura(<<>>)
    BY DEF SinLectura
  <2>3. aCPU'[t] = <<>> /\ \A u \in Procesos \ {t} : aCPU'[u] = aCPU[u]
    BY <1>1, <2>1 DEF Tipos, TipoRed
  <2> QED BY <2>2, <2>3
<1>3. CASE Pasa(t, "bloqueado", s, 0) /\ Envia(t, t_paquete("PROGRAMA_BLOQUEADO_SEMAFORO", s, 0))
  <2> DEFINE b == t_paquete("PROGRAMA_BLOQUEADO_SEMAFORO", s, 0)
  <2>1. b \in Paquetes /\ b.op = "PROGRAMA_BLOQUEADO_SEMAFORO"
    <3>1. b \in Paquetes
      BY <1>1, TipoPaquete DEF Ops
    <3> QED BY <3>1 DEF t_paquete
  <2>2. Envia(t, b) /\ b.op # "VALOR"
    BY <1>3, <2>1
  <2> HIDE DEF b
  <2>3. programa'[t].paso # "asigna" /\ \A u \in Procesos \ {t} : programa'[u] = programa[u]
    <3>1. "bloqueado" \in PasosPrograma /\ 0 \in Nat /\ TipoProgramas
      BY DEF PasosPrograma, Tipos
    <3>2. /\ programa'[t] = [paso |-> "bloqueado", nombre |-> s, valor |-> 0]
          /\ \A u \in Procesos \ {t} : programa'[u] = programa[u]
      BY <1>1, <1>3, <3>1, TipoPasa
    <3> QED BY <3>2
  <2> QED BY <1>1, <1>2, <2>1, <2>2, <2>3, VariableManda
<1>4. CASE Pasa(t, "ejecuta", Nulo, 0) /\ UNCHANGED aKernel
  <2>1. programa'[t].paso # "asigna" /\ \A u \in Procesos \ {t} : programa'[u] = programa[u]
    <3>1. "ejecuta" \in PasosPrograma /\ Nulo \in Nombres /\ 0 \in Nat /\ TipoProgramas
      BY DEF PasosPrograma, Nombres, Tipos
    <3>2. /\ programa'[t] = [paso |-> "ejecuta", nombre |-> Nulo, valor |-> 0]
          /\ \A u \in Procesos \ {t} : programa'[u] = programa[u]
      BY <1>4, <3>1, TipoPasa
    <3> QED BY <3>2
  <2> QED BY <1>1, <1>2, <1>4, <2>1, VariableSinEnvio
<1> QED BY <1>3, <1>4 DEF recibirRespuesta

(* Who assigns has Candado, so no other assignment is on its way.          *)
LEMMA SoloElDueno ==
  ASSUME Tipos, Protocolo, Unidades, UnaUnidad, NEW t \in Procesos, <<t, Candado>> \in tomadas
  PROVE  \A u \in Procesos \ {t} : \A x :
            Viajan(u, x) = {} /\ ~EnMano(u, x) /\ SinLectura(aCPU[u])
<1>1. ASSUME NEW u \in Procesos \ {t}
      PROVE  <<u, Candado>> \notin tomadas
  BY <1>1, UnDueno
<1> QED BY <1>1, Dueno

LEMMA VariableValor ==
  ASSUME Tipos, Protocolo, Unidades, Variable, NEW t \in Procesos, enviarValor(t)
  PROVE  Variable'
<1> PICK y : y = programa[t].nombre
  OBVIOUS
<1> PICK v : v = programa[t].valor
  OBVIOUS
<1> PICK n : n = Len(aKernel[t])
  OBVIOUS
<1> PICK paq : paq = t_paquete("VALOR", Nulo, v)
  OBVIOUS
<1>1. /\ programa[t].paso = "asigna" /\ Propio(t) /\ y \in Variables /\ v \in Nat
      /\ ConCandado(t) /\ aCPU[t] = <<>>
  BY ProtocoloDef DEF enviarValor, Propio, Fase, FaseAsigna, Sigue, Tipos, TipoProgramas
<1>2. /\ UNCHANGED <<principal, aCPU, config, heredadas, valor_shared_vars>>
      /\ Envia(t, paq) /\ Pasa(t, "ejecuta", Nulo, 0)
      /\ escrito' = [escrito EXCEPT ![y] = v]
  BY DEF enviarValor, RestoDelSistema, carga
<1>3. paq \in Paquetes /\ paq.op = "VALOR" /\ paq.valor = v
  <2>1. paq \in Paquetes
    BY <1>1, TipoPaquete DEF Ops, Nombres
  <2> QED BY <2>1 DEF t_paquete
<1>4. aKernel'[t] = Append(aKernel[t], paq) /\ \A u \in Procesos \ {t} : aKernel'[u] = aKernel[u]
  BY <1>2, <1>3, TipoEnvia DEF Tipos
<1>5. programa'[t].paso = "ejecuta" /\ \A u \in Procesos \ {t} : programa'[u] = programa[u]
  <2>1. "ejecuta" \in PasosPrograma /\ Nulo \in Nombres /\ 0 \in Nat /\ TipoProgramas
    BY DEF PasosPrograma, Nombres, Tipos
  <2>2. /\ programa'[t] = [paso |-> "ejecuta", nombre |-> Nulo, valor |-> 0]
        /\ \A u \in Procesos \ {t} : programa'[u] = programa[u]
    BY <1>2, <2>1, TipoPasa
  <2> QED BY <2>2
<1>6. ASSUME NEW u \in Procesos, u # t
      PROVE  Igual(u) /\ Nombrada(u)'
  <2>1. Pares(u) /\ Nombrada(u) /\ aKernel'[u] = aKernel[u] /\ programa'[u] = programa[u]
    BY <1>4, <1>5, <1>6, ProtocoloDef DEF Propio, Variable
  <2> QED BY <1>2, <2>1, Quieto
<1>7. \A u \in Procesos : Nombrada(u)'
  BY <1>5, <1>6 DEF Nombrada
<1>8. UnaUnidad' <=> UnaUnidad
  BY <1>2 DEF UnaUnidad, EnSemIds
<1>9. SUFFICES ASSUME UnaUnidad
               PROVE  LeidoAlDia' /\ \A x \in config.vars : EscritoAlDia(x)'
  BY <1>7, <1>8, <1>2 DEF Variable
<1>10. <<t, Candado>> \in tomadas
  BY <1>1, Dueno
<1>11. LeidoAlDia'
  <2>1. \A u \in Procesos : SinLectura(aCPU'[u])
    BY <1>1, <1>2, <1>9, <1>10, SoloElDueno DEF SinLectura
  <2> QED BY <2>1 DEF LeidoAlDia, SinLectura
<1>12. /\ n \in Nat /\ aKernel'[t][n + 1] = paq
       /\ \A k \in 1 .. n : aKernel'[t][k] = aKernel[t][k]
       /\ \A x : Viajan(t, x) \subseteq 1 .. n
       /\ \A x : Viajan(t, x)' = IF NombreDe(t, n + 1) = x
                                 THEN Viajan(t, x) \cup {n + 1} ELSE Viajan(t, x)
  BY <1>2, <1>3, <1>4, ViajanAppend
<1>13. NombreDe(t, n + 1) = y
  BY <1>1 DEF Variable, Nombrada
<1>14. \A x : EnMano(t, x)' = EnMano(t, x)
  BY <1>2 DEF EnMano
<1>15. ASSUME NEW x \in config.vars
       PROVE  EscritoAlDia(x)'
  <2>1. x \in Variables /\ EscritoAlDia(x)
    BY <1>9, <1>15, DelArchivo DEF Tipos, TipoCarga, Variable
  <2>2. \A u \in Procesos \ {t} : Viajan(u, x)' = {} /\ ~EnMano(u, x)'
    BY <1>6, <1>9, <1>10, <2>1, SoloElDueno DEF Igual
  <2>3. CASE x = y
    <3>1. Viajan(t, x)' = Viajan(t, x) \cup {n + 1} /\ escrito'[x] = v
      BY <1>1, <1>2, <1>12, <1>13, <2>3 DEF Tipos, TipoHistoria
    <3>2. ASSUME NEW k \in Viajan(t, x)', \A j \in Viajan(t, x)' : j <= k
          PROVE  aKernel'[t][k].valor = v
      <4>1. k \in 1 .. n \/ k = n + 1
        BY <1>12, <3>1, <3>2
      <4>2. n + 1 <= k
        BY <3>1, <3>2
      <4>3. k = n + 1
        BY <1>12, <4>1, <4>2
      <4> QED BY <1>3, <1>12, <4>3
    <3>3. Viajan(t, x)' # {}
      BY <3>1
    <3>4. \A u \in Procesos :
            \A k \in Viajan(u, x)' :
               (\A j \in Viajan(u, x)' : j <= k) => aKernel'[u][k].valor = escrito'[x]
      BY <2>2, <3>1, <3>2
    <3>5. \A u \in Procesos :
            EnMano(u, x)' /\ Viajan(u, x)' = {} => principal'.valor = escrito'[x]
      BY <2>2, <3>3
    <3>6. ~\A u \in Procesos : Viajan(u, x)' = {} /\ ~EnMano(u, x)'
      BY <3>3
    <3> QED BY <3>4, <3>5, <3>6 DEF EscritoAlDia
  <2>4. CASE x # y
    <3>1. Viajan(t, x)' = Viajan(t, x) /\ escrito'[x] = escrito[x]
      BY <1>1, <1>2, <1>12, <1>13, <2>1, <2>4 DEF Tipos, TipoHistoria
    <3>2. \A k \in Viajan(t, x) : aKernel'[t][k] = aKernel[t][k]
      BY <1>12
    <3>3. \A u \in Procesos \ {t} : Viajan(u, x) = {} /\ ~EnMano(u, x)
      BY <1>9, <1>10, SoloElDueno
    <3> QED BY <1>2, <1>14, <2>1, <2>2, <3>1, <3>2, <3>3 DEF EscritoAlDia
  <2> QED BY <2>3, <2>4
<1> QED BY <1>11, <1>15

(* A packet that the main thread takes from the socket of t: what is on    *)
(* its way moves one place.                                                *)
LEMMA EscritoAvanza ==
  ASSUME Tipos, NEW t \in Procesos, NEW x \in Variables, EscritoAlDia(x),
         UNCHANGED <<escrito, valor_shared_vars>>,
         ~EnMano(t, x), EnMano(t, x)' => 1 \in Viajan(t, x) /\ principal'.valor = aKernel[t][1].valor,
         \A k : k \in Viajan(t, x)' <=> k \in Nat \ {0} /\ k + 1 \in Viajan(t, x),
         \A k \in Viajan(t, x)' : aKernel'[t][k] = aKernel[t][k + 1],
         \A k \in Viajan(t, x) : k # 1 => k - 1 \in Viajan(t, x)',
         1 \in Viajan(t, x) => EnMano(t, x)',
         Viajan(t, x) \subseteq Nat,
         \A u \in Procesos \ {t} : Igual(u)
  PROVE  EscritoAlDia(x)'
<1> DEFINE V == Viajan(t, x)
           W == Viajan(t, x)'
<1>1. V # {} => W # {} \/ EnMano(t, x)'
  <2>1. ASSUME NEW k \in V PROVE W # {} \/ EnMano(t, x)'
    BY <2>1
  <2> QED BY <2>1
<1>2. W # {} \/ EnMano(t, x)' => V # {}
  OBVIOUS
<1>3. ASSUME NEW u \in Procesos \ {t}
      PROVE  /\ Viajan(u, x)' = Viajan(u, x)
             /\ \A k \in Viajan(u, x) : aKernel'[u][k].valor = aKernel[u][k].valor
             /\ EnMano(u, x)' = EnMano(u, x)
             /\ EnMano(u, x) => principal'.valor = principal.valor
  BY <1>3 DEF Igual
<1>4. ASSUME NEW k \in W, \A j \in W : j <= k
      PROVE  aKernel'[t][k].valor = escrito[x]
  <2>1. k + 1 \in V /\ k \in Nat \ {0} /\ aKernel'[t][k] = aKernel[t][k + 1]
    BY <1>4
  <2>2. ASSUME NEW j \in V PROVE j <= k + 1
    <3>1. CASE j = 1
      BY <2>1, <3>1
    <3>2. CASE j # 1
      <4>1. j - 1 <= k /\ j \in Nat
        BY <1>4, <2>2, <3>2
      <4> QED BY <2>1, <4>1
    <3> QED BY <3>1, <3>2
  <2> QED BY <2>1, <2>2 DEF EscritoAlDia
<1>5. ASSUME EnMano(t, x)', W = {}
      PROVE  principal'.valor = escrito[x]
  <2>1. 1 \in V /\ principal'.valor = aKernel[t][1].valor
    BY <1>5
  <2>2. \A j \in V : j = 1
    BY <1>5
  <2>3. \A j \in V : j <= 1
    BY <2>2
  <2> QED BY <2>1, <2>3 DEF EscritoAlDia
<1>6. (\A u \in Procesos : Viajan(u, x)' = {} /\ ~EnMano(u, x)') =>
        \A u \in Procesos : Viajan(u, x) = {} /\ ~EnMano(u, x)
  <2> HAVE \A u \in Procesos : Viajan(u, x)' = {} /\ ~EnMano(u, x)'
  <2>1. V = {}
    BY <1>1
  <2> QED BY <1>3, <2>1
<1> HIDE DEF V, W
<1>7. \A u \in Procesos :
        \A k \in Viajan(u, x)' :
           (\A j \in Viajan(u, x)' : j <= k) => aKernel'[u][k].valor = escrito[x]
  <2>1. ASSUME NEW u \in Procesos \ {t}
        PROVE  \A k \in Viajan(u, x)' :
                 (\A j \in Viajan(u, x)' : j <= k) => aKernel'[u][k].valor = escrito[x]
    <3>1. \A k \in Viajan(u, x) :
             (\A j \in Viajan(u, x) : j <= k) => aKernel[u][k].valor = escrito[x]
      BY DEF EscritoAlDia
    <3>2. /\ Viajan(u, x)' = Viajan(u, x)
          /\ \A k \in Viajan(u, x) : aKernel'[u][k].valor = aKernel[u][k].valor
      BY <1>3
    <3> QED BY <3>1, <3>2
  <2> QED BY <1>4, <2>1 DEF W
<1>8. \A u \in Procesos : EnMano(u, x)' /\ Viajan(u, x)' = {} => principal'.valor = escrito[x]
  BY <1>3, <1>5 DEF EscritoAlDia, W
<1>9. (\A u \in Procesos : Viajan(u, x)' = {} /\ ~EnMano(u, x)') => valor_shared_vars[x] = escrito[x]
  BY <1>6 DEF EscritoAlDia
<1> QED BY <1>7, <1>8, <1>9 DEF EscritoAlDia

(* A step of the main thread that is no part of an assignment.             *)
LEMMA VariableAtiende ==
  ASSUME Tipos, Protocolo, Variable, NEW t \in Procesos,
         UNCHANGED <<programa, config, heredadas, escrito, valor_shared_vars>>,
         principal.paso \notin {"valor", "escribe"}, principal'.paso # "escribe",
         \A u \in Procesos \ {t} : aKernel'[u] = aKernel[u],
         \/ aKernel'[t] = aKernel[t]
         \/ /\ \A k \in 1 .. Len(aKernel[t]) : ~EsEscritura(aKernel[t][k])
            /\ aKernel'[t] = <<>> /\ programa[t].paso # "asigna",
         \/ \A u \in Procesos : aCPU'[u] = aCPU[u] \/ SinLectura(aCPU'[u])
         \/ UnaUnidad => LeidoAlDia'
  PROVE  Variable'
<1>1. \A u \in Procesos : Pares(u) /\ Nombrada(u) /\ ~Partida(u)
  BY ProtocoloDef DEF Propio, Variable, Partida
<1>2. ASSUME NEW u \in Procesos, aKernel'[u] = aKernel[u]
      PROVE  Igual(u) /\ Nombrada(u)'
  BY <1>1, <1>2, Quieto
<1>3. CASE /\ \A k \in 1 .. Len(aKernel[t]) : ~EsEscritura(aKernel[t][k])
           /\ aKernel'[t] = <<>> /\ programa[t].paso # "asigna"
  <2>1. \A x : Viajan(t, x) = {}
    BY <1>3 DEF Viajan, EsEscritura
  <2>2. \A x : Viajan(t, x)' = {}
    BY <1>3 DEF Viajan
  <2>3. \A x : ~EnMano(t, x) /\ EnMano(t, x)' = EnMano(t, x)
    BY DEF EnMano
  <2>4. Igual(t)
    BY <2>1, <2>2, <2>3 DEF Igual
  <2>5. Nombrada(t)'
    BY <1>3 DEF Nombrada
  <2>6. \A u \in Procesos : Igual(u) /\ Nombrada(u)'
    BY <1>2, <2>4, <2>5
  <2> QED BY <2>6, VariableQuieta
<1>4. CASE aKernel'[t] = aKernel[t]
  <2>1. \A u \in Procesos : aKernel'[u] = aKernel[u]
    BY <1>4
  <2> QED BY <1>2, <2>1, VariableQuieta
<1> QED BY <1>3, <1>4

LEMMA VariableSirve ==
  ASSUME Tipos, Protocolo, Unidades, Variable, NEW t \in Procesos, NEW op, NEW paso,
         Llega(t, op), Sirve(t, paso),
         <<op, paso>> \in {<<"PEDIR_SEMAFORO", "pide">>, <<"LIBERAR_SEMAFORO", "libera">>,
                           <<"SOLICITAR_VARIABLE", "solicita">>, <<"ESCRIBIR_VARIABLE", "valor">>}
  PROVE  Variable'
<1>1. Propio(t) /\ aKernel[t] # <<>> /\ Head(aKernel[t]).op = op /\ ~Atiende(t)
  BY ProtocoloDef DEF Llega, Atiende
<1>2. /\ aKernel'[t] = Tail(aKernel[t]) /\ \A u \in Procesos \ {t} : aKernel'[u] = aKernel[u]
      /\ UNCHANGED <<aCPU, programa, config, heredadas, escrito, valor_shared_vars>>
  <2>1. Lee(t) /\ UNCHANGED <<aCPU, programa, config, heredadas, escrito, valor_shared_vars>>
    BY DEF Sirve, programas, historia, carga
  <2> QED BY <1>1, <2>1, TipoLee DEF Tipos
<1>3. /\ principal'.paso = paso /\ principal'.proc = t
      /\ principal'.nombre = Head(aKernel[t]).nombre
      /\ principal.paso = "select" /\ paso # "escribe"
  BY DEF Sirve, EnSelect, Llega
<1>4. CASE op = "ESCRIBIR_VARIABLE"
  <2>1. Pares(t) /\ Nombrada(t)
    BY <1>1 DEF Propio, Variable
  <2>2. ASSUME NEW u \in Procesos \ {t}
        PROVE  Igual(u) /\ Nombrada(u)'
    <3>1. Pares(u) /\ Nombrada(u) /\ ~Partida(u)
      BY <1>3, ProtocoloDef DEF Propio, Variable, Partida
    <3> QED BY <1>2, <1>3, <3>1, Quieto
  <2>3. /\ \A x : \A k : k \in Viajan(t, x)' <=> k \in Nat \ {0} /\ k + 1 \in Viajan(t, x)
        /\ \A x : \A k \in Viajan(t, x)' : aKernel'[t][k] = aKernel[t][k + 1]
        /\ \A x : \A k \in Viajan(t, x) : k # 1 => k - 1 \in Viajan(t, x)'
        /\ \A x : Viajan(t, x) \subseteq Nat
        /\ Nombrada(t)'
    BY <1>1, <1>2, <1>3, <2>1, ViajanTail
  <2>4. \A x : ~EnMano(t, x) /\ ~EnMano(t, x)' /\ 1 \notin Viajan(t, x)
    <3>1. Head(aKernel[t]) = aKernel[t][1]
      BY <1>1 DEF Tipos, TipoRed
    <3> QED BY <1>1, <1>3, <1>4, <3>1 DEF EnMano, Viajan
  <2>5. (UnaUnidad' <=> UnaUnidad) /\ config.vars \subseteq Variables
    BY <1>2, DelArchivo DEF UnaUnidad, EnSemIds, Tipos, TipoCarga
  <2>6. ASSUME UnaUnidad, NEW x \in config.vars
        PROVE  EscritoAlDia(x)'
    BY <1>2, <2>2, <2>3, <2>4, <2>5, <2>6, EscritoAvanza DEF Variable
  <2>7. UnaUnidad => LeidoAlDia'
    BY <1>2 DEF Variable, LeidoAlDia
  <2>8. \A u \in Procesos : Nombrada(u)'
    BY <2>2, <2>3
  <2> QED BY <1>2, <2>5, <2>6, <2>7, <2>8 DEF Variable
<1>5. CASE op # "ESCRIBIR_VARIABLE"
  <2>1. op # "VALOR" /\ ~EsEscritura(Head(aKernel[t]))
    BY <1>1, <1>5 DEF EsEscritura
  <2>2. /\ Tail(aKernel[t]) = <<>> /\ programa[t].paso # "asigna"
        /\ \A k \in 1 .. Len(aKernel[t]) : ~EsEscritura(aKernel[t][k])
    BY <1>1, <2>1, Pedido
  <2> QED BY <1>2, <1>3, <2>2, VariableAtiende
<1> QED BY <1>4, <1>5

LEMMA VariableRecibe ==
  ASSUME Tipos, Protocolo, Unidades, Variable, recibirValor
  PROVE  Variable'
<1> PICK t : t = principal.proc
  OBVIOUS
<1>1. /\ principal.paso = "valor" /\ t \in Procesos /\ Propio(t) /\ aKernel[t] # <<>>
      /\ Head(aKernel[t]).op = "VALOR" /\ Head(aKernel[t]) = aKernel[t][1]
  BY LlegaValor DEF recibirValor
<1>2. /\ Lee(t) /\ UNCHANGED <<aCPU, programa, config, heredadas, escrito, valor_shared_vars>>
      /\ principal' = [principal EXCEPT !.paso = "escribe", !.valor = aKernel[t][1].valor]
  BY <1>1 DEF recibirValor, programas, historia, carga, ValorDelPaquete
<1>3. /\ principal'.paso = "escribe" /\ principal'.proc = t
      /\ principal'.nombre = principal.nombre /\ principal'.valor = aKernel[t][1].valor
  BY <1>2 DEF Tipos, TipoHilos
<1>4. /\ aKernel'[t] = Tail(aKernel[t])
      /\ \A u \in Procesos \ {t} : aKernel'[u] = aKernel[u]
  BY <1>1, <1>2, TipoLee DEF Tipos
<1>5. Pares(t) /\ Nombrada(t)
  BY <1>1 DEF Propio, Variable
<1>6. ASSUME NEW u \in Procesos \ {t}
      PROVE  Igual(u) /\ Nombrada(u)'
  <2>1. Pares(u) /\ Nombrada(u)
    BY ProtocoloDef DEF Propio, Variable
  <2> QED BY <1>2, <1>3, <1>4, <2>1, Quieto
<1>7. /\ \A x : \A k : k \in Viajan(t, x)' <=> k \in Nat \ {0} /\ k + 1 \in Viajan(t, x)
      /\ \A x : \A k \in Viajan(t, x)' : aKernel'[t][k] = aKernel[t][k + 1]
      /\ \A x : \A k \in Viajan(t, x) : k # 1 => k - 1 \in Viajan(t, x)'
      /\ \A x : Viajan(t, x) \subseteq Nat
      /\ Nombrada(t)'
  BY <1>1, <1>2, <1>4, <1>5, ViajanTail
<1>8. \A x : ~EnMano(t, x) /\ (EnMano(t, x)' <=> 1 \in Viajan(t, x))
  <2>1. 1 \in 1 .. Len(aKernel[t])
    <3>1. aKernel[t] \in Seq(Paquetes)
      BY <1>1 DEF Tipos, TipoRed
    <3> DEFINE n == Len(aKernel[t])
    <3>2. n \in Nat /\ n # 0
      BY <1>1, <3>1
    <3> HIDE DEF n
    <3>3. 1 \in 1 .. n
      BY <3>2
    <3> QED BY <3>3 DEF n
  <2>2. \A x : 1 \in Viajan(t, x) <=> principal.nombre = x
    BY <1>1, <2>1 DEF Viajan, NombreDe
  <2>3. \A x : EnMano(t, x)' <=> principal.nombre = x
    BY <1>3 DEF EnMano
  <2> QED BY <1>1, <2>2, <2>3 DEF EnMano
<1>9. (UnaUnidad' <=> UnaUnidad) /\ config.vars \subseteq Variables
  BY <1>2, DelArchivo DEF UnaUnidad, EnSemIds, Tipos, TipoCarga
<1>10. ASSUME UnaUnidad, NEW x \in config.vars
       PROVE  EscritoAlDia(x)'
  BY <1>1, <1>2, <1>3, <1>6, <1>7, <1>8, <1>9, <1>10, EscritoAvanza DEF Variable
<1>11. UnaUnidad => LeidoAlDia'
  BY <1>2 DEF Variable, LeidoAlDia
<1> QED BY <1>2, <1>6, <1>7, <1>9, <1>10, <1>11 DEF Variable

LEMMA VariablePedido ==
  ASSUME Tipos, Protocolo, Variable, semaforoPedido
  PROVE  Variable'
<1> PICK t, s : t = principal.proc /\ s = principal.nombre
  OBVIOUS
<1>1. /\ principal.paso = "pide" /\ t \in Procesos /\ EnServicio(t, "pide")
      /\ programa[t].paso = "wait"
      /\ UNCHANGED <<config, aKernel, programa, heredadas, escrito, valor_shared_vars>>
  <2>1. principal.paso = "pide"
    BY PedidoDeja
  <2> QED BY <2>1, Servido, PedidoDeja
<1>2. CASE Cae
  <2>1. UNCHANGED <<principal, aCPU>>
    BY <1>2 DEF Cae, red
  <2> QED BY <1>1, <2>1, VariableSinEnvio
<1>3. CASE /\ aCPU' = [aCPU EXCEPT ![t] = Append(@, t_paquete("PEDIDO_SEMAFORO_FALLO", s, 1))]
           /\ principal' = [principal EXCEPT !.paso = "pidePCB"]
  <2> DEFINE paq == t_paquete("PEDIDO_SEMAFORO_FALLO", s, 1)
  <2>1. aCPU'[t] = <<paq>> /\ \A u \in Procesos \ {t} : aCPU'[u] = aCPU[u]
    BY <1>1, <1>3 DEF EnServicio, Tipos, TipoRed
  <2>2. paq.op = "PEDIDO_SEMAFORO_FALLO"
    BY DEF t_paquete
  <2> HIDE DEF paq
  <2>3. SinLectura(<<paq>>)
    BY <2>2 DEF SinLectura
  <2>4. principal'.paso = "pidePCB"
    BY <1>3 DEF Tipos, TipoHilos
  <2>5. \A u \in Procesos : aCPU'[u] = aCPU[u] \/ SinLectura(aCPU'[u])
    BY <2>1, <2>3
  <2> QED BY <1>1, <2>4, <2>5, VariableAtiende
<1>4. CASE Contesta("PEDIDO_SEMAFORO_OK", 0)
  <2> DEFINE paq == t_paquete("PEDIDO_SEMAFORO_OK", s, 0)
  <2>1. /\ "PEDIDO_SEMAFORO_OK" \in Ops /\ 0 \in Nat /\ aKernel[t] = <<>> /\ aCPU[t] = <<>>
        /\ principal.paso # "select" /\ programa[t].paso # "asigna" /\ s = programa[t].nombre
    BY <1>1 DEF Ops, EnServicio
  <2>2. /\ aCPU'[t] = <<paq>> /\ \A u \in Procesos \ {t} : aCPU'[u] = aCPU[u]
        /\ principal'.paso = "select"
    BY <1>1, <1>4, <2>1, Contesto
  <2>3. paq.op = "PEDIDO_SEMAFORO_OK"
    BY DEF t_paquete
  <2> HIDE DEF paq
  <2>4. SinLectura(<<paq>>)
    BY <2>3 DEF SinLectura
  <2>5. \A u \in Procesos : aCPU'[u] = aCPU[u] \/ SinLectura(aCPU'[u])
    BY <2>2, <2>4
  <2> QED BY <1>1, <2>2, <2>5, VariableAtiende
<1> QED BY <1>2, <1>3, <1>4 DEF semaforoPedido

LEMMA VariableLibera ==
  ASSUME Tipos, Protocolo, Variable, semaforoLiberado
  PROVE  Variable'
<1> PICK t, s : t = principal.proc /\ s = principal.nombre
  OBVIOUS
<1>1. /\ principal.paso = "libera" /\ t \in Procesos /\ EnServicio(t, "libera")
      /\ programa[t].paso = "signal" /\ Contesta("LIBERAR_SEMAFORO", 0)
      /\ UNCHANGED <<config, aKernel, programa, heredadas, escrito, valor_shared_vars>>
  <2>1. principal.paso = "libera"
    BY Liberado
  <2> QED BY <2>1, Servido, Liberado
<1> DEFINE paq == t_paquete("LIBERAR_SEMAFORO", s, 0)
<1>2. /\ "LIBERAR_SEMAFORO" \in Ops /\ 0 \in Nat /\ aKernel[t] = <<>> /\ aCPU[t] = <<>>
      /\ principal.paso # "select" /\ programa[t].paso # "asigna" /\ s = programa[t].nombre
  BY <1>1 DEF Ops, EnServicio
<1>3. /\ aCPU'[t] = <<paq>> /\ \A u \in Procesos \ {t} : aCPU'[u] = aCPU[u]
      /\ principal'.paso = "select"
  BY <1>1, <1>2, Contesto
<1>4. paq.op = "LIBERAR_SEMAFORO"
  BY DEF t_paquete
<1> HIDE DEF paq
<1>5. SinLectura(<<paq>>)
  BY <1>4 DEF SinLectura
<1>6. \A u \in Procesos : aCPU'[u] = aCPU[u] \/ SinLectura(aCPU'[u])
  BY <1>3, <1>5
<1> QED BY <1>1, <1>3, <1>6, VariableAtiende

LEMMA VariableBloquea ==
  ASSUME Tipos, Protocolo, Variable, bloquearProceso
  PROVE  Variable'
<1> PICK t : t = principal.proc
  OBVIOUS
<1>1. /\ principal.paso = "pidePCB" /\ aKernel[t] # <<>> /\ Lee(t) /\ principal' = EnSelect
      /\ UNCHANGED <<aCPU, programa, config, heredadas, escrito, valor_shared_vars>>
  BY DEF bloquearProceso, carga, programas, historia
<1>2. t \in Procesos /\ Propio(t) /\ programa[t].paso = "bloqueado" /\ FaseBloqueado(t) /\ ~Dormido(t)
  BY <1>1, Servido
<1>3. /\ Len(aKernel[t]) = 1 /\ aKernel[t][1].op = "PROGRAMA_BLOQUEADO_SEMAFORO"
      /\ Head(aKernel[t]) = aKernel[t][1]
  BY <1>1, <1>2 DEF FaseBloqueado, Tipos, TipoRed
<1>4. ~EsEscritura(Head(aKernel[t]))
  BY <1>3 DEF EsEscritura
<1>5. Tail(aKernel[t]) = <<>> /\ \A k \in 1 .. Len(aKernel[t]) : ~EsEscritura(aKernel[t][k])
  BY <1>1, <1>2, <1>4, Pedido
<1>6. aKernel'[t] = <<>> /\ \A u \in Procesos \ {t} : aKernel'[u] = aKernel[u]
  BY <1>1, <1>2, <1>5, TipoLee DEF Tipos
<1>7. principal'.paso = "select"
  BY <1>1 DEF EnSelect
<1> QED BY <1>1, <1>2, <1>5, <1>6, <1>7, VariableAtiende

(* Who reads has Candado: nothing is on its way, and what is read is what  *)
(* was assigned.                                                           *)
LEMMA VariableSolicita ==
  ASSUME Tipos, Protocolo, Unidades, Variable, variableSolicitada
  PROVE  Variable'
<1> PICK t, x : t = principal.proc /\ x = principal.nombre
  OBVIOUS
<1>1. /\ principal.paso = "solicita" /\ t \in Procesos /\ programa[t].paso = "lee" /\ FaseLee(t)
      /\ EnServicio(t, "solicita")
      /\ UNCHANGED <<config, aKernel, programa, heredadas, escrito, valor_shared_vars>>
  <2>1. principal.paso = "solicita"
    BY DEF variableSolicitada, TomaConfig
  <2>2. UNCHANGED <<config, aKernel, programa, heredadas, escrito, valor_shared_vars>>
    BY DEF variableSolicitada, Cae, carga, red, programas, historia
  <2> QED BY <2>1, <2>2, Servido
<1>2. CASE Cae
  <2>1. UNCHANGED <<principal, aCPU>>
    BY <1>2 DEF Cae, red
  <2> QED BY <1>1, <2>1, VariableSinEnvio
<1>3. CASE x \in config.vars /\ Contesta("SOLICITAR_VARIABLE_OK", valor_shared_vars[x])
  <2> PICK v : v = valor_shared_vars[x]
    OBVIOUS
  <2> DEFINE paq == t_paquete("SOLICITAR_VARIABLE_OK", x, v)
  <2>1. /\ "SOLICITAR_VARIABLE_OK" \in Ops /\ v \in Nat /\ aKernel[t] = <<>> /\ aCPU[t] = <<>>
        /\ principal.paso # "select" /\ programa[t].paso # "asigna" /\ x = programa[t].nombre
    BY <1>1, <1>3 DEF Ops, EnServicio, Tipos, TipoCarga
  <2>2. /\ aCPU'[t] = <<paq>> /\ \A u \in Procesos \ {t} : aCPU'[u] = aCPU[u]
        /\ principal'.paso = "select"
    BY <1>1, <1>3, <2>1, Contesto
  <2>3. paq.nombre = x /\ paq.valor = v
    BY DEF t_paquete
  <2> HIDE DEF paq
  <2>4. UnaUnidad => v = escrito[x]
    <3> SUFFICES ASSUME UnaUnidad
                 PROVE  v = escrito[x]
      OBVIOUS
    <3>1. <<t, Candado>> \in tomadas
      BY <1>1, Dueno DEF FaseLee
    <3>2. Viajan(t, x) = {} /\ ~EnMano(t, x)
      BY <1>1, <2>1 DEF Viajan, EnMano
    <3>3. \A u \in Procesos \ {t} : Viajan(u, x) = {} /\ ~EnMano(u, x)
      BY <1>1, <3>1, SoloElDueno
    <3>4. EscritoAlDia(x)
      BY <1>3 DEF Variable
    <3> QED BY <3>2, <3>3, <3>4 DEF EscritoAlDia
  <2>5. ASSUME UnaUnidad PROVE LeidoAlDia'
    <3>1. v = escrito[x]
      BY <2>4, <2>5
    <3>2. ASSUME NEW u \in Procesos, NEW k \in 1 .. Len(aCPU'[u]),
                 aCPU'[u][k].op = "SOLICITAR_VARIABLE_OK"
          PROVE  aCPU'[u][k].valor = escrito[aCPU'[u][k].nombre]
      <4>1. CASE u = t
        <5>1. Len(<<paq>>) = 1 /\ <<paq>>[1] = paq
          OBVIOUS
        <5>2. k = 1
          BY <2>2, <3>2, <4>1, <5>1
        <5> QED BY <2>2, <2>3, <3>1, <4>1, <5>1, <5>2
      <4>2. CASE u # t
        BY <2>2, <2>5, <3>2, <4>2 DEF Variable, LeidoAlDia
      <4> QED BY <4>1, <4>2
    <3> QED BY <1>1, <3>2 DEF LeidoAlDia
  <2>6. UnaUnidad => LeidoAlDia'
    BY <2>5
  <2> QED BY <1>1, <2>2, <2>6, VariableAtiende
<1> QED BY <1>2, <1>3 DEF variableSolicitada

LEMMA VariableEscribe ==
  ASSUME Tipos, Protocolo, Unidades, Variable, variableEscrita
  PROVE  Variable'
<1> PICK t, y : t = principal.proc /\ y = principal.nombre
  OBVIOUS
<1>1. /\ principal.paso = "escribe" /\ t \in Procesos
      /\ UNCHANGED <<config, aKernel, aCPU, programa, heredadas, escrito>>
  <2>1. principal.paso = "escribe"
    BY DEF variableEscrita, TomaConfig
  <2>2. UNCHANGED <<config, aKernel, aCPU, programa, heredadas, escrito>>
    BY DEF variableEscrita, Cae, carga, red, programas, historia
  <2> QED BY <2>1, <2>2 DEF Protocolo
<1>2. CASE Cae
  <2>1. UNCHANGED <<principal, valor_shared_vars>>
    BY <1>2 DEF Cae
  <2> QED BY <1>1, <2>1, VariableSinEnvio
<1>3. CASE /\ y \in config.vars /\ principal' = EnSelect
           /\ valor_shared_vars' = [valor_shared_vars EXCEPT ![y] = principal.valor]
  <2>1. principal'.paso = "select"
    BY <1>3 DEF EnSelect
  <2>2. valor_shared_vars \in [config.vars -> Nat] /\ config.vars \subseteq Variables
    BY DelArchivo DEF Tipos, TipoCarga
  <2>3. \A u \in Procesos : Pares(u) /\ Nombrada(u) /\ ~Partida(u)
    BY <1>1, ProtocoloDef DEF Propio, Variable, Partida
  <2>4. \A u \in Procesos : Nombrada(u)' /\ \A x : Viajan(u, x)' = Viajan(u, x)
    <3>1. ASSUME NEW u \in Procesos, NEW k \in 1 .. Len(aKernel[u]), aKernel[u][k].op = "VALOR"
          PROVE  k # 1
      BY <2>3, <3>1, PrimeraEsDeLaPartida
    <3>2. \A u \in Procesos : \A x : Viajan(u, x)' = Viajan(u, x)
      BY <1>1, <3>1 DEF Viajan, NombreDe
    <3>3. ASSUME NEW u \in Procesos, programa[u].paso = "asigna"
          PROVE  NombreDe(u, Len(aKernel[u]) + 1)' = NombreDe(u, Len(aKernel[u]) + 1)
      <4>1. aKernel[u] # <<>>
        BY <2>3, <3>3 DEF Pares, Abierta
      <4> DEFINE n == Len(aKernel[u])
      <4>2. n \in Nat /\ n # 0
        BY <4>1 DEF Tipos, TipoRed
      <4> HIDE DEF n
      <4>3. n + 1 # 1
        BY <4>2
      <4> QED BY <1>1, <4>3 DEF NombreDe, n
    <3> QED BY <1>1, <2>3, <3>2, <3>3 DEF Nombrada
  <2>5. \A u \in Procesos : \A x : ~EnMano(u, x)'
    BY <2>1 DEF EnMano
  <2>6. UnaUnidad' <=> UnaUnidad
    BY <1>1 DEF UnaUnidad, EnSemIds
  <2>7. UnaUnidad => LeidoAlDia'
    BY <1>1 DEF Variable, LeidoAlDia
  <2>8. ASSUME UnaUnidad, NEW x \in config.vars
        PROVE  EscritoAlDia(x)'
    <3>1. EscritoAlDia(x)
      BY <2>8 DEF Variable
    <3>2. ASSUME \A u \in Procesos : Viajan(u, x) = {}
          PROVE  valor_shared_vars'[x] = escrito[x]
      <4>1. CASE x = y
        BY <1>1, <1>3, <2>2, <3>1, <3>2, <4>1 DEF EscritoAlDia, EnMano
      <4>2. CASE x # y
        BY <1>1, <1>3, <2>2, <3>1, <3>2, <4>2 DEF EscritoAlDia, EnMano
      <4> QED BY <4>1, <4>2
    <3>3. \A u \in Procesos : \A k \in Viajan(u, x) :
             (\A j \in Viajan(u, x) : j <= k) => aKernel[u][k].valor = escrito[x]
      BY <3>1 DEF EscritoAlDia
    <3> QED BY <1>1, <2>4, <2>5, <3>2, <3>3 DEF EscritoAlDia
  <2> QED BY <1>1, <2>4, <2>6, <2>7, <2>8 DEF Variable
<1> QED BY <1>2, <1>3 DEF variableEscrita

(* A reload with the lock free: nothing was on its way. *)
LEMMA VariableCarga ==
  ASSUME Tipos, Protocolo, Unidades, Variable, cargarConfiguracion, ~Cae
  PROVE  Variable'
<1>1. /\ config' = archivo
      /\ valor_shared_vars' = [x \in archivo.vars |-> 0]
      /\ heredadas' = [s \in Semaforos |-> Cardinality(Tomada(s))]
      /\ escrito' = [x \in Variables |-> 0]
      /\ UNCHANGED <<principal, aKernel, aCPU, programa>>
  BY Recargado
<1>2. archivo.vars \subseteq Variables /\ Candado \in Semaforos
  BY DelArchivo, ProgramasAssumption DEF Tipos, TipoCarga
<1>3. /\ \A u \in Procesos : Nombrada(u)'
      /\ \A u \in Procesos : \A x : Viajan(u, x)' = Viajan(u, x) /\ EnMano(u, x)' = EnMano(u, x)
  BY <1>1 DEF Variable, Nombrada, NombreDe, Viajan, EnMano
<1>4. ASSUME UnaUnidad'
      PROVE  LeidoAlDia' /\ \A x \in config'.vars : EscritoAlDia(x)'
  <2>1. Cardinality(Tomada(Candado)) = 0
    BY <1>1, <1>2, <1>4 DEF UnaUnidad
  <2>2. Tomada(Candado) = {}
    BY <2>1, TomadaFinita, FS_EmptySet
  <2>3. \A u \in Procesos : <<u, Candado>> \notin tomadas
    BY <2>2 DEF Tomada
  <2>4. \A u \in Procesos : /\ \A x : Viajan(u, x) = {} /\ ~EnMano(u, x)
                            /\ SinLectura(aCPU[u])
    BY <2>3, Dueno
  <2>5. LeidoAlDia'
    BY <1>1, <2>4 DEF LeidoAlDia, SinLectura
  <2>6. ASSUME NEW x \in config'.vars
        PROVE  EscritoAlDia(x)'
    <3>1. valor_shared_vars'[x] = 0 /\ escrito'[x] = 0
      BY <1>1, <1>2, <2>6
    <3>2. \A u \in Procesos : Viajan(u, x)' = {} /\ ~EnMano(u, x)'
      BY <1>3, <2>4
    <3> QED BY <3>1, <3>2 DEF EscritoAlDia
  <2> QED BY <2>5, <2>6
<1> QED BY <1>3, <1>4 DEF Variable

LEMMA VariableNext ==
  ASSUME Tipos, Protocolo, Unidades, Variable, Next
  PROVE  Variable'
<1>1. ASSUME NEW t \in Procesos, Programa(t) \/ CPU(t) PROVE Variable'
  BY <1>1, VariablePrograma, VariableValor, VariableRespuesta DEF CPU
<1>2. ASSUME NEW t \in Procesos, \/ pideSemaforo(t) \/ liberarSemaforo(t)
                                 \/ solicitaVariable(t) \/ escribirVariable(t)
      PROVE  Variable'
  <2>1. CASE pideSemaforo(t)
    BY <2>1, VariableSirve DEF pideSemaforo
  <2>2. CASE liberarSemaforo(t)
    BY <2>2, VariableSirve DEF liberarSemaforo
  <2>3. CASE solicitaVariable(t)
    BY <2>3, VariableSirve DEF solicitaVariable
  <2>4. CASE escribirVariable(t)
    BY <2>4, VariableSirve DEF escribirVariable
  <2> QED BY <1>2, <2>1, <2>2, <2>3, <2>4
<1>3. CASE Principal
  BY <1>2, <1>3, VariablePedido, VariableBloquea, VariableLibera, VariableSolicita,
     VariableRecibe, VariableEscribe DEF Principal
<1>4. CASE planificadorCortoPlazo
  <2>1. /\ UNCHANGED <<principal, aKernel, aCPU, config, heredadas, escrito, valor_shared_vars>>
        /\ programa' = [programa EXCEPT ![Head(cola_ready)] =
                          [paso |-> "ejecuta", nombre |-> Nulo, valor |-> 0]]
    BY <1>4 DEF planificadorCortoPlazo, carga, red, historia, Pasa
  <2> DEFINE r == [paso |-> "ejecuta", nombre |-> Nulo, valor |-> 0]
  <2>2. r.paso = "ejecuta"
    OBVIOUS
  <2> HIDE DEF r
  <2>3. \A u \in Procesos : programa'[u] = programa[u] \/ programa'[u] = r
    BY <2>1 DEF Tipos, TipoProgramas, r
  <2>4. \A u \in Procesos : programa'[u] = programa[u] \/ programa'[u].paso # "asigna"
    BY <2>2, <2>3
  <2> QED BY <2>1, <2>4, VariableSinEnvio
<1>5. CASE Notify
  <2>1. CASE EnElKernelNadaMas
    BY <2>1, VariableSinEnvio DEF EnElKernelNadaMas, carga, red, programas
  <2>2. CASE Cae
    BY <2>2, VariableSinEnvio DEF Cae, carga, red, programas, historia
  <2> QED BY <1>5, <2>1, <2>2, VariableCarga
       DEF Notify, verNotify, haySemaforos, terminarDeMirar, siguienteEvento
<1>6. ASSUME NEW f \in Archivos, escribirArchivo(f) PROVE Variable'
  BY <1>6, VariableSinEnvio DEF escribirArchivo, carga, red, programas, historia
<1> QED BY <1>1, <1>3, <1>4, <1>5, <1>6 DEF Next

-----------------------------------------------------------------------------
(* The invariant.                                                          *)

LEMMA InvInit == Init => Inv
<1> SUFFICES ASSUME Init PROVE Inv
  OBVIOUS
<1>1. /\ archivo \in Archivos /\ config = archivo
      /\ valor_semaforos = archivo.inits /\ cola_semaforos = SinColas(archivo)
      /\ valor_shared_vars = [x \in archivo.vars |-> 0] /\ eventos = 0
      /\ mutex_config = "libre" /\ cola_ready = <<>>
      /\ principal = EnSelect /\ notify = NotifyReposo
      /\ aKernel = [t \in Procesos |-> <<>>] /\ aCPU = [t \in Procesos |-> <<>>]
      /\ programa = [t \in Procesos |-> [paso |-> "ejecuta", nombre |-> Nulo, valor |-> 0]]
      /\ dentro = {} /\ tomadas = {} /\ heredadas = [s \in Semaforos |-> 0]
      /\ escrito = [x \in Variables |-> 0] /\ alMirar = {}
  BY DEF Init
<1>2. /\ archivo.ids \in [DOMAIN archivo.ids -> Semaforos]
      /\ archivo.inits \in [DOMAIN archivo.ids -> Nat] /\ archivo.vars \subseteq Variables
  BY <1>1, DelArchivo
<1>3. \A t \in Procesos : aKernel[t] = <<>> /\ aCPU[t] = <<>> /\ programa[t].paso = "ejecuta"
  BY <1>1
<1>4. principal.paso = "select" /\ principal \in [paso : PasosPrincipal, proc : Procesos \cup {Nulo},
                                                  nombre : Nombres, valor : Nat]
  BY <1>1, TipoEnSelect
<1>5. notify \in [paso : PasosNotify, i : Nat, visto : BOOLEAN, restan : Int]
      /\ notify.paso = "lee" /\ notify.i = 1
  BY <1>1 DEF NotifyReposo, PasosNotify
<1>6. \A i \in DOMAIN cola_semaforos : cola_semaforos[i] = <<>>
  BY <1>1 DEF SinColas
<1>7. SinRepetidos(<<>>) /\ ToSet(<<>>) = {}
  BY ElementosCortos DEF SinRepetidos
<1>8. Tipos
  <2>1. TipoCarga
    <3>1. cola_semaforos \in [DOMAIN config.ids -> Seq(Procesos)]
      BY <1>1 DEF SinColas
    <3>2. valor_shared_vars \in [config.vars -> Nat] /\ 0 \in Nat
      BY <1>1
    <3> QED BY <1>1, <1>2, <3>1, <3>2 DEF TipoCarga
  <2>2. TipoRed
    <3>1. <<>> \in Seq(Paquetes)
      OBVIOUS
    <3> QED BY <1>1, <3>1 DEF TipoRed
  <2>3. TipoProgramas
    <3>1. [paso |-> "ejecuta", nombre |-> Nulo, valor |-> 0] \in
             [paso : PasosPrograma, nombre : Nombres, valor : Nat]
      BY DEF PasosPrograma, Nombres
    <3> QED BY <1>1, <3>1 DEF TipoProgramas
  <2>4. TipoHilos
    BY <1>1, <1>4, <1>5 DEF TipoHilos
  <2>5. TipoHistoria
    BY <1>1 DEF TipoHistoria
  <2> QED BY <2>1, <2>2, <2>3, <2>4, <2>5 DEF Tipos
<1>9. Protocolo
  <2>1. ASSUME NEW t \in Procesos
        PROVE  Propio(t)
    <3>1. ~Atiende(t) /\ Partida(t) = FALSE /\ Len(aKernel[t]) = 0
      BY <1>3, <1>4 DEF Atiende, Partida
    <3>2. Sigue(t)
      BY <1>3, <3>1 DEF Sigue, Escribiendo
    <3>3. Alterna(<<>>, FALSE) /\ ~Abierta(<<>>, FALSE)
      BY DEF Alterna, Abierta
    <3>4. Pares(t)
      BY <1>3, <3>1, <3>3 DEF Pares
    <3>5. ~HayEscritura(t)
      BY <3>1 DEF HayEscritura
    <3>6. Fase(t)
      BY <1>3, <3>2 DEF Fase
    <3> QED BY <1>1, <3>4, <3>5, <3>6 DEF Propio, ConLicencia, UnaSeccion
  <2> QED BY <1>4, <2>1, ProtocoloDef
<1>10. Esperas
  <2>1. \A i \in DOMAIN cola_semaforos : \A t \in Procesos : ~EnEspera(i, t)
    BY <1>6, <1>7 DEF EnEspera
  <2>2. \A t : t \notin ToSet(cola_ready)
    BY <1>1, <1>7
  <2> QED BY <1>1, <1>6, <1>7, <2>1, <2>2 DEF Esperas
<1>11. Unidades
  <2>1. \A s : Cardinality(Tomada(s)) = 0
    <3>1. \A s : Tomada(s) = {}
      BY <1>1 DEF Tomada
    <3> QED BY <3>1, FS_EmptySet
  <2>2. ASSUME NEW s \in Semaforos, NEW i \in EnSemIds(s)
        PROVE  valor_semaforos[i] + Cardinality(Tomada(s)) <= config.inits[i] + heredadas[s]
    <3>1. valor_semaforos[i] = config.inits[i] /\ config.inits[i] \in Nat /\ heredadas[s] = 0
      BY <1>1, <1>2, <2>2 DEF EnSemIds
    <3> QED BY <2>1, <3>1
  <2> QED BY <1>1, <2>2 DEF Unidades
<1>12. Mirada
  BY <1>1, <1>5 DEF Mirada
<1>13. Variable
  <2>1. config.vars \subseteq Variables
    BY <1>1, <1>2
  <2>2. \A t \in Procesos : \A x : Viajan(t, x) = {} /\ ~EnMano(t, x)
    BY <1>3, <1>4 DEF Viajan, EnMano
  <2>3. \A x \in config.vars : valor_shared_vars[x] = escrito[x]
    BY <1>1, <2>1
  <2>4. \A x \in config.vars : EscritoAlDia(x)
    BY <2>2, <2>3 DEF EscritoAlDia
  <2>5. LeidoAlDia
    BY <1>3 DEF LeidoAlDia
  <2>6. \A t \in Procesos : Nombrada(t)
    BY <1>3 DEF Nombrada
  <2> QED BY <2>4, <2>5, <2>6 DEF Variable
<1> QED BY <1>8, <1>9, <1>10, <1>11, <1>12, <1>13 DEF Inv

LEMMA InvNext == Inv /\ [Next]_vars => Inv'
<1> SUFFICES ASSUME Inv, [Next]_vars PROVE Inv'
  OBVIOUS
<1>1. CASE Next
  <2>1. Tipos' /\ Esperas' /\ Unidades' /\ Mirada' /\ Variable'
    BY <1>1, TiposNext, EsperasNext, UnidadesNext, MiradaNext, VariableNext DEF Inv
  <2>2. Protocolo'
    BY <1>1, ProtocoloNext DEF Inv, Unidades
  <2> QED BY <2>1, <2>2 DEF Inv
<1>2. CASE UNCHANGED vars
  <2>1. /\ UNCHANGED <<archivo, eventos, config, valor_semaforos, cola_semaforos, valor_shared_vars,
                       cola_ready, principal, notify, mutex_config>>
        /\ UNCHANGED red /\ UNCHANGED programas /\ UNCHANGED historia
        /\ UNCHANGED <<aKernel, aCPU, programa, dentro, tomadas, heredadas, escrito, alMirar>>
    BY <1>2 DEF vars, disco, semaforos, carga, red, programas, historia
  <2>2. Tipos'
    BY <2>1, Marco DEF Inv, Tipos
  <2>3. Protocolo'
    BY <2>1, ProtocoloQuieto DEF Inv
  <2>4. Esperas'
    <3>1. \A u \in Procesos : Dormido(u)' <=> Dormido(u)
      BY <2>1 DEF Dormido, Atiende
    <3> QED BY <2>1, <3>1, EsperasQuietas DEF Inv
  <2>5. Unidades'
    BY <2>1, UnidadesQuietas DEF Inv, Unidades
  <2>6. Mirada'
    BY <2>1, MiradaQuieta DEF Inv
  <2>7. Variable'
    BY <2>1, VariableSinEnvio DEF Inv
  <2> QED BY <2>2, <2>3, <2>4, <2>5, <2>6, <2>7 DEF Inv
<1> QED BY <1>1, <1>2

(* What is in the sockets, in the hands of the main thread, in the queues  *)
(* and in the shared variables is what Inv says, whatever is written in    *)
(* kernel.config and whenever it is loaded.                                *)
THEOREM InvSiempre == Spec => []Inv
BY InvInit, InvNext, PTL DEF Spec

(* A process that waited when the look that let the reload go on began,    *)
(* and was not woken since, is in a queue still (Kernel.c:89).             *)
THEOREM QuienEsperabaSigueSiempre == Spec => []QuienEsperabaSigue
<1>1. Inv => QuienEsperabaSigue
  BY DEF Inv, Mirada, QuienEsperabaSigue, Perdidos
<1> QED BY <1>1, InvSiempre, PTL

(* No lock has more programs past its wait than kernel.config gives it     *)
(* units, those that a reload found inside apart (Kernel.c:149).           *)
THEOREM ExclusionSiempre == Spec => []ExclusionConRecarga
<1>1. ASSUME Inv, NEW s \in Semaforos, NEW i \in EnSemIds(s)
      PROVE  Cardinality({t \in Procesos : <<t, s>> \in dentro}) <= config.inits[i] + heredadas[s]
  <2> DEFINE D == {t \in Procesos : <<t, s>> \in dentro}
             c == Cardinality(Tomada(s))
             d == Cardinality(D)
  <2>1. D \in SUBSET Tomada(s)
    BY <1>1 DEF Inv, Unidades, Tomada
  <2>2. d \in Nat /\ d <= c
    BY <2>1, TomadaFinita
  <2>3. /\ valor_semaforos[i] \in Nat /\ config.inits[i] \in Nat /\ heredadas[s] \in Nat /\ c \in Nat
        /\ valor_semaforos[i] + c <= config.inits[i] + heredadas[s]
    BY <1>1, CupoTipo DEF Inv, Unidades
  <2> HIDE DEF c, d
  <2>4. d <= config.inits[i] + heredadas[s]
    BY <2>2, <2>3
  <2> QED BY <2>4 DEF d
<1>2. Inv => ExclusionConRecarga
  BY <1>1 DEF ExclusionConRecarga
<1> QED BY <1>2, InvSiempre, PTL

(* With one unit of Candado, what a program reads from a shared variable   *)
(* is what the last one that had the lock assigned, although an assignment *)
(* is two packets that nobody answers (primitivas.c:235).                  *)
THEOREM LeeLoAsignadoSiempre == Spec => []LeeLoAsignado
<1>1. Inv => LeeLoAsignado
  <2> SUFFICES ASSUME Inv PROVE LeeLoAsignado
    OBVIOUS
  <2>1. UnaUnidad => LeidoAlDia
    BY DEF Inv, Variable
  <2>2. \A t \in Procesos : DOMAIN aCPU[t] = 1 .. Len(aCPU[t])
    BY DEF Inv, Tipos, TipoRed
  <2> QED BY <2>1, <2>2 DEF LeeLoAsignado, UnaUnidad, LeidoAlDia
<1> QED BY <1>1, InvSiempre, PTL
=============================================================================
