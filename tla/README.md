# Kaprobo: a TLA+ verification of the process life cycle and its neighbours

The repository is an operating system in miniature (UTN, Sistemas Operativos
2017): five programs in C that talk over TCP. This directory holds TLA+ models
translated from that code, the TLC configurations that check them on small
instances, and proofs that TLAPS checks for every instance. Line numbers below
are those of `src/`.

## 1. The system

| Component | State it keeps | Operations | Talks to |
|---|---|---|---|
| Kernel, main thread (`src/Kernel/src/Kernel.c`) | the queues new, ready, exec, block and exit, the free CPUs, one queue and one value per ansisop semaphore, the shared variables, the count of programs | one packet at a time, out of `select()`: new program, wait, signal, end of quantum, end of program, file and heap requests, disconnections | consoles, CPUs, Memoria, File_System |
| Kernel, planner thread | the unit of `sem_ready` it has taken, the CPU and the process in its hands | `planificadorCortoPlazo`, `mandarAEjecutar` | CPUs; shares the queues with the main thread |
| Kernel, operator thread | nothing of its own | kill a process, change the degree, halt and resume planning | shares queues and counters |
| Kernel, heap (`reservarHeap` ...) | `listaAdminHeap`: free bytes of each heap page; block headers inside the pages | reserve and free a block, compact a page | Memoria |
| Kernel, files (`abrirArchivo` ...) | the global table and one table per process | open, close, read, write, move, delete | File_System |
| Kernel, notify thread (`verNotify`) | the configuration | look at the queues of the semaphores until they are empty, reload | semaphores and shared variables of the main thread, under `mutex_config` |
| CPU (`src/CPU/src`) | the PCB it runs, quantum, flags | receive a dispatch, run an instruction, wait, signal, shared variables, heap and file requests, poll for aborts, leave on SIGUSR1 or SIGINT | Kernel, Memoria |
| Memoria (`src/Memoria/src`) | the frames, the page table, the last page of each process, the cache | one thread per CPU and one for the Kernel: read, store, initialise, finish, assign pages | Kernel, CPUs |
| File_System (`src/File_System/src/file_system.c`) | a bitmap on disk and in memory, a metadata file per file, the block files | validate, create, delete, read, write | Kernel |
| Consola (`src/Consola/src`) | a thread and a connection per program, the tables `matriz` and `matrizHilos` (descriptor and thread of each pid), `mutexEjecuta` | start a program, end one, end all, leave on SIGINT, print | Kernel |
| Sockets (`Commons_Kaprobo_Consola.c`) | a FIFO byte stream | `enviar`, `recibir` | everybody |

### What is hard in it

*Threads.* Three Kernel threads share the queues and two counting semaphores
(`sem_ready`, `sem_cpu`) whose values must match the length of two queues,
through some twenty handlers that push, pop and post. Memoria serves every CPU
and the Kernel at once, with one mutex around part of the cache and another
around single writes of the page table.

*Messages.* The Kernel identifies a process by the socket its packet came from.
A process that blocks crosses the network twice (the refusal, then the PCB), and
the Kernel waits for the second packet inside the handler of the first, holding
`mutex_config`. After each instruction the CPU polls its socket without blocking
and drops what it does not understand.

*Ends.* A program may end because it finished, because of its own error, because
its console left, because the operator killed it, because a file request failed
or because Memoria had no room: each path undoes a different part of the
bookkeeping.

*Signals and cancellations.* A CPU told to leave sends its program back on one
of four paths, or exits inside the handler; the Kernel takes it out of the list
of free CPUs while the planner may be taking it. The menu of a console cancels a
thread wherever it is.

*A reload.* The semaphores are made again while programs hold their units, after
a look at the queues that takes no mutex.

*Crashes and partial failures.* File_System changes its bitmap, a metadata file
and the blocks in separate saves, each of which truncates its file first; the heap changes a table and two headers in a
remote page.

Correctness, component by component: the Kernel loses no process and no CPU, gives a CPU
to one program at a time, wakes who waits, respects the degree of
multiprogramming and never reads a queue that has nothing to give; the CPU runs
what was dispatched to it; Memoria returns the last bytes stored, never those of
another process, and gives back what it reserved; the heap never hands out the same byte
twice; File_System gives no block to two files while it knows its whole bitmap, also after a crash
that cut no deletion; a reload keeps the
place of who waits and the value of what is shared; a console ends the program it is
asked to end, and no other.

## 2. Modules

| Module | What it is |
|---|---|
| `Colas` | search and removal on queues, as the Kernel does them |
| `Planificador` | main thread, planner, CPUs and sockets: the normal life of a process |
| `Finalizaciones` | extends it with the operator, consoles that leave, file requests, a full Memoria, changes of degree and halts |
| `CierreCPU` | extends it with CPUs that leave: signals, a failed read of the program, and what the Kernel does about it |
| `Configuracion` | the semaphores and the shared variables under a reload of `kernel.config` |
| `CicloDeVida` | abstract: the five states of a process and the values of the semaphores |
| `PlanificadorRefina` | the refinement mapping from `Planificador` to `CicloDeVida` |
| `TablaDePaginas` | the inverted page table of Memoria, its hash and its searches, as operators |
| `Memoria` | the threads of Memoria over the page table, the frames and the cache |
| `FileSystem` | the requests of File_System, save by save, with falls between and inside them, and the start that reads what is left |
| `Heap` | the heap of the programs: the list of the Kernel and the blocks in the pages |
| `Archivos` | the tables of open files of the Kernel: one for each process, and the global one they point into |
| `Pila` | the stack of a program: contexts, variables and their addresses, and the PCB that travels between CPUs |
| `PilaDeLlamadas` | abstract: a stack of activations with named variables, without addresses |
| `Consola` | the menu of a console, the threads of its programs and their connections |
| `ColasProofs` | lemmas about searches and removals on sequences |
| `PlanificadorProofs` | theorems of the life cycle: types, counters, queues, CPUs and sockets; semaphores, degree and refinement; the planner's units in `CierreCPU` |
| `ConfiguracionProofs`, `MemoriaProofs`, `HeapProofs`, `ArchivosProofs`, `ConsolaProofs`, `FileSystemProofs` | theorems of those components |
| `MC*` | values of the constants for TLC |

`CierreCPU`, over `Finalizaciones` and `Planificador`, composes the Kernel, its operator,
the CPUs with their signals, the consoles and the answers of Memoria. `Configuracion` composes
the main thread, the notify thread and the programs; `Consola`, the menu, its threads and the
Kernel as its sockets see it. `Memoria`, `FileSystem`, `Heap`, `Archivos` and `Pila` have their
clients as the environment: which requests they may get, and in which order, is what the
code of the clients allows.

### `Planificador`

Each `t_queue` is a sequence of processes. A process is its own pid, and the PCB
of a `t_proceso` is the pid written in it, so that a PCB stored in the wrong
`t_proceso` is seen. A socket is a FIFO of packets; a packet is an operation code
and the one datum the protocol looks at. `hilo` holds, for the main thread
(`"principal"`) and the operator thread (`"consola"`), what the thread does
next and the process, CPU and semaphore it has in its hands; `planif` and `cpu`
hold the same for the planner and for each CPU.

One action is one stretch of a thread between two points where another thread
can see or change what it uses. The handler of a packet is thus several actions:
`nuevoProgramaAnsisop`, `pedirMemoria`, `admitir`, `encolarReady` are lines
516-572 of `Kernel.c`; `pideSemaforo`, `pideSemaforoFallo`, `bloqueoSemaforo`,
`devolverCPUBloqueado` are lines 596-655, with the wait for the PCB between the
second and the third; `finalizarEnExit`, `finalizarLiberaCPU`,
`finalizarDescuenta` are `finalizarProceso`. The planner's `esperarReady`,
`mirarEstado`, `esperarCPU`, `sacarCPU`, `sacarReady`, `mandarAEjecutar`,
`enviarDatosKernel`, `enviarPCB` are lines 1575-1632 in order.

Where the code dereferences a NULL that nobody checked (`obtenerProcesoSocketCPU`
with no match, `queue_pop` of an empty queue) the model has an action that makes
the Kernel die, and the invariant `NoCae` says none of them is ever taken.

Abstractions, and why they lose nothing the properties look at:

* `sem_new` is left out: the main thread posts it before it waits for it, in
  the same handler.
* `queue_push` and the `sem_post` after it are one action: between them nobody
  else can take the element, and the post only lets others go on.
* The operations of the library's lists are atomic. Two places push to
  `cola_CPU_libres` and to `cola_exec` without their mutex; the tearing of a list
  inside the library is listed as a hazard and not modelled.
* The handshake, `ENVIAR_ALGORITMO` and the data sent when a CPU connects are
  one action; they happen in blocking mode before the CPU enters its loop.
* With FIFO the quantum (20) is never decremented by the CPU, so in the model it is never
  spent.
* `strlen((char*)sem_ids) / sizeof(char*)` counts the semaphores in the 32-bit
  build of the project; the model has the set `Semaforos`.
* `abortado` is never set to true in the Kernel, so the branches on it
  (`abortar`) are dead and left out.
* A packet the CPU reads in its non-blocking poll is lost. What is in a PCB read
  after `destruirPCB` is either the old pid or nothing.

### `Finalizaciones`

`finalizarProcesoPorPID` runs in the main thread and in the operator thread. Its
search of new, ready, exec and the semaphores' queues is one action per queue,
because each search takes and leaves a mutex, and the removal is another action:
what the search found may have moved meanwhile. `verSiEstaBloqueado` looks at
position `i` of the queue of semaphore `i` (line 1997), and is modelled so.
`deserializarYFinalizar` scans exec without stopping at the first match and pushes
the CPU a second time after `finalizarProceso` (line 2550).

`ordenes` counts the orders given from outside, bounded by `MaxOrdenes`; the
orders are those of the operator and the consoles that leave.

### `CierreCPU`

The loop of `CPU.c` has two tests, `sigusr1_desactivado` and `programaAbortado`; the field `senal`
of `cpu` holds their value (in `Planificador` it is always "no", and its steps for a CPU with
nothing pending are also those of this module), and `yaEnvieCierre` is the flag of that name. `sig_handler` and
`sig_handler2` are lines 316-339 of `CPU.c`: a CPU that waits for a program
(`flag` is 1) exits inside the handler, SIGINT with `DESCONEXION_CPU` and
SIGUSR1 without a word; any other only notes the signal. A signal may fall
between the test of the loop and the assignment of `flag`, so a CPU that waits may also
only note it. From then on the steps of the loop are those with `ConSenal` in
their name: they send `PROGRAMA_BLOQUEADO_SIGUSR1`, which the Kernel has no case for,
and `PROGRAMA_ABORTADO_CPU`, on the paths of the code; `cerrarCPU` is the end of
`main`, which sends the PCB once more unless `yaEnvieCierre` is set.
`leerSentenciaFallo` is the same end with no signal: Memoria does not give the instruction.

In the Kernel, `cpuCerrada` takes the process out of exec, writes the PCB
received in it, and goes through `sacarCPUDeListas`, one element of `cola_CPU_libres` at a
time and without a mutex; after each removal comes a `sem_wait(sem_cpu)`
(`descontarCPU`), which waits if the planner has taken the unit. `desconexionCPU` is the same
walk without a process. When `recv` says that a CPU closed, the Kernel only forgets the
descriptor. The second send to a socket whose peer closed raises SIGPIPE
(`enviarACerrada`).

* A CPU that left does not come back: a new one takes a new socket, and the number of CPUs
  is that of `CPUs`, some of which connect late.
* `flagStackOverflow` is never reset; here it counts in the instruction that sets it. The
  abort after a file that was refused is the one of the end of `main`.
* `MaxCierres` bounds the CPUs that get a signal or fail a read. SIGINT may come after
  SIGUSR1; nothing comes after SIGINT.
* A CPU that takes another packet for its PCB dies (`recibirPCB`) and its `pid` is `Nulo`: it never had the program.

### `Configuracion`

The semaphores are arrays indexed by the position in `sem_ids`, as in the code,
because a reload changes the positions: `valor_semaforos`, `cola_semaforos`. A request is read
by the main thread from the socket (`pideSemaforo`, `escribirVariable` ...) and served once
`mutex_config` is free (`semaforoPedido`, `variableEscrita` ...); an
assignment is two packets, and the second is read from the socket of the first.
A name that is not in the configuration makes `buscarSemaforo` and `obtenerValor` end the
Kernel (`Cae`).

The notify thread reads its events (`verNotify`), looks at one queue at a
time and without the mutex (`haySemaforos`), again and again while one of them had somebody
(`terminarDeMirar`), and then makes everything anew (`cargarConfiguracion`): values of the file,
empty queues, shared variables at 0. A read of inotify gives all the events
there are, and each is a reload. `cantidadSemaforos` is not set back to 0 before the names are
counted again, and a list that is shorter ends in `atoi(NULL)`.

* Every program has a CPU of its own and never ends: how CPUs are
  shared is in `Planificador`. `planificadorCortoPlazo` is one step here.
* Programs are those of the samples of the repository: one lock at a time, and the shared
  variables between the wait and the signal of `Candado`.
* `heredadas` and `alMirar` are history: the units that were out when the last reload gave
  them all again, and who waited when the look that let it go on began.

### `Consola`

`matriz` and `matrizHilos` are the arrays of the code; a descriptor is a number that the system
gives again after a `close`, and `abierto` says whose connection it is. The menu
(`interfaz`) takes `mutexEjecuta` to start a program and the new thread gives it back
(`PasaElMutex`, `recibirPID`, `sinArchivo`): glibc lets it. `finalizarPID` is option 2,
`desconectarPID` each turn of the loop of option 3, and of the handler of SIGINT, which takes
no mutex and then exits.

A cancelled thread dies at its next cancellation point: in `recv`
(`morirEnRecibir`), or, since waiting for a mutex is not one, at the first `printf`, log or
`close` with `mutexEjecuta` taken (`morirConElMutex`). A descriptor that the menu closed is
still read by its thread: when the number is given again, it reads another program's packets.

* The Kernel answers on its connections as `nuevoProgramaAnsisop`, `finalizarProceso` and
  `finalizarProcesoPorPID` do, and may go away (`caeKernel`).
* `cruce` is history: some thread was cancelled with a packet in hand, waiting for the mutex.
* What is printed, the times and the statistics of a program are left out.

### `CicloDeVida` and the refinement

The abstract specification has the state of each process (not created, new,
ready, executing, blocked on a semaphore, ended) and the units of each semaphore,
and atomic transitions: admit, reject, dispatch, preempt, take a unit, block,
release (waking the first that waits, or adding a unit), end. `PlanificadorRefina` maps the
queues and the hands of the threads to those states; a process whose block is
being negotiated with its CPU is blocked from the moment the Kernel decides.
`PlanificadorSeguro` checks that every step of the threads and sockets is one of those
transitions or none.

### `TablaDePaginas` and `Memoria`

The table is a function from frame numbers to (pid, page); the frames hold one
datum per page, since no property looks inside a page. Each thread of Memoria
has a `hilo` record: the step it is at, the request, the cache entry it points
to. A read is `solicitarBytesDePagina`, `mirarCache`, `leerDeCache`,
`copiarDeCache` or `leerDeMemoria`, `cachear`; a store is
`almacenarBytesEnPagina`, `replicarEnCache`, `actualizar`; the release of a
process is `finalizarProceso`, `liberarProcesoDeCache`, `buscarEntrada`,
`sacarEntrada`, `liberarTabla`. Between any two of them another thread may run.
The entries of the cache have an identity, because `leerDeCache` gives a pointer
that is used after the mutex was released, and `remplazoLRU` changes an entry in
place.

* The clients: a connection has one request at a time, and a process is used by
  one connection at a time. The CPU waits for every answer, and the Kernel
  touches the pages of a process while its CPU waits for the Kernel. After a refused
  write (`Kernel.c:911`) the CPU may go on asking for a process that is being released: that is left out.
* A write of an entry of the table or of a frame is one step, because it is made
  under a mutex. A scan of the cache is one step; the window between the free of
  the list and its creation in `flush` is not modelled (see the plan).
* `incrementarCantidadDeLecturas` has no lock: a lost increment changes only
  which entry is the oldest, and replacement in the model never depends on it
  for what the properties say.
* Frame number `frames`, past the block, has arbitrary content.
* `config` is the part of memoria.config that matters here, chosen at the start from
  `Configuraciones`: the entries of the cache, and whether the operator flushes it.

### `FileSystem`

The disk is `Bitmap.bin`, whether `Metadata.bin` was left empty, the metadata file of each
path and the bytes of each block's file. A map of blocks is a record: the number of its bytes
(`size`) and the blocks whose bit is set (`bits`); it says nothing of a block past its bytes.
`bitArray` is the one in memory and `bitmapBin` the one on disk. A request is a chain of
actions, one per change of memory and one per save; `caer` may come before any of them.
`numBloque`, `cantBloques` and `j` keep the life they have in `guardarDatos`: computed once,
and used while the file grows.

* A save truncates its file (`fopen "w"`, `"wb+"`) and writes it when the `FILE` is closed. Nobody
  reads in between, so a save that ends is one step; a fall in it leaves the old file, or the
  first bytes of a bitmap, or an empty metadata file (`RestosDeBitmap`, `RestosDeMetadata`).
  What a fall leaves of a text longer than the buffer of the `FILE`, which is written in parts, is not
  followed: `cortado` remembers it (`SalvaPorPartes`), as it does a fall in the middle of a deletion.
* A start is three steps: `iniciarMetadata` reads `Metadata.bin` and follows the NULL of an empty
  one, `escribirMetadataBin` truncates it and writes it again, `leerBitmap` takes `Bitmap.bin`
  with the length it has. A new bitmap has `SizeBitArray` bytes, as the code computes them:
  `BITS` is the number of bits of a byte, a constant so that a small instance has bitmaps of several bytes.
* Past the bytes of a map the scan for a free block finds any block, and changing a bit is
  undefined behaviour (`desbordar`): `"indefinido"` is a state with no steps, about which nothing is said.
* A read gives its bytes up to the first 0 (`strlen`). One longer than the buffer of 4 bytes
  (`SizeBuffer`) may also end the process or be undefined, and after the answer of any other
  `liberar_paquete` frees `pedido` once more: the process ends, or the behaviour is undefined.
* A write stores one value in all its bytes. A byte nobody wrote is 0, also in the file of a block that
  a fall left short, where the code reads what its buffer had.
* An element of the array past its NULL is any block, or a fall; so is everything of a metadata
  file left empty, which a request other than CREAR_ARCHIVO does not survive.
* `SinCruces` says which writes get where they should: those that begin at the start of the file, or
  stay in its first block, and that do not pass the end of a file of several blocks. A file of one
  block may grow by any number: `numBloque + 1 == cantBloques` then holds through the loop.
  `cruzado` remembers that there was another kind of write.
* The Kernel always reads from offset 0 (`Kernel.c:1022`): the reads have a
  constant of their own.

### `Heap`

The main thread serves a request at a time, and each header it reads or writes is a
round trip with Memoria: a turn of each loop is an action
(`verificarEspacioLibreHeap`, `compactarPaginaHeap`,
`paginaHeapConBloqueSuficiente`). A page is a partial function from offsets to
headers; writing one spoils those it overlaps, and the headers of blocks that
were merged stay in the page, as they do in memory. Another thread may finalize
another process at any step, and its loop over `listaAdminHeap` looks at every
other record, as the code's does (after a removal, and after a record that is
not its own, the index ends two elements further in the original list).
`reservarBloqueHeap` and `liberarBloqueHeap` are one step each: what they read and
write belongs to a process no other thread finalizes meanwhile.

### `Archivos`

A request is one step: the main thread serves it to its end, waiting for
File_System in between, and no other thread touches the tables. An entry of a
process has its descriptor, its flags, its cursor and `globalFD`, the position of
the file in `tablaGlobalDeArchivos` counted from 0, which `list_get` turns into an element or
NULL. A path is a buffer: `buscarEntradaEnTablaGlobal` compares addresses
(line 978) and no packet is freed, so two opens of one name are two elements, each
with one open. The search starts at a variable nobody initialises (line 975): `ValoresDeA`
has the values it may hold, 0 for the start and -1 for one that finds nothing.

* File_System answers either way wherever the code looks at its answer; which
  files it has is `existentes`. `borrarArchivo` of the Kernel (1083-1113) has no caller: the
  request falls in the `default` of `procesarPaqueteRecibido`.
* A CPU that gets no answer stays in `recibir` until some other packet comes, an
  abort or a dispatch, and takes that one for its answer (`respuestaAjena`).
* Programs use descriptors that are open, as the comments of the primitives
  say; descriptor 1, which prints on the console, changes no table and is left out.
* `aperturas`, `corrida` and `basura` are history: which opens are not closed,
  whether a close has moved other elements, whether a search started elsewhere.

### `Pila` and `PilaDeLlamadas`

A context is a block of the memory of a CPU (`contextos`, `vivos`), and the list of the PCB
has pointers to blocks: `retornar` frees the block and leaves the pointer
(`primitivas.c:399`), and `Llamar` appends a block that `malloc` may take from those just freed
or from the others. `serializarPCB` copies the first `sizeContextoActual` contexts, and whoever
receives them builds a new list; `retVar` travels as the raw address it is, so a context
remembers the CPU its `retVar` belongs to. One action is one primitive the parser calls;
`definirArgumento` is the `definirVariable` of a digit and the `asignar` that follows, and
no end of quantum falls between a call and its parameters. `armarDireccion...` and
`proximaDireccion...` are operators with the names of the code; `Nulo` stands for the
NULL of `list_get`, which the code follows without a look.

* Reading a block that was freed, following a NULL, or taking bytes from an address never set
  (`valor`, line 87) ends the program (`Cae`): what comes next is not defined.
* A value is written whole, at multiples of four: the size of a page is a multiple of
  4 (`MARCO_SIZE` is 256), since `proximaDireccion` compares `offset + 4` and not
  `offset + 8` with it.
* Variables are used by name. A pointer a program keeps with `&` is left out, and so are
  labels and the program counter.
* `volvio` says that a call returned since the PCB reached this CPU. `LlamarTrasVolver`
  says whether programs call again after that.

`PilaDeLlamadas` has a sequence of activations, each with the values of its parameters
and of its variables and the position of the variable of the caller that the return
value goes to. The mapping reads each value from `memoria` at the address of its variable: two
variables that shared an address, or a return to the wrong place, would make a step
that changes two of them, and no abstract action does that.

## 3. Runs

| Run | Shows |
|---|---|
| `PlanificadorSeguro` | RR, three programs, two CPUs, a lock and a semaphore that starts at 0, degree 2: nothing is lost, shared or run twice, the locks exclude, the degree is kept, the Kernel never takes from what is empty, and the model implements `CicloDeVida` |
| `PlanificadorVivo` | liveness under weak fairness: a ready process is dispatched, a dispatch is executed, the main thread comes back to `select()` |
| `FinalizacionesSeguro` | `CierreCPU`: programs ended from outside, and CPUs that leave. The units of the planner stay true to the queues as far as the code keeps them, and while nothing is ended from outside no process stays in exec with a CPU that left |
| `ConfiguracionSegura` | reloads while two programs use two semaphores and a shared variable: who waits, the locks and the values through a reload; the main thread and the notify thread go on |
| `ConsolaSegura` | two programs started, ended, refused and cancelled, SIGINT and a Kernel that goes away: the tables of the menu, the mutex between threads, and that the menu comes back |
| `MemoriaSegura` | caches of one and two entries, with and without an operator that flushes: frames and cache stay consistent, everything is given back; with room for every process, reads return the last store and releases end |
| `FileSystemSeguro` | with a whole bitmap, and while no fall cut a deletion, no block is shared and none of a file is free, falls inside a save included; while every write is as `SinCruces` says, reads give what was last written and no write makes the process fall |
| `HeapSeguro` | pages stay partitioned, blocks stay where they were given, the list never promises too much, requests end |
| `ArchivosSeguro` | two programs, two files: the two kinds of table agree, and each request reaches its file while every close takes the last element of the list |
| `PilaSegura` | a program that calls, returns and changes of CPU, with two labels and four words of stack: `Pila` implements `PilaDeLlamadas`, and no variable is outside the pages of stack |
| `LecturaAjena` | violation: with a cache too small for the living processes, a read gets the bytes of another process |
| `EscribeEnOtro` | violation: after a close of another file, a descriptor leads to the file of another open |

The type invariants of `Memoria`, `FileSystem`, `Heap` and `Archivos` hold
under the same cfg files and are in none of them, so that what a run lists is what a change
of the code could break; those of `Memoria` and `Archivos` are proved (section 4).

All the cfg files say `CHECK_DEADLOCK FALSE`: the numbers of programs, orders,
requests and falls are bounded, so every behaviour ends in a state where nobody
has anything left to ask, and the system really stops there. That nobody is stuck
before is what the liveness properties say.

### Bounds, and why they are enough

* Planificador and Finalizaciones: three programs and two CPUs give a process in
  each queue while the planner has another in its hands; with degree 2 the third is
  rejected while the others are around; a quantum of 2 lets a program do two requests in a row.
  `MaxValor` bounds the units of a semaphore, `MaxOrdenes` the orders from
  outside: one order suffices for each of the divergences found, as the traces show.
  CierreCPU has two programs, one CPU, a quantum of 1 and degree 2, which the operator may
  lower to 1; one order from outside and one CPU that leaves, in any order. Two CPUs that
  leave were run apart, and pass: two programs without orders (2.6 million states), and one program with one
  order (2.8 million).
* Configuracion: two programs, so that one waits for what the other holds (both semaphores are
  locks; Planificador has those that signal); two files, one with
  a semaphore more, in another order, so that positions move; two changes, so that a reload
  finds the units another one gave; two packets of a CPU that the Kernel has not read, which
  is what an assignment needs.
* Consola: two programs, so that a descriptor is given again while a thread still reads it; a
  print each, so that a thread has a packet in its hand; two orders, so that a program is ended
  twice, or one by one and then all; pids 0 to 2, two of which are given.
* Memoria: pids 1 and 2, pages 1 and 2, six frames of which the table takes
  three of its seven entries, so that both hash collisions and a full memory occur; five
  requests let a reservation fail half way, be followed by another, and be
  released. Caches of 1 and of 2 entries are below and at what the living
  processes may keep; the large one is also run without the operator, where releases end.
* FileSystem: blocks of two bytes, three blocks, two files: the third block is
  disputed, a file may have two or all, and a request may fail half way. Writes and reads of
  one, two and three blocks: a file of one block grows to three, and one of two gets a write of
  three. With `BITS = 2` the bitmap has two bytes, so that a fall may leave none, one or both. Five requests and one fall
  from outside, besides those of the process itself; four requests and two falls were run apart, and pass
  (936,442 states).
* Heap: a page of 36 bytes holds up to three small blocks; sizes 4 and 13 split and
  merge, 26 is the largest a page admits and 27 the first it refuses; three
  frames for two programs; five requests.
* Archivos: two programs, two names, two sets of flags (a writer that creates, a
  reader); five requests: three opens, a close and the request that reaches the
  file of another open. Two programs may also open one name.

* Pila: pages of two words, so that addresses cross pages; three pages of stack, of which
  the code uses two, so that the stack overflows; three nested contexts and one spare block;
  calls of none, one or two parameters. The number of variables needs no bound: the
  overflow is one.

### Fairness

`SpecJusta` of Planificador has weak fairness for the main thread, the planner
and each CPU: they are threads and processes of the operating system, and each
waits only in calls (`select`, `recv`, `sem_wait`) that return when what they
wait for is there. The consoles and the operator have none: nobody has to ask for anything.
A process in a loop without an end is bounded by its quantum under
RR; with FIFO nothing bounds it, so the liveness run has RR. Memoria has weak
fairness for each of its threads, and for the Kernel's release of a process it
has admitted, because every process the Kernel ends is released
(`Kernel.c:1917`); Heap has it for the main thread only. Configuracion has it for the
main and notify threads and for the CPUs that wait for an answer or have sent one packet of
two: none of them waits for a person. `CambioSeCarga` also supposes that from some moment on no
queue of a semaphore has anybody, since the loop of `Kernel.c:112` ends only
then. Consola has it for the menu between two options, for each thread once its program
was opened, and for the Kernel's answers; the operator owes nothing, and `MenuVuelve` supposes that
he gives each program a file.

### What the code does not do

Two disagreements between the code and what its comments say have a run (the
violations above, and the findings of `PROJECT.json`). Others were met while
modelling. They are stated as definitions of the modules, which no run lists;
TLC refutes each under the configuration said here.

| Definition | Where | What happens |
|---|---|---|
| `CPULibreUnaVez` | `FinalizacionesSeguro.cfg` | `deserializarYFinalizar` pushes the CPU (`Kernel.c:2550`) that `finalizarProceso` has already pushed (`:912`): it is in `cola_CPU_libres` twice, and is given two programs |
| `PlanificadorEncuentraProceso` | `FinalizacionesSeguro.cfg` | a process ended in ready leaves its unit in `sem_ready` (`Kernel.c:1972`), and the planner pops an empty queue |
| `CantidadDandoVueltas` | `FinalizacionesSeguro.cfg` | a program Memoria has no room for is discounted (`Kernel.c:588`, `:925`) without having been counted (`:558`) |
| `ExclusionMutua` | `FinalizacionesSeguro.cfg` with `QUANTUM = 2`, `SpecF` | an abort read as the answer to signal leaves that answer for the next wait (`primitivas.c:486`), which enters a section another program holds |
| `FinalizarTermina` | `MemoriaSegura.cfg` with `Configuraciones <- Chica` | another process takes the last entry of the one being released, and the loop of `cache.c:128` never ends |
| `PaginaEnElBloque` | `MemoriaSegura.cfg` with pids 1 to 3 | the page table offers frame number `frames`, past the block (`tablaDePaginas.c:142`) |
| `NoCae` of FileSystem | `FileSystemSeguro.cfg` | a write that starts where the last block of the file ends reads past the list of blocks (`file_system.c:462`), and so does one of three blocks to a file that has two, for which no block is added (`:480`, `:492`) |
| `LeeLuegoDelCursor` of FileSystem | `FileSystemSeguro.cfg` | a write that starts inside a block and crosses its end runs past the end of the block's file (`file_system.c:466`) |
| `BloquesSiempreDisjuntos` | `FileSystemSeguro.cfg` | a fall between the `fopen "w"` and the `fwrite` of `Bitmap.bin` (`file_system.c:582`) leaves it short, and the next start takes the blocks past its end for free; a fall in a deletion leaves a file with blocks that are free (`:331`). With `BITS = 8`, no fall is needed: the bitmap of fewer than 8 blocks, or of 65 to 71, does not cover them (`:103`); the one of `file_system.config` (5192 blocks, 650 bytes) does |
| `SiempreArranca` | `FileSystemSeguro.cfg` | a fall in the save of `Metadata.bin` (`file_system.c:97`) leaves it empty, and every start after follows a NULL (`:83`) |
| `SiempreLegibles` | `FileSystemSeguro.cfg` | a fall in `crearArchivo` (`file_system.c:297`) or `config_save` (`:708`) leaves a metadata file without blocks: reading, writing or deleting it ends the process |
| `SigueDefinido` | `FileSystemSeguro.cfg` | `obtenerDatos` frees the data of the packet (`file_system.c:418`) and `liberar_paquete` frees it again (`:234`); a read of more than 4 bytes runs past its buffer (`:375`) |
| `ImplementaLaPila` | `PilaSegura.cfg` with `LlamarTrasVolver = TRUE` | a call in the quantum in which another returned puts its context after the freed one, and `list_get(sizeContextoActual - 1)` gives that one (`primitivas.c:399`) |
| `RetornaDesdeCualquierCPU` | `PilaSegura.cfg` | `retVar` is sent as a raw address (`Commons_Kaprobo_Consola.c:390`): a call that was made in one CPU process returns in another through a pointer that is not its own |
| `ParametrosConDireccion` | `PilaSegura.cfg` | the address of the second parameter is looked for among the variables (`auxiliaresPrimitivas.c:49`), which are none yet: NULL is followed |
| `AbortaSinLugar` | `PilaSegura.cfg` | `var_max` (`CPU.c:121`) counts pages from 0, and the stack begins at page `paginasDeCodigo + 1`: a program is aborted with its last page unused |
| `LeeLuegoDelCursor` of Archivos | `ArchivosSeguro.cfg` | a read is always from offset 0 (`Kernel.c:1022`), wherever the cursor is |
| `NadieEspera` | `ArchivosSeguro.cfg` | nobody answers `BORRAR_ARCHIVO`, nor a write without permission or that File_System refuses (`Kernel.c:912`) |
| `SeNiegaSinLugar` | `HeapSeguro.cfg` | a page free from its start is never used again: offset 0 is taken for a failure (`Kernel.c:2324`) |
| `PunteroLibreDeCabeceras` | `HeapSeguro.cfg` | the pointer given to a program is that of the header (`Kernel.c:2159`): its first store replaces the size |
| `RegistrosFieles` | `HeapSeguro.cfg` with `LiberaDosVeces = TRUE` | a block freed twice is counted twice as available (`Kernel.c:2195`) |
| `CierreSinCaida` | `FinalizacionesSeguro.cfg` | `CPU.c:318` says that the CPU leaves at the end of its program; the Kernel dereferences NULL when the program was ended meanwhile (`Kernel.c:2562`), or dies of SIGPIPE when it dispatches to a CPU that left |
| `NadieEnCPUIda` | `FinalizacionesSeguro.cfg` | the planner has taken the CPU before `sacarCPUDeListas` looks for it (`Kernel.c:2592`), or the removal skips one element, and a process is sent to nobody |
| `SiempreVuelve` | `FinalizacionesSeguro.cfg` | what `NadieAtrapado` says, with orders from outside: the end of a process frees the CPU it last ran on (`Kernel.c:912`), also one that left, and `yaEnvieCierre` of a CPU that failed a read stays set (`CPU.c:193`) |
| `CierreConUnidad` | `FinalizacionesSeguro.cfg` | a CPU is freed while the program that was ended is still in it (`Kernel.c:912`); when it leaves it is taken out of the list, the planner has its unit and pops nothing |
| `NadieEsperaSemCPU` | `FinalizacionesSeguro.cfg` | the unit of the CPU removed is in the hands of the planner: the main thread waits for another CPU (`Kernel.c:2591`) |
| `PCBPropio` | `FinalizacionesSeguro.cfg` | at the end of `main` a PCB that was freed is sent (`CPU.c:263`) |
| `NadieSePierde` | `ConfiguracionSegura.cfg` | `Kernel.c:111` says that the configuration changes only with the queues empty; a process that blocks after its queue was looked at is in no queue after the reload |
| `SobreviveALaCarga` | `ConfiguracionSegura.cfg` | a semaphore that is no longer in the file ends the Kernel (`Kernel.c:1275`), and so does a shorter list (`atoi(NULL)`, `Kernel.c:182`) |
| `ConexionPropia` | `ConsolaSegura.cfg` | a program the Kernel refused leaves its descriptor in `matriz` (`hiloPrograma.c:150`), and ending its pid closes the connection that was given the number |
| `MutexDeUnVivo` | `ConsolaSegura.cfg` | a thread cancelled with a packet in hand dies with `mutexEjecuta` taken (`interfaceUsuario.c:82`), and the menu waits for ever |
| `NadaAlSalir` | `ConsolaSegura.cfg` | on SIGINT the pid of a program that is starting is not in the table yet (`consola.c:15`): it goes on in the Kernel |

The passing runs say what holds in spite of these: `SenalesAlDia` instead of
`ContadoresExactos` once programs are ended from
outside or CPUs leave, `NadieAtrapado` while nothing is, `LeeLoEscrito` while every write is as `SinCruces` says, `ImplementaLaPila` while no call follows a
return in its quantum, and so on.
`BloquesDisjuntos` and `BitmapExacto` hold after any fall but those in the middle of
`borrarArchivo`, which clears the bits before it removes the metadata, and of a save longer than the
buffer of a `FILE`; and only while the bitmap in memory covers every block, as `BloquesSiempreDisjuntos` is
false without that. A fall in the save of a metadata file is inside them: it loses blocks and shares none.

## 4. Proofs

`ColasProofs` has the lemmas about searches and removals on sequences, and those of the least and
the greatest element of a set of numbers. `PlanificadorProofs` has the theorems of the life cycle, for every set of processes, CPUs and
semaphores, every degree, quantum and algorithm, and that of `CierreCPU`, for any number of orders and of CPUs that leave; `ConfiguracionProofs` those of the reload, for any
programs, semaphores, variables, contents of `kernel.config` and number of reloads; `MemoriaProofs` those of Memoria, for every
number of CPUs, processes, pages, requests and entries of the cache and any memory larger than its own
page table; `HeapProofs` those of the heap, for any programs, pages, requests and sizes; `ArchivosProofs` those of the tables of
files, for every set of processes, names and flags and any number of requests; `ConsolaProofs`
those of Consola, for any number of programs, orders and packets; `FileSystemProofs` those of
the disk, for any number and size of blocks, bits of a byte, files, requests and falls. They rest on
the assumptions about the constants (`ConjuntosAssumption` and `ConfigAssumption` of
`Planificador`; `ProgramasAssumption` and `ArchivosAssumption` of `Configuracion`, by which a file names a semaphore
once and gives each its units; `MarcosAssumption`, `MarcoSizeAssumption` and `LaTablaEntra` of
`TablaDePaginas` and the six of `Memoria`: positive sizes, finite sets of processes and CPUs, a
table that leaves frames free, 0 among the bytes; `TAMPAGAssumption`, `TamaniosAssumption` and
`MarcosAssumption` of `Heap`, by which a page has room for two headers and more; `PermisosAssumption` and `NumerosAssumption` of `Archivos`, `ConsolaAssumption`
of `Consola`, `BloquesAssumption`, `ValoresAssumption` and `AccesosAssumption` of `FileSystem`, by which
the Kernel reads from offset 0, `Kernel.c:1022`) and on nothing else, except that the theorems of
`HeapProofs` suppose `LiberaDosVeces = FALSE`: programs free only what they hold, as in the run.
With `TRUE`, `RegistrosFieles` is false (section 3).

| Theorem | States |
|---|---|
| `TipoCorrecto` of PlanificadorProofs | `Spec => []TypeOK` |
| `ContadoresCorrectos` | `Spec => []ContadoresExactos`: the semaphores count their queues |
| `PlanificadorSacaAlgo` | whenever the planner is about to pop `cola_ready` or `cola_CPU_libres`, there is something to pop |
| `NadieEsperaConUnidades` | `Spec => []SinEsperaConUnidades`: no wake-up of a semaphore is lost |
| `KernelNoCae` | `Spec => []NoCae`: the Kernel never follows a NULL |
| `CadaProcesoUnaCola` | `Spec => []UnaSolaCola`: a process is in one queue or in one hand |
| `CadaCPUUnDueno` | `Spec => []CPUUnica`: so is a CPU |
| `CadaCPUElSuyo` | `Spec => []EjecutaElSuyo`: a CPU runs the process the Kernel thinks it runs |
| `ExclusionMutuaCorrecta` | `Spec => []ExclusionMutua`: the semaphores exclude |
| `GradoCorrecto` | `Spec => []GradoRespetado`: the degree is kept, and counted exactly |
| `CicloDeVidaImplementado` | `Spec => ImplementaCicloDeVida`: `Planificador` implements the abstract life cycle |
| `SenalesSiempre` | `SpecC => []SenalesAlDia`: whatever is ended from outside and whichever CPU leaves, ready has its units, `sem_cpu` never promises more CPUs than the list has, and until a CPU leaves it promises those |
| `InvSiempre` of ConfiguracionProofs | `Spec => []Inv`, the inductive invariant below |
| `QuienEsperabaSigueSiempre` | `Spec => []QuienEsperabaSigue`: a reload loses nobody who waited when its look began |
| `ExclusionSiempre` | `Spec => []ExclusionConRecarga`: the locks exclude, also through reloads |
| `LeeLoAsignadoSiempre` | `Spec => []LeeLoAsignado`: with one unit of the lock, a read gives what was last assigned |
| `TipoCorrecto` of MemoriaProofs | `Spec => []TypeOK` of Memoria |
| `MarcosCorrectos` | `Spec => []MarcosDeCadaUno`: a page of a living process is in one frame, and a released process has no frame |
| `CacheCorrecta` | `Spec => []CacheCoherente`: the cache keeps its limits, has a page once and agrees with the frames |
| `LecturasCorrectas` | `Spec => []LeeLoUltimoConLugar`: with room in the cache for everybody, a read gives what was last stored |
| `InvSiempre` of HeapProofs | `LiberaDosVeces = FALSE` gives `Spec => []Inv`, the inductive invariant below; so the next three |
| `PaginaPartidaSiempre` | `Spec => []PaginaPartida`: the blocks of a page cover it, without gaps |
| `ReservaVigenteSiempre` | `Spec => []ReservaVigente`: a block that was given stays where it is, used, with its size |
| `RegistrosFielesSiempre` | `Spec => []RegistrosFieles`: each page has one record, which promises no more than is free |
| `TipoCorrecto` of ArchivosProofs | `Spec => []TypeOK` of Archivos |
| `DescriptoresUnicos` | `Spec => []FDUnico`: no two open descriptors have one number |
| `IndicesCorrectos` | `Spec => []IndicePropio` |
| `PedidosCorrectos` | `Spec => []PathDondeDebeAlineadas`: while every close takes the last element, each request reaches the file of its open |
| `TablasIguales` | `Spec => []TablasParejas`: the global table has one element for each open descriptor |
| `TipoCorrecto` of ConsolaProofs | `Spec => []TypeOK` of Consola |
| `ArrancaUnoSolo` | `Spec => []UnoSoloArranca`: two programs never start at once |
| `TablaCorrecta` | `Spec => []TablaAlDia`: the menu closes and cancels what belongs to the pid |
| `NingunHuerfano` | `Spec => []SinHuerfanos`: no program is left running without the Kernel knowing |
| `BloquesSinCompartir` of FileSystemProofs | `Spec => []BloquesDisjuntos`: a block is in one file, once, while the bitmap read is whole and no fall cut a deletion or a save by parts |
| `BitmapCorrecto` | `Spec => []BitmapExacto`: what is free in a whole bitmap is free, with the same exceptions, and between requests of a process never stopped from outside nothing else is set |
| `LecturasDelDisco` | `Spec => []LeeLoEscrito`: while every write is as `SinCruces` says, an answer carries what was last written, with the same exceptions, and no write makes File_System fall |

`TypeOK` is inductive with one lemma per group of actions: those of the main
thread that answer a packet, those shared by the threads that end or enqueue a
process, the planner, the CPUs. `ContadoresExactos` is inductive under `TypeOK`, and
`PlanificadorSacaAlgo` follows from it: past a `sem_wait` the planner holds
a unit, and the count of units says the queue is not empty.
`SinEsperaConUnidades` is not inductive: between the decision to block and the
moment the process enters the queue of the semaphore, the main thread is waiting
for its PCB. `InvSemaforos` adds `BloqueaSinUnidades`: while it waits, the semaphore has
no units, which holds because the thread that would add one is the one that
waits.

`Inv` of `PlanificadorProofs` is the protocol between the Kernel and its CPUs, inductive under
`TypeOK` and `ContadoresExactos`. None of `NoCae`, `UnaSolaCola`, `CPUUnica` and `EjecutaElSuyo`
is inductive, and none can be proved without the others: the Kernel finds a process in exec
for a packet because that CPU was given one, the CPU was given it because the planner took a
CPU nobody had, nobody had it because each answer of the main thread pushes it once. `Lugares`
and `Esperas` say where a process is (one queue, or one hand), `Sockets`, `Duenos` and `Despachos`
who has each CPU, and `Protocolo` what a CPU may be doing and what its two sockets may hold in each of
those cases: nothing, if the CPU is free or the planner has it; the datos, or the datos and the
PCB, while a dispatch is on its way; one request or one answer, while a program runs
(`ConPrograma`), with the handshake of a wait that blocks in `Pide` and `PidePCB`.
Each packet the Kernel reads is thus one that its sender's state allows, and each action
takes a CPU from one of those cases to another. The counters are needed for the planner, whose
units say that what it pops is there.

`InvExclusion` counts units, those of the Kernel and those of the programs: a program holds one
from the moment the Kernel grants it, when the answer is still in the socket (`OKDe`) or the
program still in ready (`Despierto`), until the Kernel has it back (`SenalDe`).
`UnidadesExactas` says that both add up to the initial value, `EsperaCoherente` who may be waiting.

`InvGrado` adds to `GradoRespetado` that Memoria is asked for room only while the degree leaves some.
The refinement is proved from it and from `Inv`, action by action: `FormaCiclo` gives the mapping by cases (which
queue or hand gives a process its abstract state), and each action of the threads and of
the CPUs is shown to be the abstract action of its process, or to change no mapped
variable. The abstract bound on the processes that execute is an injection of them into the CPUs.

`Inv` of `ConfiguracionProofs` has five parts over the types. `Protocolo` says, for each step a program
may be in, where its last request is: in its socket after the assignments that nobody answers, with the
main thread, or answered; `Pares` that in the socket each value comes right after its name, the first of the
pair maybe in the hands of the main thread. `Esperas` says that who is in a queue is asleep there, in
that queue only, with its sockets empty, and that who is in ready has its unit. From those two follows that
a request of a program never finds it in a queue. `Unidades` counts: what the file gives a lock, and what a
reload found taken, cover its value and the programs that took it. `Mirada` is
about the reload: while nobody has been seen, the queues before the index had none of those who waited when the look
began, and so none is left when the loop ends; those who come to a queue meanwhile
may be lost, and only those. `Variable` follows the assignments: the last one
on its way to a variable has the value that was last assigned (`Viajan`, `EnMano`), and with none on its way the variable has it.
It needs that with one unit only one program has assignments on their way, which comes from
`ConLicencia` and `Unidades` together: who leaves the lock has sent them before its signal, in the same socket.

None of the three invariants of `Memoria` is inductive, since its threads work without a mutex
between their steps; what saves them is that no two threads serve one process at a time.
`InvHilos` says so, with what each thread has in its hands at each step: a page of a living
process, an entry, or a process that ended and is being released. `InvMarcos` is
`MarcosDeCadaUno` without the cache, and adds that a process not yet initialised has no
frame, from which an initialisation leaves each page in exactly one. `InvCache` is
`CacheCoherente` with two additions: the page of an entry is in the
table, so that a frame given to another process never leaves an entry behind, and when the frames of
a process are about to go no entry is left of it. `InvMano` says that
the bytes a thread read from a frame and has still to write in the cache are those of
the frame. `InvLecturas` says the same of what was last stored, and, with room for everybody, of the
entry a reader has found and not copied yet, which only the eviction of another process
could change, and then there is none.

One lemma, `Paso`, does most of the work: a step in which no page in use changes of frame, and
each entry is kept with its page or is written with the bytes of its frame, keeps `Inv`. A
lemma for each action shows that it is such a step, and `EscribirCache` does so for the
three ways of writing the cache (an update, an append, an LRU eviction). Only
`INICIALIZAR_PROCESO`, `ASIGNAR_PAGINAS`, a store and the release of the table need more.
`reservar` is a recursive function over the pages it reserves, and what it gives is
proved without induction over data: of the numbers of pages at which it would fail there would
be a least one (`MinExiste`), and its predecessor shows that it does not (`HayReserva`,
`ReservarTodas`). `IdsAlcanzan` counts: the entries of the cache and those that threads
point to are fewer than the identifiers, so that an append always has a new one.

`Inv` of `HeapProofs` is about a page as the code walks it. `Partida(celdas, B)` says that the
offsets `B` begin with 0, that after each comes another of them or the end of the page, and that none
lies inside the block of another; other headers may be in the page, left by merges, and nobody
reaches them. A write of a header is then one of a few changes of `B`: a merge
takes an offset away (`QuedaUnida`), a split adds one (`QuedaReservada`), a free changes a
flag (`QuedaLiberada`). `ManoDelHilo` says that the offset a loop of the thread goes on from is
one of `B` in a page of a living process, and that what the search chose has room. `MismasPaginas` says
that the Kernel counts the pages that Memoria has given;
`UnoPorPagina` and `NoPrometenDeMas` are `RegistrosFieles` for the records, and
`Vigentes` is `ReservaVigente`, with the hypothesis that nothing is freed twice. It is needed
by the records: `liberarBloqueHeap` adds the size of the block to what its page has
available, and only for a block that was used has the page that much more free.

Three recursions had to be reasoned about without induction over data: the walk `Cadena`, the sum of
the free bytes of a page, and the loop `Depurada` of `finalizarProceso`. Each is shown with a least counterexample
(`MenorFalla`): if some number of turns failed, there would be a least one, and the turn
before shows that it does not. So the walk visits the offsets of `B` and no
others, the sum changes by what a merge, a split or a free changes, and the loop
that skips records never takes away one of another process (`Conserva`).

`PathDondeDebeAlineadas` needs a longer way round. A close of the last element is
harmless only if no other descriptor points there, which follows from
`IndicePropio` (each position leads to an element marked with its own
descriptor) and `FDUnico`; `FDUnico` and the search of an open need every
number in use to be below `fdcounter` (`FDViejo`); and that the name and
the permission are those of the open is `AperturaPropia`, which links each entry to an
element of `aperturas`. `InvTablas` is the conjunction, inductive on its own;
`Inv` adds the request. `TablasParejas` counts descriptors, and an open adds one because
`fdcounter` is above them all; `InvParejas` goes with `UnaSolaVez`, that no table has a
descriptor twice, so that a close takes away just one.

`UnoSoloArranca` is about the steps of a thread and of the menu; what makes it true is the mutex
that one takes and the other gives back. `MutexDelQueArranca` says that a thread
that starts has it, `MutexDelMenu` that between the creation of a thread and its
release nobody else does, whoever is cancelled meanwhile; with them goes what the
sockets need (`Conectado`, `TablaConHilo`, and `UnDescriptor`: two threads never hold one
descriptor). From the last one, and because a set of descriptors as large as that of the threads
has one left for a thread without any, follows that `conectar` always has a descriptor to give,
which `TypeOK` needs.

`TablaAlDia` and `SinHuerfanos` need `Todo`, three conjunctions that differ in how much they suppose.
`InvHilos` holds always: a stored pid is its thread's for good, scripts go out first and once, and
the Kernel gave at most one pid for each thread whose script it took, so that pids stay in the
table. `InvTabla` holds while the Kernel refuses nobody: an entry of `matriz` is of a thread
that was not cancelled, whose descriptor is open and its own, and the pid comes before anything else.
`InvKernel` holds while the Kernel lives too: pids on the way and pids stored differ
(`PidsDistintos`), a thread with a pid that was not cancelled is in the table, an end is
announced only for a process that ended, and for whoever ended otherwise the notice is in some socket.

`SenalesAlDia` is about `CierreCPU`, where little of `Inv` is left: a process may be in
two queues, a CPU twice in the free list, and a packet or a PCB may be anybody's. `InvSenales` therefore
keeps of the state only its shape (`FormaHilo`, `FormaColas`, `FormaRed`) and adds that, until a CPU leaves
(`NingunaSeFue`), no packet says so and the main thread looks for none in the list. Each action of the
three modules outside the walk of that list is shown to do three things and no more (`PasoSano`): a thread goes on without
beginning to look (`HiloSano`), a queue gets an element with its unit or loses one (`ColasSanas`), and a
CPU that left stays out, while one that has not sends nothing that says it has (`RedSana`). What is left is
the walk of `sacarCPUDeListas`, between whose two steps one unit is too many, and the pop of an empty
list, which needs a unit more than the list has and so can only come after such a walk. The attempt to prove an
earlier form found it false: with two orders a CPU freed twice leaves while it is in the list, which
the bound of the run did not reach. The statement, and that of `NadieAtrapado`, were changed to what the
code keeps, and `SiempreVuelve` and `CierreConUnidad` (section 3) record what it does not.

`BloquesDisjuntos` and `BitmapExacto` need to know of the request under way and of the two maps.
`BloqueEnMano` says that the block a request took is marked and in no file, from the change of the bitmap to
the save of the metadata; `PorBorrar`, that the bits a deletion has still to clear are those of the file
that goes; `ArchivoNuevo`, that a file that is being created has no metadata; `Salvado`, that
memory and disk agree but for the save under way; `SinDisco`, that without `Bitmap.bin` there are no files.
A map that is whole has the bits of the files (`CubreA`): a truncated one that is whole is the one
that was being saved (`PrefijoEntero`), and one that is not is never whole again (`SanoAntes`).
So while some map is whole (`Sano`), the blocks of the files are disjoint. `Justos` says
that a bit that is set belongs to a file, to the block in hand or to the deletion, while there has been no fall
from outside. Nothing of this is claimed once `cortado` or in `"indefinido"`.

`LecturasDelDisco` follows each byte. `EnSuLugar` says that position `i` of a file, once written,
is in element `i \div TAMANIO_BLOQUES` of its array, which needs `Disjuntos`, or a write to
one file would change another; a metadata file left empty has no bytes to follow. It holds while `Fiel`: no
write has crossed, nothing was cut, and some map is whole. In the middle of a write, `EscribeBien` says that it has written
`c` whole blocks and where the next chunk goes; `TramoEsSuParte`, that the places of a
chunk are those of its positions. The proof found what the run had not: with reads and writes
of two blocks at most, `LeeLoEscrito` held for every write from the start of a file,
but the third chunk of a write to a file of two blocks goes past the array (`file_system.c:492`).
`SinCruces` now excludes it, and the run has writes of three blocks.

Only model-checked, and why: liveness and whatever speaks of `ENABLED`, which the
temporal prover does not reach (`FinalizarTermina` of `Memoria` among them); `Pila` with its
refinement of `PilaDeLlamadas`, and `NadieAtrapado` of `CierreCPU`, which needs the protocol of `Inv` once more for
CPUs that leave: their proofs are still to be written (section 6); the type invariants of `FileSystem` and `Heap` as their
modules state them (the inductive invariants of both have types of their own).

## 5. Not modelled

* The interpretation of AnSISOP by the CPU: the parser is not in the repository. `Pila` has
  the primitives it calls on the stack; labels, the program counter and pointers kept by
  the program are left out.
* Byte order, partial reads and the handshakes of `Commons_Kaprobo_Consola.c`:
  a packet is delivered whole, in order.
* The tearing of lists and counters that two threads update without a mutex:
  operations of the library's lists are atomic.
* Dumps, listings, delays and logs of the operator consoles; the makefiles.
* The order of initialisation (`Kernel.c:17` starts threads before the
  semaphores exist): the models begin once everything is there.
* The end of a process while the configuration is reloaded: `verSiEstaBloqueado` walks
  `cola_semaforos` while the notify thread makes it again.
* Pids past `MAXPID` (`auxiliaresConsola.c:30` looks at one element too many), and
  the pid that `enviar` sends from a pointer without a value in `Kernel.c:841`.
* Requests of the programs to descriptor 1, which print on the console.

## 6. Plan

Done, in this order: `Planificador` and its proofs, `Finalizaciones`,
`CicloDeVida` and the refinement, `Memoria` and its proofs, `FileSystem`, `Heap`, `Archivos` and
its proofs, `Pila` and `PilaDeLlamadas`, `CierreCPU`, `Configuracion`, `Consola` and its
proofs, the proofs of `FileSystem`, the protocol, the exclusion and the refinement of
`Planificador`, the tables of `Consola` and `Archivos`, the reads of `FileSystem`, the reload of `Configuracion`, the pages of
`Heap`, the units of `CierreCPU`. What would come next, the most important first:

1. `Pila` joined to the loop of `CPU.c`: pointers kept by the program, the flags a stack
   overflow leaves set (`flagStackOverflow`, `CPU.c:187`), and the end of the program seen
   by the Kernel.
2. An abstract disk (files as sequences of values) that `FileSystem` implements
   while every write is as `SinCruces` says, and an abstract allocator (disjoint intervals)
   that `Heap` implements.
3. The end of a process while the configuration is reloaded: `Configuracion` over the queues of
   `Finalizaciones`.
4. The scan of the cache split in steps, and the window of `flush`.
5. `cantidadDeProgramas` read and written apart by two threads.

Theorems, in this order: `DentroDelStack` of Pila, and that its addresses
grow from a context to the next, from which the step simulation of `PilaDeLlamadas` follows;
`NadieAtrapado` of CierreCPU.
