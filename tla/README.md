# TP Sistemas Operativos: verification project

TLA+ models of the operating-system simulator in `src/`: four programs (kernel, cpu,
memoria, entradasalida) that talk over TCP. The models are read off the C code; names
of operations, queues and flags are those of the source.

## 1. Inventory

| Component | State it keeps | Operations | Interacts through |
|---|---|---|---|
| kernel, planner (`kernel/src/planificacion.c`) | `lista_new`, `cola_ready`, `cola_ready_priori`, `cola_blocked`, `cola_exec`, `cola_exit`; semaphores `sem_cont_ready`, `sem_gm_actual`, `sem_recibir_exec`; mutex `sem_CPU_libre`; `planificacion_activa`; `hilo_quantum` | `stl_FIFO`, `stl_RR`, `stl_VRR`, `manejar_quantum`, `desalojar`, `lts_ex`, `cargar_ready`, `buscar_pcb`, `modificar_multiprogramacion` | shared queues and semaphores, EXEC_PROCESO to the CPU |
| kernel, receivers (`espera.c`) | flags `bool_error_memoria`, `bool_syscall`, `bool_interrumpi`, `bool_interrupted_by_user` | one thread for the dispatch socket, one for memoria, one per interface; `interrumpir` | packets, calls into the planner, resources and interfaces |
| kernel, resources (`recursos.c`) | instances, blocked queue and mutex per resource; `rec_por_pid_dic` | `atender_wait`, `atender_signal`, `signal_por_fin` | called by the dispatch thread and by whoever ends a process |
| kernel, interfaces (`manejoInterfaces.c`) | per interface: `libre`, `pcb_usando_interfaz`, `cola_blocked_interfaz`, its mutex; pending operations | `agregar_interfaz`, `atender_io_*`, `atender_fs_*`, `desocupar_io`, `remove_cola_blocked_io`, `desconectar_IO` | dispatch thread, interface threads, console; `cola_blocked` |
| kernel, console (`consola.c`) | `PID` | start, kill, stop, resume, degree, list | planner, memoria |
| cpu, cycle (`cpu/src/main.c`, `cicloInstruccion.c`, `instrucciones.c`, `conexiones.c`) | PCB, registers, `interrupcion` | fetch, execute, check interrupt; interrupt thread | dispatch, interrupt and memoria sockets |
| cpu, TLB/MMU | entries, LRU list | search, replace, translate | memoria |
| memoria | processes, page tables, frame bitmap | create, end, resize, read, write | three client threads |
| entradasalida (`hilos.c`) | one thread per interface | sleep, stdin, stdout | kernel and memoria |
| entradasalida, DialFS (`operacionesFS.c`, `bitmap.c`, `bloques.c`, `diccionario.c`) | on disk: `bitmap.dat`, `bloques.dat`, a metadata file per archivo; in memory: `diccionarioFS` | create, delete, truncate (and compaction), write, read; start | one operation of the kernel at a time; data from and to memoria |
| utils | - | packets, serialisation, sockets | everything |

What is hard: six kernel threads and two CPU threads share queues and flags; the
interrupt of a system call and its confirmation go to two sockets and two CPU threads;
quantum expiry races with termination and system calls; several threads can be ending
processes, and so returning resources, at once; a place of the multiprogramming degree
is taken by one thread and given back by others on five different paths.

Correctness, component by component:
*planner* - the semaphore counts the ready queues, a process is in one place, places of
the degree are conserved, NULL is never dereferenced, every process ends;
*dispatch and CPU* - the CPU runs only what the kernel believes it runs, and nothing it
was given is forgotten;
*resources* - instances are conserved, never granted twice, and a waiting process is in
one queue; nobody waits while an instance is free;
*interfaces* - one process uses an interface, whoever waits is served or ended;
*memoria* - a frame belongs to one process, all frames return;
*TLB* - an entry agrees with the page table; *DialFS* - a block belongs to one file and
its contents survive moves and restarts.
`PROJECT.json` lists the hazards at their lines.

## 2. Modules

* **`Recursos`** - `recursos.c` alone. `instancias` may be negative, as in the code: it
  counts waiting requests as debt. `rec` is `rec_por_pid_dic`. `fin`/`porSoltar` are a
  thread in the middle of `recorrer_liberar_rec`: each call of `signal_por_fin` takes
  the mutex of the resource anew, so other threads act in between. `atender_wait` and
  `atender_signal` each run under one mutex in one thread and are one action. The rest
  of the kernel is reduced to what it does to a process state.
* **`RecursosProofs`** - TLAPS proofs about `Recursos`: all its properties that hold.
* **`Despacho`** - planner, quantum thread, dispatch and memoria receivers, console,
  one interface thread, CPU, CPU interrupt thread, and the FIFO sockets between them.
  A kernel thread is the sequence of atomic operations left to do (`tareas[h]`); a C
  function is an operator that yields such a sequence (`CargarReady`, `Desalojar`,
  `LtsEx`, `Atender`...), in the order of the C statements, so threads interleave at
  every critical section, semaphore operation, flag write and send. Popping an empty
  queue, passing NULL or cancelling a thread that was never created sets `caida` and
  stops the kernel threads (`hilo`: the planner has created a quantum thread once, so
  `hilo_quantum` names one). `Despacho` uses the
  operators of `Recursos` (`R!Restar`, `R!Despierta`, `R!Liberaciones`...), so the
  counting is written once. Instructions are abstracted to `CPU` (anything the kernel
  does not see), `RESIZE`, `WAIT`, `SIGNAL`, `IO`.
* **`DespachoProofs`** - TLAPS proofs about `Despacho`: types, the count of
  `sem_cont_ready`, and that the planner never pops an empty queue.
* **`MemoriaVirtual`** - what memoria and the MMU promise: each process has a space of
  its own, a sequence of pages; reads answer the last write. No frames, tables or TLB.
* **`Memoria`** - memoria and the MMU/TLB. `libres` is the bitmap, `tabla[p]` the page
  table (its keys are always 0..n-1, so it is a sequence), `dato` the memory, one value
  per frame. `ajuste` and `cierre` are the loops of `redimensionarProceso` and
  `finalizarProceso` in progress; `copia[h]` is the byte of the bitmap that a thread has
  read and not written back (`|=` and `&=` of `bitarray_*_bit` without a lock). `pedidos`
  are accesses on their way: to an interface, in memoria (one action per page), or
  answered. Translation is one action: only the CPU uses the TLB, and only its own
  thread of memoria changes the table of the running process. The TLB is as the code
  runs it: both algorithms drop the first entry, LRU moves an entry on a hit, and a
  failed translation is kept with marco -1 and read as a miss. IO_FS_WRITE and
  IO_FS_READ use memory like `Stdout` and `Stdin`.
* **`MemoriaProofs`** - TLAPS proofs: types, TLB and frames of `Memoria`; that it
  implements `MemoriaVirtual`.
* **`Interfaces`** - the interfaces as the kernel sees them, `cola_blocked` and the
  console's FINALIZAR_PROCESO, PROCESO_ESTADO and MULTIPROGRAMACION: the part of the
  kernel where threads take mutexes in different orders, or none. As in `Despacho` a
  thread is a sequence of operations; `dueno` is the owner of each mutex that is held
  while its thread waits for something else or works on what others use without it
  (`sem_q_ready` in a kill, `sem_q_blocked` in a kill, each `mutex_interfaz`). Any other
  critical section is one operation, enabled when its mutex is free. `io` is the
  dictionary of `datos_interfaz` (`esta`: the name is in it), `enviadas` what an
  interface was sent and has not answered. The protocol between CPU and kernel is that of
  `Despacho` and is reduced here to one packet per system call; resources and the
  priority queue are not in it. `quiebre` says why the model stops: the kernel used NULL,
  freed or uninitialized memory (`caida`), unlocked the mutex of another thread (`ajeno`),
  goes on with a process that it ended (`zombi`), or two threads were at a pop or a push
  of `cola_blocked` at once (`lista`, action `Chocar`): `delete_queue_blocked` has its lock
  commented out and the list has none of its own, so from then on nothing can be said of
  it. Turns that interleave between those operations are in the model. `carreras` are the interfaces where
  IO_FS_TRUNCATE, which tests and acts without the mutex, met its owner.
* **`InterfacesGuiones`, `InterfacesProofs`** - TLAPS proofs about `Interfaces`: what each
  thread has left to do, step by step; from it types, the safety invariants, and that it
  implements `Servidor`.
* **`Servidor`** - what the interfaces promise, without mutexes, messages or
  `cola_blocked`: each is a server with one queue, the first of which it works for.
  `Interfaces` implements it (`AtiendeEnOrden`): the queue of a server is
  `pcb_usando_interfaz` followed by `cola_blocked_interfaz` when the interface is not
  free and its thread has not finished the operation (`Terminada`); `perdidos` are the
  interfaces in `carreras`, and all of them once `quiebre` is set.
* **`ServidorProofs`** - TLAPS proofs about `Servidor`.
* **`DialFS`** - the file system. The disk (`bitmap`, `bloques` cell by cell, `meta`)
  survives the process; `dicc` is rebuilt by `Reiniciar`. An operation is a sequence of
  stages (`op.fase`), cut where the state on the disk changes class: setting the bit,
  opening the metadata file, closing it; freeing the blocks, removing the file; bits, size;
  the buffer, the metadata and the blocks of each run of the compaction. `Cortar` ends
  the process between any two. `sano` is what may be expected then: `exacto`; `fuga`
  (blocks that belong to nobody: cut in a create before the file is opened, or in a
  growth before the size is written); `roto` (a cut in a delete, a shrink, a compaction,
  or in a create before the contents of the metadata file reach it; a truncate to 0; a
  compaction that meets a leaked block).
* **`DialFSProofs`** - TLAPS proofs: the blocks of `DialFS` and its bitmap; the contents,
  and that it implements `SistemaArchivos`.
* **`SistemaArchivos`** - what DialFS promises: files with a size and the positions that
  hold what was written, operations at once. `DialFS` implements it
  (`OperacionesAtomicas`): the data are read from the disk, from the buffer for the file
  that a compaction moves, and from the old blocks for a run whose metadata is already
  changed; a file exists from the closing of its metadata until its blocks are freed.
  A growth may show cells that the file had before a shrink within the same block.
* **`SistemaArchivosProofs`** - TLAPS proofs about `SistemaArchivos`.
* **`MCRecursos`, `MCDespacho`, `MCMemoria`, `MCInterfaces`, `MCDialFS`** - instances for
  TLC.

Operators and actions marked *Mutant* are variants with one plausible mistake; each
shows that some property notices that mistake. They are not part of `Next`.

### Names of actions and code

`EmpezarTurno` to `UnirQuantum`: the bodies of `stl_FIFO`, `stl_RR`, `stl_VRR` (which
operations they consist of is `Turno`, `Ejecutar`). `Despertar`: end of the `usleep` of
`manejar_quantum`. `RecibirDispatch` and the actions after it: the switch of
`esperar_paquetes_cpu_dispatch`; `ElegirMotivo` is its INTERRUMPIO_PROCESO case.
`IniciarProceso`/`ListarNew`: the two halves of `iniciar_proceso`. `EsperarGM`,
`SacarNew`: `cargar_ready_por_pid` and `enviar_new_exit`. `Cpu*`: the loop of `main` and
`conexion_interrupt` in the CPU. In `Interfaces`: `Mirar`, `ActuarSinMutex`, `Pasar` are
`atender_fs_truncate`; `AtenderIO` the locked section of the other five `atender_*`;
`DesocuparIO`, `Liberar`, `Siguiente` are `desocupar_io`; `Vaciar`, `Free`
`desconectar_IO`; `Girar`/`Reponer` a turn of `delete_queue_blocked`, `Chocar` two that
overlap; `FinalizarProceso`
and `Buscar*` `buscar_pcb`. The map in `PROJECT.json` gives the lines.

## 3. Runs

| Run | Instance | Result |
|---|---|---|
| `recursos` | 3 processes (symmetric), 2 resources with 1 instance, one of which may be signalled without being held; dispatch thread and 1 interface thread; `Tope` = 2 | passes, 470 580 states |
| `despertar` | the same | `SinDespertarPerdido` violated |
| `fifo` | FIFO, 3 processes with WAIT, RESIZE, I/O and SIGNAL, 3 places, 1 instance | passes, 88 743 states, with liveness |
| `admision` | FIFO, 3 processes (the same program, or WAIT of an unknown resource), 2 places, 1 DETENER | passes, 1 164 498 states |
| `preemptivo` | RR and VRR, 2 processes (computing; RESIZE; WAIT, I/O and SIGNAL), quantum 1, `AltaATiempo` = FALSE | passes, 1 917 289 states |
| `quantum` | RR, two computing processes | `EnManosDeAlguien` violated |
| `senal` | FIFO, SIGNAL of an unknown resource | `ConfirmacionPropia` violated |
| `aviso` | FIFO, 1 process, WAIT of a resource without instances, late interrupt | `SoloElDespachado` violated |
| `memoria` | 2 processes (symmetric), 4 frames of which 3 are in the bitmap, sizes and pages up to 2, accesses over up to 2 pages, LRU TLB of 2 entries | passes, with the refinement of `MemoriaVirtual` |
| `cierre` | the same with 3 frames, and RESIZE allowed while a process is ended | `MarcosExclusivos` violated |
| `interfaces` | FIFO, 3 processes for 2 places: two read a file (one of them may be killed), the third sleeps, reads, truncates or asks for the wrong type; a generic interface and a DialFS; one kill, listing, MULTIPROGRAMACION (1 or 3) or disconnection | passes, 489 635 states, with liveness and the refinement of `Servidor` |
| `dialfs` | 3 files, 4 blocks of 2 cells, sizes 0, 3 and 5, up to 2 ends of the process | passes, 107 659 states, with liveness |

What they show. *recursos*: whatever the interleaving of waits, signals and endings,
instances plus recorded requests stay equal to the configured number, no more requests
are let through than instances, and the state BLOCKED and the queues agree; three
processes are the fewest for one holder and two waiters, two resources the fewest for
a mistaken queue. *fifo*: no crash, and every started process reaches `cola_exit` as
long as two never wait for the resource at once: with three processes finding 1 may leave
two of them waiting for ever, and TLC reaches that, which is why the condition is there.
*admision*: the places of the degree are conserved along the ways in and the ways out
that dispatch and memoria have: the end of the program, no memory, an interface that
refuses the operation, a resource that does not exist (WAIT), a program memoria does not
find (SIGNAL of an unknown resource is in `senal`, FINALIZAR_PROCESO in `interfaces`); it needs
more processes than places, hence 3 and 2. *preemptivo*: with the quantum thread
cancelled, late, or its interrupt stale, no process is in two queues, the CPU runs only
the dispatched one, and the planner pops no empty queue. Under RR and VRR the kernel does
fall, and the run includes it: the first `desalojar` may come before the planner created
the quantum thread (`pthread_cancel` of 0, `planificacion.c:559`, `:564`), RESIZE without
memory passes NULL to `modificar_quantum` (`:565`), and `lista_new` may not have the
process yet (`:149`). `CaidasConocidas` says that the other dereferences are safe.
`CHECK_DEADLOCK FALSE`: in `recursos` because programs may deadlock on the resources; in
`fifo` because of finding 1; in `preemptivo` because of the finding of `quantum` and the
falls. In `admision` deadlock is checked (the only allowed end is `Terminado`): at most
two processes are in the system, so one at most waits.

*memoria*: whatever
the order of resizes, accesses, interface operations and endings, no frame is mapped
twice, an ended process of n pages costs exactly n - 1 frames, an entry of the TLB never
contradicts the page table, and `MemoriaVirtual` is implemented: what is on its way
counts as written from the moment the process may go on (`Contenido`). Three frames for
sizes up to 2 make processes compete and a RESIZE be refused; two entries for four
(process, page) pairs make the TLB replace; a frame per value is not a loss, since no
test of the code looks at contents. The promise ends when some process reduces its size
(`achico`), because the code then frees a frame that stays mapped; `SigueTrasAchicar`
= FALSE stops the programs there and keeps the instance small. `CHECK_DEADLOCK FALSE`:
the system stops when every process has ended.

*interfaces*: away from the race of IO_FS_TRUNCATE, an interface has been sent exactly
the operation of the process it is noted for (`UnaPorVez`), nobody waits for a free one
(`NadieEsperaLibre`), and who is at an interface has an entry in `cola_blocked` although
two interface threads and dispatch turn that queue without its mutex (`EntradaPresente`):
their turns interleave and lose nobody, as long as two pops or pushes do not overlap. When
they do (`Chocar`) the promise of every property of this run ends.
A kill at any moment leaves the process in one place (`UnSoloLugar`) and the places of
the degree exact (`PlazasExactas`). `NadieEsperaSiempre`: every thread ends what
it does and every process leaves the interfaces, except in the two ways of waiting for ever that
`Atasco` names, the truncate race, and the process that uses an interface when it
disconnects. `AtiendeEnOrden`: whatever ends,
is killed or disconnects, those who wait are served in the order of their system calls,
and who leaves a queue without service was ended.
Each exception is needed: TLC reaches both halves of `Atasco`, every
value of `quiebre`, a process queued at a free interface and an interface with two
operations. Two processes at one interface and a third that dispatch is bringing there
are the fewest for the second way; the other interface makes two interface threads turn
`cola_blocked` at once, and MULTIPROGRAMACION gives the third place. The theorems of
section 4 hold for any number of processes and places. One command or disconnection per behaviour: with a second
MULTIPROGRAMACION `PlazasExactas` fails, since the code compares with the degree of the
configuration again (`planificacion.c:745`). `CHECK_DEADLOCK FALSE`: every behaviour
ends, with the programs, in one of those waits or at a `quiebre`.

*dialfs*: through any sequence of creates, deletes, truncates, compactions, writes and
restarts no two files share a block, no file has a block the bitmap calls free, without
cuts no block is lost (which is what `espacioLIbre` counts on), and what was written is
where the file says. `OperacionesAtomicas`: for who uses the files each operation changes
one file, at once; what happens in the middle of one is not seen after a cut, unless the
cut is one of those of `roto`. One compaction is enough for the truncate that asked for it, so the
recursion ends (`TodaOperacionTermina`). Four blocks and three files are the fewest for a
hole, a file before it and a run of two after it; a size of 3 or 5 on blocks of 2 cells
leaves the last one half full; two ends of the process let a leak meet an operation and a
second cut. `SigueTrasRoto` = FALSE: after `roto` no operation is received, as nothing is
promised (with TRUE, and without the condition on `sano`, each invariant fails).
`CHECK_DEADLOCK FALSE`: the process may have ended for the last time, and it stops at
`roto`.

Bounds: `NProcesos`, the length of programs (two instructions cover: be interrupted and
continue), `Quantum` = 1 (the remaining quantum under VRR is 0 or 1: to be recharged or
not), `MaxDetener`, `Tope` on instances and recorded requests (above it nothing new can
happen to the comparison with 0).

### Findings

1. **A SIGNAL may wake nobody** (`recursos.c:104`): the balance counts waiting requests,
   so with two waiters it goes from -2 to -1 and the test `>= 0` fails. The instance
   stays free and both wait until someone signals again.
2. **A process may be forgotten under RR/VRR** (`espera.c:111`): an INTERRUMPIO_PROCESO
   that finds no flag set is dropped; the process stays in `cola_exec`, the CPU stays
   locked and the planner waits for ever.
3. **SIGNAL of an unknown resource is not answered** (`recursos.c:88`): the CPU takes the
   next dispatched process for the answer.
4. **A blocked process may go on executing** (`espera.c:146`): interrupt and confirmation
   race on two sockets. In the trace WAIT blocks the process, the kernel takes it out of
   `cola_exec`, and the CPU executes its next instruction.
5. **Ending a process frees one frame several times** (memoria `procesos.c:129`): the
   loop over the pages always takes the first element. A RESIZE of another process that
   gets that frame between two iterations loses it again. The other frames are never
   freed (`PerdidasExactas`).

Further, seen while modelling. Under RR and VRR the first `desalojar` may cancel a quantum
thread that does not exist (`planificacion.c:559`, `:564`); RESIZE without memory under VRR
calls `desalojar(NULL)` and dereferences it (`:565`); memoria's answer to CREAR_PROCESO may
come before the PCB is in `lista_new` (`:149`). All three are steps of `preemptivo`. Reducing the size of a process frees, once
per page, one frame that stays in its page table (memoria `procesos.c:196`), against
`lineamientos.md:32`; drop `~achico` from `MarcosExclusivos` and set `SigueTrasAchicar`
to TRUE and TLC finds two pages in a frame. The programs SQUARE and SPHERE end with
RESIZE 0. The answer to RESIZE carries a PID, and 30 reads as ERROR_OUT_OF_MEMORY
(memoria `conexiones.c:157`, cpu `conexiones.c:100`).

Interfaces and console: the kill of a READY process waits for `sem_cont_ready` with
`sem_q_ready` held, for ever if the planner already took the unit (`planificacion.c:617`);
the kill of a BLOCKED one takes `sem_q_blocked` and then `mutex_interfaz`, while
IO_FS_CREATE, DELETE, WRITE and READ take them the other way round (`planificacion.c:662`,
`manejoInterfaces.c:162`); the kill of the process that uses an interface makes it ready
and ends it (`manejoInterfaces.c:418`), and the killed PID is compared with uninitialized
memory if the interface was never used (`:53`); a wrong type unlocks a mutex that was not
locked (`:102`, `:149`, `:343`); `delete_queue_blocked` has its lock commented out, so two
threads may pop an empty queue (`planificacion.c:896`); FINALIZAR_PROCESO and
PROCESO_ESTADO call `list_iterator_remove` after the loop and lose the last process in NEW
(`:601`, `:785`); `desconectar_IO` leaves the process that uses the interface blocked and
frees a structure that dispatch may be holding (`manejoInterfaces.c:357`, `:368`).

DialFS: `leer_archivo` does not add the file's first block (`operacionesFS.c:212`), so only
the file at block 0 is read; a truncate to 0 frees the block that an empty file is taken
to have everywhere else (`:135` against `:129`); a leaked block makes the compaction return
half done and `truncate_archivo` call it again (`bloques.c:114`, `operacionesFS.c:162`);
no room, or an access beyond the end, ends the whole process (`:166`, `:186`). A shrink
frees the blocks after the last one that stays and clears as many bytes from the new size
on, so the end of the last block freed keeps its bytes (`:138`).

### Assumptions

* `AvisoATiempo` = TRUE: the interrupt of a system call reaches the CPU before the test
  that follows the confirmation. Nothing in the code ensures it (run `aviso`); the other
  runs show what holds apart from that race. Quantum interrupts are not so constrained.
* `AltaATiempo` = TRUE: memoria answers CREAR_PROCESO after `list_add`. With FALSE
  `SinCaida` and `GradoRespetado` fail; `preemptivo` is run with FALSE, and the theorems of
  `DespachoProofs` hold for either value.
* `Exclusivo` = TRUE (`Memoria`): no RESIZE is served while a process is being ended.
  Nothing in the code ensures it; the loops take microseconds and a RESIZE comes at most
  once per `RETARDO_RESPUESTA`. Run `cierre` is without it.
* `EntradaATiempo` = TRUE: the text of IO_STDIN_READ, which the interface sends before it
  tells the kernel that it ended and which memoria does not acknowledge, is written
  before the process executes again. The fetch of the next instruction waits as long in
  memoria as the write (`RETARDO_RESPUESTA`) and is sent later. With FALSE
  `EspacioPropio` fails: the process reads the old content.
* In `Memoria`, processes are ended only when they left the CPU and use no interface
  (what `lts_ex` does in the dispatch thread; FINALIZAR_PROCESO of the console is not
  covered), PIDs are not 30, and interfaces are asked only for pages of the process.
* Sockets are FIFO and lose nothing (TCP); the peers do not die. memoria has room for
  all processes (`max_procesos`).
* `pthread_cancel` takes effect at once: `usleep` and `send` are cancellation points.
* FINALIZAR_PROCESO to memoria is not answered and is left out of `Despacho`.
* `Interfaces`: an interface answers after the kernel noted who uses it (it sleeps at
  least a unit of work first) and connects again after its old thread ended; the threads'
  concurrent use of the so-commons dictionaries, SIGPIPE and the order of bytes on a
  socket are not modelled. It starts with the interfaces connected and the processes
  loaded: admission and its races are in `Despacho`.
* `DialFS`: every block has its bit in the mapped file. `bitmap.c:55` truncates the
  division by 8, so the code needs `block_count` to be a multiple of 8, as it is in the
  configurations; the run has 4 blocks for its size, and the theorems hold for any number.
  Names do not end in "dat" (`diccionario.c:93`); `memcpy` between overlapping runs copies
  as `memmove`; the kernel sends one operation at a time (`UnaPorVez`), to one DialFS: two
  in one process would share the globals `bitmap`, `map_bloque` and `diccionarioFS`. A
  write or read is one cell, at 0 or `BlockSize`, whereas `hilos.c:276-311` take any
  pointer and size, so a cut inside a longer write is not in the model. The file reached
  `msync` when the process ends: the machine does not.

Fairness of `Despacho` (`FairSpec`): weak fairness of each thread of the kernel, of both CPU threads,
of memoria and of the interfaces: the OS schedules runnable threads, and every blocking
call has one waiter, so weak fairness is enough. The console is not fair (the user may
stop typing), except that `iniciar_proceso`, once begun, ends. No strong fairness is
used. Liveness is checked in `fifo`, without a stopped planner. `Interfaces`: the system does not stop
while some thread, program or interface can go on; its bounds leave each a finite number
of steps, so fairness to each would say no more. Connections, disconnections and commands
are not fair. `DialFS`: the thread of the interface runs; operations and restarts are not
fair.

## 4. Proofs

Each proof is for every value of the constants that satisfies the named assumption of
the module; the runs of section 3 are one small instance of it.

`RecursosProofs`, from `RecursosAssumption` only (instances natural, loose resources
among the resources, `Nadie` no process, the dispatch thread not an interface thread,
finitely many processes), for any resources and threads:

* `TipoCorrecto`: `Spec => []TypeOK`, with its clause that a thread that ends nobody has
  nothing left to return.
* `NuncaSeConcedeDeMas`: `Spec => []DeudaCubierta`. Inductive with the types: a WAIT that
  makes the balance negative enqueues, and a process is dequeued only when the new
  balance is >= 0, where the sum cannot become negative.
* `EsperaCorrecta`: `Spec => []EsperaUnica`. Not inductive alone: ending a process writes
  its state, so one needs that the process being ended is not in a queue. `FinSaliendo`
  (the process a thread is ending is marked SALIENDO and belongs to one thread) is added,
  and `IInv == TypeOK /\ EsperaUnica /\ FinSaliendo` is inductive.
* `NadaSePierdeNiSeInventa`: `Spec => []Conservacion`. The sum runs over the processes, and
  each action changes one of its terms. `Cuentas` says where the requests of a process are
  counted while a thread returns them: in `porSoltar` and not in `rec`. What a sum does
  when one term changes is proved from the definition of the sum over a finite set; as no
  induction theorem can be instantiated, a least size of the set at which the fact fails
  is taken (`Hasta`, `EsSumaHasta`) and refuted.
* `ExclusionMutua`: `Spec => []Exclusion`, from the previous one and `DeudaCubierta`.

`DespachoProofs`, from `DespachoAssumption` (sizes positive, programs sequences of the
instructions the kernel gets to see, NULL no PCB), for any processes, programs, resources,
degree and quantum, the three algorithms, and either value of the timing assumptions
`AvisoATiempo` and `AltaATiempo`:

* `SemaforoExacto`: `Spec => []CuentaReady`. The count is not inductive: a thread may post
  only what it pushed, and that depends on what it had left to do when it pushed. `Hebras`
  says that what a thread has left is made of whole C functions: each is a `Rutina`, where
  a push is followed by its post (or by the `popExec` of a recharge and then the post) and
  the planner's wait by its pop, and concatenating and consuming routines keeps this. A
  step then has one of six effects on the ready queues and the semaphore (`Efecto`: none,
  push, post, wait, look, pop), proved action by action, and `CuentaPaso` shows that each
  keeps the count, with the cardinality of the set of threads between push and post.
* `NuncaSacaDeVacia`: `Spec => []SacaConProceso`. From the count: the planner that has waited
  has one unit on account, so the two queues are not both empty; under VRR the queue chosen
  when looking is still not empty when popping (`Busca`), and under FIFO and RR the
  priority queue is always empty (`SoloVRR`).
* `DespachoTypeOK`: `Spec => []TypeOK`, from `Tipos` and `Hebras`: the queues of the
  kernel and of the resources, the process at the interface and the packets that dispatch
  or return a process hold a PCB, never NULL, and no semaphore is negative. `Tipos` adds
  what each operation carries: a handler that uses its PCB was given one.

`SinCaida` and `CaidasConocidas` are model-checked only. `SinCaida` does not follow for any
programs: it needs more than the pops of the ready queues (section 3 says which programs
and timings crash the kernel).

`MemoriaProofs`, from `ParametrosMemoria`, for any processes, frames, contents and sizes:

* `MemoriaTypeOK`. The types are not inductive as they stand: `Tipos` adds what the loops
  in progress keep, namely how far they may still go and the frame they are at.
* `TLBSiempreFiel`: `Spec => []TLBFiel`, inductive with the types. It needs no assumption
  on the order of RESIZE and endings.
* `MarcosDeUnoSolo`: `Exclusivo => (Spec => []MarcosExclusivos)`: no frame is in two entries
  of the page tables of processes not being ended. `MarcosInv` adds `Bitmap`
  (a byte that a thread has read and not written back is still the one of the bitmap), `Fases` (who may be growing or ending) and `EnUso`
  (a frame of a live page is free only between entering the table and being marked).
  Without `Exclusivo` the run `cierre` violates the property.

The second half of `MemoriaProofs`: `MemoriaImplementaMemoriaVirtual`, that is
`Exclusivo /\ EntradaATiempo => (Spec => EspacioPropio)`. Both hypotheses are the timing
assumptions of section 3 and each is needed: TLC finds the violation without it.
`AccesosInv` adds that each process has one access on its way at most, that its frame is
that of the page it has come to, and that a read has copied what the frames still hold.
Then every action is a step of `MemoriaVirtual` or leaves every space as it was.

`DialFSProofs`, from `DialFSAssumption`, for any disk, files and sizes, and until `roto`:

* `NadieComparteBloques`: `Spec => []BloquesDisjuntos`. The property speaks of a thread at
  rest; `Buena` says what holds in between: the files that the operation does not touch
  (`Quietos`) are disjoint and marked, and the one in hand has a clause for each stage.
  A compaction needs that the blocks in use and those in the buffer fit in the disk, so
  there is a hole whenever it looks for one (`Compactando`), and where the files of a run
  are while the metadata are ahead of the blocks (`Corrida`).
* `NoSePierdenBloques`: `Spec => []BitmapExacto`. `Exacto`: each bit set is of a file at
  rest or of what the operation holds, and a run that is being moved is full.

The second half of `DialFSProofs`: `LoEscritoEstaEnSuLugar` (`ContenidoIntacto`), `SeLeeLoEscrito`
(`LecturaDelPrimero`) and `DialFSImplementaSistemaArchivos` (`OperacionesAtomicas`). Each
step has one of five effects for who uses the files (`Nada`, `Crea`, `Borra`, `Trunca`,
`Escribe`), proved action by action from `Buena`; the written cells (`Fiel`) are invariant
under each effect, and each effect is a step or a stutter of `SistemaArchivos`.

`InterfacesGuiones` and `InterfacesProofs`, from `InterfacesAssumption` (finitely many
processes; a positive degree, and degrees asked for between 1 and 499 as the console
checks; NULL and the uninitialized PID are no process; the names that the model gives to
the kernel's own threads and mutexes are not interfaces), for any processes, interfaces
of any type, programs, degree and number of system calls and of commands:

* `Tipado`, `UnaPorVezSiempre`, `NadieEsperaLibreSiempre`, `EntradaPresenteSiempre` and
  `UnSoloLugarSiempre`: `Spec => []P` for `TypeOK`, `UnaPorVez`, `NadieEsperaLibre`,
  `EntradaPresente` and `UnSoloLugar`; all but the types until `quiebre`, so that of
  `EntradaPresente` is a theorem about turns of `cola_blocked` that interleave, not about
  two pops or pushes at once (`Chocar`). None is inductive: each speaks of an interface that
  nobody is changing, or of the lists and not of the threads that hold what is in no list.
  `IInv == Tipos /\ (Vive => Sano)` is (`Vive`: no `quiebre` yet), with six parts in `Sano`:
  - `Guiones`: what a thread has left is a suffix of the C functions it runs, preceded by
    what its loop on `cola_blocked` has in its hands. In `InterfacesGuiones` one lemma per
    action says that this is kept, and how the thread's phase (`Fase`), its lock
    (`Posee`) and the process it answers for (`EnHilo`) change.
  - `Llaves`: who may own `mutex_interfaz`: the interface's own thread exactly while it is
    past its lock and before its unlock, dispatch in the functions that lock, nobody else.
  - `Estados`: per phase of the interface's thread and per step of dispatch, what `libre`,
    `pcb_usando_interfaz`, the queue and the operations sent say of each other, and the
    interface is still in the dictionary if someone is going to use it.
  - `Unico` and `SinRepetir`: a process is at one place, where the threads that are moving
    it (`EnHilo`) count as places, and once in each list.
  - `Entradas`: who is at an interface, or is being moved out of one, has its entry in
    `cola_blocked` or in the hands of a thread that turns the queue.
* `ImplementaServidor`: `Spec => AtiendeEnOrden`, every step is one of `Servidor` or none.
  From `IInv` at both ends of the step: an interface's own thread only takes the first of
  its queue (`SirveHilo`), dispatch only puts at the end a process that is in no queue
  (`SirveReceptor`), the kill of one that waits takes it out and keeps the order
  (`SirveSacar`); no other action changes a queue.

These proofs corrected the model twice. `Unico` was not inductive until the kill of a
process whose interface had disconnected set `quiebre` = zombi (the console ends it although
another thread has it, `planificacion.c:662`). And the refinement mapping took the queue of
an interface from `usando` as long as it was not `libre`; but `desocupar_io` makes the
process ready before it frees the interface (`manejoInterfaces.c:370-390`), so with a
second system call it may already be at another interface. With one system call for each
process, as in the run, that cannot be seen; with two TLC finds it. The mapping now ends at
`Terminada`, and the proof is for any number of system calls.

`ServidorProofs`, without assumptions, for any processes and interfaces, and with
`ImplementaServidor` about the code:

* `TipoCorrecto` and `UnaVez`: `Spec => []UnLugar`, no process is at two places of the
  queues. Inductive with the types.
* `Orden`: `Spec => SinAdelantarse`, no step puts a process before one that came earlier.
  Every action but the arrival leaves in each queue clients that were there, at
  increasing positions (`Conserva`); since each is at one place only, their order stays.

`SistemaArchivosProofs`, for any files and any set of natural sizes, and through
`DialFSImplementaSistemaArchivos` about the code: `Contenidos` (`Spec => []DatosDentro`,
inductive with the types) and `Durabilidad` (`Spec => NadaSePierde`: what was written is
lost only by deleting the file or truncating it below that position).

Only model-checked: of `Despacho`, what depends on the packets between kernel and CPU
(`SinCaida`, `CaidasConocidas`, `EnManosDeAlguien`, `UnSoloLugar`, `SoloElDespachado`) and
`GradoRespetado`, each
true only under a timing assumption or for some programs; `PlazasExactas` of
`Interfaces`, which holds up to the first MULTIPROGRAMACION and not after the second (section 3);
`PerdidasExactas` of `Memoria` (how many frames are lost is a cardinality over the history of endings);
`TypeOK` of `DialFS`, which also speaks of the disk after `roto`, where nothing bounds a
file; `TodaOperacionTermina` and every liveness property, as liveness under fairness is
out of the prover's reach.

## 5. Plan

1. Refinement of `Despacho` to `Recursos`: queues mapped through pending `encolar`
   operations, states through the places of the PCB. It needs an ending of processes
   that were never admitted in `Recursos`.
2. `Memoria`: disconnection of a client (`liberarMemoria`), the end of a process that is
   using an interface (its freed page table).
3. FINALIZAR_PROCESO of a process waiting for a resource, and under VRR
   (`cola_ready_priori`), in `Interfaces`.
4. Proofs: `UnSoloLugar` of `Despacho` under `AvisoATiempo` and `AltaATiempo`.

Not modelled, and not planned: byte-level serialisation, command parsing, register arithmetic, logging.
