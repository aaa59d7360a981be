----------------------------- MODULE Interfaces -----------------------------
(***************************************************************************)
(* The I/O interfaces seen by the kernel (manejoInterfaces.c), the queue   *)
(* cola_blocked and the console's FINALIZAR_PROCESO (buscar_pcb): threads  *)
(* that take mutexes in different orders, or none.                         *)
(*                                                                         *)
(* As in Despacho, a thread is the sequence of operations it has left.     *)
(* dueno names the owner of a mutex that is held while its thread waits    *)
(* for something else, or works on what others use without a mutex; any    *)
(* other critical section is one operation, enabled when its mutex is      *)
(* free, together with the statements after it that no other thread sees.  *)
(*                                                                         *)
(* The system call protocol is Despacho's: here the CPU leaves a process   *)
(* when it sends its packet. Scheduling is stl_FIFO. An interface is taken *)
(* to answer after the kernel noted who uses it. What follows quiebre #    *)
(* "no" (the kernel used NULL, freed or uninitialized memory, unlocked     *)
(* another thread's mutex, changed cola_blocked from two threads at once,  *)
(* or goes on with a process that it ended) is not modelled.               *)
(***************************************************************************)
EXTENDS Integers, Sequences, FiniteSets, SequencesExt

CONSTANTS
    Procesos,        \* processes the console started
    Interfaces,      \* names of interfaces
    Tipo,            \* tipo_interfaz of each
    Ordenes,         \* I/O system calls that the program of each process may make
    Grado,           \* GRADO_MULTIPROGRAMACION
    Nulo,            \* NULL
    Basura,          \* memory that nobody initialized
    MaxOrdenes,      \* bound on the I/O system calls of a process
    Victimas,        \* processes that FINALIZAR_PROCESO may name
    Grados,          \* degrees that MULTIPROGRAMACION may ask for
    MaxIncidentes    \* bound on the console's commands and the disconnections

Hilos == {"dispatch", "planificador", "memoria", "consola"} \cup Interfaces
Nadie == Nulo

ASSUME InterfacesAssumption ==
    /\ IsFiniteSet(Procesos)
    /\ Tipo \in [Interfaces -> {"GENERICA", "STDIN", "STDOUT", "DIALFS"}]
    /\ Ordenes \in [Procesos -> SUBSET [forma : {"io", "fs", "truncar"}, tipo : {"GENERICA", "DIALFS"}, i : Interfaces]]
    /\ Grado \in Nat \ {0} /\ MaxOrdenes \in Nat
    /\ MaxIncidentes \in Nat /\ Grados \subseteq 1 .. 499
    /\ Victimas \subseteq Procesos /\ Nulo \notin Procesos /\ Basura \notin Procesos
    /\ Interfaces \cap {"dispatch", "planificador", "memoria", "consola", "ready", "blocked"} = {}
    /\ Nulo \notin Hilos /\ Nulo # Basura

VARIABLES
    colas,       \* lista_new, cola_ready, cola_blocked, cola_exec, cola_exit
    deMemoria,   \* INSTRUCCIONES_CARGADAS not yet received
    sem,         \* sem_cont_ready, sem_gm_actual, sem_CPU_libre; the degree asked for
    dueno,       \* owners of sem_q_ready, sem_q_blocked and each mutex_interfaz
    io,          \* datos_interfaz of each interface
    enviadas,    \* operations sent to each interface and not answered
    cpu,         \* the CPU and its dispatch sockets
    tareas,      \* what each thread has left to do
    restan,      \* I/O system calls that each process may still make
    incidentes,  \* commands and disconnections so far
    quiebre,     \* history: why the kernel's behaviour is no longer its own
    carreras     \* history: interfaces where IO_FS_TRUNCATE met the owner of the mutex

cuentas == <<restan, incidentes>>
historia == <<quiebre, carreras>>
vars == <<colas, deMemoria, sem, dueno, io, enviadas, cpu, tareas, cuentas, historia>>

-----------------------------------------------------------------------------
(* Operations and the C functions made of them.                            *)

Op(nombre, p, i) == [op |-> nombre, p |-> p, i |-> i, k |-> 0]
OpVeces(nombre, p, k) == [op |-> nombre, p |-> p, i |-> Nulo, k |-> k]

\* Where a queue has a process, and the queue without it: no queue has it twice.
Posicion(s, p) == CHOOSE n \in DOMAIN s : s[n] = p
Sin(s, p) == IF p \in ToSet(s) THEN RemoveAt(s, Posicion(s, p)) ELSE s

\* delete_queue_blocked: as many turns as there are entries.
Borrar(p) ==
    IF colas.blocked = <<>> THEN <<>> ELSE <<OpVeces("girar", p, Len(colas.blocked))>>

\* atender_*, once dictionary_get found interface o.i: the order of the steps is that
\* of each function.
Atender(p, o) ==
    IF Tipo[o.i] = o.tipo
      THEN CASE o.forma = "io"      -> <<Op("bloquear", p, o.i), Op("atender", p, o.i)>>
             [] o.forma = "fs"      -> <<Op("tomar", p, o.i), Op("bloquear", p, o.i), Op("atender", p, o.i)>>
             [] o.forma = "truncar" -> <<Op("bloquear", p, o.i), Op("mirar", p, o.i), Op("pasar", p, o.i)>>
      ELSE CASE o.forma = "io"      -> <<Op("ltsEx", p, Nulo), Op("soltar", p, o.i)>>
             [] o.forma = "fs"      -> <<Op("tomar", p, o.i), Op("ltsEx", p, Nulo), Op("soltar", p, o.i)>>
             [] o.forma = "truncar" -> <<Op("ltsEx", p, Nulo), Op("pasar", p, o.i)>>

-----------------------------------------------------------------------------
\* agregar_interfaz
Nueva == [esta |-> TRUE, libre |-> TRUE, usando |-> Basura, espera |-> <<>>]

\* The interfaces are connected and the console started every process; memoria
\* loaded their instructions.
Init ==
    /\ deMemoria = SetToSeq(Procesos)
    /\ colas = [new |-> deMemoria, ready |-> <<>>, blocked |-> <<>>, exec |-> <<>>, exit |-> <<>>]
    /\ sem = [ready |-> 0, gm |-> Grado, cpu |-> 1, grado |-> Grado]
    /\ dueno = [m \in {"ready", "blocked"} \cup Interfaces |-> Nadie]
    /\ io = [i \in Interfaces |-> Nueva]
    /\ enviadas = [i \in Interfaces |-> <<>>]
    /\ cpu = [pcb |-> Nulo, cortada |-> FALSE, aCpu |-> <<>>, aKernel |-> <<>>]
    /\ tareas = [h \in Hilos |-> <<>>]
    /\ restan = [p \in Procesos |-> MaxOrdenes]
    /\ incidentes = 0
    /\ quiebre = "no" /\ carreras = {}

Incidente == incidentes < MaxIncidentes /\ incidentes' = incidentes + 1
Vive == quiebre = "no"
Libre(h) == Vive /\ tareas[h] = <<>>
En(h, nombre) == Vive /\ tareas[h] # <<>> /\ Head(tareas[h]).op = nombre
Arg(h) == Head(tareas[h]).p
ArgI(h) == Head(tareas[h]).i
Cerrado(m) == dueno[m] # Nadie
\* Done with it; `mas` comes next.
Sigue(h, mas) == tareas' = [tareas EXCEPT ![h] = mas \o Tail(@)]
Empieza(h, ops) == tareas' = [tareas EXCEPT ![h] = ops]
Quiebra(causa) == quiebre' = causa /\ UNCHANGED tareas

\* dispatch is between its test of libre and what it does then, without the mutex.
EnCarrera(i) == (En("dispatch", "encolar") \/ En("dispatch", "ocupar")) /\ ArgI("dispatch") = i
Cruzar(i) == carreras' = IF EnCarrera(i) THEN carreras \cup {i} ELSE carreras

-----------------------------------------------------------------------------
(* Operations of any thread.                                               *)

\* cargar_ready: the push and the post. Whoever finds the process in between waits
\* for the unit that is coming.
CargarReady(h) ==
    /\ En(h, "cargarReady") /\ ~Cerrado("ready")
    /\ colas' = [colas EXCEPT !.ready = Append(@, Arg(h))]
    /\ sem' = [sem EXCEPT !.ready = @ + 1]
    /\ Sigue(h, <<>>)
    /\ UNCHANGED <<deMemoria, dueno, io, enviadas, cpu, cuentas, historia>>

\* lts_ex of a process that is not in NEW.
LtsEx(h) ==
    /\ En(h, "ltsEx")
    /\ sem' = [sem EXCEPT !.gm = @ + 1]
    /\ colas' = [colas EXCEPT !.exit = Append(@, Arg(h))]
    /\ Sigue(h, <<>>)
    /\ UNCHANGED <<deMemoria, dueno, io, enviadas, cpu, cuentas, historia>>

\* pthread_mutex_lock of mutex_interfaz.
Tomar(h) ==
    /\ En(h, "tomar") /\ ~Cerrado(ArgI(h))
    /\ dueno' = [dueno EXCEPT ![ArgI(h)] = h]
    /\ Cruzar(ArgI(h))
    /\ Sigue(h, <<>>)
    /\ UNCHANGED <<colas, deMemoria, sem, io, enviadas, cpu, cuentas, quiebre>>

\* The turns left after this one.
Resto(h) ==
    LET quedan == Head(tareas[h]).k - 1
    IN  IF quedan = 0 THEN <<>> ELSE <<[Head(tareas[h]) EXCEPT !.k = quedan]>>

\* One turn of the loops on cola_blocked: the head is popped; if it is not p's it is
\* pushed back, before the next turn. After an entry of p: hallada. A pop that meets
\* another thread's operation on the list is Chocar.
Girando(h, hallada) ==
    IF colas.blocked = <<>>
      THEN Quiebra("caida") /\ UNCHANGED colas
      ELSE LET e == Head(colas.blocked)
           IN  /\ colas' = [colas EXCEPT !.blocked = Tail(@)]
               /\ Sigue(h, IF e.p = Arg(h) THEN hallada
                           ELSE <<Op("reponer", e.p, e.i)>> \o Resto(h))
               /\ UNCHANGED quiebre

\* delete_queue_blocked, without sem_q_blocked. Mutant: any entry is dropped.
GirarSinReponer(h) ==
    /\ En(h, "girar")
    /\ IF colas.blocked = <<>> THEN Quiebra("caida") /\ UNCHANGED colas
       ELSE /\ colas' = [colas EXCEPT !.blocked = Tail(@)]
            /\ Sigue(h, <<>>) /\ UNCHANGED quiebre
    /\ UNCHANGED <<deMemoria, sem, dueno, io, enviadas, cpu, cuentas, carreras>>

Girar(h) ==
    /\ En(h, "girar")
    /\ Girando(h, Resto(h))
    /\ UNCHANGED <<deMemoria, sem, dueno, io, enviadas, cpu, cuentas, carreras>>

Reponer(h) ==
    /\ En(h, "reponer")
    /\ colas' = [colas EXCEPT !.blocked = Append(@, [p |-> Arg(h), i |-> ArgI(h)])]
    /\ Sigue(h, <<>>)
    /\ UNCHANGED <<deMemoria, sem, dueno, io, enviadas, cpu, cuentas, historia>>

\* The next thing that the thread does is a pop or a push of cola_blocked. The console
\* and add_queue_blocked have sem_q_blocked by then.
TocaBlocked(h) ==
    \/ En(h, "girar") \/ En(h, "reponer") \/ En(h, "buscarBlocked")
    \/ En(h, "bloquear") /\ ~Cerrado("blocked")

\* delete_queue_blocked has sem_q_blocked commented out, and queue_pop and queue_push are
\* nothing without it: when two of them overlap an entry is lost, is there twice, or is
\* used after it was freed. When they do not, they are Girar, Reponer, Bloquear and
\* BuscarBlocked. (queue_size is one read of a counter.)
Chocar(i) ==
    /\ TocaBlocked(i) /\ \E h \in Hilos \ {i} : TocaBlocked(h)
    /\ Quiebra("lista")
    /\ UNCHANGED <<colas, deMemoria, sem, dueno, io, enviadas, cpu, cuentas, carreras>>

Comun(h) == CargarReady(h) \/ LtsEx(h) \/ Tomar(h) \/ Girar(h) \/ Reponer(h)

-----------------------------------------------------------------------------
(* The dispatch receiver.                                                  *)

\* desalojar, and then the end of the process or its system call. The pop of a process
\* that is not the one of the packet ends what is modelled.
RecibirDispatch ==
    /\ Libre("dispatch") /\ cpu.aKernel # <<>>
    /\ LET p == Head(cpu.aKernel).p
           o == Head(cpu.aKernel).orden IN
        IF colas.exec = <<>> \/ Head(colas.exec) # p
          THEN Quiebra("zombi") /\ UNCHANGED <<colas, sem>>
          ELSE /\ Empieza("dispatch",
                          IF o = Nulo THEN <<Op("ltsEx", p, Nulo)>>
                          ELSE IF ~io[o.i].esta THEN <<Op("ltsEx", p, Nulo)>>
                          ELSE Atender(p, o))
               /\ colas' = [colas EXCEPT !.exec = Tail(@)]
               /\ sem' = [sem EXCEPT !.cpu = 1]
               /\ UNCHANGED quiebre
    /\ cpu' = [cpu EXCEPT !.aKernel = Tail(@)]
    /\ UNCHANGED <<deMemoria, dueno, io, enviadas, cuentas, carreras>>

\* add_queue_blocked
Bloquear ==
    /\ En("dispatch", "bloquear") /\ ~Cerrado("blocked")
    /\ colas' = [colas EXCEPT !.blocked = Append(@, [p |-> Arg("dispatch"), i |-> ArgI("dispatch")])]
    /\ Sigue("dispatch", <<>>)
    /\ UNCHANGED <<deMemoria, sem, dueno, io, enviadas, cpu, cuentas, historia>>

\* enviar_paquete_entre: what is sent to an interface that left is lost.
Enviar(p, i) == enviadas' = [enviadas EXCEPT ![i] = IF io[i].esta THEN Append(@, p) ELSE @]

\* The send, pcb_usando_interfaz and libre. Mutant: libre is not cleared.
OcuparSinMarcar(p, i) ==
    /\ Enviar(p, i)
    /\ io' = [io EXCEPT ![i].usando = p]

OcuparIO(p, i) ==
    /\ Enviar(p, i)
    /\ io' = [io EXCEPT ![i].usando = p, ![i].libre = FALSE]

\* queue_push on cola_blocked_interfaz. Mutant: at the front.
EncolarAlFrente(p, i) ==
    /\ io' = [io EXCEPT ![i].espera = <<p>> \o @]
    /\ UNCHANGED enviadas

EncolarIO(p, i) ==
    /\ io' = [io EXCEPT ![i].espera = Append(@, p)]
    /\ UNCHANGED enviadas

\* The locked section of atender_io_* and atender_fs_*, or what is left of it.
\* Mutant: who has to wait in the queue returns with the mutex taken.
AtenderIOSinSoltar ==
    /\ En("dispatch", "atender") /\ dueno[ArgI("dispatch")] \in {Nadie, "dispatch"}
    /\ LET i == ArgI("dispatch") IN
        /\ IF io[i].libre THEN OcuparIO(Arg("dispatch"), i) ELSE EncolarIO(Arg("dispatch"), i)
        /\ dueno' = [dueno EXCEPT ![i] = IF io[i].libre THEN Nadie ELSE "dispatch"]
    /\ Sigue("dispatch", <<>>)
    /\ UNCHANGED <<colas, deMemoria, sem, cpu, cuentas, historia>>

AtenderIO ==
    /\ En("dispatch", "atender") /\ dueno[ArgI("dispatch")] \in {Nadie, "dispatch"}
    /\ LET i == ArgI("dispatch") IN
        /\ IF io[i].libre THEN OcuparIO(Arg("dispatch"), i) ELSE EncolarIO(Arg("dispatch"), i)
        /\ dueno' = [dueno EXCEPT ![i] = Nadie]
    /\ Sigue("dispatch", <<>>)
    /\ UNCHANGED <<colas, deMemoria, sem, cpu, cuentas, historia>>

\* atender_fs_truncate reads libre and acts on it without the mutex, and then locks
\* and unlocks it.
Mirar ==
    /\ En("dispatch", "mirar")
    /\ LET i == ArgI("dispatch") IN
        /\ Sigue("dispatch", <<Op(IF io[i].libre THEN "ocupar" ELSE "encolar", Arg("dispatch"), i)>>)
        /\ carreras' = IF Cerrado(i) THEN carreras \cup {i} ELSE carreras
    /\ UNCHANGED <<colas, deMemoria, sem, dueno, io, enviadas, cpu, cuentas, quiebre>>

ActuarSinMutex ==
    /\ \/ En("dispatch", "ocupar") /\ OcuparIO(Arg("dispatch"), ArgI("dispatch"))
       \/ En("dispatch", "encolar") /\ EncolarIO(Arg("dispatch"), ArgI("dispatch"))
    /\ Sigue("dispatch", <<>>)
    /\ UNCHANGED <<colas, deMemoria, sem, dueno, cpu, cuentas, historia>>

Pasar ==
    /\ En("dispatch", "pasar") /\ ~Cerrado(ArgI("dispatch"))
    /\ Sigue("dispatch", <<>>)
    /\ UNCHANGED <<colas, deMemoria, sem, dueno, io, enviadas, cpu, cuentas, historia>>

\* pthread_mutex_unlock when the type was wrong: IO_GEN_SLEEP, IO_STDIN_READ and
\* IO_STDOUT_WRITE had not locked it.
SoltarRechazo ==
    /\ En("dispatch", "soltar")
    /\ LET i == ArgI("dispatch") IN
        IF dueno[i] \in {Nadie, "dispatch"}
          THEN /\ dueno' = [dueno EXCEPT ![i] = Nadie]
               /\ Sigue("dispatch", <<>>)
               /\ UNCHANGED quiebre
          ELSE Quiebra("ajeno") /\ UNCHANGED dueno
    /\ UNCHANGED <<colas, deMemoria, sem, io, enviadas, cpu, cuentas, carreras>>

Receptor ==
    \/ RecibirDispatch \/ Bloquear \/ AtenderIO \/ Mirar \/ ActuarSinMutex \/ Pasar
    \/ SoltarRechazo

-----------------------------------------------------------------------------
(* The thread of each interface, atender_cliente.                          *)

\* IO_INTERFAZ_CREADA: agregar_interfaz.
Conectar(i) ==
    /\ Libre(i) /\ ~io[i].esta
    /\ io' = [io EXCEPT ![i] = Nueva]
    /\ UNCHANGED <<colas, deMemoria, sem, dueno, enviadas, cpu, tareas, cuentas, historia>>

\* TERMINE_OPERACION: desocupar_io reads pcb_usando_interfaz->PID and takes the mutex.
DesocuparIO(i) ==
    /\ Libre(i) /\ enviadas[i] # <<>> /\ ~Cerrado(i)
    /\ enviadas' = [enviadas EXCEPT ![i] = Tail(@)]
    /\ IF io[i].usando \in Procesos
         THEN /\ dueno' = [dueno EXCEPT ![i] = i]
              /\ Empieza(i, Borrar(io[i].usando)
                            \o <<Op("cargarReady", io[i].usando, Nulo), Op("liberar", Nulo, i)>>)
              /\ UNCHANGED quiebre
         ELSE Quiebra("caida") /\ UNCHANGED dueno
    /\ Cruzar(i)
    /\ UNCHANGED <<colas, deMemoria, sem, io, cpu, cuentas>>

\* Its end. Between the two halves atender_fs_truncate may see the interface free.
Liberar(i) ==
    /\ En(i, "liberar")
    /\ io' = [io EXCEPT ![i].usando = Nulo, ![i].libre = TRUE]
    /\ Sigue(i, <<Op("siguiente", Nulo, i)>>)
    /\ UNCHANGED <<colas, deMemoria, sem, dueno, enviadas, cpu, cuentas, historia>>

\* Mutant: the next process is left in the queue.
SiguienteNinguno(i) ==
    /\ En(i, "siguiente")
    /\ dueno' = [dueno EXCEPT ![i] = Nadie]
    /\ Sigue(i, <<>>)
    /\ UNCHANGED <<colas, deMemoria, sem, io, enviadas, cpu, cuentas, historia>>

Siguiente(i) ==
    /\ En(i, "siguiente")
    /\ IF io[i].espera = <<>>
         THEN UNCHANGED <<io, enviadas>>
         ELSE LET p == Head(io[i].espera) IN
              /\ enviadas' = [enviadas EXCEPT ![i] = Append(@, p)]
              /\ io' = [io EXCEPT ![i].espera = Tail(@), ![i].usando = p, ![i].libre = FALSE]
    /\ dueno' = [dueno EXCEPT ![i] = Nadie]
    /\ Sigue(i, <<>>)
    /\ UNCHANGED <<colas, deMemoria, sem, cpu, cuentas, historia>>

\* The connection ends, with an operation in progress or not: desconectar_IO.
Desconectar(i) ==
    /\ Libre(i) /\ io[i].esta /\ Incidente
    /\ io' = [io EXCEPT ![i].esta = FALSE]
    /\ enviadas' = [enviadas EXCEPT ![i] = <<>>]
    /\ Empieza(i, <<Op("tomar", Nulo, i), Op("vaciar", Nulo, i)>>)
    /\ UNCHANGED <<colas, deMemoria, sem, dueno, cpu, restan, historia>>

Vaciar(i) ==
    /\ En(i, "vaciar") /\ io[i].espera # <<>>
    /\ LET p == Head(io[i].espera) IN
        /\ io' = [io EXCEPT ![i].espera = Tail(@)]
        /\ Sigue(i, Borrar(p) \o <<Op("ltsEx", p, Nulo), Op("vaciar", Nulo, i)>>)
    /\ UNCHANGED <<colas, deMemoria, sem, dueno, enviadas, cpu, cuentas, historia>>

\* free(datos_io): a thread that already had the pointer goes on with freed memory.
Free(i) ==
    /\ En(i, "vaciar") /\ io[i].espera = <<>>
    /\ dueno' = [dueno EXCEPT ![i] = Nadie]
    /\ IF \E h \in Hilos \ {i} : \E n \in DOMAIN tareas[h] :
              /\ tareas[h][n].i = i
              /\ tareas[h][n].op \in {"tomar", "atender", "mirar", "ocupar", "encolar", "pasar",
                                      "soltar", "sacarEspera"}
         THEN Quiebra("caida")
         ELSE Sigue(i, <<>>) /\ UNCHANGED quiebre
    /\ UNCHANGED <<colas, deMemoria, sem, io, enviadas, cpu, cuentas, carreras>>

HiloInterfaz(i) == DesocuparIO(i) \/ Liberar(i) \/ Siguiente(i) \/ Vaciar(i) \/ Free(i)

-----------------------------------------------------------------------------
(* Memoria's receiver (cargar_ready_por_pid), the planner and the CPU.     *)

\* The place of the degree of multiprogramming and the PCB out of lista_new. A process
\* that is not there any more keeps the place taken for it.
CargarReadyPorPid ==
    /\ Libre("memoria") /\ deMemoria # <<>> /\ sem.gm > 0
    /\ sem' = [sem EXCEPT !.gm = @ - 1]
    /\ deMemoria' = Tail(deMemoria)
    /\ LET p == Head(deMemoria) IN
        /\ colas' = [colas EXCEPT !.new = Sin(@, p)]
        /\ Empieza("memoria", IF p \in ToSet(colas.new) THEN <<Op("cargarReady", p, Nulo)>> ELSE <<>>)
    /\ UNCHANGED <<dueno, io, enviadas, cpu, cuentas, historia>>

EsperarReady ==
    /\ Libre("planificador") /\ sem.ready > 0
    /\ sem' = [sem EXCEPT !.ready = @ - 1]
    /\ Empieza("planificador", <<Op("sacarReady", Nulo, Nulo)>>)
    /\ UNCHANGED <<colas, deMemoria, dueno, io, enviadas, cpu, cuentas, historia>>

\* With the CPU free, the process goes to cola_exec and to the CPU, which reads it
\* when it is idle.
SacarReady ==
    /\ En("planificador", "sacarReady") /\ sem.cpu = 1 /\ ~Cerrado("ready")
    /\ IF colas.ready = <<>>
         THEN Quiebra("caida") /\ UNCHANGED <<colas, cpu>>
         ELSE /\ colas' = [colas EXCEPT !.ready = Tail(@), !.exec = Append(@, Head(colas.ready))]
              /\ cpu' = IF cpu.pcb = Nulo THEN [cpu EXCEPT !.pcb = Head(colas.ready)]
                        ELSE [cpu EXCEPT !.aCpu = Append(@, Head(colas.ready))]
              /\ Sigue("planificador", <<>>)
              /\ UNCHANGED quiebre
    /\ sem' = [sem EXCEPT !.cpu = 0]
    /\ UNCHANGED <<deMemoria, dueno, io, enviadas, cuentas, carreras>>

Planificador == EsperarReady \/ SacarReady

\* The CPU without its process, or with the next one it was sent.
Desocupada == IF cpu.aCpu = <<>> THEN [cpu EXCEPT !.pcb = Nulo]
              ELSE [cpu EXCEPT !.pcb = Head(cpu.aCpu), !.aCpu = Tail(cpu.aCpu)]

\* A system call, or the end of the program (orden = Nulo), which does not look at
\* the interrupt.
CpuPide ==
    /\ Vive /\ cpu.pcb # Nulo
    /\ \E o \in IF restan[cpu.pcb] = 0 THEN {Nulo} ELSE Ordenes[cpu.pcb] :
         /\ restan' = [restan EXCEPT ![cpu.pcb] = @ - (IF o = Nulo THEN 0 ELSE 1)]
         /\ cpu' = [Desocupada EXCEPT !.cortada = @ /\ o = Nulo,
                                      !.aKernel = Append(@, [p |-> cpu.pcb, orden |-> o])]
    /\ UNCHANGED <<colas, deMemoria, sem, dueno, io, enviadas, tareas, incidentes, historia>>

\* INTERRUMPIO_PROCESO with bool_interrupted_by_user: the kernel only drops it.
CpuCortada ==
    /\ Vive /\ cpu.pcb # Nulo /\ cpu.cortada
    /\ cpu' = [Desocupada EXCEPT !.cortada = FALSE]
    /\ UNCHANGED <<colas, deMemoria, sem, dueno, io, enviadas, tareas, cuentas, historia>>

-----------------------------------------------------------------------------
(* The console.                                                            *)

\* list_iterator_remove after the loop takes out the last element it passed.
SinUltimo(s) == IF s = <<>> THEN s ELSE Front(s)

\* FINALIZAR_PROCESO: buscar_pcb, lista_new first. If it is there its node is removed
\* from the list twice. READY, BLOCKED and EXEC follow.
FinalizarProceso(p) ==
    /\ Libre("consola") /\ Incidente
    /\ IF p \in ToSet(colas.new)
         THEN Quiebra("caida") /\ UNCHANGED colas
         ELSE /\ colas' = [colas EXCEPT !.new = SinUltimo(@)]
              /\ Empieza("consola", <<Op("buscarReady", p, Nulo), Op("buscarExec", p, Nulo)>>)
              /\ UNCHANGED quiebre
    /\ UNCHANGED <<deMemoria, sem, dueno, io, enviadas, cpu, restan, carreras>>

\* PROCESO_ESTADO: listar_procesos_por_estado is the search for nobody. lista_new is not
\* left as it was; cola_ready is, and nobody looks at it meanwhile.
ProcesoEstado ==
    /\ Libre("consola") /\ Incidente
    /\ colas' = [colas EXCEPT !.new = SinUltimo(@)]
    /\ Empieza("consola", <<Op("tomarBlocked", Nulo, Nulo), Op("buscarExec", Nulo, Nulo)>>)
    /\ UNCHANGED <<deMemoria, sem, dueno, io, enviadas, cpu, restan, historia>>

\* modificar_multiprogramacion compares with grado_multiprog, the degree of the
\* configuration, and takes places one by one as they are free.
Multiprogramar(n) ==
    /\ Libre("consola") /\ Incidente
    /\ IF n < Grado
         THEN /\ Empieza("consola", [k \in 1 .. Grado - n |-> Op("bajarGrado", Nulo, Nulo)])
              /\ sem' = [sem EXCEPT !.grado = n]
         ELSE /\ sem' = [sem EXCEPT !.gm = @ + n - Grado, !.grado = n]
              /\ UNCHANGED tareas
    /\ UNCHANGED <<colas, deMemoria, dueno, io, enviadas, cpu, restan, historia>>

BajarGrado ==
    /\ En("consola", "bajarGrado") /\ sem.gm > 0
    /\ sem' = [sem EXCEPT !.gm = @ - 1]
    /\ Sigue("consola", <<>>)
    /\ UNCHANGED <<colas, deMemoria, dueno, io, enviadas, cpu, cuentas, historia>>

\* cola_ready is turned until the process is found; then sem_wait(&sem_cont_ready)
\* with sem_q_ready held. The process is looked for in BLOCKED only if it was not.
BuscarReady ==
    /\ En("consola", "buscarReady") /\ ~Cerrado("ready")
    /\ LET p == Arg("consola")
           n == Posicion(colas.ready, p) IN
        IF p \notin ToSet(colas.ready)
          THEN /\ Sigue("consola", <<Op("tomarBlocked", p, Nulo)>>)
               /\ UNCHANGED <<colas, sem, dueno>>
          ELSE /\ colas' = [colas EXCEPT
                     !.ready = SubSeq(@, n + 1, Len(@)) \o SubSeq(@, 1, n - 1),
                     !.exit = Append(@, p)]
               /\ sem' = [sem EXCEPT !.gm = @ + 1]
               /\ dueno' = [dueno EXCEPT !["ready"] = "consola"]
               /\ Sigue("consola", <<Op("descontarReady", p, Nulo)>>)
    /\ UNCHANGED <<deMemoria, io, enviadas, cpu, cuentas, historia>>

\* Mutant: the counter is decremented without a wait.
DescontarReadySinEsperar ==
    /\ En("consola", "descontarReady")
    /\ sem' = [sem EXCEPT !.ready = @ - 1]
    /\ dueno' = [dueno EXCEPT !["ready"] = Nadie]
    /\ Sigue("consola", <<>>)
    /\ UNCHANGED <<colas, deMemoria, io, enviadas, cpu, cuentas, historia>>

DescontarReady ==
    /\ En("consola", "descontarReady") /\ sem.ready > 0
    /\ sem' = [sem EXCEPT !.ready = @ - 1]
    /\ dueno' = [dueno EXCEPT !["ready"] = Nadie]
    /\ Sigue("consola", <<>>)
    /\ UNCHANGED <<colas, deMemoria, io, enviadas, cpu, cuentas, historia>>

TomarBlocked ==
    /\ En("consola", "tomarBlocked") /\ ~Cerrado("blocked")
    /\ dueno' = [dueno EXCEPT !["blocked"] = "consola"]
    /\ Sigue("consola",
             (IF colas.blocked = <<>> THEN <<>>
              ELSE <<OpVeces("buscarBlocked", Arg("consola"), Len(colas.blocked))>>)
             \o <<Op("soltarBlocked", Nulo, Nulo)>>)
    /\ UNCHANGED <<colas, deMemoria, sem, io, enviadas, cpu, cuentas, historia>>

BuscarBlocked ==
    /\ En("consola", "buscarBlocked")
    /\ Girando("consola", LET e == Head(colas.blocked) IN
                          <<Op("sacarBloqueo", e.p, e.i), Op("ltsEx", e.p, Nulo)>>)
    /\ UNCHANGED <<deMemoria, sem, dueno, io, enviadas, cpu, cuentas, carreras>>

\* A process that a list, an interface or a thread has, beside the console that took its
\* entry out of cola_blocked.
EnOtraParte(p) ==
    \/ p \in ToSet(colas.new \o colas.ready \o colas.exec \o colas.exit)
    \/ \E i \in Interfaces :
          \/ p \in ToSet(io[i].espera)
          \/ io[i].esta /\ ~io[i].libre /\ io[i].usando = p
    \/ \E h \in Hilos \ {"consola"} : \E n \in DOMAIN tareas[h] :
          tareas[h][n].p = p /\ tareas[h][n].op \notin {"girar", "reponer", "soltar", "pasar"}

\* remove_cola_blocked_io. The process that uses the interface is made ready by
\* desocupar_io and then ended; the other ones leave the interface's queue. The PID
\* of an interface that was never used is garbage, and may be that of the process. If
\* the interface left, the process is ended wherever it is, and goes on unless its
\* operation was the one that was lost.
SacarBloqueo ==
    /\ En("consola", "sacarBloqueo")
    /\ LET p == Arg("consola")
           i == ArgI("consola") IN
       \/ /\ ~io[i].esta
          /\ quiebre' = IF EnOtraParte(p) THEN "zombi" ELSE quiebre
          /\ Sigue("consola", <<>>)
       \/ io[i].esta /\ io[i].usando \in {Nulo, Basura} /\ Quiebra("caida")
       \/ io[i].esta /\ io[i].usando = p /\ Quiebra("zombi")
       \/ /\ io[i].esta /\ io[i].usando \notin {p, Nulo}
          /\ Sigue("consola", <<Op("sacarEspera", p, i)>>)
          /\ UNCHANGED quiebre
    /\ UNCHANGED <<colas, deMemoria, sem, dueno, io, enviadas, cpu, cuentas, carreras>>

\* A process that is not there has yet to be put there by atender_*, or left it with
\* its entry of cola_blocked still there. Mutant: it stays in the queue.
SacarEsperaNadie ==
    /\ En("consola", "sacarEspera") /\ ~Cerrado(ArgI("consola"))
    /\ Sigue("consola", <<>>)
    /\ UNCHANGED <<colas, deMemoria, sem, dueno, io, enviadas, cpu, cuentas, historia>>

SacarEspera ==
    /\ En("consola", "sacarEspera") /\ ~Cerrado(ArgI("consola"))
    /\ LET p == Arg("consola") IN
        /\ io' = [io EXCEPT ![ArgI("consola")].espera = Sin(@, p)]
        /\ quiebre' = IF p \in ToSet(io[ArgI("consola")].espera) THEN quiebre ELSE "zombi"
    /\ Cruzar(ArgI("consola"))
    /\ Sigue("consola", <<>>)
    /\ UNCHANGED <<colas, deMemoria, sem, dueno, enviadas, cpu, cuentas>>

SoltarBlocked ==
    /\ En("consola", "soltarBlocked")
    /\ dueno' = [dueno EXCEPT !["blocked"] = Nadie]
    /\ Sigue("consola", <<>>)
    /\ UNCHANGED <<colas, deMemoria, sem, io, enviadas, cpu, cuentas, historia>>

\* The process in EXEC: interrupted, ended, and the CPU is free for another.
BuscarExec ==
    /\ En("consola", "buscarExec")
    /\ IF colas.exec # <<>> /\ Head(colas.exec) = Arg("consola")
         THEN /\ colas' = [colas EXCEPT !.exec = Tail(@), !.exit = Append(@, Arg("consola"))]
              /\ sem' = [sem EXCEPT !.gm = @ + 1, !.cpu = 1]
              /\ cpu' = [cpu EXCEPT !.cortada = TRUE]
         ELSE UNCHANGED <<colas, sem, cpu>>
    /\ Sigue("consola", <<>>)
    /\ UNCHANGED <<deMemoria, dueno, io, enviadas, cuentas, historia>>

Buscar ==
    \/ BuscarReady \/ DescontarReady \/ TomarBlocked \/ BuscarBlocked \/ SacarBloqueo
    \/ SacarEspera \/ SoltarBlocked \/ BuscarExec \/ BajarGrado

-----------------------------------------------------------------------------
\* Threads, programs and the interfaces' answers.
Avanza ==
    \/ CpuPide \/ CpuCortada
    \/ \E h \in Hilos : Comun(h)
    \/ \E i \in Interfaces : HiloInterfaz(i) \/ Chocar(i)
    \/ Receptor \/ CargarReadyPorPid \/ Planificador \/ Buscar

\* What nobody has to do: connect or disconnect an interface, give a command.
Entorno ==
    \/ \E i \in Interfaces : Conectar(i) \/ Desconectar(i)
    \/ (\E p \in Victimas : FinalizarProceso(p)) \/ ProcesoEstado
    \/ \E n \in Grados : Multiprogramar(n)

Next == Avanza \/ Entorno

\* The system does not stop while a thread can go on, a program reaches its next
\* system call or its end, and an interface ends each operation. MaxOrdenes and
\* MaxIncidentes leave every thread a finite number of steps, so fairness to each
\* thread would say no more.
Fairness == WF_vars(Avanza)

Spec == Init /\ [][Next]_vars /\ Fairness

-----------------------------------------------------------------------------
(* Properties                                                              *)

Entrada == [p : Procesos, i : Interfaces]

TypeOK ==
    /\ colas.new \in Seq(Procesos) /\ colas.ready \in Seq(Procesos)
    /\ colas.exec \in Seq(Procesos) /\ colas.exit \in Seq(Procesos)
    /\ colas.blocked \in Seq(Entrada)
    /\ sem.ready \in Nat /\ sem.gm \in Nat /\ sem.grado \in Nat /\ sem.cpu \in {0, 1}
    /\ \A m \in DOMAIN dueno : dueno[m] \in Hilos \cup {Nadie}
    /\ \A i \in Interfaces :
         /\ io[i].usando \in Procesos \cup {Nulo, Basura}
         /\ io[i].espera \in Seq(Procesos) /\ enviadas[i] \in Seq(Procesos)
    /\ cpu.pcb \in Procesos \cup {Nulo}
    /\ quiebre \in {"no", "caida", "ajeno", "zombi", "lista"}

\* Nobody is changing the interface, and IO_FS_TRUNCATE never did while another thread
\* was.
Quieta(i) ==
    /\ Vive /\ io[i].esta /\ ~Cerrado(i) /\ i \notin carreras
    /\ ~EnCarrera(i)

\* An interface works for one process at a time: it has been sent one operation, of
\* the process that pcb_usando_interfaz names, if and only if it is not libre. So
\* each TERMINE_OPERACION makes ready the process that asked for it.
UnaPorVez ==
    \A i \in Interfaces : Quieta(i) =>
        enviadas[i] = IF io[i].libre THEN <<>> ELSE <<io[i].usando>>

\* No process waits for an interface that is free: nobody would wake it.
NadieEsperaLibre ==
    \A i \in Interfaces : Quieta(i) /\ io[i].libre => io[i].espera = <<>>

\* The processes at an interface that is connected.
EnInterfaz(i) ==
    IF ~io[i].esta THEN {}
    ELSE ToSet(io[i].espera) \cup IF io[i].libre THEN {} ELSE {io[i].usando}

\* A process that waits for an interface or uses it has its entry in cola_blocked,
\* where FINALIZAR_PROCESO looks for it, or in the hands of a thread that turns the
\* queue; unless it is the one the console took out. The interfaces' threads take
\* turns without sem_q_blocked: it holds as long as no pop or push of theirs overlaps
\* one of another thread (quiebre = "lista"), however the turns are interleaved.
EntradaPresente ==
    \A i \in Interfaces : Quieta(i) =>
        \A p \in EnInterfaz(i) :
            \/ [p |-> p, i |-> i] \in ToSet(colas.blocked)
            \/ \E h \in Hilos : \E n \in DOMAIN tareas[h] :
                  /\ tareas[h][n].op \in {"reponer", "sacarBloqueo", "sacarEspera"}
                  /\ tareas[h][n].p = p

\* A process is in one place only, and once: a list of the planner or an interface.
\* In particular a process that ended is in no queue.
UnSoloLugar ==
    Vive /\ (\A i \in Interfaces : ~Cerrado(i)) =>
        LET s == colas.new \o colas.ready \o colas.exec \o colas.exit
            deIO == [i \in Interfaces |-> EnInterfaz(i)] IN
        /\ IsInjective(s)
        /\ \A i \in Interfaces : IsInjective(io[i].espera) /\ ToSet(s) \cap deIO[i] = {}
        /\ \A i, j \in Interfaces : i # j => deIO[i] \cap deIO[j] = {}

\* The places of the degree of multiprogramming: each process that came from memoria
\* and did not end has one, also those that were lost from lista_new, lts_ex gives
\* each back once, whichever thread ends the process, and MULTIPROGRAMACION leaves as
\* many as it was asked for when it has taken those it has to wait for (the first
\* time: the comparison is always with the degree of the configuration).
PorBajar == Cardinality({n \in DOMAIN tareas["consola"] : tareas["consola"][n].op = "bajarGrado"})

PlazasExactas ==
    Vive => sem.gm + Cardinality(Procesos \ (ToSet(deMemoria) \cup ToSet(colas.exit)))
            = sem.grado + PorBajar

\* FINALIZAR_PROCESO blocks the console (and what it holds, the others) in two ways
\* only: a READY process whose unit of sem_cont_ready the planner already took, and
\* a BLOCKED process whose interface dispatch holds while it waits for cola_blocked.
Atasco ==
    \/ En("consola", "descontarReady") /\ sem.ready = 0
    \/ /\ En("consola", "sacarEspera") /\ En("dispatch", "bloquear")
       /\ dueno[ArgI("consola")] = "dispatch"

\* Nobody waits for ever: commands, system calls and the interfaces' threads end, every
\* operation of an interface ends, and each process leaves the interfaces, ready or
\* ended. But for those two ways, IO_FS_TRUNCATE queuing a process while the interface
\* was being freed, and the process that uses an interface when it disconnects.
NadieEsperaSiempre ==
    <>[](\/ Atasco \/ ~Vive
         \/ /\ \A h \in Hilos : tareas[h] = <<>>
            /\ \A i \in Interfaces : EnInterfaz(i) = {} \/ i \in carreras)
-----------------------------------------------------------------------------
(* Interfaces implements Servidor.                                         *)

Perdidos == IF Vive THEN carreras ELSE Interfaces

\* desocupar_io read who used the interface and has still to free it: the operation is
\* over, and its process may be at another interface by then.
Terminada(i) == tareas[i] # <<>> /\ Last(tareas[i]).op = "liberar"

\* The process that uses the interface, and those that wait for it.
ColaDe(i) ==
    IF i \in Perdidos \/ ~io[i].esta THEN <<>>
    ELSE (IF io[i].libre \/ Terminada(i) THEN <<>> ELSE <<io[i].usando>>) \o io[i].espera

S == INSTANCE Servidor WITH
    Clientes <- Procesos,
    Servidores <- Interfaces,
    cola <- [i \in Interfaces |-> ColaDe(i)],
    abiertos <- {i \in Interfaces : io[i].esta},
    perdidos <- Perdidos

\* The interfaces serve processes in the order of their system calls, one after the
\* other: who waits is not overtaken, nor forgotten, by what TERMINE_OPERACION, kills
\* and disconnections do, and is at one interface only; until IO_FS_TRUNCATE meets
\* the owner of the mutex.
AtiendeEnOrden == S!Spec
=============================================================================
