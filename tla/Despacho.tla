------------------------------ MODULE Despacho ------------------------------
(***************************************************************************)
(* The dispatch protocol: the kernel's scheduler and receivers             *)
(* (kernel/src/planificacion.c, espera.c, recursos.c), the CPU's fetch and *)
(* execute loop with its interrupt thread (cpu/src/main.c), and the        *)
(* sockets between them, which are FIFO.                                   *)
(*                                                                         *)
(* A kernel thread is the sequence of atomic operations it still has to    *)
(* do: one operation per critical section, semaphore operation, flag write *)
(* or send, in the order of the C statements.  A C function is the         *)
(* sequence of its operations, so calling it is putting that sequence in   *)
(* front of what the thread has left, and any two threads interleave       *)
(* between any two operations.                                             *)
(***************************************************************************)
EXTENDS Integers, Sequences, FiniteSets, SequencesExt

CONSTANTS
    NProcesos,    \* how many INICIAR_PROCESO the console gives
    Programas,    \* what their files may hold: a set of instruction sequences
    Algoritmos,   \* values of ALGORITMO_PLANIFICACION
    Grado,        \* GRADO_MULTIPROGRAMACION
    Quantum,      \* QUANTUM, in abstract units
    Nombres,      \* RECURSOS
    Inicial,      \* INSTANCIAS_RECURSOS
    Nulo,         \* NULL
    MaxDetener,   \* bound on DETENER_PLANIFICACION commands
    AvisoATiempo, \* the interrupt of a system call reaches the CPU before its check
    AltaATiempo   \* memoria answers CREAR_PROCESO after the PCB is in lista_new

Procesos == 0..(NProcesos - 1)
Hilos == {"planificacion", "quantum", "dispatch", "memoria", "consola", "io"}
\* The instructions that the kernel gets to see, with the resource or the interface,
\* and the others.
Instrucciones == {<<"CPU">>, <<"RESIZE">>} \cup ({"WAIT", "SIGNAL", "IO"} \X STRING)

ASSUME DespachoAssumption ==
    /\ NProcesos \in Nat \ {0}
    /\ Programas \subseteq Seq(Instrucciones)
    /\ Algoritmos \subseteq {"FIFO", "RR", "VRR"}
    /\ Grado \in Nat \ {0}
    /\ Quantum \in Nat \ {0}
    /\ Inicial \in [Nombres -> Nat]
    /\ MaxDetener \in Nat
    /\ AvisoATiempo \in BOOLEAN
    /\ AltaATiempo \in BOOLEAN
    /\ Nulo \notin [pid : Procesos, pc : Nat, q : Nat]

VARIABLES
    algoritmo, programa,      \* configuration, fixed
    colas,                    \* lista_new, cola_ready, cola_ready_priori, ...
    sem,                      \* sem_cont_ready, sem_gm_actual, sem_recibir_exec, sem_CPU_libre
    marcas,                   \* which of bool_error_memoria, bool_syscall, bool_interrumpi are true
    activa, detenciones,      \* planificacion_activa; how often it was stopped
    PID,                      \* next pid
    instancias, colaRec, rec, \* recursos.c
    tareas,                   \* what each kernel thread has left to do
    hilo,                     \* hilo_quantum names a thread: one was created
    caida,                    \* the kernel dereferenced NULL
    red,                      \* packets in flight
    cpu                       \* the CPU: loop state, PCB, the flag interrupcion

config == <<algoritmo, programa>>
consola == <<activa, detenciones, PID>>
recursos == <<instancias, colaRec, rec>>
vars == <<algoritmo, programa, colas, sem, marcas, activa, detenciones, PID,
          instancias, colaRec, rec, tareas, hilo, caida, red, cpu>>

Preemptivo == algoritmo \in {"RR", "VRR"}

\* The resource manager's own operators, over the pids in its queues.
R == INSTANCE Recursos WITH
       HilosIO <- {}, Sueltos <- {}, Nadie <- Nulo, Tope <- 0,
       cola <- [r \in Nombres |-> [i \in DOMAIN colaRec[r] |-> colaRec[r][i].pid]],
       estado <- <<>>, fin <- <<>>, porSoltar <- <<>>

-----------------------------------------------------------------------------
(* Operations and the C functions made of them.                            *)

Pcb(p, pc, q) == [pid |-> p, pc |-> pc, q |-> q]
PcbNuevo(p) == Pcb(p, 1, Quantum)  \* crear_PCB; pc counts from 1

Op(nombre, pcb) == [op |-> nombre, pcb |-> pcb, r |-> Nulo]
OpRec(nombre, pcb, r) == [op |-> nombre, pcb |-> pcb, r |-> r]
Simple(nombre) == Op(nombre, Nulo)

\* Mutants: the semaphore is raised before the push, or not at all.
CargarReadyAlReves(pcb) == <<Simple("postReady"), Op("pushReady", pcb)>>
CargarReadySinPost(pcb) == <<Op("pushReady", pcb)>>

CargarReady(pcb) == <<Op("pushReady", pcb), Simple("postReady")>>
CargarReadyPriori(pcb) == <<Op("pushPriori", pcb), Simple("postReady")>>
\* A process that stops waiting goes to the priority queue under VRR.
Desbloquear(pcb) == IF algoritmo = "VRR" THEN CargarReadyPriori(pcb) ELSE CargarReady(pcb)

Interrumpir(marca) == <<OpRec("marcar", Nulo, marca), Simple("interrumpir")>>

\* Mutant: the CPU is not given back.
DesalojarSinLiberar(pcb) == <<Simple("desalojarExec")>>

Desalojar(pcb) ==
    (IF Preemptivo THEN <<Simple("cancelarQuantum")>> ELSE <<>>)
    \o (IF algoritmo = "VRR" THEN <<Op("modificarQuantum", pcb)>> ELSE <<>>)
    \o <<Simple("desalojarExec"), Simple("liberarCPU")>>

\* Mutant: a place is given back for a process that never had one.
LtsExConPostSiempre(pcb, anterior) ==
    <<Simple("postGM"), Op("devolverRecursos", pcb), Op("pushExit", pcb)>>

\* lts_ex; the FINALIZAR_PROCESO it sends last is not answered and is left out.
LtsEx(pcb, anterior) ==
    (IF anterior # "NEW" THEN <<Simple("postGM")>> ELSE <<>>)
    \o <<Op("devolverRecursos", pcb), Op("pushExit", pcb)>>

\* Mutant: VRR does not look at cola_ready_priori.
TurnoSinMirar == <<Simple("esperarReady"), Simple("tomarCPU"), Simple("sacarReady")>>

\* One turn of stl_FIFO, stl_RR or stl_VRR, up to taking a process out.
Turno ==
    <<Simple("esperarReady"), Simple("tomarCPU"),
      Simple(IF algoritmo = "VRR" THEN "mirarPriori" ELSE "sacarReady")>>

\* What the planner does with the process it took out.
EjecutarConQuantum(pcb) ==
    <<Op("pushExec", pcb), Op("enviarExec", pcb), Simple("esperarConfirmacion"),
      Op("crearQuantum", pcb), Simple("unirQuantum")>>
\* Mutant: the recharged process goes back to ready without a post.
RecargarSinPost(pcb) ==
    <<Op("pushExec", pcb), Op("pushReady", [pcb EXCEPT !.q = Quantum]),
      Simple("popExec"), Simple("liberarCPU")>>
\* Mutant: it stays in cola_exec as well.
RecargarSinPop(pcb) ==
    <<Op("pushExec", pcb), Op("pushReady", [pcb EXCEPT !.q = Quantum]),
      Simple("postReady"), Simple("liberarCPU")>>
Recargar(pcb) ==
    <<Op("pushExec", pcb), Op("pushReady", [pcb EXCEPT !.q = Quantum]),
      Simple("popExec"), Simple("postReady"), Simple("liberarCPU")>>
Ejecutar(pcb) ==
    CASE algoritmo = "FIFO" -> <<Op("pushExec", pcb), Op("enviarExec", pcb)>>
      [] algoritmo = "RR"   -> EjecutarConQuantum([pcb EXCEPT !.q = Quantum])
      [] algoritmo = "VRR"  -> IF pcb.q <= 0 THEN Recargar(pcb) ELSE EjecutarConQuantum(pcb)

\* A granted WAIT and every SIGNAL send the process back; mutant: nothing is sent.
DevolverNada(pcb) == <<>>
DevolverACpu(pcb) == <<Op("enviarExec", pcb)>>

\* esperar_paquetes_cpu_dispatch: what each packet makes the thread do.
Atender(m) ==
    CASE m.op = "CONFIRMAR_EXEC" -> <<Simple("postConfirmacion")>>
      [] m.op = "INTERRUMPIO_PROCESO" -> <<Op("elegirMotivo", m.pcb)>>
      [] m.op = "ERROR_OUT_OF_MEMORY" ->
            Interrumpir("error_memoria") \o <<Simple("confirmar")>> \o Desalojar(Nulo)
      [] m.op = "WAIT" ->
            Interrumpir("syscall") \o <<Simple("confirmar"), OpRec("wait", m.pcb, m.r)>>
      [] m.op = "SIGNAL" -> <<OpRec("signal", m.pcb, m.r)>>
      [] m.op = "TERMINO_EJECUCION" -> Desalojar(m.pcb) \o LtsEx(m.pcb, "EXEC")
      [] m.op = "IO" ->
            <<Simple("confirmar")>> \o Interrumpir("syscall") \o Desalojar(m.pcb)
            \o <<Op("ocuparIO", m.pcb)>>

-----------------------------------------------------------------------------
Init ==
    /\ algoritmo \in Algoritmos
    /\ programa \in [Procesos -> Programas]
    /\ colas = [new |-> {}, ready |-> <<>>, priori |-> <<>>, exec |-> <<>>,
                exit |-> <<>>, io |-> {}]
    /\ sem = [ready |-> 0, gm |-> Grado, exec |-> 0, cpu |-> 1]
    /\ marcas = {}
    /\ activa = TRUE /\ detenciones = 0 /\ PID = 0
    /\ instancias = Inicial
    /\ colaRec = [r \in Nombres |-> <<>>]
    /\ rec = [p \in Procesos |-> R!ListaVacia]
    /\ tareas = [h \in Hilos |-> <<>>]
    /\ hilo = FALSE /\ caida = FALSE
    /\ red = [aCpu |-> <<>>, aKernel |-> <<>>, interr |-> 0, aMemoria |-> <<>>,
              deMemoria |-> <<>>]
    /\ cpu = [st |-> "espera", pcb |-> Nulo, sys |-> FALSE, interrupcion |-> FALSE]

\* The thread h is at the operation `nombre`.
En(h, nombre) == ~caida /\ tareas[h] # <<>> /\ Head(tareas[h]).op = nombre
Libre(h) == ~caida /\ tareas[h] = <<>>
Arg(h) == Head(tareas[h]).pcb
ArgR(h) == Head(tareas[h]).r
\* Done with it; `mas` comes next.
Sigue(h, mas) == tareas' = [tareas EXCEPT ![h] = mas \o Tail(@)]
\* A NULL dereference ends the kernel.
Cae == caida' = TRUE /\ UNCHANGED <<tareas, colas>>

-----------------------------------------------------------------------------
(* Operations of any kernel thread.                                        *)

PushReady(h) ==
    /\ En(h, "pushReady")
    /\ colas' = [colas EXCEPT !.ready = Append(@, Arg(h))]
    /\ Sigue(h, <<>>)
    /\ UNCHANGED <<config, hilo, sem, marcas, consola, recursos, caida, red, cpu>>

PushPriori(h) ==
    /\ En(h, "pushPriori")
    /\ colas' = [colas EXCEPT !.priori = Append(@, Arg(h))]
    /\ Sigue(h, <<>>)
    /\ UNCHANGED <<config, hilo, sem, marcas, consola, recursos, caida, red, cpu>>

PostReady(h) ==
    /\ En(h, "postReady")
    /\ sem' = [sem EXCEPT !.ready = @ + 1]
    /\ Sigue(h, <<>>)
    /\ UNCHANGED <<config, hilo, colas, marcas, consola, recursos, caida, red, cpu>>

\* pthread_mutex_unlock(&sem_CPU_libre)
LiberarCPU(h) ==
    /\ En(h, "liberarCPU")
    /\ sem' = [sem EXCEPT !.cpu = 1]
    /\ Sigue(h, <<>>)
    /\ UNCHANGED <<config, hilo, colas, marcas, consola, recursos, caida, red, cpu>>

EnviarExec(h) ==
    /\ En(h, "enviarExec")
    /\ red' = [red EXCEPT !.aCpu = Append(@, Op("EXEC_PROCESO", Arg(h)))]
    /\ Sigue(h, <<>>)
    /\ UNCHANGED <<config, hilo, colas, sem, marcas, consola, recursos, caida, cpu>>

\* interrumpir: one of the flags, and then the packet to the interrupt socket.
Marcar(h) ==
    /\ En(h, "marcar")
    /\ marcas' = marcas \cup {ArgR(h)}
    /\ Sigue(h, <<>>)
    /\ UNCHANGED <<config, hilo, colas, sem, consola, recursos, caida, red, cpu>>

EnviarInterrupcion(h) ==
    /\ En(h, "interrumpir")
    /\ red' = [red EXCEPT !.interr = @ + 1]
    /\ Sigue(h, <<>>)
    /\ UNCHANGED <<config, hilo, colas, sem, marcas, consola, recursos, caida, cpu>>

\* lts_ex: a place in the multiprogramming degree, the resources, cola_exit.
PostGM(h) ==
    /\ En(h, "postGM")
    /\ sem' = [sem EXCEPT !.gm = @ + 1]
    /\ Sigue(h, <<>>)
    /\ UNCHANGED <<config, hilo, colas, marcas, consola, recursos, caida, red, cpu>>

\* modificar_fin_proc_dic_rec: recorrer_liberar_rec has one signal_por_fin to call for
\* each instance on the list, whatever the order of the list.
DevolverRecursos(h) ==
    /\ En(h, "devolverRecursos")
    /\ IF Arg(h) = Nulo
         THEN Cae
         ELSE /\ Sigue(h, <<OpRec("recorrer", Arg(h), R!Liberaciones(rec[Arg(h).pid]))>>)
              /\ UNCHANGED <<colas, caida>>
    /\ UNCHANGED <<config, hilo, sem, marcas, consola, recursos, red, cpu>>

\* signal_por_fin and the first half of atender_signal: one instance more, and
\* the process at the head of the queue is woken if the balance allows it.
Sumar(h, r, resto) ==
    /\ instancias' = [instancias EXCEPT ![r] = @ + 1]
    /\ IF R!Despierta(r)
         THEN /\ colaRec' = [colaRec EXCEPT ![r] = Tail(@)]
              /\ Sigue(h, Desbloquear(Head(colaRec[r])) \o resto)
         ELSE /\ Sigue(h, resto)
              /\ UNCHANGED colaRec

SignalPorFin(h) ==
    /\ En(h, "recorrer")
    /\ \E r \in Nombres :
         /\ ArgR(h)[r] > 0
         /\ Sumar(h, r, <<[Head(tareas[h]) EXCEPT !.r[r] = @ - 1]>>)
    /\ UNCHANGED <<config, hilo, colas, sem, marcas, consola, rec, caida, red, cpu>>

\* The list is destroyed after that.
DestruirLista(h) ==
    /\ En(h, "recorrer")
    /\ \A r \in Nombres : ArgR(h)[r] = 0
    /\ rec' = [rec EXCEPT ![Arg(h).pid] = R!ListaVacia]
    /\ Sigue(h, <<>>)
    /\ UNCHANGED <<config, hilo, colas, sem, marcas, consola, instancias, colaRec, caida, red, cpu>>

PushExit(h) ==
    /\ En(h, "pushExit")
    /\ colas' = [colas EXCEPT !.exit = Append(@, Arg(h).pid)]
    /\ Sigue(h, <<>>)
    /\ UNCHANGED <<config, hilo, sem, marcas, consola, recursos, caida, red, cpu>>

Comun(h) ==
    \/ PushReady(h) \/ PushPriori(h) \/ PostReady(h) \/ LiberarCPU(h) \/ EnviarExec(h)
    \/ Marcar(h) \/ EnviarInterrupcion(h) \/ PostGM(h) \/ DevolverRecursos(h)
    \/ SignalPorFin(h) \/ DestruirLista(h) \/ PushExit(h)

-----------------------------------------------------------------------------
(* The planner, stl_FIFO, stl_RR and stl_VRR.                              *)

\* The top of the loop: it goes on only while planificacion_activa.
EmpezarTurno ==
    /\ Libre("planificacion")
    /\ activa
    /\ tareas' = [tareas EXCEPT !["planificacion"] = Turno]
    /\ UNCHANGED <<config, hilo, colas, sem, marcas, consola, recursos, caida, red, cpu>>

\* Mutants: the semaphore, and the mutex of the CPU, are not waited for.
EsperarReadySinEsperar ==
    /\ En("planificacion", "esperarReady")
    /\ sem' = [sem EXCEPT !.ready = @ - 1]
    /\ Sigue("planificacion", <<>>)
    /\ UNCHANGED <<config, hilo, colas, marcas, consola, recursos, caida, red, cpu>>

TomarCPUSinEsperar ==
    /\ En("planificacion", "tomarCPU")
    /\ sem' = [sem EXCEPT !.cpu = 0]
    /\ Sigue("planificacion", <<>>)
    /\ UNCHANGED <<config, hilo, colas, marcas, consola, recursos, caida, red, cpu>>

EsperarReady ==
    /\ En("planificacion", "esperarReady")
    /\ sem.ready > 0
    /\ sem' = [sem EXCEPT !.ready = @ - 1]
    /\ Sigue("planificacion", <<>>)
    /\ UNCHANGED <<config, hilo, colas, marcas, consola, recursos, caida, red, cpu>>

TomarCPU ==
    /\ En("planificacion", "tomarCPU")
    /\ sem.cpu = 1
    /\ sem' = [sem EXCEPT !.cpu = 0]
    /\ Sigue("planificacion", <<>>)
    /\ UNCHANGED <<config, hilo, colas, marcas, consola, recursos, caida, red, cpu>>

MirarPriori ==
    /\ En("planificacion", "mirarPriori")
    /\ Sigue("planificacion",
             <<Simple(IF colas.priori # <<>> THEN "sacarPriori" ELSE "sacarReady")>>)
    /\ UNCHANGED <<config, hilo, colas, sem, marcas, consola, recursos, caida, red, cpu>>

\* queue_pop of an empty queue is NULL, and the next line writes to it.
SacarReady ==
    /\ En("planificacion", "sacarReady")
    /\ IF colas.ready = <<>>
         THEN Cae
         ELSE /\ colas' = [colas EXCEPT !.ready = Tail(@)]
              /\ Sigue("planificacion", Ejecutar(Head(colas.ready)))
              /\ UNCHANGED caida
    /\ UNCHANGED <<config, hilo, sem, marcas, consola, recursos, red, cpu>>

SacarPriori ==
    /\ En("planificacion", "sacarPriori")
    /\ IF colas.priori = <<>>
         THEN Cae
         ELSE /\ colas' = [colas EXCEPT !.priori = Tail(@)]
              /\ Sigue("planificacion", Ejecutar(Head(colas.priori)))
              /\ UNCHANGED caida
    /\ UNCHANGED <<config, hilo, sem, marcas, consola, recursos, red, cpu>>

PushExec ==
    /\ En("planificacion", "pushExec")
    /\ colas' = [colas EXCEPT !.exec = Append(@, Arg("planificacion").pid)]
    /\ Sigue("planificacion", <<>>)
    /\ UNCHANGED <<config, hilo, sem, marcas, consola, recursos, caida, red, cpu>>

\* stl_VRR takes the process it recharged out of cola_exec again.
PopExec ==
    /\ En("planificacion", "popExec")
    /\ colas' = [colas EXCEPT !.exec = IF @ = <<>> THEN @ ELSE Tail(@)]
    /\ Sigue("planificacion", <<>>)
    /\ UNCHANGED <<config, hilo, sem, marcas, consola, recursos, caida, red, cpu>>

EsperarConfirmacion ==
    /\ En("planificacion", "esperarConfirmacion")
    /\ sem.exec > 0
    /\ sem' = [sem EXCEPT !.exec = @ - 1]
    /\ Sigue("planificacion", <<>>)
    /\ UNCHANGED <<config, hilo, colas, marcas, consola, recursos, caida, red, cpu>>

CrearQuantum ==
    /\ En("planificacion", "crearQuantum")
    /\ tareas' = [tareas EXCEPT
           !["planificacion"] = Tail(@),
           !["quantum"] = <<Op("dormir", Arg("planificacion"))>> \o Interrumpir("interrumpi")]
    /\ hilo' = TRUE
    /\ UNCHANGED <<config, colas, sem, marcas, consola, recursos, caida, red, cpu>>

UnirQuantum ==
    /\ En("planificacion", "unirQuantum")
    /\ tareas["quantum"] = <<>>
    /\ Sigue("planificacion", <<>>)
    /\ UNCHANGED <<config, hilo, colas, sem, marcas, consola, recursos, caida, red, cpu>>

\* manejar_quantum: usleep ends.
Despertar ==
    /\ En("quantum", "dormir")
    /\ Sigue("quantum", <<>>)
    /\ UNCHANGED <<config, hilo, colas, sem, marcas, consola, recursos, caida, red, cpu>>

Planificador ==
    \/ EmpezarTurno \/ EsperarReady \/ TomarCPU \/ MirarPriori \/ SacarReady \/ SacarPriori
    \/ PushExec \/ PopExec \/ EsperarConfirmacion \/ CrearQuantum \/ UnirQuantum

-----------------------------------------------------------------------------
(* The dispatch receiver, esperar_paquetes_cpu_dispatch.                   *)

RecibirDispatch ==
    /\ Libre("dispatch")
    /\ red.aKernel # <<>>
    /\ tareas' = [tareas EXCEPT !["dispatch"] = Atender(Head(red.aKernel))]
    /\ red' = [red EXCEPT !.aKernel = Tail(@)]
    /\ UNCHANGED <<config, hilo, colas, sem, marcas, consola, recursos, caida, cpu>>

PostConfirmacion ==
    /\ En("dispatch", "postConfirmacion")
    /\ sem' = [sem EXCEPT !.exec = @ + 1]
    /\ Sigue("dispatch", <<>>)
    /\ UNCHANGED <<config, hilo, colas, marcas, consola, recursos, caida, red, cpu>>

Confirmar ==
    /\ En("dispatch", "confirmar")
    /\ red' = [red EXCEPT !.aCpu = Append(@, Simple("CONFIRMAR_SYSCALL"))]
    /\ Sigue("dispatch", <<>>)
    /\ UNCHANGED <<config, hilo, colas, sem, marcas, consola, recursos, caida, cpu>>

\* INTERRUMPIO_PROCESO: the first flag that is set says what the interrupt was for.
ElegirMotivo ==
    /\ En("dispatch", "elegirMotivo")
    /\ LET pcb == Arg("dispatch") IN
       \/ /\ "error_memoria" \in marcas
          /\ Sigue("dispatch", LtsEx(pcb, "EXEC") \o <<Simple("limpiarError")>>)
          /\ UNCHANGED marcas
       \/ /\ "error_memoria" \notin marcas /\ "syscall" \in marcas
          /\ marcas' = marcas \ {"syscall"}
          /\ Sigue("dispatch", <<>>)
       \/ /\ marcas = {"interrumpi"}
          /\ marcas' = {}
          /\ Sigue("dispatch", Desalojar(pcb) \o CargarReady(pcb))
       \/ /\ marcas = {}
          /\ Sigue("dispatch", <<>>)
          /\ UNCHANGED marcas
    /\ UNCHANGED <<config, hilo, colas, sem, consola, recursos, caida, red, cpu>>

LimpiarError ==
    /\ En("dispatch", "limpiarError")
    /\ marcas' = marcas \ {"error_memoria"}
    /\ Sigue("dispatch", <<>>)
    /\ UNCHANGED <<config, hilo, colas, sem, consola, recursos, caida, red, cpu>>

\* desalojar: the quantum thread is cancelled wherever it is; VRR takes the time
\* used from the PCB; the process leaves cola_exec (its PID is logged). pthread_cancel
\* of a thread that ended does nothing; before the planner created the first one
\* hilo_quantum is 0, and pthread_cancel reads through it.
CancelarQuantum ==
    /\ En("dispatch", "cancelarQuantum")
    /\ IF ~hilo
         THEN Cae
         ELSE /\ tareas' = [tareas EXCEPT !["dispatch"] = Tail(@), !["quantum"] = <<>>]
              /\ UNCHANGED <<colas, caida>>
    /\ UNCHANGED <<config, hilo, sem, marcas, consola, recursos, red, cpu>>

ConPcb(ops, pcb) ==
    [i \in DOMAIN ops |->
        IF ops[i].pcb # Nulo THEN [ops[i] EXCEPT !.pcb = pcb] ELSE ops[i]]
ModificarQuantum ==
    /\ En("dispatch", "modificarQuantum")
    /\ IF Arg("dispatch") = Nulo
         THEN Cae
         ELSE /\ \E resto \in 0..Arg("dispatch").q :
                   tareas' = [tareas EXCEPT !["dispatch"] =
                                  ConPcb(Tail(@), [Head(@).pcb EXCEPT !.q = resto])]
              /\ UNCHANGED <<colas, caida>>
    /\ UNCHANGED <<config, hilo, sem, marcas, consola, recursos, red, cpu>>

DesalojarExec ==
    /\ En("dispatch", "desalojarExec")
    /\ IF colas.exec = <<>>
         THEN Cae
         ELSE /\ colas' = [colas EXCEPT !.exec = Tail(@)]
              /\ Sigue("dispatch", <<>>)
              /\ UNCHANGED caida
    /\ UNCHANGED <<config, hilo, sem, marcas, consola, recursos, red, cpu>>

\* atender_wait
Wait ==
    /\ En("dispatch", "wait")
    /\ LET pcb == Arg("dispatch")
           r == ArgR("dispatch") IN
       \/ /\ r \notin Nombres
          /\ Sigue("dispatch", Desalojar(pcb) \o LtsEx(pcb, "EXEC"))
          /\ UNCHANGED <<instancias, rec>>
       \/ /\ r \in Nombres
          /\ R!Restar(pcb.pid, r)
          /\ Sigue("dispatch", IF instancias[r] <= 0
                                 THEN Desalojar(pcb) \o <<OpRec("encolar", pcb, r)>>
                                 ELSE DevolverACpu(pcb))
    /\ UNCHANGED <<config, hilo, colas, sem, marcas, consola, colaRec, caida, red, cpu>>

Encolar ==
    /\ En("dispatch", "encolar")
    /\ colaRec' = [colaRec EXCEPT ![ArgR("dispatch")] = Append(@, Arg("dispatch"))]
    /\ Sigue("dispatch", <<>>)
    /\ UNCHANGED <<config, hilo, colas, sem, marcas, consola, instancias, rec, caida, red, cpu>>

\* atender_signal: a resource that does not exist ends the process, and the CPU
\* gets no answer.
Signal ==
    /\ En("dispatch", "signal")
    /\ LET pcb == Arg("dispatch")
           r == ArgR("dispatch") IN
       \/ /\ r \notin Nombres
          /\ Sigue("dispatch", Desalojar(pcb) \o LtsEx(pcb, "EXEC"))
          /\ UNCHANGED recursos
       \/ /\ r \in Nombres
          /\ Sumar("dispatch", r, DevolverACpu(pcb))
          /\ rec' = [rec EXCEPT ![pcb.pid] = R!Desanotada(@, r)]
    /\ UNCHANGED <<config, hilo, colas, sem, marcas, consola, caida, red, cpu>>

\* atender_io_*: the process waits for its interface, or ends (INVALID_INTERFACE) if
\* it is not connected or does not take the operation.
OcuparIO ==
    /\ En("dispatch", "ocuparIO")
    /\ colas' = [colas EXCEPT !.io = @ \cup {Arg("dispatch")}]
    /\ Sigue("dispatch", <<>>)
    /\ UNCHANGED <<config, hilo, sem, marcas, consola, recursos, caida, red, cpu>>

RechazarIO ==
    /\ En("dispatch", "ocuparIO")
    /\ Sigue("dispatch", LtsEx(Arg("dispatch"), "EXEC"))
    /\ UNCHANGED <<config, hilo, colas, sem, marcas, consola, recursos, caida, red, cpu>>

Receptor ==
    \/ RecibirDispatch \/ PostConfirmacion \/ Confirmar \/ ElegirMotivo \/ LimpiarError
    \/ CancelarQuantum \/ ModificarQuantum \/ DesalojarExec \/ Wait \/ Encolar \/ Signal
    \/ OcuparIO \/ RechazarIO

\* Mutant: the process stays in the queue of the interface.
TerminarIOSinSacar ==
    /\ Libre("io")
    /\ \E pcb \in colas.io : tareas' = [tareas EXCEPT !["io"] = Desbloquear(pcb)]
    /\ UNCHANGED <<config, hilo, colas, sem, marcas, consola, recursos, caida, red, cpu>>

\* TERMINE_OPERACION from an interface (desocupar_io): its process is ready.
TerminarIO ==
    /\ Libre("io")
    /\ \E pcb \in colas.io :
         /\ colas' = [colas EXCEPT !.io = @ \ {pcb}]
         /\ tareas' = [tareas EXCEPT !["io"] = Desbloquear(pcb)]
    /\ UNCHANGED <<config, hilo, sem, marcas, consola, recursos, caida, red, cpu>>

-----------------------------------------------------------------------------
(* Admission: the console, memoria and the kernel's memoria receiver.      *)

\* INICIAR_PROCESO sends CREAR_PROCESO before the PCB is in lista_new.
IniciarProceso ==
    /\ Libre("consola")
    /\ PID < NProcesos
    /\ red' = [red EXCEPT !.aMemoria = Append(@, PcbNuevo(PID))]
    /\ tareas' = [tareas EXCEPT !["consola"] = <<Op("listarNew", PcbNuevo(PID))>>]
    /\ UNCHANGED <<config, hilo, colas, sem, marcas, consola, recursos, caida, cpu>>

ListarNew ==
    /\ En("consola", "listarNew")
    /\ colas' = [colas EXCEPT !.new = @ \cup {Arg("consola")}]
    /\ PID' = PID + 1
    /\ Sigue("consola", <<>>)
    /\ UNCHANGED <<config, hilo, sem, marcas, activa, detenciones, recursos, caida, red, cpu>>

Detener ==
    /\ Libre("consola")
    /\ activa /\ detenciones < MaxDetener
    /\ activa' = FALSE
    /\ detenciones' = detenciones + 1
    /\ UNCHANGED <<config, hilo, colas, sem, marcas, PID, recursos, tareas, caida, red, cpu>>

Reanudar ==
    /\ Libre("consola")
    /\ ~activa
    /\ activa' = TRUE
    /\ UNCHANGED <<config, hilo, colas, sem, marcas, detenciones, PID, recursos, tareas, caida,
                   red, cpu>>

\* memoria loads the program or does not find its file.
MemoriaAtiende ==
    /\ ~caida
    /\ red.aMemoria # <<>>
    /\ LET pcb == Head(red.aMemoria) IN
       /\ AltaATiempo => PID > pcb.pid
       /\ \E respuesta \in {"INSTRUCCIONES_CARGADAS", "ARCHIVO_NO_ENCONTRADO"} :
            red' = [red EXCEPT !.aMemoria = Tail(@),
                               !.deMemoria = Append(@, Op(respuesta, pcb))]
    /\ UNCHANGED <<config, hilo, colas, sem, marcas, consola, recursos, tareas, caida, cpu>>

RecibirMemoria ==
    /\ Libre("memoria")
    /\ red.deMemoria # <<>>
    /\ LET m == Head(red.deMemoria) IN
         tareas' = [tareas EXCEPT !["memoria"] =
             IF m.op = "INSTRUCCIONES_CARGADAS"
               THEN <<Simple("esperarGM"), Op("sacarNewReady", m.pcb)>>
               ELSE <<Op("sacarNewExit", m.pcb)>>]
    /\ red' = [red EXCEPT !.deMemoria = Tail(@)]
    /\ UNCHANGED <<config, hilo, colas, sem, marcas, consola, recursos, caida, cpu>>

EsperarGM ==
    /\ En("memoria", "esperarGM")
    /\ sem.gm > 0
    /\ sem' = [sem EXCEPT !.gm = @ - 1]
    /\ Sigue("memoria", <<>>)
    /\ UNCHANGED <<config, hilo, colas, marcas, consola, recursos, caida, red, cpu>>

\* cargar_ready_por_pid, enviar_new_exit: get_and_remove_pcb may find nothing.
SacarNew ==
    /\ \/ En("memoria", "sacarNewReady")
       \/ En("memoria", "sacarNewExit")
    /\ LET pcb == Arg("memoria")
           esta == pcb \in colas.new IN
       /\ colas' = [colas EXCEPT !.new = @ \ {pcb}]
       /\ Sigue("memoria",
                IF Head(tareas["memoria"]).op = "sacarNewReady"
                  THEN IF esta THEN CargarReady(pcb) ELSE <<>>
                  ELSE LtsEx(IF esta THEN pcb ELSE Nulo, "NEW"))
    /\ UNCHANGED <<config, hilo, sem, marcas, consola, recursos, caida, red, cpu>>

Admision ==
    \/ IniciarProceso \/ ListarNew \/ Detener \/ Reanudar \/ MemoriaAtiende
    \/ RecibirMemoria \/ EsperarGM \/ SacarNew

-----------------------------------------------------------------------------
(* The CPU (cpu/src/main.c, cicloInstruccion.c, instrucciones.c).          *)

Enviar(m) == red' = [red EXCEPT !.aKernel = Append(@, m)]
Avanzado(pcb) == [pcb EXCEPT !.pc = @ + 1]
HayInstruccion == cpu.pcb.pc <= Len(programa[cpu.pcb.pid])
Instruccion == programa[cpu.pcb.pid][cpu.pcb.pc]

\* Any packet is confirmed; only EXEC_PROCESO starts the cycle.
CpuRecibe ==
    /\ cpu.st = "espera"
    /\ red.aCpu # <<>>
    /\ red' = [red EXCEPT !.aCpu = Tail(@), !.aKernel = Append(@, Simple("CONFIRMAR_EXEC"))]
    /\ cpu' = IF Head(red.aCpu).op = "EXEC_PROCESO"
                THEN [cpu EXCEPT !.st = "ejecuta", !.pcb = Head(red.aCpu).pcb]
                ELSE cpu
    /\ UNCHANGED <<config, hilo, colas, sem, marcas, consola, recursos, tareas, caida>>

\* No instruction left: the flag `interrupcion` stays as it is.
CpuTermina ==
    /\ cpu.st = "ejecuta"
    /\ ~HayInstruccion
    /\ Enviar(Op("TERMINO_EJECUCION", cpu.pcb))
    /\ cpu' = [cpu EXCEPT !.st = "espera", !.pcb = Nulo]
    /\ UNCHANGED <<config, hilo, colas, sem, marcas, consola, recursos, tareas, caida>>

\* SET, SUM, MOV_IN... and a RESIZE that succeeds: nothing the kernel sees.
CpuEjecuta ==
    /\ cpu.st = "ejecuta"
    /\ HayInstruccion
    /\ Instruccion[1] \in {"CPU", "RESIZE"}
    /\ cpu' = [cpu EXCEPT !.st = "chequea", !.sys = FALSE, !.pcb = Avanzado(@)]
    /\ UNCHANGED <<config, hilo, colas, sem, marcas, consola, recursos, tareas, caida, red>>

\* The counter is advanced first, so it is in the PCB that goes with the packet.
CpuSyscall ==
    /\ cpu.st = "ejecuta"
    /\ HayInstruccion
    /\ Instruccion[1] \in {"WAIT", "SIGNAL", "IO"}
    /\ Enviar(OpRec(Instruccion[1], Avanzado(cpu.pcb), Instruccion[2]))
    /\ cpu' = [cpu EXCEPT !.st = "confirma", !.pcb = Avanzado(@)]
    /\ UNCHANGED <<config, hilo, colas, sem, marcas, consola, recursos, tareas, caida>>

CpuSinMemoria ==
    /\ cpu.st = "ejecuta"
    /\ HayInstruccion
    /\ Instruccion[1] = "RESIZE"
    /\ Enviar(Op("ERROR_OUT_OF_MEMORY", cpu.pcb))
    /\ cpu' = [cpu EXCEPT !.st = "confirma"]
    /\ UNCHANGED <<config, hilo, colas, sem, marcas, consola, recursos, tareas, caida>>

\* Whatever packet comes next is taken for the confirmation.
CpuConfirma ==
    /\ cpu.st = "confirma"
    /\ red.aCpu # <<>>
    /\ red' = [red EXCEPT !.aCpu = Tail(@)]
    /\ cpu' = [cpu EXCEPT !.st = "chequea", !.sys = TRUE]
    /\ UNCHANGED <<config, hilo, colas, sem, marcas, consola, recursos, tareas, caida>>

\* The kernel's interrupt for this system call is not on its way any more.
SinAvisoEnCamino ==
    /\ red.interr = 0
    /\ \A i \in DOMAIN tareas["dispatch"] : tareas["dispatch"][i].op # "interrumpir"

CpuSigue ==
    /\ cpu.st = "chequea"
    /\ ~cpu.interrupcion
    /\ AvisoATiempo /\ cpu.sys => SinAvisoEnCamino
    /\ cpu' = [cpu EXCEPT !.st = "ejecuta"]
    /\ UNCHANGED <<config, hilo, colas, sem, marcas, consola, recursos, tareas, caida, red>>

CpuInterrumpida ==
    /\ cpu.st = "chequea"
    /\ cpu.interrupcion
    /\ Enviar(Op("INTERRUMPIO_PROCESO", cpu.pcb))
    /\ cpu' = [cpu EXCEPT !.st = "espera", !.pcb = Nulo, !.interrupcion = FALSE]
    /\ UNCHANGED <<config, hilo, colas, sem, marcas, consola, recursos, tareas, caida>>

\* conexion_interrupt, the CPU's other thread.
CpuAviso ==
    /\ red.interr > 0
    /\ red' = [red EXCEPT !.interr = @ - 1]
    /\ cpu' = [cpu EXCEPT !.interrupcion = TRUE]
    /\ UNCHANGED <<config, hilo, colas, sem, marcas, consola, recursos, tareas, caida>>

CPU ==
    \/ CpuRecibe \/ CpuTermina \/ CpuEjecuta \/ CpuSyscall \/ CpuSinMemoria \/ CpuConfirma
    \/ CpuSigue \/ CpuInterrumpida

\* Every process has ended and nobody has anything to do.
Terminado ==
    /\ Len(colas.exit) = NProcesos
    /\ activa
    /\ \A h \in Hilos \ {"planificacion"} : tareas[h] = <<>>
    /\ En("planificacion", "esperarReady")
    /\ red.aCpu = <<>> /\ red.aKernel = <<>> /\ red.aMemoria = <<>> /\ red.deMemoria = <<>>
    /\ red.interr = 0
    /\ cpu.st = "espera"
    /\ UNCHANGED vars

Next ==
    \/ \E h \in Hilos : Comun(h)
    \/ Planificador \/ Despertar \/ Receptor \/ TerminarIO \/ Admision
    \/ CPU \/ CpuAviso
    \/ Terminado

Spec == Init /\ [][Next]_vars

\* Every thread goes on while it can, and an interface answers; the console may
\* stop giving commands.  A system call of a quantum thread ends.
Fairness ==
    /\ \A h \in Hilos : WF_vars(Comun(h))
    /\ WF_vars(Planificador) /\ WF_vars(Despertar) /\ WF_vars(Receptor)
    /\ WF_vars(TerminarIO) /\ WF_vars(ListarNew) /\ WF_vars(MemoriaAtiende)
    /\ WF_vars(RecibirMemoria \/ EsperarGM \/ SacarNew)
    /\ WF_vars(CPU) /\ WF_vars(CpuAviso)

FairSpec == Spec /\ Fairness
-----------------------------------------------------------------------------
(* Properties                                                              *)

Operaciones ==
    {"pushReady", "pushPriori", "postReady", "liberarCPU", "enviarExec", "marcar", "interrumpir",
     "postGM", "devolverRecursos", "recorrer", "pushExit", "esperarReady", "tomarCPU",
     "mirarPriori", "sacarReady", "sacarPriori", "pushExec", "popExec", "esperarConfirmacion",
     "crearQuantum", "unirQuantum", "dormir", "postConfirmacion", "confirmar", "elegirMotivo",
     "limpiarError", "cancelarQuantum", "modificarQuantum", "desalojarExec", "wait", "encolar",
     "signal", "ocuparIO", "listarNew", "esperarGM", "sacarNewReady", "sacarNewExit"}
EsOp(o) == DOMAIN o = {"op", "pcb", "r"} /\ o.op \in Operaciones
EsPcb(pcb) == pcb \in [pid : Procesos, pc : Nat, q : Nat]

\* Types of the kernel's queues, semaphores and flags, of the packets that carry a PCB
\* and of the CPU: NULL is in no queue and in none of those packets.
TypeOK ==
    /\ \A pcb \in colas.new \cup colas.io : EsPcb(pcb)
    /\ \A i \in DOMAIN colas.ready : EsPcb(colas.ready[i])
    /\ \A i \in DOMAIN colas.priori : EsPcb(colas.priori[i])
    /\ \A r \in Nombres : \A i \in DOMAIN colaRec[r] : EsPcb(colaRec[r][i])
    /\ \A i \in DOMAIN red.aCpu : red.aCpu[i].op = "EXEC_PROCESO" => EsPcb(red.aCpu[i].pcb)
    /\ \A i \in DOMAIN red.aKernel : red.aKernel[i].op # "CONFIRMAR_EXEC" => EsPcb(red.aKernel[i].pcb)
    /\ colas.exec \in Seq(Procesos) /\ colas.exit \in Seq(Procesos)
    /\ sem.ready \in Nat /\ sem.gm \in Nat /\ sem.exec \in Nat /\ sem.cpu \in {0, 1}
    /\ marcas \subseteq {"error_memoria", "syscall", "interrumpi"}
    /\ \A h \in Hilos : \A i \in DOMAIN tareas[h] : EsOp(tareas[h][i])
    /\ cpu.st \in {"espera", "ejecuta", "confirma", "chequea"}
    /\ cpu.st # "espera" => EsPcb(cpu.pcb)

\* Under FIFO the kernel never dereferences NULL: no queue is popped when it is empty,
\* no PCB is missing from lista_new, no handler is called without its PCB.
SinCaida == ~caida

\* Under RR and VRR it does. Beside SacaConProceso this says where it does not:
\* desalojar finds a process in cola_exec, and one at most, whatever the recharge of
\* stl_VRR and late interrupts do; a process without a PCB is ended by memoria's receiver
\* only. What is left is the quantum thread cancelled before there is one,
\* modificar_quantum without a PCB, and a PCB that is not yet in lista_new.
CaidasConocidas ==
    /\ Len(colas.exec) <= 1
    /\ En("dispatch", "desalojarExec") => colas.exec # <<>>
    /\ \A h \in Hilos : En(h, "devolverRecursos") /\ Arg(h) = Nulo => h = "memoria"

\* sem_cont_ready counts the processes in the two ready queues, but for what the
\* planner has taken on account and what some thread has pushed and not posted.
Pendientes == Cardinality({h \in Hilos : En(h, "postReady") \/ En(h, "popExec")})
TomadoEnCuenta ==
    IF \E o \in {"tomarCPU", "mirarPriori", "sacarReady", "sacarPriori"} : En("planificacion", o)
      THEN 1 ELSE 0
CuentaReady ==
    ~caida => sem.ready + TomadoEnCuenta + Pendientes = Len(colas.ready) + Len(colas.priori)

\* The planner finds a process in the queue that it pops, under VRR in the one that it
\* looked at before: no other thread takes one out (but for FINALIZAR_PROCESO).
SacaConProceso ==
    /\ En("planificacion", "sacarReady") => colas.ready # <<>>
    /\ En("planificacion", "sacarPriori") => colas.priori # <<>>

\* A place in the system: a queue of the kernel, not counting cola_exec.
Pids(s) == {s[i].pid : i \in DOMAIN s}
EnColas ==
    <<{pcb.pid : pcb \in colas.new}, Pids(colas.ready), Pids(colas.priori),
      {pcb.pid : pcb \in colas.io}, UNION {Pids(colaRec[r]) : r \in Nombres},
      ToSet(colas.exit)>>

\* A process is in one queue at most, and once: no handler, woken process or
\* quantum puts it in a second one, and it ends only once.
Largo == Len(colas.ready) + Len(colas.priori) + Len(colas.exit)
UnSoloLugar ==
    LET lugares == EnColas IN
    /\ \A i, j \in DOMAIN lugares : i < j => lugares[i] \cap lugares[j] = {}
    /\ Cardinality(lugares[2] \cup lugares[3] \cup lugares[6]) = Largo

\* The CPU works only on the process the kernel has in cola_exec: a process that
\* was preempted, blocked or ended executes nothing more.
SoloElDespachado ==
    cpu.st = "ejecuta" /\ ~caida => colas.exec = <<cpu.pcb.pid>>

\* The places of the degree of multiprogramming are neither exceeded nor lost: the
\* processes admitted and not ended and the free places are never more than Grado,
\* and just as many when no thread is moving a process.
Admitidos ==
    Pids(colas.ready) \cup Pids(colas.priori) \cup {pcb.pid : pcb \in colas.io}
    \cup UNION {Pids(colaRec[r]) : r \in Nombres} \cup ToSet(colas.exec)
EnCamino ==
    {pcb.pid : pcb \in ({cpu.pcb} \cup {red.aKernel[i].pcb : i \in DOMAIN red.aKernel}) \ {Nulo}}
Quieto ==
    /\ tareas["dispatch"] = <<>> /\ tareas["io"] = <<>>
    /\ tareas["memoria"] = <<>> \/ En("memoria", "esperarGM")
    /\ ~En("planificacion", "pushExec")
GradoRespetado ==
    /\ Cardinality(Admitidos) + sem.gm <= Grado
    /\ Quieto => Cardinality((Admitidos \cup EnCamino) \ ToSet(colas.exit)) + sem.gm = Grado

\* A process in cola_exec is in somebody's hands: the planner about to send it, the
\* CPU, a packet between the two, or the receiver still busy with it.
EnManosDeAlguien ==
    colas.exec # <<>> /\ ~caida =>
        \/ cpu.st # "espera"
        \/ \E i \in DOMAIN red.aCpu : red.aCpu[i].op = "EXEC_PROCESO"
        \/ \E i \in DOMAIN red.aKernel : red.aKernel[i].pcb # Nulo
        \/ \E i \in DOMAIN tareas["planificacion"] :
               tareas["planificacion"][i].op \in {"enviarExec", "popExec"}
        \/ \E i \in DOMAIN tareas["dispatch"] : tareas["dispatch"][i].pcb # Nulo

\* "CONFIRMAR_SYSCALL, // DE KERNEL A CPU, confirmacion de wait o signal"
\* (constants.h:84): what the CPU takes for the confirmation of a system call is
\* one, or the same process sent back.  A SIGNAL of a resource that does not exist
\* is not confirmed, and the CPU takes the next process dispatched for it.
ConfirmacionPropia ==
    cpu.st = "confirma" /\ red.aCpu # <<>> =>
        LET m == Head(red.aCpu) IN m.op = "CONFIRMAR_SYSCALL" \/ m.pcb.pid = cpu.pcb.pid

\* Under FIFO a process that was started ends in cola_exit, if at no time two processes
\* wait for one resource: who waits behind another one may be left there for ever
\* (recursos.c:104; Recursos.SinDespertarPerdido). The programs take resources in an
\* order that cannot deadlock.
CadaUnoTermina ==
    [](\A r \in Nombres : Len(colaRec[r]) <= 1) =>
        \A p \in Procesos : (PID > p) ~> (p \in ToSet(colas.exit))
=============================================================================
