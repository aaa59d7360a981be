------------------------------ MODULE Recursos ------------------------------
(***************************************************************************)
(* The kernel's resource manager (kernel/src/recursos.c): instances, the   *)
(* blocked queue of every resource and the table of what each process has  *)
(* asked for.  WAIT and SIGNAL packets are handled one at a time by the    *)
(* dispatch thread; a process that finishes returns its instances one by   *)
(* one, each under the resource's mutex, from whichever kernel thread      *)
(* finishes it, so two finishing processes interleave with each other and  *)
(* with the packets the dispatch thread handles.                           *)
(*                                                                         *)
(* What the rest of the kernel does to a process (dispatch, preemption,    *)
(* interfaces) is kept to its effect on the process state.  Killing a      *)
(* process from the console is not part of this module.                    *)
(***************************************************************************)
EXTENDS Integers, Sequences, FiniteSets, FiniteSetsExt

CONSTANTS
    Procesos,   \* pids
    Nombres,    \* names of the resources in kernel.config (RECURSOS)
    Inicial,    \* INSTANCIAS_RECURSOS, a function on Nombres
    HilosIO,    \* kernel threads serving one interface each (atender_cliente)
    Sueltos,    \* resources that programs may SIGNAL without holding them
    Nadie,      \* no process
    Tope        \* bound on instances and on recorded requests

Dispatch == "dispatch"
Hilos == {Dispatch} \cup HilosIO

ASSUME RecursosAssumption ==
    /\ IsFiniteSet(Procesos)
    /\ Inicial \in [Nombres -> Nat]
    /\ Sueltos \subseteq Nombres
    /\ Nadie \notin Procesos
    /\ Dispatch \notin HilosIO
    /\ Tope \in Nat

VARIABLES
    instancias,  \* t_recurso.instancias_recurso
    cola,        \* t_recurso.cola_blocked_recurso
    rec,         \* rec_por_pid_dic: per process, a list of (resource, count)
    estado,      \* where the process is
    fin,         \* the process each thread is finishing (lts_ex)
    porSoltar    \* iterations left in that thread's recorrer_liberar_rec

vars == <<instancias, cola, rec, estado, fin, porSoltar>>

Estados == {"READY", "EXEC", "BLOCKED", "IO", "SALIENDO", "EXIT"}

\* A list of rec_por_pid_dic: the resources named in it, with their counts.
\* A missing list (NULL) and an empty one are not told apart by the code.
EsLista(lista) == DOMAIN lista \subseteq Nombres /\ lista \in [DOMAIN lista -> Int]
ListaVacia == [n \in {} |-> 0]
Cuenta(lista, r) == IF r \in DOMAIN lista THEN lista[r] ELSE 0
Anotada(lista, r) ==
    [n \in DOMAIN lista \cup {r} |-> Cuenta(lista, n) + (IF n = r THEN 1 ELSE 0)]

Init ==
    /\ instancias = Inicial
    /\ cola = [r \in Nombres |-> <<>>]
    /\ rec = [p \in Procesos |-> ListaVacia]
    /\ estado = [p \in Procesos |-> "READY"]
    /\ fin = [h \in Hilos |-> Nadie]
    /\ porSoltar = [h \in Hilos |-> [r \in Nombres |-> 0]]

-----------------------------------------------------------------------------
(* The rest of the kernel, as far as a process state is concerned.         *)

\* The planner hands the CPU to a ready process (stl_FIFO and its siblings).
Despachar(p) ==
    /\ estado[p] = "READY"
    /\ \A q \in Procesos : estado[q] # "EXEC"
    /\ estado' = [estado EXCEPT ![p] = "EXEC"]
    /\ UNCHANGED <<instancias, cola, rec, fin, porSoltar>>

\* INTERRUMPIO_PROCESO at the end of a quantum: desalojar and cargar_ready.
FinQuantum(p) ==
    /\ fin[Dispatch] = Nadie
    /\ estado[p] = "EXEC"
    /\ estado' = [estado EXCEPT ![p] = "READY"]
    /\ UNCHANGED <<instancias, cola, rec, fin, porSoltar>>

\* An IO_* packet of the running process: it is blocked on an interface.
EsperarIO(p) ==
    /\ fin[Dispatch] = Nadie
    /\ estado[p] = "EXEC"
    /\ estado' = [estado EXCEPT ![p] = "IO"]
    /\ UNCHANGED <<instancias, cola, rec, fin, porSoltar>>

\* TERMINE_OPERACION: desocupar_io makes the process ready.
FinIO(h, p) ==
    /\ fin[h] = Nadie
    /\ estado[p] = "IO"
    /\ estado' = [estado EXCEPT ![p] = "READY"]
    /\ UNCHANGED <<instancias, cola, rec, fin, porSoltar>>

-----------------------------------------------------------------------------
(* atender_wait and atender_signal, under mutex_recurso.                   *)

\* Lines 49-50: take an instance on account and note it for the process.
Restar(p, r) ==
    /\ instancias' = [instancias EXCEPT ![r] = @ - 1]
    /\ rec' = [rec EXCEPT ![p] = Anotada(@, r)]

\* Mutant: the balance is compared after the fact with the wrong bound.
WaitConcedidoDeMas(p, r) ==
    /\ instancias[r] >= 0
    /\ Restar(p, r)
    /\ UNCHANGED <<cola, estado>>

\* An instance is left: the process goes on (EXEC_PROCESO is sent back).
WaitConcedido(p, r) ==
    /\ instancias[r] > 0
    /\ Restar(p, r)
    /\ UNCHANGED <<cola, estado>>

\* None is left: the process leaves the CPU and waits in the resource's queue.
WaitBloqueado(p, r) ==
    /\ instancias[r] <= 0
    /\ Restar(p, r)
    /\ cola' = [cola EXCEPT ![r] = Append(@, p)]
    /\ estado' = [estado EXCEPT ![p] = "BLOCKED"]

AtenderWait(p, r) ==
    /\ fin[Dispatch] = Nadie
    /\ estado[p] = "EXEC"
    /\ Cuenta(rec[p], r) < Tope
    /\ WaitConcedido(p, r) \/ WaitBloqueado(p, r)
    /\ UNCHANGED <<fin, porSoltar>>

\* Mutant: the instance returned by a SIGNAL stays on the list.
DesanotadaNada(lista, r) == lista

\* modificar_signal_dic_rec: a resource missing from the list is left alone.
Desanotada(lista, r) ==
    IF r \in DOMAIN lista THEN [lista EXCEPT ![r] = @ - 1] ELSE lista

\* One instance more; the first process in the queue is woken if the balance,
\* waiting requests included, is not negative any more.
Despierta(r) == instancias[r] + 1 >= 0 /\ cola[r] # <<>>
\* Mutant: queue_peek in the place of queue_pop.
SumarSinSacar(r) ==
    /\ instancias' = [instancias EXCEPT ![r] = @ + 1]
    /\ IF Despierta(r)
         THEN estado' = [estado EXCEPT ![Head(cola[r])] = "READY"]
         ELSE UNCHANGED estado
    /\ UNCHANGED cola

Sumar(r) ==
    /\ instancias' = [instancias EXCEPT ![r] = @ + 1]
    /\ IF Despierta(r)
         THEN /\ cola' = [cola EXCEPT ![r] = Tail(@)]
              /\ estado' = [estado EXCEPT ![Head(cola[r])] = "READY"]
         ELSE UNCHANGED <<cola, estado>>

AtenderSignal(p, r) ==
    /\ fin[Dispatch] = Nadie
    /\ estado[p] = "EXEC"
    /\ instancias[r] < Tope
    /\ r \in Sueltos \/ Cuenta(rec[p], r) > 0
    /\ Cuenta(rec[p], r) > -Tope
    /\ Sumar(r)
    /\ rec' = [rec EXCEPT ![p] = Desanotada(@, r)]
    /\ UNCHANGED <<fin, porSoltar>>

-----------------------------------------------------------------------------
(* lts_ex -> modificar_fin_proc_dic_rec -> recorrer_liberar_rec.           *)

\* Mutant: no test of the sign.
LiberacionesSinTest(lista) == [r \in Nombres |-> Cuenta(lista, r)]

\* How many times recorrer_liberar_rec calls signal_por_fin for a resource.
Liberaciones(lista) ==
    [r \in Nombres |-> IF Cuenta(lista, r) > 0 THEN Cuenta(lista, r) ELSE 0]

EmpezarFin(h, p) ==
    /\ fin[h] = Nadie
    /\ fin' = [fin EXCEPT ![h] = p]
    /\ porSoltar' = [porSoltar EXCEPT ![h] = Liberaciones(rec[p])]
    /\ estado' = [estado EXCEPT ![p] = "SALIENDO"]
    /\ UNCHANGED <<instancias, cola, rec>>

\* The running process ends or names a resource that does not exist.
TerminarEjecucion(p) == estado[p] = "EXEC" /\ EmpezarFin(Dispatch, p)

\* Its interface disconnects while the process waits for it (desconectar_IO).
Desconectar(h, p) == estado[p] = "IO" /\ EmpezarFin(h, p)

SignalPorFin(h, r) ==
    /\ porSoltar[h][r] > 0
    /\ porSoltar' = [porSoltar EXCEPT ![h][r] = @ - 1]
    /\ Sumar(r)
    /\ UNCHANGED <<rec, fin>>

\* The list is destroyed and the PCB goes to cola_exit.
TerminarFin(h) ==
    /\ fin[h] # Nadie
    /\ \A r \in Nombres : porSoltar[h][r] = 0
    /\ rec' = [rec EXCEPT ![fin[h]] = ListaVacia]
    /\ estado' = [estado EXCEPT ![fin[h]] = "EXIT"]
    /\ fin' = [fin EXCEPT ![h] = Nadie]
    /\ UNCHANGED <<instancias, cola, porSoltar>>

Next ==
    \/ \E p \in Procesos :
        \/ Despachar(p)
        \/ FinQuantum(p)
        \/ EsperarIO(p)
        \/ TerminarEjecucion(p)
        \/ \E r \in Nombres : AtenderWait(p, r) \/ AtenderSignal(p, r)
        \/ \E h \in HilosIO : FinIO(h, p) \/ Desconectar(h, p)
    \/ \E h \in Hilos :
        \/ \E r \in Nombres : SignalPorFin(h, r)
        \/ TerminarFin(h)

Spec == Init /\ [][Next]_vars
-----------------------------------------------------------------------------
(* Properties                                                              *)

\* Every variable has its type; a thread that finishes nobody has nothing
\* left to return.
TypeOK ==
    /\ instancias \in [Nombres -> Int]
    /\ cola \in [Nombres -> Seq(Procesos)]
    /\ rec = [p \in Procesos |-> rec[p]]
    /\ \A p \in Procesos : EsLista(rec[p])
    /\ estado \in [Procesos -> Estados]
    /\ fin \in [Hilos -> Procesos \cup {Nadie}]
    /\ porSoltar \in [Hilos -> [Nombres -> Nat]]
    /\ \A h \in Hilos : fin[h] = Nadie => porSoltar[h] = [r \in Nombres |-> 0]

\* A negative balance is covered by waiting processes: atender_wait and the
\* two ways of returning an instance (SIGNAL, end of a process) never let
\* more requests through than there are instances.
DeudaCubierta == \A r \in Nombres : instancias[r] + Len(cola[r]) >= 0

\* A process is in the queue of a resource exactly while it is BLOCKED, in
\* one queue and once, whatever finishing processes and signals wake.
EnCola(p, r) == \E i \in 1..Len(cola[r]) : cola[r][i] = p
EsperaUnica ==
    /\ \A p \in Procesos : estado[p] = "BLOCKED" <=> \E r \in Nombres : EnCola(p, r)
    /\ \A r, s \in Nombres : \A i \in 1..Len(cola[r]), j \in 1..Len(cola[s]) :
           cola[r][i] = cola[s][j] => r = s /\ i = j

\* What the kernel still counts as requested by p: its list, or what is left
\* to return once some thread is finishing it.
Pedidas(p, r) ==
    IF estado[p] = "SALIENDO"
      THEN porSoltar[CHOOSE h \in Hilos : fin[h] = p][r]
      ELSE Cuenta(rec[p], r)
TotalPedidas(r) == MapThenSumSet(LAMBDA p : Pedidas(p, r), Procesos)

\* No instance is lost or invented by the waits, signals and endings of any
\* interleaving, for a resource that programs signal only after a wait.
Conservacion ==
    \A r \in Nombres \ Sueltos : instancias[r] + TotalPedidas(r) = Inicial[r]

\* Mutual exclusion: the requests that were let through never exceed the
\* configured instances, for the same resources.
Exclusion ==
    \A r \in Nombres \ Sueltos : TotalPedidas(r) - Len(cola[r]) <= Inicial[r]

\* "PUEDO DESBLOQUEAR UN PROCESO SI HAY INSTANCIAS DE RECURSOS"
\* (recursos.c:103): nobody waits for a resource that has an instance nobody
\* holds.  The code breaks it when two processes or more are waiting.
SinDespertarPerdido ==
    \A r \in Nombres \ Sueltos :
        TotalPedidas(r) - Len(cola[r]) < Inicial[r] => cola[r] = <<>>
=============================================================================
