-------------------------- MODULE InterfacesProofs --------------------------
(***************************************************************************)
(* The I/O interfaces, for any processes, interfaces, programs, degree and *)
(* commands of the console: types, one process at a time, nobody waiting   *)
(* for a free interface, each process in one place, its entry in           *)
(* cola_blocked, and Servidor.                                             *)
(*                                                                         *)
(* None of these is inductive: they speak of an interface that nobody is   *)
(* changing, or of the lists and not of the threads. IInv says what holds  *)
(* in between. Llaves: who may own mutex_interfaz, and when. Estados: what *)
(* datos_interfaz and the operations sent say of each other in each phase  *)
(* of the interface's thread, and at each step of dispatch. Unico: a       *)
(* process is at one place, where the threads that are moving it are       *)
(* places as well. Entradas: who is at an interface, or is going to be,    *)
(* has its entry in cola_blocked or in the hands of a thread that turns    *)
(* the queue. All of it only until quiebre; Tipos always.                  *)
(***************************************************************************)
EXTENDS InterfacesGuiones

-----------------------------------------------------------------------------
(* The inductive invariant.                                                *)

Colas == [new : Seq(Procesos), ready : Seq(Procesos), blocked : Seq(Entrada), exec : Seq(Procesos),
          exit : Seq(Procesos)]
Semaforos == [ready : Nat, gm : Nat, cpu : {0, 1}, grado : Nat]
DatosInterfaz == [esta : BOOLEAN, libre : BOOLEAN, usando : Procesos \cup {Nulo, Basura}, espera : Seq(Procesos)]
Cpu == [pcb : Procesos \cup {Nulo}, cortada : BOOLEAN, aCpu : Seq(Procesos), aKernel : Seq(Pedido)]

Tipos ==
    /\ colas \in Colas /\ deMemoria \in Seq(Procesos) /\ sem \in Semaforos
    /\ dueno \in [{"ready", "blocked"} \cup Interfaces -> Hilos \cup {Nadie}]
    /\ io \in [Interfaces -> DatosInterfaz] /\ enviadas \in [Interfaces -> Seq(Procesos)]
    /\ cpu \in Cpu
    /\ quiebre \in {"no", "caida", "ajeno", "zombi", "lista"} /\ carreras \subseteq Interfaces

\* The owner of mutex_interfaz: the thread of the interface, whenever it is past its
\* lock, or dispatch, between the lock of atender_fs_* and its unlock.
Llave(i, k, s, d) ==
    /\ k \in {Nadie, "dispatch", i}
    /\ k = "dispatch" => /\ d # <<>> /\ Primera(d) # "tomar"
                         /\ Ultima(d).op \in {"atender", "soltar"} /\ Ultima(d).i = i
    /\ k = i <=> Posee(s)
Llaves == \A i \in Interfaces : Llave(i, dueno[i], tareas[i], tareas["dispatch"])

\* What datos_interfaz x and the operations sent v say of each other, by what the
\* thread of the interface has left, f.
Actua(d, n, i) == d # <<>> /\ Primera(d) = n /\ Head(d).i = i
Estado(i, x, v, f, d, c) ==
    /\ f = "vaciar" => ~ x.esta
    /\ f \in {"liberar", "siguiente"} => x.esta
    /\ ~ x.esta => v = <<>>
    /\ x.libre <=> x.usando \notin Procesos
    /\ ~ x.esta /\ f = "nada" /\ d # <<>> => Ultima(d).i # i
    /\ x.esta /\ i \notin c =>
         /\ f = "liberar" => v = <<>> /\ ~ x.libre
         /\ f = "siguiente" => v = <<>> /\ x.libre
         /\ f = "nada" => /\ v = IF x.libre THEN <<>> ELSE <<x.usando>>
                          /\ x.libre => x.espera = <<>>
         /\ Actua(d, "ocupar", i) => f = "nada" /\ x.libre
         /\ Actua(d, "encolar", i) => f = "nada" /\ ~ x.libre
Estados == \A i \in Interfaces :
              /\ Fase(tareas[i]) \in Finales \cup OpsSolas \cup {"nada"}
              /\ Estado(i, io[i], enviadas[i], Fase(tareas[i]), tareas["dispatch"], carreras)

\* Where a process is.
EnUso(p, i) == io[i].esta /\ ~ io[i].libre /\ io[i].usando = p /\ Fase(tareas[i]) # "liberar"
EnLugar(p, t, x) ==
    \/ t = "lista" /\ x = "new" /\ p \in ToSet(colas.new)
    \/ t = "lista" /\ x = "ready" /\ p \in ToSet(colas.ready)
    \/ t = "lista" /\ x = "exec" /\ p \in ToSet(colas.exec)
    \/ t = "lista" /\ x = "exit" /\ p \in ToSet(colas.exit)
    \/ t = "hilo" /\ x \in Hilos /\ EnHilo(p, x)
    \/ t = "espera" /\ x \in Interfaces /\ p \in ToSet(io[x].espera)
    \/ t = "uso" /\ x \in Interfaces /\ EnUso(p, x)
Unico == \A p \in Procesos : \A t, x, u, y : EnLugar(p, t, x) /\ EnLugar(p, u, y) => t = u /\ x = y
SinRepetir ==
    /\ IsInjective(colas.new) /\ IsInjective(colas.ready) /\ IsInjective(colas.exec) /\ IsInjective(colas.exit)
    /\ \A i \in Interfaces : IsInjective(io[i].espera)

\* A process that must have an entry in cola_blocked; the threads that have entries in
\* their hands.
PideEntrada(p, i) ==
    \/ p \in ToSet(io[i].espera) \/ EnUso(p, i)
    \/ \E n \in {"atender", "mirar", "ocupar", "encolar"} :
          Actua(tareas["dispatch"], n, i) /\ Head(tareas["dispatch"]).p = p
Tiene(s, p, i) == /\ s # <<>> /\ Head(s).p = p
                  /\ Primera(s) \in Sacar \/ (Primera(s) = "reponer" /\ Head(s).i = i)
EnMano(p, i) == \E h \in Hilos : Tiene(tareas[h], p, i)
Entradas == \A p \in Procesos, i \in Interfaces :
               PideEntrada(p, i) => [p |-> p, i |-> i] \in ToSet(colas.blocked) \/ EnMano(p, i)

Sano == Guiones /\ Llaves /\ Estados /\ Unico /\ SinRepetir /\ Entradas
IInv == Tipos /\ (Vive => Sano)
-----------------------------------------------------------------------------
(* Each action keeps it.                                                   *)

LEMMA SoloVive == Next => Vive
  BY DEF Next, Avanza, Entorno, Comun, HiloInterfaz, Receptor, Planificador, Buscar, CargarReady, LtsEx, Tomar,
         Girar, Reponer, RecibirDispatch, Bloquear, AtenderIO, Mirar, ActuarSinMutex, Pasar, SoltarRechazo,
         Conectar, DesocuparIO, Liberar, Siguiente, Desconectar, Vaciar, Free, CargarReadyPorPid, EsperarReady,
         SacarReady, CpuPide, CpuCortada, FinalizarProceso, ProcesoEstado, Multiprogramar, BajarGrado,
         BuscarReady, DescontarReady, TomarBlocked, BuscarBlocked, SacarBloqueo, SacarEspera, SoltarBlocked,
         BuscarExec, Chocar, TocaBlocked, Libre, En

\* The actions one by one.
Acciones ==
    \/ \E h \in Hilos : CargarReady(h) \/ LtsEx(h) \/ Tomar(h) \/ Girar(h) \/ Reponer(h)
    \/ \E i \in Interfaces : DesocuparIO(i) \/ Liberar(i) \/ Siguiente(i) \/ Vaciar(i) \/ Free(i)
                             \/ Conectar(i) \/ Desconectar(i)
    \/ RecibirDispatch \/ Bloquear \/ AtenderIO \/ Mirar \/ ActuarSinMutex \/ Pasar \/ SoltarRechazo
    \/ CargarReadyPorPid \/ EsperarReady \/ SacarReady \/ CpuPide \/ CpuCortada
    \/ BuscarReady \/ DescontarReady \/ TomarBlocked \/ BuscarBlocked \/ SacarBloqueo \/ SacarEspera
    \/ SoltarBlocked \/ BuscarExec \/ BajarGrado
    \/ (\E p \in Victimas : FinalizarProceso(p)) \/ ProcesoEstado \/ \E n \in Grados : Multiprogramar(n)

LEMMA LasAcciones == Next => Acciones \/ \E i \in Interfaces : Chocar(i)
  BY DEF Next, Avanza, Entorno, Comun, HiloInterfaz, Receptor, Planificador, Buscar, Acciones

LEMMA ChocarRompe == (\E i \in Interfaces : Chocar(i)) => ~ Vive'
  BY DEF Chocar, Quiebra, Vive

LEMMA PasoGuiones ==
    ASSUME Tipos, Guiones, Next, Vive'
    PROVE  Guiones'
  <1>1. /\ colas.blocked \in Seq(Entrada) /\ cpu.aKernel \in Seq(Pedido) /\ deMemoria \in Seq(Procesos)
        /\ \A i \in Interfaces : io[i].espera \in Seq(Procesos)
    BY DEF Tipos, Colas, Cpu, DatosInterfaz
  <1>2. ASSUME NEW h \in Hilos, CargarReady(h) \/ LtsEx(h) \/ Tomar(h) \/ Girar(h) \/ Reponer(h)
        PROVE  Guiones'
    BY <1>1, <1>2, PasoCargarReady, PasoLtsEx, PasoTomar, PasoGirar, PasoReponer DEF SigueBorrando
  <1>3. ASSUME NEW i \in Interfaces, DesocuparIO(i) \/ Liberar(i) \/ Siguiente(i) \/ Vaciar(i) \/ Free(i) \/ Desconectar(i)
        PROVE  Guiones'
    BY <1>1, <1>3, PasoDesocupar, PasoLiberar, PasoSiguiente, PasoVaciar, PasoFree, PasoDesconectar
  <1>4. CASE RecibirDispatch \/ Bloquear \/ Mirar
    BY <1>1, <1>4, PasoRecibir, PasoBloquear, PasoMirar
  <1>5. CASE AtenderIO \/ ActuarSinMutex \/ Pasar \/ SoltarRechazo
    <2>1. /\ tareas["dispatch"] # <<>> /\ Sigue("dispatch", <<>>)
          /\ Primera(tareas["dispatch"]) \in {"atender", "soltar", "pasar", "ocupar", "encolar"}
      BY <1>5 DEF AtenderIO, ActuarSinMutex, Pasar, SoltarRechazo, En, Primera, Quiebra, Vive
    <2> QED BY <2>1, PasoTermina DEF TerminaDispatch
  <1>6. CASE CargarReadyPorPid \/ EsperarReady \/ SacarReady
    BY <1>1, <1>6, PasoPorPid, PasoEsperar, PasoSacar
  <1>7. CASE BuscarReady \/ TomarBlocked \/ BuscarBlocked \/ SacarBloqueo
    BY <1>1, <1>7, PasoBuscarReady, PasoTomarBlocked, PasoBuscarBlocked, PasoSacarBloqueo DEF CambiaConsola
  <1>8. CASE DescontarReady \/ SoltarBlocked \/ BuscarExec \/ BajarGrado
    <2>1. /\ tareas["consola"] # <<>> /\ Sigue("consola", <<>>)
          /\ Primera(tareas["consola"]) \in {"bajarGrado", "descontarReady", "soltarBlocked", "buscarExec"}
      BY <1>8 DEF DescontarReady, SoltarBlocked, BuscarExec, BajarGrado, En, Primera
    <2> QED BY <2>1, PasoResto DEF CambiaConsola
  <1>9. CASE SacarEspera
    <2>1. /\ tareas["consola"] # <<>> /\ Sigue("consola", <<>>) /\ Primera(tareas["consola"]) \in Sacar
      BY <1>9 DEF SacarEspera, En, Primera, Sacar
    <2> QED BY <2>1, PasoSacarTail DEF CambiaConsola
  <1>10. CASE (\E p \in Victimas : FinalizarProceso(p)) \/ \E n \in Grados : Multiprogramar(n)
    BY <1>10, PasoFinalizar, PasoMulti DEF CambiaConsola
  <1>11. CASE tareas' = tareas
    BY <1>11 DEF Guiones
  <1>12. CpuPide \/ CpuCortada \/ (\E i \in Interfaces : Conectar(i)) => tareas' = tareas
    BY DEF CpuPide, CpuCortada, Conectar
  <1>13. CASE ProcesoEstado
    BY <1>13, PasoListar DEF CambiaConsola
  <1> QED BY <1>2, <1>3, <1>4, <1>5, <1>6, <1>7, <1>8, <1>9, <1>10, <1>11, <1>12, <1>13, LasAcciones, ChocarRompe
          DEF Acciones

-----------------------------------------------------------------------------
(* Types.                                                                  *)

LEMMA Comienza == Init => IInv
  <1> SUFFICES ASSUME Init PROVE IInv
    OBVIOUS
  <1> USE InterfacesAssumption DEF Init
  <1>1. deMemoria \in Seq(Procesos) /\ IsInjective(deMemoria)
    BY TodosUnaVez
  <1>2. Tipos
    <2>1. /\ colas \in Colas /\ sem \in Semaforos /\ io \in [Interfaces -> DatosInterfaz]
          /\ enviadas \in [Interfaces -> Seq(Procesos)] /\ cpu \in Cpu
      BY <1>1 DEF Colas, Semaforos, DatosInterfaz, Nueva, Cpu
    <2>2. dueno \in [{"ready", "blocked"} \cup Interfaces -> Hilos \cup {Nadie}]
      OBVIOUS
    <2> QED BY <1>1, <2>1, <2>2 DEF Tipos
  <1>3. \A h \in Hilos : tareas[h] = <<>>
    OBVIOUS
  <1>4. Guiones
    BY NadaObs, Distintos, <1>3 DEF Guiones
  <1>5. Llaves
    BY <1>3, Distintos, NadaObs DEF Llaves, Llave, Nadie
  <1>6. Estados
    BY <1>3, Distintos, NadaObs DEF Estados, Estado, Nueva, Actua, Finales
  <1>7. Unico
    BY <1>3, Distintos, NadaObs DEF Unico, EnLugar, EnUso, EnHilo, ToSet, Nueva
  <1>8. SinRepetir
    BY <1>1 DEF SinRepetir, Nueva, IsInjective
  <1>9. Entradas
    BY <1>3, Distintos DEF Entradas, PideEntrada, EnUso, Nueva, Actua, ToSet
  <1> QED BY <1>2, <1>4, <1>5, <1>6, <1>7, <1>8, <1>9 DEF IInv, Sano

LEMMA TiposPaso ==
    ASSUME Tipos, Sano, Next
    PROVE  Tipos'
  <1>1. /\ colas \in Colas /\ deMemoria \in Seq(Procesos) /\ sem \in Semaforos
        /\ dueno \in [{"ready", "blocked"} \cup Interfaces -> Hilos \cup {Nadie}]
        /\ io \in [Interfaces -> DatosInterfaz] /\ enviadas \in [Interfaces -> Seq(Procesos)]
        /\ cpu \in Cpu
        /\ quiebre \in {"no", "caida", "ajeno", "zombi", "lista"} /\ carreras \subseteq Interfaces
    BY DEF Tipos
  <1>2. /\ colas.new \in Seq(Procesos) /\ colas.ready \in Seq(Procesos) /\ colas.blocked \in Seq(Entrada)
        /\ colas.exec \in Seq(Procesos) /\ colas.exit \in Seq(Procesos)
        /\ cpu.aCpu \in Seq(Procesos) /\ cpu.aKernel \in Seq(Pedido)
    BY <1>1 DEF Colas, Cpu
  <1>3. Guiones /\ SinRepetir
    BY DEF Sano
  <1>4. ASSUME NEW h \in Hilos, CargarReady(h) \/ LtsEx(h) \/ Tomar(h) \/ Girar(h) \/ Reponer(h)
        PROVE  Tipos'
    <2>1. CASE CargarReady(h)
      <3>1. Arg(h) \in Procesos
        BY <1>3, <2>1, PasoCargarReady
      <3>2. Append(colas.ready, Arg(h)) \in Seq(Procesos)
        BY <3>1, <1>2
      <3>3. colas' \in Colas
        BY <1>1, <3>2, <2>1 DEF CargarReady, Colas
      <3>4. sem.ready + 1 \in Nat
        BY <1>1 DEF Semaforos
      <3>5. sem' \in Semaforos
        BY <1>1, <3>4, <2>1 DEF CargarReady, Semaforos
      <3> QED BY <1>1, <3>3, <3>5, <2>1 DEF CargarReady, Tipos, historia
    <2>2. CASE LtsEx(h)
      <3>1. Arg(h) \in Procesos
        BY <1>3, <2>2, PasoLtsEx
      <3>2. Append(colas.exit, Arg(h)) \in Seq(Procesos)
        BY <3>1, <1>2
      <3>3. colas' \in Colas
        BY <1>1, <3>2, <2>2 DEF LtsEx, Colas
      <3>4. sem.gm + 1 \in Nat
        BY <1>1 DEF Semaforos
      <3>5. sem' \in Semaforos
        BY <1>1, <3>4, <2>2 DEF LtsEx, Semaforos
      <3> QED BY <1>1, <3>3, <3>5, <2>2 DEF LtsEx, Tipos, historia
    <2>3. CASE Tomar(h)
      <3>1. ArgI(h) \in Interfaces
        BY <1>3, <2>3, PasoTomar
      <3> QED BY <1>1, <3>1, <2>3 DEF Tomar, Cruzar, Tipos
    <2>4. CASE Girar(h)
      <3>1. colas.blocked # <<>> => Tail(colas.blocked) \in Seq(Entrada)
        BY <1>2, SinPrimero
      <3>2. colas' \in Colas
        BY <1>1, <3>1, <2>4 DEF Girar, Girando, Quiebra, Colas
      <3> QED BY <1>1, <3>2, <2>4 DEF Girar, Girando, Quiebra, Tipos
    <2>5. CASE Reponer(h)
      <3>1. [p |-> Arg(h), i |-> ArgI(h)] \in Entrada
        BY <1>3, <2>5, PasoReponer DEF Entrada
      <3>2. Append(colas.blocked, [p |-> Arg(h), i |-> ArgI(h)]) \in Seq(Entrada)
        BY <3>1, <1>2
      <3>3. colas' \in Colas
        BY <1>1, <3>2, <2>5 DEF Reponer, Colas
      <3> QED BY <1>1, <3>3, <2>5 DEF Reponer, Tipos, historia
    <2> QED BY <1>4, <2>1, <2>2, <2>3, <2>4, <2>5
  <1>5. ASSUME NEW i \in Interfaces, DesocuparIO(i) \/ Liberar(i) \/ Siguiente(i) \/ Vaciar(i) \/ Free(i)
                                     \/ Conectar(i) \/ Desconectar(i)
        PROVE  Tipos'
    <2>0. /\ io[i] \in DatosInterfaz /\ io[i].espera \in Seq(Procesos) /\ enviadas[i] \in Seq(Procesos)
          /\ io[i].usando \in Procesos \cup {Nulo, Basura}
          /\ i \in Hilos
      BY <1>1, Distintos DEF DatosInterfaz
    <2>1. CASE DesocuparIO(i)
      <3>1. Tail(enviadas[i]) \in Seq(Procesos)
        BY <2>0, <2>1, SinPrimero DEF DesocuparIO
      <3> QED BY <1>1, <2>0, <3>1, <2>1 DEF DesocuparIO, Cruzar, Quiebra, Tipos
    <2>2. CASE Liberar(i)
      BY <1>1, <2>0, <2>2 DEF Liberar, Tipos, DatosInterfaz, historia
    <2>3. CASE Siguiente(i)
      <3>1. CASE io[i].espera = <<>>
        BY <1>1, <3>1, <2>3 DEF Siguiente, Tipos, historia
      <3>2. CASE io[i].espera # <<>>
        <4>1. /\ Head(io[i].espera) \in Procesos /\ Tail(io[i].espera) \in Seq(Procesos)
              /\ Append(enviadas[i], Head(io[i].espera)) \in Seq(Procesos)
          BY <2>0, <3>2, SinPrimero
        <4>2. io' \in [Interfaces -> DatosInterfaz]
          <5> DEFINE p == Head(io[i].espera)
                     e == Tail(io[i].espera)
                     x == [io[i] EXCEPT !.espera = e, !.usando = p, !.libre = FALSE]
          <5>1. x \in DatosInterfaz
            BY <2>0, <4>1 DEF DatosInterfaz
          <5>2. io' = [io EXCEPT ![i] = x]
            BY <1>1, <2>0, <3>2, <2>3 DEF Siguiente
          <5> HIDE DEF x
          <5> QED BY <1>1, <5>1, <5>2
        <4>3. enviadas' \in [Interfaces -> Seq(Procesos)]
          BY <1>1, <3>2, <4>1, <2>3 DEF Siguiente
        <4> QED BY <1>1, <2>0, <4>2, <4>3, <2>3 DEF Siguiente, Tipos, historia
      <3> QED BY <3>1, <3>2
    <2>4. CASE Vaciar(i)
      <3>1. Tail(io[i].espera) \in Seq(Procesos)
        BY <2>0, <2>4, SinPrimero DEF Vaciar
      <3> QED BY <1>1, <2>0, <3>1, <2>4 DEF Vaciar, Tipos, DatosInterfaz, historia
    <2>5. CASE Free(i)
      BY <1>1, <2>5 DEF Free, Quiebra, Tipos
    <2>6. CASE Conectar(i)
      <3>1. Nueva \in DatosInterfaz
        BY DEF Nueva, DatosInterfaz
      <3> QED BY <1>1, <3>1, <2>6 DEF Conectar, Tipos, historia
    <2>7. CASE Desconectar(i)
      <3>1. io' \in [Interfaces -> DatosInterfaz]
        BY <1>1, <2>0, <2>7 DEF Desconectar, DatosInterfaz
      <3>2. <<>> \in Seq(Procesos)
        OBVIOUS
      <3>3. enviadas' \in [Interfaces -> Seq(Procesos)]
        BY <1>1, <3>2, <2>7 DEF Desconectar
      <3> QED BY <1>1, <3>1, <3>3, <2>7 DEF Desconectar, Tipos, historia
    <2> QED BY <1>5, <2>1, <2>2, <2>3, <2>4, <2>5, <2>6, <2>7
  <1>6. CASE RecibirDispatch
    <2>1. Tail(cpu.aKernel) \in Seq(Pedido)
      BY <1>2, <1>6, SinPrimero DEF RecibirDispatch
    <2>2. colas.exec # <<>> => Tail(colas.exec) \in Seq(Procesos)
      BY <1>2, SinPrimero
    <2>3. cpu' \in Cpu
      BY <1>1, <2>1, <1>6 DEF RecibirDispatch, Cpu
    <2>4. colas' \in Colas /\ sem' \in Semaforos
      BY <1>1, <2>2, <1>6 DEF RecibirDispatch, Colas, Semaforos
    <2>5. /\ quiebre' \in {"no", "caida", "ajeno", "zombi", "lista"}
          /\ UNCHANGED <<deMemoria, dueno, io, enviadas, carreras>>
      BY <1>1, <1>6 DEF RecibirDispatch, Quiebra
    <2> QED BY <1>1, <2>3, <2>4, <2>5 DEF Tipos
  <1>7. CASE Bloquear
    <2>1. [p |-> Arg("dispatch"), i |-> ArgI("dispatch")] \in Entrada
      BY <1>3, <1>7, PasoBloquear DEF Entrada
    <2>2. Append(colas.blocked, [p |-> Arg("dispatch"), i |-> ArgI("dispatch")]) \in Seq(Entrada)
      BY <2>1, <1>2
    <2>3. colas' \in Colas
      BY <1>1, <2>2, <1>7 DEF Bloquear, Colas
    <2> QED BY <1>1, <2>3, <1>7 DEF Bloquear, Tipos, historia
  <1>8. CASE AtenderIO \/ ActuarSinMutex \/ Pasar \/ SoltarRechazo
    <2>0. CASE quiebre' # quiebre
      BY <1>1, <1>8, <2>0 DEF AtenderIO, ActuarSinMutex, Pasar, SoltarRechazo, Quiebra, Tipos, historia
    <2>a. CASE quiebre' = quiebre
      <3>1. /\ tareas["dispatch"] # <<>> /\ Sigue("dispatch", <<>>)
            /\ Primera(tareas["dispatch"]) \in {"atender", "soltar", "pasar", "ocupar", "encolar"}
        BY <1>8, <2>a DEF AtenderIO, ActuarSinMutex, Pasar, SoltarRechazo, En, Primera, Quiebra, Vive
      <3> DEFINE i == ArgI("dispatch")
                 p == Arg("dispatch")
      <3>2. p \in Procesos /\ i \in Interfaces
        BY <1>3, <3>1, PasoTermina DEF TerminaDispatch
      <3>3. /\ io[i] \in DatosInterfaz /\ io[i].espera \in Seq(Procesos) /\ enviadas[i] \in Seq(Procesos)
            /\ Append(io[i].espera, p) \in Seq(Procesos) /\ Append(enviadas[i], p) \in Seq(Procesos)
        BY <1>1, <3>2 DEF DatosInterfaz
      <3>4. OcuparIO(p, i) => io' \in [Interfaces -> DatosInterfaz] /\ enviadas' \in [Interfaces -> Seq(Procesos)]
        <4>1. OcuparIO(p, i) => io' \in [Interfaces -> DatosInterfaz]
          <5> HIDE DEF p, i
          <5>1. SUFFICES ASSUME io' = [io EXCEPT ![i].usando = p, ![i].libre = FALSE]
                         PROVE  io' \in [Interfaces -> DatosInterfaz]
            BY DEF OcuparIO
          <5>2. [io[i] EXCEPT !.usando = p, !.libre = FALSE] \in DatosInterfaz
            BY <3>2, <3>3 DEF DatosInterfaz
          <5>3. io' = [io EXCEPT ![i] = [io[i] EXCEPT !.usando = p, !.libre = FALSE]]
            BY <1>1, <3>2, <3>3, <5>1 DEF DatosInterfaz
          <5> QED BY <1>1, <3>2, <5>2, <5>3
        <4>2. OcuparIO(p, i) => enviadas' \in [Interfaces -> Seq(Procesos)]
          BY <1>1, <3>2, <3>3 DEF OcuparIO, Enviar
        <4> QED BY <4>1, <4>2
      <3>5. EncolarIO(p, i) => io' \in [Interfaces -> DatosInterfaz] /\ enviadas' \in [Interfaces -> Seq(Procesos)]
        BY <1>1, <3>2, <3>3 DEF EncolarIO, DatosInterfaz
      <3>6. AtenderIO => Tipos'
        <4>1. AtenderIO => OcuparIO(p, i) \/ EncolarIO(p, i)
          BY DEF AtenderIO
        <4> QED BY <1>1, <3>2, <3>4, <3>5, <4>1 DEF AtenderIO, Tipos, historia
      <3>7. ActuarSinMutex => Tipos'
        <4>1. ActuarSinMutex => OcuparIO(p, i) \/ EncolarIO(p, i)
          BY DEF ActuarSinMutex
        <4> QED BY <1>1, <3>4, <3>5, <4>1 DEF ActuarSinMutex, Tipos, historia
      <3>8. Pasar \/ SoltarRechazo => Tipos'
        BY <1>1, <2>a DEF Pasar, SoltarRechazo, Quiebra, Tipos, historia
      <3> QED BY <1>8, <3>6, <3>7, <3>8
    <2> QED BY <2>0, <2>a
  <1>9. CASE Mirar
    <2>1. ArgI("dispatch") \in Interfaces
      BY <1>3, <1>9, PasoMirar
    <2> QED BY <1>1, <2>1, <1>9 DEF Mirar, Tipos
  <1>10. CASE CargarReadyPorPid
    <2>1. Tail(deMemoria) \in Seq(Procesos)
      BY <1>1, <1>10, SinPrimero DEF CargarReadyPorPid
    <2>2. Sin(colas.new, Head(deMemoria)) \in Seq(Procesos)
      BY <1>2, <1>3, SinLemma DEF SinRepetir
    <2>5. sem.gm - 1 \in Nat
      BY <1>1, <1>10 DEF CargarReadyPorPid, Semaforos
    <2>3. sem' \in Semaforos
      BY <1>1, <2>5, <1>10 DEF CargarReadyPorPid, Semaforos
    <2>4. colas' \in Colas
      BY <1>1, <2>2, <1>10 DEF CargarReadyPorPid, Colas
    <2> QED BY <1>1, <2>1, <2>3, <2>4, <1>10 DEF CargarReadyPorPid, Tipos, historia
  <1>11. CASE EsperarReady
    <2>2. sem.ready - 1 \in Nat
      BY <1>1, <1>11 DEF EsperarReady, Semaforos
    <2>1. sem' \in Semaforos
      BY <1>1, <2>2, <1>11 DEF EsperarReady, Semaforos
    <2> QED BY <1>1, <2>1, <1>11 DEF EsperarReady, Tipos, historia
  <1>12. CASE SacarReady
    <2>1. sem' \in Semaforos
      BY <1>1, <1>12 DEF SacarReady, Semaforos
    <2>2. CASE colas.ready = <<>>
      BY <1>1, <2>1, <2>2, <1>12 DEF SacarReady, Quiebra, Tipos
    <2>3. CASE colas.ready # <<>>
      <3>1. /\ Head(colas.ready) \in Procesos /\ Tail(colas.ready) \in Seq(Procesos)
            /\ Append(colas.exec, Head(colas.ready)) \in Seq(Procesos)
            /\ Append(cpu.aCpu, Head(colas.ready)) \in Seq(Procesos)
        BY <1>2, <2>3, SinPrimero
      <3>2. colas' \in Colas
        BY <1>1, <3>1, <2>3, <1>12 DEF SacarReady, Colas
      <3>3. cpu' \in Cpu
        BY <1>1, <3>1, <2>3, <1>12 DEF SacarReady, Cpu
      <3> QED BY <1>1, <2>1, <3>2, <3>3, <2>3, <1>12 DEF SacarReady, Tipos
    <2> QED BY <2>2, <2>3
  <1>13. Desocupada \in Cpu
    <2>1. cpu.aCpu # <<>> => Head(cpu.aCpu) \in Procesos /\ Tail(cpu.aCpu) \in Seq(Procesos)
      BY <1>2, SinPrimero
    <2> QED BY <1>1, <2>1 DEF Desocupada, Cpu
  <1>14. CASE CpuPide
    <2>1. cpu.pcb \in Procesos
      BY <1>1, <1>14 DEF CpuPide, Cpu
    <2>2. PICK o \in IF restan[cpu.pcb] = 0 THEN {Nulo} ELSE Ordenes[cpu.pcb] :
             cpu' = [Desocupada EXCEPT !.cortada = @ /\ o = Nulo,
                                       !.aKernel = Append(@, [p |-> cpu.pcb, orden |-> o])]
      BY <1>14 DEF CpuPide
    <2>3. o \in Orden \cup {Nulo}
      BY <2>1, <2>2, InterfacesAssumption DEF Orden
    <2>4. [p |-> cpu.pcb, orden |-> o] \in Pedido
      BY <2>1, <2>3 DEF Pedido
    <2> DEFINE x == [p |-> cpu.pcb, orden |-> o]
               c == Desocupada.cortada /\ o = Nulo
               a == Append(Desocupada.aKernel, x)
    <2>5. a \in Seq(Pedido) /\ c \in BOOLEAN
      BY <2>4, <1>13 DEF Cpu
    <2>6. cpu' = [Desocupada EXCEPT !.cortada = c, !.aKernel = a]
      BY <2>2
    <2> HIDE DEF x, c, a
    <2>7. cpu' \in Cpu
      BY <1>13, <2>5, <2>6 DEF Cpu
    <2> QED BY <1>1, <2>7, <1>14 DEF CpuPide, Tipos, historia
  <1>15. CASE CpuCortada
    <2>1. cpu' \in Cpu
      BY <1>13, <1>15 DEF CpuCortada, Cpu
    <2> QED BY <1>1, <2>1, <1>15 DEF CpuCortada, Tipos, historia
  <1>16. CASE BuscarReady
    <2>1. Arg("consola") \in Procesos
      BY <1>3, <1>16, PasoBuscarReady
    <2>2. CASE Arg("consola") \notin ToSet(colas.ready)
      BY <1>1, <2>2, <1>16 DEF BuscarReady, Tipos, historia
    <2>3. CASE Arg("consola") \in ToSet(colas.ready)
      <3> DEFINE p == Arg("consola")
                 n == Posicion(colas.ready, p)
                 u == SubSeq(colas.ready, n + 1, Len(colas.ready)) \o SubSeq(colas.ready, 1, n - 1)
      <3>1. u \in Seq(Procesos) /\ Append(colas.exit, p) \in Seq(Procesos)
        BY <1>2, <1>3, <2>1, <2>3, GirarHasta DEF SinRepetir
      <3>2. /\ colas' = [colas EXCEPT !.ready = u, !.exit = Append(colas.exit, p)]
            /\ sem' = [sem EXCEPT !.gm = @ + 1]
            /\ dueno' = [dueno EXCEPT !["ready"] = "consola"]
        BY <2>3, <1>16, <1>1 DEF BuscarReady, Colas
      <3> HIDE DEF u, p
      <3>3. colas' \in Colas
        BY <1>1, <3>1, <3>2 DEF Colas
      <3>6. sem.gm + 1 \in Nat
        BY <1>1 DEF Semaforos
      <3>4. sem' \in Semaforos
        BY <1>1, <3>2, <3>6 DEF Semaforos
      <3>5. dueno' \in [{"ready", "blocked"} \cup Interfaces -> Hilos \cup {Nadie}]
        BY <1>1, <3>2, Distintos
      <3> QED BY <1>1, <3>3, <3>4, <3>5, <1>16 DEF BuscarReady, Tipos, historia
    <2> QED BY <2>2, <2>3
  <1>17. CASE DescontarReady
    <2>2. sem.ready - 1 \in Nat
      BY <1>1, <1>17 DEF DescontarReady, Semaforos
    <2>1. sem' \in Semaforos
      BY <1>1, <2>2, <1>17 DEF DescontarReady, Semaforos
    <2> QED BY <1>1, <2>1, <1>17 DEF DescontarReady, Tipos, historia
  <1>18. CASE TomarBlocked \/ SoltarBlocked
    BY <1>1, <1>18, Distintos DEF TomarBlocked, SoltarBlocked, Tipos, historia
  <1>19. CASE BuscarBlocked
    <2>1. colas.blocked # <<>> => Tail(colas.blocked) \in Seq(Entrada)
      BY <1>2, SinPrimero
    <2>2. colas' \in Colas
      BY <1>1, <2>1, <1>19 DEF BuscarBlocked, Girando, Quiebra, Colas
    <2> QED BY <1>1, <2>2, <1>19 DEF BuscarBlocked, Girando, Quiebra, Tipos
  <1>20. CASE SacarBloqueo
    BY <1>1, <1>20 DEF SacarBloqueo, Quiebra, Tipos
  <1>21. CASE SacarEspera
    <2>1. /\ tareas["consola"] # <<>> /\ Sigue("consola", <<>>) /\ Primera(tareas["consola"]) \in Sacar
      BY <1>21 DEF SacarEspera, En, Primera, Sacar
    <2>2. ArgI("consola") \in Interfaces
      BY <2>1, <1>3, PasoSacarTail
    <2> DEFINE i == ArgI("consola")
               u == Sin(io[i].espera, Arg("consola"))
    <2>3. io[i] \in DatosInterfaz /\ u \in Seq(Procesos)
      BY <1>1, <1>3, <2>2, SinLemma DEF SinRepetir, DatosInterfaz
    <2>4. io' = [io EXCEPT ![i].espera = u]
      BY <1>21, <1>1, <2>2 DEF SacarEspera
    <2> HIDE DEF u
    <2>5. io' \in [Interfaces -> DatosInterfaz]
      BY <1>1, <2>2, <2>3, <2>4 DEF DatosInterfaz
    <2> QED BY <1>1, <2>2, <2>5, <1>21 DEF SacarEspera, Cruzar, Tipos
  <1>22. CASE BuscarExec
    <2>1. CASE colas.exec # <<>> /\ Head(colas.exec) = Arg("consola")
      <3>1. /\ Head(colas.exec) \in Procesos /\ Tail(colas.exec) \in Seq(Procesos)
            /\ Append(colas.exit, Arg("consola")) \in Seq(Procesos)
        BY <1>2, <2>1, SinPrimero
      <3>2. colas' \in Colas
        BY <1>1, <3>1, <2>1, <1>22 DEF BuscarExec, Colas
      <3>5. sem.gm + 1 \in Nat
        BY <1>1 DEF Semaforos
      <3>3. sem' \in Semaforos
        BY <1>1, <2>1, <3>5, <1>22 DEF BuscarExec, Semaforos
      <3>4. cpu' \in Cpu
        BY <1>1, <2>1, <1>22 DEF BuscarExec, Cpu
      <3> QED BY <1>1, <3>2, <3>3, <3>4, <1>22 DEF BuscarExec, Tipos, historia
    <2>2. CASE ~ (colas.exec # <<>> /\ Head(colas.exec) = Arg("consola"))
      BY <1>1, <2>2, <1>22 DEF BuscarExec, Tipos, historia
    <2> QED BY <2>1, <2>2
  <1>23. CASE BajarGrado
    <2>2. sem.gm - 1 \in Nat
      BY <1>1, <1>23 DEF BajarGrado, Semaforos
    <2>1. sem' \in Semaforos
      BY <1>1, <2>2, <1>23 DEF BajarGrado, Semaforos
    <2> QED BY <1>1, <2>1, <1>23 DEF BajarGrado, Tipos, historia
  <1>24. SinUltimo(colas.new) \in Seq(Procesos)
    BY <1>2, SinUltimoLemma
  <1>25. ASSUME NEW p \in Victimas, FinalizarProceso(p)
         PROVE  Tipos'
    <2>1. colas' \in Colas
      BY <1>1, <1>24, <1>25 DEF FinalizarProceso, Colas
    <2> QED BY <1>1, <2>1, <1>25 DEF FinalizarProceso, Quiebra, Tipos
  <1>26. CASE ProcesoEstado
    <2>1. colas' \in Colas
      BY <1>1, <1>24, <1>26 DEF ProcesoEstado, Colas
    <2> QED BY <1>1, <2>1, <1>26 DEF ProcesoEstado, Tipos, historia
  <1>27. ASSUME NEW n \in Grados, Multiprogramar(n)
         PROVE  Tipos'
    <2>1. n \in Nat /\ Grado \in Nat
      BY InterfacesAssumption
    <2>2. sem' \in Semaforos
      <3>1. CASE n < Grado
        BY <1>1, <2>1, <3>1, <1>27 DEF Multiprogramar, Semaforos
      <3>2. CASE ~ (n < Grado)
        <4>1. sem.gm + n - Grado \in Nat
          BY <1>1, <2>1, <3>2 DEF Semaforos
        <4> QED BY <1>1, <2>1, <3>2, <4>1, <1>27 DEF Multiprogramar, Semaforos
      <3> QED BY <3>1, <3>2
    <2> QED BY <1>1, <2>2, <1>27 DEF Multiprogramar, Tipos, historia
  <1>28. ASSUME NEW i \in Interfaces, Chocar(i)
         PROVE  Tipos'
    BY <1>1, <1>28 DEF Chocar, Quiebra, Tipos
  <1> QED BY <1>4, <1>5, <1>6, <1>7, <1>8, <1>9, <1>10, <1>11, <1>12, <1>14, <1>15, <1>16, <1>17, <1>18,
             <1>19, <1>20, <1>21, <1>22, <1>23, <1>25, <1>26, <1>27, <1>28, LasAcciones DEF Acciones

-----------------------------------------------------------------------------
(* Owners and interfaces.                                                  *)

Sana(i, k, s, x, v, d, c) ==
    /\ Llave(i, k, s, d) /\ Fase(s) \in Finales \cup OpsSolas \cup {"nada"}
    /\ Estado(i, x, v, Fase(s), d, c)
SanaEs(i) == Sana(i, dueno[i], tareas[i], io[i], enviadas[i], tareas["dispatch"], carreras)

LEMMA SanaTodas == Llaves /\ Estados <=> \A i \in Interfaces : SanaEs(i)
  BY DEF Llaves, Estados, SanaEs, Sana

LEMMA SanaIgual ==
    ASSUME NEW i, NEW k, NEW s, NEW u, NEW x, NEW v, NEW d, NEW c, NEW e,
           Sana(i, k, s, x, v, d, c), u = s \/ Mantiene(s, u), c \subseteq e
    PROVE  Sana(i, k, u, x, v, d, e)
  BY DEF Sana, Llave, Estado, Mantiene

LEMMA SanaDispatch ==
    ASSUME NEW i, NEW k, NEW s, NEW x, NEW v, NEW d, NEW e, NEW c, NEW cc,
           Sana(i, k, s, x, v, d, c), c \subseteq cc,
           e = <<>> => k # "dispatch",
           e # <<>> => d # <<>> /\ Ultima(e) = Ultima(d) /\ Primera(e) \notin {"tomar", "ocupar", "encolar"}
    PROVE  Sana(i, k, s, x, v, e, cc)
  BY DEF Sana, Llave, Estado, Actua

\* The steps that leave everything an interface has.
LEMMA Lejos ==
    ASSUME NEW i \in Interfaces, SanaEs(i), dueno'[i] = dueno[i], io'[i] = io[i], enviadas'[i] = enviadas[i],
           tareas'["dispatch"] = tareas["dispatch"], carreras \subseteq carreras',
           tareas'[i] = tareas[i] \/ Mantiene(tareas[i], tareas'[i])
    PROVE  SanaEs(i)'
  BY SanaIgual DEF SanaEs

LEMMA LejosDispatch ==
    ASSUME NEW i \in Interfaces, SanaEs(i), dueno'[i] = dueno[i], io'[i] = io[i], enviadas'[i] = enviadas[i],
           tareas'[i] = tareas[i], carreras \subseteq carreras',
           tareas'["dispatch"] = <<>> => dueno[i] # "dispatch",
           tareas'["dispatch"] # <<>> =>
              /\ tareas["dispatch"] # <<>> /\ Ultima(tareas'["dispatch"]) = Ultima(tareas["dispatch"])
              /\ Primera(tareas'["dispatch"]) \notin {"tomar", "ocupar", "encolar"}
    PROVE  SanaEs(i)'
  BY SanaDispatch DEF SanaEs

\* An interface's thread without its mutex has nothing to do, or closes it.
LEMMA SinMutex ==
    ASSUME Guiones, NEW i \in Interfaces, ~ Posee(tareas[i])
    PROVE  Fase(tareas[i]) \in {"nada", "vaciar"}
  <1>1. CASE tareas[i] = <<>>
    BY <1>1, NadaObs
  <1>2. CASE tareas[i] # <<>> /\ Primera(tareas[i]) = "tomar"
    <2>1. tareas[i] = <<Op("tomar", Nulo, i), Op("vaciar", Nulo, i)>>
      BY <1>2 DEF Guiones, GuionInterfaz, Borrando, OpsSolas, OpsBorrar
    <2> QED BY <2>1, TomarObs
  <1>3. CASE tareas[i] # <<>> /\ Primera(tareas[i]) # "tomar"
    <2>1. Primera(tareas[i]) \in OpsSolas \cup OpsBorrar
      BY <1>3, QuienPuede, Distintos
    <2>2. Primera(tareas[i]) \in OpsSolas => Posee(tareas[i])
      BY <1>3, SolaPasa
    <2>3. Primera(tareas[i]) \in OpsBorrar => Posee(tareas[i])
      BY <1>3, Borrador
    <2> QED BY <2>1, <2>2, <2>3
  <1> QED BY <1>1, <1>2, <1>3

\* The last step of what the receiver does.
LEMMA FinDispatch ==
    ASSUME Guiones, tareas["dispatch"] # <<>>
    PROVE  LET d == tareas["dispatch"] IN
           /\ Len(d) \in DOMAIN d
           /\ Ultima(d).i \in Interfaces => Ultima(d).op \in {"atender", "soltar", "pasar"}
           /\ Primera(d) # "ltsEx" => Ultima(d).i = Head(d).i
           /\ Primera(d) \in {"mirar", "ocupar", "encolar"} => Ultima(d).op = "pasar"
  <1>1. PICK p \in Procesos : \E i \in Interfaces \cup {Nulo} : PasaDispatch(tareas["dispatch"], p, i)
    BY EnDispatch
  <1>2. PICK i \in Interfaces \cup {Nulo} : PasaDispatch(tareas["dispatch"], p, i)
    BY <1>1
  <1> QED BY <1>2 DEF PasaDispatch, TrasDispatch

\* The rest of the receiver's steps after a lock or lts_ex.
LEMMA SigueUltima ==
    ASSUME SigueDispatch, Primera(tareas["dispatch"]) \in {"tomar", "ltsEx"}
    PROVE  LET d == tareas["dispatch"]
               u == tareas'["dispatch"]
           IN  /\ u = <<>> => Primera(d) = "ltsEx" /\ Ultima(d).op = "ltsEx"
               /\ u # <<>> => Ultima(u) = Ultima(d) /\ Primera(u) \in {"ltsEx", "bloquear", "soltar", "pasar"}
               /\ Primera(d) = "tomar" => /\ u # <<>> /\ Ultima(d).op \in {"atender", "soltar"}
                                          /\ Ultima(d).i = Head(d).i
  <1>1. PICK p \in Procesos : \E i \in Interfaces \cup {Nulo} : PasaDispatch(tareas["dispatch"], p, i)
    BY DEF SigueDispatch
  <1>2. PICK i \in Interfaces \cup {Nulo} : PasaDispatch(tareas["dispatch"], p, i)
    BY <1>1
  <1> QED BY <1>2 DEF PasaDispatch, TrasDispatch, SigueDispatch

\* The threads of the interfaces.
LEMMA SanaComun ==
    ASSUME Tipos, Guiones, Llaves, Estados, NEW h \in Hilos,
           CargarReady(h) \/ LtsEx(h) \/ Tomar(h) \/ Girar(h) \/ Reponer(h), Vive', NEW i \in Interfaces
    PROVE  SanaEs(i)'
  <1>0. SanaEs(i) /\ colas.blocked \in Seq(Entrada)
    BY SanaTodas DEF Tipos, Colas
  <1>1. CASE CargarReady(h)
    <2>1. SoloCambia(h) /\ h # "dispatch" /\ (h \in Interfaces => Mantiene(tareas[h], tareas'[h]))
      BY <1>1, PasoCargarReady, Distintos DEF SigueBorrando
    <2> QED BY <1>0, <1>1, <2>1, Lejos, Distintos DEF CargarReady, SoloCambia, historia
  <1>2. CASE LtsEx(h) /\ h # "dispatch"
    <2>1. SoloCambia(h) /\ (h \in Interfaces => Mantiene(tareas[h], tareas'[h]))
      BY <1>2, PasoLtsEx, Distintos DEF SigueBorrando
    <2> QED BY <1>0, <1>2, <2>1, Lejos, Distintos DEF LtsEx, SoloCambia, historia
  <1>3. CASE LtsEx(h) /\ h = "dispatch"
    <2>1. SoloCambia(h) /\ SigueDispatch /\ Primera(tareas["dispatch"]) = "ltsEx" /\ tareas["dispatch"] # <<>>
      BY <1>3, PasoLtsEx
    <2>2. UNCHANGED <<dueno, io, enviadas, carreras>>
      BY <1>3 DEF LtsEx, historia
    <2>3. tareas'[i] = tareas[i]
      BY <2>1, <1>3, Distintos DEF SoloCambia
    <2>4. tareas'["dispatch"] = <<>> => dueno[i] # "dispatch"
      BY <2>1, SigueUltima, <1>0 DEF SanaEs, Sana, Llave
    <2> QED BY <1>0, <2>1, <2>2, <2>3, <2>4, SigueUltima, LejosDispatch
  <1>4. CASE Tomar(h) /\ h # "dispatch"
    <2>1. /\ h \in Interfaces /\ SoloCambia(h) /\ ArgI(h) = h /\ Fase(tareas[h]) = "vaciar"
          /\ Fase(tareas'[h]) = "vaciar" /\ ~ Posee(tareas[h]) /\ Posee(tareas'[h])
      BY <1>4, PasoTomar
    <2>2. /\ dueno' = [dueno EXCEPT ![h] = h] /\ dueno[h] = Nadie /\ UNCHANGED <<io, enviadas>>
          /\ carreras \subseteq carreras' /\ tareas'["dispatch"] = tareas["dispatch"]
      BY <1>4, <2>1, Distintos DEF Tomar, Cerrado, Cruzar, SoloCambia
    <2>3. CASE i # h
      BY <1>0, <2>1, <2>2, <2>3, Lejos, Distintos DEF SoloCambia
    <2>4. CASE i = h
      <3>1. dueno'[i] = i
        BY <2>2, <2>4 DEF Tipos
      <3>2. Llave(i, dueno'[i], tareas'[i], tareas'["dispatch"])
        BY <3>1, <2>1, <2>4, Distintos DEF Llave
      <3>3. Sana(i, dueno[i], tareas[i], io[i], enviadas[i], tareas["dispatch"], carreras)
        BY <1>0 DEF SanaEs
      <3>4. Estado(i, io'[i], enviadas'[i], Fase(tareas'[i]), tareas'["dispatch"], carreras')
        BY <2>1, <2>2, <2>4, <3>3 DEF Sana, Estado
      <3> QED BY <3>2, <3>4, <2>1, <2>4 DEF SanaEs, Sana, OpsSolas
    <2> QED BY <2>3, <2>4
  <1>5. CASE Tomar(h) /\ h = "dispatch"
    <2> DEFINE d == tareas["dispatch"]
               u == tareas'["dispatch"]
               j == ArgI("dispatch")
    <2>1. /\ j \in Interfaces /\ SoloCambia(h) /\ d # <<>> /\ Primera(d) = "tomar" /\ SigueDispatch
      BY <1>5, PasoTomar
    <2>2. /\ dueno' = [dueno EXCEPT ![j] = "dispatch"] /\ dueno[j] = Nadie /\ UNCHANGED <<io, enviadas>>
          /\ carreras \subseteq carreras' /\ tareas'[i] = tareas[i]
      BY <1>5, <2>1, Distintos DEF Tomar, Cerrado, Cruzar, SoloCambia
    <2>3. /\ u # <<>> /\ Ultima(u) = Ultima(d) /\ Primera(u) \notin {"tomar", "ocupar", "encolar"}
          /\ Ultima(d).op \in {"atender", "soltar"} /\ Ultima(d).i = j
      BY <2>1, SigueUltima DEF ArgI
    <2>4. dueno[i] # "dispatch"
      BY <1>0, <2>1 DEF SanaEs, Sana, Llave
    <2>5. CASE i # j
      BY <1>0, <2>1, <2>2, <2>3, <2>4, <2>5, LejosDispatch
    <2>6. CASE i = j
      <3>1. dueno'[i] = "dispatch"
        BY <2>2, <2>6 DEF Tipos
      <3>2. Sana(i, dueno[i], tareas[i], io[i], enviadas[i], d, carreras) /\ dueno[i] # i
        BY <1>0, <2>2, <2>6, Distintos DEF SanaEs, Nadie
      <3>3. Sana(i, dueno[i], tareas[i], io[i], enviadas[i], u, carreras')
        BY <3>2, <2>1, <2>2, <2>3, SanaDispatch
      <3>4. Llave(i, dueno'[i], tareas[i], u)
        BY <3>1, <3>2, <2>3, <2>6, Distintos DEF Llave, Sana
      <3> QED BY <3>3, <3>4, <2>2 DEF SanaEs, Sana
    <2> QED BY <2>5, <2>6
  <1>6. CASE Girar(h)
    <2>1. h \in Interfaces /\ SoloCambia(h) /\ Mantiene(tareas[h], tareas'[h])
      BY <1>0, <1>6, PasoGirar DEF SigueBorrando
    <2> QED BY <1>0, <1>6, <2>1, Lejos, Distintos DEF Girar, SoloCambia
  <1>7. CASE Reponer(h)
    <2>1. SoloCambia(h) /\ h # "dispatch" /\ (h \in Interfaces => Mantiene(tareas[h], tareas'[h]))
      BY <1>7, PasoReponer, Distintos DEF SigueBorrando
    <2> QED BY <1>0, <1>7, <2>1, Lejos, Distintos DEF Reponer, SoloCambia, historia
  <1> QED BY <1>1, <1>2, <1>3, <1>4, <1>5, <1>6, <1>7

LEMMA SanaHilo ==
    ASSUME Tipos, Guiones, Llaves, Estados, NEW h \in Interfaces,
           DesocuparIO(h) \/ Liberar(h) \/ Siguiente(h) \/ Vaciar(h) \/ Free(h) \/ Conectar(h) \/ Desconectar(h),
           Vive', NEW i \in Interfaces
    PROVE  SanaEs(i)'
  <1> DEFINE d == tareas["dispatch"]
  <1>0. /\ SanaEs(i) /\ SanaEs(h) /\ colas.blocked \in Seq(Entrada) /\ io[h].espera \in Seq(Procesos)
        /\ enviadas[h] \in Seq(Procesos) /\ h \in Hilos /\ h # "dispatch" /\ Nadie # h /\ Nadie # "dispatch"
        /\ Nulo \notin Procesos /\ Basura \notin Procesos
    BY SanaTodas, Distintos, InterfacesAssumption DEF Tipos, Colas, DatosInterfaz, Nadie
  <1>t. /\ io \in [Interfaces -> DatosInterfaz] /\ io[h] \in DatosInterfaz
        /\ dueno \in [{"ready", "blocked"} \cup Interfaces -> Hilos \cup {Nadie}]
        /\ enviadas \in [Interfaces -> Seq(Procesos)]
    BY DEF Tipos
  <1>a. /\ Llave(h, dueno[h], tareas[h], d)
        /\ Estado(h, io[h], enviadas[h], Fase(tareas[h]), d, carreras)
    BY <1>0 DEF SanaEs, Sana
  <1>1. /\ SoloCambia(h) /\ tareas'["dispatch"] = d /\ carreras \subseteq carreras'
        /\ \A j \in Interfaces \ {h} : dueno'[j] = dueno[j] /\ io'[j] = io[j] /\ enviadas'[j] = enviadas[j]
    <2>1. SoloCambia(h)
      BY <1>0, PasoDesocupar, PasoLiberar, PasoSiguiente, PasoVaciar, PasoFree, PasoDesconectar DEF Conectar, SoloCambia
    <2>2. tareas'["dispatch"] = d
      BY <2>1, <1>0, Distintos DEF SoloCambia
    <2>3. ASSUME NEW j \in Interfaces \ {h}
          PROVE  dueno'[j] = dueno[j] /\ io'[j] = io[j] /\ enviadas'[j] = enviadas[j]
      BY <1>t, <2>3 DEF DesocuparIO, Liberar, Siguiente, Vaciar, Free, Conectar, Desconectar
    <2>4. carreras \subseteq carreras'
      BY DEF DesocuparIO, Liberar, Siguiente, Vaciar, Free, Conectar, Desconectar, Cruzar, historia
    <2> QED BY <2>1, <2>2, <2>3, <2>4
  <1>2. CASE i # h
    BY <1>0, <1>1, <1>2, Lejos, Distintos DEF SoloCambia
  <1>3. ASSUME Llave(h, dueno'[h], tareas'[h], d), Fase(tareas'[h]) \in Finales \cup OpsSolas \cup {"nada"},
               Estado(h, io'[h], enviadas'[h], Fase(tareas'[h]), d, carreras'), i = h
        PROVE  SanaEs(i)'
    BY <1>1, <1>3 DEF SanaEs, Sana
  <1>4. CASE DesocuparIO(h)
    <2>1. /\ tareas[h] = <<>> /\ io[h].usando \in Procesos
          /\ dueno' = [dueno EXCEPT ![h] = h] /\ Fase(tareas'[h]) = "liberar" /\ Posee(tareas'[h])
      BY <1>0, <1>4, PasoDesocupar
    <2>2. /\ Fase(tareas[h]) = "nada" /\ dueno[h] = Nadie /\ enviadas[h] # <<>> /\ enviadas'[h] = Tail(enviadas[h])
          /\ io' = io /\ (h \notin carreras' => ~ EnCarrera(h) /\ h \notin carreras)
      BY <1>4, <1>t, <2>1, NadaObs DEF DesocuparIO, Cerrado, Cruzar
    <2>3. dueno'[h] = h
      BY <1>t, <2>1
    <2>4. Llave(h, dueno'[h], tareas'[h], d)
      BY <2>1, <2>3, <1>0 DEF Llave
    <2>5. ~ EnCarrera(h) => ~ Actua(d, "ocupar", h) /\ ~ Actua(d, "encolar", h)
      BY SoloVive, <1>4 DEF EnCarrera, En, ArgI, Actua, Primera, DesocuparIO, Libre
    <2>6. io[h].esta
      BY <1>a, <2>2 DEF Estado
    <2>7. h \notin carreras' => enviadas'[h] = <<>> /\ ~ io[h].libre
      <3> SUFFICES ASSUME h \notin carreras' PROVE enviadas'[h] = <<>> /\ ~ io[h].libre
        OBVIOUS
      <3>1. enviadas[h] = IF io[h].libre THEN <<>> ELSE <<io[h].usando>>
        BY <1>a, <2>2, <2>6 DEF Estado
      <3>2. ~ io[h].libre
        BY <3>1, <2>2
      <3>3. enviadas[h] = <<io[h].usando>>
        BY <3>1, <3>2
      <3>4. Tail(enviadas[h]) = <<>>
        BY ONLY <3>3
      <3> QED BY <3>2, <3>4, <2>2
    <2>8. Estado(h, io'[h], enviadas'[h], Fase(tareas'[h]), d, carreras')
      BY <2>1, <2>2, <2>5, <2>6, <2>7, <1>a DEF Estado
    <2> QED BY <1>3, <1>2, <2>1, <2>4, <2>8 DEF Finales
  <1>5. CASE Liberar(h)
    <2>1. /\ Fase(tareas[h]) = "liberar" /\ Posee(tareas[h])
          /\ Fase(tareas'[h]) = "siguiente" /\ Posee(tareas'[h])
      BY <1>5, PasoLiberar
    <2>2. /\ io'[h].esta = io[h].esta /\ io'[h].libre = TRUE /\ io'[h].usando = Nulo
          /\ UNCHANGED <<enviadas, dueno, carreras>>
      BY <1>5, <1>t DEF Liberar, historia, DatosInterfaz
    <2>3. Llave(h, dueno'[h], tareas'[h], d)
      BY <1>a, <2>1, <2>2 DEF Llave
    <2>4. Estado(h, io'[h], enviadas'[h], Fase(tareas'[h]), d, carreras')
      BY <2>1, <2>2, <1>a, <1>0 DEF Estado
    <2> QED BY <1>3, <1>2, <2>1, <2>3, <2>4 DEF OpsSolas
  <1>6. CASE Siguiente(h)
    <2>1. /\ Fase(tareas[h]) = "siguiente" /\ Posee(tareas[h])
          /\ Fase(tareas'[h]) = "nada" /\ ~ Posee(tareas'[h])
      BY <1>6, PasoSiguiente
    <2>2. dueno'[h] = Nadie /\ UNCHANGED carreras
      BY <1>6, <1>t DEF Siguiente, historia
    <2>3. Llave(h, dueno'[h], tareas'[h], d)
      BY <1>0, <2>1, <2>2 DEF Llave
    <2>4. io[h].esta /\ (h \notin carreras => enviadas[h] = <<>> /\ io[h].libre
                                              /\ ~ Actua(d, "ocupar", h) /\ ~ Actua(d, "encolar", h))
      BY <1>a, <2>1 DEF Estado
    <2>5. CASE io[h].espera = <<>>
      <3>1. io' = io /\ enviadas' = enviadas
        BY <1>6, <2>5 DEF Siguiente
      <3>2. Estado(h, io[h], enviadas[h], "nada", d, carreras)
        BY <1>a, <2>1, <2>4, <2>5 DEF Estado
      <3> QED BY <3>1, <3>2, <1>3, <1>2, <2>1, <2>2, <2>3
    <2>6. CASE io[h].espera # <<>>
      <3> DEFINE p == Head(io[h].espera)
      <3>1. /\ io'[h].esta = io[h].esta /\ io'[h].libre = FALSE /\ io'[h].usando = p
            /\ enviadas'[h] = Append(enviadas[h], p)
        BY <1>6, <1>t, <2>6 DEF Siguiente, DatosInterfaz
      <3>2. h \notin carreras => enviadas'[h] = <<p>>
        <4>1. Append(<<>>, p) = <<p>>
          BY ONLY TRUE
        <4> QED BY <3>1, <2>4, <4>1
      <3>3. p \in Procesos
        <4>1. io[h].espera \in Seq(Procesos)
          BY <1>t DEF DatosInterfaz
        <4> QED BY <4>1, <2>6, SinPrimero
      <3> HIDE DEF p
      <3>4. Estado(h, io'[h], enviadas'[h], "nada", d, carreras)
        BY <3>1, <3>2, <3>3, <2>4 DEF Estado
      <3> QED BY <3>4, <1>3, <1>2, <2>1, <2>2, <2>3
    <2> QED BY <2>5, <2>6
  <1>7. CASE Vaciar(h)
    <2>1. /\ Fase(tareas[h]) = "vaciar" /\ Posee(tareas[h])
          /\ Fase(tareas'[h]) = "vaciar" /\ Posee(tareas'[h])
      BY <1>0, <1>7, PasoVaciar
    <2>2. /\ io'[h].esta = io[h].esta /\ io'[h].libre = io[h].libre /\ io'[h].usando = io[h].usando
          /\ UNCHANGED <<enviadas, dueno, carreras>>
      BY <1>7, <1>t DEF Vaciar, historia, DatosInterfaz
    <2>3. Llave(h, dueno'[h], tareas'[h], d)
      BY <1>a, <2>1, <2>2 DEF Llave
    <2>4. Estado(h, io'[h], enviadas'[h], Fase(tareas'[h]), d, carreras')
      BY <2>1, <2>2, <1>a DEF Estado
    <2> QED BY <1>3, <1>2, <2>1, <2>3, <2>4 DEF Finales
  <1>8. CASE Free(h)
    <2>1. /\ Fase(tareas[h]) = "vaciar" /\ Posee(tareas[h])
          /\ Fase(tareas'[h]) = "nada" /\ ~ Posee(tareas'[h])
      BY <1>8, PasoFree
    <2>2. dueno'[h] = Nadie /\ UNCHANGED <<carreras, io, enviadas>>
      BY <1>8, <1>t DEF Free
    <2>3. Llave(h, dueno'[h], tareas'[h], d)
      BY <1>0, <2>1, <2>2 DEF Llave
    <2>4. ~ io[h].esta
      BY <1>a, <2>1 DEF Estado
    <2>5. ~ \E g \in Hilos \ {h} : \E n \in DOMAIN tareas[g] :
              /\ tareas[g][n].i = h
              /\ tareas[g][n].op \in {"tomar", "atender", "mirar", "ocupar", "encolar", "pasar",
                                      "soltar", "sacarEspera"}
      BY <1>8 DEF Free, Quiebra, Vive
    <2>6. d # <<>> => Ultima(d).i # h
      BY <2>5, <1>0, FinDispatch, Distintos DEF Ultima
    <2>7. Estado(h, io'[h], enviadas'[h], Fase(tareas'[h]), d, carreras')
      BY <2>1, <2>2, <2>4, <2>6, <1>a DEF Estado
    <2> QED BY <1>3, <1>2, <2>1, <2>3, <2>7
  <1>9. CASE Conectar(h)
    <2>1. tareas[h] = <<>> /\ ~ io[h].esta /\ io'[h] = Nueva /\ UNCHANGED <<enviadas, dueno, tareas, carreras>>
      BY <1>9, <1>t DEF Conectar, Libre, historia
    <2>2. Fase(tareas[h]) = "nada"
      BY <2>1, NadaObs
    <2>3. enviadas[h] = <<>> /\ (d # <<>> => Ultima(d).i # h)
      BY <1>a, <2>1, <2>2 DEF Estado
    <2>4. ~ Actua(d, "ocupar", h) /\ ~ Actua(d, "encolar", h)
      BY <2>3, FinDispatch DEF Actua
    <2>5. Estado(h, io'[h], enviadas'[h], Fase(tareas'[h]), d, carreras')
      BY <2>1, <2>2, <2>3, <2>4, <1>0 DEF Estado, Nueva
    <2> QED BY <1>3, <1>2, <1>a, <2>1, <2>2, <2>5
  <1>10. CASE Desconectar(h)
    <2>1. /\ tareas[h] = <<>> /\ Fase(tareas'[h]) = "vaciar" /\ ~ Posee(tareas'[h])
      BY <1>10, PasoDesconectar
    <2>2. Fase(tareas[h]) = "nada" /\ ~ Posee(tareas[h])
      BY <2>1, NadaObs
    <2>3. /\ io'[h].esta = FALSE /\ io'[h].libre = io[h].libre /\ io'[h].usando = io[h].usando
          /\ enviadas'[h] = <<>> /\ UNCHANGED <<dueno, carreras>>
      BY <1>10, <1>t DEF Desconectar, DatosInterfaz, historia
    <2>4. Llave(h, dueno'[h], tareas'[h], d)
      BY <1>a, <2>1, <2>2, <2>3 DEF Llave
    <2>5. Estado(h, io'[h], enviadas'[h], Fase(tareas'[h]), d, carreras')
      BY <2>1, <2>3, <1>a DEF Estado
    <2> QED BY <1>3, <1>2, <2>1, <2>4, <2>5 DEF Finales
  <1> QED BY <1>4, <1>5, <1>6, <1>7, <1>8, <1>9, <1>10

\* The receiver's steps.
LEMMA SanaReceptor ==
    ASSUME Tipos, Guiones, Llaves, Estados, Receptor, Vive', NEW i \in Interfaces
    PROVE  SanaEs(i)'
  <1> DEFINE d == tareas["dispatch"]
             u == tareas'["dispatch"]
             j == ArgI("dispatch")
             p == Arg("dispatch")
  <1>0. /\ SanaEs(i) /\ colas.blocked \in Seq(Entrada) /\ cpu.aKernel \in Seq(Pedido)
        /\ i # "dispatch" /\ i \in Hilos /\ Nadie # i /\ Nadie # "dispatch" /\ Nulo \notin Procesos
    BY SanaTodas, Distintos DEF Tipos, Colas, Cpu, Nadie
  <1>t. /\ io \in [Interfaces -> DatosInterfaz] /\ io[i] \in DatosInterfaz
        /\ dueno \in [{"ready", "blocked"} \cup Interfaces -> Hilos \cup {Nadie}]
        /\ enviadas \in [Interfaces -> Seq(Procesos)]
    BY DEF Tipos
  <1>a. /\ Llave(i, dueno[i], tareas[i], d) /\ Fase(tareas[i]) \in Finales \cup OpsSolas \cup {"nada"}
        /\ Estado(i, io[i], enviadas[i], Fase(tareas[i]), d, carreras)
    BY <1>0 DEF SanaEs, Sana
  <1>b. ASSUME tareas'[i] = tareas[i], Llave(i, dueno'[i], tareas[i], u),
               Estado(i, io'[i], enviadas'[i], Fase(tareas[i]), u, carreras')
        PROVE  SanaEs(i)'
    BY <1>b, <1>a DEF SanaEs, Sana
  <1>c. dueno[i] # i /\ io[i].esta => Fase(tareas[i]) = "nada"
    BY <1>a, SinMutex DEF Llave, Estado
  <1>1. CASE RecibirDispatch
    <2>1. /\ d = <<>> /\ u # <<>> /\ SoloCambia("dispatch") /\ Primera(u) \in {"ltsEx", "bloquear", "tomar"}
          /\ \A k \in Interfaces : Ultima(u).i = k => io[k].esta
      BY <1>0, <1>1, PasoRecibir
    <2>2. tareas'[i] = tareas[i] /\ UNCHANGED <<dueno, io, enviadas, carreras>>
      BY <2>1, <1>0, <1>1 DEF SoloCambia, RecibirDispatch
    <2>3. Llave(i, dueno[i], tareas[i], u)
      BY <1>a, <2>1 DEF Llave
    <2>4. Estado(i, io[i], enviadas[i], Fase(tareas[i]), u, carreras)
      BY <1>a, <2>1 DEF Estado, Actua
    <2> QED BY <1>b, <2>2, <2>3, <2>4
  <1>2. CASE Bloquear
    <2>1. /\ d # <<>> /\ u # <<>> /\ SoloCambia("dispatch") /\ Primera(u) \in {"atender", "mirar"}
          /\ Ultima(u) = Ultima(d)
      BY <1>2, PasoBloquear
    <2>2. tareas'[i] = tareas[i] /\ UNCHANGED <<dueno, io, enviadas, carreras>>
      BY <2>1, <1>0, <1>2 DEF SoloCambia, Bloquear, historia
    <2> QED BY <1>0, <2>1, <2>2, LejosDispatch
  <1>3. CASE Mirar
    <2>1. /\ SoloCambia("dispatch") /\ d # <<>> /\ u # <<>>
          /\ Primera(u) = (IF io[j].libre THEN "ocupar" ELSE "encolar")
          /\ Ultima(u).op = "pasar" /\ Ultima(d).op = "pasar"
          /\ Ultima(u).i = j /\ Ultima(d).i = j /\ j \in Interfaces /\ Head(u).i = j
      BY <1>3, PasoMirar
    <2>2. /\ tareas'[i] = tareas[i] /\ UNCHANGED <<dueno, io, enviadas>>
          /\ carreras' = (IF Cerrado(j) THEN carreras \cup {j} ELSE carreras)
      BY <2>1, <1>0, <1>3 DEF SoloCambia, Mirar
    <2> HIDE DEF u, d, j
    <2>3. dueno[i] # "dispatch"
      BY <1>a, <2>1 DEF Llave
    <2>4. Llave(i, dueno[i], tareas[i], u)
      BY <1>a, <2>3 DEF Llave
    <2>5. i \notin carreras' /\ i = j => dueno[i] # i
      BY <2>2, <1>0 DEF Cerrado
    <2>6. Estado(i, io[i], enviadas[i], Fase(tareas[i]), u, carreras')
      <3>1. CASE i = j
        BY <1>a, <1>c, <2>1, <2>2, <2>5, <3>1 DEF Estado, Actua
      <3>2. CASE i # j
        BY <1>a, <2>1, <2>2, <3>2 DEF Estado, Actua
      <3> QED BY <3>1, <3>2
    <2>7. u = tareas'["dispatch"]
      BY DEF u
    <2> QED BY <1>b, <2>2, <2>4, <2>6, <2>7
  <1>4. CASE AtenderIO \/ ActuarSinMutex \/ Pasar \/ SoltarRechazo
    <2>1. /\ d # <<>> /\ Sigue("dispatch", <<>>)
          /\ Primera(d) \in {"atender", "soltar", "pasar", "ocupar", "encolar"}
          /\ carreras' = carreras
      BY <1>4 DEF AtenderIO, ActuarSinMutex, Pasar, SoltarRechazo, En, Primera, Quiebra, Vive, historia
    <2>2. TerminaDispatch
      BY <2>1, PasoTermina
    <2>3. /\ SoloCambia("dispatch") /\ j \in Interfaces /\ p \in Procesos /\ Ultima(d).i = j /\ Head(d).i = j
          /\ (Primera(d) \in {"atender", "soltar", "pasar"} => u = <<>> /\ Ultima(d).op = Primera(d))
          /\ (Primera(d) \in {"ocupar", "encolar"} => u # <<>> /\ Primera(u) = "pasar" /\ Ultima(d).op = "pasar"
                                                      /\ Ultima(u) = Ultima(d))
      BY <2>2 DEF TerminaDispatch
    <2>4. tareas'[i] = tareas[i]
      BY <2>3, <1>0 DEF SoloCambia
    <2>5. i # j => dueno[i] # "dispatch"
      BY <1>a, <2>3 DEF Llave
    <2>6. Primera(d) \in {"ocupar", "encolar", "pasar"} => dueno[i] # "dispatch"
      BY <1>a, <2>3 DEF Llave
    <2>7. CASE i # j
      <3>1. dueno'[i] = dueno[i] /\ io'[i] = io[i] /\ enviadas'[i] = enviadas[i]
        BY <1>4, <1>t, <2>7, <2>3 DEF AtenderIO, ActuarSinMutex, Pasar, SoltarRechazo, OcuparIO, EncolarIO, Enviar, Quiebra, Vive
      <3>2. u # <<>> => d # <<>> /\ Ultima(u) = Ultima(d) /\ Primera(u) = "pasar"
        BY <2>1, <2>3
      <3> QED BY <1>0, <2>1, <2>4, <2>5, <2>7, <3>1, <3>2, LejosDispatch
    <2>8. CASE i = j /\ Pasar
      <3>1. UNCHANGED <<dueno, io, enviadas>> /\ Primera(d) = "pasar"
        BY <2>8 DEF Pasar, En, Primera
      <3> QED BY <1>0, <2>1, <2>3, <2>4, <2>6, <3>1, LejosDispatch
    <2>9. CASE i = j /\ SoltarRechazo
      <3>1. /\ dueno[i] \in {Nadie, "dispatch"} /\ dueno' = [dueno EXCEPT ![i] = Nadie] /\ UNCHANGED <<io, enviadas>>
            /\ Primera(d) = "soltar"
        BY <2>9, <2>1 DEF SoltarRechazo, Quiebra, Vive, En, Primera
      <3>2. dueno'[i] = Nadie /\ u = <<>>
        BY <3>1, <1>t, <2>3
      <3>3. Llave(i, dueno'[i], tareas[i], u)
        BY <1>a, <1>0, <3>1, <3>2 DEF Llave
      <3>4. Sana(i, Nadie, tareas[i], io[i], enviadas[i], d, carreras)
        BY <1>a, <1>0, <3>1 DEF Llave, Sana
      <3>5. Sana(i, Nadie, tareas[i], io[i], enviadas[i], u, carreras)
        BY <3>4, <3>2, <1>0, SanaDispatch
      <3> QED BY <1>b, <2>1, <2>4, <3>1, <3>3, <3>5 DEF Sana
    <2>10. CASE i = j /\ (AtenderIO \/ ActuarSinMutex)
      <3>1. \/ dueno[i] # i /\ dueno'[i] = Nadie
            \/ dueno[i] # "dispatch" /\ dueno'[i] = dueno[i]
        <4>1. CASE AtenderIO
          BY <4>1, <2>10, <1>t, <1>0 DEF AtenderIO
        <4>2. CASE ActuarSinMutex
          <5>1. Primera(d) \in {"ocupar", "encolar"}
            BY <4>2 DEF ActuarSinMutex, En, Primera
          <5> QED BY <5>1, <2>6, <4>2 DEF ActuarSinMutex
        <4> QED BY <4>1, <4>2, <2>10
      <3>2. Llave(i, dueno'[i], tareas[i], u)
        BY <1>a, <1>0, <3>1 DEF Llave
      <3> HIDE DEF u, d
      <3>3. io[i].esta /\ i \notin carreras => Fase(tareas[i]) = "nada"
        <4>1. CASE AtenderIO
          BY <4>1, <2>10, <1>c, <1>0 DEF AtenderIO
        <4>2. CASE ActuarSinMutex
          <5>1. Actua(d, "ocupar", i) \/ Actua(d, "encolar", i)
            BY <4>2, <2>1, <2>3, <2>10 DEF ActuarSinMutex, En, Primera, Actua, d
          <5> QED BY <5>1, <1>a DEF Estado
        <4> QED BY <4>1, <4>2, <2>10
      <3>4. u # <<>> => d # <<>> /\ Ultima(u) = Ultima(d) /\ Primera(u) = "pasar"
        BY <2>1, <2>3
      <3>5. ~ Actua(u, "ocupar", i) /\ ~ Actua(u, "encolar", i)
        BY <3>4 DEF Actua
      <3>6. Estado(i, io'[i], enviadas'[i], Fase(tareas[i]), u, carreras)
        <4>1. CASE OcuparIO(p, i) /\ (i \notin carreras /\ io[i].esta => io[i].libre)
          <5>1. /\ io'[i].esta = io[i].esta /\ io'[i].libre = FALSE /\ io'[i].usando = p
                /\ enviadas'[i] = IF io[i].esta THEN Append(enviadas[i], p) ELSE enviadas[i]
            BY <4>1, <1>t DEF OcuparIO, Enviar, DatosInterfaz
          <5>2. i \notin carreras /\ io[i].esta => enviadas[i] = <<>>
            BY <3>3, <4>1, <1>a DEF Estado
          <5>3. Append(<<>>, p) = <<p>>
            BY ONLY TRUE
          <5>4. i \notin carreras /\ io[i].esta => enviadas'[i] = <<p>>
            BY <5>1, <5>2, <5>3
          <5>8. p \in Procesos
            BY <2>3
          <5> HIDE DEF p
          <5>5. /\ Fase(tareas[i]) = "vaciar" => ~ io[i].esta
                /\ Fase(tareas[i]) \in {"liberar", "siguiente"} => io[i].esta
                /\ ~ io[i].esta => enviadas[i] = <<>>
                /\ ~ io[i].esta /\ Fase(tareas[i]) = "nada" /\ d # <<>> => Ultima(d).i # i
            BY <1>a DEF Estado
          <5>6. ~ io'[i].esta => enviadas'[i] = <<>>
            BY <5>1, <5>5
          <5>7. io'[i].esta /\ i \notin carreras =>
                  Fase(tareas[i]) = "nada" /\ enviadas'[i] = (IF io'[i].libre THEN <<>> ELSE <<io'[i].usando>>)
            BY <3>3, <5>1, <5>4
          <5> QED BY <3>4, <3>5, <5>1, <5>5, <5>6, <5>7, <5>8 DEF Estado
        <4>2. CASE EncolarIO(p, i) /\ (i \notin carreras /\ io[i].esta => ~ io[i].libre)
          <5>1. /\ io'[i].esta = io[i].esta /\ io'[i].libre = io[i].libre /\ io'[i].usando = io[i].usando
                /\ enviadas'[i] = enviadas[i]
            BY <4>2, <1>t DEF EncolarIO, DatosInterfaz
          <5> QED BY <1>a, <3>3, <3>4, <3>5, <4>2, <5>1 DEF Estado
        <4>3. CASE AtenderIO
          BY <4>1, <4>2, <4>3, <2>10 DEF AtenderIO
        <4>4. CASE ActuarSinMutex
          <5>1. (Actua(d, "ocupar", i) /\ OcuparIO(p, i)) \/ (Actua(d, "encolar", i) /\ EncolarIO(p, i))
            BY <4>4, <2>1, <2>3, <2>10 DEF ActuarSinMutex, En, Primera, Actua, d
          <5>2. i \notin carreras /\ io[i].esta => /\ Actua(d, "ocupar", i) => io[i].libre
                                                   /\ Actua(d, "encolar", i) => ~ io[i].libre
            BY <1>a DEF Estado
          <5> QED BY <4>1, <4>2, <5>1, <5>2
        <4> QED BY <4>3, <4>4, <2>10
      <3>7. u = tareas'["dispatch"]
        BY DEF u
      <3> QED BY <1>b, <2>1, <2>4, <3>2, <3>6, <3>7
    <2> QED BY <1>4, <2>7, <2>8, <2>9, <2>10
  <1> QED BY <1>1, <1>2, <1>3, <1>4 DEF Receptor

\* Whatever the console, memoria's receiver, the planner and the CPU do.
LEMMA SanaAjena ==
    ASSUME Tipos, Guiones, Llaves, Estados, Vive', NEW i \in Interfaces,
           \/ CargarReadyPorPid \/ Planificador \/ CpuPide \/ CpuCortada \/ Buscar
           \/ (\E p \in Victimas : FinalizarProceso(p)) \/ ProcesoEstado
           \/ \E n \in Grados : Multiprogramar(n)
    PROVE  SanaEs(i)'
  <1>0. /\ SanaEs(i) /\ colas.blocked \in Seq(Entrada) /\ deMemoria \in Seq(Procesos)
    BY SanaTodas DEF Tipos, Colas
  <1>t. /\ io \in [Interfaces -> DatosInterfaz] /\ io[i] \in DatosInterfaz
        /\ dueno \in [{"ready", "blocked"} \cup Interfaces -> Hilos \cup {Nadie}]
        /\ i # "ready" /\ i # "blocked" /\ i # "consola" /\ i # "memoria" /\ i # "planificador" /\ i \in Hilos
    BY Distintos DEF Tipos
  <1>1. ASSUME SoloCambia("consola") \/ SoloCambia("memoria") \/ SoloCambia("planificador") \/ tareas' = tareas,
               ~ SacarEspera
        PROVE  SanaEs(i)'
    <2>1. tareas'[i] = tareas[i] /\ tareas'["dispatch"] = tareas["dispatch"]
      BY <1>1, <1>t, Distintos DEF SoloCambia
    <2>2. /\ dueno'[i] = dueno[i] /\ io' = io /\ enviadas' = enviadas /\ carreras' = carreras
      BY <1>1, <1>t DEF CargarReadyPorPid, Planificador, EsperarReady, SacarReady, CpuPide, CpuCortada, Buscar,
         BuscarReady, DescontarReady, TomarBlocked, BuscarBlocked, SacarBloqueo, SoltarBlocked, BuscarExec,
         BajarGrado, FinalizarProceso, ProcesoEstado, Multiprogramar, historia
    <2> QED BY <1>0, <2>1, <2>2, Lejos
  <1>2. CASE SacarEspera
    <2> DEFINE j == ArgI("consola")
               e == Sin(io[j].espera, Arg("consola"))
    <2>1. /\ tareas["consola"] # <<>> /\ Sigue("consola", <<>>) /\ Primera(tareas["consola"]) \in Sacar
      BY <1>2 DEF SacarEspera, En, Primera, Sacar
    <2>2. j \in Interfaces /\ SoloCambia("consola")
      BY <2>1, PasoSacarTail DEF CambiaConsola
    <2>3. tareas'[i] = tareas[i] /\ tareas'["dispatch"] = tareas["dispatch"]
      BY <2>2, <1>t, Distintos DEF SoloCambia
    <2>4. dueno' = dueno /\ enviadas' = enviadas /\ carreras \subseteq carreras'
      BY <1>2 DEF SacarEspera, Cruzar
    <2>5. /\ io'[i].esta = io[i].esta /\ io'[i].libre = io[i].libre /\ io'[i].usando = io[i].usando
      BY <1>2, <1>t, <2>2 DEF SacarEspera, DatosInterfaz
    <2>6. io[i].espera = <<>> => io'[i].espera = <<>>
      <3>1. CASE i = j
        <4>1. io'[i].espera = Sin(io[i].espera, Arg("consola"))
          BY <1>2, <1>t, <3>1 DEF SacarEspera, DatosInterfaz
        <4>2. ToSet(<<>>) = {}
          BY DEF ToSet
        <4> QED BY <4>1, <4>2 DEF Sin
      <3>2. CASE i # j
        BY <1>2, <1>t, <3>2 DEF SacarEspera
      <3> QED BY <3>1, <3>2
    <2>7. SanaEs(i)'
      BY <1>0, <2>3, <2>4, <2>5, <2>6 DEF SanaEs, Sana, Llave, Estado
    <2> QED BY <2>7
  <1>3. CASE CargarReadyPorPid \/ Planificador
    <2>1. SoloCambia("memoria") \/ SoloCambia("planificador")
      BY <1>0, <1>3, PasoPorPid, PasoEsperar, PasoSacar DEF Planificador
    <2> QED BY <1>1, <1>2, <2>1
  <1>4. CASE CpuPide \/ CpuCortada
    BY <1>1, <1>2, <1>4 DEF CpuPide, CpuCortada
  <1>5. CASE (\E p \in Victimas : FinalizarProceso(p)) \/ ProcesoEstado \/ \E n \in Grados : Multiprogramar(n)
    BY <1>1, <1>2, <1>5, PasoFinalizar, PasoListar, PasoMulti DEF CambiaConsola
  <1>6. CASE BuscarReady \/ TomarBlocked \/ BuscarBlocked \/ SacarBloqueo
    BY <1>0, <1>1, <1>2, <1>6, PasoBuscarReady, PasoTomarBlocked, PasoBuscarBlocked, PasoSacarBloqueo DEF CambiaConsola
  <1>7. CASE DescontarReady \/ SoltarBlocked \/ BuscarExec \/ BajarGrado
    <2>1. /\ tareas["consola"] # <<>> /\ Sigue("consola", <<>>)
          /\ Primera(tareas["consola"]) \in {"bajarGrado", "descontarReady", "soltarBlocked", "buscarExec"}
      BY <1>7 DEF DescontarReady, SoltarBlocked, BuscarExec, BajarGrado, En, Primera
    <2> QED BY <1>1, <1>2, <2>1, PasoResto DEF CambiaConsola
  <1> QED BY <1>2, <1>3, <1>4, <1>5, <1>6, <1>7 DEF Buscar

LEMMA PasoSana ==
    ASSUME Tipos, Guiones, Llaves, Estados, Next, Vive'
    PROVE  Llaves' /\ Estados'
  <1>1. ASSUME NEW i \in Interfaces
        PROVE  SanaEs(i)'
    BY <1>1, SanaComun, SanaHilo, SanaReceptor, SanaAjena, ChocarRompe DEF Next, Avanza, Entorno, Comun, HiloInterfaz
  <1>2. Llaves' /\ Estados' <=> \A i \in Interfaces : SanaEs(i)'
    BY DEF Llaves, Estados, SanaEs, Sana
  <1> QED BY <1>1, <1>2

-----------------------------------------------------------------------------
(* Places.                                                                 *)

\* What a step puts in the lists, the threads, the queues of the interfaces and the
\* interfaces: nothing, or process p at x.
EnLista(x) == IF x = "new" THEN ToSet(colas.new) ELSE IF x = "ready" THEN ToSet(colas.ready)
              ELSE IF x = "exec" THEN ToSet(colas.exec) ELSE IF x = "exit" THEN ToSet(colas.exit) ELSE {}
Listas == {"new", "ready", "exec", "exit"}
ListaSolo(p, x) == \A q \in Procesos, y \in Listas : q \in EnLista(y)' => q \in EnLista(y) \/ (q = p /\ y = x)
HiloSolo(p, x) == \A q \in Procesos, h \in Hilos : EnHilo(q, h)' => EnHilo(q, h) \/ (q = p /\ h = x)
EsperaSolo(p, x) ==
    \A q \in Procesos, i \in Interfaces :
       q \in ToSet(io[i].espera)' => q \in ToSet(io[i].espera) \/ (q = p /\ i = x)
UsoSolo(p, x) == \A q \in Procesos, i \in Interfaces : EnUso(q, i)' => EnUso(q, i) \/ (q = p /\ i = x)
NoLista == ListaSolo(Nulo, Nulo)
NoHilo == HiloSolo(Nulo, Nulo)
NoEspera == EsperaSolo(Nulo, Nulo)
NoUso == UsoSolo(Nulo, Nulo)
Gana(p, t, x) ==
    /\ NoLista \/ (t = "lista" /\ ListaSolo(p, x))
    /\ NoHilo \/ (t = "hilo" /\ HiloSolo(p, x))
    /\ NoEspera \/ (t = "espera" /\ EsperaSolo(p, x))
    /\ NoUso \/ (t = "uso" /\ UsoSolo(p, x))

LEMMA SoloLlega ==
    ASSUME NEW p, NEW t, NEW x, Gana(p, t, x), NEW q \in Procesos, NEW u, NEW y, EnLugar(q, u, y)'
    PROVE  EnLugar(q, u, y) \/ (q = p /\ u = t /\ y = x)
  <1>0. q # Nulo
    BY Distintos
  <1>1. CASE u = "lista"
    BY <1>0, <1>1 DEF EnLugar, Gana, ListaSolo, NoLista, EnLista, Listas
  <1>2. CASE u = "hilo"
    BY <1>0, <1>2 DEF EnLugar, Gana, HiloSolo, NoHilo
  <1>3. CASE u = "espera"
    BY <1>0, <1>3 DEF EnLugar, Gana, EsperaSolo, NoEspera
  <1>4. CASE u = "uso"
    BY <1>0, <1>4 DEF EnLugar, Gana, UsoSolo, NoUso
  <1> QED BY <1>1, <1>2, <1>3, <1>4 DEF EnLugar

\* Nobody moves; a process moves; a process that was nowhere is somewhere.
LEMMA Queda ==
    ASSUME Unico, NoLista, NoHilo, NoEspera, NoUso
    PROVE  Unico'
  <1>1. Gana(Nulo, "", Nulo)
    BY DEF Gana
  <1>2. \A q \in Procesos : \A u, y : EnLugar(q, u, y)' => EnLugar(q, u, y)
    BY <1>1, SoloLlega, Distintos
  <1> QED BY <1>2 DEF Unico

LEMMA Muda ==
    ASSUME Unico, NEW p \in Procesos, NEW s, NEW z, NEW t, NEW x, EnLugar(p, s, z), ~ EnLugar(p, s, z)',
           Gana(p, t, x)
    PROVE  Unico'
  <1>1. \A q \in Procesos : \A u, y : EnLugar(q, u, y)' => EnLugar(q, u, y) \/ (q = p /\ u = t /\ y = x)
    BY SoloLlega
  <1>2. \A u, y : EnLugar(p, u, y)' => u = t /\ y = x
    BY <1>1 DEF Unico
  <1>3. SUFFICES ASSUME NEW q \in Procesos, NEW u, NEW y, NEW v, NEW w, EnLugar(q, u, y)', EnLugar(q, v, w)'
                 PROVE  u = v /\ y = w
    BY DEF Unico
  <1>4. CASE q = p
    BY <1>2, <1>3, <1>4
  <1>5. CASE q # p
    BY <1>1, <1>3, <1>5 DEF Unico
  <1> QED BY <1>4, <1>5

LEMMA Aparece ==
    ASSUME Unico, NEW p \in Procesos, NEW t, NEW x, \A u, y : ~ EnLugar(p, u, y), Gana(p, t, x)
    PROVE  Unico'
  <1>1. \A q \in Procesos : \A u, y : EnLugar(q, u, y)' => EnLugar(q, u, y) \/ (q = p /\ u = t /\ y = x)
    BY SoloLlega
  <1>2. \A u, y : EnLugar(p, u, y)' => u = t /\ y = x
    BY <1>1
  <1>3. SUFFICES ASSUME NEW q \in Procesos, NEW u, NEW y, NEW v, NEW w, EnLugar(q, u, y)', EnLugar(q, v, w)'
                 PROVE  u = v /\ y = w
    BY DEF Unico
  <1>4. CASE q = p
    BY <1>2, <1>3, <1>4
  <1>5. CASE q # p
    BY <1>1, <1>3, <1>5 DEF Unico
  <1> QED BY <1>4, <1>5

\* The lists that a step leaves; the threads that it leaves.
LEMMA ListasQuedan ==
    ASSUME NEW p, NEW x,
           \/ x # "new" /\ ToSet(colas'.new) \subseteq ToSet(colas.new)
           \/ x = "new" /\ ToSet(colas'.new) \subseteq ToSet(colas.new) \cup {p},
           \/ x # "ready" /\ ToSet(colas'.ready) \subseteq ToSet(colas.ready)
           \/ x = "ready" /\ ToSet(colas'.ready) \subseteq ToSet(colas.ready) \cup {p},
           \/ x # "exec" /\ ToSet(colas'.exec) \subseteq ToSet(colas.exec)
           \/ x = "exec" /\ ToSet(colas'.exec) \subseteq ToSet(colas.exec) \cup {p},
           \/ x # "exit" /\ ToSet(colas'.exit) \subseteq ToSet(colas.exit)
           \/ x = "exit" /\ ToSet(colas'.exit) \subseteq ToSet(colas.exit) \cup {p}
    PROVE  ListaSolo(p, x)
  BY DEF ListaSolo, EnLista, Listas

LEMMA HilosQuedan ==
    ASSUME NEW p, NEW h \in Hilos, SoloCambia(h)
    PROVE  /\ (\A q \in Procesos : EnHilo(q, h)' => EnHilo(q, h)) => NoHilo
           /\ (\A q \in Procesos : EnHilo(q, h)' => q = p) => HiloSolo(p, h)
           /\ \A i \in Interfaces \ {h} : tareas'[i] = tareas[i]
  <1>1. \A g \in Hilos \ {h} : \A q : EnHilo(q, g)' <=> EnHilo(q, g)
    BY DEF EnHilo, SoloCambia
  <1>2. \A i \in Interfaces \ {h} : tareas'[i] = tareas[i]
    BY Distintos DEF SoloCambia
  <1> QED BY <1>1, <1>2 DEF NoHilo, HiloSolo

LEMMA IoQueda ==
    ASSUME io' = io, \A i \in Interfaces : Fase(tareas'[i]) = "liberar" \/ Fase(tareas[i]) # "liberar"
    PROVE  NoEspera /\ NoUso
  BY DEF NoEspera, NoUso, EsperaSolo, UsoSolo, EnUso

LEMMA ColasQuedan == colas' = colas => NoLista /\ (SinRepetir /\ io' = io => SinRepetir')
  BY DEF NoLista, ListaSolo, EnLista, SinRepetir

LEMMA ListasTipos ==
    ASSUME Tipos
    PROVE  /\ colas \in Colas /\ colas.new \in Seq(Procesos) /\ colas.ready \in Seq(Procesos)
           /\ colas.exec \in Seq(Procesos) /\ colas.exit \in Seq(Procesos) /\ colas.blocked \in Seq(Entrada)
           /\ io \in [Interfaces -> DatosInterfaz]
           /\ \A i \in Interfaces : io[i] \in DatosInterfaz /\ io[i].espera \in Seq(Procesos)
           /\ cpu.aKernel \in Seq(Pedido) /\ deMemoria \in Seq(Procesos)
  BY DEF Tipos, Colas, DatosInterfaz, Cpu

\* Only cola_blocked changes, or nothing.
LEMMA SoloBlocked ==
    ASSUME Tipos, colas' = colas \/ \E s : colas' = [colas EXCEPT !.blocked = s]
    PROVE  /\ colas'.new = colas.new /\ colas'.ready = colas.ready /\ colas'.exec = colas.exec
           /\ colas'.exit = colas.exit /\ NoLista /\ (SinRepetir /\ io' = io => SinRepetir')
  <1>1. /\ colas'.new = colas.new /\ colas'.ready = colas.ready /\ colas'.exec = colas.exec
        /\ colas'.exit = colas.exit
    BY ListasTipos DEF Colas
  <1> QED BY <1>1 DEF NoLista, ListaSolo, EnLista, SinRepetir

\* A step of thread h that moves nobody.
LEMMA SinMudanza ==
    ASSUME Tipos, Unico, SinRepetir, NEW h \in Hilos, SoloCambia(h), io' = io,
           colas' = colas \/ \E s : colas' = [colas EXCEPT !.blocked = s],
           \A q \in Procesos : EnHilo(q, h)' => EnHilo(q, h),
           h \in Interfaces => Fase(tareas[h]) # "liberar" \/ Mantiene(tareas[h], tareas'[h])
    PROVE  Unico' /\ SinRepetir'
  <1>1. NoLista /\ SinRepetir'
    BY SoloBlocked
  <1>2. NoHilo
    BY HilosQuedan
  <1>3. \A i \in Interfaces : Fase(tareas'[i]) = "liberar" \/ Fase(tareas[i]) # "liberar"
    BY HilosQuedan DEF Mantiene
  <1> QED BY <1>1, <1>2, <1>3, IoQueda, Queda

LEMMA LugarComun ==
    ASSUME Tipos, Guiones, Unico, SinRepetir, NEW h \in Hilos,
           CargarReady(h) \/ LtsEx(h) \/ Tomar(h) \/ Girar(h) \/ Reponer(h), Vive'
    PROVE  Unico' /\ SinRepetir'
  <1>0. /\ colas \in Colas /\ colas.ready \in Seq(Procesos) /\ colas.exit \in Seq(Procesos)
        /\ colas.blocked \in Seq(Entrada)
    BY ListasTipos
  <1>1. CASE CargarReady(h) \/ LtsEx(h)
    <2>0. /\ SoloCambia(h) /\ Arg(h) \in Procesos /\ EnHilo(Arg(h), h) /\ (\A q : ~ EnHilo(q, h)')
          /\ (h \in Interfaces => Mantiene(tareas[h], tareas'[h]))
      BY <1>1, PasoCargarReady, PasoLtsEx DEF SigueBorrando
    <2> PICK p \in Procesos : p = Arg(h)
      BY <2>0
    <2>1. /\ SoloCambia(h) /\ p \in Procesos /\ EnHilo(p, h) /\ (\A q : ~ EnHilo(q, h)')
          /\ (h \in Interfaces => Mantiene(tareas[h], tareas'[h]))
      BY <2>0
    <2>2. EnLugar(p, "hilo", h) /\ ~ EnLugar(p, "hilo", h)'
      BY <2>1 DEF EnLugar
    <2>3. NoHilo /\ \A i \in Interfaces : Fase(tareas'[i]) = "liberar" \/ Fase(tareas[i]) # "liberar"
      BY <2>1, HilosQuedan DEF Mantiene
    <2>4. NoEspera /\ NoUso /\ io' = io
      BY <1>1, <2>3, IoQueda DEF CargarReady, LtsEx
    <2>5. CASE CargarReady(h)
      <3>1. colas' = [colas EXCEPT !.ready = Append(colas.ready, p)]
        BY <2>5, <1>0 DEF CargarReady, Colas
      <3>2. /\ colas'.new = colas.new /\ colas'.exec = colas.exec /\ colas'.exit = colas.exit
            /\ colas'.ready = Append(colas.ready, p)
        BY <3>1, <1>0 DEF Colas
      <3>3. p \notin ToSet(colas.ready)
        BY <2>1, <2>2 DEF Unico, EnLugar
      <3>4. ToSet(colas'.ready) = ToSet(colas.ready) \cup {p} /\ IsInjective(colas'.ready)
        BY <3>2, <3>3, <2>1, <1>0, AlFinal DEF SinRepetir
      <3>5. ListaSolo(p, "ready")
        BY <3>2, <3>4, ListasQuedan
      <3>8. Gana(p, "lista", "ready")
        BY <2>3, <2>4, <3>5 DEF Gana
      <3>6. Unico'
        BY <2>2, <3>8, Muda
      <3>7. SinRepetir'
        BY <2>4, <3>2, <3>4 DEF SinRepetir
      <3> QED BY <3>6, <3>7
    <2>6. CASE LtsEx(h)
      <3>1. colas' = [colas EXCEPT !.exit = Append(colas.exit, p)]
        BY <2>6, <1>0 DEF LtsEx, Colas
      <3>2. /\ colas'.new = colas.new /\ colas'.exec = colas.exec /\ colas'.ready = colas.ready
            /\ colas'.exit = Append(colas.exit, p)
        BY <3>1, <1>0 DEF Colas
      <3>3. p \notin ToSet(colas.exit)
        BY <2>1, <2>2 DEF Unico, EnLugar
      <3>4. ToSet(colas'.exit) = ToSet(colas.exit) \cup {p} /\ IsInjective(colas'.exit)
        BY <3>2, <3>3, <2>1, <1>0, AlFinal DEF SinRepetir
      <3>5. ListaSolo(p, "exit")
        BY <3>2, <3>4, ListasQuedan
      <3>8. Gana(p, "lista", "exit")
        BY <2>3, <2>4, <3>5 DEF Gana
      <3>6. Unico'
        BY <2>2, <3>8, Muda
      <3>7. SinRepetir'
        BY <2>4, <3>2, <3>4 DEF SinRepetir
      <3> QED BY <3>6, <3>7
    <2> QED BY <1>1, <2>5, <2>6
  <1>2. CASE Tomar(h)
    <2>1. SoloCambia(h) /\ (\A q : EnHilo(q, h)' <=> EnHilo(q, h)) /\ (h \in Interfaces => Fase(tareas[h]) = "vaciar")
      BY <1>2, PasoTomar
    <2>2. io' = io /\ colas' = colas
      BY <1>2 DEF Tomar
    <2> QED BY <2>1, <2>2, SinMudanza
  <1>3. CASE Girar(h)
    <2>1. SoloCambia(h) /\ (\A q : EnHilo(q, h)' <=> EnHilo(q, h)) /\ Mantiene(tareas[h], tareas'[h])
      BY <1>0, <1>3, PasoGirar DEF SigueBorrando
    <2>2. io' = io /\ (colas' = colas \/ \E s : colas' = [colas EXCEPT !.blocked = s])
      BY <1>3 DEF Girar, Girando
    <2> QED BY <2>1, <2>2, SinMudanza
  <1>4. CASE Reponer(h)
    <2>1. /\ SoloCambia(h) /\ (\A q : EnHilo(q, h)' <=> EnHilo(q, h))
          /\ (h \in Interfaces => Mantiene(tareas[h], tareas'[h]))
      BY <1>4, PasoReponer DEF SigueBorrando
    <2>2. io' = io /\ \E s : colas' = [colas EXCEPT !.blocked = s]
      BY <1>4 DEF Reponer
    <2> QED BY <2>1, <2>2, SinMudanza
  <1> QED BY <1>1, <1>2, <1>3, <1>4

\* The threads of the interfaces.
LEMMA LugarHilo ==
    ASSUME Tipos, Guiones, Llaves, Estados, Unico, SinRepetir, NEW h \in Interfaces,
           DesocuparIO(h) \/ Liberar(h) \/ Siguiente(h) \/ Vaciar(h) \/ Free(h) \/ Conectar(h) \/ Desconectar(h),
           Vive'
    PROVE  Unico' /\ SinRepetir'
  <1>0. /\ colas \in Colas /\ colas.blocked \in Seq(Entrada) /\ io \in [Interfaces -> DatosInterfaz]
        /\ io[h] \in DatosInterfaz /\ io[h].espera \in Seq(Procesos) /\ h \in Hilos /\ Nulo \notin Procesos
    BY ListasTipos, Distintos
  <1>1. colas' = colas /\ NoLista
    <2>1. colas' = colas
      BY DEF DesocuparIO, Liberar, Siguiente, Vaciar, Free, Conectar, Desconectar
    <2> QED BY <2>1, ColasQuedan
  <1>2. SoloCambia(h) /\ \A i \in Interfaces \ {h} : io'[i] = io[i] /\ tareas'[i] = tareas[i]
    <2>1. SoloCambia(h)
      BY <1>0, PasoDesocupar, PasoLiberar, PasoSiguiente, PasoVaciar, PasoFree, PasoDesconectar DEF Conectar, SoloCambia
    <2>2. ASSUME NEW j \in Interfaces \ {h}
          PROVE  io'[j] = io[j]
      BY <1>0, <2>2 DEF DesocuparIO, Liberar, Siguiente, Vaciar, Free, Conectar, Desconectar
    <2> QED BY <1>0, <2>1, <2>2, HilosQuedan
  <1>3. ASSUME IsInjective(io'[h].espera)
        PROVE  SinRepetir'
    BY <1>1, <1>2, <1>3 DEF SinRepetir
  <1>4. ASSUME NEW p, \A q \in Procesos : EnUso(q, h)' => EnUso(q, h) \/ q = p
        PROVE  UsoSolo(p, h)
    BY <1>2, <1>4 DEF UsoSolo, EnUso
  <1>5. ASSUME \A q \in Procesos : EnUso(q, h)' => EnUso(q, h)
        PROVE  NoUso
    BY <1>2, <1>5 DEF NoUso, UsoSolo, EnUso
  <1>6. ASSUME ToSet(io'[h].espera) \subseteq ToSet(io[h].espera)
        PROVE  NoEspera
    BY <1>2, <1>6 DEF NoEspera, EsperaSolo
  <1>7. ASSUME ToSet(io'[h].espera) \subseteq ToSet(io[h].espera), IsInjective(io'[h].espera),
               \A q \in Procesos : EnUso(q, h)' => EnUso(q, h), \A q \in Procesos : EnHilo(q, h)' => EnHilo(q, h)
        PROVE  Unico' /\ SinRepetir'
    BY <1>0, <1>1, <1>2, <1>3, <1>5, <1>6, <1>7, HilosQuedan, Queda
  <1>8. CASE DesocuparIO(h)
    <2>0. /\ tareas[h] = <<>> /\ io[h].usando \in Procesos /\ Fase(tareas'[h]) = "liberar"
          /\ \A q : EnHilo(q, h)' <=> q = io[h].usando
      BY <1>0, <1>8, PasoDesocupar
    <2> PICK p \in Procesos : p = io[h].usando
      BY <2>0
    <2>1. /\ tareas[h] = <<>> /\ io[h].usando = p /\ Fase(tareas'[h]) = "liberar"
          /\ \A q : EnHilo(q, h)' <=> q = p
      BY <2>0
    <2>2. io' = io /\ enviadas[h] # <<>> /\ Fase(tareas[h]) = "nada"
      BY <1>8, <2>1, NadaObs DEF DesocuparIO
    <2>3. io[h].esta /\ ~ io[h].libre
      BY <2>1, <2>2 DEF Estados, Estado
    <2>4. EnUso(p, h) /\ \A q : ~ EnUso(q, h)'
      BY <2>1, <2>2, <2>3 DEF EnUso
    <2>5. EnLugar(p, "uso", h) /\ ~ EnLugar(p, "uso", h)'
      BY <2>4 DEF EnLugar
    <2>6. HiloSolo(p, h) /\ NoUso /\ NoEspera
      BY <1>0, <1>2, <1>5, <1>6, <2>1, <2>2, <2>4, HilosQuedan
    <2>7. Gana(p, "hilo", h)
      BY <1>1, <2>6 DEF Gana
    <2>8. Unico'
      BY <2>1, <2>5, <2>7, Muda
    <2> QED BY <2>8, <1>3, <2>2 DEF SinRepetir
  <1>9. CASE Liberar(h)
    <2>1. (\A q : ~ EnHilo(q, h)') /\ io'[h].libre = TRUE /\ io'[h].espera = io[h].espera
      BY <1>9, <1>0, PasoLiberar DEF Liberar, DatosInterfaz
    <2>2. \A q : ~ EnUso(q, h)'
      BY <2>1 DEF EnUso
    <2> QED BY <2>1, <2>2, <1>7 DEF SinRepetir
  <1>10. CASE Siguiente(h)
    <2>1. (\A q : ~ EnHilo(q, h)') /\ Fase(tareas[h]) = "siguiente" /\ Fase(tareas'[h]) = "nada"
      BY <1>10, PasoSiguiente
    <2>2. CASE io[h].espera = <<>>
      <3>1. io' = io
        BY <1>10, <2>2 DEF Siguiente
      <3> QED BY <2>1, <3>1, <1>7 DEF SinRepetir, EnUso
    <2>3. CASE io[h].espera # <<>>
      <3> PICK p \in Procesos : p = Head(io[h].espera)
        BY <1>0, <2>3, SinPrimero
      <3>1. io'[h].usando = p /\ io'[h].espera = Tail(io[h].espera)
        BY <1>10, <1>0, <2>3 DEF Siguiente, DatosInterfaz
      <3>2. /\ p \in Procesos /\ p \in ToSet(io[h].espera) /\ p \notin ToSet(io'[h].espera)
            /\ ToSet(io'[h].espera) \subseteq ToSet(io[h].espera) /\ IsInjective(io'[h].espera)
        BY <1>0, <2>3, <3>1, SinPrimero DEF SinRepetir
      <3>3. EnLugar(p, "espera", h) /\ ~ EnLugar(p, "espera", h)'
        BY <3>2 DEF EnLugar
      <3>4. \A q \in Procesos : EnUso(q, h)' => q = p
        BY <3>1 DEF EnUso
      <3>5. NoEspera /\ UsoSolo(p, h) /\ NoHilo
        BY <1>0, <1>2, <1>4, <1>6, <2>1, <3>2, <3>4, HilosQuedan
      <3>6. Gana(p, "uso", h)
        BY <1>1, <3>5 DEF Gana
      <3>7. Unico'
        BY <3>2, <3>3, <3>6, Muda
      <3> QED BY <3>7, <3>2, <1>3
    <2> QED BY <2>2, <2>3
  <1>11. CASE Vaciar(h)
    <2>0. /\ Fase(tareas[h]) = "vaciar" /\ Fase(tareas'[h]) = "vaciar" /\ Head(io[h].espera) \in Procesos
          /\ io[h].espera # <<>> /\ \A q : EnHilo(q, h)' <=> q = Head(io[h].espera)
      BY <1>11, <1>0, PasoVaciar
    <2> PICK p \in Procesos : p = Head(io[h].espera)
      BY <2>0
    <2>1. /\ Fase(tareas[h]) = "vaciar" /\ Fase(tareas'[h]) = "vaciar"
          /\ io[h].espera # <<>> /\ p \in Procesos /\ \A q : EnHilo(q, h)' <=> q = p
      BY <2>0
    <2>2. /\ io'[h].espera = Tail(io[h].espera) /\ io'[h].esta = io[h].esta /\ io'[h].libre = io[h].libre
          /\ io'[h].usando = io[h].usando
      BY <1>11, <1>0 DEF Vaciar, DatosInterfaz
    <2>3. /\ p \in ToSet(io[h].espera) /\ p \notin ToSet(io'[h].espera)
          /\ ToSet(io'[h].espera) \subseteq ToSet(io[h].espera) /\ IsInjective(io'[h].espera)
      BY <1>0, <2>1, <2>2, SinPrimero DEF SinRepetir
    <2>4. EnLugar(p, "espera", h) /\ ~ EnLugar(p, "espera", h)'
      BY <2>3 DEF EnLugar
    <2>5. \A q \in Procesos : EnUso(q, h)' => EnUso(q, h)
      BY <2>1, <2>2 DEF EnUso
    <2>6. NoEspera /\ NoUso /\ HiloSolo(p, h)
      BY <1>0, <1>2, <1>5, <1>6, <2>1, <2>3, <2>5, HilosQuedan
    <2>7. Gana(p, "hilo", h)
      BY <1>1, <2>6 DEF Gana
    <2>8. Unico'
      BY <2>1, <2>4, <2>7, Muda
    <2> QED BY <2>8, <2>3, <1>3
  <1>12. CASE Free(h)
    <2>1. (\A q : ~ EnHilo(q, h)') /\ Fase(tareas[h]) = "vaciar" /\ io' = io
      BY <1>12, PasoFree DEF Free
    <2> QED BY <2>1, <1>7 DEF SinRepetir, EnUso
  <1>13. CASE Conectar(h)
    <2>1. io'[h] = Nueva /\ tareas' = tareas
      BY <1>13, <1>0 DEF Conectar
    <2>2. io'[h].libre = TRUE /\ io'[h].espera = <<>>
      BY <2>1 DEF Nueva
    <2>3. ToSet(<<>>) = {} /\ IsInjective(<<>>)
      BY DEF ToSet, IsInjective
    <2> QED BY <2>1, <2>2, <2>3, <1>7 DEF EnUso, EnHilo
  <1>14. CASE Desconectar(h)
    <2>1. (\A q : ~ EnHilo(q, h)') /\ io'[h].esta = FALSE /\ io'[h].espera = io[h].espera
      BY <1>14, <1>0, PasoDesconectar DEF Desconectar, DatosInterfaz
    <2> QED BY <2>1, <1>7 DEF SinRepetir, EnUso
  <1> QED BY <1>8, <1>9, <1>10, <1>11, <1>12, <1>13, <1>14

\* The receiver.
LEMMA LugarReceptor ==
    ASSUME Tipos, Guiones, Unico, SinRepetir, Receptor, Vive'
    PROVE  Unico' /\ SinRepetir'
  <1> DEFINE d == tareas["dispatch"]
             u == tareas'["dispatch"]
             j == ArgI("dispatch")
  <1>0. /\ colas \in Colas /\ colas.exec \in Seq(Procesos) /\ cpu.aKernel \in Seq(Pedido)
        /\ io \in [Interfaces -> DatosInterfaz] /\ "dispatch" \in Hilos /\ "dispatch" \notin Interfaces
        /\ \A i \in Interfaces : io[i] \in DatosInterfaz /\ io[i].espera \in Seq(Procesos)
    BY ListasTipos, Distintos
  <1>1. CASE RecibirDispatch
    <2>0. /\ SoloCambia("dispatch") /\ Head(cpu.aKernel).p \in Procesos
          /\ (\A q : EnHilo(q, "dispatch")' <=> q = Head(cpu.aKernel).p)
          /\ colas.exec # <<>> /\ Head(colas.exec) = Head(cpu.aKernel).p
          /\ colas' = [colas EXCEPT !.exec = Tail(@)]
      BY <1>0, <1>1, PasoRecibir
    <2> PICK p \in Procesos : p = Head(cpu.aKernel).p
      BY <2>0
    <2>1. /\ SoloCambia("dispatch") /\ (\A q : EnHilo(q, "dispatch")' <=> q = p) /\ Head(colas.exec) = p
          /\ colas.exec # <<>>
      BY <2>0
    <2>2. /\ colas'.new = colas.new /\ colas'.ready = colas.ready /\ colas'.exit = colas.exit
          /\ colas'.exec = Tail(colas.exec)
      BY <2>0, <1>0 DEF Colas
    <2>3. /\ p \in ToSet(colas.exec) /\ p \notin ToSet(colas'.exec) /\ ToSet(colas'.exec) \subseteq ToSet(colas.exec)
          /\ IsInjective(colas'.exec)
      BY <1>0, <2>1, <2>2, SinPrimero DEF SinRepetir
    <2>4. EnLugar(p, "lista", "exec") /\ ~ EnLugar(p, "lista", "exec")'
      BY <2>3 DEF EnLugar
    <2>5. NoLista
      BY <2>2, <2>3, ListasQuedan, Distintos DEF NoLista
    <2>6. HiloSolo(p, "dispatch") /\ \A i \in Interfaces : tareas'[i] = tareas[i]
      BY <1>0, <2>1, HilosQuedan
    <2>7. io' = io /\ NoEspera /\ NoUso
      BY <1>1, <2>6, IoQueda DEF RecibirDispatch
    <2>8. Gana(p, "hilo", "dispatch")
      BY <2>5, <2>6, <2>7 DEF Gana
    <2>9. Unico'
      BY <2>4, <2>8, Muda
    <2> QED BY <2>9, <2>2, <2>3, <2>7 DEF SinRepetir
  <1>2. CASE Bloquear \/ Mirar
    <2>1. SoloCambia("dispatch") /\ (\A q : EnHilo(q, "dispatch")' <=> EnHilo(q, "dispatch"))
      BY <1>2, PasoBloquear, PasoMirar
    <2>2. io' = io /\ (colas' = colas \/ \E s : colas' = [colas EXCEPT !.blocked = s])
      BY <1>2 DEF Bloquear, Mirar
    <2> QED BY <1>0, <2>1, <2>2, SinMudanza
  <1>3. CASE AtenderIO \/ ActuarSinMutex \/ Pasar \/ SoltarRechazo
    <2>1. /\ d # <<>> /\ Sigue("dispatch", <<>>) /\ colas' = colas
          /\ Primera(d) \in {"atender", "soltar", "pasar", "ocupar", "encolar"}
      BY <1>3 DEF AtenderIO, ActuarSinMutex, Pasar, SoltarRechazo, En, Primera, Quiebra, Vive
    <2>2. TerminaDispatch
      BY <2>1, PasoTermina
    <2>3. /\ SoloCambia("dispatch") /\ j \in Interfaces /\ Arg("dispatch") \in Procesos
          /\ Head(d).p = Arg("dispatch") /\ \A q : ~ EnHilo(q, "dispatch")'
      BY <2>2 DEF TerminaDispatch
    <2>4. CASE Pasar \/ SoltarRechazo
      <3>1. io' = io
        BY <2>4 DEF Pasar, SoltarRechazo
      <3> QED BY <1>0, <2>1, <2>3, <3>1, SinMudanza
    <2>5. CASE AtenderIO \/ ActuarSinMutex
      <3> PICK p \in Procesos : p = Arg("dispatch")
        BY <2>3
      <3> PICK i \in Interfaces : i = j
        BY <2>3
      <3>1. OcuparIO(p, i) \/ EncolarIO(p, i)
        BY <2>5 DEF AtenderIO, ActuarSinMutex
      <3>2. Primera(d) \in {"atender", "ocupar", "encolar"}
        BY <2>5 DEF AtenderIO, ActuarSinMutex, En, Primera
      <3>3. EnHilo(p, "dispatch")
        BY <1>0, <2>1, <2>3, <3>2 DEF EnHilo, Porta, Portan
      <3>4. EnLugar(p, "hilo", "dispatch") /\ ~ EnLugar(p, "hilo", "dispatch")'
        BY <1>0, <2>3, <3>3 DEF EnLugar
      <3>5. NoHilo /\ NoLista /\ \A k \in Interfaces : tareas'[k] = tareas[k]
        BY <1>0, <2>1, <2>3, HilosQuedan, ColasQuedan
      <3>6. \A k \in Interfaces \ {i} : io'[k] = io[k]
        BY <1>0, <3>1 DEF OcuparIO, EncolarIO
      <3>7. CASE OcuparIO(p, i)
        <4>1. io'[i].usando = p /\ io'[i].espera = io[i].espera
          BY <1>0, <3>7 DEF OcuparIO, DatosInterfaz
        <4>2. UsoSolo(p, i)
          BY <3>5, <3>6, <4>1 DEF UsoSolo, EnUso
        <4>3. NoEspera /\ SinRepetir'
          BY <2>1, <3>6, <4>1 DEF NoEspera, EsperaSolo, SinRepetir
        <4>4. Gana(p, "uso", i)
          BY <3>5, <4>2, <4>3 DEF Gana
        <4>5. Unico'
          BY <3>4, <4>4, Muda
        <4> QED BY <4>3, <4>5
      <3>8. CASE EncolarIO(p, i)
        <4>1. /\ io'[i].usando = io[i].usando /\ io'[i].esta = io[i].esta /\ io'[i].libre = io[i].libre
              /\ io'[i].espera = Append(io[i].espera, p)
          BY <1>0, <3>8 DEF EncolarIO, DatosInterfaz
        <4>2. NoUso
          BY <3>5, <3>6, <4>1 DEF NoUso, UsoSolo, EnUso
        <4>3. p \notin ToSet(io[i].espera)
          BY <3>4 DEF Unico, EnLugar
        <4>4. ToSet(io'[i].espera) = ToSet(io[i].espera) \cup {p} /\ IsInjective(io'[i].espera)
          BY <1>0, <4>1, <4>3, AlFinal DEF SinRepetir
        <4>5. EsperaSolo(p, i) /\ SinRepetir'
          BY <2>1, <3>6, <4>4 DEF EsperaSolo, SinRepetir
        <4>6. Gana(p, "espera", i)
          BY <3>5, <4>2, <4>5 DEF Gana
        <4>7. Unico'
          BY <3>4, <4>6, Muda
        <4> QED BY <4>5, <4>7
      <3> QED BY <3>1, <3>7, <3>8
    <2> QED BY <1>3, <2>4, <2>5
  <1> QED BY <1>1, <1>2, <1>3 DEF Receptor

\* A process that buscar_pcb took out of cola_blocked, if it is nowhere else.
LEMMA EnNingunLado ==
    ASSUME Tipos, Guiones, NEW p \in Procesos, ~ EnOtraParte(p), ~ EnHilo(p, "consola"),
           NEW t, NEW x
    PROVE  ~ EnLugar(p, t, x)
  <1>1. p \notin ToSet(colas.new) /\ p \notin ToSet(colas.ready) /\ p \notin ToSet(colas.exec) /\ p \notin ToSet(colas.exit)
    <2>1. /\ colas.new \in Seq(Procesos) /\ colas.ready \in Seq(Procesos) /\ colas.exec \in Seq(Procesos)
          /\ colas.exit \in Seq(Procesos)
      BY ListasTipos
    <2>2. colas.new \o colas.ready \in Seq(Procesos) /\ ToSet(colas.new \o colas.ready) = ToSet(colas.new) \cup ToSet(colas.ready)
      BY <2>1, UnaTrasOtra
    <2> DEFINE a == colas.new \o colas.ready
               b == a \o colas.exec
    <2> HIDE DEF a
    <2>5. a \in Seq(Procesos) /\ ToSet(a) = ToSet(colas.new) \cup ToSet(colas.ready)
      BY <2>2 DEF a
    <2>3. b \in Seq(Procesos) /\ ToSet(b) = ToSet(a) \cup ToSet(colas.exec)
      BY <2>1, <2>5, UnaTrasOtra
    <2> HIDE DEF b
    <2>4. ToSet(b \o colas.exit) = ToSet(b) \cup ToSet(colas.exit)
      BY <2>1, <2>3, UnaTrasOtra
    <2>6. p \notin ToSet(b \o colas.exit)
      BY DEF EnOtraParte, a, b
    <2> QED BY <2>3, <2>4, <2>5, <2>6
  <1>2. \A i \in Interfaces : p \notin ToSet(io[i].espera) /\ ~ EnUso(p, i)
    BY DEF EnOtraParte, EnUso
  <1>3. ASSUME NEW h \in Hilos, EnHilo(p, h)
        PROVE  FALSE
    <2>1. h # "consola"
      BY <1>3
    <2>2. CASE h \in Interfaces
      <3>1. Lleva(tareas[h], p)
        BY <1>3, <2>2 DEF EnHilo
      <3>2. Primera(tareas[h]) \in OpsBorrar /\ tareas[h] # <<>>
        <4>1. tareas[h] # <<>>
          BY <3>1, NadaObs
        <4>2. Primera(tareas[h]) # "tomar"
          BY <4>1, <2>2, <3>1, TomarObs DEF Guiones, GuionInterfaz, Borrando, OpsSolas, OpsBorrar
        <4>3. Primera(tareas[h]) \notin OpsSolas
          BY <4>1, <2>2, <1>3, SolaPasa
        <4> QED BY <4>1, <4>2, <4>3, <2>2, QuienPuede
      <3>3. PICK q \in Procesos, fin \in Finales : Borrando(tareas[h], h, q, fin)
        BY <2>2, <3>2, Borrador
      <3>4. Len(tareas[h]) - 1 \in DOMAIN tareas[h]
        BY <3>2, <3>3, BorrandoObs
      <3> QED BY <3>1, <3>4, <2>1 DEF EnOtraParte, Lleva
    <2>3. CASE h \notin Interfaces
      <3>1. Porta(tareas[h], p)
        BY <1>3, <2>3 DEF EnHilo
      <3>2. tareas[h] # <<>> /\ Head(tareas[h]).op \in Portan /\ Head(tareas[h]).p = p
        BY <3>1 DEF Porta, Primera
      <3>3. Head(tareas[h]) = tareas[h][1] /\ 1 \in DOMAIN tareas[h]
        <4>1. CASE h = "dispatch"
          <5>1. PICK q \in Procesos : \E i \in Interfaces \cup {Nulo} : PasaDispatch(tareas["dispatch"], q, i)
            BY <3>2, <4>1, EnDispatch
          <5>2. PICK i \in Interfaces \cup {Nulo} : PasaDispatch(tareas["dispatch"], q, i)
            BY <5>1
          <5> QED BY <4>1, <5>2 DEF PasaDispatch, TrasDispatch
        <4>2. CASE h = "memoria"
          <5>1. PICK q \in Procesos : tareas[h] = <<Op("cargarReady", q, Nulo)>>
            BY <3>2, <4>2 DEF Guiones, GuionMemoria
          <5> QED BY <5>1
        <4>3. CASE h = "planificador"
          BY <3>2, <4>3, QuienPuede DEF Portan, Primera
        <4> QED BY <4>1, <4>2, <4>3, <2>1, <2>3, Distintos
      <3> QED BY <3>2, <3>3, <2>1 DEF EnOtraParte, Portan
    <2> QED BY <2>2, <2>3
  <1> QED BY <1>1, <1>2, <1>3 DEF EnLugar

\* A step of a thread that is not an interface's: what it leaves.
LEMMA AjenoQueda ==
    ASSUME NEW h \in Hilos \ Interfaces, SoloCambia(h), io' = io
    PROVE  /\ NoEspera /\ NoUso
           /\ (\A q \in Procesos : EnHilo(q, h)' => EnHilo(q, h)) => NoHilo
           /\ \A p : (\A q \in Procesos : EnHilo(q, h)' => q = p) => HiloSolo(p, h)
  <1>1. \A i \in Interfaces : tareas'[i] = tareas[i]
    BY HilosQuedan
  <1>2. NoEspera /\ NoUso
    BY <1>1, IoQueda
  <1>3. ASSUME NEW p, \A q \in Procesos : EnHilo(q, h)' => q = p
        PROVE  HiloSolo(p, h)
    BY <1>3, HilosQuedan
  <1> QED BY <1>2, <1>3, HilosQuedan

\* A process goes from the front of a list to the end of another one.
LEMMA LugarPlanificador ==
    ASSUME Tipos, Guiones, Unico, SinRepetir, Planificador, Vive'
    PROVE  Unico' /\ SinRepetir'
  <1>0. /\ colas \in Colas /\ colas.ready \in Seq(Procesos) /\ colas.exec \in Seq(Procesos)
        /\ "planificador" \in Hilos \ Interfaces
    BY ListasTipos, Distintos
  <1>1. CASE EsperarReady
    <2>1. SoloCambia("planificador") /\ (\A q \in Procesos : ~ EnHilo(q, "planificador")') /\ io' = io /\ colas' = colas
      BY <1>1, PasoEsperar DEF EsperarReady
    <2> QED BY <1>0, <2>1, SinMudanza
  <1>2. CASE SacarReady
    <2>1. /\ SoloCambia("planificador") /\ (\A q \in Procesos : ~ EnHilo(q, "planificador")') /\ io' = io
          /\ colas.ready # <<>>
      BY <1>2, PasoSacar DEF SacarReady
    <2> PICK p \in Procesos : p = Head(colas.ready)
      BY <1>0, <2>1, SinPrimero
    <2>2. colas' = [colas EXCEPT !.ready = Tail(colas.ready), !.exec = Append(colas.exec, p)]
      BY <1>0, <1>2, <2>1 DEF SacarReady, Colas
    <2>3. /\ colas'.new = colas.new /\ colas'.exit = colas.exit
          /\ colas'.ready = Tail(colas.ready) /\ colas'.exec = Append(colas.exec, p)
      BY <1>0, <2>2 DEF Colas
    <2>4. /\ p \in ToSet(colas.ready) /\ p \notin ToSet(colas'.ready)
          /\ ToSet(colas'.ready) \subseteq ToSet(colas.ready) /\ IsInjective(colas'.ready)
      BY <1>0, <2>1, <2>3, SinPrimero DEF SinRepetir
    <2>5. EnLugar(p, "lista", "ready") /\ ~ EnLugar(p, "lista", "ready")'
      BY <2>4 DEF EnLugar
    <2>6. p \notin ToSet(colas.exec)
      BY <2>5 DEF Unico, EnLugar
    <2>7. ToSet(colas'.exec) = ToSet(colas.exec) \cup {p} /\ IsInjective(colas'.exec)
      BY <1>0, <2>3, <2>6, AlFinal DEF SinRepetir
    <2>8. ListaSolo(p, "exec")
      BY <2>3, <2>4, <2>7, ListasQuedan
    <2>9. Gana(p, "lista", "exec")
      BY <1>0, <2>1, <2>8, AjenoQueda DEF Gana
    <2>10. Unico'
      BY <2>5, <2>9, Muda
    <2> QED BY <2>1, <2>3, <2>4, <2>7, <2>10 DEF SinRepetir
  <1> QED BY <1>1, <1>2 DEF Planificador

LEMMA LugarPorPid ==
    ASSUME Tipos, Guiones, Unico, SinRepetir, CargarReadyPorPid
    PROVE  Unico' /\ SinRepetir'
  <1>0. /\ colas \in Colas /\ colas.new \in Seq(Procesos) /\ deMemoria \in Seq(Procesos)
        /\ "memoria" \in Hilos \ Interfaces
    BY ListasTipos, Distintos
  <1>1. /\ SoloCambia("memoria") /\ Head(deMemoria) \in Procesos /\ io' = io
        /\ \A q : ~ EnHilo(q, "memoria") /\ (EnHilo(q, "memoria")' <=> q = Head(deMemoria) /\ Head(deMemoria) \in ToSet(colas.new))
    BY <1>0, PasoPorPid DEF CargarReadyPorPid
  <1> PICK p \in Procesos : p = Head(deMemoria)
    BY <1>1
  <1>2. colas' = [colas EXCEPT !.new = Sin(colas.new, p)]
    BY <1>0 DEF CargarReadyPorPid, Colas
  <1>3. /\ colas'.ready = colas.ready /\ colas'.exec = colas.exec /\ colas'.exit = colas.exit
        /\ colas'.new = Sin(colas.new, p)
    BY <1>0, <1>2 DEF Colas
  <1>4. IsInjective(colas'.new) /\ ToSet(colas'.new) = ToSet(colas.new) \ {p}
    BY <1>0, <1>3, SinLemma DEF SinRepetir
  <1>5. NoLista
    BY <1>3, <1>4, ListasQuedan, Distintos DEF NoLista
  <1>6. CASE p \in ToSet(colas.new)
    <2>1. EnLugar(p, "lista", "new") /\ ~ EnLugar(p, "lista", "new")'
      BY <1>4, <1>6 DEF EnLugar
    <2>2. HiloSolo(p, "memoria") /\ NoEspera /\ NoUso
      BY <1>0, <1>1, AjenoQueda
    <2>3. Gana(p, "hilo", "memoria")
      BY <1>5, <2>2 DEF Gana
    <2>4. Unico'
      BY <2>1, <2>3, Muda
    <2> QED BY <1>1, <1>3, <1>4, <2>4 DEF SinRepetir
  <1>7. CASE p \notin ToSet(colas.new)
    <2>1. NoHilo /\ NoEspera /\ NoUso
      BY <1>0, <1>1, <1>7, AjenoQueda
    <2>2. Unico'
      BY <1>5, <2>1, Queda
    <2> QED BY <1>1, <1>3, <1>4, <2>2 DEF SinRepetir
  <1> QED BY <1>6, <1>7

\* Steps of the console that move nobody, but for what lista_new loses.
LEMMA ConsolaQueda ==
    ASSUME Tipos, Unico, SinRepetir, SoloCambia("consola") \/ tareas' = tareas, io' = io,
           \A q : EnHilo(q, "consola")' => EnHilo(q, "consola"),
           colas' = colas \/ \/ colas' = [colas EXCEPT !.new = SinUltimo(@)]
                             \/ \E s : colas' = [colas EXCEPT !.blocked = s]
    PROVE  Unico' /\ SinRepetir'
  <1>0. colas \in Colas /\ colas.new \in Seq(Procesos) /\ "consola" \in Hilos \ Interfaces
    BY ListasTipos, Distintos
  <1>1. SoloCambia("consola")
    BY DEF SoloCambia
  <1>2. CASE colas' = [colas EXCEPT !.new = SinUltimo(@)]
    <2>1. /\ colas'.ready = colas.ready /\ colas'.exec = colas.exec /\ colas'.exit = colas.exit
          /\ colas'.new = SinUltimo(colas.new)
      BY <1>0, <1>2 DEF Colas
    <2>2. ToSet(colas'.new) \subseteq ToSet(colas.new) /\ IsInjective(colas'.new)
      BY <1>0, <2>1, SinUltimoLemma DEF SinRepetir
    <2>3. NoLista
      BY <2>1, <2>2, ListasQuedan, Distintos DEF NoLista
    <2>4. Unico'
      BY <1>0, <1>1, <2>3, AjenoQueda, Queda
    <2> QED BY <2>1, <2>2, <2>4 DEF SinRepetir
  <1>3. CASE colas' = colas \/ \E s : colas' = [colas EXCEPT !.blocked = s]
    BY <1>0, <1>1, <1>3, SinMudanza
  <1> QED BY <1>2, <1>3

\* buscar_pcb ends a process of READY or EXEC.
LEMMA LugarFinaliza ==
    ASSUME Tipos, Guiones, Unico, SinRepetir, BuscarReady \/ BuscarExec
    PROVE  Unico' /\ SinRepetir'
  <1>0. /\ colas \in Colas /\ colas.ready \in Seq(Procesos) /\ colas.exec \in Seq(Procesos)
        /\ colas.exit \in Seq(Procesos) /\ "consola" \in Hilos \ Interfaces
    BY ListasTipos, Distintos
  <1>1. SoloCambia("consola") /\ (\A q : ~ EnHilo(q, "consola")') /\ io' = io
    <2>1. CASE BuscarReady
      BY <2>1, PasoBuscarReady DEF CambiaConsola, BuscarReady
    <2>2. CASE BuscarExec
      <3>1. /\ tareas["consola"] # <<>> /\ Sigue("consola", <<>>) /\ Primera(tareas["consola"]) = "buscarExec"
        BY <2>2 DEF BuscarExec, En, Primera
      <3> QED BY <3>1, <2>2, PasoResto DEF CambiaConsola, BuscarExec
    <2> QED BY <2>1, <2>2
  <1>2. CASE colas' = colas
    BY <1>1, <1>2, ConsolaQueda
  <1>3. ASSUME NEW p \in Procesos, NEW f \in {"ready", "exec"}, colas'.new = colas.new,
               colas'.exit = Append(colas.exit, p), EnLugar(p, "lista", f),
               ToSet(colas'.ready) \subseteq ToSet(colas.ready), ToSet(colas'.exec) \subseteq ToSet(colas.exec),
               IsInjective(colas'.ready), IsInjective(colas'.exec), ~ EnLugar(p, "lista", f)'
        PROVE  Unico' /\ SinRepetir'
    <2>1. p \notin ToSet(colas.exit)
      BY <1>3 DEF Unico, EnLugar
    <2>2. ToSet(colas'.exit) = ToSet(colas.exit) \cup {p} /\ IsInjective(colas'.exit)
      BY <1>0, <1>3, <2>1, AlFinal DEF SinRepetir
    <2>3. ListaSolo(p, "exit")
      BY <1>3, <2>2, ListasQuedan
    <2>4. Gana(p, "lista", "exit")
      BY <1>0, <1>1, <2>3, AjenoQueda DEF Gana
    <2>5. Unico'
      BY <1>3, <2>4, Muda
    <2> QED BY <1>1, <1>3, <2>2, <2>5 DEF SinRepetir
  <1>4. CASE BuscarReady /\ Arg("consola") \in ToSet(colas.ready)
    <2>0. Arg("consola") \in Procesos
      BY <1>4, PasoBuscarReady
    <2> PICK p \in Procesos : p = Arg("consola")
      BY <2>0
    <2> DEFINE n == Posicion(colas.ready, p)
               u == SubSeq(colas.ready, n + 1, Len(colas.ready)) \o SubSeq(colas.ready, 1, n - 1)
    <2>1. IsInjective(u) /\ ToSet(u) = ToSet(colas.ready) \ {p}
      BY <1>0, <1>4, GirarHasta DEF SinRepetir
    <2>2. colas' = [colas EXCEPT !.ready = u, !.exit = Append(colas.exit, p)]
      BY <1>4, <1>0 DEF BuscarReady, Colas
    <2> PICK v : v = u
      OBVIOUS
    <2>3. colas' = [colas EXCEPT !.ready = v, !.exit = Append(colas.exit, p)]
      BY <2>2
    <2>4. IsInjective(v) /\ ToSet(v) = ToSet(colas.ready) \ {p}
      BY <2>1
    <2> HIDE DEF u
    <2>5. colas'.new = colas.new /\ colas'.exec = colas.exec /\ colas'.ready = v /\ colas'.exit = Append(colas.exit, p)
      BY <1>0, <2>3 DEF Colas
    <2>6. EnLugar(p, "lista", "ready") /\ ~ EnLugar(p, "lista", "ready")'
      BY <1>4, <2>4, <2>5 DEF EnLugar
    <2> QED BY <1>3, <2>4, <2>5, <2>6 DEF SinRepetir
  <1>5. CASE BuscarExec /\ colas.exec # <<>> /\ Head(colas.exec) = Arg("consola")
    <2> PICK p \in Procesos : p = Head(colas.exec)
      BY <1>0, <1>5, SinPrimero
    <2>1. colas' = [colas EXCEPT !.exec = Tail(colas.exec), !.exit = Append(colas.exit, p)]
      BY <1>0, <1>5 DEF BuscarExec, Colas
    <2>2. /\ colas'.new = colas.new /\ colas'.ready = colas.ready /\ colas'.exec = Tail(colas.exec)
          /\ colas'.exit = Append(colas.exit, p)
      BY <1>0, <2>1 DEF Colas
    <2>3. /\ p \in ToSet(colas.exec) /\ p \notin ToSet(colas'.exec)
          /\ ToSet(colas'.exec) \subseteq ToSet(colas.exec) /\ IsInjective(colas'.exec)
      BY <1>0, <1>5, <2>2, SinPrimero DEF SinRepetir
    <2>4. EnLugar(p, "lista", "exec") /\ ~ EnLugar(p, "lista", "exec")'
      BY <2>3 DEF EnLugar
    <2> QED BY <1>3, <2>2, <2>3, <2>4 DEF SinRepetir
  <1>6. \/ colas' = colas
        \/ BuscarReady /\ Arg("consola") \in ToSet(colas.ready)
        \/ BuscarExec /\ colas.exec # <<>> /\ Head(colas.exec) = Arg("consola")
    BY DEF BuscarReady, BuscarExec
  <1> QED BY <1>2, <1>4, <1>5, <1>6

\* remove_cola_blocked_io takes a process out of an interface's queue, or nobody has it.
LEMMA LugarSacar ==
    ASSUME Tipos, Guiones, Unico, SinRepetir, SacarBloqueo \/ SacarEspera, Vive'
    PROVE  Unico' /\ SinRepetir'
  <1>0. /\ io \in [Interfaces -> DatosInterfaz] /\ "consola" \in Hilos \ Interfaces
        /\ \A i \in Interfaces : io[i] \in DatosInterfaz /\ io[i].espera \in Seq(Procesos)
    BY ListasTipos, Distintos
  <1>1. CASE SacarBloqueo
    <2>1. /\ SoloCambia("consola") /\ Arg("consola") \in Procesos /\ io' = io /\ colas' = colas
          /\ \/ /\ ~ EnOtraParte(Arg("consola"))
                /\ \A q : ~ EnHilo(q, "consola") /\ (EnHilo(q, "consola")' <=> q = Arg("consola"))
             \/ \A q : ~ EnHilo(q, "consola")'
      BY <1>1, PasoSacarBloqueo DEF CambiaConsola, SacarBloqueo
    <2>2. CASE \A q : ~ EnHilo(q, "consola")'
      BY <2>1, <2>2, ConsolaQueda
    <2>3. CASE /\ ~ EnOtraParte(Arg("consola"))
               /\ \A q : ~ EnHilo(q, "consola") /\ (EnHilo(q, "consola")' <=> q = Arg("consola"))
      <3> PICK p \in Procesos : p = Arg("consola")
        BY <2>1
      <3>1. \A t, x : ~ EnLugar(p, t, x)
        BY <2>3, EnNingunLado
      <3>2. HiloSolo(p, "consola") /\ NoEspera /\ NoUso /\ NoLista /\ SinRepetir'
        BY <1>0, <2>1, <2>3, AjenoQueda, ColasQuedan
      <3>3. Gana(p, "hilo", "consola")
        BY <3>2 DEF Gana
      <3> QED BY <3>1, <3>2, <3>3, Aparece
    <2> QED BY <2>1, <2>2, <2>3
  <1>2. CASE SacarEspera
    <2>1. /\ tareas["consola"] # <<>> /\ Sigue("consola", <<>>) /\ Primera(tareas["consola"]) \in Sacar
      BY <1>2 DEF SacarEspera, En, Primera, Sacar
    <2>2. /\ SoloCambia("consola") /\ Arg("consola") \in Procesos /\ ArgI("consola") \in Interfaces
          /\ \A q : ~ EnHilo(q, "consola") /\ (EnHilo(q, "consola")' <=> q = Arg("consola"))
      BY <2>1, PasoSacarTail DEF CambiaConsola
    <2> PICK p \in Procesos : p = Arg("consola")
      BY <2>2
    <2> PICK i \in Interfaces : i = ArgI("consola")
      BY <2>2
    <2>3. p \in ToSet(io[i].espera) /\ colas' = colas /\ io' = [io EXCEPT ![i].espera = Sin(@, p)]
      BY <1>2 DEF SacarEspera, Vive
    <2>4. /\ io'[i].espera = Sin(io[i].espera, p) /\ io'[i].esta = io[i].esta /\ io'[i].libre = io[i].libre
          /\ io'[i].usando = io[i].usando /\ \A j \in Interfaces \ {i} : io'[j] = io[j]
      BY <1>0, <2>3 DEF DatosInterfaz
    <2>5. IsInjective(io'[i].espera) /\ ToSet(io'[i].espera) = ToSet(io[i].espera) \ {p}
      BY <1>0, <2>4, SinLemma DEF SinRepetir
    <2>6. EnLugar(p, "espera", i) /\ ~ EnLugar(p, "espera", i)'
      BY <2>3, <2>5 DEF EnLugar
    <2>7. HiloSolo(p, "consola") /\ \A j \in Interfaces : tareas'[j] = tareas[j]
      BY <1>0, <2>2, HilosQuedan
    <2>8. NoEspera /\ NoUso /\ NoLista
      BY <2>3, <2>4, <2>5, <2>7, ColasQuedan DEF NoEspera, NoUso, EsperaSolo, UsoSolo, EnUso
    <2>9. Gana(p, "hilo", "consola")
      BY <2>7, <2>8 DEF Gana
    <2>10. Unico'
      BY <2>6, <2>9, Muda
    <2> QED BY <2>10, <2>3, <2>4, <2>5 DEF SinRepetir
  <1> QED BY <1>1, <1>2

LEMMA LugarAjena ==
    ASSUME Tipos, Guiones, Unico, SinRepetir, Vive',
           \/ CargarReadyPorPid \/ Planificador \/ CpuPide \/ CpuCortada \/ Buscar
           \/ (\E p \in Victimas : FinalizarProceso(p)) \/ ProcesoEstado
           \/ \E n \in Grados : Multiprogramar(n)
    PROVE  Unico' /\ SinRepetir'
  <1>0. colas.blocked \in Seq(Entrada)
    BY ListasTipos
  <1>1. CASE CargarReadyPorPid \/ Planificador
    BY <1>1, LugarPorPid, LugarPlanificador
  <1>2. CASE BuscarReady \/ BuscarExec
    BY <1>2, LugarFinaliza
  <1>3. CASE SacarBloqueo \/ SacarEspera
    BY <1>3, LugarSacar
  <1>4. CASE CpuPide \/ CpuCortada
    <2>1. tareas' = tareas /\ io' = io /\ colas' = colas
      BY <1>4 DEF CpuPide, CpuCortada
    <2> QED BY <2>1, ConsolaQueda DEF EnHilo
  <1>5. ASSUME NEW p \in Victimas, FinalizarProceso(p)
        PROVE  Unico' /\ SinRepetir'
    <2>1. /\ SoloCambia("consola") /\ (\A q : ~ EnHilo(q, "consola")') /\ io' = io
          /\ colas' = [colas EXCEPT !.new = SinUltimo(@)]
      BY <1>5, PasoFinalizar DEF CambiaConsola, FinalizarProceso
    <2> QED BY <2>1, ConsolaQueda
  <1>6. ASSUME NEW n \in Grados, Multiprogramar(n)
        PROVE  Unico' /\ SinRepetir'
    <2>1. SoloCambia("consola") /\ (\A q : ~ EnHilo(q, "consola")') /\ io' = io /\ colas' = colas
      BY <1>6, PasoMulti DEF CambiaConsola, Multiprogramar
    <2> QED BY <2>1, ConsolaQueda
  <1>7. CASE TomarBlocked \/ BuscarBlocked
    <2>1. SoloCambia("consola") /\ (\A q : ~ EnHilo(q, "consola")')
      BY <1>0, <1>7, PasoTomarBlocked, PasoBuscarBlocked DEF CambiaConsola
    <2>2. io' = io /\ (colas' = colas \/ \E s : colas' = [colas EXCEPT !.blocked = s])
      BY <1>7 DEF TomarBlocked, BuscarBlocked, Girando
    <2> QED BY <2>1, <2>2, ConsolaQueda
  <1>8. CASE DescontarReady \/ SoltarBlocked \/ BajarGrado
    <2>1. /\ tareas["consola"] # <<>> /\ Sigue("consola", <<>>) /\ io' = io /\ colas' = colas
          /\ Primera(tareas["consola"]) \in {"bajarGrado", "descontarReady", "soltarBlocked", "buscarExec"}
      BY <1>8 DEF DescontarReady, SoltarBlocked, BajarGrado, En, Primera
    <2>2. SoloCambia("consola") /\ (\A q : ~ EnHilo(q, "consola")')
      BY <2>1, PasoResto DEF CambiaConsola
    <2> QED BY <2>1, <2>2, ConsolaQueda
  <1>9. CASE ProcesoEstado
    <2>1. /\ SoloCambia("consola") /\ (\A q : ~ EnHilo(q, "consola")') /\ io' = io
          /\ colas' = [colas EXCEPT !.new = SinUltimo(@)]
      BY <1>9, PasoListar DEF CambiaConsola, ProcesoEstado
    <2> QED BY <2>1, ConsolaQueda
  <1> QED BY <1>1, <1>2, <1>3, <1>4, <1>5, <1>6, <1>7, <1>8, <1>9 DEF Buscar

LEMMA PasoLugar ==
    ASSUME Tipos, Guiones, Llaves, Estados, Unico, SinRepetir, Next, Vive'
    PROVE  Unico' /\ SinRepetir'
  BY LugarComun, LugarHilo, LugarReceptor, LugarAjena, ChocarRompe DEF Next, Avanza, Entorno, Comun, HiloInterfaz

-----------------------------------------------------------------------------
(* Entries of cola_blocked.                                                *)

Anotada(p, i) == [p |-> p, i |-> i] \in ToSet(colas.blocked)
Atiende == {"atender", "mirar", "ocupar", "encolar"}

LEMMA EntradasQuedan ==
    ASSUME Entradas,
           \A p \in Procesos, i \in Interfaces : PideEntrada(p, i)' => PideEntrada(p, i) \/ Anotada(p, i)',
           \A p \in Procesos, i \in Interfaces :
              PideEntrada(p, i)' /\ (Anotada(p, i) \/ EnMano(p, i)) => Anotada(p, i)' \/ EnMano(p, i)'
    PROVE  Entradas'
  BY DEF Entradas, Anotada

\* A step of a thread that has no entry in its hands.
LEMMA ManoQueda ==
    ASSUME NEW h \in Hilos, SoloCambia(h), tareas[h] = <<>> \/ Primera(tareas[h]) \notin Sacar \cup {"reponer"}
    PROVE  \A p, i : EnMano(p, i) => EnMano(p, i)'
  BY DEF EnMano, Tiene, SoloCambia

LEMMA PideQueda ==
    ASSUME NoEspera, NoUso,
           \/ tareas'["dispatch"] = tareas["dispatch"] \/ tareas'["dispatch"] = <<>>
           \/ Primera(tareas'["dispatch"]) \notin Atiende
    PROVE  \A p \in Procesos, i \in Interfaces : PideEntrada(p, i)' => PideEntrada(p, i)
  <1>1. \A p \in Procesos, i \in Interfaces : /\ p \in ToSet(io[i].espera)' => p \in ToSet(io[i].espera)
                                              /\ EnUso(p, i)' => EnUso(p, i)
    BY Distintos DEF NoEspera, NoUso, EsperaSolo, UsoSolo
  <1> QED BY <1>1 DEF PideEntrada, Actua, Atiende

\* The entries of a process that a thread is about to make ready, or to end, are not needed.
LEMMA NoPideMas ==
    ASSUME Unico', NEW p \in Procesos, NEW h \in Hilos, h # "dispatch", EnHilo(p, h)', NEW i \in Interfaces
    PROVE  ~ PideEntrada(p, i)'
  <1>1. EnLugar(p, "hilo", h)'
    BY DEF EnLugar
  <1>2. ~ EnLugar(p, "espera", i)' /\ ~ EnLugar(p, "uso", i)' /\ ~ EnLugar(p, "hilo", "dispatch")'
    BY <1>1 DEF Unico
  <1>3. p \notin ToSet(io'[i].espera) /\ ~ EnUso(p, i)' /\ ~ EnHilo(p, "dispatch")'
    BY <1>2, Distintos DEF EnLugar
  <1> QED BY <1>3, Distintos DEF PideEntrada, EnHilo, Porta, Actua, Portan

\* A step that leaves what interfaces and receivers have, and whose thread has no entry.
LEMMA EntradaAjena ==
    ASSUME Entradas, NEW h \in Hilos, SoloCambia(h), colas'.blocked = colas.blocked, io' = io,
           tareas[h] = <<>> \/ Primera(tareas[h]) \notin Sacar \cup {"reponer"},
           h \in Interfaces => Fase(tareas[h]) # "liberar" \/ Mantiene(tareas[h], tareas'[h]),
           h = "dispatch" => tareas'["dispatch"] = <<>> \/ Primera(tareas'["dispatch"]) \notin Atiende
    PROVE  Entradas'
  <1>1. \A i \in Interfaces : Fase(tareas'[i]) = "liberar" \/ Fase(tareas[i]) # "liberar"
    BY HilosQuedan DEF Mantiene
  <1>2. NoEspera /\ NoUso
    BY <1>1, IoQueda
  <1>3. \/ tareas'["dispatch"] = tareas["dispatch"] \/ tareas'["dispatch"] = <<>>
        \/ Primera(tareas'["dispatch"]) \notin Atiende
    BY Distintos DEF SoloCambia
  <1>4. \A p \in Procesos, i \in Interfaces : PideEntrada(p, i)' => PideEntrada(p, i)
    BY <1>2, <1>3, PideQueda
  <1>5. \A p, i : EnMano(p, i) => EnMano(p, i)'
    BY ManoQueda
  <1>6. \A p, i : Anotada(p, i) => Anotada(p, i)'
    BY DEF Anotada
  <1> QED BY <1>4, <1>5, <1>6, EntradasQuedan

\* The loops on cola_blocked: what a thread takes out it puts back, or has, or is not
\* needed.
LEMMA EntradaSale ==
    ASSUME Tipos, Entradas, Unico', NEW h \in Hilos, h # "dispatch", SoloCambia(h), io' = io,
           h \in Interfaces => Mantiene(tareas[h], tareas'[h]),
           tareas[h] # <<>>, Primera(tareas[h]) \notin Sacar \cup {"reponer"},
           colas.blocked # <<>>, colas' = [colas EXCEPT !.blocked = Tail(@)],
           \/ tareas'[h] # <<>> /\ Head(tareas'[h]) = Op("reponer", Head(colas.blocked).p, Head(colas.blocked).i)
           \/ tareas'[h] # <<>> /\ Head(tareas'[h]) = Op("sacarBloqueo", Head(colas.blocked).p, Head(colas.blocked).i)
           \/ EnHilo(Head(colas.blocked).p, h) /\ \A q : EnHilo(q, h)' <=> EnHilo(q, h)
    PROVE  Entradas'
  <1>0. colas \in Colas /\ colas.blocked \in Seq(Entrada)
    BY ListasTipos
  <1>1. \A i \in Interfaces : Fase(tareas'[i]) = "liberar" \/ Fase(tareas[i]) # "liberar"
    BY HilosQuedan DEF Mantiene
  <1>2. NoEspera /\ NoUso /\ tareas'["dispatch"] = tareas["dispatch"]
    BY <1>1, IoQueda, Distintos DEF SoloCambia
  <1>3. \A p \in Procesos, i \in Interfaces : PideEntrada(p, i)' => PideEntrada(p, i)
    BY <1>2, PideQueda
  <1>4. \A p, i : EnMano(p, i) => EnMano(p, i)'
    BY ManoQueda
  <1>5. PICK e \in Entrada : e = Head(colas.blocked)
    BY <1>0, SinPrimero
  <1>6. colas'.blocked = Tail(colas.blocked)
    BY <1>0 DEF Colas
  <1>7. ToSet(colas.blocked) = ToSet(colas'.blocked) \cup {e}
    BY <1>0, <1>5, <1>6, SinPrimero
  <1>8. ASSUME NEW p \in Procesos, NEW i \in Interfaces, PideEntrada(p, i)', Anotada(p, i)
        PROVE  Anotada(p, i)' \/ EnMano(p, i)'
    <2>1. CASE e # [p |-> p, i |-> i]
      BY <1>7, <1>8, <2>1 DEF Anotada
    <2>2. CASE e = [p |-> p, i |-> i]
      <3>1. e.p = p /\ e.i = i
        BY <2>2
      <3>2. ~ EnHilo(p, h)'
        BY <1>8, NoPideMas
      <3>3. ASSUME tareas'[h] # <<>>, Head(tareas'[h]) = Op("reponer", p, i) \/ Head(tareas'[h]) = Op("sacarBloqueo", p, i)
            PROVE  EnMano(p, i)'
        <4>1. PICK o : o = Head(tareas'[h])
          OBVIOUS
        <4>2. o.p = p /\ o.i = i /\ o.op \in {"reponer", "sacarBloqueo"}
          BY <3>3, <4>1, OpCampos
        <4>3. Tiene(tareas'[h], p, i)
          BY <3>3, <4>1, <4>2 DEF Tiene, Primera, Sacar
        <4> QED BY <4>3 DEF EnMano
      <3> QED BY <3>1, <3>2, <3>3, <1>5
    <2> QED BY <2>1, <2>2
  <1> QED BY <1>3, <1>4, <1>8, EntradasQuedan

LEMMA BlockedIgual ==
    ASSUME Tipos
    PROVE  /\ \A s : colas' = [colas EXCEPT !.blocked = s] => colas'.blocked = s
           /\ \A s : colas' = [colas EXCEPT !.ready = s] => colas'.blocked = colas.blocked
           /\ \A s : colas' = [colas EXCEPT !.exit = s] => colas'.blocked = colas.blocked
           /\ \A s : colas' = [colas EXCEPT !.new = s] => colas'.blocked = colas.blocked
           /\ \A s : colas' = [colas EXCEPT !.exec = s] => colas'.blocked = colas.blocked
           /\ \A s, t : colas' = [colas EXCEPT !.ready = s, !.exec = t] => colas'.blocked = colas.blocked
           /\ \A s, t : colas' = [colas EXCEPT !.ready = s, !.exit = t] => colas'.blocked = colas.blocked
           /\ \A s, t : colas' = [colas EXCEPT !.exec = s, !.exit = t] => colas'.blocked = colas.blocked
  BY ListasTipos DEF Colas

LEMMA EntradaComun ==
    ASSUME Tipos, Guiones, Entradas, Unico', NEW h \in Hilos,
           CargarReady(h) \/ LtsEx(h) \/ Tomar(h) \/ Girar(h) \/ Reponer(h), Vive'
    PROVE  Entradas'
  <1>0. colas \in Colas /\ colas.blocked \in Seq(Entrada)
    BY ListasTipos
  <1>1. CASE CargarReady(h) \/ LtsEx(h) \/ Tomar(h)
    <2>1. /\ SoloCambia(h) /\ tareas[h] # <<>> /\ Primera(tareas[h]) \in {"cargarReady", "ltsEx", "tomar"}
          /\ (h \in Interfaces => Fase(tareas[h]) # "liberar" \/ Mantiene(tareas[h], tareas'[h]))
          /\ (h = "dispatch" => SigueDispatch /\ Primera(tareas[h]) \in {"ltsEx", "tomar"})
      BY <1>1, PasoCargarReady, PasoLtsEx, PasoTomar, Distintos DEF SigueBorrando
    <2>2. io' = io /\ colas'.blocked = colas.blocked
      BY <1>0, <1>1, BlockedIgual DEF CargarReady, LtsEx, Tomar
    <2>3. h = "dispatch" => tareas'["dispatch"] = <<>> \/ Primera(tareas'["dispatch"]) \notin Atiende
      BY <2>1, SigueUltima DEF Atiende
    <2> QED BY <2>1, <2>2, <2>3, EntradaAjena DEF Sacar
  <1>2. CASE Girar(h)
    <2>1. /\ h \in Interfaces /\ SoloCambia(h) /\ Mantiene(tareas[h], tareas'[h]) /\ tareas[h] # <<>> /\ tareas'[h] # <<>>
          /\ (\A q : EnHilo(q, h)' <=> EnHilo(q, h)) /\ EnHilo(Arg(h), h)
          /\ colas.blocked # <<>> /\ colas' = [colas EXCEPT !.blocked = Tail(@)]
          /\ (Head(colas.blocked).p # Arg(h) =>
                 Head(tareas'[h]) = Op("reponer", Head(colas.blocked).p, Head(colas.blocked).i))
      BY <1>0, <1>2, PasoGirar DEF SigueBorrando
    <2>2. io' = io /\ Primera(tareas[h]) = "girar"
      BY <1>2 DEF Girar, En, Primera
    <2> QED BY <2>1, <2>2, EntradaSale, Distintos DEF Sacar
  <1>3. CASE Reponer(h)
    <2>1. /\ SoloCambia(h) /\ Arg(h) \in Procesos /\ ArgI(h) \in Interfaces /\ h # "dispatch"
          /\ (h \in Interfaces => Mantiene(tareas[h], tareas'[h]))
      BY <1>3, PasoReponer, Distintos DEF SigueBorrando
    <2> DEFINE e == [p |-> Arg(h), i |-> ArgI(h)]
    <2>2. /\ io' = io /\ colas' = [colas EXCEPT !.blocked = Append(colas.blocked, e)]
          /\ tareas[h] # <<>> /\ Primera(tareas[h]) = "reponer"
      BY <1>0, <1>3 DEF Reponer, En, Primera, Colas
    <2>3. colas'.blocked = Append(colas.blocked, e) /\ e \in Entrada
      BY <2>1, <2>2, BlockedIgual DEF Entrada
    <2>4. ToSet(colas'.blocked) = ToSet(colas.blocked) \cup {e}
      BY <1>0, <2>3, AlFinal
    <2>5. \A i \in Interfaces : Fase(tareas'[i]) = "liberar" \/ Fase(tareas[i]) # "liberar"
      BY <2>1, HilosQuedan DEF Mantiene
    <2>6. NoEspera /\ NoUso /\ tareas'["dispatch"] = tareas["dispatch"]
      BY <2>1, <2>2, <2>5, IoQueda, Distintos DEF SoloCambia
    <2>7. \A p \in Procesos, i \in Interfaces : PideEntrada(p, i)' => PideEntrada(p, i)
      BY <2>6, PideQueda
    <2>8. ASSUME NEW p \in Procesos, NEW i \in Interfaces, EnMano(p, i)
          PROVE  Anotada(p, i)' \/ EnMano(p, i)'
      <3>1. PICK g \in Hilos : Tiene(tareas[g], p, i)
        BY <2>8 DEF EnMano
      <3>2. CASE g # h
        BY <2>1, <3>1, <3>2 DEF SoloCambia, EnMano
      <3>3. CASE g = h
        <4>1. Arg(h) = p /\ ArgI(h) = i
          BY <2>2, <3>1, <3>3 DEF Tiene, Sacar, Arg, ArgI
        <4> QED BY <4>1, <2>4 DEF Anotada
      <3> QED BY <3>2, <3>3
    <2>9. \A p, i : Anotada(p, i) => Anotada(p, i)'
      BY <2>4 DEF Anotada
    <2> QED BY <2>7, <2>8, <2>9, EntradasQuedan
  <1> QED BY <1>1, <1>2, <1>3

\* The threads of the interfaces: who is at an interface was there.
LEMMA EntradaHilo ==
    ASSUME Tipos, Guiones, Llaves, Estados, Entradas, NEW h \in Interfaces,
           DesocuparIO(h) \/ Liberar(h) \/ Siguiente(h) \/ Vaciar(h) \/ Free(h) \/ Conectar(h) \/ Desconectar(h),
           Vive'
    PROVE  Entradas'
  <1>0. /\ io \in [Interfaces -> DatosInterfaz] /\ h \in Hilos /\ h # "dispatch"
        /\ io[h] \in DatosInterfaz /\ io[h].espera \in Seq(Procesos) /\ colas.blocked \in Seq(Entrada)
    BY ListasTipos, Distintos
  <1>1. /\ SoloCambia(h) /\ colas' = colas
        /\ tareas[h] = <<>> \/ Primera(tareas[h]) \in OpsSolas
    <2>1. CASE DesocuparIO(h)
      BY <2>1, <1>0, PasoDesocupar DEF DesocuparIO
    <2>2. CASE Liberar(h) \/ Siguiente(h)
      BY <2>2, PasoLiberar, PasoSiguiente DEF Liberar, Siguiente, OpsSolas
    <2>3. CASE Vaciar(h) \/ Free(h)
      BY <2>3, <1>0, PasoVaciar, PasoFree DEF Vaciar, Free, OpsSolas
    <2>4. CASE Conectar(h) \/ Desconectar(h)
      BY <2>4, PasoDesconectar DEF Conectar, Desconectar, SoloCambia, Libre
    <2> QED BY <2>1, <2>2, <2>3, <2>4
  <1>2. (\A i \in Interfaces \ {h} : io'[i] = io[i]) /\ \A i \in Interfaces \ {h} : tareas'[i] = tareas[i]
    BY <1>0, <1>1, HilosQuedan DEF DesocuparIO, Liberar, Siguiente, Vaciar, Free, Conectar, Desconectar
  <1>3. ASSUME \A q \in Procesos : q \in ToSet(io'[h].espera) \/ EnUso(q, h)' => q \in ToSet(io[h].espera) \/ EnUso(q, h)
        PROVE  Entradas'
    <2>1. tareas'["dispatch"] = tareas["dispatch"]
      BY <1>0, <1>1, Distintos DEF SoloCambia
    <2>2. ASSUME NEW p \in Procesos, NEW i \in Interfaces, PideEntrada(p, i)'
          PROVE  PideEntrada(p, i)
      <3>1. CASE i = h
        BY <1>3, <2>1, <2>2, <3>1 DEF PideEntrada, Actua
      <3>2. CASE i # h
        <4>1. io'[i] = io[i] /\ (EnUso(p, i)' => EnUso(p, i))
          BY <1>2, <3>2 DEF EnUso
        <4> QED BY <4>1, <2>1, <2>2 DEF PideEntrada, Actua
      <3> QED BY <3>1, <3>2
    <2>3. \A p, i : EnMano(p, i) => EnMano(p, i)'
      BY <1>0, <1>1, ManoQueda DEF OpsSolas, Sacar
    <2>4. \A p, i : Anotada(p, i) => Anotada(p, i)'
      BY <1>1 DEF Anotada
    <2> QED BY <2>2, <2>3, <2>4, EntradasQuedan
  <1>4. CASE DesocuparIO(h)
    <2>1. io' = io /\ tareas[h] = <<>> /\ Fase(tareas'[h]) = "liberar"
      BY <1>0, <1>4, PasoDesocupar DEF DesocuparIO
    <2> QED BY <2>1, <1>3 DEF EnUso
  <1>5. CASE Liberar(h)
    <2>1. io'[h].libre = TRUE /\ io'[h].espera = io[h].espera
      BY <1>5, <1>0 DEF Liberar, DatosInterfaz
    <2> QED BY <2>1, <1>3 DEF EnUso
  <1>6. CASE Siguiente(h)
    <2>1. Fase(tareas[h]) = "siguiente" /\ Fase(tareas'[h]) = "nada"
      BY <1>6, PasoSiguiente
    <2>2. CASE io[h].espera = <<>>
      <3>1. io' = io
        BY <1>6, <2>2 DEF Siguiente
      <3> QED BY <2>1, <3>1, <1>3 DEF EnUso
    <2>3. CASE io[h].espera # <<>>
      <3> PICK p \in Procesos : p = Head(io[h].espera)
        BY <1>0, <2>3, SinPrimero
      <3>1. io'[h].usando = p /\ io'[h].espera = Tail(io[h].espera)
        BY <1>6, <1>0, <2>3 DEF Siguiente, DatosInterfaz
      <3>2. p \in ToSet(io[h].espera) /\ ToSet(io'[h].espera) \subseteq ToSet(io[h].espera)
        BY <1>0, <2>3, <3>1, SinPrimero
      <3>3. \A q \in Procesos : EnUso(q, h)' => q = p
        BY <3>1 DEF EnUso
      <3> QED BY <3>2, <3>3, <1>3
    <2> QED BY <2>2, <2>3
  <1>7. CASE Vaciar(h)
    <2>1. Fase(tareas[h]) = "vaciar" /\ io[h].espera # <<>>
      BY <1>7, <1>0, PasoVaciar
    <2>2. /\ io'[h].espera = Tail(io[h].espera) /\ io'[h].esta = io[h].esta /\ io'[h].libre = io[h].libre
          /\ io'[h].usando = io[h].usando
      BY <1>7, <1>0 DEF Vaciar, DatosInterfaz
    <2>3. ToSet(io'[h].espera) \subseteq ToSet(io[h].espera)
      BY <1>0, <2>1, <2>2, SinPrimero
    <2> QED BY <2>1, <2>2, <2>3, <1>3 DEF EnUso
  <1>8. CASE Free(h)
    <2>1. Fase(tareas[h]) = "vaciar" /\ io' = io
      BY <1>8, PasoFree DEF Free
    <2> QED BY <2>1, <1>3 DEF EnUso
  <1>9. CASE Conectar(h)
    <2>1. io'[h] = Nueva
      BY <1>9, <1>0 DEF Conectar
    <2>2. io'[h].libre = TRUE /\ ToSet(io'[h].espera) = {}
      BY <2>1 DEF Nueva, ToSet
    <2> QED BY <2>2, <1>3 DEF EnUso
  <1>10. CASE Desconectar(h)
    <2>1. io'[h].esta = FALSE /\ io'[h].espera = io[h].espera
      BY <1>10, <1>0 DEF Desconectar, DatosInterfaz
    <2> QED BY <2>1, <1>3 DEF EnUso
  <1> QED BY <1>4, <1>5, <1>6, <1>7, <1>8, <1>9, <1>10

\* The receiver: the entry comes before the interface, for the same process.
LEMMA EntradaReceptor ==
    ASSUME Tipos, Guiones, Entradas, Receptor, Vive'
    PROVE  Entradas'
  <1> DEFINE d == tareas["dispatch"]
             u == tareas'["dispatch"]
  <1>0. /\ colas \in Colas /\ colas.blocked \in Seq(Entrada) /\ cpu.aKernel \in Seq(Pedido)
        /\ io \in [Interfaces -> DatosInterfaz] /\ "dispatch" \in Hilos /\ "dispatch" \notin Interfaces
        /\ \A i \in Interfaces : io[i] \in DatosInterfaz /\ io[i].espera \in Seq(Procesos)
    BY ListasTipos, Distintos
  <1>1. CASE RecibirDispatch
    <2>1. /\ SoloCambia("dispatch") /\ d = <<>> /\ u # <<>> /\ Primera(u) \in {"ltsEx", "bloquear", "tomar"}
          /\ colas' = [colas EXCEPT !.exec = Tail(@)]
      BY <1>0, <1>1, PasoRecibir
    <2>2. io' = io /\ colas'.blocked = colas.blocked
      BY <1>0, <1>1, <2>1, BlockedIgual DEF RecibirDispatch
    <2> QED BY <1>0, <2>1, <2>2, EntradaAjena DEF Atiende
  <1>2. CASE Bloquear
    <2>1. /\ SoloCambia("dispatch") /\ d # <<>> /\ u # <<>> /\ Primera(d) = "bloquear"
          /\ Arg("dispatch") \in Procesos /\ ArgI("dispatch") \in Interfaces
          /\ Head(u).p = Arg("dispatch") /\ Head(u).i = ArgI("dispatch")
      BY <1>2, PasoBloquear
    <2> PICK p \in Procesos, i \in Interfaces : p = Arg("dispatch") /\ i = ArgI("dispatch")
      BY <2>1
    <2> DEFINE e == [p |-> p, i |-> i]
    <2>2. /\ io' = io /\ colas' = [colas EXCEPT !.blocked = Append(colas.blocked, e)] /\ e \in Entrada
      BY <1>0, <1>2 DEF Bloquear, Entrada, Colas
    <2>9. colas'.blocked = Append(colas.blocked, e)
      BY <2>2, BlockedIgual
    <2>3. ToSet(colas'.blocked) = ToSet(colas.blocked) \cup {e}
      BY <1>0, <2>2, <2>9, AlFinal
    <2>4. \A k \in Interfaces : tareas'[k] = tareas[k]
      BY <1>0, <2>1, HilosQuedan
    <2>5. NoEspera /\ NoUso
      BY <2>2, <2>4, IoQueda
    <2>6. \A q, j : EnMano(q, j) => EnMano(q, j)'
      BY <1>0, <2>1, ManoQueda DEF Sacar
    <2>7. \A q, j : Anotada(q, j) => Anotada(q, j)'
      BY <2>3 DEF Anotada
    <2>8. ASSUME NEW q \in Procesos, NEW j \in Interfaces, PideEntrada(q, j)'
          PROVE  PideEntrada(q, j) \/ Anotada(q, j)'
      <3>1. CASE q = p /\ j = i
        BY <2>3, <3>1 DEF Anotada
      <3>2. CASE ~ (q = p /\ j = i)
        <4>1. \A n : ~ (Actua(u, n, j) /\ Head(u).p = q)
          BY <2>1, <3>2 DEF Actua
        <4>2. q \in ToSet(io'[j].espera) \/ EnUso(q, j)'
          BY <2>8, <4>1 DEF PideEntrada
        <4>3. q \in ToSet(io[j].espera) \/ EnUso(q, j)
          BY <2>5, <4>2, Distintos DEF NoEspera, NoUso, EsperaSolo, UsoSolo
        <4> QED BY <4>3 DEF PideEntrada
      <3> QED BY <3>1, <3>2
    <2> QED BY <2>6, <2>7, <2>8, EntradasQuedan
  <1>3. CASE Mirar
    <2>1. /\ SoloCambia("dispatch") /\ d # <<>> /\ u # <<>> /\ Primera(d) = "mirar"
          /\ Head(u).p = Head(d).p /\ Head(u).i = Head(d).i /\ io' = io /\ colas' = colas
      BY <1>3, PasoMirar DEF Mirar
    <2>4. \A k \in Interfaces : tareas'[k] = tareas[k]
      BY <1>0, <2>1, HilosQuedan
    <2>5. NoEspera /\ NoUso
      BY <2>1, <2>4, IoQueda
    <2>6. \A q, j : EnMano(q, j) => EnMano(q, j)'
      BY <1>0, <2>1, ManoQueda DEF Sacar
    <2>7. \A q, j : Anotada(q, j) => Anotada(q, j)'
      BY <2>1 DEF Anotada
    <2>8. ASSUME NEW q \in Procesos, NEW j \in Interfaces, PideEntrada(q, j)'
          PROVE  PideEntrada(q, j)
      <3>1. CASE q \in ToSet(io'[j].espera) \/ EnUso(q, j)'
        BY <2>5, <3>1, Distintos DEF NoEspera, NoUso, EsperaSolo, UsoSolo, PideEntrada
      <3>2. CASE \E n \in {"atender", "mirar", "ocupar", "encolar"} : Actua(u, n, j) /\ Head(u).p = q
        <4>1. Actua(d, "mirar", j) /\ Head(d).p = q
          BY <2>1, <3>2 DEF Actua
        <4> QED BY <4>1 DEF PideEntrada
      <3> QED BY <2>8, <3>1, <3>2 DEF PideEntrada
    <2> QED BY <2>6, <2>7, <2>8, EntradasQuedan
  <1>4. CASE AtenderIO \/ ActuarSinMutex \/ Pasar \/ SoltarRechazo
    <2>1. /\ d # <<>> /\ Sigue("dispatch", <<>>) /\ colas' = colas
          /\ Primera(d) \in {"atender", "soltar", "pasar", "ocupar", "encolar"}
      BY <1>4 DEF AtenderIO, ActuarSinMutex, Pasar, SoltarRechazo, En, Primera, Quiebra, Vive
    <2>2. TerminaDispatch
      BY <2>1, PasoTermina
    <2>3. /\ SoloCambia("dispatch") /\ ArgI("dispatch") \in Interfaces /\ Arg("dispatch") \in Procesos
          /\ Head(d).p = Arg("dispatch") /\ Head(d).i = ArgI("dispatch")
          /\ u = <<>> \/ Primera(u) = "pasar"
      BY <2>1, <2>2 DEF TerminaDispatch
    <2>4. CASE Pasar \/ SoltarRechazo
      <3>1. io' = io
        BY <2>4 DEF Pasar, SoltarRechazo
      <3> QED BY <1>0, <2>1, <2>3, <3>1, EntradaAjena DEF Sacar, Atiende
    <2>5. CASE AtenderIO \/ ActuarSinMutex
      <3> PICK p \in Procesos, i \in Interfaces : p = Arg("dispatch") /\ i = ArgI("dispatch")
        BY <2>3
      <3>1. OcuparIO(p, i) \/ EncolarIO(p, i)
        BY <2>5 DEF AtenderIO, ActuarSinMutex
      <3>2. Primera(d) \in {"atender", "ocupar", "encolar"}
        BY <2>5 DEF AtenderIO, ActuarSinMutex, En, Primera
      <3>3. PideEntrada(p, i)
        BY <2>1, <2>3, <3>2 DEF PideEntrada, Actua
      <3>4. \A k \in Interfaces : tareas'[k] = tareas[k]
        BY <1>0, <2>3, HilosQuedan
      <3>5. \A k \in Interfaces \ {i} : io'[k] = io[k]
        BY <1>0, <3>1 DEF OcuparIO, EncolarIO
      <3>6. \A q \in Procesos : q \in ToSet(io'[i].espera) \/ EnUso(q, i)' =>
                                   q = p \/ q \in ToSet(io[i].espera) \/ EnUso(q, i)
        <4>1. CASE OcuparIO(p, i)
          <5>1. io'[i].usando = p /\ io'[i].espera = io[i].espera
            BY <1>0, <4>1 DEF OcuparIO, DatosInterfaz
          <5> QED BY <5>1 DEF EnUso
        <4>2. CASE EncolarIO(p, i)
          <5>1. /\ io'[i].usando = io[i].usando /\ io'[i].esta = io[i].esta /\ io'[i].libre = io[i].libre
                /\ io'[i].espera = Append(io[i].espera, p)
            BY <1>0, <4>2 DEF EncolarIO, DatosInterfaz
          <5>2. ToSet(io'[i].espera) = ToSet(io[i].espera) \cup {p}
            BY <1>0, <5>1, AlFinal
          <5> QED BY <3>4, <5>1, <5>2 DEF EnUso
        <4> QED BY <3>1, <4>1, <4>2
      <3>7. ASSUME NEW q \in Procesos, NEW j \in Interfaces, PideEntrada(q, j)'
            PROVE  PideEntrada(q, j)
        <4>1. q \in ToSet(io'[j].espera) \/ EnUso(q, j)'
          BY <2>3, <3>7 DEF PideEntrada, Actua
        <4>2. CASE j = i
          BY <3>3, <3>6, <4>1, <4>2 DEF PideEntrada
        <4>3. CASE j # i
          <5>1. io'[j] = io[j] /\ tareas'[j] = tareas[j]
            BY <3>4, <3>5, <4>3
          <5> QED BY <5>1, <4>1 DEF PideEntrada, EnUso
        <4> QED BY <4>2, <4>3
      <3>8. \A q, j : EnMano(q, j) => EnMano(q, j)'
        BY <1>0, <2>1, <2>3, ManoQueda DEF Sacar
      <3>9. \A q, j : Anotada(q, j) => Anotada(q, j)'
        BY <2>1 DEF Anotada
      <3> QED BY <3>7, <3>8, <3>9, EntradasQuedan
    <2> QED BY <1>4, <2>4, <2>5
  <1> QED BY <1>1, <1>2, <1>3, <1>4 DEF Receptor

\* The other threads: the console's loop on cola_blocked, and what it does with the
\* process that it takes out.
LEMMA EntradaBusca ==
    ASSUME Tipos, Guiones, Entradas, Unico', BuscarBlocked, Vive'
    PROVE  Entradas'
  <1> DEFINE c == tareas["consola"]
             u == tareas'["consola"]
             e == Head(colas.blocked)
  <1>1. /\ colas.blocked \in Seq(Entrada) /\ "consola" \in Hilos /\ "consola" \notin Interfaces /\ "consola" # "dispatch"
    BY ListasTipos, Distintos
  <1>2. /\ SoloCambia("consola") /\ c # <<>> /\ Primera(c) = "buscarBlocked" /\ u # <<>>
        /\ colas.blocked # <<>> /\ colas' = [colas EXCEPT !.blocked = Tail(@)]
        /\ Head(u) = IF e.p = Arg("consola") THEN Op("sacarBloqueo", e.p, e.i) ELSE Op("reponer", e.p, e.i)
    BY <1>1, PasoBuscarBlocked DEF CambiaConsola
  <1>3. io' = io
    BY DEF BuscarBlocked
  <1>4. Head(u) = Op("reponer", e.p, e.i) \/ Head(u) = Op("sacarBloqueo", e.p, e.i)
    BY <1>2
  <1> QED BY <1>1, <1>2, <1>3, <1>4, EntradaSale DEF Sacar

\* A step of the console on the process that it took out: what was its own is in its
\* hands, or the process is on its way to the end.
LEMMA EntradaSaca ==
    ASSUME Tipos, Guiones, SinRepetir, Entradas, Unico', SacarBloqueo \/ SacarEspera, Vive'
    PROVE  Entradas'
  <1> DEFINE c == tareas["consola"]
             u == tareas'["consola"]
  <1>0. /\ io \in [Interfaces -> DatosInterfaz] /\ "consola" \in Hilos /\ "consola" \notin Interfaces
        /\ "consola" # "dispatch" /\ \A i \in Interfaces : io[i] \in DatosInterfaz /\ io[i].espera \in Seq(Procesos)
    BY ListasTipos, Distintos
  <1>1. /\ SoloCambia("consola") /\ c # <<>> /\ Primera(c) \in Sacar /\ Arg("consola") \in Procesos
        /\ ArgI("consola") \in Interfaces
        /\ \/ \A q : EnHilo(q, "consola")' <=> q = Arg("consola")
           \/ u # <<>> /\ Head(u) = Op("sacarEspera", Arg("consola"), ArgI("consola"))
    <2>1. CASE SacarBloqueo
      BY <2>1, PasoSacarBloqueo DEF Sacar, CambiaConsola
    <2>2. CASE SacarEspera
      <3>1. c # <<>> /\ Primera(c) \in Sacar /\ Sigue("consola", <<>>)
        BY <2>2 DEF SacarEspera, En, Primera, Sacar
      <3> QED BY <3>1, PasoSacarTail DEF CambiaConsola
    <2> QED BY <2>1, <2>2
  <1> PICK p \in Procesos : p = Arg("consola")
    BY <1>1
  <1>2. /\ Head(c).p = p
        /\ (\A q : EnHilo(q, "consola")' <=> q = p) \/ (u # <<>> /\ Head(u) = Op("sacarEspera", p, ArgI("consola")))
    BY <1>1 DEF Arg
  <1>3. colas'.blocked = colas.blocked /\ \A i \in Interfaces : tareas'[i] = tareas[i]
    BY <1>0, <1>1, HilosQuedan DEF SacarBloqueo, SacarEspera
  <1>4. NoEspera /\ NoUso
    <2>1. CASE SacarBloqueo
      BY <2>1, <1>3, IoQueda DEF SacarBloqueo
    <2>2. CASE SacarEspera
      <3> PICK i \in Interfaces : i = ArgI("consola")
        BY <1>1
      <3>1. /\ io'[i].espera = Sin(io[i].espera, p) /\ io'[i].esta = io[i].esta /\ io'[i].libre = io[i].libre
            /\ io'[i].usando = io[i].usando
        BY <1>0, <2>2 DEF SacarEspera, DatosInterfaz
      <3>2. \A k \in Interfaces \ {i} : io'[k] = io[k]
        BY <1>0, <2>2 DEF SacarEspera
      <3>3. ToSet(io'[i].espera) \subseteq ToSet(io[i].espera)
        BY <1>0, <3>1, SinLemma DEF SinRepetir
      <3> QED BY <1>3, <3>1, <3>2, <3>3 DEF NoEspera, NoUso, EsperaSolo, UsoSolo, EnUso
    <2> QED BY <2>1, <2>2
  <1>5. tareas'["dispatch"] = tareas["dispatch"]
    BY <1>0, <1>1, Distintos DEF SoloCambia
  <1>6. \A q \in Procesos, i \in Interfaces : PideEntrada(q, i)' => PideEntrada(q, i)
    BY <1>4, <1>5, PideQueda
  <1>7. \A q, i : Anotada(q, i) => Anotada(q, i)'
    BY <1>3 DEF Anotada
  <1>8. ASSUME NEW q \in Procesos, NEW i \in Interfaces, PideEntrada(q, i)', EnMano(q, i)
        PROVE  EnMano(q, i)'
    <2>1. PICK g \in Hilos : Tiene(tareas[g], q, i)
      BY <1>8 DEF EnMano
    <2>2. CASE g # "consola"
      BY <1>1, <2>1, <2>2 DEF SoloCambia, EnMano
    <2>3. CASE g = "consola"
      <3>1. q = p
        BY <1>2, <2>1, <2>3 DEF Tiene
      <3>2. ~ EnHilo(q, "consola")'
        BY <1>0, <1>8, NoPideMas
      <3>3. u # <<>> /\ Head(u) = Op("sacarEspera", p, ArgI("consola"))
        BY <1>2, <3>1, <3>2
      <3>4. PICK o : o = Head(u)
        OBVIOUS
      <3>5. o.p = p /\ o.op = "sacarEspera"
        BY <3>3, <3>4, OpCampos
      <3>6. Tiene(u, q, i)
        BY <3>1, <3>3, <3>4, <3>5 DEF Tiene, Primera, Sacar
      <3> QED BY <1>0, <3>6 DEF EnMano
    <2> QED BY <2>2, <2>3
  <1> QED BY <1>6, <1>7, <1>8, EntradasQuedan

\* Every other step of memoria's receiver, the planner, the CPU and the console.
LEMMA EntradaDemas ==
    ASSUME Tipos, Guiones, Entradas, Vive',
           \/ CargarReadyPorPid \/ Planificador \/ CpuPide \/ CpuCortada
           \/ BuscarReady \/ DescontarReady \/ TomarBlocked \/ SoltarBlocked \/ BuscarExec \/ BajarGrado
           \/ (\E p \in Victimas : FinalizarProceso(p)) \/ ProcesoEstado
           \/ \E n \in Grados : Multiprogramar(n)
    PROVE  Entradas'
  <1>0. /\ colas \in Colas /\ deMemoria \in Seq(Procesos) /\ colas.blocked \in Seq(Entrada)
        /\ \A h \in {"consola", "memoria", "planificador"} : h \in Hilos /\ h \notin Interfaces /\ h # "dispatch"
    BY ListasTipos, Distintos
  <1>1. io' = io /\ colas'.blocked = colas.blocked
    BY <1>0 DEF Colas, CargarReadyPorPid, Planificador, EsperarReady, SacarReady, CpuPide, CpuCortada, BuscarReady,
       DescontarReady, TomarBlocked, SoltarBlocked, BuscarExec, BajarGrado, FinalizarProceso, ProcesoEstado, Multiprogramar
  <1>2. ASSUME NEW h \in {"consola", "memoria", "planificador"}, SoloCambia(h),
               tareas[h] = <<>> \/ Primera(tareas[h]) \notin Sacar \cup {"reponer"}
        PROVE  Entradas'
    BY <1>0, <1>1, <1>2, EntradaAjena
  <1>3. CASE CargarReadyPorPid
    BY <1>0, <1>2, <1>3, PasoPorPid
  <1>4. CASE Planificador
    BY <1>2, <1>4, PasoEsperar, PasoSacar DEF Planificador, Sacar
  <1>5. CASE CpuPide \/ CpuCortada
    <2>1. tareas' = tareas
      BY <1>5 DEF CpuPide, CpuCortada
    <2>2. \A p, i : (PideEntrada(p, i)' <=> PideEntrada(p, i)) /\ (EnMano(p, i)' <=> EnMano(p, i))
                    /\ (Anotada(p, i)' <=> Anotada(p, i))
      BY <1>1, <2>1 DEF PideEntrada, EnMano, Anotada, EnUso
    <2> QED BY <2>2, EntradasQuedan
  <1>6. CASE BuscarReady \/ TomarBlocked
    BY <1>0, <1>2, <1>6, PasoBuscarReady, PasoTomarBlocked DEF CambiaConsola, Sacar
  <1>7. CASE DescontarReady \/ SoltarBlocked \/ BuscarExec \/ BajarGrado
    <2>1. /\ tareas["consola"] # <<>> /\ Sigue("consola", <<>>)
          /\ Primera(tareas["consola"]) \in {"bajarGrado", "descontarReady", "soltarBlocked", "buscarExec"}
      BY <1>7 DEF DescontarReady, SoltarBlocked, BuscarExec, BajarGrado, En, Primera
    <2>2. SoloCambia("consola")
      BY <2>1, PasoResto DEF CambiaConsola
    <2> QED BY <1>2, <2>1, <2>2 DEF Sacar
  <1>8. CASE (\E p \in Victimas : FinalizarProceso(p)) \/ ProcesoEstado \/ \E n \in Grados : Multiprogramar(n)
    BY <1>2, <1>8, PasoFinalizar, PasoListar, PasoMulti DEF CambiaConsola
  <1> QED BY <1>3, <1>4, <1>5, <1>6, <1>7, <1>8

LEMMA PasoEntradas ==
    ASSUME Tipos, Guiones, Llaves, Estados, SinRepetir, Entradas, Unico', Next, Vive'
    PROVE  Entradas'
  <1>1. ASSUME NEW h \in Hilos, CargarReady(h) \/ LtsEx(h) \/ Tomar(h) \/ Girar(h) \/ Reponer(h)
        PROVE  Entradas'
    BY <1>1, EntradaComun
  <1>2. ASSUME NEW h \in Interfaces,
               DesocuparIO(h) \/ Liberar(h) \/ Siguiente(h) \/ Vaciar(h) \/ Free(h) \/ Conectar(h) \/ Desconectar(h)
        PROVE  Entradas'
    BY <1>2, EntradaHilo
  <1>3. CASE RecibirDispatch \/ Bloquear \/ AtenderIO \/ Mirar \/ ActuarSinMutex \/ Pasar \/ SoltarRechazo
    BY <1>3, EntradaReceptor DEF Receptor
  <1>4. CASE BuscarBlocked \/ SacarBloqueo \/ SacarEspera
    BY <1>4, EntradaBusca, EntradaSaca
  <1>5. EsperarReady \/ SacarReady => Planificador
    BY DEF Planificador
  <1> QED BY <1>1, <1>2, <1>3, <1>4, <1>5, EntradaDemas, LasAcciones, ChocarRompe DEF Acciones

-----------------------------------------------------------------------------
(* The theorems.                                                           *)

LEMMA InvPaso == IInv /\ [Next]_vars => IInv'
  <1>1. ASSUME IInv, Next
        PROVE  IInv'
    <2>1. Tipos /\ Sano
      BY <1>1, SoloVive DEF IInv
    <2>2. Tipos'
      BY <1>1, <2>1, TiposPaso
    <2>3. ASSUME Vive'
          PROVE  Sano'
      <3>1. Guiones'
        BY <1>1, <2>1, <2>3, PasoGuiones DEF Sano
      <3>2. Llaves' /\ Estados'
        BY <1>1, <2>1, <2>3, PasoSana DEF Sano
      <3>3. Unico' /\ SinRepetir'
        BY <1>1, <2>1, <2>3, PasoLugar DEF Sano
      <3>4. Entradas'
        BY <1>1, <2>1, <2>3, <3>3, PasoEntradas DEF Sano
      <3> QED BY <3>1, <3>2, <3>3, <3>4 DEF Sano
    <2> QED BY <2>2, <2>3 DEF IInv
  <1>2. ASSUME IInv, UNCHANGED vars
        PROVE  IInv'
    <2>1. Tipos' /\ (Vive' => Vive)
      BY <1>2 DEF vars, historia, IInv, Tipos, Vive
    <2>2. /\ colas' = colas /\ deMemoria' = deMemoria /\ dueno' = dueno /\ io' = io /\ enviadas' = enviadas
          /\ cpu' = cpu /\ tareas' = tareas /\ carreras' = carreras
      BY <1>2 DEF vars, historia
    <2>3. Vive => /\ Guiones' /\ Llaves' /\ Estados' /\ SinRepetir'
      BY <1>2, <2>2 DEF IInv, Sano, Guiones, Llaves, Estados, SinRepetir
    <2>4. Vive => Unico' /\ Entradas'
      BY <1>2, <2>2 DEF IInv, Sano, Unico, EnLugar, EnHilo, EnUso, Entradas, PideEntrada, EnMano
    <2> QED BY <2>1, <2>3, <2>4 DEF IInv, Sano
  <1> QED BY <1>1, <1>2

\* The inductive invariant.
THEOREM Invariante == Spec => []IInv
  <1>1. IInv /\ [Next]_vars => IInv'
    BY InvPaso
  <1> QED BY <1>1, Comienza, PTL DEF Spec

\* The lists, the counters and the interfaces keep their types: the entries of
\* cola_blocked name a process and an interface, and no counter goes below zero.
THEOREM Tipado == Spec => []TypeOK
  <1>1. IInv => TypeOK
    BY DEF IInv, Tipos, TypeOK, Colas, Semaforos, DatosInterfaz, Cpu
  <1> QED BY <1>1, Invariante, PTL

\* An interface that nobody is changing: its thread is between two messages or was
\* told to leave and has not started.
LEMMA QuietaFase ==
    ASSUME IInv, NEW i \in Interfaces, Quieta(i)
    PROVE  /\ Sano /\ Tipos /\ Fase(tareas[i]) = "nada" /\ Estado(i, io[i], enviadas[i], "nada", tareas["dispatch"], carreras)
  <1>1. Sano /\ Tipos /\ dueno[i] = Nadie
    BY DEF IInv, Quieta, Cerrado
  <1>2. ~ Posee(tareas[i])
    BY <1>1, Distintos DEF Sano, Llaves, Llave, Nadie
  <1>3. Fase(tareas[i]) \in {"nada", "vaciar"}
    BY <1>1, <1>2, SinMutex DEF Sano
  <1>4. Estado(i, io[i], enviadas[i], Fase(tareas[i]), tareas["dispatch"], carreras)
    BY <1>1 DEF Sano, Estados
  <1>5. Fase(tareas[i]) # "vaciar"
    BY <1>4 DEF Quieta, Estado
  <1> QED BY <1>1, <1>3, <1>4, <1>5

\* Each interface works for one process at a time, the one that pcb_usando_interfaz
\* names, if and only if it is not libre.
THEOREM UnaPorVezSiempre == Spec => []UnaPorVez
  <1>1. IInv => UnaPorVez
    BY QuietaFase DEF UnaPorVez, Quieta, Estado
  <1> QED BY <1>1, Invariante, PTL

\* No process waits in cola_blocked_interfaz of an interface that is free.
THEOREM NadieEsperaLibreSiempre == Spec => []NadieEsperaLibre
  <1>1. IInv => NadieEsperaLibre
    BY QuietaFase DEF NadieEsperaLibre, Quieta, Estado
  <1> QED BY <1>1, Invariante, PTL

\* The entries in the hands of a thread: the first operation it has left.
LEMMA PrimeroDeVarios ==
    ASSUME NEW a, NEW b, NEW c
    PROVE  /\ 1 \in DOMAIN <<a, b, c>> /\ <<a, b, c>>[1] = Head(<<a, b, c>>)
           /\ \A d : 1 \in DOMAIN <<a, b, c, d>> /\ <<a, b, c, d>>[1] = Head(<<a, b, c, d>>)
  OBVIOUS

LEMMA ManoDominio ==
    ASSUME Guiones, NEW h \in Hilos, tareas[h] # <<>>, Primera(tareas[h]) \in Sacar \cup {"reponer"}
    PROVE  1 \in DOMAIN tareas[h] /\ tareas[h][1] = Head(tareas[h])
  <1> DEFINE s == tareas[h]
             Bien == 1 \in DOMAIN s /\ s[1] = Head(s)
  <1>1. ASSUME NEW a, NEW b, NEW c, s = <<a, b, c>> \/ \E d : s = <<a, b, c, d>>
        PROVE  Bien
    BY <1>1, PrimeroDeVarios
  <1> HIDE DEF Bien
  <1>2. CASE h \in Interfaces
    <2>1. Primera(s) = "reponer"
      BY <1>2, QuienPuede DEF OpsSolas, OpsBorrar, Sacar
    <2>2. PICK p \in Procesos, fin \in Finales : Borrando(s, h, p, fin)
      BY <1>2, <2>1, Borrador DEF OpsBorrar
    <2>3. PICK a, b, c, d : s = <<a, b, c>> \/ s = <<a, b, c, d>>
      BY <2>1, <2>2 DEF Borrando
    <2> QED BY <1>1, <2>3
  <1>3. CASE h = "consola"
    <2>1. PICK p : Buscando(s, p)
      BY <1>3, EnConsola DEF Sacar
    <2>2. CASE Primera(s) = "reponer"
      <3>1. PICK a, b, c, d : s = <<a, b, c>> \/ s = <<a, b, c, d>>
        BY <2>1, <2>2 DEF Buscando
      <3> QED BY <1>1, <3>1
    <2>3. CASE Primera(s) \in Sacar
      <3>1. PICK a, b, c, d : s = <<a, b, c, d>>
        BY <2>1, <2>3 DEF Buscando, Sacar
      <3> QED BY <1>1, <3>1
    <2> QED BY <2>2, <2>3
  <1>4. CASE h \notin Interfaces /\ h # "consola"
    BY <1>4, QuienPuede, Distintos DEF Sacar, OpsDispatch
  <1> QED BY <1>2, <1>3, <1>4 DEF Bien

\* A process that waits for an interface or uses it has its entry in cola_blocked,
\* where FINALIZAR_PROCESO looks for it, or a thread has it in its hands, for as long as
\* no pop or push of that list overlaps another one (Chocar, and quiebre then).
THEOREM EntradaPresenteSiempre == Spec => []EntradaPresente
  <1>1. ASSUME IInv, NEW i \in Interfaces, Quieta(i), NEW p \in EnInterfaz(i)
        PROVE  \/ [p |-> p, i |-> i] \in ToSet(colas.blocked)
               \/ \E h \in Hilos : \E n \in DOMAIN tareas[h] :
                     /\ tareas[h][n].op \in {"reponer", "sacarBloqueo", "sacarEspera"}
                     /\ tareas[h][n].p = p
    <2>1. Sano /\ Tipos /\ Fase(tareas[i]) = "nada" /\ Estado(i, io[i], enviadas[i], "nada", tareas["dispatch"], carreras)
      BY <1>1, QuietaFase
    <2>2. io[i] \in DatosInterfaz /\ io[i].espera \in Seq(Procesos)
      BY <2>1, ListasTipos
    <2>3. p \in ToSet(io[i].espera) \/ EnUso(p, i)
      BY <1>1, <2>1 DEF EnInterfaz, EnUso, Quieta
    <2>4. p \in Procesos
      <3>1. CASE p \in ToSet(io[i].espera)
        BY <2>2, <3>1 DEF ToSet
      <3>2. CASE EnUso(p, i)
        BY <1>1, <2>1, <2>2, <3>2 DEF EnUso, Quieta, Estado
      <3> QED BY <2>3, <3>1, <3>2
    <2>5. [p |-> p, i |-> i] \in ToSet(colas.blocked) \/ EnMano(p, i)
      BY <2>1, <2>3, <2>4 DEF Sano, Entradas, PideEntrada
    <2>6. ASSUME NEW h \in Hilos, Tiene(tareas[h], p, i)
          PROVE  \E n \in DOMAIN tareas[h] : /\ tareas[h][n].op \in {"reponer", "sacarBloqueo", "sacarEspera"}
                                             /\ tareas[h][n].p = p
      <3>1. tareas[h] # <<>> /\ Primera(tareas[h]) \in Sacar \cup {"reponer"} /\ Head(tareas[h]).p = p
        BY <2>6 DEF Tiene
      <3>2. 1 \in DOMAIN tareas[h] /\ tareas[h][1] = Head(tareas[h])
        BY <2>1, <3>1, ManoDominio DEF Sano
      <3> QED BY <3>1, <3>2 DEF Primera, Sacar
    <2> QED BY <2>5, <2>6 DEF EnMano
  <1>2. IInv => EntradaPresente
    BY <1>1 DEF EntradaPresente
  <1> QED BY <1>2, Invariante, PTL

\* A process is in one place only, and once: a list of the planner or an interface.
THEOREM UnSoloLugarSiempre == Spec => []UnSoloLugar
  <1>1. ASSUME IInv, Vive, \A i \in Interfaces : ~ Cerrado(i)
        PROVE  LET s == colas.new \o colas.ready \o colas.exec \o colas.exit
                   deIO == [i \in Interfaces |-> EnInterfaz(i)] IN
               /\ IsInjective(s)
               /\ \A i \in Interfaces : IsInjective(io[i].espera) /\ ToSet(s) \cap deIO[i] = {}
               /\ \A i, j \in Interfaces : i # j => deIO[i] \cap deIO[j] = {}
    <2>1. Sano /\ Tipos
      BY <1>1 DEF IInv
    <2>2. /\ colas.new \in Seq(Procesos) /\ colas.ready \in Seq(Procesos)
          /\ colas.exec \in Seq(Procesos) /\ colas.exit \in Seq(Procesos)
          /\ \A i \in Interfaces : io[i] \in DatosInterfaz /\ io[i].espera \in Seq(Procesos)
      BY <2>1, ListasTipos
    <2>3. \A i \in Interfaces : Fase(tareas[i]) # "liberar"
      <3>1. ASSUME NEW i \in Interfaces
            PROVE  Fase(tareas[i]) # "liberar"
        <4>1. dueno[i] = Nadie
          BY <1>1 DEF Cerrado
        <4>2. ~ Posee(tareas[i])
          BY <2>1, <4>1, Distintos DEF Sano, Llaves, Llave, Nadie
        <4> QED BY <2>1, <4>2, SinMutex DEF Sano
      <3> QED BY <3>1
    <2>5. \A p \in Procesos : /\ p \in ToSet(colas.new) <=> EnLugar(p, "lista", "new")
                              /\ p \in ToSet(colas.ready) <=> EnLugar(p, "lista", "ready")
                              /\ p \in ToSet(colas.exec) <=> EnLugar(p, "lista", "exec")
                              /\ p \in ToSet(colas.exit) <=> EnLugar(p, "lista", "exit")
      BY DEF EnLugar
    <2>6. \A p \in Procesos, i \in Interfaces : p \in EnInterfaz(i) => EnLugar(p, "espera", i) \/ EnLugar(p, "uso", i)
      BY <2>3 DEF EnInterfaz, EnLugar, EnUso
    <2>7. ToSet(colas.new) \subseteq Procesos /\ ToSet(colas.ready) \subseteq Procesos
          /\ ToSet(colas.exec) \subseteq Procesos /\ ToSet(colas.exit) \subseteq Procesos
      BY <2>2 DEF ToSet
    <2>8. /\ ToSet(colas.new) \cap ToSet(colas.ready) = {}
          /\ (ToSet(colas.new) \cup ToSet(colas.ready)) \cap ToSet(colas.exec) = {}
          /\ ((ToSet(colas.new) \cup ToSet(colas.ready)) \cup ToSet(colas.exec)) \cap ToSet(colas.exit) = {}
      BY <2>1, <2>5, <2>7 DEF Sano, Unico
    <2> DEFINE a == colas.new \o colas.ready
               b == a \o colas.exec
               s == b \o colas.exit
    <2>9. a \in Seq(Procesos) /\ ToSet(a) = ToSet(colas.new) \cup ToSet(colas.ready) /\ IsInjective(a)
      BY <2>1, <2>2, <2>8, UnaTrasOtra DEF Sano, SinRepetir
    <2> HIDE DEF a
    <2>10. b \in Seq(Procesos) /\ ToSet(b) = (ToSet(colas.new) \cup ToSet(colas.ready)) \cup ToSet(colas.exec) /\ IsInjective(b)
      BY <2>1, <2>2, <2>8, <2>9, UnaTrasOtra DEF Sano, SinRepetir
    <2> HIDE DEF b
    <2>11. /\ ToSet(s) = ((ToSet(colas.new) \cup ToSet(colas.ready)) \cup ToSet(colas.exec)) \cup ToSet(colas.exit)
           /\ IsInjective(s)
      BY <2>1, <2>2, <2>8, <2>10, UnaTrasOtra DEF Sano, SinRepetir
    <2>12. \A p \in ToSet(s) : p \in Procesos /\ \E x : EnLugar(p, "lista", x)
      BY <2>5, <2>7, <2>11
    <2>13. s = colas.new \o colas.ready \o colas.exec \o colas.exit
      BY DEF a, b
    <2> HIDE DEF s
    <2>14. \A i \in Interfaces : ToSet(s) \cap EnInterfaz(i) = {}
      BY <2>1, <2>6, <2>12 DEF Sano, Unico
    <2>15. ASSUME NEW i \in Interfaces, NEW j \in Interfaces, i # j, NEW p, p \in EnInterfaz(i), p \in EnInterfaz(j)
           PROVE  FALSE
      <3>1. p \in Procesos
        <4>1. io[i].libre <=> io[i].usando \notin Procesos
          BY <2>1 DEF Sano, Estados, Estado
        <4>2. ToSet(io[i].espera) \subseteq Procesos
          BY <2>2 DEF ToSet
        <4> QED BY <4>1, <4>2, <2>15 DEF EnInterfaz
      <3> QED BY <2>1, <2>6, <2>15, <3>1 DEF Sano, Unico
    <2>16. \A i \in Interfaces : IsInjective(io[i].espera)
      BY <2>1 DEF Sano, SinRepetir
    <2> QED BY <2>11, <2>13, <2>14, <2>15, <2>16
  <1>2. IInv => UnSoloLugar
    BY <1>1 DEF UnSoloLugar
  <1> QED BY <1>2, Invariante, PTL

-----------------------------------------------------------------------------
(* Interfaces implements Servidor.                                         *)

LEMMA UltimaFase ==
    ASSUME NEW i
    PROVE  Terminada(i) <=> Fase(tareas[i]) = "liberar"
  BY DEF Terminada, Fase, Ultima, Last

\* What is done to the queue of a server that works for u and has s waiting.
LEMMA ColaAlFinal ==
    ASSUME NEW T, NEW u \in T, NEW s \in Seq(T), NEW p \in T
    PROVE  <<u>> \o Append(s, p) = Append(<<u>> \o s, p)
  <1>1. Append(s, p) = s \o <<p>> /\ <<u>> \in Seq(T) /\ <<p>> \in Seq(T)
    BY AppendIsConcat
  <1>2. <<u>> \o s \in Seq(T)
    BY <1>1, ConcatProperties
  <1>3. Append(<<u>> \o s, p) = (<<u>> \o s) \o <<p>>
    BY <1>2, AppendIsConcat
  <1> QED BY <1>1, <1>3, ConcatAssociative

LEMMA ColaPrimero ==
    ASSUME NEW T, NEW u \in T, NEW s \in Seq(T)
    PROVE  /\ <<u>> \o s # <<>> /\ Tail(<<u>> \o s) = s
           /\ s # <<>> => <<Head(s)>> \o Tail(s) = s
           /\ <<>> \o s = s
  <1> DEFINE c == <<u>> \o s
             t == Tail(c)
  <1>1. /\ c \in Seq(T) /\ Len(c) = 1 + Len(s) /\ Len(s) \in Nat
        /\ \A n \in 1 .. 1 + Len(s) : c[n] = IF n <= 1 THEN <<u>>[n] ELSE s[n - 1]
    <2>1. <<u>> \in Seq(T) /\ Len(<<u>>) = 1
      OBVIOUS
    <2> QED BY <2>1, ConcatProperties
  <1> HIDE DEF c
  <1>2. c # <<>>
    BY <1>1
  <1>3. t \in Seq(T) /\ Len(t) = Len(s) /\ \A n \in 1 .. Len(t) : t[n] = c[n + 1]
    BY <1>1, <1>2, HeadTailProperties
  <1> HIDE DEF t
  <1>4. \A n \in 1 .. Len(s) : t[n] = s[n]
    BY <1>1, <1>3
  <1>5. t = s
    BY <1>3, <1>4, SeqEqual
  <1>6. ASSUME s # <<>>
        PROVE  <<Head(s)>> \o Tail(s) = s
    <2> DEFINE h == <<Head(s)>>
               r == Tail(s)
               v == h \o r
    <2>1. /\ h \in Seq(T) /\ Len(h) = 1 /\ h[1] = s[1] /\ r \in Seq(T) /\ Len(r) = Len(s) - 1
          /\ Len(s) \in Nat /\ \A n \in 1 .. Len(r) : r[n] = s[n + 1]
      BY <1>6, HeadTailProperties
    <2> HIDE DEF h, r
    <2>c. h \in Seq(T) /\ r \in Seq(T)
      BY <2>1
    <2>a. /\ v \in Seq(T) /\ Len(v) = Len(h) + Len(r)
          /\ \A n \in 1 .. Len(h) + Len(r) : v[n] = IF n <= Len(h) THEN h[n] ELSE r[n - Len(h)]
      BY <2>c, ConcatProperties
    <2> HIDE DEF v
    <2>b. Len(h) + Len(r) = Len(s)
      BY <2>1
    <2>2. /\ v \in Seq(T) /\ Len(v) = Len(s)
          /\ \A n \in 1 .. Len(s) : v[n] = IF n <= 1 THEN h[n] ELSE r[n - 1]
      BY <2>a, <2>b, <2>1
    <2>3. \A n \in 1 .. Len(s) : v[n] = s[n]
      BY <2>1, <2>2
    <2>4. v = s
      BY <2>2, <2>3, SeqEqual
    <2> QED BY <2>4 DEF v, h, r
  <1>7. <<>> \o s = s
    BY ConcatEmptySeq
  <1> QED BY <1>2, <1>5, <1>6, <1>7 DEF c, t

\* The others, after the one in place n was ended.
Restan(c, n) == [k \in 1 .. Len(c) - 1 |-> c[IF k < n THEN k ELSE k + 1]]

LEMMA ColaSin ==
    ASSUME NEW T, NEW u \in T, NEW s \in Seq(T), NEW p \in ToSet(s)
    PROVE  /\ Posicion(s, p) + 1 \in 2 .. Len(<<u>> \o s)
           /\ <<u>> \o Sin(s, p) = Restan(<<u>> \o s, Posicion(s, p) + 1)
  <1> DEFINE c == <<u>> \o s
             m == Posicion(s, p)
             a == SubSeq(s, 1, m - 1)
             b == SubSeq(s, m + 1, Len(s))
             r == a \o b
             v == <<u>> \o r
             f == [k \in 1 .. Len(c) - 1 |-> c[IF k < m + 1 THEN k ELSE k + 1]]
  <1>1. m \in 1 .. Len(s) /\ Len(s) \in Nat /\ \A n \in 1 .. Len(s) : s[n] \in T
    BY PosicionLemma, ElementOfSeq
  <1>2. Sin(s, p) = r
    BY DEF Sin, RemoveAt
  <1> HIDE DEF m
  <1>3. /\ a \in Seq(T) /\ Len(a) = m - 1 /\ \A k \in 1 .. m - 1 : a[k] = s[k]
    <2>1. /\ 1 \in Int /\ m - 1 \in Int /\ (\A k \in 1 .. m - 1 : s[k] \in T)
      BY <1>1
    <2>2. a \in Seq(T) /\ Len(a) = (IF 1 <= m - 1 THEN ((m - 1) - 1) + 1 ELSE 0)
          /\ \A k \in 1 .. ((m - 1) - 1) + 1 : a[k] = s[(1 + k) - 1]
      BY <2>1, SubSeqProperties
    <2> HIDE DEF a
    <2> QED BY <1>1, <2>2
  <1>4. /\ b \in Seq(T) /\ Len(b) = Len(s) - m /\ \A k \in 1 .. Len(s) - m : b[k] = s[m + k]
    <2>1. /\ m + 1 \in Int /\ Len(s) \in Int /\ (\A k \in m + 1 .. Len(s) : s[k] \in T)
      BY <1>1
    <2>2. b \in Seq(T) /\ Len(b) = (IF m + 1 <= Len(s) THEN (Len(s) - (m + 1)) + 1 ELSE 0)
          /\ \A k \in 1 .. (Len(s) - (m + 1)) + 1 : b[k] = s[((m + 1) + k) - 1]
      BY <2>1, SubSeqProperties
    <2> HIDE DEF b
    <2>3. Len(b) = Len(s) - m /\ (Len(s) - (m + 1)) + 1 = Len(s) - m
      BY <1>1, <2>2
    <2>4. \A k \in 1 .. Len(s) - m : ((m + 1) + k) - 1 = m + k
      BY <1>1
    <2> QED BY <2>2, <2>3, <2>4
  <1> HIDE DEF a, b
  <1>5. r \in Seq(T) /\ Len(r) = Len(s) - 1 /\ \A k \in 1 .. Len(s) - 1 : r[k] = IF k < m THEN s[k] ELSE s[k + 1]
    <2>1. /\ r \in Seq(T) /\ Len(r) = Len(a) + Len(b)
          /\ \A k \in 1 .. Len(a) + Len(b) : r[k] = IF k <= Len(a) THEN a[k] ELSE b[k - Len(a)]
      BY <1>3, <1>4, ConcatProperties
    <2> HIDE DEF r
    <2>2. Len(a) + Len(b) = Len(s) - 1
      BY <1>1, <1>3, <1>4
    <2>3. ASSUME NEW k \in 1 .. Len(s) - 1
          PROVE  r[k] = IF k < m THEN s[k] ELSE s[k + 1]
      <3>1. CASE k < m
        <4>1. k \in 1 .. m - 1 /\ k <= Len(a)
          BY <1>1, <1>3, <3>1
        <4> QED BY <1>3, <2>1, <2>2, <3>1, <4>1
      <3>2. CASE ~ (k < m)
        <4>1. k - Len(a) \in 1 .. Len(s) - m /\ ~ (k <= Len(a)) /\ m + (k - Len(a)) = k + 1
          BY <1>1, <1>3, <3>2
        <4> QED BY <1>4, <2>1, <2>2, <3>2, <4>1
      <3> QED BY <3>1, <3>2
    <2> QED BY <2>1, <2>2, <2>3
  <1> HIDE DEF r
  <1>6. /\ c \in Seq(T) /\ Len(c) = 1 + Len(s) /\ DOMAIN c = 1 .. Len(c)
        /\ \A n \in 1 .. 1 + Len(s) : c[n] = IF n <= 1 THEN u ELSE s[n - 1]
    <2>1. <<u>> \in Seq(T) /\ Len(<<u>>) = 1 /\ <<u>>[1] = u
      OBVIOUS
    <2> QED BY <2>1, <1>1, ConcatProperties
  <1>7. /\ v \in Seq(T) /\ Len(v) = Len(s)
        /\ \A n \in 1 .. Len(s) : v[n] = IF n <= 1 THEN u ELSE r[n - 1]
    <2>1. <<u>> \in Seq(T) /\ Len(<<u>>) = 1 /\ <<u>>[1] = u
      OBVIOUS
    <2> QED BY <2>1, <1>1, <1>5, ConcatProperties
  <1> HIDE DEF c, v
  <1>8. ASSUME NEW k \in 1 .. Len(s)
        PROVE  v[k] = f[k] /\ f[k] \in T
    <2>1. f[k] = c[IF k < m + 1 THEN k ELSE k + 1]
      BY <1>6
    <2>2. CASE k = 1
      <3>1. v[k] = u
        BY <1>7, <2>2
      <3>2. f[k] = u
        BY <1>1, <1>6, <2>1, <2>2
      <3> QED BY <3>1, <3>2
    <2>3. CASE k > 1 /\ k < m + 1
      <3>1. v[k] = s[k - 1] /\ f[k] = s[k - 1]
        BY <1>1, <1>5, <1>6, <1>7, <2>1, <2>3
      <3> QED BY <1>1, <2>3, <3>1
    <2>4. CASE k > 1 /\ ~ (k < m + 1)
      <3>1. v[k] = r[k - 1] /\ f[k] = c[k + 1]
        BY <1>7, <2>1, <2>4
      <3>a. /\ k - 1 \in 1 .. Len(s) - 1 /\ ~ (k - 1 < m) /\ (k - 1) + 1 = k
            /\ k + 1 \in 1 .. 1 + Len(s) /\ ~ (k + 1 <= 1) /\ (k + 1) - 1 = k
        BY <1>1, <2>4
      <3>2. r[k - 1] = s[k] /\ c[k + 1] = s[k]
        BY <1>5, <1>6, <3>a
      <3> QED BY <1>1, <2>4, <3>1, <3>2
    <2> QED BY <2>2, <2>3, <2>4
  <1>9. f \in Seq(T) /\ Len(f) = Len(s)
    <2>1. f \in [1 .. Len(s) -> T]
      BY <1>6, <1>8, <1>1
    <2> HIDE DEF f
    <2> QED BY <2>1, <1>1
  <1> HIDE DEF f
  <1>10. v = f
    BY <1>7, <1>8, <1>9, SeqEqual
  <1>11. m + 1 \in 2 .. Len(c)
    BY <1>1, <1>6
  <1>12. v = <<u>> \o Sin(s, p)
    BY <1>2 DEF v
  <1>13. f = Restan(c, m + 1)
    BY DEF f, Restan
  <1> QED BY <1>10, <1>11, <1>12, <1>13 DEF c, m

\* Nothing happens to the queues, but for those about which no more is promised.
LEMMA PierdeONada ==
    ASSUME Perdidos \subseteq Perdidos', Perdidos' \subseteq Interfaces,
           \A i \in Interfaces : io'[i].esta = io[i].esta /\ (i \notin Perdidos' => ColaDe(i)' = ColaDe(i))
    PROVE  S!Next
  <1>1. \A i \in Interfaces : ColaDe(i)' = IF i \in Perdidos' THEN <<>> ELSE ColaDe(i)
    BY DEF ColaDe
  <1>2. {i \in Interfaces : io[i].esta}' = {i \in Interfaces : io[i].esta}
    OBVIOUS
  <1>3. [i \in Interfaces |-> ColaDe(i)]'
           = [s \in Interfaces |-> IF s \in Perdidos' THEN <<>> ELSE [i \in Interfaces |-> ColaDe(i)][s]]
    BY <1>1
  <1>4. Perdidos' \in SUBSET Interfaces /\ Perdidos' = Perdidos \cup Perdidos'
    OBVIOUS
  <1>5. S!Perder
    BY <1>2, <1>3, <1>4 DEF S!Perder
  <1> QED BY <1>5 DEF S!Next

LEMMA ColaIgual ==
    ASSUME NEW i \in Interfaces, i \notin Perdidos', Perdidos \subseteq Perdidos', io'[i] = io[i],
           Fase(tareas'[i]) = "liberar" <=> Fase(tareas[i]) = "liberar"
    PROVE  ColaDe(i)' = ColaDe(i)
  <1>1. Terminada(i)' <=> Terminada(i)
    BY DEF Terminada, Fase, Ultima, Last
  <1> QED BY <1>1 DEF ColaDe

LEMMA PerdidosCrecen ==
    ASSUME IInv, IInv', Next
    PROVE  Perdidos \subseteq Perdidos' /\ Perdidos' \subseteq Interfaces
  <1>1. Vive /\ carreras \subseteq Interfaces /\ carreras' \subseteq Interfaces
    BY SoloVive DEF IInv, Tipos
  <1>2. carreras \subseteq carreras'
    BY LasAcciones DEF Acciones, CargarReady, LtsEx, Tomar, Girar, Reponer, RecibirDispatch, Bloquear, AtenderIO,
       Mirar, ActuarSinMutex, Pasar, SoltarRechazo, Conectar, DesocuparIO, Liberar, Siguiente, Desconectar, Vaciar,
       Free, CargarReadyPorPid, EsperarReady, SacarReady, CpuPide, CpuCortada, FinalizarProceso, ProcesoEstado,
       Multiprogramar, BajarGrado, BuscarReady, DescontarReady, TomarBlocked, BuscarBlocked, SacarBloqueo,
       SacarEspera, SoltarBlocked, BuscarExec, Chocar, Cruzar, historia
  <1> QED BY <1>1, <1>2 DEF Perdidos

\* Only who connects or leaves changes esta.
LEMMA EstaIgual ==
    ASSUME Tipos, Next, NEW i \in Interfaces, ~ Conectar(i), ~ Desconectar(i)
    PROVE  io'[i].esta = io[i].esta
  <1>1. io \in [Interfaces -> DatosInterfaz] /\ io[i] \in DatosInterfaz
    BY DEF Tipos
  <1>2. CASE \E j \in Interfaces : Conectar(j) \/ Desconectar(j)
    BY <1>1, <1>2 DEF Conectar, Desconectar
  <1>3. ASSUME NEW p, NEW j, OcuparIO(p, j) \/ EncolarIO(p, j)
        PROVE  io'[i].esta = io[i].esta
    <2>1. CASE i = j
      BY <1>1, <1>3, <2>1 DEF OcuparIO, EncolarIO, DatosInterfaz
    <2>2. CASE i # j
      BY <1>1, <1>3, <2>2 DEF OcuparIO, EncolarIO
    <2> QED BY <2>1, <2>2
  <1>4. ASSUME NEW j \in Interfaces, Liberar(j) \/ Vaciar(j)
        PROVE  io'[i].esta = io[i].esta
    <2>1. CASE i = j
      BY <1>1, <1>4, <2>1 DEF Liberar, Vaciar, DatosInterfaz
    <2>2. CASE i # j
      BY <1>1, <1>4, <2>2 DEF Liberar, Vaciar
    <2> QED BY <2>1, <2>2
  <1>5. ASSUME NEW j \in Interfaces, Siguiente(j)
        PROVE  io'[i].esta = io[i].esta
    <2>1. CASE i = j
      BY <1>1, <1>5, <2>1 DEF Siguiente, DatosInterfaz
    <2>2. CASE i # j
      BY <1>1, <1>5, <2>2 DEF Siguiente
    <2> QED BY <2>1, <2>2
  <1>6. CASE SacarEspera
    BY <1>1, <1>6 DEF SacarEspera, DatosInterfaz
  <1>7. CASE io' = io
    BY <1>7
  <1>8. AtenderIO \/ ActuarSinMutex => \E p, j : OcuparIO(p, j) \/ EncolarIO(p, j)
    BY DEF AtenderIO, ActuarSinMutex
  <1>9. \/ \E h \in Hilos : CargarReady(h) \/ LtsEx(h) \/ Tomar(h) \/ Girar(h) \/ Reponer(h)
        \/ \E j \in Interfaces : DesocuparIO(j) \/ Free(j) \/ Chocar(j)
        \/ RecibirDispatch \/ Bloquear \/ Mirar \/ Pasar \/ SoltarRechazo
        \/ CargarReadyPorPid \/ EsperarReady \/ SacarReady \/ CpuPide \/ CpuCortada
        \/ BuscarReady \/ DescontarReady \/ TomarBlocked \/ BuscarBlocked \/ SacarBloqueo
        \/ SoltarBlocked \/ BuscarExec \/ BajarGrado
        \/ (\E p \in Victimas : FinalizarProceso(p)) \/ ProcesoEstado \/ (\E n \in Grados : Multiprogramar(n))
        => io' = io
    BY DEF CargarReady, LtsEx, Tomar, Girar, Reponer, RecibirDispatch, Bloquear, Mirar, Pasar, SoltarRechazo,
       DesocuparIO, Free, CargarReadyPorPid, EsperarReady, SacarReady, CpuPide, CpuCortada, FinalizarProceso,
       ProcesoEstado, Multiprogramar, BajarGrado, BuscarReady, DescontarReady, TomarBlocked, BuscarBlocked,
       SacarBloqueo, SoltarBlocked, BuscarExec, Chocar
  <1> QED BY <1>2, <1>3, <1>4, <1>5, <1>6, <1>7, <1>8, <1>9, LasAcciones DEF Acciones

\* When the kernel's behaviour is no longer its own, nothing is promised.
LEMMA SinPromesas ==
    ASSUME IInv, IInv', Next, ~ Vive'
    PROVE  S!Next
  <1>1. Perdidos \subseteq Perdidos' /\ Perdidos' = Interfaces
    BY PerdidosCrecen DEF Perdidos
  <1>2. \A i \in Interfaces : ~ Conectar(i) /\ ~ Desconectar(i)
    BY SoloVive DEF Conectar, Desconectar, historia, Vive
  <1>3. \A i \in Interfaces : io'[i].esta = io[i].esta
    BY <1>2, EstaIgual DEF IInv
  <1> QED BY <1>1, <1>3, PierdeONada

\* The steps that leave the interfaces alone and their threads in the same phase.
LEMMA NoSirve ==
    ASSUME IInv, IInv', Next, io' = io, \A i \in Interfaces : Fase(tareas'[i]) = Fase(tareas[i])
    PROVE  S!Next
  <1>1. Perdidos \subseteq Perdidos' /\ Perdidos' \subseteq Interfaces
    BY PerdidosCrecen
  <1> QED BY <1>1, ColaIgual, PierdeONada

LEMMA SirveComun ==
    ASSUME IInv, IInv', Next, Vive',
           NEW h \in Hilos, CargarReady(h) \/ LtsEx(h) \/ Tomar(h) \/ Girar(h) \/ Reponer(h)
    PROVE  S!Next
  <1>1. Guiones /\ colas.blocked \in Seq(Entrada)
    BY SoloVive DEF IInv, Sano, Tipos, Colas
  <1>2. SoloCambia(h) /\ (h \in Interfaces => Fase(tareas'[h]) = Fase(tareas[h]))
    <2>1. CASE Tomar(h)
      BY <1>1, <2>1, PasoTomar
    <2>2. CASE CargarReady(h) \/ LtsEx(h) \/ Girar(h) \/ Reponer(h)
      <3>1. SoloCambia(h) /\ (h \in Interfaces => SigueBorrando(h))
        BY <1>1, <2>2, PasoCargarReady, PasoLtsEx, PasoGirar, PasoReponer DEF SigueBorrando
      <3> QED BY <3>1 DEF SigueBorrando, Mantiene
    <2> QED BY <2>1, <2>2
  <1>3. \A i \in Interfaces : Fase(tareas'[i]) = Fase(tareas[i])
    BY <1>2, Distintos DEF SoloCambia
  <1>4. io' = io
    BY DEF CargarReady, LtsEx, Tomar, Girar, Reponer
  <1> QED BY <1>3, <1>4, NoSirve

\* The console, memoria's receiver, the planner and the CPU, but for SacarEspera.
LEMMA NoSirveAjena ==
    ASSUME IInv, IInv', Next, Vive', ~ SacarEspera,
           \/ CargarReadyPorPid \/ Planificador \/ CpuPide \/ CpuCortada \/ Buscar
           \/ (\E p \in Victimas : FinalizarProceso(p)) \/ ProcesoEstado
           \/ \E n \in Grados : Multiprogramar(n)
    PROVE  S!Next
  <1>1. Guiones /\ colas.blocked \in Seq(Entrada) /\ deMemoria \in Seq(Procesos)
    BY SoloVive DEF IInv, Sano, Tipos, Colas
  <1>2. io' = io
    BY DEF CargarReadyPorPid, Planificador, EsperarReady, SacarReady, CpuPide, CpuCortada, Buscar,
       BuscarReady, DescontarReady, TomarBlocked, BuscarBlocked, SacarBloqueo, SoltarBlocked, BuscarExec,
       BajarGrado, FinalizarProceso, ProcesoEstado, Multiprogramar
  <1>3. ASSUME SoloCambia("consola") \/ SoloCambia("memoria") \/ SoloCambia("planificador") \/ tareas' = tareas
        PROVE  S!Next
    <2>1. \A i \in Interfaces : tareas'[i] = tareas[i]
      BY <1>3, Distintos DEF SoloCambia
    <2> QED BY <1>2, <2>1, NoSirve
  <1>4. CASE CargarReadyPorPid \/ Planificador
    <2>1. SoloCambia("memoria") \/ SoloCambia("planificador")
      BY <1>1, <1>4, PasoPorPid, PasoEsperar, PasoSacar DEF Planificador
    <2> QED BY <1>3, <2>1
  <1>5. CASE CpuPide \/ CpuCortada
    BY <1>3, <1>5 DEF CpuPide, CpuCortada
  <1>6. CASE (\E p \in Victimas : FinalizarProceso(p)) \/ ProcesoEstado \/ \E n \in Grados : Multiprogramar(n)
    BY <1>3, <1>6, <1>1, PasoFinalizar, PasoListar, PasoMulti DEF CambiaConsola
  <1>7. CASE BuscarReady \/ TomarBlocked \/ BuscarBlocked \/ SacarBloqueo
    BY <1>1, <1>3, <1>7, PasoBuscarReady, PasoTomarBlocked, PasoBuscarBlocked, PasoSacarBloqueo DEF CambiaConsola
  <1>8. CASE DescontarReady \/ SoltarBlocked \/ BuscarExec \/ BajarGrado
    <2>1. /\ tareas["consola"] # <<>> /\ Sigue("consola", <<>>)
          /\ Primera(tareas["consola"]) \in {"bajarGrado", "descontarReady", "soltarBlocked", "buscarExec"}
      BY <1>8 DEF DescontarReady, SoltarBlocked, BuscarExec, BajarGrado, En, Primera
    <2> QED BY <1>1, <1>3, <2>1, PasoResto DEF CambiaConsola
  <1> QED BY <1>4, <1>5, <1>6, <1>7, <1>8 DEF Buscar

\* The steps that change the queue of one interface.
LEMMA SoloUnaCola ==
    ASSUME NEW i \in Interfaces, NEW v, ColaDe(i)' = v, Perdidos' = Perdidos,
           \A j \in Interfaces \ {i} : io'[j] = io[j] /\ Fase(tareas'[j]) = Fase(tareas[j])
    PROVE  [s \in Interfaces |-> ColaDe(s)]' = [[s \in Interfaces |-> ColaDe(s)] EXCEPT ![i] = v]
  <1>1. ASSUME NEW j \in Interfaces \ {i}
        PROVE  ColaDe(j)' = ColaDe(j)
    <2>1. CASE j \in Perdidos
      BY <2>1 DEF ColaDe
    <2>2. CASE j \notin Perdidos
      BY <2>2, ColaIgual
    <2> QED BY <2>1, <2>2
  <1> QED BY <1>1

LEMMA SirveHilo ==
    ASSUME IInv, IInv', Next, Vive', NEW h \in Interfaces,
           DesocuparIO(h) \/ Liberar(h) \/ Siguiente(h) \/ Vaciar(h) \/ Free(h) \/ Conectar(h) \/ Desconectar(h)
    PROVE  S!Next
  <1>0. /\ Guiones /\ Vive /\ Perdidos = carreras /\ Perdidos' = carreras'
        /\ Perdidos \subseteq Perdidos' /\ Perdidos' \subseteq Interfaces
        /\ Estado(h, io[h], enviadas[h], Fase(tareas[h]), tareas["dispatch"], carreras)
        /\ io \in [Interfaces -> DatosInterfaz] /\ io[h] \in DatosInterfaz /\ io[h].espera \in Seq(Procesos)
        /\ io[h].usando \in Procesos \cup {Nulo, Basura} /\ colas.blocked \in Seq(Entrada)
    BY SoloVive, PerdidosCrecen DEF IInv, Sano, Estados, Tipos, DatosInterfaz, Colas, Perdidos
  <1>1. \A i \in Interfaces \ {h} : io'[i] = io[i] /\ tareas'[i] = tareas[i]
    <2>1. SoloCambia(h)
      BY <1>0, PasoDesocupar, PasoLiberar, PasoSiguiente, PasoVaciar, PasoFree, PasoDesconectar DEF Conectar, SoloCambia
    <2>2. ASSUME NEW j \in Interfaces \ {h}
          PROVE  io'[j] = io[j]
      BY <1>0, <2>2 DEF DesocuparIO, Liberar, Siguiente, Vaciar, Free, Conectar, Desconectar
    <2> QED BY <2>1, <2>2, Distintos DEF SoloCambia
  <1>2. ASSUME io'[h].esta = io[h].esta, h \notin Perdidos' => ColaDe(h)' = ColaDe(h)
        PROVE  S!Next
    <2>1. \A i \in Interfaces : io'[i].esta = io[i].esta /\ (i \notin Perdidos' => ColaDe(i)' = ColaDe(i))
      BY <1>0, <1>1, <1>2, ColaIgual
    <2> QED BY <1>0, <2>1, PierdeONada
  <1>3. Terminada(h) <=> Fase(tareas[h]) = "liberar"
    BY UltimaFase
  <1>4. Terminada(h)' <=> Fase(tareas'[h]) = "liberar"
    BY DEF Terminada, Fase, Ultima, Last
  <1>5. <<>> \o io[h].espera = io[h].espera
    BY <1>0, ConcatEmptySeq
  <1>6. CASE DesocuparIO(h)
    <2>1. /\ tareas[h] = <<>> /\ io[h].usando \in Procesos /\ Fase(tareas'[h]) = "liberar"
      BY <1>0, <1>6, PasoDesocupar
    <2>2. io' = io /\ enviadas[h] # <<>> /\ (h \notin carreras' => carreras' = carreras)
      BY <1>6 DEF DesocuparIO, Cruzar
    <2>3. Fase(tareas[h]) = "nada" /\ io[h].esta /\ ~ io[h].libre
      BY <1>0, <2>1, <2>2, NadaObs DEF Estado
    <2>4. CASE h \in Perdidos'
      BY <1>2, <2>2, <2>4
    <2>5. CASE h \notin Perdidos'
      <3>1. Perdidos' = Perdidos /\ h \notin Perdidos
        BY <1>0, <2>2, <2>5
      <3>2. ColaDe(h) = <<io[h].usando>> \o io[h].espera
        BY <3>1, <2>3, <1>3 DEF ColaDe
      <3>3. ColaDe(h)' = io[h].espera
        BY <3>1, <2>1, <2>2, <2>3, <1>4, <1>5 DEF ColaDe
      <3>4. ColaDe(h) # <<>> /\ ColaDe(h)' = Tail(ColaDe(h))
        BY <1>0, <2>1, <3>2, <3>3, ColaPrimero
      <3>5. [s \in Interfaces |-> ColaDe(s)]' = [[s \in Interfaces |-> ColaDe(s)] EXCEPT ![h] = Tail(ColaDe(h))]
        BY <1>1, <3>1, <3>4, SoloUnaCola
      <3>6. {s \in Interfaces : io[s].esta}' = {s \in Interfaces : io[s].esta}
        BY <2>2
      <3>7. S!Terminar(h)
        BY <3>1, <3>4, <3>5, <3>6 DEF S!Terminar
      <3> QED BY <3>7 DEF S!Next
    <2> QED BY <2>4, <2>5
  <1>7. CASE Liberar(h)
    <2>1. Fase(tareas[h]) = "liberar" /\ Fase(tareas'[h]) = "siguiente"
      BY <1>0, <1>7, PasoLiberar
    <2>2. io'[h].esta = io[h].esta /\ io'[h].libre = TRUE /\ io'[h].espera = io[h].espera
      BY <1>0, <1>7 DEF Liberar, DatosInterfaz
    <2>3. h \notin Perdidos' => ColaDe(h)' = ColaDe(h)
      BY <1>0, <1>3, <2>1, <2>2 DEF ColaDe
    <2> QED BY <1>2, <2>2, <2>3
  <1>8. CASE Siguiente(h)
    <2>1. Fase(tareas[h]) = "siguiente" /\ Fase(tareas'[h]) = "nada"
      BY <1>0, <1>8, PasoSiguiente
    <2>2. io[h].esta /\ (h \notin Perdidos => io[h].libre)
      BY <1>0, <2>1 DEF Estado
    <2>3. CASE io[h].espera = <<>>
      <3>1. io' = io
        BY <1>8, <2>3 DEF Siguiente
      <3>2. h \notin Perdidos' => ColaDe(h)' = ColaDe(h)
        BY <1>0, <2>1, <3>1, ColaIgual
      <3> QED BY <1>2, <3>1, <3>2
    <2>4. CASE io[h].espera # <<>>
      <3>1. /\ io'[h].esta = io[h].esta /\ io'[h].libre = FALSE /\ io'[h].usando = Head(io[h].espera)
            /\ io'[h].espera = Tail(io[h].espera)
        BY <1>0, <1>8, <2>4 DEF Siguiente, DatosInterfaz
      <3>2. Head(io[h].espera) \in Procesos
        BY <1>0, <2>4, SinPrimero
      <3>3. <<Head(io[h].espera)>> \o Tail(io[h].espera) = io[h].espera
        BY <1>0, <2>4, <3>2, ColaPrimero
      <3>4. ASSUME h \notin Perdidos'
            PROVE  ColaDe(h)' = ColaDe(h)
        <4>1. h \notin Perdidos
          BY <1>0, <3>4
        <4>2. ColaDe(h) = io[h].espera
          BY <1>5, <2>2, <4>1 DEF ColaDe
        <4>3. ColaDe(h)' = <<Head(io[h].espera)>> \o Tail(io[h].espera)
          BY <1>4, <2>1, <2>2, <3>1, <3>4 DEF ColaDe
        <4> QED BY <3>3, <4>2, <4>3
      <3> QED BY <1>2, <3>1, <3>4
    <2> QED BY <2>3, <2>4
  <1>9. CASE Vaciar(h) \/ Free(h)
    <2>1. Fase(tareas[h]) = "vaciar"
      BY <1>0, <1>9, PasoVaciar, PasoFree
    <2>2. ~ io[h].esta
      BY <1>0, <2>1 DEF Estado
    <2>3. io'[h].esta = io[h].esta
      BY <1>0, <1>9 DEF Vaciar, Free, DatosInterfaz
    <2>4. ColaDe(h)' = ColaDe(h)
      BY <2>2, <2>3 DEF ColaDe
    <2> QED BY <1>2, <2>3, <2>4
  <1>10. CASE Conectar(h)
    <2>1. /\ ~ io[h].esta /\ io' = [io EXCEPT ![h] = Nueva] /\ carreras' = carreras
      BY <1>10 DEF Conectar, historia
    <2>2. io'[h].esta /\ io'[h].libre /\ io'[h].espera = <<>>
      BY <1>0, <2>1 DEF Nueva
    <2>3. ColaDe(h) = <<>> /\ ColaDe(h)' = <<>>
      <3>1. <<>> \o <<>> = <<>>
        OBVIOUS
      <3> QED BY <2>1, <2>2, <3>1 DEF ColaDe
    <2>4. Perdidos' = Perdidos
      BY <1>0, <2>1
    <2>5. [s \in Interfaces |-> ColaDe(s)]' = [[s \in Interfaces |-> ColaDe(s)] EXCEPT ![h] = <<>>]
      BY <1>1, <2>3, <2>4, SoloUnaCola
    <2>6. {s \in Interfaces : io[s].esta}' = {s \in Interfaces : io[s].esta} \cup {h}
      BY <1>1, <2>2
    <2>7. S!Abrir(h)
      BY <2>3, <2>4, <2>5, <2>6 DEF S!Abrir
    <2> QED BY <2>7 DEF S!Next
  <1>11. CASE Desconectar(h)
    <2>1. io[h].esta /\ ~ io'[h].esta /\ carreras' = carreras
      BY <1>0, <1>11 DEF Desconectar, DatosInterfaz, historia
    <2>3. ColaDe(h)' = <<>>
      BY <2>1 DEF ColaDe
    <2>4. Perdidos' = Perdidos
      BY <1>0, <2>1
    <2>5. [s \in Interfaces |-> ColaDe(s)]' = [[s \in Interfaces |-> ColaDe(s)] EXCEPT ![h] = <<>>]
      BY <1>1, <2>3, <2>4, SoloUnaCola
    <2>6. {s \in Interfaces : io[s].esta}' = {s \in Interfaces : io[s].esta} \ {h}
      BY <1>1, <2>1
    <2>7. S!Cerrar(h)
      BY <2>1, <2>4, <2>5, <2>6 DEF S!Cerrar
    <2> QED BY <2>7 DEF S!Next
  <1> QED BY <1>6, <1>7, <1>8, <1>9, <1>10, <1>11

\* Who is in a queue waits for the interface or uses it.
LEMMA EnLaCola ==
    ASSUME Tipos, Estados, NEW i \in Interfaces, NEW n \in DOMAIN ColaDe(i), NEW p \in Procesos, ColaDe(i)[n] = p
    PROVE  EnLugar(p, "espera", i) \/ EnLugar(p, "uso", i)
  <1> DEFINE e == io[i].espera
             u == io[i].usando
  <1>1. e \in Seq(Procesos) /\ (io[i].libre <=> u \notin Procesos)
    BY ListasTipos DEF Estados, Estado
  <1>2. i \notin Perdidos /\ io[i].esta
    <2>1. ColaDe(i) # <<>>
      OBVIOUS
    <2> QED BY <2>1 DEF ColaDe
  <1>3. Terminada(i) <=> Fase(tareas[i]) = "liberar"
    BY UltimaFase
  <1>4. CASE io[i].libre \/ Terminada(i)
    <2>1. ColaDe(i) = <<>> \o e
      BY <1>4, <1>2 DEF ColaDe
    <2>2. ColaDe(i) = e
      BY <2>1, <1>1, ConcatEmptySeq
    <2> QED BY <2>2 DEF EnLugar, ToSet
  <1>5. CASE ~ io[i].libre /\ ~ Terminada(i)
    <2>1. ColaDe(i) = <<u>> \o e
      BY <1>5, <1>2 DEF ColaDe
    <2>2. u \in Procesos
      BY <1>1, <1>5
    <2> HIDE DEF u, e
    <2>3. /\ DOMAIN ColaDe(i) = 1 .. 1 + Len(e) /\ Len(e) \in Nat /\ DOMAIN e = 1 .. Len(e)
          /\ \A m \in 1 .. 1 + Len(e) : ColaDe(i)[m] = IF m <= 1 THEN u ELSE e[m - 1]
      <3>1. <<u>> \in Seq(Procesos) /\ Len(<<u>>) = 1 /\ <<u>>[1] = u
        BY <2>2
      <3> QED BY <3>1, <2>1, <1>1, ConcatProperties
    <2>4. CASE n = 1
      <3>1. p = u
        BY <2>3, <2>4
      <3> QED BY <1>2, <1>3, <1>5, <3>1 DEF EnLugar, EnUso, u
    <2>5. CASE n # 1
      <3>1. n - 1 \in DOMAIN e /\ ~ (n <= 1)
        BY <2>3, <2>5
      <3>2. p = e[n - 1]
        BY <2>3, <3>1
      <3> QED BY <3>1, <3>2 DEF EnLugar, ToSet, e
    <2> QED BY <2>4, <2>5
  <1> QED BY <1>4, <1>5

\* The receiver's steps: the process goes to the end of the queue.
LEMMA SirveReceptor ==
    ASSUME IInv, IInv', Next, Vive', Receptor
    PROVE  S!Next
  <1> DEFINE d == tareas["dispatch"]
             j == ArgI("dispatch")
  <1>0. /\ Guiones /\ Tipos /\ Estados /\ Llaves /\ Unico /\ Vive /\ Perdidos = carreras /\ Perdidos' = carreras'
        /\ Perdidos \subseteq Perdidos' /\ Perdidos' \subseteq Interfaces
        /\ io \in [Interfaces -> DatosInterfaz] /\ cpu.aKernel \in Seq(Pedido) /\ Nulo \notin Procesos
    BY SoloVive, PerdidosCrecen, Distintos DEF IInv, Sano, Tipos, Cpu, Perdidos
  <1>1. ASSUME SoloCambia("dispatch")
        PROVE  \A i \in Interfaces : tareas'[i] = tareas[i]
    BY <1>1, Distintos DEF SoloCambia
  <1>2. CASE RecibirDispatch \/ Bloquear \/ Mirar
    <2>1. SoloCambia("dispatch")
      BY <1>0, <1>2, PasoRecibir, PasoBloquear, PasoMirar
    <2>2. io' = io
      BY <1>2 DEF RecibirDispatch, Bloquear, Mirar
    <2> QED BY <1>1, <2>1, <2>2, NoSirve
  <1>3. CASE AtenderIO \/ ActuarSinMutex \/ Pasar \/ SoltarRechazo
    <2>1. /\ d # <<>> /\ Sigue("dispatch", <<>>) /\ carreras' = carreras
          /\ Primera(d) \in {"atender", "soltar", "pasar", "ocupar", "encolar"}
      BY <1>3 DEF AtenderIO, ActuarSinMutex, Pasar, SoltarRechazo, En, Primera, Quiebra, Vive, historia
    <2>2. TerminaDispatch
      BY <1>0, <2>1, PasoTermina
    <2>3. /\ SoloCambia("dispatch") /\ j \in Interfaces /\ Arg("dispatch") \in Procesos
          /\ Head(d).p = Arg("dispatch") /\ Head(d).i = j
      BY <2>2 DEF TerminaDispatch
    <2>4. \A i \in Interfaces : tareas'[i] = tareas[i]
      BY <1>1, <2>3
    <2>5. CASE Pasar \/ SoltarRechazo
      <3>1. io' = io
        BY <2>5 DEF Pasar, SoltarRechazo
      <3> QED BY <2>4, <3>1, NoSirve
    <2>6. CASE AtenderIO \/ ActuarSinMutex
      <3> PICK p \in Procesos : p = Arg("dispatch")
        BY <2>3
      <3> PICK i \in Interfaces : i = j
        BY <2>3
      <3>1. OcuparIO(p, i) \/ EncolarIO(p, i)
        BY <2>6 DEF AtenderIO, ActuarSinMutex
      <3>2. /\ Primera(d) \in {"atender", "ocupar", "encolar"}
            /\ Primera(d) = "atender" => AtenderIO
            /\ Primera(d) = "ocupar" => OcuparIO(p, i)
            /\ Primera(d) = "encolar" => EncolarIO(p, i)
        BY <2>6 DEF AtenderIO, ActuarSinMutex, En, Primera
      <3>3. Estado(i, io[i], enviadas[i], Fase(tareas[i]), d, carreras) /\ Llave(i, dueno[i], tareas[i], d)
        BY <1>0 DEF Estados, Llaves
      <3>4. /\ io[i] \in DatosInterfaz /\ io[i].espera \in Seq(Procesos)
            /\ \A k \in Interfaces \ {i} : io'[k] = io[k]
        BY <1>0, <3>1 DEF OcuparIO, EncolarIO, DatosInterfaz
      <3>5. io'[i].esta = io[i].esta
        BY <1>0, <3>1, <3>4 DEF OcuparIO, EncolarIO, DatosInterfaz
      <3>6. CASE i \in Perdidos \/ ~ io[i].esta
        <4>1. ColaDe(i)' = ColaDe(i)
          BY <1>0, <2>1, <3>5, <3>6 DEF ColaDe
        <4>2. \A k \in Interfaces : io'[k].esta = io[k].esta /\ (k \notin Perdidos' => ColaDe(k)' = ColaDe(k))
          BY <1>0, <2>4, <3>4, <3>5, <4>1, ColaIgual
        <4> QED BY <1>0, <4>2, PierdeONada
      <3>7. CASE i \notin Perdidos /\ io[i].esta
        <4>1. Fase(tareas[i]) = "nada"
          <5>1. CASE AtenderIO
            <6>1. dueno[i] # i
              BY <5>1, Distintos DEF AtenderIO, Nadie
            <6> QED BY <1>0, <3>3, <3>7, <6>1, SinMutex DEF Llave, Estado
          <5>2. CASE Actua(d, "ocupar", i) \/ Actua(d, "encolar", i)
            BY <1>0, <3>3, <3>7, <5>2 DEF Estado
          <5> QED BY <2>1, <2>3, <3>2, <5>1, <5>2 DEF Actua
        <4>2. IF io[i].libre THEN OcuparIO(p, i) /\ io[i].espera = <<>> ELSE EncolarIO(p, i) /\ io[i].usando \in Procesos
          <5>1. /\ io[i].libre => io[i].espera = <<>>
                /\ ~ io[i].libre => io[i].usando \in Procesos
                /\ Actua(d, "ocupar", i) => io[i].libre
                /\ Actua(d, "encolar", i) => ~ io[i].libre
            BY <1>0, <3>3, <3>7, <4>1 DEF Estado
          <5>2. CASE Primera(d) = "atender"
            BY <3>2, <5>1, <5>2 DEF AtenderIO
          <5>3. CASE Primera(d) # "atender"
            BY <2>1, <2>3, <3>2, <5>1, <5>3 DEF Actua
          <5> QED BY <5>2, <5>3
        <4>3. ~ Terminada(i) /\ ~ Terminada(i)'
          BY <2>4, <4>1 DEF Terminada, Fase, Ultima, Last
        <4>4. i \notin Perdidos' /\ Perdidos' = Perdidos
          BY <1>0, <2>1, <3>7
        <4>5. ColaDe(i)' = Append(ColaDe(i), p)
          <5>1. CASE io[i].libre
            <6>1. io'[i].libre = FALSE /\ io'[i].usando = p /\ io'[i].espera = <<>>
              BY <1>0, <3>4, <4>2, <5>1 DEF OcuparIO, DatosInterfaz
            <6>2. ColaDe(i) = <<>> \o <<>> /\ ColaDe(i)' = <<p>> \o <<>>
              BY <3>5, <3>7, <4>2, <4>3, <4>4, <5>1, <6>1 DEF ColaDe
            <6>3. <<>> \o <<>> = <<>>
              OBVIOUS
            <6>4. <<p>> \o <<>> = <<p>> /\ Append(<<>>, p) = <<p>>
              BY Juntar
            <6> QED BY <6>2, <6>3, <6>4
          <5>2. CASE ~ io[i].libre
            <6>1. /\ io'[i].libre = FALSE /\ io'[i].usando = io[i].usando /\ io'[i].espera = Append(io[i].espera, p)
              BY <1>0, <3>4, <4>2, <5>2 DEF EncolarIO, DatosInterfaz
            <6>2. /\ ColaDe(i) = <<io[i].usando>> \o io[i].espera
                  /\ ColaDe(i)' = <<io[i].usando>> \o Append(io[i].espera, p)
              BY <3>5, <3>7, <4>3, <4>4, <5>2, <6>1 DEF ColaDe
            <6>3. io[i].usando \in Procesos
              BY <4>2, <5>2
            <6>4. <<io[i].usando>> \o Append(io[i].espera, p) = Append(<<io[i].usando>> \o io[i].espera, p)
              BY <3>4, <6>3, ColaAlFinal
            <6> QED BY <6>2, <6>4
          <5> QED BY <5>1, <5>2
        <4>6. [s \in Interfaces |-> ColaDe(s)]' = [[s \in Interfaces |-> ColaDe(s)] EXCEPT ![i] = Append(ColaDe(i), p)]
          BY <2>4, <3>4, <4>4, <4>5, SoloUnaCola
        <4>7. EnLugar(p, "hilo", "dispatch")
          BY <1>0, <2>1, <2>3, <3>2, Distintos DEF EnLugar, EnHilo, Porta, Portan
        <4>8. \A t \in Interfaces : ~ \E n \in DOMAIN ColaDe(t) : ColaDe(t)[n] = p
          <5> SUFFICES ASSUME NEW t \in Interfaces, NEW n \in DOMAIN ColaDe(t), ColaDe(t)[n] = p
                       PROVE  FALSE
            OBVIOUS
          <5>1. EnLugar(p, "espera", t) \/ EnLugar(p, "uso", t)
            BY <1>0, EnLaCola
          <5> QED BY <1>0, <4>7, <5>1 DEF Unico
        <4>9. {s \in Interfaces : io[s].esta}' = {s \in Interfaces : io[s].esta}
          BY <3>4, <3>5
        <4>10. S!Llegar(p, i)
          BY <3>7, <4>4, <4>6, <4>8, <4>9 DEF S!Llegar, S!Promete, S!Presente
        <4> QED BY <4>10 DEF S!Next
      <3> QED BY <3>6, <3>7
    <2> QED BY <1>3, <2>5, <2>6
  <1> QED BY <1>2, <1>3 DEF Receptor

\* remove_cola_blocked_io: a process that waits is ended.
LEMMA SirveSacar ==
    ASSUME IInv, IInv', Next, Vive', SacarEspera
    PROVE  S!Next
  <1>0. /\ Guiones /\ Tipos /\ Estados /\ Llaves /\ Vive /\ Perdidos = carreras /\ Perdidos' = carreras'
        /\ Perdidos \subseteq Perdidos' /\ Perdidos' \subseteq Interfaces
        /\ io \in [Interfaces -> DatosInterfaz]
    BY SoloVive, PerdidosCrecen DEF IInv, Sano, Tipos, Perdidos
  <1>1. /\ tareas["consola"] # <<>> /\ Sigue("consola", <<>>) /\ Primera(tareas["consola"]) \in Sacar
    BY DEF SacarEspera, En, Primera, Sacar
  <1>2. SoloCambia("consola") /\ Arg("consola") \in Procesos /\ ArgI("consola") \in Interfaces
    BY <1>0, <1>1, PasoSacarTail DEF CambiaConsola
  <1>3. \A i \in Interfaces : tareas'[i] = tareas[i]
    BY <1>2, Distintos DEF SoloCambia
  <1> PICK p \in Procesos : p = Arg("consola")
    BY <1>2
  <1> PICK i \in Interfaces : i = ArgI("consola")
    BY <1>2
  <1> DEFINE e == io[i].espera
             u == io[i].usando
  <1>4. /\ p \in ToSet(e) /\ io' = [io EXCEPT ![i].espera = Sin(@, p)] /\ dueno[i] = Nadie
        /\ i \notin carreras' => carreras' = carreras
    BY DEF SacarEspera, Vive, Cerrado, Cruzar
  <1>5. /\ io'[i].espera = Sin(e, p) /\ io'[i].esta = io[i].esta /\ io'[i].libre = io[i].libre
        /\ io'[i].usando = u /\ (\A j \in Interfaces \ {i} : io'[j] = io[j]) /\ e \in Seq(Procesos)
    BY <1>0, <1>4 DEF DatosInterfaz
  <1>6. CASE i \in Perdidos' \/ ~ io[i].esta
    <2>1. i \notin Perdidos' => ColaDe(i)' = ColaDe(i)
      BY <1>5, <1>6 DEF ColaDe
    <2>2. \A k \in Interfaces : io'[k].esta = io[k].esta /\ (k \notin Perdidos' => ColaDe(k)' = ColaDe(k))
      BY <1>0, <1>3, <1>5, <2>1, ColaIgual
    <2> QED BY <1>0, <2>2, PierdeONada
  <1>7. CASE i \notin Perdidos' /\ io[i].esta
    <2>1. Perdidos' = Perdidos /\ i \notin Perdidos
      BY <1>0, <1>4, <1>7
    <2>2. Estado(i, io[i], enviadas[i], Fase(tareas[i]), tareas["dispatch"], carreras)
      BY <1>0 DEF Estados
    <2>3. Fase(tareas[i]) = "nada"
      <3>1. ~ Posee(tareas[i])
        BY <1>0, <1>4, Distintos DEF Llaves, Llave, Nadie
      <3> QED BY <1>0, <1>7, <2>2, <3>1, SinMutex DEF Estado
    <2>4. ToSet(<<>>) = {}
      BY DEF ToSet
    <2>5. ~ io[i].libre /\ u \in Procesos
      BY <1>0, <1>4, <1>7, <2>1, <2>2, <2>3, <2>4 DEF Estado
    <2>6. ~ Terminada(i) /\ ~ Terminada(i)'
      BY <1>3, <2>3 DEF Terminada, Fase, Ultima, Last
    <2> DEFINE c == <<u>> \o e
               n == Posicion(e, p) + 1
               v == Restan(c, n)
    <2>7. ColaDe(i) = c /\ ColaDe(i)' = <<u>> \o Sin(e, p)
      BY <1>5, <1>7, <2>1, <2>5, <2>6 DEF ColaDe
    <2>a. u \in Procesos /\ e \in Seq(Procesos) /\ p \in ToSet(e)
      BY <1>4, <1>5, <2>5
    <2> HIDE DEF u, e
    <2>8. n \in 2 .. Len(c) /\ <<u>> \o Sin(e, p) = v
      BY <2>a, ColaSin
    <2>d. ColaDe(i)' = v
      BY <2>7, <2>8
    <2>e. \A j \in Interfaces \ {i} : io'[j] = io[j] /\ Fase(tareas'[j]) = Fase(tareas[j])
      BY <1>3, <1>5
    <2> HIDE DEF v
    <2>9. [s \in Interfaces |-> ColaDe(s)]' = [[s \in Interfaces |-> ColaDe(s)] EXCEPT ![i] = v]
      BY <2>d, <2>e, <2>1, SoloUnaCola
    <2>10. {s \in Interfaces : io[s].esta}' = {s \in Interfaces : io[s].esta}
      BY <1>5
    <2> HIDE DEF n, c
    <2>b. [s \in Interfaces |-> ColaDe(s)][i] = c
      BY <2>7
    <2>c. \E k \in 2 .. Len([s \in Interfaces |-> ColaDe(s)][i]) :
             [s \in Interfaces |-> ColaDe(s)]'
                = [[s \in Interfaces |-> ColaDe(s)] EXCEPT ![i] = Restan([s \in Interfaces |-> ColaDe(s)][i], k)]
      BY <2>8, <2>9, <2>b DEF v
    <2>11. S!Retirar(i)
      BY <2>1, <2>10, <2>c, Zenon DEF S!Retirar, Restan
    <2> QED BY <2>11 DEF S!Next
  <1> QED BY <1>6, <1>7

\* The interfaces serve processes in the order of their system calls: every step of
\* Interfaces is one of Servidor, or none.
THEOREM ImplementaServidor == Spec => AtiendeEnOrden
  <1>1. ASSUME Init
        PROVE  S!Init
    <2>1. /\ Vive /\ carreras = {} /\ Perdidos = {}
          /\ \A i \in Interfaces : io[i].esta /\ io[i].libre /\ io[i].espera = <<>>
      BY <1>1 DEF Init, Vive, Perdidos, Nueva
    <2>2. <<>> \o <<>> = <<>>
      OBVIOUS
    <2>3. \A i \in Interfaces : ColaDe(i) = <<>>
      BY <2>1, <2>2 DEF ColaDe
    <2> QED BY <2>1, <2>3 DEF S!Init
  <1>2. ASSUME IInv, IInv', Next
        PROVE  S!Next
    BY <1>2, SinPromesas, SirveComun, SirveHilo, SirveReceptor, SirveSacar, NoSirveAjena, ChocarRompe
       DEF Next, Avanza, Entorno, Comun, HiloInterfaz
  <1>3. ASSUME UNCHANGED vars
        PROVE  UNCHANGED S!vars
    <2>1. io' = io /\ tareas' = tareas /\ carreras' = carreras /\ (Vive' <=> Vive)
      BY <1>3 DEF vars, historia, Vive
    <2>2. Perdidos' = Perdidos /\ \A i \in Interfaces : ColaDe(i)' = ColaDe(i)
      BY <2>1 DEF Perdidos, ColaDe, Terminada
    <2> QED BY <2>1, <2>2 DEF S!vars
  <1>4. IInv /\ IInv' /\ [Next]_vars => [S!Next]_S!vars
    BY <1>2, <1>3
  <1> QED BY <1>1, <1>4, Invariante, PTL DEF Spec, AtiendeEnOrden, S!Spec
=============================================================================
