--------------------------- MODULE DespachoProofs ---------------------------
(***************************************************************************)
(* Proofs about the dispatch protocol, for any number of processes, any    *)
(* programs, resources, degree and quantum, and under FIFO, RR and VRR:    *)
(* types, the count of sem_cont_ready, and that the planner never pops an  *)
(* empty queue.                                                            *)
(*                                                                         *)
(* The count is not inductive: a thread may only have posted what it has   *)
(* pushed because of the operations it had left when it pushed.  Hebras    *)
(* says so: what a thread has left is made of whole C functions (Rutina),  *)
(* in which a push goes right before its post and the planner's wait right *)
(* before its pop.  A step then does one of six things to the ready queues *)
(* and their semaphore (Efecto), and each of them keeps the count.         *)
(***************************************************************************)
EXTENDS Despacho, FiniteSetTheorems, SequenceTheorems, TLAPS

\* The types of the state; pc counts from 1 and there is no PCB without a process.
Pcbs == [pid : Procesos, pc : Nat \ {0}, q : Nat]
Motivos == {"error_memoria", "syscall", "interrumpi"}
Faltan == [Nombres -> Nat]
Listas == UNION {[S -> Int] : S \in SUBSET Nombres}

\* Operations and packets, and those of each kind.
Paquetes == {"EXEC_PROCESO", "CONFIRMAR_SYSCALL", "CONFIRMAR_EXEC", "INTERRUMPIO_PROCESO",
             "ERROR_OUT_OF_MEMORY", "WAIT", "SIGNAL", "TERMINO_EJECUCION", "IO",
             "INSTRUCCIONES_CARGADAS", "ARCHIVO_NO_ENCONTRADO"}
Refs == STRING \cup Nombres \cup Motivos \cup Faltan \cup {Nulo}
Campos == [op : Operaciones \cup Paquetes, pcb : Pcbs \cup {Nulo}, r : Refs]
Oper == {o \in Campos : o.op \in Operaciones}
Paquete == {o \in Campos : o.op \in Paquetes}
ConSuPcb == {"pushReady", "pushPriori", "enviarExec", "recorrer", "pushExec", "crearQuantum",
             "elegirMotivo", "wait", "signal", "encolar", "ocuparIO", "listarNew",
             "sacarNewReady", "sacarNewExit"}
Tarea == {o \in Oper :
    /\ o.op \in ConSuPcb => o.pcb \in Pcbs
    /\ o.op = "marcar" => o.r \in Motivos
    /\ o.op = "recorrer" => o.r \in Faltan
    /\ o.op = "encolar" => o.r \in Nombres}
AlCpu == {o \in Paquete :
    /\ o.op \in {"EXEC_PROCESO", "CONFIRMAR_SYSCALL"}
    /\ o.op = "EXEC_PROCESO" => o.pcb \in Pcbs}
AlKernel == {o \in Paquete :
    /\ o.op \in {"CONFIRMAR_EXEC", "INTERRUMPIO_PROCESO", "ERROR_OUT_OF_MEMORY", "WAIT", "SIGNAL",
                 "TERMINO_EJECUCION", "IO"}
    /\ o.op # "CONFIRMAR_EXEC" => o.pcb \in Pcbs}
DeMemoria == {o \in Paquete : o.pcb \in Pcbs}

TipoConfig == algoritmo \in {"FIFO", "RR", "VRR"} /\ programa \in [Procesos -> Seq(Instrucciones)]
Colas == [new : SUBSET Pcbs, ready : Seq(Pcbs), priori : Seq(Pcbs),
          exec : Seq(Procesos), exit : Seq(Procesos), io : SUBSET Pcbs]
TipoColas == colas \in Colas
TipoSem == sem \in [ready : Nat, gm : Nat, exec : Nat, cpu : {0, 1}]
TipoConsola == marcas \subseteq Motivos /\ PID \in Nat
TipoRecursos ==
    /\ instancias \in [Nombres -> Int]
    /\ colaRec \in [Nombres -> Seq(Pcbs)]
    /\ rec \in [Procesos -> Listas]
TipoTareas == tareas \in [Hilos -> Seq(Tarea)]
Red == [aCpu : Seq(AlCpu), aKernel : Seq(AlKernel), interr : Nat,
        aMemoria : Seq(Pcbs), deMemoria : Seq(DeMemoria)]
TipoRed == red \in Red
TipoCpu ==
    /\ cpu \in [st : {"espera", "ejecuta", "confirma", "chequea"}, pcb : Pcbs \cup {Nulo},
                sys : BOOLEAN, interrupcion : BOOLEAN]
    /\ cpu.st # "espera" => cpu.pcb \in Pcbs
Tipos ==
    /\ TipoConfig /\ TipoColas /\ TipoSem /\ TipoConsola /\ TipoRecursos /\ TipoRed /\ TipoCpu

-----------------------------------------------------------------------------
(* The order of the operations of a thread.                                *)

\* b goes right after a.
Pega(a, b, alg) ==
    \/ a.op \in {"pushReady", "pushPriori"} /\ b.op \in {"popExec", "postReady"}
    \/ a.op = "popExec" /\ b.op = "postReady"
    \/ a.op = "esperarReady" /\ b.op = "tomarCPU"
    \/ a.op = "tomarCPU" /\ b.op = IF alg = "VRR" THEN "mirarPriori" ELSE "sacarReady"
    \/ a.op = "devolverRecursos" /\ a.pcb = Nulo /\ b.op = "pushExit" /\ b.pcb = Nulo

\* Something goes right after a; b goes right after something.
Abierta(a) ==
    \/ a.op \in {"pushReady", "pushPriori", "popExec", "esperarReady", "tomarCPU"}
    \/ a.op = "devolverRecursos" /\ a.pcb = Nulo
Suelta(b) ==
    \/ b.op \in {"popExec", "postReady", "tomarCPU", "mirarPriori", "sacarReady", "sacarPriori"}
    \/ b.op = "pushExit" /\ b.pcb = Nulo

Bien(s, alg) == \A i \in DOMAIN s :
    /\ Abierta(s[i]) => i + 1 \in DOMAIN s /\ Pega(s[i], s[i + 1], alg)
    /\ i > 1 /\ Suelta(s[i]) => Pega(s[i - 1], s[i], alg)
    /\ s[i].op = "pushPriori" => alg = "VRR"

\* lts_ex goes no further with NULL; the quantum thread only sleeps and interrupts.
Cabeza(s) == s # <<>> => ~ (s[1].op = "pushExit" /\ s[1].pcb = Nulo)
Dormida(s) == \A i \in DOMAIN s : s[i].op \in {"dormir", "marcar", "interrumpir"}

Hebras ==
    /\ TipoTareas
    /\ \A h \in Hilos : Bien(tareas[h], algoritmo) /\ Cabeza(tareas[h])
    /\ Dormida(tareas["quantum"])

\* What a C function has to do, whole.
Rutina(s, alg) == s \in Seq(Tarea) /\ Bien(s, alg) /\ (s # <<>> => ~ Suelta(s[1]))

LEMMA RutinaVacia ==
    ASSUME NEW alg
    PROVE  Rutina(<<>>, alg)
  BY DEF Rutina, Bien

LEMMA RutinaUna ==
    ASSUME NEW alg, NEW o \in Tarea, ~ Abierta(o), ~ Suelta(o), o.op # "pushPriori"
    PROVE  Rutina(<<o>>, alg)
  <1>1. <<o>> \in Seq(Tarea) /\ DOMAIN <<o>> = {1} /\ <<o>>[1] = o
    OBVIOUS
  <1> QED BY <1>1 DEF Rutina, Bien

LEMMA RutinaPar ==
    ASSUME NEW alg, NEW a \in Tarea, NEW b \in Tarea, Abierta(a), Pega(a, b, alg),
           ~ Suelta(a), ~ Abierta(b), a.op = "pushPriori" => alg = "VRR", b.op # "pushPriori"
    PROVE  Rutina(<<a, b>>, alg)
  <1>1. /\ <<a, b>> \in Seq(Tarea) /\ DOMAIN <<a, b>> = {1, 2}
        /\ <<a, b>>[1] = a /\ <<a, b>>[2] = b
    OBVIOUS
  <1> HIDE DEF Pega, Abierta, Suelta
  <1> QED BY <1>1 DEF Rutina, Bien

LEMMA RutinaConcat ==
    ASSUME NEW alg, NEW s, NEW t, Rutina(s, alg), Rutina(t, alg)
    PROVE  Rutina(s \o t, alg)
  <1>1. s \in Seq(Tarea) /\ t \in Seq(Tarea) /\ Len(s) \in Nat /\ Len(t) \in Nat
    BY DEF Rutina
  <1> DEFINE u == s \o t
  <1>2. /\ u \in Seq(Tarea) /\ Len(u) = Len(s) + Len(t)
        /\ \A i \in 1 .. Len(s) : u[i] = s[i]
        /\ \A i \in Len(s) + 1 .. Len(s) + Len(t) : u[i] = t[i - Len(s)]
    BY <1>1
  <1> HIDE DEF u
  <1>3. DOMAIN s = 1 .. Len(s) /\ DOMAIN t = 1 .. Len(t) /\ DOMAIN u = 1 .. Len(s) + Len(t)
    BY <1>1, <1>2
  <1>4. ASSUME NEW i \in DOMAIN u
        PROVE  /\ Abierta(u[i]) => i + 1 \in DOMAIN u /\ Pega(u[i], u[i + 1], alg)
               /\ i > 1 /\ Suelta(u[i]) => Pega(u[i - 1], u[i], alg)
               /\ u[i].op = "pushPriori" => alg = "VRR"
    <2>1. CASE i <= Len(s)
      <3>1. u[i] = s[i] /\ i \in DOMAIN s
        BY <1>1, <1>2, <1>3, <2>1
      <3>2. Abierta(s[i]) => i + 1 \in DOMAIN s /\ Pega(s[i], s[i + 1], alg)
        BY <3>1 DEF Rutina, Bien
      <3>3. i + 1 \in DOMAIN s => u[i + 1] = s[i + 1] /\ i + 1 \in DOMAIN u
        BY <1>1, <1>2, <1>3, <3>1
      <3>4. i > 1 => u[i - 1] = s[i - 1]
        BY <1>1, <1>2, <1>3, <3>1
      <3> QED BY <3>1, <3>2, <3>3, <3>4 DEF Rutina, Bien
    <2>2. CASE i > Len(s)
      <3> DEFINE k == i - Len(s)
      <3>1. u[i] = t[k] /\ k \in DOMAIN t /\ k \in Nat
        BY <1>1, <1>2, <1>3, <2>2
      <3>2. Abierta(t[k]) => k + 1 \in DOMAIN t /\ Pega(t[k], t[k + 1], alg)
        BY <3>1 DEF Rutina, Bien
      <3>3. k + 1 \in DOMAIN t => u[i + 1] = t[k + 1] /\ i + 1 \in DOMAIN u
        BY <1>1, <1>2, <1>3, <2>2
      <3>4. k > 1 => u[i - 1] = t[k - 1]
        <4>1. k > 1 => i - 1 \in Len(s) + 1 .. Len(s) + Len(t) /\ (i - 1) - Len(s) = k - 1
          BY <1>1, <1>3, <2>2
        <4> QED BY <1>2, <4>1
      <3>5. k > 1 /\ Suelta(t[k]) => Pega(t[k - 1], t[k], alg)
        BY <3>1 DEF Rutina, Bien
      <3>6. k = 1 => ~ Suelta(t[k])
        BY <3>1 DEF Rutina
      <3>7. t[k].op = "pushPriori" => alg = "VRR"
        BY <3>1 DEF Rutina, Bien
      <3>8. k >= 1
        BY <1>1, <1>3, <3>1
      <3> HIDE DEF k
      <3> QED BY <3>1, <3>2, <3>3, <3>4, <3>5, <3>6, <3>7, <3>8
    <2> QED BY <1>1, <1>3, <2>1, <2>2
  <1>5. u # <<>> => ~ Suelta(u[1])
    <2>1. CASE s = <<>>
      <3>1. u = t
        BY <1>1, <2>1 DEF u
      <3> QED BY <3>1 DEF Rutina
    <2>2. CASE s # <<>>
      <3>1. 1 \in 1 .. Len(s)
        BY <1>1, <2>2
      <3> QED BY <1>2, <2>2, <3>1 DEF Rutina
    <2> QED BY <2>1, <2>2
  <1>6. Rutina(u, alg)
    BY <1>2, <1>4, <1>5 DEF Rutina, Bien
  <1> QED BY <1>6 DEF u

\* What is left after an operation that nothing goes right after.
LEMMA RestoRutina ==
    ASSUME NEW alg, NEW s \in Seq(Tarea), s # <<>>, Bien(s, alg), ~ Abierta(Head(s))
    PROVE  Rutina(Tail(s), alg)
  <1> DEFINE u == Tail(s)
  <1>1. /\ u \in Seq(Tarea) /\ Len(s) \in Nat /\ Len(s) >= 1 /\ DOMAIN s = 1 .. Len(s)
        /\ DOMAIN u = 1 .. Len(s) - 1 /\ \A i \in DOMAIN u : u[i] = s[i + 1]
        /\ Head(s) = s[1]
    OBVIOUS
  <1> HIDE DEF u
  <1>2. ASSUME NEW i \in DOMAIN u
        PROVE  /\ Abierta(u[i]) => i + 1 \in DOMAIN u /\ Pega(u[i], u[i + 1], alg)
               /\ i > 1 /\ Suelta(u[i]) => Pega(u[i - 1], u[i], alg)
               /\ u[i].op = "pushPriori" => alg = "VRR"
    <2>1. i \in Nat /\ i >= 1 /\ i + 1 \in DOMAIN s /\ u[i] = s[i + 1]
      BY <1>1
    <2>2. i + 1 + 1 \in DOMAIN s => i + 1 \in DOMAIN u /\ u[i + 1] = s[i + 1 + 1]
      BY <1>1, <2>1
    <2>3. i > 1 => u[i - 1] = s[i] /\ i - 1 \in DOMAIN u
      BY <1>1, <2>1
    <2>4. i + 1 > 1 /\ (i + 1) - 1 = i
      BY <2>1
    <2>5. /\ Abierta(s[i + 1]) => i + 1 + 1 \in DOMAIN s /\ Pega(s[i + 1], s[i + 1 + 1], alg)
          /\ Suelta(s[i + 1]) => Pega(s[i], s[i + 1], alg)
          /\ s[i + 1].op = "pushPriori" => alg = "VRR"
      BY <2>1, <2>4 DEF Bien
    <2> QED BY <2>1, <2>2, <2>3, <2>5
  <1>3. u # <<>> => ~ Suelta(u[1])
    <2> SUFFICES ASSUME u # <<>>, Suelta(u[1])
                 PROVE  FALSE
      OBVIOUS
    <2>1. 1 \in DOMAIN u /\ 2 \in DOMAIN s /\ 1 \in DOMAIN s /\ u[1] = s[2]
      BY <1>1
    <2>2. Pega(s[1], s[2], alg)
      BY <2>1 DEF Bien
    <2> QED BY <1>1, <2>2 DEF Pega, Abierta
  <1>4. Rutina(u, alg)
    BY <1>1, <1>2, <1>3 DEF Rutina, Bien
  <1> QED BY <1>4 DEF u

\* And after an operation with another right after it.
LEMMA RestoAbierta ==
    ASSUME NEW alg, NEW s \in Seq(Tarea), s # <<>>, Bien(s, alg), Abierta(Head(s))
    PROVE  /\ Tail(s) \in Seq(Tarea) /\ Bien(Tail(s), alg) /\ Tail(s) # <<>>
           /\ Pega(Head(s), Head(Tail(s)), alg)
  <1> DEFINE u == Tail(s)
  <1>1. /\ u \in Seq(Tarea) /\ Len(s) \in Nat /\ Len(s) >= 1 /\ DOMAIN s = 1 .. Len(s)
        /\ DOMAIN u = 1 .. Len(s) - 1 /\ \A i \in DOMAIN u : u[i] = s[i + 1]
        /\ Head(s) = s[1]
    OBVIOUS
  <1>0. u # <<>> => Head(u) = u[1]
    OBVIOUS
  <1> HIDE DEF u
  <1>2. ASSUME NEW i \in DOMAIN u
        PROVE  /\ Abierta(u[i]) => i + 1 \in DOMAIN u /\ Pega(u[i], u[i + 1], alg)
               /\ i > 1 /\ Suelta(u[i]) => Pega(u[i - 1], u[i], alg)
               /\ u[i].op = "pushPriori" => alg = "VRR"
    <2>1. i \in Nat /\ i >= 1 /\ i + 1 \in DOMAIN s /\ u[i] = s[i + 1]
      BY <1>1
    <2>2. i + 1 + 1 \in DOMAIN s => i + 1 \in DOMAIN u /\ u[i + 1] = s[i + 1 + 1]
      BY <1>1, <2>1
    <2>3. i > 1 => u[i - 1] = s[i] /\ i - 1 \in DOMAIN u
      BY <1>1, <2>1
    <2>4. i + 1 > 1 /\ (i + 1) - 1 = i
      BY <2>1
    <2>5. /\ Abierta(s[i + 1]) => i + 1 + 1 \in DOMAIN s /\ Pega(s[i + 1], s[i + 1 + 1], alg)
          /\ Suelta(s[i + 1]) => Pega(s[i], s[i + 1], alg)
          /\ s[i + 1].op = "pushPriori" => alg = "VRR"
      BY <2>1, <2>4 DEF Bien
    <2> QED BY <2>1, <2>2, <2>3, <2>5
  <1>3. 1 + 1 \in DOMAIN s /\ Pega(s[1], s[1 + 1], alg)
    BY <1>1 DEF Bien
  <1>4. 1 \in DOMAIN u /\ u[1] = s[1 + 1]
    BY <1>1, <1>3
  <1>5. u # <<>> /\ Pega(Head(s), Head(u), alg)
    BY <1>0, <1>1, <1>3, <1>4
  <1>6. u \in Seq(Tarea) /\ Bien(u, alg)
    BY <1>1, <1>2 DEF Bien
  <1> QED BY <1>5, <1>6 DEF u

\* Operations that stand alone.
LEMMA RutinaPlana ==
    ASSUME NEW alg, NEW s \in Seq(Tarea),
           \A i \in DOMAIN s : ~ Abierta(s[i]) /\ ~ Suelta(s[i]) /\ s[i].op # "pushPriori"
    PROVE  Rutina(s, alg)
  <1>1. s # <<>> => 1 \in DOMAIN s
    OBVIOUS
  <1> HIDE DEF Abierta, Suelta
  <1> QED BY <1>1 DEF Rutina, Bien

-----------------------------------------------------------------------------
(* The C functions.                                                        *)

LEMMA OpTipo ==
    ASSUME NEW o \in Operaciones, NEW pcb \in Pcbs \cup {Nulo}
    PROVE  Op(o, pcb) \in Oper /\ Op(o, pcb).op = o /\ Op(o, pcb).pcb = pcb
  BY DEF Op, Oper, Campos, Refs

LEMMA SimpleTipo ==
    ASSUME NEW o \in Operaciones
    PROVE  Simple(o) \in Oper /\ Simple(o).op = o /\ Simple(o).pcb = Nulo
  BY OpTipo DEF Simple

LEMMA OpRecTipo ==
    ASSUME NEW o \in Operaciones, NEW pcb \in Pcbs \cup {Nulo},
           NEW r \in Refs
    PROVE  /\ OpRec(o, pcb, r) \in Oper
           /\ OpRec(o, pcb, r).op = o /\ OpRec(o, pcb, r).pcb = pcb /\ OpRec(o, pcb, r).r = r
  BY DEF OpRec, Oper, Campos

LEMMA PcbNoEsNulo ==
    ASSUME NEW pcb \in Pcbs
    PROVE  pcb # Nulo
  BY DespachoAssumption DEF Pcbs

LEMMA CargarReadyRutina ==
    ASSUME NEW alg, NEW pcb \in Pcbs
    PROVE  Rutina(CargarReady(pcb), alg)
  <1> DEFINE a == Op("pushReady", pcb)
             b == Simple("postReady")
  <1>0. "pushReady" \in Operaciones /\ "postReady" \in Operaciones
    BY DEF Operaciones
  <1>1. a \in Oper /\ a.op = "pushReady" /\ a.pcb = pcb /\ b \in Oper /\ b.op = "postReady"
    BY <1>0, OpTipo, SimpleTipo
  <1> HIDE DEF a, b
  <1>2. a \in Tarea /\ b \in Tarea
    BY <1>1 DEF Tarea, ConSuPcb
  <1>3. Abierta(a) /\ Pega(a, b, alg) /\ ~ Suelta(a) /\ ~ Abierta(b)
    BY <1>1 DEF Abierta, Pega, Suelta
  <1>4. Rutina(<<a, b>>, alg)
    BY <1>1, <1>2, <1>3, RutinaPar
  <1> QED BY <1>4 DEF CargarReady, a, b

LEMMA CargarReadyPrioriRutina ==
    ASSUME NEW pcb \in Pcbs
    PROVE  Rutina(CargarReadyPriori(pcb), "VRR")
  <1> DEFINE a == Op("pushPriori", pcb)
             b == Simple("postReady")
  <1>0. "pushPriori" \in Operaciones /\ "postReady" \in Operaciones
    BY DEF Operaciones
  <1>1. a \in Oper /\ a.op = "pushPriori" /\ a.pcb = pcb /\ b \in Oper /\ b.op = "postReady"
    BY <1>0, OpTipo, SimpleTipo
  <1> HIDE DEF a, b
  <1>2. a \in Tarea /\ b \in Tarea
    BY <1>1 DEF Tarea, ConSuPcb
  <1>3. Abierta(a) /\ Pega(a, b, "VRR") /\ ~ Suelta(a) /\ ~ Abierta(b)
    BY <1>1 DEF Abierta, Pega, Suelta
  <1>4. Rutina(<<a, b>>, "VRR")
    BY <1>1, <1>2, <1>3, RutinaPar
  <1> QED BY <1>4 DEF CargarReadyPriori, a, b

LEMMA DesbloquearRutina ==
    ASSUME NEW pcb \in Pcbs
    PROVE  Rutina(Desbloquear(pcb), algoritmo)
  BY CargarReadyRutina, CargarReadyPrioriRutina DEF Desbloquear

\* An operation that stands alone, of a thread that has it.
Llana(o) == o \in Tarea /\ ~ Abierta(o) /\ ~ Suelta(o) /\ o.op # "pushPriori"
LEMMA RutinaLlana ==
    ASSUME NEW alg, NEW o, Llana(o)
    PROVE  Rutina(<<o>>, alg)
  BY RutinaUna DEF Llana

LEMMA RutinaDos ==
    ASSUME NEW alg, NEW a, NEW b, Llana(a), Llana(b)
    PROVE  Rutina(<<a, b>>, alg)
  <1>1. /\ a \in Tarea /\ b \in Tarea /\ DOMAIN <<a, b>> = {1, 2}
        /\ <<a, b>>[1] = a /\ <<a, b>>[2] = b
    BY DEF Llana
  <1>2. <<a, b>> \in Seq(Tarea)
    BY <1>1
  <1>3. \A i \in DOMAIN <<a, b>> :
            ~ Abierta(<<a, b>>[i]) /\ ~ Suelta(<<a, b>>[i]) /\ <<a, b>>[i].op # "pushPriori"
    BY <1>1 DEF Llana
  <1> QED BY ONLY <1>2, <1>3, RutinaPlana

LEMMA SimpleLlana ==
    ASSUME NEW n \in {"interrumpir", "confirmar", "cancelarQuantum", "desalojarExec", "liberarCPU",
                      "postGM", "esperarConfirmacion", "unirQuantum", "postConfirmacion",
                      "limpiarError", "esperarGM"}
    PROVE  Llana(Simple(n))
  <1>0. n \in Operaciones
    BY DEF Operaciones
  <1>1. Simple(n) \in Oper /\ Simple(n).op = n
    BY <1>0, SimpleTipo
  <1> QED BY <1>1 DEF Llana, Tarea, Abierta, Suelta, ConSuPcb

LEMMA OpLlana ==
    ASSUME NEW n \in {"enviarExec", "pushExec", "crearQuantum", "dormir", "elegirMotivo", "ocuparIO",
                      "listarNew", "sacarNewReady", "sacarNewExit", "devolverRecursos", "pushExit"},
           NEW pcb \in Pcbs
    PROVE  Llana(Op(n, pcb))
  <1>1. Op(n, pcb) \in Oper /\ Op(n, pcb).op = n /\ Op(n, pcb).pcb = pcb
    BY OpTipo DEF Operaciones
  <1> QED BY <1>1, PcbNoEsNulo DEF Llana, Tarea, Abierta, Suelta, ConSuPcb

LEMMA ModificarLlana ==
    ASSUME NEW pcb \in Pcbs \cup {Nulo}
    PROVE  Llana(Op("modificarQuantum", pcb))
  <1> DEFINE o == Op("modificarQuantum", pcb)
  <1>1. o \in Oper /\ o.op = "modificarQuantum"
    BY OpTipo DEF Operaciones
  <1> HIDE DEF o
  <1>2. Llana(o)
    BY <1>1 DEF Llana, Tarea, Abierta, Suelta, ConSuPcb
  <1> QED BY <1>2 DEF o

LEMMA InterrumpirRutina ==
    ASSUME NEW alg, NEW m \in Motivos
    PROVE  Rutina(Interrumpir(m), alg)
  <1> DEFINE a == OpRec("marcar", Nulo, m)
             b == Simple("interrumpir")
  <1>0. "marcar" \in Operaciones
    BY DEF Operaciones
  <1>1. a \in Oper /\ a.op = "marcar" /\ a.r = m
    <2>1. m \in Refs
      BY DEF Refs
    <2>2. Nulo \in Pcbs \cup {Nulo}
      OBVIOUS
    <2> QED BY ONLY <1>0, <2>1, <2>2, OpRecTipo DEF a
  <1>2. Llana(b)
    BY SimpleLlana
  <1> HIDE DEF a, b
  <1>3. Llana(a)
    BY <1>1 DEF Llana, Tarea, Abierta, Suelta, ConSuPcb
  <1>4. Rutina(<<a, b>>, alg)
    BY <1>2, <1>3, RutinaDos
  <1> QED BY <1>4 DEF Interrumpir, a, b

LEMMA DesalojarRutina ==
    ASSUME NEW alg, NEW pcb \in Pcbs \cup {Nulo}
    PROVE  Rutina(Desalojar(pcb), alg)
  <1> DEFINE a == Simple("desalojarExec")
             b == Simple("liberarCPU")
             c == Simple("cancelarQuantum")
             d == Op("modificarQuantum", pcb)
             u == IF Preemptivo THEN <<c>> ELSE <<>>
             v == IF algoritmo = "VRR" THEN <<d>> ELSE <<>>
  <1>1. Llana(a) /\ Llana(b) /\ Llana(c) /\ Llana(d)
    BY SimpleLlana, ModificarLlana
  <1> HIDE DEF a, b, c, d
  <1>2. Rutina(<<c>>, alg) /\ Rutina(<<d>>, alg) /\ Rutina(<<>>, alg)
    BY <1>1, RutinaLlana, RutinaVacia
  <1>4. Rutina(<<a, b>>, alg)
    BY <1>1, RutinaDos
  <1>5. Rutina(u, alg) /\ Rutina(v, alg)
    BY <1>2
  <1> HIDE DEF u, v
  <1>6. Rutina(u \o v, alg)
    BY <1>5, RutinaConcat
  <1>7. Rutina(u \o v \o <<a, b>>, alg)
    BY <1>4, <1>6, RutinaConcat
  <1> QED BY <1>7 DEF Desalojar, a, b, c, d, u, v

LEMMA LtsExRutina ==
    ASSUME NEW alg, NEW pcb \in Pcbs \cup {Nulo}, NEW anterior
    PROVE  Rutina(LtsEx(pcb, anterior), alg)
  <1> DEFINE a == Simple("postGM")
             b == Op("devolverRecursos", pcb)
             c == Op("pushExit", pcb)
             u == IF anterior # "NEW" THEN <<a>> ELSE <<>>
  <1>1. /\ b \in Oper /\ b.op = "devolverRecursos" /\ b.pcb = pcb
        /\ c \in Oper /\ c.op = "pushExit" /\ c.pcb = pcb
    BY OpTipo DEF Operaciones
  <1>2. Llana(a)
    BY SimpleLlana
  <1> HIDE DEF a, b, c
  <1>3. Rutina(<<a>>, alg) /\ Rutina(<<>>, alg)
    BY <1>2, RutinaLlana, RutinaVacia
  <1>4. Rutina(u, alg)
    BY <1>3
  <1> HIDE DEF u
  <1>5. b \in Tarea /\ c \in Tarea
    BY <1>1 DEF Tarea, ConSuPcb
  <1>6. Rutina(<<b, c>>, alg)
    <2>1. CASE pcb = Nulo
      <3>1. /\ Abierta(b) /\ Pega(b, c, alg) /\ ~ Suelta(b) /\ ~ Abierta(c)
        BY <1>1, <2>1 DEF Abierta, Pega, Suelta
      <3> QED BY <1>1, <1>5, <3>1, RutinaPar
    <2>2. CASE pcb # Nulo
      <3>1. Llana(b) /\ Llana(c)
        BY <1>1, <1>5, <2>2 DEF Llana, Abierta, Suelta
      <3> QED BY <3>1, RutinaDos
    <2> QED BY <2>1, <2>2
  <1>7. Rutina(u \o <<b, c>>, alg)
    BY <1>4, <1>6, RutinaConcat
  <1> QED BY <1>7 DEF LtsEx, a, b, c, u


LEMMA TurnoRutina == Rutina(Turno, algoritmo)
  <1> DEFINE n == IF algoritmo = "VRR" THEN "mirarPriori" ELSE "sacarReady"
             a == Simple("esperarReady")
             b == Simple("tomarCPU")
             c == Simple(n)
  <1>1. n \in Operaciones /\ "esperarReady" \in Operaciones /\ "tomarCPU" \in Operaciones
    BY DEF Operaciones
  <1>2. /\ a \in Oper /\ a.op = "esperarReady" /\ b \in Oper /\ b.op = "tomarCPU"
        /\ c \in Oper /\ c.op = n
    BY <1>1, SimpleTipo
  <1> HIDE DEF a, b, c
  <1>3. a \in Tarea /\ b \in Tarea /\ c \in Tarea
    BY <1>2 DEF Tarea, ConSuPcb
  <1>4. /\ Pega(a, b, algoritmo) /\ Pega(b, c, algoritmo)
        /\ ~ Abierta(c) /\ ~ Suelta(a)
        /\ a.op # "pushPriori" /\ b.op # "pushPriori" /\ c.op # "pushPriori"
    BY <1>2 DEF Pega, Abierta, Suelta
  <1> DEFINE s == <<a, b, c>>
  <1>5. s \in Seq(Tarea) /\ DOMAIN s = {1, 2, 3} /\ s[1] = a /\ s[2] = b /\ s[3] = c
    BY <1>3
  <1> HIDE DEF s
  <1>6. ASSUME NEW i \in DOMAIN s
        PROVE  /\ Abierta(s[i]) => i + 1 \in DOMAIN s /\ Pega(s[i], s[i + 1], algoritmo)
               /\ i > 1 /\ Suelta(s[i]) => Pega(s[i - 1], s[i], algoritmo)
               /\ s[i].op = "pushPriori" => algoritmo = "VRR"
    <2>1. CASE i = 1
      <3>1. i + 1 = 2
        BY <2>1
      <3> QED BY <1>4, <1>5, <2>1, <3>1
    <2>2. CASE i = 2
      <3>1. i + 1 = 3 /\ i - 1 = 1
        BY <2>2
      <3> QED BY <1>4, <1>5, <2>2, <3>1
    <2>3. CASE i = 3
      <3>1. i - 1 = 2
        BY <2>3
      <3> QED BY <1>4, <1>5, <2>3, <3>1
    <2> QED BY <1>5, <2>1, <2>2, <2>3
  <1>7. Rutina(s, algoritmo)
    BY <1>4, <1>5, <1>6 DEF Rutina, Bien
  <1> QED BY <1>7 DEF Turno, a, b, c, s

LEMMA EjecutarConQuantumRutina ==
    ASSUME NEW alg, NEW pcb \in Pcbs
    PROVE  Rutina(EjecutarConQuantum(pcb), alg)
  <1> DEFINE a == Op("pushExec", pcb)
             b == Op("enviarExec", pcb)
             c == Simple("esperarConfirmacion")
             d == Op("crearQuantum", pcb)
             e == Simple("unirQuantum")
  <1>1. Llana(a) /\ Llana(b) /\ Llana(c) /\ Llana(d) /\ Llana(e)
    BY OpLlana, SimpleLlana
  <1> HIDE DEF a, b, c, d, e
  <1> DEFINE s == <<a, b, c, d, e>>
  <1>2. a \in Tarea /\ b \in Tarea /\ c \in Tarea /\ d \in Tarea /\ e \in Tarea
    BY <1>1 DEF Llana
  <1>3. /\ s \in Seq(Tarea) /\ DOMAIN s = {1, 2, 3, 4, 5}
        /\ s[1] = a /\ s[2] = b /\ s[3] = c /\ s[4] = d /\ s[5] = e
    BY <1>2
  <1> HIDE DEF s
  <1>4. \A i \in DOMAIN s : Llana(s[i])
    BY <1>1, <1>3
  <1>5. \A i \in DOMAIN s : ~ Abierta(s[i]) /\ ~ Suelta(s[i]) /\ s[i].op # "pushPriori"
    BY <1>4 DEF Llana
  <1>6. Rutina(s, alg)
    BY ONLY <1>3, <1>5, RutinaPlana
  <1> QED BY <1>6 DEF EjecutarConQuantum, a, b, c, d, e, s

LEMMA RecargarRutina ==
    ASSUME NEW alg, NEW pcb \in Pcbs
    PROVE  Rutina(Recargar(pcb), alg)
  <1> DEFINE llena == [pcb EXCEPT !.q = Quantum]
             a == Op("pushExec", pcb)
             b == Op("pushReady", llena)
             c == Simple("popExec")
             d == Simple("postReady")
             e == Simple("liberarCPU")
  <1>1. llena \in Pcbs
    BY DespachoAssumption DEF Pcbs
  <1>2. "pushReady" \in Operaciones /\ "popExec" \in Operaciones /\ "postReady" \in Operaciones
    BY DEF Operaciones
  <1> HIDE DEF llena
  <1>3. /\ b \in Oper /\ b.op = "pushReady" /\ b.pcb = llena
        /\ c \in Oper /\ c.op = "popExec" /\ d \in Oper /\ d.op = "postReady"
    BY <1>1, <1>2, OpTipo, SimpleTipo
  <1>4. Llana(a) /\ Llana(e)
    BY OpLlana, SimpleLlana
  <1> HIDE DEF a, b, c, d, e
  <1>5. a \in Tarea /\ b \in Tarea /\ c \in Tarea /\ d \in Tarea /\ e \in Tarea
    BY <1>1, <1>3, <1>4 DEF Llana, Tarea, ConSuPcb
  <1>6. /\ Pega(b, c, alg) /\ Pega(c, d, alg)
        /\ ~ Abierta(d) /\ ~ Suelta(b)
        /\ b.op # "pushPriori" /\ c.op # "pushPriori" /\ d.op # "pushPriori"
    BY <1>3 DEF Pega, Abierta, Suelta
  <1> DEFINE s == <<a, b, c, d, e>>
  <1>7. /\ s \in Seq(Tarea) /\ DOMAIN s = {1, 2, 3, 4, 5}
        /\ s[1] = a /\ s[2] = b /\ s[3] = c /\ s[4] = d /\ s[5] = e
    BY <1>5
  <1> HIDE DEF s
  <1>8. ASSUME NEW i \in DOMAIN s
        PROVE  /\ Abierta(s[i]) => i + 1 \in DOMAIN s /\ Pega(s[i], s[i + 1], alg)
               /\ i > 1 /\ Suelta(s[i]) => Pega(s[i - 1], s[i], alg)
               /\ s[i].op = "pushPriori" => alg = "VRR"
    <2>1. CASE i = 1 \/ i = 5
      BY <1>4, <1>7, <2>1 DEF Llana
    <2>2. CASE i = 2
      <3>1. i + 1 = 3
        BY <2>2
      <3> QED BY <1>6, <1>7, <2>2, <3>1
    <2>3. CASE i = 3
      <3>1. i - 1 = 2 /\ i + 1 = 4
        BY <2>3
      <3> QED BY <1>6, <1>7, <2>3, <3>1
    <2>4. CASE i = 4
      <3>1. i - 1 = 3
        BY <2>4
      <3> QED BY <1>6, <1>7, <2>4, <3>1
    <2> QED BY <1>7, <2>1, <2>2, <2>3, <2>4
  <1>9. Rutina(s, alg)
    BY <1>4, <1>7, <1>8 DEF Rutina, Bien, Llana
  <1> QED BY <1>9 DEF Recargar, llena, a, b, c, d, e, s

LEMMA EjecutarRutina ==
    ASSUME NEW pcb \in Pcbs, TipoConfig
    PROVE  Rutina(Ejecutar(pcb), algoritmo)
  <1>1. CASE algoritmo = "FIFO"
    <2> DEFINE a == Op("pushExec", pcb)
               b == Op("enviarExec", pcb)
    <2>1. Llana(a) /\ Llana(b)
      BY OpLlana
    <2> HIDE DEF a, b
    <2>2. Rutina(<<a, b>>, algoritmo)
      BY <2>1, RutinaDos
    <2>3. Ejecutar(pcb) = <<a, b>>
      BY <1>1 DEF Ejecutar, a, b
    <2> QED BY <2>2, <2>3
  <1>2. CASE algoritmo = "RR"
    <2> DEFINE llena == [pcb EXCEPT !.q = Quantum]
    <2>1. llena \in Pcbs
      BY DespachoAssumption DEF Pcbs
    <2>2. Ejecutar(pcb) = EjecutarConQuantum(llena)
      BY <1>2 DEF Ejecutar
    <2> HIDE DEF llena
    <2> QED BY <2>1, <2>2, EjecutarConQuantumRutina
  <1>3. CASE algoritmo = "VRR"
    <2>1. Ejecutar(pcb) = IF pcb.q <= 0 THEN Recargar(pcb) ELSE EjecutarConQuantum(pcb)
      BY <1>3 DEF Ejecutar
    <2> QED BY <2>1, EjecutarConQuantumRutina, RecargarRutina
  <1> QED BY <1>1, <1>2, <1>3 DEF TipoConfig

LEMMA DevolverACpuRutina ==
    ASSUME NEW alg, NEW pcb \in Pcbs
    PROVE  Rutina(DevolverACpu(pcb), alg)
  BY OpLlana, RutinaLlana DEF DevolverACpu

LEMMA OpRecLlana ==
    ASSUME NEW n \in {"wait", "signal", "recorrer", "encolar"}, NEW pcb \in Pcbs, NEW r \in Refs,
           n = "recorrer" => r \in Faltan, n = "encolar" => r \in Nombres
    PROVE  Llana(OpRec(n, pcb, r))
  <1> DEFINE o == OpRec(n, pcb, r)
  <1>1. n \in Operaciones
    BY DEF Operaciones
  <1>2. o \in Oper /\ o.op = n /\ o.pcb = pcb /\ o.r = r
    BY <1>1, OpRecTipo
  <1> HIDE DEF o
  <1>3. o \in Tarea
    BY <1>2 DEF Tarea, ConSuPcb
  <1>4. Llana(o)
    BY <1>2, <1>3 DEF Llana, Abierta, Suelta
  <1> QED BY <1>4 DEF o

LEMMA AtenderRutina ==
    ASSUME NEW alg, NEW m \in AlKernel
    PROVE  Rutina(Atender(m), alg)
  <1>0. (m.op # "CONFIRMAR_EXEC" => m.pcb \in Pcbs) /\ m.r \in Refs
    BY DEF AlKernel, Paquete, Campos
  <1>1. CASE m.op = "CONFIRMAR_EXEC"
    <2>1. Atender(m) = <<Simple("postConfirmacion")>>
      BY <1>1 DEF Atender
    <2> QED BY <2>1, SimpleLlana, RutinaLlana
  <1>2. CASE m.op = "INTERRUMPIO_PROCESO"
    <2>1. Atender(m) = <<Op("elegirMotivo", m.pcb)>>
      BY <1>2 DEF Atender
    <2> QED BY <1>0, <1>2, <2>1, OpLlana, RutinaLlana
  <1>3. CASE m.op = "ERROR_OUT_OF_MEMORY"
    <2>1. Atender(m) = Interrumpir("error_memoria") \o <<Simple("confirmar")>> \o Desalojar(Nulo)
      BY <1>3 DEF Atender
    <2>2. /\ Rutina(Interrumpir("error_memoria"), alg) /\ Rutina(Desalojar(Nulo), alg)
          /\ Rutina(<<Simple("confirmar")>>, alg)
      BY InterrumpirRutina, DesalojarRutina, SimpleLlana, RutinaLlana DEF Motivos
    <2> QED BY <2>1, <2>2, RutinaConcat
  <1>4. CASE m.op = "WAIT"
    <2>1. Atender(m) = Interrumpir("syscall") \o <<Simple("confirmar"), OpRec("wait", m.pcb, m.r)>>
      BY <1>4 DEF Atender
    <2>2. Rutina(Interrumpir("syscall"), alg)
      BY InterrumpirRutina DEF Motivos
    <2>3. Rutina(<<Simple("confirmar"), OpRec("wait", m.pcb, m.r)>>, alg)
      BY <1>0, <1>4, SimpleLlana, OpRecLlana, RutinaDos
    <2> QED BY <2>1, <2>2, <2>3, RutinaConcat
  <1>5. CASE m.op = "SIGNAL"
    <2>1. Atender(m) = <<OpRec("signal", m.pcb, m.r)>>
      BY <1>5 DEF Atender
    <2> QED BY <1>0, <1>5, <2>1, OpRecLlana, RutinaLlana
  <1>6. CASE m.op = "TERMINO_EJECUCION"
    <2>1. Atender(m) = Desalojar(m.pcb) \o LtsEx(m.pcb, "EXEC")
      BY <1>6 DEF Atender
    <2> QED BY <1>0, <1>6, <2>1, DesalojarRutina, LtsExRutina, RutinaConcat
  <1>7. CASE m.op = "IO"
    <2>1. Atender(m) = <<Simple("confirmar")>> \o Interrumpir("syscall") \o Desalojar(m.pcb)
                         \o <<Op("ocuparIO", m.pcb)>>
      BY <1>7 DEF Atender
    <2>2. /\ Rutina(<<Simple("confirmar")>>, alg) /\ Rutina(Interrumpir("syscall"), alg)
          /\ Rutina(Desalojar(m.pcb), alg) /\ Rutina(<<Op("ocuparIO", m.pcb)>>, alg)
      BY <1>0, <1>7, SimpleLlana, InterrumpirRutina, DesalojarRutina, OpLlana, RutinaLlana
      DEF Motivos
    <2>3. Rutina(<<Simple("confirmar")>> \o Interrumpir("syscall"), alg)
      BY <2>2, RutinaConcat
    <2>4. Rutina(<<Simple("confirmar")>> \o Interrumpir("syscall") \o Desalojar(m.pcb), alg)
      BY <2>2, <2>3, RutinaConcat
    <2> QED BY <2>1, <2>2, <2>4, RutinaConcat
  <1> QED BY <1>1, <1>2, <1>3, <1>4, <1>5, <1>6, <1>7 DEF AlKernel

-----------------------------------------------------------------------------
(* What a step does to the ready queues, their semaphore and the threads.  *)

\* A thread has pushed and not posted; the planner has waited and not popped.
Pend(s) == s # <<>> /\ Head(s).op \in {"postReady", "popExec"}
Toma(s) == s # <<>> /\ Head(s).op \in {"tomarCPU", "mirarPriori", "sacarReady", "sacarPriori"}
Saca(s, n) == s # <<>> /\ Head(s).op = n

Planif == tareas["planificacion"]
Listos == <<colas.ready, colas.priori>>

SigueIgual == \A h \in Hilos : Pend(tareas'[h]) <=> Pend(tareas[h])
Neutro ==
    /\ SigueIgual /\ (Toma(Planif') <=> Toma(Planif))
    /\ \A n \in {"sacarReady", "sacarPriori"} : Saca(Planif', n) => Saca(Planif, n)
    /\ Listos' = Listos /\ sem'.ready = sem.ready

\* Only h changes, and it is not at the planner's operations before or after.
Fuera(h) ==
    /\ \A g \in Hilos \ {h} : tareas'[g] = tareas[g]
    /\ h = "planificacion" => ~ Toma(Planif) /\ ~ Toma(Planif')
Carga == \E h \in Hilos :
    /\ Fuera(h) /\ ~ Pend(tareas[h]) /\ Pend(tareas'[h]) /\ sem'.ready = sem.ready
    /\ \/ colas'.priori = colas.priori /\ \E x \in Pcbs : colas'.ready = Append(colas.ready, x)
       \/ /\ colas'.ready = colas.ready /\ \E x \in Pcbs : colas'.priori = Append(colas.priori, x)
          /\ algoritmo = "VRR"
Avisa == \E h \in Hilos :
    /\ Fuera(h) /\ Pend(tareas[h]) /\ ~ Pend(tareas'[h])
    /\ sem'.ready = sem.ready + 1 /\ Listos' = Listos
Espera ==
    /\ SigueIgual /\ ~ Toma(Planif) /\ Saca(Planif', "tomarCPU")
    /\ sem'.ready = sem.ready - 1 /\ Listos' = Listos
Mira ==
    /\ SigueIgual /\ Toma(Planif) /\ Toma(Planif')
    /\ Saca(Planif', "sacarReady") => algoritmo # "VRR" \/ colas.priori = <<>>
    /\ Saca(Planif', "sacarPriori") => colas.priori # <<>>
    /\ Listos' = Listos /\ sem'.ready = sem.ready
Quita ==
    /\ SigueIgual /\ Toma(Planif) /\ ~ Toma(Planif') /\ sem'.ready = sem.ready
    /\ \/ /\ colas.ready # <<>> /\ colas'.ready = Tail(colas.ready)
          /\ colas'.priori = colas.priori
       \/ /\ colas.priori # <<>> /\ colas'.priori = Tail(colas.priori)
          /\ colas'.ready = colas.ready

Efecto == Neutro \/ Carga \/ Avisa \/ Espera \/ Mira \/ Quita

LEMMA Cabecera ==
    ASSUME TipoTareas, NEW h \in Hilos, tareas[h] # <<>>
    PROVE  /\ tareas[h] \in Seq(Tarea) /\ Head(tareas[h]) \in Tarea
           /\ Head(tareas[h]) = tareas[h][1] /\ 1 \in DOMAIN tareas[h]
           /\ Tail(tareas[h]) \in Seq(Tarea)
  <1>1. tareas[h] \in Seq(Tarea)
    BY DEF TipoTareas
  <1> QED BY <1>1

LEMMA Cambia ==
    ASSUME Hebras, algoritmo' = algoritmo, NEW h \in Hilos, NEW s \in Seq(Tarea),
           Bien(s, algoritmo), Cabeza(s), h = "quantum" => Dormida(s),
           tareas' = [tareas EXCEPT ![h] = s]
    PROVE  Hebras' /\ tareas'[h] = s /\ \A g \in Hilos \ {h} : tareas'[g] = tareas[g]
  <1>1. TipoTareas' /\ tareas'[h] = s /\ \A g \in Hilos \ {h} : tareas'[g] = tareas[g]
    BY DEF Hebras, TipoTareas
  <1>2. \A g \in Hilos : Bien(tareas'[g], algoritmo) /\ Cabeza(tareas'[g])
    BY <1>1 DEF Hebras
  <1>3. \A g \in Hilos : Bien(tareas'[g], algoritmo')
    BY <1>2
  <1>4. "quantum" \in Hilos
    BY DEF Hilos
  <1>5. Dormida(tareas'["quantum"])
    BY <1>1, <1>4 DEF Hebras
  <1> QED BY <1>1, <1>2, <1>3, <1>5 DEF Hebras, Cabeza

LEMMA RutinaQuieta ==
    ASSUME NEW alg, NEW s, Rutina(s, alg)
    PROVE  /\ s \in Seq(Tarea) /\ Bien(s, alg) /\ Cabeza(s)
           /\ ~ Pend(s) /\ ~ Toma(s) /\ \A n \in {"sacarReady", "sacarPriori"} : ~ Saca(s, n)
  <1>1. s \in Seq(Tarea) /\ Bien(s, alg) /\ (s # <<>> => ~ Suelta(s[1]))
    BY DEF Rutina
  <1>2. s # <<>> => Head(s) = s[1]
    BY <1>1
  <1> QED BY <1>1, <1>2 DEF Cabeza, Pend, Toma, Saca, Suelta

\* The thread begins something.
LEMMA Empieza ==
    ASSUME Hebras, algoritmo' = algoritmo, NEW h \in Hilos, tareas[h] = <<>>,
           NEW s, Rutina(s, algoritmo), h # "quantum", tareas' = [tareas EXCEPT ![h] = s],
           Listos' = Listos, sem'.ready = sem.ready
    PROVE  Hebras' /\ Efecto
  <1>1. Hebras' /\ tareas'[h] = s /\ \A g \in Hilos \ {h} : tareas'[g] = tareas[g]
    BY RutinaQuieta, Cambia
  <1>2. /\ ~ Pend(s) /\ ~ Toma(s) /\ \A n \in {"sacarReady", "sacarPriori"} : ~ Saca(s, n)
        /\ ~ Pend(tareas[h]) /\ ~ Toma(tareas[h])
    BY RutinaQuieta DEF Pend, Toma
  <1>3. "planificacion" \in Hilos
    BY DEF Hilos
  <1>4. Planif' = tareas'["planificacion"]
    BY DEF Planif
  <1>5. Neutro
    BY <1>1, <1>2, <1>3, <1>4 DEF Neutro, SigueIgual, Planif
  <1> QED BY <1>1, <1>5 DEF Efecto

\* The thread is done with an operation that nothing goes right after.
Neutra(o) == ~ Abierta(o) /\ o.op \notin {"postReady", "mirarPriori", "sacarReady", "sacarPriori"}

LEMMA Avanza ==
    ASSUME Hebras, algoritmo' = algoritmo, NEW h \in Hilos, tareas[h] # <<>>,
           ~ Abierta(Head(tareas[h])), NEW mas, Rutina(mas, algoritmo),
           h = "quantum" => mas = <<>>, Sigue(h, mas)
    PROVE  /\ Hebras' /\ Rutina(tareas'[h], algoritmo)
           /\ \A g \in Hilos \ {h} : tareas'[g] = tareas[g]
  <1>1. tareas[h] \in Seq(Tarea) /\ Bien(tareas[h], algoritmo)
    BY DEF Hebras, TipoTareas
  <1>2. Rutina(Tail(tareas[h]), algoritmo)
    BY <1>1, RestoRutina
  <1> DEFINE s == mas \o Tail(tareas[h])
  <1>3. Rutina(s, algoritmo)
    BY <1>2, RutinaConcat
  <1>4. h = "quantum" => Dormida(s)
    <2> SUFFICES ASSUME h = "quantum"
                 PROVE  Dormida(s)
      OBVIOUS
    <2>1. s = Tail(tareas[h])
      BY <1>2 DEF Rutina
    <2>2. Dormida(tareas[h])
      BY DEF Hebras
    <2>3. \A i \in DOMAIN s : i + 1 \in DOMAIN tareas[h] /\ s[i] = tareas[h][i + 1]
      BY <1>1, <2>1
    <2> QED BY <2>2, <2>3 DEF Dormida
  <1>5. tareas' = [tareas EXCEPT ![h] = s]
    BY DEF Sigue
  <1> HIDE DEF s
  <1> QED BY <1>3, <1>4, <1>5, RutinaQuieta, Cambia

LEMMA Llano ==
    ASSUME Hebras, algoritmo' = algoritmo, NEW h \in Hilos, tareas[h] # <<>>,
           Neutra(Head(tareas[h])), NEW mas, Rutina(mas, algoritmo),
           h = "quantum" => mas = <<>>, Sigue(h, mas),
           Listos' = Listos, sem'.ready = sem.ready
    PROVE  Hebras' /\ Efecto
  <1>1. /\ Hebras' /\ Rutina(tareas'[h], algoritmo)
        /\ \A g \in Hilos \ {h} : tareas'[g] = tareas[g]
    BY Avanza DEF Neutra
  <1>2. /\ ~ Pend(tareas'[h]) /\ ~ Toma(tareas'[h])
        /\ \A n \in {"sacarReady", "sacarPriori"} : ~ Saca(tareas'[h], n)
        /\ ~ Pend(tareas[h]) /\ ~ Toma(tareas[h])
    BY <1>1, RutinaQuieta DEF Pend, Toma, Neutra, Abierta
  <1>3. "planificacion" \in Hilos
    BY DEF Hilos
  <1>4. Planif' = tareas'["planificacion"]
    BY DEF Planif
  <1>5. Neutro
    BY <1>1, <1>2, <1>3, <1>4 DEF Neutro, SigueIgual, Planif
  <1> QED BY <1>1, <1>5 DEF Efecto

\* The thread goes on to the operation that is right after.
LEMMA AvanzaAbierta ==
    ASSUME Hebras, algoritmo' = algoritmo, NEW h \in Hilos, tareas[h] # <<>>,
           Abierta(Head(tareas[h])), Head(tareas[h]).op # "devolverRecursos",
           h # "quantum", Sigue(h, <<>>)
    PROVE  /\ Hebras' /\ tareas'[h] # <<>> /\ Pega(Head(tareas[h]), Head(tareas'[h]), algoritmo)
           /\ \A g \in Hilos \ {h} : tareas'[g] = tareas[g]
  <1>1. tareas[h] \in Seq(Tarea) /\ Bien(tareas[h], algoritmo)
    BY DEF Hebras, TipoTareas
  <1> DEFINE s == Tail(tareas[h])
  <1>2. s \in Seq(Tarea) /\ Bien(s, algoritmo) /\ s # <<>> /\ Pega(Head(tareas[h]), Head(s), algoritmo)
    BY <1>1, RestoAbierta
  <1>3. tareas' = [tareas EXCEPT ![h] = s]
    BY <1>2 DEF Sigue
  <1> HIDE DEF s
  <1>4. Head(s) = s[1]
    BY <1>2
  <1>5. Cabeza(s)
    BY <1>2, <1>4 DEF Pega, Cabeza
  <1> QED BY <1>2, <1>3, <1>5, Cambia

-----------------------------------------------------------------------------
(* The count.                                                              *)

Pend1 == {h \in Hilos : Pend(tareas[h])}
Cuenta ==
    sem.ready + (IF Toma(Planif) THEN 1 ELSE 0) + Cardinality(Pend1)
      = Len(colas.ready) + Len(colas.priori)
Busca ==
    /\ Saca(Planif, "sacarReady") => colas.ready # <<>>
    /\ Saca(Planif, "sacarPriori") => colas.priori # <<>>
SoloVRR == algoritmo # "VRR" => colas.priori = <<>>

LEMMA HilosFinitos == IsFiniteSet(Hilos)
  <1> DEFINE a == {"planificacion"}
             b == {"quantum"}
             c == {"dispatch"}
             d == {"memoria"}
             e == {"consola"}
             f == {"io"}
  <1>1. /\ IsFiniteSet(a) /\ IsFiniteSet(b) /\ IsFiniteSet(c) /\ IsFiniteSet(d)
        /\ IsFiniteSet(e) /\ IsFiniteSet(f)
    BY FS_Singleton
  <1>2. Hilos = a \cup b \cup c \cup d \cup e \cup f
    BY DEF Hilos
  <1> HIDE DEF a, b, c, d, e, f
  <1>3. IsFiniteSet(a \cup b \cup c \cup d \cup e \cup f)
    BY <1>1, FS_Union
  <1> QED BY <1>2, <1>3

LEMMA PendientesFinitos ==
    /\ IsFiniteSet(Pend1) /\ Cardinality(Pend1) \in Nat
  <1>1. Pend1 \subseteq Hilos
    BY DEF Pend1
  <1> QED BY <1>1, HilosFinitos, FS_Subset, FS_CardinalityType

\* The threads that have pushed and not posted, when one more or one less does.
LEMMA PendientesIgual ==
    ASSUME SigueIgual
    PROVE  Pend1' = Pend1
  BY DEF SigueIgual, Pend1

LEMMA PendientesMas ==
    ASSUME NEW h \in Hilos, \A g \in Hilos \ {h} : tareas'[g] = tareas[g],
           ~ Pend(tareas[h]), Pend(tareas'[h])
    PROVE  Cardinality(Pend1') = Cardinality(Pend1) + 1
  <1>1. Pend1' = Pend1 \cup {h} /\ h \notin Pend1
    BY DEF Pend1
  <1> QED BY <1>1, PendientesFinitos, FS_AddElement

LEMMA PendientesMenos ==
    ASSUME NEW h \in Hilos, \A g \in Hilos \ {h} : tareas'[g] = tareas[g],
           Pend(tareas[h]), ~ Pend(tareas'[h])
    PROVE  Cardinality(Pend1') = Cardinality(Pend1) - 1
  <1>1. Pend1' = Pend1 \ {h} /\ h \in Pend1
    BY DEF Pend1
  <1> QED BY <1>1, PendientesFinitos, FS_RemoveElement

LEMMA FueraToma ==
    ASSUME NEW h \in Hilos, Fuera(h)
    PROVE  /\ Toma(Planif') <=> Toma(Planif)
           /\ \A n \in {"sacarReady", "sacarPriori"} : Saca(Planif', n) => Saca(Planif, n)
  <1>1. "planificacion" \in Hilos
    BY DEF Hilos
  <1>2. h # "planificacion" => Planif' = Planif
    BY <1>1 DEF Fuera, Planif
  <1>3. h = "planificacion" => ~ Toma(Planif) /\ ~ Toma(Planif')
    BY DEF Fuera
  <1> QED BY <1>2, <1>3 DEF Toma, Saca

LEMMA CuentaPaso ==
    ASSUME Tipos, Tipos', Cuenta, Busca, SoloVRR, Efecto, algoritmo' = algoritmo
    PROVE  Cuenta' /\ Busca' /\ SoloVRR'
  <1>0. /\ colas.ready \in Seq(Pcbs) /\ colas.priori \in Seq(Pcbs)
        /\ colas'.ready \in Seq(Pcbs) /\ colas'.priori \in Seq(Pcbs)
        /\ sem.ready \in Nat /\ sem'.ready \in Nat
    BY DEF Tipos, TipoColas, Colas, TipoSem
  <1> DEFINE s0 == sem.ready
             s1 == sem'.ready
             c0 == Cardinality(Pend1)
             c1 == Cardinality(Pend1')
             a0 == Len(colas.ready)
             a1 == Len(colas'.ready)
             b0 == Len(colas.priori)
             b1 == Len(colas'.priori)
             t0 == IF Toma(Planif) THEN 1 ELSE 0
             t1 == IF Toma(Planif') THEN 1 ELSE 0
  <1>1. /\ s0 \in Nat /\ s1 \in Nat /\ c0 \in Nat /\ a0 \in Nat /\ a1 \in Nat
        /\ b0 \in Nat /\ b1 \in Nat /\ t0 \in {0, 1} /\ t1 \in {0, 1}
    BY <1>0, PendientesFinitos, LenProperties
  <1>2. /\ s0 + t0 + c0 = a0 + b0
        /\ s1 + t1 + c1 = a1 + b1 => Cuenta'
    BY DEF Cuenta
  <1>3. /\ t0 = 1 <=> Toma(Planif)
        /\ t1 = 1 <=> Toma(Planif')
        /\ t0 = 0 <=> ~ Toma(Planif)
        /\ t1 = 0 <=> ~ Toma(Planif')
    OBVIOUS
  <1>4. /\ colas.ready = <<>> => a0 = 0
        /\ colas.priori = <<>> => b0 = 0
        /\ Pend1' = Pend1 => c1 = c0
        /\ colas'.ready = colas.ready => a1 = a0
        /\ colas'.priori = colas.priori => b1 = b0
        /\ s1 = sem'.ready /\ s0 = sem.ready
    OBVIOUS
  <1>5. ASSUME NEW h \in Hilos, Fuera(h)
        PROVE  /\ ~ Pend(tareas[h]) /\ Pend(tareas'[h]) => c1 = c0 + 1
               /\ Pend(tareas[h]) /\ ~ Pend(tareas'[h]) => c1 = c0 - 1
               /\ t1 = t0
               /\ \A n \in {"sacarReady", "sacarPriori"} : Saca(Planif', n) => Saca(Planif, n)
    <2>1. \A g \in Hilos \ {h} : tareas'[g] = tareas[g]
      BY <1>5 DEF Fuera
    <2>2. ~ Pend(tareas[h]) /\ Pend(tareas'[h]) => c1 = c0 + 1
      BY <2>1, PendientesMas
    <2>3. Pend(tareas[h]) /\ ~ Pend(tareas'[h]) => c1 = c0 - 1
      BY <2>1, PendientesMenos
    <2> QED BY <1>5, <2>2, <2>3, FueraToma
  <1>6. ASSUME NEW q \in Seq(Pcbs), NEW x \in Pcbs
        PROVE  Append(q, x) # <<>> /\ Len(Append(q, x)) = Len(q) + 1
    BY AppendProperties
  <1>7. ASSUME NEW q \in Seq(Pcbs), q # <<>>
        PROVE  Len(Tail(q)) = Len(q) - 1
    BY <1>7, HeadTailProperties
  <1>8. /\ \A x \in Pcbs : colas'.ready = Append(colas.ready, x) =>
                             a1 = a0 + 1 /\ colas'.ready # <<>>
        /\ \A x \in Pcbs : colas'.priori = Append(colas.priori, x) =>
                             b1 = b0 + 1 /\ colas'.priori # <<>>
        /\ colas.ready # <<>> /\ colas'.ready = Tail(colas.ready) => a1 = a0 - 1
        /\ colas.priori # <<>> /\ colas'.priori = Tail(colas.priori) => b1 = b0 - 1
    BY <1>0, <1>6, <1>7
  <1> HIDE DEF s0, s1, c0, c1, a0, a1, b0, b1, t0, t1, Planif
  <1>10. CASE Neutro
    <2>1. Pend1' = Pend1 /\ colas'.ready = colas.ready /\ colas'.priori = colas.priori
      BY <1>10, PendientesIgual DEF Neutro, Listos
    <2>2. s1 = s0 /\ t1 = t0
      BY <1>1, <1>3, <1>4, <1>10 DEF Neutro
    <2>3. Cuenta'
      BY <1>2, <1>4, <2>1, <2>2
    <2> QED BY <1>10, <2>1, <2>3 DEF Neutro, Busca, SoloVRR
  <1>20. CASE Carga
    <2>1. PICK h \in Hilos :
            /\ Fuera(h) /\ ~ Pend(tareas[h]) /\ Pend(tareas'[h]) /\ sem'.ready = sem.ready
            /\ \/ colas'.priori = colas.priori /\ \E x \in Pcbs : colas'.ready = Append(colas.ready, x)
               \/ /\ colas'.ready = colas.ready /\ \E x \in Pcbs : colas'.priori = Append(colas.priori, x)
                  /\ algoritmo = "VRR"
      BY <1>20 DEF Carga
    <2>2. /\ c1 = c0 + 1 /\ t1 = t0
          /\ \A n \in {"sacarReady", "sacarPriori"} : Saca(Planif', n) => Saca(Planif, n)
      BY <1>5, <2>1
    <2>3. /\ (a1 = a0 + 1 /\ b1 = b0) \/ (b1 = b0 + 1 /\ a1 = a0)
          /\ colas.ready # <<>> => colas'.ready # <<>>
          /\ colas.priori # <<>> => colas'.priori # <<>>
      BY <1>4, <1>8, <2>1
    <2>4. s1 = s0
      BY <1>4, <2>1
    <2>5. s1 + t1 + c1 = a1 + b1
      BY <1>1, <1>2, <2>2, <2>3, <2>4
    <2>6. Busca'
      BY <2>2, <2>3 DEF Busca
    <2>7. SoloVRR'
      BY <2>1 DEF SoloVRR
    <2> QED BY <1>2, <2>5, <2>6, <2>7
  <1>30. CASE Avisa
    <2>1. PICK h \in Hilos :
            /\ Fuera(h) /\ Pend(tareas[h]) /\ ~ Pend(tareas'[h])
            /\ sem'.ready = sem.ready + 1 /\ Listos' = Listos
      BY <1>30 DEF Avisa
    <2>2. /\ c1 = c0 - 1 /\ t1 = t0
          /\ \A n \in {"sacarReady", "sacarPriori"} : Saca(Planif', n) => Saca(Planif, n)
      BY <1>5, <2>1
    <2>3. colas'.ready = colas.ready /\ colas'.priori = colas.priori
      BY <2>1 DEF Listos
    <2>4. s1 = s0 + 1 /\ a1 = a0 /\ b1 = b0
      BY <1>4, <2>1, <2>3
    <2>5. s1 + t1 + c1 = a1 + b1
      BY <1>1, <1>2, <2>2, <2>4
    <2> QED BY <1>2, <2>2, <2>3, <2>5 DEF Busca, SoloVRR
  <1>40. CASE Espera
    <2>1. Pend1' = Pend1
      BY <1>40, PendientesIgual DEF Espera
    <2>2. Toma(Planif') /\ \A n \in {"sacarReady", "sacarPriori"} : ~ Saca(Planif', n)
      BY <1>40 DEF Espera, Toma, Saca
    <2>3. /\ colas'.ready = colas.ready /\ colas'.priori = colas.priori
          /\ ~ Toma(Planif) /\ sem'.ready = sem.ready - 1
      BY <1>40 DEF Espera, Listos
    <2>4. s1 = s0 - 1 /\ t0 = 0 /\ t1 = 1
      BY <1>3, <1>4, <2>2, <2>3
    <2>5. s1 + t1 + c1 = a1 + b1
      BY <1>1, <1>2, <1>4, <2>1, <2>3, <2>4
    <2> QED BY <1>2, <2>2, <2>3, <2>5 DEF Busca, SoloVRR
  <1>50. CASE Mira
    <2>1. Pend1' = Pend1
      BY <1>50, PendientesIgual DEF Mira
    <2>2. /\ colas'.ready = colas.ready /\ colas'.priori = colas.priori
          /\ Toma(Planif) /\ Toma(Planif') /\ sem'.ready = sem.ready
          /\ Saca(Planif', "sacarReady") => algoritmo # "VRR" \/ colas.priori = <<>>
          /\ Saca(Planif', "sacarPriori") => colas.priori # <<>>
      BY <1>50 DEF Mira, Listos
    <2>3. t0 = 1 /\ t1 = 1 /\ s1 = s0
      BY <1>3, <1>4, <2>2
    <2>4. colas.priori = <<>> => colas.ready # <<>>
      BY <1>1, <1>2, <1>4, <2>3
    <2>5. s1 + t1 + c1 = a1 + b1
      BY <1>1, <1>2, <1>4, <2>1, <2>2, <2>3
    <2>6. Busca' /\ SoloVRR'
      BY <2>2, <2>4 DEF Busca, SoloVRR
    <2> QED BY <1>2, <2>5, <2>6
  <1>60. CASE Quita
    <2>1. Pend1' = Pend1
      BY <1>60, PendientesIgual DEF Quita
    <2>2. (a1 = a0 - 1 /\ b1 = b0) \/ (b1 = b0 - 1 /\ a1 = a0)
      BY <1>4, <1>8, <1>60 DEF Quita
    <2>3. t0 = 1 /\ t1 = 0 /\ s1 = s0
      BY <1>3, <1>4, <1>60 DEF Quita
    <2>4. s1 + t1 + c1 = a1 + b1
      BY <1>1, <1>2, <1>4, <2>1, <2>2, <2>3
    <2>5. \A n \in {"sacarReady", "sacarPriori"} : ~ Saca(Planif', n)
      BY <1>60 DEF Quita, Toma, Saca
    <2>6. SoloVRR'
      BY <1>0, <1>60 DEF SoloVRR, Quita
    <2> QED BY <1>2, <2>4, <2>5, <2>6 DEF Busca
  <1> QED BY <1>10, <1>20, <1>30, <1>40, <1>50, <1>60 DEF Efecto

-----------------------------------------------------------------------------
(* The operations of any thread.                                           *)

LEMMA TiposIguales ==
    ASSUME Tipos
    PROVE  /\ UNCHANGED config => TipoConfig'
           /\ UNCHANGED colas => TipoColas'
           /\ UNCHANGED sem => TipoSem'
           /\ UNCHANGED <<marcas, PID>> => TipoConsola'
           /\ UNCHANGED recursos => TipoRecursos'
           /\ UNCHANGED red => TipoRed'
           /\ UNCHANGED cpu => TipoCpu'
  BY DEF Tipos, TipoConfig, TipoColas, TipoSem, TipoConsola, TipoRecursos, TipoRed, TipoCpu,
         config, recursos

LEMMA Turnos ==
    ASSUME Hebras, NEW h \in Hilos, NEW n, En(h, n)
    PROVE  /\ tareas[h] # <<>> /\ Head(tareas[h]) \in Tarea /\ Head(tareas[h]).op = n
           /\ Arg(h) \in Pcbs \cup {Nulo} /\ ArgR(h) \in Refs
           /\ n \in ConSuPcb \cup {"pushExit"} => Arg(h) \in Pcbs
           /\ n = "marcar" => ArgR(h) \in Motivos
           /\ n = "recorrer" => ArgR(h) \in Faltan
           /\ n = "encolar" => ArgR(h) \in Nombres
           /\ n = "pushPriori" => algoritmo = "VRR"
           /\ h = "quantum" => n \in {"dormir", "marcar", "interrumpir"}
  <1>1. tareas[h] # <<>> /\ Head(tareas[h]).op = n
    BY DEF En
  <1>2. Head(tareas[h]) \in Tarea /\ Head(tareas[h]) = tareas[h][1] /\ 1 \in DOMAIN tareas[h]
    BY <1>1, Cabecera DEF Hebras
  <1>3. Arg(h) \in Pcbs \cup {Nulo} /\ ArgR(h) \in Refs
    BY <1>2 DEF Tarea, Oper, Campos, Arg, ArgR
  <1>4. n = "pushExit" => Arg(h) \in Pcbs
    <2>1. Cabeza(tareas[h])
      BY DEF Hebras
    <2> QED BY <1>1, <1>2, <1>3, <2>1 DEF Cabeza, Arg
  <1>5. /\ n \in ConSuPcb => Arg(h) \in Pcbs
        /\ n = "marcar" => ArgR(h) \in Motivos
        /\ n = "recorrer" => ArgR(h) \in Faltan
        /\ n = "encolar" => ArgR(h) \in Nombres
    BY <1>1, <1>2 DEF Tarea, Arg, ArgR
  <1>6. n = "pushPriori" => algoritmo = "VRR"
    <2>1. Bien(tareas[h], algoritmo)
      BY DEF Hebras
    <2> QED BY <1>1, <1>2, <2>1 DEF Bien
  <1>7. h = "quantum" => n \in {"dormir", "marcar", "interrumpir"}
    <2>1. Dormida(tareas["quantum"])
      BY DEF Hebras
    <2> QED BY <1>1, <1>2, <2>1 DEF Dormida
  <1> QED BY <1>1, <1>2, <1>3, <1>4, <1>5, <1>6, <1>7

\* An operation that only goes on, or calls a function, and leaves the ready queues
\* and their semaphore alone.
LlanaOp == {"liberarCPU", "enviarExec", "marcar", "interrumpir", "postGM", "recorrer", "pushExit",
            "pushExec", "esperarConfirmacion", "crearQuantum", "unirQuantum", "dormir",
            "postConfirmacion", "confirmar", "elegirMotivo", "limpiarError", "cancelarQuantum",
            "modificarQuantum", "desalojarExec", "wait", "encolar", "signal", "ocuparIO",
            "listarNew", "esperarGM", "sacarNewReady", "sacarNewExit"}

LEMMA Hace ==
    ASSUME Hebras, UNCHANGED config, NEW h \in Hilos, NEW n, En(h, n),
           n \in LlanaOp \/ (n = "devolverRecursos" /\ Arg(h) # Nulo),
           NEW mas, Rutina(mas, algoritmo), Sigue(h, mas), h = "quantum" => mas = <<>>,
           colas'.ready = colas.ready, colas'.priori = colas.priori, sem'.ready = sem.ready
    PROVE  Hebras' /\ Efecto
  <1>1. tareas[h] # <<>> /\ Head(tareas[h]).op = n
    BY Turnos
  <1>2. Neutra(Head(tareas[h]))
    BY <1>1 DEF Neutra, Abierta, LlanaOp, Arg
  <1>3. Listos' = Listos /\ algoritmo' = algoritmo
    BY DEF Listos, config
  <1> QED BY <1>1, <1>2, <1>3, Llano

LEMMA NadaCambia ==
    ASSUME Hebras, UNCHANGED config, UNCHANGED tareas, UNCHANGED colas, sem'.ready = sem.ready
    PROVE  Hebras' /\ Efecto
  <1>1. Hebras'
    BY DEF Hebras, TipoTareas, Dormida, Cabeza, config
  <1>2. Neutro
    BY DEF Neutro, SigueIgual, Planif, Listos
  <1> QED BY <1>1, <1>2 DEF Efecto

Bueno == Tipos' /\ Hebras' /\ Efecto

\* colas with another value in one place.
LEMMA ColasTipo ==
    ASSUME TipoColas
    PROVE  /\ colas.ready \in Seq(Pcbs) /\ colas.priori \in Seq(Pcbs)
           /\ colas.exec \in Seq(Procesos) /\ colas.exit \in Seq(Procesos)
           /\ colas.new \subseteq Pcbs /\ colas.io \subseteq Pcbs
           /\ \A q \in Seq(Pcbs) : /\ [colas EXCEPT !.ready = q] \in Colas
                                  /\ [colas EXCEPT !.ready = q].ready = q
                                  /\ [colas EXCEPT !.ready = q].priori = colas.priori
                                  /\ [colas EXCEPT !.priori = q] \in Colas
                                  /\ [colas EXCEPT !.priori = q].priori = q
                                  /\ [colas EXCEPT !.priori = q].ready = colas.ready
           /\ \A q \in Seq(Procesos) : /\ [colas EXCEPT !.exec = q] \in Colas
                                      /\ [colas EXCEPT !.exec = q].ready = colas.ready
                                      /\ [colas EXCEPT !.exec = q].priori = colas.priori
                                      /\ [colas EXCEPT !.exit = q] \in Colas
                                      /\ [colas EXCEPT !.exit = q].ready = colas.ready
                                      /\ [colas EXCEPT !.exit = q].priori = colas.priori
           /\ \A q \in SUBSET Pcbs : /\ [colas EXCEPT !.new = q] \in Colas
                                     /\ [colas EXCEPT !.new = q].ready = colas.ready
                                     /\ [colas EXCEPT !.new = q].priori = colas.priori
                                     /\ [colas EXCEPT !.io = q] \in Colas
                                     /\ [colas EXCEPT !.io = q].ready = colas.ready
                                     /\ [colas EXCEPT !.io = q].priori = colas.priori
  BY DEF TipoColas, Colas

LEMMA PushReadyPaso ==
    ASSUME Tipos, Hebras, NEW h \in Hilos, PushReady(h)
    PROVE  Bueno
  <1>1. /\ tareas[h] # <<>> /\ Head(tareas[h]).op = "pushReady" /\ Arg(h) \in Pcbs
        /\ h # "quantum"
    BY Turnos DEF PushReady, ConSuPcb
  <1>2. Tipos'
    <2>1. TipoColas'
      <3>1. Append(colas.ready, Arg(h)) \in Seq(Pcbs)
        BY <1>1, ColasTipo, AppendProperties DEF Tipos
      <3>2. colas' = [colas EXCEPT !.ready = Append(colas.ready, Arg(h))]
        BY DEF PushReady
      <3> QED BY <3>1, <3>2, ColasTipo DEF Tipos, TipoColas
    <2> QED BY <2>1, TiposIguales DEF PushReady, Tipos, consola
  <1>3. Abierta(Head(tareas[h]))
    BY <1>1 DEF Abierta
  <1>4. algoritmo' = algoritmo /\ sem' = sem /\ Sigue(h, <<>>)
    BY DEF PushReady, config
  <1>5. /\ Hebras' /\ tareas'[h] # <<>> /\ Pega(Head(tareas[h]), Head(tareas'[h]), algoritmo)
        /\ \A g \in Hilos \ {h} : tareas'[g] = tareas[g]
    BY <1>1, <1>3, <1>4, AvanzaAbierta
  <1>6. ~ Pend(tareas[h]) /\ Pend(tareas'[h]) /\ ~ Toma(tareas[h]) /\ ~ Toma(tareas'[h])
    BY <1>1, <1>5 DEF Pend, Toma, Pega
  <1>7. Fuera(h)
    BY <1>5, <1>6 DEF Fuera, Planif
  <1>8. colas'.priori = colas.priori /\ \E x \in Pcbs : colas'.ready = Append(colas.ready, x)
    BY <1>1 DEF PushReady, Tipos, TipoColas, Colas
  <1>9. Efecto
    BY <1>4, <1>6, <1>7, <1>8 DEF Carga, Efecto
  <1> QED BY <1>2, <1>5, <1>9 DEF Bueno

LEMMA PushPrioriPaso ==
    ASSUME Tipos, Hebras, NEW h \in Hilos, PushPriori(h)
    PROVE  Bueno
  <1>1. /\ tareas[h] # <<>> /\ Head(tareas[h]).op = "pushPriori" /\ Arg(h) \in Pcbs
        /\ h # "quantum" /\ algoritmo = "VRR"
    BY Turnos DEF PushPriori, ConSuPcb
  <1>2. Tipos'
    <2>1. TipoColas'
      <3>1. Append(colas.priori, Arg(h)) \in Seq(Pcbs)
        BY <1>1, ColasTipo, AppendProperties DEF Tipos
      <3>2. colas' = [colas EXCEPT !.priori = Append(colas.priori, Arg(h))]
        BY DEF PushPriori
      <3> QED BY <3>1, <3>2, ColasTipo DEF Tipos, TipoColas
    <2> QED BY <2>1, TiposIguales DEF PushPriori, Tipos, consola
  <1>3. Abierta(Head(tareas[h]))
    BY <1>1 DEF Abierta
  <1>4. algoritmo' = algoritmo /\ sem' = sem /\ Sigue(h, <<>>)
    BY DEF PushPriori, config
  <1>5. /\ Hebras' /\ tareas'[h] # <<>> /\ Pega(Head(tareas[h]), Head(tareas'[h]), algoritmo)
        /\ \A g \in Hilos \ {h} : tareas'[g] = tareas[g]
    BY <1>1, <1>3, <1>4, AvanzaAbierta
  <1>6. ~ Pend(tareas[h]) /\ Pend(tareas'[h]) /\ ~ Toma(tareas[h]) /\ ~ Toma(tareas'[h])
    BY <1>1, <1>5 DEF Pend, Toma, Pega
  <1>7. Fuera(h)
    BY <1>5, <1>6 DEF Fuera, Planif
  <1>8. colas'.ready = colas.ready /\ \E x \in Pcbs : colas'.priori = Append(colas.priori, x)
    BY <1>1 DEF PushPriori, Tipos, TipoColas, Colas
  <1>9. Efecto
    BY <1>1, <1>4, <1>6, <1>7, <1>8 DEF Carga, Efecto
  <1> QED BY <1>2, <1>5, <1>9 DEF Bueno

LEMMA PostReadyPaso ==
    ASSUME Tipos, Hebras, NEW h \in Hilos, PostReady(h)
    PROVE  Bueno
  <1>1. tareas[h] # <<>> /\ Head(tareas[h]).op = "postReady" /\ h # "quantum"
    BY Turnos DEF PostReady
  <1>2. Tipos'
    <2>1. TipoSem'
      BY DEF PostReady, Tipos, TipoSem
    <2> QED BY <2>1, TiposIguales DEF PostReady, Tipos, consola
  <1>3. ~ Abierta(Head(tareas[h]))
    BY <1>1 DEF Abierta
  <1>4. algoritmo' = algoritmo /\ colas' = colas /\ Sigue(h, <<>>)
    BY DEF PostReady, config
  <1>5. /\ Hebras' /\ Rutina(tareas'[h], algoritmo)
        /\ \A g \in Hilos \ {h} : tareas'[g] = tareas[g]
    BY <1>1, <1>3, <1>4, RutinaVacia, Avanza
  <1>6. Pend(tareas[h]) /\ ~ Pend(tareas'[h]) /\ ~ Toma(tareas[h]) /\ ~ Toma(tareas'[h])
    BY <1>1, <1>5, RutinaQuieta DEF Pend, Toma
  <1>7. Fuera(h)
    BY <1>5, <1>6 DEF Fuera, Planif
  <1>8. sem'.ready = sem.ready + 1
    BY DEF PostReady, Tipos, TipoSem
  <1>9. Efecto
    BY <1>4, <1>6, <1>7, <1>8 DEF Avisa, Efecto, Listos
  <1> QED BY <1>2, <1>5, <1>9 DEF Bueno

LEMMA RedTipo ==
    ASSUME TipoRed
    PROVE  /\ red.aCpu \in Seq(AlCpu) /\ red.aKernel \in Seq(AlKernel) /\ red.interr \in Nat
           /\ red.aMemoria \in Seq(Pcbs) /\ red.deMemoria \in Seq(DeMemoria)
           /\ \A q \in Seq(AlCpu) : [red EXCEPT !.aCpu = q] \in Red
           /\ \A q \in Seq(AlKernel) : [red EXCEPT !.aKernel = q] \in Red
           /\ \A q \in Seq(AlCpu), k \in Seq(AlKernel) :
                 [red EXCEPT !.aCpu = q, !.aKernel = k] \in Red
           /\ \A q \in Seq(Pcbs) : [red EXCEPT !.aMemoria = q] \in Red
           /\ \A q \in Seq(DeMemoria) : [red EXCEPT !.deMemoria = q] \in Red
           /\ \A q \in Seq(Pcbs), k \in Seq(DeMemoria) :
                 [red EXCEPT !.aMemoria = q, !.deMemoria = k] \in Red
           /\ \A n \in Nat : [red EXCEPT !.interr = n] \in Red
  BY DEF TipoRed, Red

LEMMA PaqueteTipo ==
    ASSUME NEW o \in Paquetes, NEW pcb \in Pcbs \cup {Nulo}
    PROVE  Op(o, pcb) \in Paquete /\ Op(o, pcb).op = o /\ Op(o, pcb).pcb = pcb
  BY DEF Op, Paquete, Campos, Refs

LEMMA ExecTipo ==
    ASSUME NEW pcb \in Pcbs
    PROVE  Op("EXEC_PROCESO", pcb) \in AlCpu
  <1>1. "EXEC_PROCESO" \in Paquetes
    BY DEF Paquetes
  <1> QED BY <1>1, PaqueteTipo DEF AlCpu

LEMMA LiberacionesTipo ==
    ASSUME TipoRecursos, NEW p \in Procesos
    PROVE  R!Liberaciones(rec[p]) \in Faltan
  <1>1. PICK S \in SUBSET Nombres : rec[p] \in [S -> Int]
    BY DEF TipoRecursos, Listas
  <1>2. \A r \in Nombres : R!Cuenta(rec[p], r) \in Int
    BY <1>1 DEF R!Cuenta
  <1> QED BY <1>2 DEF R!Liberaciones, Faltan

LEMMA Despierto ==
    ASSUME TipoRecursos, NEW r \in Nombres, R!Despierta(r)
    PROVE  /\ colaRec[r] \in Seq(Pcbs) /\ colaRec[r] # <<>> /\ Head(colaRec[r]) \in Pcbs
           /\ [colaRec EXCEPT ![r] = Tail(@)] \in [Nombres -> Seq(Pcbs)]
  <1>1. colaRec[r] \in Seq(Pcbs) /\ colaRec \in [Nombres -> Seq(Pcbs)]
    BY DEF TipoRecursos
  <1>2. [i \in DOMAIN colaRec[r] |-> colaRec[r][i].pid] # <<>>
    BY DEF R!Despierta
  <1>3. colaRec[r] # <<>>
    BY <1>2
  <1>4. Head(colaRec[r]) \in Pcbs /\ Tail(colaRec[r]) \in Seq(Pcbs)
    BY <1>1, <1>3, HeadTailProperties
  <1> QED BY <1>1, <1>3, <1>4

\* signal_por_fin and atender_signal, in any thread.
LEMMA SumarPaso ==
    ASSUME Tipos, Hebras, NEW h \in Hilos, NEW r \in Nombres, NEW resto, Rutina(resto, algoritmo),
           Sumar(h, r, resto)
    PROVE  /\ instancias' \in [Nombres -> Int] /\ colaRec' \in [Nombres -> Seq(Pcbs)]
           /\ \E mas : Rutina(mas, algoritmo) /\ Sigue(h, mas)
  <1>1. /\ instancias \in [Nombres -> Int] /\ colaRec \in [Nombres -> Seq(Pcbs)] /\ TipoRecursos
    BY DEF Tipos, TipoRecursos
  <1>2. instancias' \in [Nombres -> Int]
    BY <1>1 DEF Sumar
  <1>3. CASE R!Despierta(r)
    <2>1. Head(colaRec[r]) \in Pcbs /\ [colaRec EXCEPT ![r] = Tail(@)] \in [Nombres -> Seq(Pcbs)]
      BY <1>1, <1>3, Despierto
    <2>2. colaRec' \in [Nombres -> Seq(Pcbs)] /\ Sigue(h, Desbloquear(Head(colaRec[r])) \o resto)
      BY <1>3, <2>1 DEF Sumar
    <2>3. Rutina(Desbloquear(Head(colaRec[r])) \o resto, algoritmo)
      BY <2>1, DesbloquearRutina, RutinaConcat
    <2> QED BY <1>2, <2>2, <2>3
  <1>4. CASE ~ R!Despierta(r)
    <2>1. colaRec' = colaRec /\ Sigue(h, resto)
      BY <1>4 DEF Sumar
    <2> QED BY <1>1, <1>2, <2>1
  <1> QED BY <1>3, <1>4

LEMMA ComunPaso ==
    ASSUME Tipos, Hebras, NEW h \in Hilos, Comun(h)
    PROVE  Bueno
  <1>0. Rutina(<<>>, algoritmo) /\ TipoRed /\ TipoColas /\ TipoRecursos
    BY RutinaVacia DEF Tipos
  <1>1. CASE LiberarCPU(h)
    <2>1. Tipos'
      <3>1. TipoSem'
        BY <1>1 DEF LiberarCPU, Tipos, TipoSem
      <3> QED BY <1>1, <3>1, TiposIguales DEF LiberarCPU, Tipos, consola
    <2>2. sem'.ready = sem.ready
      BY <1>1 DEF LiberarCPU, Tipos, TipoSem
    <2>3. Hebras' /\ Efecto
      BY <1>0, <1>1, <2>2, Hace DEF LiberarCPU, LlanaOp
    <2> QED BY <2>1, <2>3 DEF Bueno
  <1>2. CASE EnviarExec(h)
    <2>1. Tipos'
      <3>1. Arg(h) \in Pcbs
        BY <1>2, Turnos DEF EnviarExec, ConSuPcb
      <3>2. Append(red.aCpu, Op("EXEC_PROCESO", Arg(h))) \in Seq(AlCpu)
        BY <1>0, <3>1, RedTipo, ExecTipo, AppendProperties
      <3>3. TipoRed'
        BY <1>0, <1>2, <3>2, RedTipo DEF EnviarExec, TipoRed
      <3> QED BY <1>2, <3>3, TiposIguales DEF EnviarExec, Tipos, consola
    <2>2. Hebras' /\ Efecto
      BY <1>0, <1>2, Hace DEF EnviarExec, LlanaOp
    <2> QED BY <2>1, <2>2 DEF Bueno
  <1>3. CASE Marcar(h)
    <2>1. Tipos'
      <3>1. ArgR(h) \in Motivos
        BY <1>3, Turnos DEF Marcar
      <3>2. TipoConsola'
        BY <1>3, <3>1 DEF Marcar, Tipos, TipoConsola, consola
      <3> QED BY <1>3, <3>2, TiposIguales DEF Marcar, Tipos, consola
    <2>2. Hebras' /\ Efecto
      BY <1>0, <1>3, Hace DEF Marcar, LlanaOp
    <2> QED BY <2>1, <2>2 DEF Bueno
  <1>4. CASE EnviarInterrupcion(h)
    <2>1. Tipos'
      <3>1. TipoRed'
        <4>1. red' = [red EXCEPT !.interr = red.interr + 1]
          BY <1>4 DEF EnviarInterrupcion
        <4>2. red.interr + 1 \in Nat
          <5>1. red.interr \in Nat
            BY <1>0, RedTipo
          <5> QED BY ONLY <5>1
        <4> QED BY <1>0, <4>1, <4>2, RedTipo DEF TipoRed
      <3> QED BY <1>4, <3>1, TiposIguales DEF EnviarInterrupcion, Tipos, consola
    <2>2. Hebras' /\ Efecto
      BY <1>0, <1>4, Hace DEF EnviarInterrupcion, LlanaOp
    <2> QED BY <2>1, <2>2 DEF Bueno
  <1>5. CASE PostGM(h)
    <2>1. Tipos'
      <3>1. TipoSem'
        BY <1>5 DEF PostGM, Tipos, TipoSem
      <3> QED BY <1>5, <3>1, TiposIguales DEF PostGM, Tipos, consola
    <2>2. sem'.ready = sem.ready
      BY <1>5 DEF PostGM, Tipos, TipoSem
    <2>3. Hebras' /\ Efecto
      BY <1>0, <1>5, <2>2, Hace DEF PostGM, LlanaOp
    <2> QED BY <2>1, <2>3 DEF Bueno
  <1>6. CASE DevolverRecursos(h)
    <2>1. Tipos'
      BY <1>6, TiposIguales DEF DevolverRecursos, Tipos, consola, Cae
    <2>2. CASE Arg(h) = Nulo
      <3>1. UNCHANGED config /\ UNCHANGED tareas /\ UNCHANGED colas /\ sem'.ready = sem.ready
        BY <1>6, <2>2 DEF DevolverRecursos, Cae
      <3> QED BY <2>1, <3>1, NadaCambia DEF Bueno
    <2>3. CASE Arg(h) # Nulo
      <3>1. Arg(h) \in Pcbs /\ h # "quantum"
        BY <1>6, <2>3, Turnos DEF DevolverRecursos
      <3>2. R!Liberaciones(rec[Arg(h).pid]) \in Faltan
        BY <1>0, <3>1, LiberacionesTipo DEF Pcbs
      <3> DEFINE mas == <<OpRec("recorrer", Arg(h), R!Liberaciones(rec[Arg(h).pid]))>>
      <3>3. Rutina(mas, algoritmo)
        BY <3>1, <3>2, OpRecLlana, RutinaLlana DEF Refs
      <3>4. Sigue(h, mas) /\ En(h, "devolverRecursos") /\ UNCHANGED config /\ sem' = sem /\ colas' = colas
        BY <1>6, <2>3 DEF DevolverRecursos
      <3> HIDE DEF mas
      <3>5. Hebras' /\ Efecto
        BY <2>3, <3>1, <3>3, <3>4, Hace
      <3> QED BY <2>1, <3>5 DEF Bueno
    <2> QED BY <2>2, <2>3
  <1>7. CASE SignalPorFin(h)
    <2>0. Arg(h) \in Pcbs /\ ArgR(h) \in Faltan /\ Head(tareas[h]) \in Tarea /\ h # "quantum"
          /\ Head(tareas[h]).op = "recorrer"
      BY <1>7, Turnos DEF SignalPorFin, ConSuPcb
    <2>1. PICK r \in Nombres :
            /\ ArgR(h)[r] > 0
            /\ Sumar(h, r, <<[Head(tareas[h]) EXCEPT !.r[r] = @ - 1]>>)
      BY <1>7 DEF SignalPorFin
    <2> DEFINE o == [Head(tareas[h]) EXCEPT !.r[r] = @ - 1]
    <2>2. Llana(o)
      <3>1. [ArgR(h) EXCEPT ![r] = @ - 1] \in Faltan
        BY <2>0, <2>1 DEF Faltan
      <3>2. o = OpRec("recorrer", Arg(h), [ArgR(h) EXCEPT ![r] = @ - 1])
        BY <2>0 DEF OpRec, Arg, ArgR, Tarea, Oper, Campos
      <3> QED BY <2>0, <3>1, <3>2, OpRecLlana DEF Refs
    <2>3. Rutina(<<o>>, algoritmo)
      BY <2>2, RutinaLlana
    <2>4. Sumar(h, r, <<o>>)
      BY <2>1
    <2> HIDE DEF o
    <2>5. /\ instancias' \in [Nombres -> Int] /\ colaRec' \in [Nombres -> Seq(Pcbs)]
          /\ \E mas : Rutina(mas, algoritmo) /\ Sigue(h, mas)
      BY <2>3, <2>4, SumarPaso
    <2>6. Tipos'
      <3>1. TipoRecursos'
        BY <1>0, <1>7, <2>5 DEF SignalPorFin, TipoRecursos
      <3> QED BY <1>7, <3>1, TiposIguales DEF SignalPorFin, Tipos, consola
    <2>7. Hebras' /\ Efecto
      <3>1. /\ En(h, "recorrer") /\ UNCHANGED config /\ sem' = sem /\ colas' = colas
            /\ "recorrer" \in LlanaOp
        BY <1>7 DEF SignalPorFin, LlanaOp
      <3> QED BY <2>0, <2>5, <3>1, Hace
    <2> QED BY <2>6, <2>7 DEF Bueno
  <1>8. CASE DestruirLista(h)
    <2>1. Tipos'
      <3>1. R!ListaVacia \in Listas
        BY DEF R!ListaVacia, Listas
      <3>2. TipoRecursos'
        BY <1>0, <1>8, <3>1 DEF DestruirLista, TipoRecursos
      <3> QED BY <1>8, <3>2, TiposIguales DEF DestruirLista, Tipos, consola
    <2>2. Hebras' /\ Efecto
      BY <1>0, <1>8, Hace DEF DestruirLista, LlanaOp
    <2> QED BY <2>1, <2>2 DEF Bueno
  <1>9. CASE PushExit(h)
    <2>1. Arg(h) \in Pcbs
      BY <1>9, Turnos DEF PushExit
    <2>2. Append(colas.exit, Arg(h).pid) \in Seq(Procesos)
      BY <1>0, <2>1, ColasTipo, AppendProperties DEF Pcbs
    <2>3. colas' = [colas EXCEPT !.exit = Append(colas.exit, Arg(h).pid)]
      BY <1>9 DEF PushExit
    <2>4. colas' \in Colas /\ colas'.ready = colas.ready /\ colas'.priori = colas.priori
      BY <1>0, <2>2, <2>3, ColasTipo
    <2>5. Tipos'
      BY <1>9, <2>4, TiposIguales DEF PushExit, Tipos, TipoColas, consola
    <2>6. Hebras' /\ Efecto
      BY <1>0, <1>9, <2>4, Hace DEF PushExit, LlanaOp
    <2> QED BY <2>5, <2>6 DEF Bueno
  <1> QED BY <1>1, <1>2, <1>3, <1>4, <1>5, <1>6, <1>7, <1>8, <1>9,
             PushReadyPaso, PushPrioriPaso, PostReadyPaso DEF Comun

-----------------------------------------------------------------------------
(* The planner and the quantum thread.                                     *)

LEMMA EsperarReadyPaso ==
    ASSUME Tipos, Hebras, EsperarReady
    PROVE  Bueno
  <1> DEFINE h == "planificacion"
  <1>0. h \in Hilos
    BY DEF Hilos
  <1>1. tareas[h] # <<>> /\ Head(tareas[h]).op = "esperarReady" /\ h # "quantum"
    BY <1>0, Turnos DEF EsperarReady
  <1>2. Tipos'
    <2>1. TipoSem'
      BY DEF EsperarReady, Tipos, TipoSem
    <2> QED BY <2>1, TiposIguales DEF EsperarReady, Tipos, consola
  <1>3. Abierta(Head(tareas[h]))
    BY <1>1 DEF Abierta
  <1>4. algoritmo' = algoritmo /\ colas' = colas /\ Sigue(h, <<>>)
    BY DEF EsperarReady, config
  <1>5. /\ Hebras' /\ tareas'[h] # <<>> /\ Pega(Head(tareas[h]), Head(tareas'[h]), algoritmo)
        /\ \A g \in Hilos \ {h} : tareas'[g] = tareas[g]
    BY <1>0, <1>1, <1>3, <1>4, AvanzaAbierta
  <1>6. /\ ~ Pend(tareas[h]) /\ ~ Pend(tareas'[h]) /\ ~ Toma(Planif)
        /\ Saca(Planif', "tomarCPU")
    BY <1>1, <1>5 DEF Pend, Toma, Saca, Pega, Planif
  <1>7. sem'.ready = sem.ready - 1
    BY DEF EsperarReady, Tipos, TipoSem
  <1>8. SigueIgual
    BY <1>5, <1>6 DEF SigueIgual
  <1>9. Efecto
    BY <1>4, <1>6, <1>7, <1>8 DEF Espera, Efecto, Listos
  <1> QED BY <1>2, <1>5, <1>9 DEF Bueno

LEMMA TomarCPUPaso ==
    ASSUME Tipos, Hebras, TomarCPU
    PROVE  Bueno
  <1> DEFINE h == "planificacion"
  <1>0. h \in Hilos
    BY DEF Hilos
  <1>1. tareas[h] # <<>> /\ Head(tareas[h]).op = "tomarCPU" /\ h # "quantum"
    BY <1>0, Turnos DEF TomarCPU
  <1>2. Tipos'
    <2>1. TipoSem'
      BY DEF TomarCPU, Tipos, TipoSem
    <2> QED BY <2>1, TiposIguales DEF TomarCPU, Tipos, consola
  <1>3. Abierta(Head(tareas[h]))
    BY <1>1 DEF Abierta
  <1>4. algoritmo' = algoritmo /\ colas' = colas /\ Sigue(h, <<>>)
    BY DEF TomarCPU, config
  <1>5. /\ Hebras' /\ tareas'[h] # <<>> /\ Pega(Head(tareas[h]), Head(tareas'[h]), algoritmo)
        /\ \A g \in Hilos \ {h} : tareas'[g] = tareas[g]
    BY <1>0, <1>1, <1>3, <1>4, AvanzaAbierta
  <1>6. /\ ~ Pend(tareas[h]) /\ ~ Pend(tareas'[h]) /\ Toma(Planif) /\ Toma(Planif')
        /\ Saca(Planif', "sacarReady") => algoritmo # "VRR"
        /\ ~ Saca(Planif', "sacarPriori")
    BY <1>1, <1>5 DEF Pend, Toma, Saca, Pega, Planif
  <1>7. sem'.ready = sem.ready
    BY DEF TomarCPU, Tipos, TipoSem
  <1>8. SigueIgual
    BY <1>5, <1>6 DEF SigueIgual
  <1>9. Efecto
    BY <1>4, <1>6, <1>7, <1>8 DEF Mira, Efecto, Listos
  <1> QED BY <1>2, <1>5, <1>9 DEF Bueno

LEMMA MirarPrioriPaso ==
    ASSUME Tipos, Hebras, MirarPriori
    PROVE  Bueno
  <1> DEFINE h == "planificacion"
             n == IF colas.priori # <<>> THEN "sacarPriori" ELSE "sacarReady"
             o == Simple(n)
             s == <<o>> \o Tail(tareas[h])
  <1>0. h \in Hilos
    BY DEF Hilos
  <1>1. /\ tareas[h] # <<>> /\ Head(tareas[h]).op = "mirarPriori" /\ h # "quantum"
        /\ tareas[h] \in Seq(Tarea) /\ Bien(tareas[h], algoritmo)
    BY <1>0, Turnos DEF MirarPriori, Hebras, TipoTareas
  <1>2. Tipos'
    BY TiposIguales DEF MirarPriori, Tipos, consola
  <1>3. Rutina(Tail(tareas[h]), algoritmo)
    BY <1>1, RestoRutina DEF Abierta
  <1>4. n \in Operaciones
    BY DEF Operaciones
  <1>5. o \in Oper /\ o.op = n
    BY <1>4, SimpleTipo
  <1> DEFINE t == Tail(tareas[h])
  <1> HIDE DEF t
  <1>6. o \in Tarea /\ ~ Abierta(o) /\ o.op # "pushPriori" /\ o.op # "pushExit"
    BY <1>5 DEF Tarea, ConSuPcb, Abierta
  <1>7. t \in Seq(Tarea) /\ Bien(t, algoritmo) /\ (t # <<>> => ~ Suelta(t[1]))
    BY <1>3 DEF t, Rutina
  <1>8. s = <<o>> \o t
    BY DEF t
  <1> HIDE DEF o, s, n
  <1>9. /\ s \in Seq(Tarea) /\ s # <<>> /\ Head(s) = o /\ s[1] = o
        /\ Len(s) = Len(t) + 1 /\ Len(t) \in Nat
        /\ DOMAIN s = 1 .. Len(t) + 1 /\ DOMAIN t = 1 .. Len(t)
        /\ \A i \in 1 .. Len(t) : s[i + 1] = t[i]
    BY <1>6, <1>7, <1>8
  <1>10. Bien(s, algoritmo)
    <2> SUFFICES ASSUME NEW i \in DOMAIN s
                 PROVE  /\ Abierta(s[i]) => i + 1 \in DOMAIN s /\ Pega(s[i], s[i + 1], algoritmo)
                        /\ i > 1 /\ Suelta(s[i]) => Pega(s[i - 1], s[i], algoritmo)
                        /\ s[i].op = "pushPriori" => algoritmo = "VRR"
      BY DEF Bien
    <2>1. CASE i = 1
      BY <1>6, <1>9, <2>1
    <2>2. CASE i > 1
      <3>1. PICK k \in DOMAIN t : i = k + 1 /\ k \in Nat /\ k >= 1
        <4>1. i - 1 \in DOMAIN t /\ i = (i - 1) + 1 /\ i - 1 \in Nat /\ i - 1 >= 1
          BY <1>9, <2>2
        <4> QED BY <4>1
      <3>2. s[i] = t[k]
        BY <1>9, <3>1
      <3>3. k + 1 \in DOMAIN t => s[i + 1] = t[k + 1] /\ i + 1 \in DOMAIN s
        BY <1>9, <3>1
      <3>4. k > 1 => s[i - 1] = t[k - 1]
        <4>1. k > 1 => k - 1 \in 1 .. Len(t) /\ (k - 1) + 1 = i - 1
          BY <1>9, <3>1
        <4> QED BY <1>9, <4>1
      <3>5. /\ Abierta(t[k]) => k + 1 \in DOMAIN t /\ Pega(t[k], t[k + 1], algoritmo)
            /\ k > 1 /\ Suelta(t[k]) => Pega(t[k - 1], t[k], algoritmo)
            /\ t[k].op = "pushPriori" => algoritmo = "VRR"
        BY <1>7, <3>1 DEF Bien
      <3>6. k = 1 => ~ Suelta(t[k])
        BY <1>7, <3>1
      <3> QED BY <3>1, <3>2, <3>3, <3>4, <3>5, <3>6
    <2> QED BY <1>9, <2>1, <2>2
  <1>11. Cabeza(s)
    BY <1>6, <1>9 DEF Cabeza
  <1>12. /\ tareas' = [tareas EXCEPT ![h] = s] /\ algoritmo' = algoritmo
         /\ colas' = colas /\ sem' = sem
    BY DEF MirarPriori, Sigue, s, o, n, config
  <1>13. Hebras' /\ tareas'[h] = s /\ \A g \in Hilos \ {h} : tareas'[g] = tareas[g]
    BY <1>0, <1>1, <1>9, <1>10, <1>11, <1>12, Cambia
  <1>14. /\ ~ Pend(tareas[h]) /\ ~ Pend(tareas'[h]) /\ Toma(Planif) /\ Toma(Planif')
         /\ Saca(Planif', "sacarReady") => colas.priori = <<>>
         /\ Saca(Planif', "sacarPriori") => colas.priori # <<>>
    BY <1>1, <1>5, <1>9, <1>13 DEF Pend, Toma, Saca, Planif, n
  <1>15. SigueIgual
    BY <1>13, <1>14 DEF SigueIgual
  <1>16. Efecto
    BY <1>12, <1>14, <1>15 DEF Mira, Efecto, Listos
  <1> QED BY <1>2, <1>13, <1>16 DEF Bueno

\* The planner takes a process out and does with it what the algorithm says.
LEMMA Despacha ==
    ASSUME Tipos, Hebras, UNCHANGED config, NEW n \in {"sacarReady", "sacarPriori"},
           En("planificacion", n), NEW pcb \in Pcbs, Sigue("planificacion", Ejecutar(pcb))
    PROVE  Hebras' /\ SigueIgual /\ Toma(Planif) /\ ~ Toma(Planif')
  <1> DEFINE h == "planificacion"
  <1>0. h \in Hilos
    BY DEF Hilos
  <1>1. tareas[h] # <<>> /\ Head(tareas[h]).op = n /\ h # "quantum"
    BY <1>0, Turnos
  <1>2. ~ Abierta(Head(tareas[h]))
    BY <1>1 DEF Abierta
  <1>3. Rutina(Ejecutar(pcb), algoritmo) /\ algoritmo' = algoritmo
    BY EjecutarRutina DEF Tipos, config
  <1>4. /\ Hebras' /\ Rutina(tareas'[h], algoritmo)
        /\ \A g \in Hilos \ {h} : tareas'[g] = tareas[g]
    BY <1>0, <1>1, <1>2, <1>3, Avanza
  <1>5. ~ Pend(tareas[h]) /\ ~ Pend(tareas'[h]) /\ Toma(Planif) /\ ~ Toma(tareas'[h])
    BY <1>1, <1>4, RutinaQuieta DEF Pend, Toma, Planif
  <1> QED BY <1>4, <1>5 DEF SigueIgual, Planif

LEMMA SacarPaso ==
    ASSUME Tipos, Hebras, SacarReady \/ SacarPriori
    PROVE  Bueno
  <1>0. TipoColas
    BY DEF Tipos
  <1>1. CASE SacarReady
    <2>1. CASE colas.ready = <<>>
      <3>1. UNCHANGED config /\ UNCHANGED tareas /\ UNCHANGED colas /\ sem'.ready = sem.ready
        BY <1>1, <2>1 DEF SacarReady, Cae
      <3>2. Tipos'
        BY <1>1, <3>1, TiposIguales DEF SacarReady, Tipos, consola
      <3> QED BY <3>1, <3>2, NadaCambia DEF Bueno
    <2>2. CASE colas.ready # <<>>
      <3>1. Head(colas.ready) \in Pcbs /\ Tail(colas.ready) \in Seq(Pcbs)
        BY <1>0, <2>2, ColasTipo, HeadTailProperties
      <3>2. colas' = [colas EXCEPT !.ready = Tail(colas.ready)]
        BY <1>1, <2>2 DEF SacarReady
      <3>3. /\ colas' \in Colas /\ colas'.ready = Tail(colas.ready)
            /\ colas'.priori = colas.priori
        BY <1>0, <3>1, <3>2, ColasTipo
      <3>4. Tipos'
        BY <1>1, <3>3, TiposIguales DEF SacarReady, Tipos, TipoColas, consola
      <3>5. Hebras' /\ SigueIgual /\ Toma(Planif) /\ ~ Toma(Planif')
        BY <1>1, <2>2, <3>1, Despacha DEF SacarReady
      <3>6. sem'.ready = sem.ready
        BY <1>1 DEF SacarReady
      <3>7. Efecto
        BY <2>2, <3>3, <3>5, <3>6 DEF Efecto, Quita
      <3> QED BY <3>4, <3>5, <3>7 DEF Bueno
    <2> QED BY <2>1, <2>2
  <1>2. CASE SacarPriori
    <2>1. CASE colas.priori = <<>>
      <3>1. UNCHANGED config /\ UNCHANGED tareas /\ UNCHANGED colas /\ sem'.ready = sem.ready
        BY <1>2, <2>1 DEF SacarPriori, Cae
      <3>2. Tipos'
        BY <1>2, <3>1, TiposIguales DEF SacarPriori, Tipos, consola
      <3> QED BY <3>1, <3>2, NadaCambia DEF Bueno
    <2>2. CASE colas.priori # <<>>
      <3>1. Head(colas.priori) \in Pcbs /\ Tail(colas.priori) \in Seq(Pcbs)
        BY <1>0, <2>2, ColasTipo, HeadTailProperties
      <3>2. colas' = [colas EXCEPT !.priori = Tail(colas.priori)]
        BY <1>2, <2>2 DEF SacarPriori
      <3>3. /\ colas' \in Colas /\ colas'.priori = Tail(colas.priori)
            /\ colas'.ready = colas.ready
        BY <1>0, <3>1, <3>2, ColasTipo
      <3>4. Tipos'
        BY <1>2, <3>3, TiposIguales DEF SacarPriori, Tipos, TipoColas, consola
      <3>5. Hebras' /\ SigueIgual /\ Toma(Planif) /\ ~ Toma(Planif')
        BY <1>2, <2>2, <3>1, Despacha DEF SacarPriori
      <3>6. sem'.ready = sem.ready
        BY <1>2 DEF SacarPriori
      <3>7. Efecto
        BY <2>2, <3>3, <3>5, <3>6 DEF Efecto, Quita
      <3> QED BY <3>4, <3>5, <3>7 DEF Bueno
    <2> QED BY <2>1, <2>2
  <1> QED BY <1>1, <1>2

LEMMA PopExecPaso ==
    ASSUME Tipos, Hebras, PopExec
    PROVE  Bueno
  <1> DEFINE h == "planificacion"
  <1>0. h \in Hilos /\ TipoColas
    BY DEF Hilos, Tipos
  <1>1. tareas[h] # <<>> /\ Head(tareas[h]).op = "popExec" /\ h # "quantum"
    BY <1>0, Turnos DEF PopExec
  <1> DEFINE q == IF colas.exec = <<>> THEN colas.exec ELSE Tail(colas.exec)
  <1>2. q \in Seq(Procesos)
    BY <1>0, ColasTipo, HeadTailProperties
  <1>3. colas' = [colas EXCEPT !.exec = q]
    BY DEF PopExec
  <1> HIDE DEF q
  <1>4. colas' \in Colas /\ colas'.ready = colas.ready /\ colas'.priori = colas.priori
    BY <1>0, <1>2, <1>3, ColasTipo
  <1>5. Tipos'
    BY <1>4, TiposIguales DEF PopExec, Tipos, TipoColas, consola
  <1>6. algoritmo' = algoritmo /\ sem' = sem /\ Sigue(h, <<>>)
    BY DEF PopExec, config
  <1>7. Abierta(Head(tareas[h]))
    BY <1>1 DEF Abierta
  <1>8. /\ Hebras' /\ tareas'[h] # <<>> /\ Pega(Head(tareas[h]), Head(tareas'[h]), algoritmo)
        /\ \A g \in Hilos \ {h} : tareas'[g] = tareas[g]
    BY <1>0, <1>1, <1>6, <1>7, AvanzaAbierta
  <1>9. /\ Pend(tareas[h]) /\ Pend(tareas'[h]) /\ ~ Toma(Planif) /\ ~ Toma(Planif')
        /\ \A n \in {"sacarReady", "sacarPriori"} : ~ Saca(Planif', n)
    BY <1>1, <1>8 DEF Pend, Toma, Saca, Pega, Planif
  <1>10. SigueIgual
    BY <1>8, <1>9 DEF SigueIgual
  <1>11. Efecto
    BY <1>4, <1>6, <1>9, <1>10 DEF Neutro, Efecto, Listos
  <1> QED BY <1>5, <1>8, <1>11 DEF Bueno

\* Two threads change: the planner starts the quantum thread, desalojar cancels it.
LEMMA CambiaQuantum ==
    ASSUME Hebras, UNCHANGED config, NEW h \in Hilos \ {"quantum"}, tareas[h] # <<>>,
           Head(tareas[h]).op \in {"crearQuantum", "cancelarQuantum"},
           NEW d, Rutina(d, algoritmo), Dormida(d),
           tareas' = [tareas EXCEPT ![h] = Tail(@), !["quantum"] = d],
           UNCHANGED colas, UNCHANGED sem
    PROVE  Hebras' /\ Efecto
  <1>1. "quantum" \in Hilos /\ "planificacion" \in Hilos /\ algoritmo' = algoritmo
    BY DEF Hilos, config
  <1>2. tareas[h] \in Seq(Tarea) /\ Bien(tareas[h], algoritmo) /\ Dormida(tareas["quantum"])
    BY DEF Hebras, TipoTareas
  <1> DEFINE s == Tail(tareas[h])
  <1>3. Rutina(s, algoritmo)
    BY <1>2, RestoRutina DEF Abierta
  <1>4. /\ TipoTareas' /\ tareas'[h] = s /\ tareas'["quantum"] = d
        /\ \A g \in Hilos \ {h, "quantum"} : tareas'[g] = tareas[g]
    <2>1. s \in Seq(Tarea) /\ d \in Seq(Tarea)
      BY <1>3, RutinaQuieta
    <2> QED BY <1>1, <2>1 DEF Hebras, TipoTareas
  <1> HIDE DEF s
  <1>5. \A g \in Hilos : Bien(tareas'[g], algoritmo') /\ Cabeza(tareas'[g])
    BY <1>1, <1>3, <1>4, RutinaQuieta DEF Hebras
  <1>6. Hebras'
    BY <1>4, <1>5 DEF Hebras, Cabeza, Dormida
  <1>7. ~ Pend(tareas["quantum"])
    <2>1. tareas["quantum"] # <<>> => Head(tareas["quantum"]) = tareas["quantum"][1]
                                       /\ 1 \in DOMAIN tareas["quantum"]
      BY <1>1, Cabecera DEF Hebras
    <2> QED BY <1>2, <2>1 DEF Pend, Dormida
  <1>8. /\ ~ Pend(d) /\ ~ Pend(s) /\ ~ Toma(s)
        /\ \A n \in {"sacarReady", "sacarPriori"} : ~ Saca(s, n)
    BY <1>3, RutinaQuieta
  <1>9. ~ Pend(tareas[h]) /\ ~ Toma(tareas[h])
    BY DEF Pend, Toma
  <1>10. SigueIgual
    BY <1>4, <1>7, <1>8, <1>9 DEF SigueIgual
  <1>11. /\ Toma(Planif') <=> Toma(Planif)
         /\ \A n \in {"sacarReady", "sacarPriori"} : Saca(Planif', n) => Saca(Planif, n)
    <2>1. CASE h = "planificacion"
      BY <1>4, <1>8, <1>9, <2>1 DEF Planif
    <2>2. CASE h # "planificacion"
      BY <1>1, <1>4, <2>2 DEF Planif
    <2> QED BY <2>1, <2>2
  <1>12. Neutro
    BY <1>10, <1>11 DEF Neutro, Listos
  <1> QED BY <1>6, <1>12 DEF Efecto

LEMMA PlanificadorPaso ==
    ASSUME Tipos, Hebras, Planificador \/ Despertar
    PROVE  Bueno
  <1>0. /\ Rutina(<<>>, algoritmo) /\ TipoColas
        /\ "planificacion" \in Hilos \ {"quantum"} /\ "quantum" \in Hilos
    BY RutinaVacia DEF Tipos, Hilos
  <1>1. CASE EmpezarTurno
    <2>1. Tipos'
      BY <1>1, TiposIguales DEF EmpezarTurno, Tipos, consola
    <2>2. Hebras' /\ Efecto
      BY <1>0, <1>1, TurnoRutina, Empieza DEF EmpezarTurno, Libre, config, Listos
    <2> QED BY <2>1, <2>2 DEF Bueno
  <1>2. CASE PushExec
    <2>1. Arg("planificacion") \in Pcbs
      BY <1>0, <1>2, Turnos DEF PushExec, ConSuPcb
    <2>2. Append(colas.exec, Arg("planificacion").pid) \in Seq(Procesos)
      BY <1>0, <2>1, ColasTipo, AppendProperties DEF Pcbs
    <2>3. colas' = [colas EXCEPT !.exec = Append(colas.exec, Arg("planificacion").pid)]
      BY <1>2 DEF PushExec
    <2>4. colas' \in Colas /\ colas'.ready = colas.ready /\ colas'.priori = colas.priori
      BY <1>0, <2>2, <2>3, ColasTipo
    <2>5. Tipos'
      BY <1>2, <2>4, TiposIguales DEF PushExec, Tipos, TipoColas, consola
    <2>6. Hebras' /\ Efecto
      BY <1>0, <1>2, <2>4, Hace DEF PushExec, LlanaOp
    <2> QED BY <2>5, <2>6 DEF Bueno
  <1>3. CASE EsperarConfirmacion
    <2>1. Tipos'
      <3>1. TipoSem'
        BY <1>3 DEF EsperarConfirmacion, Tipos, TipoSem
      <3> QED BY <1>3, <3>1, TiposIguales DEF EsperarConfirmacion, Tipos, consola
    <2>2. sem'.ready = sem.ready
      BY <1>3 DEF EsperarConfirmacion, Tipos, TipoSem
    <2>3. Hebras' /\ Efecto
      BY <1>0, <1>3, <2>2, Hace DEF EsperarConfirmacion, LlanaOp
    <2> QED BY <2>1, <2>3 DEF Bueno
  <1>4. CASE CrearQuantum
    <2>1. Tipos'
      BY <1>4, TiposIguales DEF CrearQuantum, Tipos, consola
    <2>2. /\ Arg("planificacion") \in Pcbs /\ tareas["planificacion"] # <<>>
          /\ Head(tareas["planificacion"]).op = "crearQuantum"
      BY <1>0, <1>4, Turnos DEF CrearQuantum, ConSuPcb
    <2> DEFINE a == Op("dormir", Arg("planificacion"))
               d == <<a>> \o Interrumpir("interrumpi")
    <2>3. Rutina(d, algoritmo)
      <3>1. Rutina(<<a>>, algoritmo)
        BY <2>2, OpLlana, RutinaLlana
      <3>2. Rutina(Interrumpir("interrumpi"), algoritmo)
        BY InterrumpirRutina DEF Motivos
      <3> QED BY <3>1, <3>2, RutinaConcat
    <2>4. Dormida(d)
      <3> DEFINE b == OpRec("marcar", Nulo, "interrumpi")
                 c == Simple("interrumpir")
      <3>1. a.op = "dormir" /\ b.op = "marcar" /\ c.op = "interrumpir"
        BY DEF Op, OpRec, Simple
      <3>2. d = <<a>> \o <<b, c>>
        BY DEF Interrumpir
      <3> HIDE DEF a, b, c, d
      <3>3. DOMAIN d = {1, 2, 3} /\ d[1] = a /\ d[2] = b /\ d[3] = c
        BY <3>2
      <3> QED BY <3>1, <3>3 DEF Dormida
    <2>5. /\ tareas' = [tareas EXCEPT !["planificacion"] = Tail(@), !["quantum"] = d]
          /\ UNCHANGED config /\ UNCHANGED colas /\ UNCHANGED sem
      BY <1>4 DEF CrearQuantum
    <2> HIDE DEF d
    <2>6. Hebras' /\ Efecto
      BY <1>0, <2>2, <2>3, <2>4, <2>5, CambiaQuantum
    <2> QED BY <2>1, <2>6 DEF Bueno
  <1>5. CASE UnirQuantum
    <2>1. Tipos'
      BY <1>5, TiposIguales DEF UnirQuantum, Tipos, consola
    <2>2. Hebras' /\ Efecto
      BY <1>0, <1>5, Hace DEF UnirQuantum, LlanaOp
    <2> QED BY <2>1, <2>2 DEF Bueno
  <1>6. CASE Despertar
    <2>1. Tipos'
      BY <1>6, TiposIguales DEF Despertar, Tipos, consola
    <2>2. Hebras' /\ Efecto
      BY <1>0, <1>6, Hace DEF Despertar, LlanaOp
    <2> QED BY <2>1, <2>2 DEF Bueno
  <1> QED BY <1>1, <1>2, <1>3, <1>4, <1>5, <1>6, EsperarReadyPaso, TomarCPUPaso, MirarPrioriPaso,
             SacarPaso, PopExecPaso DEF Planificador

-----------------------------------------------------------------------------
(* The dispatch receiver and the interfaces.                               *)

LEMMA ConPcbRutina ==
    ASSUME NEW alg, NEW s, Rutina(s, alg), NEW pcb \in Pcbs
    PROVE  Rutina(ConPcb(s, pcb), alg)
  <1> DEFINE Otra(o) == IF o.pcb # Nulo THEN [o EXCEPT !.pcb = pcb] ELSE o
             u == ConPcb(s, pcb)
  <1>1. s \in Seq(Tarea) /\ Bien(s, alg) /\ (s # <<>> => ~ Suelta(s[1])) /\ pcb # Nulo
    BY PcbNoEsNulo DEF Rutina
  <1>2. ASSUME NEW o \in Tarea
        PROVE  /\ Otra(o) \in Tarea /\ Otra(o).op = o.op
               /\ (Otra(o).pcb = Nulo) <=> (o.pcb = Nulo)
    <2>1. CASE o.pcb = Nulo
      BY <2>1
    <2>2. CASE o.pcb # Nulo
      <3>1. /\ Otra(o) = [o EXCEPT !.pcb = pcb] /\ o \in Campos /\ o.op \in Operaciones
            /\ o.op = "marcar" => o.r \in Motivos
            /\ o.op = "recorrer" => o.r \in Faltan
            /\ o.op = "encolar" => o.r \in Nombres
        BY <2>2 DEF Tarea, Oper
      <3>2. /\ Otra(o) \in Campos /\ Otra(o).op = o.op /\ Otra(o).pcb = pcb /\ Otra(o).r = o.r
        BY <3>1 DEF Campos
      <3> HIDE DEF Otra
      <3> QED BY <1>1, <2>2, <3>1, <3>2 DEF Tarea, Oper
    <2> QED BY <2>1, <2>2
  <1>3. DOMAIN u = DOMAIN s /\ \A i \in DOMAIN s : u[i] = Otra(s[i])
    BY DEF ConPcb
  <1>4. u \in Seq(Tarea)
    <2>1. \A i \in DOMAIN s : s[i] \in Tarea
      BY <1>1
    <2>2. u = [i \in 1 .. Len(s) |-> Otra(s[i])]
      BY <1>1 DEF ConPcb
    <2>3. \A i \in 1 .. Len(s) : Otra(s[i]) \in Tarea
      BY <1>1, <1>2, <2>1
    <2> HIDE DEF Otra, u
    <2> QED BY <1>1, <2>2, <2>3
  <1>5. ASSUME NEW i \in DOMAIN s
        PROVE  /\ u[i].op = s[i].op
               /\ (u[i].pcb = Nulo) <=> (s[i].pcb = Nulo)
    <2>1. s[i] \in Tarea
      BY <1>1
    <2> HIDE DEF Otra, u
    <2> QED BY <1>2, <1>3, <2>1
  <1> HIDE DEF u, Otra
  <1>6. /\ \A i \in DOMAIN s : (Abierta(u[i]) <=> Abierta(s[i])) /\ (Suelta(u[i]) <=> Suelta(s[i]))
        /\ \A i, j \in DOMAIN s : Pega(u[i], u[j], alg) <=> Pega(s[i], s[j], alg)
    BY <1>5 DEF Abierta, Suelta, Pega
  <1>7. \A i \in DOMAIN s : i > 1 => i - 1 \in DOMAIN s
    BY <1>1
  <1>8. Bien(u, alg)
    BY <1>1, <1>3, <1>5, <1>6, <1>7 DEF Bien
  <1>9. u # <<>> => ~ Suelta(u[1])
    <2>1. u # <<>> => s # <<>> /\ 1 \in DOMAIN s
      BY <1>1, <1>3, <1>4
    <2> QED BY <1>1, <1>6, <2>1
  <1> QED BY <1>4, <1>8, <1>9 DEF Rutina, u

LEMMA ReceptorPaso ==
    ASSUME Tipos, Hebras, Receptor
    PROVE  Bueno
  <1> DEFINE h == "dispatch"
  <1>0. /\ Rutina(<<>>, algoritmo) /\ TipoColas /\ TipoRed /\ TipoRecursos
        /\ h \in Hilos \ {"quantum"}
    BY RutinaVacia DEF Tipos, Hilos
  <1>1. CASE RecibirDispatch
    <2>1. Head(red.aKernel) \in AlKernel /\ Tail(red.aKernel) \in Seq(AlKernel)
      BY <1>0, <1>1, RedTipo, HeadTailProperties DEF RecibirDispatch
    <2>2. red' = [red EXCEPT !.aKernel = Tail(red.aKernel)]
      BY <1>1 DEF RecibirDispatch
    <2>3. Tipos'
      <3>1. TipoRed'
        BY <1>0, <2>1, <2>2, RedTipo DEF TipoRed
      <3> QED BY <1>1, <3>1, TiposIguales DEF RecibirDispatch, Tipos, consola
    <2>4. Rutina(Atender(Head(red.aKernel)), algoritmo)
      BY <2>1, AtenderRutina
    <2>5. Hebras' /\ Efecto
      BY <1>0, <1>1, <2>4, Empieza DEF RecibirDispatch, Libre, config, Listos
    <2> QED BY <2>3, <2>5 DEF Bueno
  <1>2. CASE PostConfirmacion
    <2>1. Tipos'
      <3>1. TipoSem'
        BY <1>2 DEF PostConfirmacion, Tipos, TipoSem
      <3> QED BY <1>2, <3>1, TiposIguales DEF PostConfirmacion, Tipos, consola
    <2>2. sem'.ready = sem.ready
      BY <1>2 DEF PostConfirmacion, Tipos, TipoSem
    <2>3. Hebras' /\ Efecto
      BY <1>0, <1>2, <2>2, Hace DEF PostConfirmacion, LlanaOp
    <2> QED BY <2>1, <2>3 DEF Bueno
  <1>3. CASE Confirmar
    <2>1. Tipos'
      <3>1. Simple("CONFIRMAR_SYSCALL") \in AlCpu
        <4>1. "CONFIRMAR_SYSCALL" \in Paquetes
          BY DEF Paquetes
        <4> QED BY <4>1, PaqueteTipo DEF AlCpu, Simple
      <3>2. Append(red.aCpu, Simple("CONFIRMAR_SYSCALL")) \in Seq(AlCpu)
        BY <1>0, <3>1, RedTipo, AppendProperties
      <3>3. TipoRed'
        BY <1>0, <1>3, <3>2, RedTipo DEF Confirmar, TipoRed
      <3> QED BY <1>3, <3>3, TiposIguales DEF Confirmar, Tipos, consola
    <2>2. Hebras' /\ Efecto
      BY <1>0, <1>3, Hace DEF Confirmar, LlanaOp
    <2> QED BY <2>1, <2>2 DEF Bueno
  <1>4. CASE ElegirMotivo
    <2>1. Tipos'
      <3>1. TipoConsola'
        BY <1>4 DEF ElegirMotivo, Tipos, TipoConsola, consola
      <3> QED BY <1>4, <3>1, TiposIguales DEF ElegirMotivo, Tipos, consola
    <2>2. Arg(h) \in Pcbs
      BY <1>0, <1>4, Turnos DEF ElegirMotivo, ConSuPcb
    <2>3. Rutina(LtsEx(Arg(h), "EXEC") \o <<Simple("limpiarError")>>, algoritmo)
      BY <2>2, LtsExRutina, SimpleLlana, RutinaLlana, RutinaConcat
    <2>4. Rutina(Desalojar(Arg(h)) \o CargarReady(Arg(h)), algoritmo)
      BY <2>2, DesalojarRutina, CargarReadyRutina, RutinaConcat
    <2>5. \E mas : Rutina(mas, algoritmo) /\ Sigue(h, mas)
      BY <1>0, <1>4, <2>3, <2>4 DEF ElegirMotivo
    <2>6. /\ En(h, "elegirMotivo") /\ UNCHANGED config /\ colas' = colas /\ sem' = sem
          /\ "elegirMotivo" \in LlanaOp
      BY <1>4 DEF ElegirMotivo, LlanaOp
    <2>7. Hebras' /\ Efecto
      BY <1>0, <2>5, <2>6, Hace
    <2> QED BY <2>1, <2>7 DEF Bueno
  <1>5. CASE LimpiarError
    <2>1. Tipos'
      <3>1. TipoConsola'
        BY <1>5 DEF LimpiarError, Tipos, TipoConsola, consola
      <3> QED BY <1>5, <3>1, TiposIguales DEF LimpiarError, Tipos, consola
    <2>2. Hebras' /\ Efecto
      BY <1>0, <1>5, Hace DEF LimpiarError, LlanaOp
    <2> QED BY <2>1, <2>2 DEF Bueno
  <1>6. CASE CancelarQuantum
    <2>1. Tipos'
      BY <1>6, TiposIguales DEF CancelarQuantum, Tipos, consola, Cae
    <2>2. tareas[h] # <<>> /\ Head(tareas[h]).op = "cancelarQuantum"
      BY <1>0, <1>6, Turnos DEF CancelarQuantum
    <2>3. Dormida(<<>>)
      BY DEF Dormida
    <2>4. UNCHANGED config /\ UNCHANGED colas /\ UNCHANGED sem
      BY <1>6 DEF CancelarQuantum, Cae
    <2>5. CASE hilo
      <3>1. tareas' = [tareas EXCEPT ![h] = Tail(@), !["quantum"] = <<>>]
        BY <1>6, <2>5 DEF CancelarQuantum
      <3>2. Hebras' /\ Efecto
        BY <1>0, <2>2, <2>3, <2>4, <3>1, CambiaQuantum
      <3> QED BY <2>1, <3>2 DEF Bueno
    <2>6. CASE ~hilo
      <3>1. UNCHANGED tareas
        BY <1>6, <2>6 DEF CancelarQuantum, Cae
      <3> QED BY <1>0, <2>1, <2>4, <3>1, NadaCambia DEF Bueno
    <2> QED BY <2>5, <2>6
  <1>7. CASE ModificarQuantum
    <2>1. Tipos'
      BY <1>7, TiposIguales DEF ModificarQuantum, Tipos, consola, Cae
    <2>2. CASE Arg(h) = Nulo
      <3>1. UNCHANGED config /\ UNCHANGED tareas /\ UNCHANGED colas /\ sem'.ready = sem.ready
        BY <1>7, <2>2 DEF ModificarQuantum, Cae
      <3> QED BY <2>1, <3>1, NadaCambia DEF Bueno
    <2>3. CASE Arg(h) # Nulo
      <3>1. /\ Arg(h) \in Pcbs /\ tareas[h] # <<>> /\ Head(tareas[h]).op = "modificarQuantum"
        BY <1>0, <1>7, <2>3, Turnos DEF ModificarQuantum
      <3>2. PICK resto \in 0 .. Arg(h).q :
              tareas' = [tareas EXCEPT ![h] = ConPcb(Tail(@), [Head(@).pcb EXCEPT !.q = resto])]
        BY <1>7, <2>3 DEF ModificarQuantum
      <3> DEFINE x == [Arg(h) EXCEPT !.q = resto]
                 s == ConPcb(Tail(tareas[h]), x)
      <3>3. x \in Pcbs
        BY <3>1 DEF Pcbs
      <3>4. Rutina(Tail(tareas[h]), algoritmo)
        <4>1. tareas[h] \in Seq(Tarea) /\ Bien(tareas[h], algoritmo)
          BY <1>0 DEF Hebras, TipoTareas
        <4> QED BY <3>1, <4>1, RestoRutina DEF Abierta
      <3>5. tareas' = [tareas EXCEPT ![h] = s]
        BY <3>2 DEF Arg
      <3> HIDE DEF x
      <3>6. Rutina(s, algoritmo)
        BY <3>3, <3>4, ConPcbRutina
      <3> HIDE DEF s
      <3>7. /\ algoritmo' = algoritmo /\ UNCHANGED colas /\ UNCHANGED sem
        BY <1>7, <2>3 DEF ModificarQuantum, config
      <3>8. /\ Hebras' /\ tareas'[h] = s /\ \A g \in Hilos \ {h} : tareas'[g] = tareas[g]
        BY <1>0, <3>5, <3>6, <3>7, RutinaQuieta, Cambia
      <3>9. ~ Pend(tareas[h]) /\ ~ Pend(s)
        BY <3>1, <3>6, RutinaQuieta DEF Pend
      <3>10. Planif' = Planif
        <4>1. "planificacion" \in Hilos \ {h}
          BY DEF Hilos
        <4> QED BY <3>8, <4>1 DEF Planif
      <3>11. Neutro
        BY <3>7, <3>8, <3>9, <3>10 DEF Neutro, SigueIgual, Listos
      <3> QED BY <2>1, <3>8, <3>11 DEF Bueno, Efecto
    <2> QED BY <2>2, <2>3
  <1>8. CASE DesalojarExec
    <2>1. CASE colas.exec = <<>>
      <3>1. UNCHANGED config /\ UNCHANGED tareas /\ UNCHANGED colas /\ sem'.ready = sem.ready
        BY <1>8, <2>1 DEF DesalojarExec, Cae
      <3>2. Tipos'
        BY <1>8, <3>1, TiposIguales DEF DesalojarExec, Tipos, consola
      <3> QED BY <3>1, <3>2, NadaCambia DEF Bueno
    <2>2. CASE colas.exec # <<>>
      <3>1. Tail(colas.exec) \in Seq(Procesos)
        BY <1>0, <2>2, ColasTipo, HeadTailProperties
      <3>2. colas' = [colas EXCEPT !.exec = Tail(colas.exec)]
        BY <1>8, <2>2 DEF DesalojarExec
      <3>3. colas' \in Colas /\ colas'.ready = colas.ready /\ colas'.priori = colas.priori
        BY <1>0, <3>1, <3>2, ColasTipo
      <3>4. Tipos'
        BY <1>8, <3>3, TiposIguales DEF DesalojarExec, Tipos, TipoColas, consola
      <3>5. Hebras' /\ Efecto
        BY <1>0, <1>8, <2>2, <3>3, Hace DEF DesalojarExec, LlanaOp
      <3> QED BY <3>4, <3>5 DEF Bueno
    <2> QED BY <2>1, <2>2
  <1>9. CASE Wait
    <2>0. Arg(h) \in Pcbs /\ ArgR(h) \in Refs /\ "wait" \in LlanaOp
      BY <1>0, <1>9, Turnos DEF Wait, ConSuPcb, LlanaOp
    <2>1. /\ En(h, "wait") /\ UNCHANGED config /\ colas' = colas /\ sem' = sem
          /\ colaRec' = colaRec
      BY <1>9 DEF Wait
    <2>2. Rutina(Desalojar(Arg(h)) \o LtsEx(Arg(h), "EXEC"), algoritmo)
      BY <2>0, DesalojarRutina, LtsExRutina, RutinaConcat
    <2>3. CASE ArgR(h) \notin Nombres
      <3>1. /\ Sigue(h, Desalojar(Arg(h)) \o LtsEx(Arg(h), "EXEC"))
            /\ UNCHANGED recursos
        BY <1>9, <2>3 DEF Wait, recursos
      <3>2. Hebras' /\ Efecto
        BY <1>0, <2>0, <2>1, <2>2, <3>1, Hace
      <3>3. Tipos'
        BY <1>9, <3>1, TiposIguales DEF Wait, Tipos, consola
      <3> QED BY <3>2, <3>3 DEF Bueno
    <2>4. CASE ArgR(h) \in Nombres
      <3>1. R!Restar(Arg(h).pid, ArgR(h))
        BY <1>9, <2>4 DEF Wait
      <3>2. Sigue(h, IF instancias[ArgR(h)] <= 0
                       THEN Desalojar(Arg(h)) \o <<OpRec("encolar", Arg(h), ArgR(h))>>
                       ELSE DevolverACpu(Arg(h)))
        BY <1>9, <2>4 DEF Wait
      <3>3. Rutina(Desalojar(Arg(h)) \o <<OpRec("encolar", Arg(h), ArgR(h))>>, algoritmo)
        BY <2>0, <2>4, DesalojarRutina, OpRecLlana, RutinaLlana, RutinaConcat
      <3>4. Rutina(DevolverACpu(Arg(h)), algoritmo)
        BY <2>0, DevolverACpuRutina
      <3>5. \E mas : Rutina(mas, algoritmo) /\ Sigue(h, mas)
        BY <3>2, <3>3, <3>4
      <3>6. Hebras' /\ Efecto
        BY <1>0, <2>0, <2>1, <3>5, Hace
      <3>7. TipoRecursos'
        <4>1. Arg(h).pid \in Procesos
          BY <2>0 DEF Pcbs
        <4>2. instancias' \in [Nombres -> Int]
          BY <1>0, <3>1, <2>4 DEF R!Restar, TipoRecursos
        <4>3. rec' \in [Procesos -> Listas]
          <5>0. rec[Arg(h).pid] \in Listas
            BY <1>0, <4>1 DEF TipoRecursos
          <5>1. PICK S \in SUBSET Nombres : rec[Arg(h).pid] \in [S -> Int]
            BY <5>0 DEF Listas
          <5>2. \A r \in Nombres : R!Cuenta(rec[Arg(h).pid], r) \in Int
            BY <5>1 DEF R!Cuenta
          <5>3. R!Anotada(rec[Arg(h).pid], ArgR(h)) \in [S \cup {ArgR(h)} -> Int]
            BY <2>4, <5>1, <5>2 DEF R!Anotada
          <5>4. R!Anotada(rec[Arg(h).pid], ArgR(h)) \in Listas
            BY <2>4, <5>3 DEF Listas
          <5>5. rec' = [rec EXCEPT ![Arg(h).pid] = R!Anotada(rec[Arg(h).pid], ArgR(h))]
            BY <3>1 DEF R!Restar
          <5> QED BY <1>0, <4>1, <5>4, <5>5 DEF TipoRecursos
        <4> QED BY <1>0, <2>1, <4>2, <4>3 DEF TipoRecursos
      <3>8. Tipos'
        BY <1>9, <3>7, TiposIguales DEF Wait, Tipos, consola
      <3> QED BY <3>6, <3>8 DEF Bueno
    <2> QED BY <2>3, <2>4
  <1>10. CASE Encolar
    <2>1. Arg(h) \in Pcbs /\ ArgR(h) \in Nombres
      BY <1>0, <1>10, Turnos DEF Encolar, ConSuPcb
    <2>2. TipoRecursos'
      <3>1. Append(colaRec[ArgR(h)], Arg(h)) \in Seq(Pcbs)
        BY <1>0, <2>1, AppendProperties DEF TipoRecursos
      <3>2. colaRec' = [colaRec EXCEPT ![ArgR(h)] = Append(colaRec[ArgR(h)], Arg(h))]
        BY <1>10 DEF Encolar
      <3> QED BY <1>0, <1>10, <3>1, <3>2 DEF Encolar, TipoRecursos
    <2>3. Tipos'
      BY <1>10, <2>2, TiposIguales DEF Encolar, Tipos, consola
    <2>4. Hebras' /\ Efecto
      BY <1>0, <1>10, Hace DEF Encolar, LlanaOp
    <2> QED BY <2>3, <2>4 DEF Bueno
  <1>11. CASE Signal
    <2>0. Arg(h) \in Pcbs /\ ArgR(h) \in Refs /\ "signal" \in LlanaOp
      BY <1>0, <1>11, Turnos DEF Signal, ConSuPcb, LlanaOp
    <2>1. /\ En(h, "signal") /\ UNCHANGED config /\ colas' = colas /\ sem' = sem
      BY <1>11 DEF Signal
    <2>2. CASE ArgR(h) \notin Nombres
      <3>1. /\ Sigue(h, Desalojar(Arg(h)) \o LtsEx(Arg(h), "EXEC"))
            /\ UNCHANGED recursos
        BY <1>11, <2>2 DEF Signal
      <3>2. Rutina(Desalojar(Arg(h)) \o LtsEx(Arg(h), "EXEC"), algoritmo)
        BY <2>0, DesalojarRutina, LtsExRutina, RutinaConcat
      <3>3. Hebras' /\ Efecto
        BY <1>0, <2>0, <2>1, <3>1, <3>2, Hace
      <3>4. Tipos'
        BY <1>11, <3>1, TiposIguales DEF Signal, Tipos, consola
      <3> QED BY <3>3, <3>4 DEF Bueno
    <2>3. CASE ArgR(h) \in Nombres
      <3>1. /\ Sumar(h, ArgR(h), DevolverACpu(Arg(h)))
            /\ rec' = [rec EXCEPT ![Arg(h).pid] = R!Desanotada(rec[Arg(h).pid], ArgR(h))]
        BY <1>11, <2>3 DEF Signal
      <3>2. Rutina(DevolverACpu(Arg(h)), algoritmo)
        BY <2>0, DevolverACpuRutina
      <3>3. /\ instancias' \in [Nombres -> Int] /\ colaRec' \in [Nombres -> Seq(Pcbs)]
            /\ \E mas : Rutina(mas, algoritmo) /\ Sigue(h, mas)
        BY <1>0, <2>3, <3>1, <3>2, SumarPaso
      <3>4. Hebras' /\ Efecto
        BY <1>0, <2>0, <2>1, <3>3, Hace
      <3>5. TipoRecursos'
        <4>1. Arg(h).pid \in Procesos
          BY <2>0 DEF Pcbs
        <4>0. rec[Arg(h).pid] \in Listas
          BY <1>0, <4>1 DEF TipoRecursos
        <4>2. PICK S \in SUBSET Nombres : rec[Arg(h).pid] \in [S -> Int]
          BY <4>0 DEF Listas
        <4>3. R!Desanotada(rec[Arg(h).pid], ArgR(h)) \in [S -> Int]
          BY <4>2 DEF R!Desanotada
        <4>4. R!Desanotada(rec[Arg(h).pid], ArgR(h)) \in Listas
          BY <4>3 DEF Listas
        <4>5. rec' \in [Procesos -> Listas]
          BY <1>0, <3>1, <4>1, <4>4 DEF TipoRecursos
        <4> QED BY <3>3, <4>5 DEF TipoRecursos
      <3>6. Tipos'
        BY <1>11, <3>5, TiposIguales DEF Signal, Tipos, consola
      <3> QED BY <3>4, <3>6 DEF Bueno
    <2> QED BY <2>2, <2>3
  <1>12. CASE OcuparIO
    <2>1. Arg(h) \in Pcbs
      BY <1>0, <1>12, Turnos DEF OcuparIO, ConSuPcb
    <2>2. colas' = [colas EXCEPT !.io = colas.io \cup {Arg(h)}]
      BY <1>12 DEF OcuparIO
    <2>3. colas.io \cup {Arg(h)} \in SUBSET Pcbs
      BY <1>0, <2>1, ColasTipo
    <2>4. colas' \in Colas /\ colas'.ready = colas.ready /\ colas'.priori = colas.priori
      BY <1>0, <2>2, <2>3, ColasTipo
    <2>5. Tipos'
      BY <1>12, <2>4, TiposIguales DEF OcuparIO, Tipos, TipoColas, consola
    <2>6. Hebras' /\ Efecto
      BY <1>0, <1>12, <2>4, Hace DEF OcuparIO, LlanaOp
    <2> QED BY <2>5, <2>6 DEF Bueno
  <1>13. CASE RechazarIO
    <2>1. Arg(h) \in Pcbs
      BY <1>0, <1>13, Turnos DEF RechazarIO, ConSuPcb
    <2>2. Rutina(LtsEx(Arg(h), "EXEC"), algoritmo)
      BY <2>1, LtsExRutina
    <2>3. Tipos'
      BY <1>13, TiposIguales DEF RechazarIO, Tipos, consola
    <2>4. Hebras' /\ Efecto
      BY <1>0, <1>13, <2>2, Hace DEF RechazarIO, LlanaOp
    <2> QED BY <2>3, <2>4 DEF Bueno
  <1> QED BY <1>1, <1>2, <1>3, <1>4, <1>5, <1>6, <1>7, <1>8, <1>9, <1>10, <1>11, <1>12, <1>13
          DEF Receptor

LEMMA TerminarIOPaso ==
    ASSUME Tipos, Hebras, TerminarIO
    PROVE  Bueno
  <1>0. TipoColas /\ "io" \in Hilos
    BY DEF Tipos, Hilos
  <1>1. PICK pcb \in colas.io :
          /\ colas' = [colas EXCEPT !.io = @ \ {pcb}]
          /\ tareas' = [tareas EXCEPT !["io"] = Desbloquear(pcb)]
    BY DEF TerminarIO
  <1>2. pcb \in Pcbs /\ colas.io \ {pcb} \in SUBSET Pcbs
    BY <1>0, ColasTipo
  <1>3. colas' = [colas EXCEPT !.io = colas.io \ {pcb}]
    BY <1>1
  <1>4. colas' \in Colas /\ colas'.ready = colas.ready /\ colas'.priori = colas.priori
    BY <1>0, <1>2, <1>3, ColasTipo
  <1>5. Tipos'
    BY <1>4, TiposIguales DEF TerminarIO, Tipos, TipoColas, consola
  <1>6. Rutina(Desbloquear(pcb), algoritmo)
    BY <1>2, DesbloquearRutina
  <1>7. /\ algoritmo' = algoritmo /\ tareas["io"] = <<>> /\ Listos' = Listos /\ sem' = sem
    BY <1>4 DEF TerminarIO, Libre, Listos, config
  <1>8. Hebras' /\ Efecto
    BY <1>0, <1>1, <1>6, <1>7, Empieza
  <1> QED BY <1>5, <1>8 DEF Bueno

-----------------------------------------------------------------------------
(* Admission and the CPU.                                                  *)

\* cpu with other values in the places that one step changes.
LEMMA CpuTipo ==
    ASSUME TipoCpu
    PROVE  /\ cpu.pcb \in Pcbs \cup {Nulo} /\ cpu.sys \in BOOLEAN /\ cpu.interrupcion \in BOOLEAN
           /\ cpu.st # "espera" => cpu.pcb \in Pcbs
  BY DEF TipoCpu

LEMMA AvanzadoTipo ==
    ASSUME NEW pcb \in Pcbs
    PROVE  Avanzado(pcb) \in Pcbs
  BY DEF Avanzado, Pcbs

LEMMA AdmisionPaso ==
    ASSUME Tipos, Hebras, Admision
    PROVE  Bueno
  <1>0. /\ Rutina(<<>>, algoritmo) /\ TipoRed /\ TipoColas
        /\ "consola" \in Hilos /\ "memoria" \in Hilos
        /\ "consola" # "quantum" /\ "memoria" # "quantum"
    BY RutinaVacia DEF Tipos, Hilos
  <1>1. CASE IniciarProceso
    <2>1. PcbNuevo(PID) \in Pcbs
      BY <1>1, DespachoAssumption DEF IniciarProceso, PcbNuevo, Pcb, Pcbs, Procesos, Tipos, TipoConsola
    <2>2. TipoRed'
      <3>1. Append(red.aMemoria, PcbNuevo(PID)) \in Seq(Pcbs)
        BY <1>0, <2>1, RedTipo, AppendProperties
      <3>2. red' = [red EXCEPT !.aMemoria = Append(red.aMemoria, PcbNuevo(PID))]
        BY <1>1 DEF IniciarProceso
      <3> QED BY <1>0, <3>1, <3>2, RedTipo DEF TipoRed
    <2>3. Tipos'
      BY <1>1, <2>2, TiposIguales DEF IniciarProceso, Tipos, consola
    <2>4. Rutina(<<Op("listarNew", PcbNuevo(PID))>>, algoritmo)
      BY <2>1, OpLlana, RutinaLlana
    <2>5. /\ algoritmo' = algoritmo /\ tareas["consola"] = <<>> /\ Listos' = Listos /\ sem' = sem
          /\ tareas' = [tareas EXCEPT !["consola"] = <<Op("listarNew", PcbNuevo(PID))>>]
      BY <1>1 DEF IniciarProceso, Libre, Listos, config
    <2>6. Hebras' /\ Efecto
      BY <1>0, <2>4, <2>5, Empieza
    <2> QED BY <2>3, <2>6 DEF Bueno
  <1>2. CASE ListarNew
    <2>1. Arg("consola") \in Pcbs
      BY <1>0, <1>2, Turnos DEF ListarNew, ConSuPcb
    <2>2. colas' = [colas EXCEPT !.new = colas.new \cup {Arg("consola")}]
      BY <1>2 DEF ListarNew
    <2>3. colas.new \cup {Arg("consola")} \in SUBSET Pcbs
      BY <1>0, <2>1, ColasTipo
    <2>4. colas' \in Colas /\ colas'.ready = colas.ready /\ colas'.priori = colas.priori
      BY <1>0, <2>2, <2>3, ColasTipo
    <2>5. TipoConsola'
      BY <1>2 DEF ListarNew, Tipos, TipoConsola
    <2>6. Tipos'
      BY <1>2, <2>4, <2>5, TiposIguales DEF ListarNew, Tipos, TipoColas
    <2>7. Hebras' /\ Efecto
      BY <1>0, <1>2, <2>4, Hace DEF ListarNew, LlanaOp
    <2> QED BY <2>6, <2>7 DEF Bueno
  <1>3. CASE Detener \/ Reanudar
    <2>1. Tipos'
      BY <1>3, TiposIguales DEF Detener, Reanudar, Tipos
    <2>2. Hebras' /\ Efecto
      BY <1>3, NadaCambia DEF Detener, Reanudar
    <2> QED BY <2>1, <2>2 DEF Bueno
  <1>4. CASE MemoriaAtiende
    <2> DEFINE pcb == Head(red.aMemoria)
    <2>1. pcb \in Pcbs /\ Tail(red.aMemoria) \in Seq(Pcbs)
      BY <1>0, <1>4, RedTipo, HeadTailProperties DEF MemoriaAtiende
    <2>2. PICK n \in {"INSTRUCCIONES_CARGADAS", "ARCHIVO_NO_ENCONTRADO"} :
              red' = [red EXCEPT !.aMemoria = Tail(red.aMemoria),
                                 !.deMemoria = Append(red.deMemoria, Op(n, pcb))]
      BY <1>4 DEF MemoriaAtiende
    <2>3. Op(n, pcb) \in DeMemoria
      <3>1. n \in Paquetes
        BY DEF Paquetes
      <3> QED BY <2>1, <3>1, PaqueteTipo DEF DeMemoria
    <2>4. Append(red.deMemoria, Op(n, pcb)) \in Seq(DeMemoria)
      BY <1>0, <2>3, RedTipo, AppendProperties
    <2>5. TipoRed'
      BY <1>0, <2>1, <2>2, <2>4, RedTipo DEF TipoRed
    <2>6. Tipos'
      BY <1>4, <2>5, TiposIguales DEF MemoriaAtiende, Tipos, consola
    <2>7. Hebras' /\ Efecto
      BY <1>4, NadaCambia DEF MemoriaAtiende
    <2> QED BY <2>6, <2>7 DEF Bueno
  <1>5. CASE RecibirMemoria
    <2> DEFINE m == Head(red.deMemoria)
               s == IF m.op = "INSTRUCCIONES_CARGADAS"
                      THEN <<Simple("esperarGM"), Op("sacarNewReady", m.pcb)>>
                      ELSE <<Op("sacarNewExit", m.pcb)>>
    <2>1. m \in DeMemoria /\ Tail(red.deMemoria) \in Seq(DeMemoria)
      BY <1>0, <1>5, RedTipo, HeadTailProperties DEF RecibirMemoria
    <2>2. m.pcb \in Pcbs
      BY <2>1 DEF DeMemoria
    <2>3. Rutina(s, algoritmo)
      BY <2>2, SimpleLlana, OpLlana, RutinaDos, RutinaLlana
    <2>4. red' = [red EXCEPT !.deMemoria = Tail(red.deMemoria)]
      BY <1>5 DEF RecibirMemoria
    <2>5. TipoRed'
      BY <1>0, <2>1, <2>4, RedTipo DEF TipoRed
    <2>6. Tipos'
      BY <1>5, <2>5, TiposIguales DEF RecibirMemoria, Tipos, consola
    <2>7. /\ algoritmo' = algoritmo /\ tareas["memoria"] = <<>> /\ Listos' = Listos /\ sem' = sem
          /\ tareas' = [tareas EXCEPT !["memoria"] = s]
      BY <1>5 DEF RecibirMemoria, Libre, Listos, config
    <2> HIDE DEF m, s
    <2>8. Hebras' /\ Efecto
      BY <1>0, <2>3, <2>7, Empieza
    <2> QED BY <2>6, <2>8 DEF Bueno
  <1>6. CASE EsperarGM
    <2>1. TipoSem' /\ sem'.ready = sem.ready
      BY <1>6 DEF EsperarGM, Tipos, TipoSem
    <2>2. Tipos'
      BY <1>6, <2>1, TiposIguales DEF EsperarGM, Tipos, consola
    <2>3. Hebras' /\ Efecto
      BY <1>0, <1>6, <2>1, Hace DEF EsperarGM, LlanaOp
    <2> QED BY <2>2, <2>3 DEF Bueno
  <1>7. CASE SacarNew
    <2> DEFINE h == "memoria"
    <2>1. PICK n \in {"sacarNewReady", "sacarNewExit"} : En(h, n)
      BY <1>7 DEF SacarNew
    <2>2. Arg(h) \in Pcbs
      BY <1>0, <2>1, Turnos DEF ConSuPcb
    <2>3. colas' = [colas EXCEPT !.new = colas.new \ {Arg(h)}] /\ UNCHANGED config /\ sem' = sem
      BY <1>7 DEF SacarNew
    <2>4. colas.new \ {Arg(h)} \in SUBSET Pcbs
      BY <1>0, ColasTipo
    <2>5. colas' \in Colas /\ colas'.ready = colas.ready /\ colas'.priori = colas.priori
      BY <1>0, <2>3, <2>4, ColasTipo
    <2>6. \E mas : Rutina(mas, algoritmo) /\ Sigue(h, mas)
      <3>1. /\ Rutina(CargarReady(Arg(h)), algoritmo)
            /\ Rutina(LtsEx(Arg(h), "NEW"), algoritmo) /\ Rutina(LtsEx(Nulo, "NEW"), algoritmo)
        BY <2>2, CargarReadyRutina, LtsExRutina
      <3>2. \/ Sigue(h, CargarReady(Arg(h))) \/ Sigue(h, <<>>)
            \/ Sigue(h, LtsEx(Arg(h), "NEW")) \/ Sigue(h, LtsEx(Nulo, "NEW"))
        BY <1>7 DEF SacarNew
      <3> QED BY <1>0, <3>1, <3>2
    <2>7. Tipos'
      BY <1>7, <2>5, TiposIguales DEF SacarNew, Tipos, TipoColas, consola
    <2>8. n \in LlanaOp
      BY DEF LlanaOp
    <2>9. Hebras' /\ Efecto
      BY <1>0, <2>1, <2>3, <2>5, <2>6, <2>8, Hace
    <2> QED BY <2>7, <2>9 DEF Bueno
  <1> QED BY <1>1, <1>2, <1>3, <1>4, <1>5, <1>6, <1>7 DEF Admision

LEMMA EnviarTipo ==
    ASSUME TipoRed, NEW m \in AlKernel, Enviar(m)
    PROVE  TipoRed'
  <1>1. Append(red.aKernel, m) \in Seq(AlKernel)
    BY RedTipo, AppendProperties
  <1>2. red' = [red EXCEPT !.aKernel = Append(red.aKernel, m)]
    BY DEF Enviar
  <1> QED BY <1>1, <1>2, RedTipo DEF TipoRed

LEMMA AlKernelTipo ==
    ASSUME NEW n \in {"CONFIRMAR_EXEC", "INTERRUMPIO_PROCESO", "ERROR_OUT_OF_MEMORY",
                      "TERMINO_EJECUCION"},
           NEW pcb \in Pcbs \cup {Nulo}, n # "CONFIRMAR_EXEC" => pcb \in Pcbs
    PROVE  Op(n, pcb) \in AlKernel
  <1>1. n \in Paquetes
    BY DEF Paquetes
  <1>2. Op(n, pcb) \in Paquete /\ Op(n, pcb).op = n /\ Op(n, pcb).pcb = pcb
    BY <1>1, PaqueteTipo
  <1> QED BY <1>2 DEF AlKernel

LEMMA CpuPaso ==
    ASSUME Tipos, Hebras, CPU \/ CpuAviso
    PROVE  Bueno
  <1>0. TipoRed /\ TipoCpu /\ TipoConfig
    BY DEF Tipos
  <1>00. /\ UNCHANGED <<config, colas, sem, marcas, consola, recursos, tareas, caida>>
    BY DEF CPU, CpuRecibe, CpuTermina, CpuEjecuta, CpuSyscall, CpuSinMemoria, CpuConfirma,
           CpuSigue, CpuInterrumpida, CpuAviso
  <1>1. TipoRed' /\ TipoCpu'
    <2>1. CASE CpuRecibe
      <3>1. Head(red.aCpu) \in AlCpu /\ Tail(red.aCpu) \in Seq(AlCpu)
        BY <1>0, <2>1, RedTipo, HeadTailProperties DEF CpuRecibe
      <3>2. Simple("CONFIRMAR_EXEC") \in AlKernel
        BY AlKernelTipo DEF Simple
      <3>3. Append(red.aKernel, Simple("CONFIRMAR_EXEC")) \in Seq(AlKernel)
        BY <1>0, <3>2, RedTipo, AppendProperties
      <3>4. red' = [red EXCEPT !.aCpu = Tail(red.aCpu),
                               !.aKernel = Append(red.aKernel, Simple("CONFIRMAR_EXEC"))]
        BY <2>1 DEF CpuRecibe
      <3>5. TipoRed'
        BY <1>0, <3>1, <3>3, <3>4, RedTipo DEF TipoRed
      <3>6. TipoCpu'
        <4>1. CASE Head(red.aCpu).op = "EXEC_PROCESO"
          <5>1. Head(red.aCpu).pcb \in Pcbs
            BY <3>1, <4>1 DEF AlCpu
          <5>2. cpu' = [cpu EXCEPT !.st = "ejecuta", !.pcb = Head(red.aCpu).pcb]
            BY <2>1, <4>1 DEF CpuRecibe
          <5> QED BY <1>0, <5>1, <5>2 DEF TipoCpu
        <4>2. CASE Head(red.aCpu).op # "EXEC_PROCESO"
          BY <1>0, <2>1, <4>2 DEF CpuRecibe, TipoCpu
        <4> QED BY <4>1, <4>2
      <3> QED BY <3>5, <3>6
    <2>2. CASE CpuTermina
      <3>1. cpu.pcb \in Pcbs
        BY <1>0, <2>2 DEF CpuTermina, TipoCpu
      <3>2. Op("TERMINO_EJECUCION", cpu.pcb) \in AlKernel
        BY <3>1, AlKernelTipo
      <3> QED BY <1>0, <2>2, <3>2, EnviarTipo DEF CpuTermina, TipoCpu
    <2>3. CASE CpuEjecuta
      <3>1. cpu.pcb \in Pcbs
        BY <1>0, <2>3 DEF CpuEjecuta, TipoCpu
      <3>2. Avanzado(cpu.pcb) \in Pcbs
        BY <3>1, AvanzadoTipo
      <3>3. cpu' = [cpu EXCEPT !.st = "chequea", !.sys = FALSE, !.pcb = Avanzado(cpu.pcb)]
        BY <2>3 DEF CpuEjecuta
      <3>4. red' = red
        BY <2>3 DEF CpuEjecuta
      <3> QED BY <1>0, <3>2, <3>3, <3>4 DEF TipoCpu, TipoRed
    <2>4. CASE CpuSyscall
      <3>1. cpu.pcb \in Pcbs /\ cpu.pcb.pid \in Procesos /\ cpu.pcb.pc \in Nat \ {0}
        BY <1>0, <2>4 DEF CpuSyscall, TipoCpu, Pcbs
      <3>2. Avanzado(cpu.pcb) \in Pcbs
        BY <3>1, AvanzadoTipo
      <3>3. Instruccion \in Instrucciones
        <4>1. programa[cpu.pcb.pid] \in Seq(Instrucciones)
          BY <1>0, <3>1 DEF TipoConfig
        <4>2. cpu.pcb.pc \in DOMAIN programa[cpu.pcb.pid]
          BY <2>4, <3>1, <4>1, LenProperties DEF CpuSyscall, HayInstruccion
        <4> QED BY <4>1, <4>2 DEF Instruccion
      <3>4. Instruccion[1] \in {"WAIT", "SIGNAL", "IO"}
        BY <2>4 DEF CpuSyscall
      <3>5. Instruccion[2] \in STRING
        BY <3>3, <3>4 DEF Instrucciones
      <3>6. OpRec(Instruccion[1], Avanzado(cpu.pcb), Instruccion[2]) \in AlKernel
        BY <3>2, <3>4, <3>5 DEF OpRec, AlKernel, Paquete, Paquetes, Campos, Refs
      <3>7. cpu' = [cpu EXCEPT !.st = "confirma", !.pcb = Avanzado(cpu.pcb)]
        BY <2>4 DEF CpuSyscall
      <3>8. TipoRed'
        BY <1>0, <2>4, <3>6, EnviarTipo DEF CpuSyscall
      <3> QED BY <1>0, <3>2, <3>7, <3>8 DEF TipoCpu
    <2>5. CASE CpuSinMemoria
      <3>1. cpu.pcb \in Pcbs
        BY <1>0, <2>5 DEF CpuSinMemoria, TipoCpu
      <3>2. Op("ERROR_OUT_OF_MEMORY", cpu.pcb) \in AlKernel
        BY <3>1, AlKernelTipo
      <3>3. cpu' = [cpu EXCEPT !.st = "confirma"]
        BY <2>5 DEF CpuSinMemoria
      <3>4. TipoRed'
        BY <1>0, <2>5, <3>2, EnviarTipo DEF CpuSinMemoria
      <3> QED BY <1>0, <3>1, <3>3, <3>4 DEF TipoCpu
    <2>6. CASE CpuConfirma
      <3>1. Tail(red.aCpu) \in Seq(AlCpu)
        BY <1>0, <2>6, RedTipo, HeadTailProperties DEF CpuConfirma
      <3>2. red' = [red EXCEPT !.aCpu = Tail(red.aCpu)]
        BY <2>6 DEF CpuConfirma
      <3>3. TipoRed'
        BY <1>0, <3>1, <3>2, RedTipo DEF TipoRed
      <3>4. TipoCpu'
        BY <1>0, <2>6 DEF CpuConfirma, TipoCpu
      <3> QED BY <3>3, <3>4
    <2>7. CASE CpuSigue
      BY <1>0, <2>7 DEF CpuSigue, TipoCpu, TipoRed
    <2>8. CASE CpuInterrumpida
      <3>1. cpu.pcb \in Pcbs
        BY <1>0, <2>8 DEF CpuInterrumpida, TipoCpu
      <3>2. Op("INTERRUMPIO_PROCESO", cpu.pcb) \in AlKernel
        BY <3>1, AlKernelTipo
      <3>3. TipoRed'
        BY <1>0, <2>8, <3>2, EnviarTipo DEF CpuInterrumpida
      <3>4. TipoCpu'
        BY <1>0, <2>8 DEF CpuInterrumpida, TipoCpu
      <3> QED BY <3>3, <3>4
    <2>9. CASE CpuAviso
      <3>1. red.interr - 1 \in Nat
        <4>1. red.interr \in Nat /\ red.interr > 0
          BY <1>0, <2>9, RedTipo DEF CpuAviso
        <4> QED BY <4>1
      <3>2. red' = [red EXCEPT !.interr = red.interr - 1]
        BY <2>9 DEF CpuAviso
      <3>3. TipoRed'
        BY <1>0, <3>1, <3>2, RedTipo DEF TipoRed
      <3>4. TipoCpu'
        BY <1>0, <2>9 DEF CpuAviso, TipoCpu
      <3> QED BY <3>3, <3>4
    <2> QED BY <2>1, <2>2, <2>3, <2>4, <2>5, <2>6, <2>7, <2>8, <2>9 DEF CPU
  <1>2. Tipos'
    BY <1>00, <1>1, TiposIguales DEF Tipos, consola
  <1>3. Hebras' /\ Efecto
    BY <1>00, NadaCambia
  <1> QED BY <1>2, <1>3 DEF Bueno

-----------------------------------------------------------------------------
(* The invariant.                                                          *)

Inv == Tipos /\ Hebras /\ Cuenta /\ Busca /\ SoloVRR

LEMMA Empezar ==
    ASSUME Init
    PROVE  Inv
  <1>1. TipoConfig
    BY DespachoAssumption DEF Init, TipoConfig
  <1>2. TipoColas
    BY DEF Init, TipoColas, Colas
  <1>3. TipoSem /\ TipoConsola
    BY DespachoAssumption DEF Init, TipoSem, TipoConsola
  <1>4. TipoRecursos
    <2>1. R!ListaVacia \in Listas
      <3>1. R!ListaVacia \in [{} -> Int]
        BY DEF R!ListaVacia
      <3> QED BY <3>1 DEF Listas
    <2> QED BY <2>1, DespachoAssumption DEF Init, TipoRecursos
  <1>5. TipoRed
    BY DEF Init, TipoRed, Red
  <1>6. TipoCpu
    BY DEF Init, TipoCpu
  <1>7. Tipos
    BY <1>1, <1>2, <1>3, <1>4, <1>5, <1>6 DEF Tipos
  <1>8. \A h \in Hilos : tareas[h] = <<>>
    BY DEF Init
  <1>9. "planificacion" \in Hilos /\ "quantum" \in Hilos
    BY DEF Hilos
  <1>10. Hebras
    BY <1>8, <1>9 DEF Init, Hebras, TipoTareas, Bien, Cabeza, Dormida
  <1>11. ~ Toma(Planif) /\ Busca /\ SoloVRR
    BY <1>8, <1>9 DEF Init, Toma, Busca, Saca, SoloVRR, Planif
  <1>12. Cardinality(Pend1) = 0
    <2>1. Pend1 = {}
      BY <1>8 DEF Pend1, Pend
    <2> QED BY <2>1, FS_EmptySet
  <1>13. Cuenta
    <2>1. sem.ready = 0 /\ Len(colas.ready) = 0 /\ Len(colas.priori) = 0
      BY DEF Init
    <2> QED BY <1>11, <1>12, <2>1 DEF Cuenta
  <1> QED BY <1>7, <1>10, <1>11, <1>13 DEF Inv

LEMMA Seguir ==
    ASSUME Inv, [Next]_vars
    PROVE  Inv'
  <1>0. Tipos /\ Hebras
    BY DEF Inv
  <1>1. algoritmo' = algoritmo
    BY DEF Next, vars, Comun, PushReady, PushPriori, PostReady, LiberarCPU, EnviarExec, Marcar,
           EnviarInterrupcion, PostGM, DevolverRecursos, SignalPorFin, DestruirLista, PushExit,
           Planificador, EmpezarTurno, EsperarReady, TomarCPU, MirarPriori, SacarReady, SacarPriori,
           PushExec, PopExec, EsperarConfirmacion, CrearQuantum, UnirQuantum, Despertar,
           Receptor, RecibirDispatch, PostConfirmacion, Confirmar, ElegirMotivo, LimpiarError,
           CancelarQuantum, ModificarQuantum, DesalojarExec, Wait, Encolar, Signal, OcuparIO,
           RechazarIO, TerminarIO, Admision, IniciarProceso, ListarNew, Detener, Reanudar,
           MemoriaAtiende, RecibirMemoria, EsperarGM, SacarNew, CPU, CpuRecibe, CpuTermina,
           CpuEjecuta, CpuSyscall, CpuSinMemoria, CpuConfirma, CpuSigue, CpuInterrumpida, CpuAviso,
           Terminado, config
  <1>2. Bueno
    <2>1. CASE UNCHANGED vars
      <3>1. Tipos'
        BY <1>0, <2>1, TiposIguales DEF vars, Tipos, config, recursos
      <3>2. Hebras' /\ Efecto
        BY <1>0, <2>1, NadaCambia DEF vars, config
      <3> QED BY <3>1, <3>2 DEF Bueno
    <2>2. CASE \E h \in Hilos : Comun(h)
      BY <1>0, <2>2, ComunPaso
    <2>3. CASE Planificador \/ Despertar
      BY <1>0, <2>3, PlanificadorPaso
    <2>4. CASE Receptor
      BY <1>0, <2>4, ReceptorPaso
    <2>5. CASE TerminarIO
      BY <1>0, <2>5, TerminarIOPaso
    <2>6. CASE Admision
      BY <1>0, <2>6, AdmisionPaso
    <2>7. CASE CPU \/ CpuAviso
      BY <1>0, <2>7, CpuPaso
    <2> QED BY <2>1, <2>2, <2>3, <2>4, <2>5, <2>6, <2>7 DEF Next, Terminado
  <1>3. Tipos' /\ Hebras' /\ Cuenta' /\ Busca' /\ SoloVRR'
    BY <1>0, <1>1, <1>2, CuentaPaso DEF Bueno, Inv
  <1> QED BY <1>3 DEF Inv

THEOREM Siempre == Spec => []Inv
  <1>1. Init => Inv
    BY Empezar
  <1>2. Inv /\ [Next]_vars => Inv'
    BY Seguir
  <1> QED BY <1>1, <1>2, PTL DEF Spec

-----------------------------------------------------------------------------
(* The theorems.                                                           *)

LEMMA PcbsSonTipos ==
    ASSUME NEW pcb \in Pcbs
    PROVE  EsPcb(pcb) /\ pcb \in [pid : Procesos, pc : Nat, q : Nat]
  BY DEF Pcbs, EsPcb

\* TypeOK: whatever the threads, the CPU and memoria interleave, the queues of the kernel
\* and the packets that carry a PCB hold no NULL, the semaphores do not go below zero,
\* sem_CPU_libre is a mutex, and the CPU has a PCB whenever it is not waiting for one.
THEOREM DespachoTypeOK == Spec => []TypeOK
  <1>1. Inv => TypeOK
    <2> SUFFICES ASSUME Inv
                 PROVE  TypeOK
      OBVIOUS
    <2>1. TipoColas /\ TipoSem /\ TipoConsola /\ TipoCpu /\ TipoTareas /\ TipoRecursos /\ TipoRed
      BY DEF Inv, Tipos, Hebras
    <2>2. \A pcb \in colas.new \cup colas.io : EsPcb(pcb)
      <3>1. colas.new \subseteq Pcbs /\ colas.io \subseteq Pcbs
        BY <2>1 DEF TipoColas, Colas
      <3> QED BY <3>1, PcbsSonTipos
    <2>3. /\ \A i \in DOMAIN colas.ready : EsPcb(colas.ready[i])
          /\ \A i \in DOMAIN colas.priori : EsPcb(colas.priori[i])
      BY <2>1, ColasTipo, PcbsSonTipos
    <2>4. colas.exec \in Seq(Procesos) /\ colas.exit \in Seq(Procesos)
      BY <2>1, ColasTipo
    <2>5. sem.ready \in Nat /\ sem.gm \in Nat /\ sem.exec \in Nat /\ sem.cpu \in {0, 1}
      BY <2>1 DEF TipoSem
    <2>6. marcas \subseteq {"error_memoria", "syscall", "interrumpi"}
      BY <2>1 DEF TipoConsola, Motivos
    <2>7. ASSUME NEW h \in Hilos, NEW i \in DOMAIN tareas[h]
          PROVE  EsOp(tareas[h][i])
      <3>1. tareas[h][i] \in Tarea
        BY <2>1 DEF TipoTareas
      <3> QED BY <3>1 DEF Tarea, Oper, Campos, EsOp
    <2>8. /\ cpu.st \in {"espera", "ejecuta", "confirma", "chequea"}
          /\ cpu.st # "espera" => EsPcb(cpu.pcb)
      BY <2>1, PcbsSonTipos DEF TipoCpu
    <2>9. \A r \in Nombres : \A i \in DOMAIN colaRec[r] : EsPcb(colaRec[r][i])
      <3>1. ASSUME NEW r \in Nombres, NEW i \in DOMAIN colaRec[r]
            PROVE  colaRec[r][i] \in Pcbs
        BY <2>1 DEF TipoRecursos
      <3> QED BY <3>1, PcbsSonTipos
    <2>10. ASSUME NEW i \in DOMAIN red.aCpu, red.aCpu[i].op = "EXEC_PROCESO"
           PROVE  EsPcb(red.aCpu[i].pcb)
      <3>1. red.aCpu[i] \in AlCpu
        BY <2>1 DEF TipoRed, Red
      <3>2. red.aCpu[i].pcb \in Pcbs
        BY <2>10, <3>1 DEF AlCpu
      <3> QED BY <3>2, PcbsSonTipos
    <2>11. ASSUME NEW i \in DOMAIN red.aKernel, red.aKernel[i].op # "CONFIRMAR_EXEC"
           PROVE  EsPcb(red.aKernel[i].pcb)
      <3>1. red.aKernel[i] \in AlKernel
        BY <2>1 DEF TipoRed, Red
      <3>2. red.aKernel[i].pcb \in Pcbs
        BY <2>11, <3>1 DEF AlKernel
      <3> QED BY <3>2, PcbsSonTipos
    <2> QED BY <2>2, <2>3, <2>4, <2>5, <2>6, <2>7, <2>8, <2>9, <2>10, <2>11 DEF TypeOK
  <1> QED BY <1>1, Siempre, PTL

\* CuentaReady: sem_cont_ready agrees with cola_ready and cola_ready_priori, for any
\* number of processes, programs, resources and degree, under the three algorithms,
\* in whatever order the threads that push, post, wait and pop run, as long as no
\* FINALIZAR_PROCESO is given.
THEOREM SemaforoExacto == Spec => []CuentaReady
  <1>1. Inv => CuentaReady
    <2> SUFFICES ASSUME Inv, ~ caida
                 PROVE  sem.ready + TomadoEnCuenta + Pendientes
                          = Len(colas.ready) + Len(colas.priori)
      BY DEF CuentaReady
    <2>1. Pendientes = Cardinality(Pend1)
      <3>1. Pend1 = {h \in Hilos : En(h, "postReady") \/ En(h, "popExec")}
        BY DEF Pend1, Pend, En
      <3> QED BY <3>1 DEF Pendientes
    <2>2. TomadoEnCuenta = IF Toma(Planif) THEN 1 ELSE 0
      <3>1. Toma(Planif) <=> \E o \in {"tomarCPU", "mirarPriori", "sacarReady", "sacarPriori"} :
                                 En("planificacion", o)
        BY DEF Toma, Planif, En
      <3> QED BY <3>1 DEF TomadoEnCuenta
    <2> QED BY <2>1, <2>2 DEF Inv, Cuenta
  <1> QED BY <1>1, Siempre, PTL

\* SacaConProceso: when the planner pops one of the ready queues there is a process
\* in it, so the NULL of queue_pop never reaches planificacion.c:318, 351, 440 or 446
\* as long as no FINALIZAR_PROCESO takes a process out of them.
THEOREM NuncaSacaDeVacia == Spec => []SacaConProceso
  <1>1. Inv => SacaConProceso
    BY DEF Inv, Busca, Saca, Planif, SacaConProceso, En
  <1> QED BY <1>1, Siempre, PTL

=============================================================================
