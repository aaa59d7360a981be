--------------------------- MODULE RecursosProofs ---------------------------
(***************************************************************************)
(* Proofs about the resource manager, for any finite set of processes, any *)
(* resources, interface threads and configured instances.                  *)
(*                                                                         *)
(* DeudaCubierta is inductive with the types alone.  EsperaUnica is not: a *)
(* thread that ends a process writes its state, so it must be known that   *)
(* this process is not waiting in a queue.  FinSaliendo says so, and IInv  *)
(* is the conjunction.  Conservacion needs also where the requests of a    *)
(* process are counted while a thread returns them (Cuentas), and what a   *)
(* sum over the processes does when one of its terms changes; Exclusion    *)
(* follows from Conservacion and DeudaCubierta.                            *)
(***************************************************************************)
EXTENDS Recursos, FiniteSetTheorems, WellFoundedInduction, TLAPS

USE RecursosAssumption

\* A process that some thread is finishing is marked, and only by one thread.
FinSaliendo ==
    /\ \A h \in Hilos : fin[h] # Nadie => estado[fin[h]] = "SALIENDO"
    /\ \A g, h \in Hilos : fin[g] = fin[h] /\ fin[g] # Nadie => g = h

IInv == TypeOK /\ EsperaUnica /\ FinSaliendo

-----------------------------------------------------------------------------
\* What a list of requests is after one more, and after one less.
LEMMA ListasLemma ==
    ASSUME NEW l, EsLista(l), NEW r \in Nombres
    PROVE  /\ Cuenta(l, r) \in Int
           /\ EsLista(Anotada(l, r))
           /\ EsLista(Desanotada(l, r))
           /\ EsLista(ListaVacia)
           /\ Liberaciones(l) \in [Nombres -> Nat]
  BY DEF EsLista, Cuenta, Anotada, Desanotada, ListaVacia, Liberaciones

\* Taking an instance on account keeps the types.
LEMMA RestarTipo ==
    ASSUME TypeOK, NEW p \in Procesos, NEW r \in Nombres, Restar(p, r)
    PROVE  /\ instancias' \in [Nombres -> Int]
           /\ rec' = [q \in Procesos |-> rec'[q]]
           /\ \A q \in Procesos : EsLista(rec'[q])
  <1>1. EsLista(Anotada(rec[p], r))
    BY ListasLemma DEF TypeOK
  <1> QED BY <1>1 DEF Restar, TypeOK

\* Returning an instance keeps the types.
LEMMA SumarTipo ==
    ASSUME TypeOK, NEW r \in Nombres, Sumar(r)
    PROVE  /\ instancias' \in [Nombres -> Int]
           /\ cola' \in [Nombres -> Seq(Procesos)]
           /\ estado' \in [Procesos -> Estados]
  <1>1. instancias' \in [Nombres -> Int]
    BY DEF Sumar, TypeOK
  <1>2. CASE Despierta(r)
    <2>1. Head(cola[r]) \in Procesos /\ Tail(cola[r]) \in Seq(Procesos)
      BY <1>2 DEF TypeOK, Despierta
    <2> QED BY <1>1, <1>2, <2>1 DEF Sumar, TypeOK, Estados
  <1>3. CASE ~Despierta(r)
    BY <1>1, <1>3 DEF Sumar, TypeOK
  <1> QED BY <1>2, <1>3

\* Ending a process, first half: types.
LEMMA EmpezarFinTipo ==
    ASSUME TypeOK, NEW h \in Hilos, NEW p \in Procesos, EmpezarFin(h, p)
    PROVE  TypeOK'
  <1>1. Liberaciones(rec[p]) \in [Nombres -> Nat]
    BY ListasLemma DEF TypeOK, Liberaciones, Cuenta, EsLista
  <1> QED BY <1>1 DEF EmpezarFin, TypeOK, Estados

\* Every step keeps the types.
LEMMA TipoPaso ==
    ASSUME TypeOK, [Next]_vars
    PROVE  TypeOK'
  <1>1. ASSUME NEW p \in Procesos,
               Despachar(p) \/ FinQuantum(p) \/ EsperarIO(p)
                 \/ \E h \in HilosIO : FinIO(h, p)
        PROVE  TypeOK'
    BY <1>1 DEF Despachar, FinQuantum, EsperarIO, FinIO, TypeOK, Estados
  <1>2. ASSUME NEW p \in Procesos, NEW r \in Nombres, AtenderWait(p, r)
        PROVE  TypeOK'
    <2>1. Restar(p, r) /\ UNCHANGED <<fin, porSoltar>>
      BY <1>2 DEF AtenderWait, WaitConcedido, WaitBloqueado
    <2>2. cola' \in [Nombres -> Seq(Procesos)]
      <3>1. Append(cola[r], p) \in Seq(Procesos)
        BY DEF TypeOK
      <3> QED BY <1>2, <3>1 DEF AtenderWait, WaitConcedido, WaitBloqueado, TypeOK
    <2>3. estado' \in [Procesos -> Estados]
      BY <1>2 DEF AtenderWait, WaitConcedido, WaitBloqueado, TypeOK, Estados
    <2> QED BY <2>1, <2>2, <2>3, RestarTipo DEF TypeOK
  <1>3. ASSUME NEW p \in Procesos, NEW r \in Nombres, AtenderSignal(p, r)
        PROVE  TypeOK'
    <2>1. EsLista(Desanotada(rec[p], r))
      BY ListasLemma DEF TypeOK
    <2>2. /\ rec' = [q \in Procesos |-> rec'[q]]
          /\ \A q \in Procesos : EsLista(rec'[q])
      BY <1>3, <2>1 DEF AtenderSignal, TypeOK
    <2> QED BY <1>3, <2>2, SumarTipo DEF AtenderSignal, TypeOK
  <1>4. ASSUME NEW p \in Procesos,
               TerminarEjecucion(p) \/ \E h \in HilosIO : Desconectar(h, p)
        PROVE  TypeOK'
    BY <1>4, EmpezarFinTipo DEF TerminarEjecucion, Desconectar, Hilos
  <1>5. ASSUME NEW h \in Hilos, NEW r \in Nombres, SignalPorFin(h, r)
        PROVE  TypeOK'
    <2>1. porSoltar' \in [Hilos -> [Nombres -> Nat]]
      BY <1>5 DEF SignalPorFin, TypeOK
    <2>2. fin[h] # Nadie
      BY <1>5 DEF SignalPorFin, TypeOK
    <2>3. \A g \in Hilos : fin'[g] = Nadie => porSoltar'[g] = [s \in Nombres |-> 0]
      BY <1>5, <2>2 DEF SignalPorFin, TypeOK
    <2> QED BY <1>5, <2>1, <2>3, SumarTipo DEF SignalPorFin, TypeOK
  <1>6. ASSUME NEW h \in Hilos, TerminarFin(h)
        PROVE  TypeOK'
    <2>1. EsLista(ListaVacia)
      BY DEF EsLista, ListaVacia
    <2>2. porSoltar[h] = [r \in Nombres |-> 0]
      BY <1>6 DEF TerminarFin, TypeOK
    <2> QED BY <1>6, <2>1, <2>2 DEF TerminarFin, TypeOK, Estados
  <1>7. CASE UNCHANGED vars
    BY <1>7 DEF vars, TypeOK
  <1> QED BY <1>1, <1>2, <1>3, <1>4, <1>5, <1>6, <1>7 DEF Next

\* The resource manager is well typed.
THEOREM TipoCorrecto == Spec => []TypeOK
  <1>1. Init => TypeOK
    BY DEF Init, TypeOK, Estados, EsLista, ListaVacia
  <1>2. TypeOK /\ [Next]_vars => TypeOK'
    BY TipoPaso
  <1> QED BY <1>1, <1>2, PTL DEF Spec

-----------------------------------------------------------------------------
\* Waiting requests cover a negative balance, whatever the programs do and
\* however many threads are finishing processes.
LEMMA SumarDeuda ==
    ASSUME TypeOK, DeudaCubierta, NEW r \in Nombres, Sumar(r)
    PROVE  DeudaCubierta'
  <1>1. CASE Despierta(r)
    <2>1. Len(cola'[r]) = Len(cola[r]) - 1 /\ instancias'[r] = instancias[r] + 1
      BY <1>1 DEF Sumar, Despierta, TypeOK
    <2>2. Len(cola[r]) \in Nat /\ Len(cola[r]) >= 1
      BY <1>1 DEF Despierta, TypeOK
    <2>3. instancias'[r] + Len(cola'[r]) >= 0
      BY <1>1, <2>1, <2>2 DEF Despierta, TypeOK
    <2>4. \A s \in Nombres \ {r} : cola'[s] = cola[s] /\ instancias'[s] = instancias[s]
      BY <1>1 DEF Sumar, TypeOK
    <2> QED BY <2>3, <2>4 DEF DeudaCubierta
  <1>2. CASE ~Despierta(r)
    <2>1. \A s \in Nombres : Len(cola[s]) \in Nat
      BY DEF TypeOK
    <2> QED BY <1>2, <2>1 DEF Sumar, DeudaCubierta, TypeOK
  <1> QED BY <1>1, <1>2

LEMMA DeudaPaso ==
    ASSUME TypeOK, DeudaCubierta, [Next]_vars
    PROVE  DeudaCubierta'
  <1>1. CASE UNCHANGED <<instancias, cola>>
    BY <1>1 DEF DeudaCubierta
  <1>2. ASSUME NEW p \in Procesos, NEW r \in Nombres, AtenderWait(p, r)
        PROVE  DeudaCubierta'
    <2>1. \A s \in Nombres : Len(cola[s]) \in Nat
      BY DEF TypeOK
    <2>2. instancias'[r] = instancias[r] - 1
          /\ \A s \in Nombres \ {r} : instancias'[s] = instancias[s]
      BY <1>2 DEF AtenderWait, WaitConcedido, WaitBloqueado, Restar, TypeOK
    <2>3. CASE WaitConcedido(p, r)
      <3>1. cola' = cola /\ instancias'[r] >= 0
        BY <2>2, <2>3 DEF WaitConcedido, TypeOK
      <3>2. instancias'[r] + Len(cola'[r]) >= 0
        BY <2>1, <2>2, <3>1 DEF DeudaCubierta, TypeOK
      <3> QED BY <2>2, <3>1, <3>2 DEF DeudaCubierta
    <2>4. CASE WaitBloqueado(p, r)
      <3>1. Len(cola'[r]) = Len(cola[r]) + 1
            /\ \A s \in Nombres \ {r} : cola'[s] = cola[s]
        BY <2>4 DEF WaitBloqueado, TypeOK
      <3>2. instancias'[r] + Len(cola'[r]) >= 0
        BY <2>1, <2>2, <3>1 DEF DeudaCubierta, TypeOK
      <3> QED BY <2>2, <3>1, <3>2 DEF DeudaCubierta
    <2> QED BY <1>2, <2>3, <2>4 DEF AtenderWait
  <1>3. ASSUME NEW p \in Procesos, NEW r \in Nombres, AtenderSignal(p, r)
        PROVE  DeudaCubierta'
    BY <1>3, SumarDeuda DEF AtenderSignal
  <1>4. ASSUME NEW h \in Hilos, NEW r \in Nombres, SignalPorFin(h, r)
        PROVE  DeudaCubierta'
    BY <1>4, SumarDeuda DEF SignalPorFin
  <1> QED BY <1>1, <1>2, <1>3, <1>4
          DEF Next, vars, Despachar, FinQuantum, EsperarIO, FinIO,
              TerminarEjecucion, Desconectar, EmpezarFin, TerminarFin

\* No interleaving of waits, signals and endings lets more requests through
\* than there are instances: a negative balance is always covered by waiters.
THEOREM NuncaSeConcedeDeMas == Spec => []DeudaCubierta
  <1>1. Init => DeudaCubierta
    BY DEF Init, DeudaCubierta
  <1>2. TypeOK /\ DeudaCubierta /\ [Next]_vars => DeudaCubierta'
    BY DeudaPaso
  <1> QED BY <1>1, <1>2, TipoCorrecto, PTL DEF Spec

-----------------------------------------------------------------------------
\* A process that does not wait can be put at the end of a queue.
LEMMA EncolarEspera ==
    ASSUME TypeOK, EsperaUnica, NEW p \in Procesos, NEW r \in Nombres,
           estado[p] # "BLOCKED",
           cola' = [cola EXCEPT ![r] = Append(@, p)],
           estado' = [estado EXCEPT ![p] = "BLOCKED"]
    PROVE  EsperaUnica'
  <1> DEFINE n == Len(cola[r])
  <1>1. n \in Nat /\ cola'[r] = Append(cola[r], p)
        /\ \A s \in Nombres : s # r => cola'[s] = cola[s]
    BY DEF TypeOK
  <1>2. Len(cola'[r]) = n + 1 /\ cola'[r][n + 1] = p
        /\ \A i \in 1..n : cola'[r][i] = cola[r][i]
    BY <1>1 DEF TypeOK
  <1>3. \A s \in Nombres : \A i \in 1..Len(cola[s]) : cola[s][i] # p
    BY DEF EsperaUnica, EnCola
  <1> HIDE DEF n
  <1>4. ASSUME NEW s \in Nombres, NEW i \in 1..Len(cola'[s])
        PROVE  \/ s = r /\ i = n + 1 /\ cola'[s][i] = p
               \/ i \in 1..Len(cola[s]) /\ cola'[s][i] = cola[s][i]
    BY <1>1, <1>2 DEF n
  <1>5. \A r1, r2 \in Nombres : \A i \in 1..Len(cola'[r1]), j \in 1..Len(cola'[r2]) :
            cola'[r1][i] = cola'[r2][j] => r1 = r2 /\ i = j
    BY <1>3, <1>4 DEF EsperaUnica
  <1>6. ASSUME NEW q \in Procesos, q # p
        PROVE  estado'[q] = "BLOCKED" <=> \E s \in Nombres : EnCola(q, s)'
    <2>1. estado'[q] = estado[q]
      BY <1>6 DEF TypeOK
    <2>2. ASSUME NEW s \in Nombres
          PROVE  EnCola(q, s)' <=> EnCola(q, s)
      <3>1. CASE s = r
        BY <1>1, <1>2, <1>4, <1>6, <3>1 DEF EnCola, n
      <3>2. CASE s # r
        BY <1>1, <3>2 DEF EnCola
      <3> QED BY <3>1, <3>2
    <2> QED BY <2>1, <2>2 DEF EsperaUnica
  <1>7. estado'[p] = "BLOCKED" /\ EnCola(p, r)'
    BY <1>1, <1>2 DEF EnCola, TypeOK
  <1> QED BY <1>5, <1>6, <1>7 DEF EsperaUnica

\* Returning an instance wakes at most one process, and only a waiting one.
LEMMA SumarEspera ==
    ASSUME TypeOK, EsperaUnica, NEW r \in Nombres, Sumar(r)
    PROVE  /\ EsperaUnica'
           /\ \A p \in Procesos : estado[p] # "BLOCKED" => estado'[p] = estado[p]
           /\ \A p \in Procesos : estado[p] = "BLOCKED" => estado'[p] \in {"BLOCKED", "READY"}
  <1>1. CASE ~Despierta(r)
    <2>1. cola' = cola /\ estado' = estado
      BY <1>1 DEF Sumar
    <2> QED BY <2>1 DEF EsperaUnica, EnCola
  <1>2. CASE Despierta(r)
    <2>1. cola[r] \in Seq(Procesos) /\ cola[r] # <<>>
      BY <1>2 DEF Despierta, TypeOK
    <2>0. PICK p \in Procesos : p = Head(cola[r])
      BY <2>1
    <2>2. p = cola[r][1] /\ 1 \in 1..Len(cola[r])
      BY <2>0, <2>1
    <2>3. cola'[r] = Tail(cola[r]) /\ estado' = [estado EXCEPT ![p] = "READY"]
          /\ \A s \in Nombres : s # r => cola'[s] = cola[s]
      BY <1>2, <2>0 DEF Sumar, TypeOK
    <2>4. Len(cola'[r]) = Len(cola[r]) - 1 /\ Len(cola[r]) \in Nat
          /\ \A i \in 1..Len(cola'[r]) : cola'[r][i] = cola[r][i + 1]
      BY <2>1, <2>3
    <2>5. estado[p] = "BLOCKED"
      BY <2>2 DEF EsperaUnica, EnCola
    <2>6. ASSUME NEW s \in Nombres, NEW i \in 1..Len(cola'[s])
          PROVE  \/ s = r /\ i + 1 \in 1..Len(cola[s]) /\ cola'[s][i] = cola[s][i + 1]
                 \/ s # r /\ i \in 1..Len(cola[s]) /\ cola'[s][i] = cola[s][i]
      <3>1. CASE s = r
        BY <2>4, <3>1
      <3>2. CASE s # r
        BY <2>3, <3>2
      <3> QED BY <3>1, <3>2
    <2>7. \A r1, r2 \in Nombres : \A i \in 1..Len(cola'[r1]), j \in 1..Len(cola'[r2]) :
              cola'[r1][i] = cola'[r2][j] => r1 = r2 /\ i = j
      <3> SUFFICES ASSUME NEW r1 \in Nombres, NEW r2 \in Nombres,
                          NEW i \in 1..Len(cola'[r1]), NEW j \in 1..Len(cola'[r2]),
                          cola'[r1][i] = cola'[r2][j]
                   PROVE  r1 = r2 /\ i = j
        OBVIOUS
      <3>1. i \in Int /\ j \in Int
        OBVIOUS
      <3>2. CASE r1 = r /\ r2 = r
        <4>1. i + 1 = j + 1
          BY <2>6, <3>2 DEF EsperaUnica
        <4> QED BY <3>1, <3>2, <4>1
      <3>3. CASE r1 # r /\ r2 # r
        BY <2>6, <3>3 DEF EsperaUnica
      <3>4. CASE (r1 = r /\ r2 # r) \/ (r1 # r /\ r2 = r)
        BY <2>6, <3>4 DEF EsperaUnica
      <3> QED BY <3>2, <3>3, <3>4
    <2>8. \A s \in Nombres : ~EnCola(p, s)'
      <3> SUFFICES ASSUME NEW s \in Nombres, NEW i \in 1..Len(cola'[s]), cola'[s][i] = p
                   PROVE  FALSE
        BY DEF EnCola
      <3>1. i \in Int /\ i >= 1
        OBVIOUS
      <3>2. CASE s = r
        <4>1. i + 1 = 1
          BY <2>2, <2>6, <3>2 DEF EsperaUnica
        <4> QED BY <3>1, <4>1
      <3>3. CASE s # r
        BY <2>2, <2>6, <3>3 DEF EsperaUnica
      <3> QED BY <3>2, <3>3
    <2>9. ASSUME NEW q \in Procesos, q # p
          PROVE  estado'[q] = "BLOCKED" <=> \E s \in Nombres : EnCola(q, s)'
      <3>1. estado'[q] = estado[q]
        BY <2>3, <2>9 DEF TypeOK
      <3>2. ASSUME NEW s \in Nombres
            PROVE  EnCola(q, s)' <=> EnCola(q, s)
        <4>1. CASE s # r
          BY <2>3, <4>1 DEF EnCola
        <4>2. CASE s = r
          <5>1. ASSUME EnCola(q, s)' PROVE EnCola(q, s)
            BY <2>6, <4>2, <5>1 DEF EnCola
          <5>2. ASSUME EnCola(q, s) PROVE EnCola(q, s)'
            <6>1. PICK i \in 1..Len(cola[r]) : cola[r][i] = q
              BY <4>2, <5>2 DEF EnCola
            <6>2. i # 1
              BY <2>2, <2>9, <6>1
            <6>3. i - 1 \in 1..Len(cola'[r]) /\ cola'[r][i - 1] = cola[r][i]
              BY <2>4, <6>1, <6>2
            <6> QED BY <4>2, <6>1, <6>3 DEF EnCola
          <5> QED BY <5>1, <5>2
        <4> QED BY <4>1, <4>2
      <3> QED BY <3>1, <3>2 DEF EsperaUnica
    <2>10. estado'[p] = "READY"
      BY <2>2, <2>3 DEF TypeOK
    <2>11. EsperaUnica'
      BY <2>7, <2>8, <2>9, <2>10 DEF EsperaUnica
    <2> QED BY <2>3, <2>5, <2>10, <2>11 DEF TypeOK
  <1> QED BY <1>1, <1>2

\* The same waiting processes in the same queues.
LEMMA EsperaIgual ==
    ASSUME EsperaUnica, UNCHANGED cola,
           \A p \in Procesos : estado'[p] = "BLOCKED" <=> estado[p] = "BLOCKED"
    PROVE  EsperaUnica'
  BY DEF EsperaUnica, EnCola

LEMMA IInvPaso ==
    ASSUME IInv, [Next]_vars
    PROVE  EsperaUnica' /\ FinSaliendo'
  <1> USE DEF IInv
  <1>1. ASSUME NEW p \in Procesos,
               Despachar(p) \/ FinQuantum(p) \/ EsperarIO(p)
                 \/ \E h \in HilosIO : FinIO(h, p)
        PROVE  EsperaUnica' /\ FinSaliendo'
    <2>0. /\ UNCHANGED <<cola, fin>>
          /\ estado[p] \in {"READY", "EXEC", "IO"}
          /\ \E e \in {"READY", "EXEC", "IO"} : estado' = [estado EXCEPT ![p] = e]
      BY <1>1 DEF Despachar, FinQuantum, EsperarIO, FinIO
    <2>1. PICK e \in {"READY", "EXEC", "IO"} : estado' = [estado EXCEPT ![p] = e]
      BY <2>0
    <2>2. estado[p] \notin {"BLOCKED", "SALIENDO"} /\ e \notin {"BLOCKED", "SALIENDO"}
      BY <2>0
    <2>3. EsperaUnica'
      BY <2>0, <2>1, <2>2, EsperaIgual DEF TypeOK
    <2>4. FinSaliendo'
      BY <2>0, <2>1, <2>2 DEF FinSaliendo, TypeOK
    <2> QED BY <2>3, <2>4
  <1>2. ASSUME NEW p \in Procesos, NEW r \in Nombres, AtenderWait(p, r)
        PROVE  EsperaUnica' /\ FinSaliendo'
    <2>1. CASE WaitConcedido(p, r)
      BY <1>2, <2>1, EsperaIgual DEF AtenderWait, WaitConcedido, FinSaliendo
    <2>2. CASE WaitBloqueado(p, r)
      <3>1. estado[p] = "EXEC" /\ UNCHANGED fin
        BY <1>2 DEF AtenderWait
      <3>2. EsperaUnica'
        BY <2>2, <3>1, EncolarEspera DEF WaitBloqueado
      <3>3. FinSaliendo'
        BY <2>2, <3>1 DEF WaitBloqueado, FinSaliendo, TypeOK
      <3> QED BY <3>2, <3>3
    <2> QED BY <1>2, <2>1, <2>2 DEF AtenderWait
  <1>3. ASSUME NEW r \in Nombres, Sumar(r), UNCHANGED fin
        PROVE  EsperaUnica' /\ FinSaliendo'
    BY <1>3, SumarEspera DEF FinSaliendo, TypeOK
  <1>4. ASSUME NEW p \in Procesos, NEW r \in Nombres, AtenderSignal(p, r)
        PROVE  EsperaUnica' /\ FinSaliendo'
    BY <1>3, <1>4 DEF AtenderSignal
  <1>5. ASSUME NEW h \in Hilos, NEW r \in Nombres, SignalPorFin(h, r)
        PROVE  EsperaUnica' /\ FinSaliendo'
    BY <1>3, <1>5 DEF SignalPorFin
  <1>6. ASSUME NEW h \in Hilos, NEW p \in Procesos, EmpezarFin(h, p),
               estado[p] \in {"EXEC", "IO"}
        PROVE  EsperaUnica' /\ FinSaliendo'
    <2>1. UNCHANGED cola /\ fin' = [fin EXCEPT ![h] = p]
          /\ estado' = [estado EXCEPT ![p] = "SALIENDO"]
      BY <1>6 DEF EmpezarFin
    <2>2. EsperaUnica'
      BY <1>6, <2>1, EsperaIgual DEF TypeOK
    <2>3. FinSaliendo'
      BY <1>6, <2>1 DEF FinSaliendo, TypeOK
    <2> QED BY <2>2, <2>3
  <1>7. ASSUME NEW h \in Hilos, TerminarFin(h)
        PROVE  EsperaUnica' /\ FinSaliendo'
    <2>1. fin[h] \in Procesos /\ estado[fin[h]] = "SALIENDO"
      BY <1>7 DEF TerminarFin, FinSaliendo, TypeOK
    <2>2. UNCHANGED cola /\ fin' = [fin EXCEPT ![h] = Nadie]
          /\ estado' = [estado EXCEPT ![fin[h]] = "EXIT"]
      BY <1>7 DEF TerminarFin
    <2>3. EsperaUnica'
      BY <2>1, <2>2, EsperaIgual DEF TypeOK
    <2>4. FinSaliendo'
      BY <2>1, <2>2 DEF FinSaliendo, TypeOK
    <2> QED BY <2>3, <2>4
  <1>8. CASE UNCHANGED vars
    BY <1>8, EsperaIgual DEF vars, FinSaliendo
  <1>9. ASSUME NEW p \in Procesos,
               TerminarEjecucion(p) \/ \E h \in HilosIO : Desconectar(h, p)
        PROVE  EsperaUnica' /\ FinSaliendo'
    BY <1>6, <1>9 DEF TerminarEjecucion, Desconectar, Hilos
  <1> QED BY <1>1, <1>2, <1>4, <1>5, <1>7, <1>8, <1>9 DEF Next

LEMMA IInvSiempre == Spec => []IInv
  <1>1. Init => IInv
    BY DEF Init, IInv, TypeOK, Estados, EsLista, ListaVacia, EsperaUnica, EnCola, FinSaliendo
  <1>2. IInv /\ [Next]_vars => IInv'
    BY IInvPaso, TipoPaso DEF IInv
  <1> QED BY <1>1, <1>2, PTL DEF Spec

\* A process waits for a resource exactly while it is blocked, in one queue and
\* once, so a returned instance never readies a process that was not waiting.
THEOREM EsperaCorrecta == Spec => []EsperaUnica
  <1>1. IInv => EsperaUnica
    BY DEF IInv
  <1> QED BY <1>1, IInvSiempre, PTL

-----------------------------------------------------------------------------
(* Sums over the processes: TotalPedidas and what a step does to it.        *)

\* Every set of naturals has a least element.
LEMMA MinimoLemma ==
    ASSUME NEW S \in SUBSET Nat, S # {}
    PROVE  \E m \in S : \A n \in S : m <= n
  <1>1. PICK m \in S : \A n \in S : ~ (<<n, m>> \in OpToRel(<, Nat))
    BY NatLessThanWellFounded, WFMin
  <1>2. ASSUME NEW n \in S, n < m
        PROVE  FALSE
    <2>1. <<n, m>> \in Nat \X Nat /\ <<n, m>>[1] = n /\ <<n, m>>[2] = m
      OBVIOUS
    <2>2. <<n, m>> \in OpToRel(<, Nat)
      BY ONLY <2>1, <1>2 DEF OpToRel
    <2> QED BY <1>1, <2>2
  <1> QED BY <1>2

\* The element that a fold takes first.
Elegido(s) == CHOOSE x \in s : TRUE

LEMMA ElegidoLemma ==
    ASSUME NEW s, s # {}
    PROVE  Elegido(s) \in s
  BY DEF Elegido

\* g is the fold that sums F over the subsets of S.
EsSuma(g, F, S) ==
    g = [s \in SUBSET S |-> IF s = {} THEN 0
                            ELSE F[Elegido(s)] + g[s \ {Elegido(s)}]]

\* The subsets of S with at most n elements.
Hasta(S, n) == {s \in SUBSET S : Cardinality(s) <= n}

EsSumaHasta(g, F, S, n) ==
    /\ g \in [Hasta(S, n) -> Int]
    /\ \A s \in Hasta(S, n) : g[s] = IF s = {} THEN 0
                                     ELSE F[Elegido(s)] + g[s \ {Elegido(s)}]

\* What is left of a set without the element taken first is smaller.
LEMMA SinElegido ==
    ASSUME NEW S, IsFiniteSet(S), NEW s \in SUBSET S, s # {}
    PROVE  /\ s \ {Elegido(s)} \in SUBSET S
           /\ Cardinality(s) \in Nat
           /\ Cardinality(s \ {Elegido(s)}) = Cardinality(s) - 1
           /\ Elegido(s) \in S
  <1>1. IsFiniteSet(s)
    BY FS_Subset
  <1>2. Elegido(s) \in s
    BY ElegidoLemma
  <1> QED BY <1>1, <1>2, FS_RemoveElement, FS_CardinalityType

\* The sums over the subsets with at most n + 1 elements, from those with at most n.
LEMMA SumaHastaCero ==
    ASSUME NEW S, IsFiniteSet(S), NEW F \in [S -> Int]
    PROVE  \E g : EsSumaHasta(g, F, S, 0)
  <1> DEFINE g == [s \in Hasta(S, 0) |-> 0]
  <1>1. ASSUME NEW s \in Hasta(S, 0)
        PROVE  s = {}
    <2>1. s \in SUBSET S /\ Cardinality(s) <= 0
      BY DEF Hasta
    <2>2. IsFiniteSet(s)
      BY <2>1, FS_Subset
    <2>3. Cardinality(s) = 0
      BY <2>1, <2>2, FS_CardinalityType
    <2> QED BY <2>2, <2>3, FS_EmptySet
  <1>2. EsSumaHasta(g, F, S, 0)
    BY <1>1 DEF EsSumaHasta
  <1> QED BY <1>2

LEMMA SumaHastaPaso ==
    ASSUME NEW S, IsFiniteSet(S), NEW F \in [S -> Int], NEW n \in Nat,
           NEW f, EsSumaHasta(f, F, S, n)
    PROVE  \E g : EsSumaHasta(g, F, S, n + 1)
  <1> DEFINE g == [s \in Hasta(S, n + 1) |->
                     IF s = {} THEN 0 ELSE F[Elegido(s)] + f[s \ {Elegido(s)}]]
  <1>1. ASSUME NEW s \in Hasta(S, n + 1), s # {}
        PROVE  /\ s \ {Elegido(s)} \in Hasta(S, n)
               /\ s \ {Elegido(s)} \in Hasta(S, n + 1)
               /\ Elegido(s) \in S
    <2>1. s \in SUBSET S /\ Cardinality(s) <= n + 1
      BY DEF Hasta
    <2> QED BY <1>1, <2>1, SinElegido DEF Hasta
  <1>2. \A s \in Hasta(S, n) : s \in Hasta(S, n + 1)
    <2>1. \A s \in SUBSET S : Cardinality(s) \in Nat
      BY FS_Subset, FS_CardinalityType
    <2> QED BY <2>1 DEF Hasta
  <1>3. g \in [Hasta(S, n + 1) -> Int]
    BY <1>1 DEF EsSumaHasta
  <1>4. \A s \in Hasta(S, n) : g[s] = f[s]
    BY <1>2 DEF EsSumaHasta
  <1>5. ASSUME NEW s \in Hasta(S, n + 1)
        PROVE  g[s] = IF s = {} THEN 0 ELSE F[Elegido(s)] + g[s \ {Elegido(s)}]
    BY <1>1, <1>4
  <1>6. EsSumaHasta(g, F, S, n + 1)
    BY <1>3, <1>5 DEF EsSumaHasta
  <1> QED BY <1>6

\* Every function on a finite set has a sum over each subset.
LEMMA SumaExiste ==
    ASSUME NEW S, IsFiniteSet(S), NEW F \in [S -> Int]
    PROVE  \E g : EsSuma(g, F, S)
  <1> DEFINE Sin == {n \in Nat : ~ \E g : EsSumaHasta(g, F, S, n)}
  <1>1. Sin = {}
    <2> SUFFICES ASSUME Sin # {} PROVE FALSE
      OBVIOUS
    <2>1. PICK m \in Sin : \A n \in Sin : m <= n
      BY MinimoLemma
    <2>2. m # 0
      BY SumaHastaCero
    <2>3. m - 1 \in Nat /\ m - 1 \notin Sin
      BY <2>1, <2>2
    <2>4. PICK f : EsSumaHasta(f, F, S, m - 1)
      BY <2>3
    <2>5. \E g : EsSumaHasta(g, F, S, (m - 1) + 1)
      BY <2>3, <2>4, SumaHastaPaso
    <2>6. (m - 1) + 1 = m
      OBVIOUS
    <2> QED BY <2>5, <2>6
  <1>2. Cardinality(S) \in Nat /\ Hasta(S, Cardinality(S)) = SUBSET S
    BY FS_Subset, FS_CardinalityType DEF Hasta
  <1>3. PICK g : EsSumaHasta(g, F, S, Cardinality(S))
    BY <1>1, <1>2
  <1>4. EsSuma(g, F, S)
    BY <1>2, <1>3 DEF EsSumaHasta, EsSuma
  <1> QED BY <1>4

\* Changing one term of a sum changes the sum by as much.
LEMMA SumaCambia ==
    ASSUME NEW S, IsFiniteSet(S), NEW F \in [S -> Int], NEW G \in [S -> Int],
           NEW f, EsSuma(f, F, S), NEW g, EsSuma(g, G, S),
           NEW p \in S, \A x \in S : x # p => F[x] = G[x]
    PROVE  f[S] \in Int /\ g[S] = f[S] + (G[p] - F[p])
  <1> DEFINE d == G[p] - F[p]
             Bien(s) == f[s] \in Int /\ g[s] = f[s] + (IF p \in s THEN d ELSE 0)
             Mal == {Cardinality(s) : s \in {t \in SUBSET S : ~ Bien(t)}}
  <1>1. d \in Int
    OBVIOUS
  <1> HIDE DEF d
  <1>2. ASSUME NEW s \in SUBSET S, s # {}, Bien(s \ {Elegido(s)})
        PROVE  Bien(s)
    <2> DEFINE e == Elegido(s)
               t == s \ {e}
    <2>1. e \in S /\ e \in s /\ t \in SUBSET S
      BY <1>2, SinElegido, ElegidoLemma
    <2>2. f[s] = F[e] + f[t] /\ g[s] = G[e] + g[t]
      BY <1>2 DEF EsSuma
    <2> HIDE DEF e
    <2>3. CASE e = p
      <3>1. p \notin t /\ p \in s /\ F[e] = F[p] /\ G[e] = G[p]
        BY <2>1, <2>3
      <3>2. f[t] \in Int /\ g[t] = f[t]
        BY <1>2, <3>1 DEF e
      <3>3. G[p] = F[p] + d /\ F[p] \in Int
        BY DEF d
      <3> QED BY <1>1, <2>2, <3>1, <3>2, <3>3
    <2>4. CASE e # p
      <3>1. F[e] = G[e] /\ F[e] \in Int /\ (p \in t <=> p \in s)
        BY <2>1, <2>4
      <3>2. f[t] \in Int /\ g[t] = f[t] + (IF p \in s THEN d ELSE 0)
        BY <1>2, <3>1 DEF e
      <3> QED BY <1>1, <2>2, <3>1, <3>2
    <2> QED BY <2>3, <2>4
  <1>3. Bien({})
    BY DEF EsSuma
  <1> HIDE DEF Bien
  <1>4. \A s \in SUBSET S : Cardinality(s) \in Nat
    BY FS_Subset, FS_CardinalityType
  <1>5. Mal = {}
    <2> SUFFICES ASSUME Mal # {} PROVE FALSE
      OBVIOUS
    <2>1. Mal \in SUBSET Nat
      BY <1>4
    <2>2. PICK m \in Mal : \A n \in Mal : m <= n
      BY <2>1, MinimoLemma
    <2>3. PICK s \in SUBSET S : ~ Bien(s) /\ m = Cardinality(s)
      BY <2>2
    <2>4. s # {}
      BY <1>3, <2>3
    <2>5. Cardinality(s \ {Elegido(s)}) = m - 1 /\ s \ {Elegido(s)} \in SUBSET S /\ m \in Nat
      BY <2>3, <2>4, SinElegido
    <2>6. Bien(s \ {Elegido(s)})
      BY <2>2, <2>5
    <2> QED BY <1>2, <2>3, <2>4, <2>6
  <1>6. Bien(S)
    BY <1>5
  <1> QED BY <1>6 DEF Bien, d

\* A sum of zeros is zero.
LEMMA SumaNula ==
    ASSUME NEW S, IsFiniteSet(S), NEW F \in [S -> Int], \A x \in S : F[x] = 0,
           NEW f, EsSuma(f, F, S)
    PROVE  f[S] = 0
  <1> DEFINE Mal == {Cardinality(s) : s \in {t \in SUBSET S : f[t] # 0}}
  <1>1. Mal = {}
    <2> SUFFICES ASSUME Mal # {} PROVE FALSE
      OBVIOUS
    <2>1. Mal \in SUBSET Nat
      BY FS_Subset, FS_CardinalityType
    <2>2. PICK m \in Mal : \A n \in Mal : m <= n
      BY <2>1, MinimoLemma
    <2>3. PICK s \in SUBSET S : f[s] # 0 /\ m = Cardinality(s)
      BY <2>2
    <2>4. s # {}
      BY <2>3 DEF EsSuma
    <2>5. /\ Cardinality(s \ {Elegido(s)}) = m - 1 /\ s \ {Elegido(s)} \in SUBSET S
          /\ m \in Nat /\ Elegido(s) \in S
      BY <2>3, <2>4, SinElegido
    <2>6. f[s \ {Elegido(s)}] = 0
      BY <2>2, <2>5
    <2>7. f[s] = F[Elegido(s)] + f[s \ {Elegido(s)}]
      BY <2>4 DEF EsSuma
    <2> QED BY <2>3, <2>5, <2>6, <2>7
  <1> QED BY <1>1

\* TotalPedidas is the sum of the requests of each process.
LEMMA TotalLemma ==
    ASSUME NEW r, NEW F \in [Procesos -> Int], IsFiniteSet(Procesos),
           \A p \in Procesos : F[p] = Pedidas(p, r)
    PROVE  \E g : EsSuma(g, F, Procesos) /\ TotalPedidas(r) = g[Procesos]
  <1> DEFINE Cuerpo(g) == [s \in SUBSET Procesos |->
                 IF s = {} THEN 0
                 ELSE Pedidas(Elegido(s), r) + g[s \ {Elegido(s)}]]
             Iter == CHOOSE iter : iter = Cuerpo(iter)
  <1>1. TotalPedidas(r) = Iter[Procesos]
    BY DEF TotalPedidas, MapThenSumSet, MapThenFoldSet, Elegido
  <1>2. ASSUME NEW g
        PROVE  EsSuma(g, F, Procesos) <=> g = Cuerpo(g)
    <2>1. \A s \in SUBSET Procesos : s # {} => F[Elegido(s)] = Pedidas(Elegido(s), r)
      BY ElegidoLemma
    <2> QED BY <2>1 DEF EsSuma
  <1>3. PICK g : EsSuma(g, F, Procesos)
    BY ONLY F \in [Procesos -> Int], IsFiniteSet(Procesos), SumaExiste
  <1> HIDE DEF Cuerpo
  <1>4. Iter = Cuerpo(Iter)
    BY <1>2, <1>3
  <1>5. EsSuma(Iter, F, Procesos)
    BY <1>2, <1>4
  <1> QED BY <1>1, <1>5
\* The same in the next state.
LEMMA TotalLemmaLuego ==
    ASSUME NEW r, NEW F \in [Procesos -> Int], IsFiniteSet(Procesos),
           \A p \in Procesos : F[p] = Pedidas(p, r)'
    PROVE  \E g : EsSuma(g, F, Procesos) /\ TotalPedidas(r)' = g[Procesos]
  <1> DEFINE Cuerpo(g) == [s \in SUBSET Procesos |->
                 IF s = {} THEN 0
                 ELSE Pedidas(Elegido(s), r)' + g[s \ {Elegido(s)}]]
             Iter == CHOOSE iter : iter = Cuerpo(iter)
  <1>1. TotalPedidas(r)' = Iter[Procesos]
    BY DEF TotalPedidas, MapThenSumSet, MapThenFoldSet, Elegido
  <1>2. ASSUME NEW g
        PROVE  EsSuma(g, F, Procesos) <=> g = Cuerpo(g)
    <2>1. \A s \in SUBSET Procesos : s # {} => F[Elegido(s)] = Pedidas(Elegido(s), r)'
      BY ElegidoLemma
    <2> QED BY <2>1 DEF EsSuma
  <1>3. PICK g : EsSuma(g, F, Procesos)
    BY ONLY F \in [Procesos -> Int], IsFiniteSet(Procesos), SumaExiste
  <1> HIDE DEF Cuerpo
  <1>4. Iter = Cuerpo(Iter)
    BY <1>2, <1>3
  <1>5. EsSuma(Iter, F, Procesos)
    BY <1>2, <1>4
  <1> QED BY <1>1, <1>5

\* What a step does to the requests of one process it does to the total.
LEMMA TotalCambia ==
    ASSUME NEW r, NEW p \in Procesos, NEW d \in Int,
           \A x \in Procesos : Pedidas(x, r) \in Int,
           Pedidas(p, r)' = Pedidas(p, r) + d,
           \A x \in Procesos : x # p => Pedidas(x, r)' = Pedidas(x, r)
    PROVE  TotalPedidas(r) \in Int /\ TotalPedidas(r)' = TotalPedidas(r) + d
  <1>1. PICK F : F = [x \in Procesos |-> Pedidas(x, r)]
    OBVIOUS
  <1>2. PICK G : G = [x \in Procesos |-> IF x = p THEN F[x] + d ELSE F[x]]
    OBVIOUS
  <1>3. F \in [Procesos -> Int] /\ \A x \in Procesos : F[x] = Pedidas(x, r)
    BY <1>1
  <1>4. /\ G \in [Procesos -> Int]
        /\ \A x \in Procesos : G[x] = Pedidas(x, r)'
        /\ \A x \in Procesos : x # p => F[x] = G[x]
        /\ G[p] - F[p] = d
    BY <1>2, <1>3
  <1>5. PICK f : EsSuma(f, F, Procesos) /\ TotalPedidas(r) = f[Procesos]
    BY <1>3, TotalLemma
  <1>6. PICK g : EsSuma(g, G, Procesos) /\ TotalPedidas(r)' = g[Procesos]
    BY <1>4, TotalLemmaLuego
  <1>7. f[Procesos] \in Int /\ g[Procesos] = f[Procesos] + (G[p] - F[p])
    BY ONLY <1>3, <1>4, <1>5, <1>6, SumaCambia, RecursosAssumption, p \in Procesos
  <1> QED BY <1>4, <1>5, <1>6, <1>7

\* The total is a number.
LEMMA TotalEntero ==
    ASSUME NEW r, \A x \in Procesos : Pedidas(x, r) \in Int
    PROVE  TotalPedidas(r) \in Int
  <1>1. PICK F : F = [x \in Procesos |-> Pedidas(x, r)]
    OBVIOUS
  <1>2. F \in [Procesos -> Int] /\ \A x \in Procesos : F[x] = Pedidas(x, r)
    BY <1>1
  <1>3. PICK f : EsSuma(f, F, Procesos) /\ TotalPedidas(r) = f[Procesos]
    BY <1>2, TotalLemma
  <1>4. CASE Procesos = {}
    <2>1. f[Procesos] = 0
      BY <1>3, <1>4 DEF EsSuma
    <2> QED BY <1>3, <2>1
  <1>5. ASSUME NEW p \in Procesos
        PROVE  TotalPedidas(r) \in Int
    <2>1. f[Procesos] \in Int
      BY ONLY <1>2, <1>3, SumaCambia, RecursosAssumption, p \in Procesos
    <2> QED BY <1>3, <2>1
  <1> QED BY <1>4, <1>5

\* The total stays if the requests of every process do.
LEMMA TotalIgual ==
    ASSUME NEW r,
           \A x \in Procesos : Pedidas(x, r) \in Int,
           \A x \in Procesos : Pedidas(x, r)' = Pedidas(x, r)
    PROVE  TotalPedidas(r)' = TotalPedidas(r)
  <1>1. CASE Procesos = {}
    <2>1. PICK F : F = [x \in Procesos |-> 0]
      OBVIOUS
    <2>2. F \in [Procesos -> Int] /\ \A x \in Procesos : F[x] = 0
      BY <2>1
    <2>3. PICK f : EsSuma(f, F, Procesos) /\ TotalPedidas(r) = f[Procesos]
      BY <1>1, <2>2, TotalLemma
    <2>4. PICK g : EsSuma(g, F, Procesos) /\ TotalPedidas(r)' = g[Procesos]
      BY <1>1, <2>2, TotalLemmaLuego
    <2>5. f[Procesos] = 0 /\ g[Procesos] = 0
      BY ONLY <2>2, <2>3, <2>4, SumaNula, RecursosAssumption
    <2> QED BY <2>3, <2>4, <2>5
  <1>2. ASSUME NEW p \in Procesos
        PROVE  TotalPedidas(r)' = TotalPedidas(r)
    <2>1. Pedidas(p, r)' = Pedidas(p, r) + 0
      OBVIOUS
    <2>2. TotalPedidas(r) \in Int /\ TotalPedidas(r)' = TotalPedidas(r) + 0
      BY <2>1, TotalCambia
    <2> QED BY <2>2
  <1> QED BY <1>1, <1>2

-----------------------------------------------------------------------------
(* No instance is lost or invented.                                        *)

\* A process that is being finished is so by some thread, only such a thread has
\* something left to return, and no list of requests goes below zero.
Cuentas ==
    /\ \A p \in Procesos : estado[p] = "SALIENDO" => \E h \in Hilos : fin[h] = p
    /\ \A h \in Hilos : fin[h] = Nadie => \A r \in Nombres : porSoltar[h][r] = 0
    /\ \A p \in Procesos, r \in Nombres \ Sueltos : Cuenta(rec[p], r) >= 0

\* Where the requests of a process are counted.
PedidasClaras ==
    /\ \A h \in Hilos, r \in Nombres :
           fin[h] # Nadie => Pedidas(fin[h], r) = porSoltar[h][r]
    /\ \A p \in Procesos, r \in Nombres :
           estado[p] # "SALIENDO" => Pedidas(p, r) = Cuenta(rec[p], r)
    /\ \A p \in Procesos, r \in Nombres : Pedidas(p, r) \in Int

LEMMA PedidasLemma ==
    ASSUME TypeOK, FinSaliendo, Cuentas
    PROVE  PedidasClaras
  <1>1. ASSUME NEW h \in Hilos, NEW r \in Nombres, fin[h] # Nadie
        PROVE  Pedidas(fin[h], r) = porSoltar[h][r]
    <2>1. \A g \in Hilos : fin[g] = fin[h] <=> g = h
      BY <1>1 DEF FinSaliendo
    <2>2. (CHOOSE g \in Hilos : fin[g] = fin[h]) = h
      BY <2>1
    <2> QED BY <1>1, <2>2 DEF Pedidas, FinSaliendo
  <1>2. \A p \in Procesos, r \in Nombres : Cuenta(rec[p], r) \in Int
    BY ListasLemma DEF TypeOK
  <1>3. ASSUME NEW p \in Procesos, NEW r \in Nombres
        PROVE  Pedidas(p, r) \in Int
    <2>1. CASE estado[p] = "SALIENDO"
      <3>1. PICK h \in Hilos : fin[h] = p
        BY <2>1 DEF Cuentas
      <3> QED BY <1>1, <3>1 DEF TypeOK
    <2> QED BY <1>2, <2>1 DEF Pedidas
  <1> QED BY <1>1, <1>3 DEF PedidasClaras, Pedidas

LEMMA PedidasLemmaLuego ==
    ASSUME TypeOK', FinSaliendo', Cuentas'
    PROVE  PedidasClaras'
  <1>1. ASSUME NEW h \in Hilos, NEW r \in Nombres, fin'[h] # Nadie
        PROVE  Pedidas(fin[h], r)' = porSoltar'[h][r]
    <2>1. \A g \in Hilos : fin'[g] = fin'[h] <=> g = h
      BY <1>1 DEF FinSaliendo
    <2>2. (CHOOSE g \in Hilos : fin'[g] = fin'[h]) = h
      BY <2>1
    <2> QED BY <1>1, <2>2 DEF Pedidas, FinSaliendo
  <1>2. \A p \in Procesos, r \in Nombres : Cuenta(rec'[p], r) \in Int
    BY ListasLemma DEF TypeOK
  <1>3. ASSUME NEW p \in Procesos, NEW r \in Nombres
        PROVE  Pedidas(p, r)' \in Int
    <2>1. CASE estado'[p] = "SALIENDO"
      <3>1. PICK h \in Hilos : fin'[h] = p
        BY <2>1 DEF Cuentas
      <3> QED BY <1>1, <3>1 DEF TypeOK
    <2> QED BY <1>2, <2>1 DEF Pedidas
  <1> QED BY <1>1, <1>3 DEF PedidasClaras, Pedidas

\* A WAIT counts one request more, and a SIGNAL of what was asked for one less.
LEMMA AnotadaLemma ==
    ASSUME NEW l, EsLista(l), NEW r \in Nombres, NEW s \in Nombres
    PROVE  /\ Cuenta(l, s) \in Int
           /\ Cuenta(Anotada(l, r), s) = Cuenta(l, s) + (IF s = r THEN 1 ELSE 0)
           /\ Cuenta(l, r) > 0 => Cuenta(Desanotada(l, r), r) = Cuenta(l, r) - 1
           /\ s # r => Cuenta(Desanotada(l, r), s) = Cuenta(l, s)
  BY DEF EsLista, Cuenta, Anotada, Desanotada

LEMMA CuentasPaso ==
    ASSUME IInv, Cuentas, [Next]_vars
    PROVE  Cuentas'
  <1> USE DEF IInv
  <1>1. ASSUME NEW p \in Procesos,
               Despachar(p) \/ FinQuantum(p) \/ EsperarIO(p)
                 \/ \E h \in HilosIO : FinIO(h, p)
        PROVE  Cuentas'
    BY <1>1 DEF Despachar, FinQuantum, EsperarIO, FinIO, Cuentas, TypeOK
  <1>2. ASSUME NEW p \in Procesos, NEW r \in Nombres, AtenderWait(p, r)
        PROVE  Cuentas'
    <2>1. /\ UNCHANGED <<fin, porSoltar>> /\ rec' = [rec EXCEPT ![p] = Anotada(@, r)]
          /\ \A q \in Procesos : estado'[q] = "SALIENDO" => estado[q] = "SALIENDO"
      BY <1>2 DEF AtenderWait, WaitConcedido, WaitBloqueado, Restar, TypeOK
    <2>2. \A s \in Nombres \ Sueltos : Cuenta(Anotada(rec[p], r), s) >= 0
      <3> SUFFICES ASSUME NEW s \in Nombres \ Sueltos
                   PROVE  Cuenta(Anotada(rec[p], r), s) >= 0
        OBVIOUS
      <3>1. EsLista(rec[p]) /\ Cuenta(rec[p], s) >= 0
        BY DEF Cuentas, TypeOK
      <3> QED BY <3>1, AnotadaLemma
    <2>3. \A q \in Procesos, s \in Nombres \ Sueltos : Cuenta(rec'[q], s) >= 0
      BY <2>1, <2>2 DEF Cuentas, TypeOK
    <2> QED BY <2>1, <2>3 DEF Cuentas
  <1>3. ASSUME NEW p \in Procesos, NEW r \in Nombres, AtenderSignal(p, r)
        PROVE  Cuentas'
    <2>1. /\ UNCHANGED <<fin, porSoltar>> /\ rec' = [rec EXCEPT ![p] = Desanotada(@, r)]
          /\ r \in Sueltos \/ Cuenta(rec[p], r) > 0
      BY <1>3 DEF AtenderSignal
    <2>2. \A q \in Procesos : estado'[q] = "SALIENDO" => estado[q] = "SALIENDO"
      BY <1>3, SumarEspera DEF AtenderSignal
    <2>3. \A s \in Nombres \ Sueltos : Cuenta(Desanotada(rec[p], r), s) >= 0
      <3> SUFFICES ASSUME NEW s \in Nombres \ Sueltos
                   PROVE  Cuenta(Desanotada(rec[p], r), s) >= 0
        OBVIOUS
      <3>1. EsLista(rec[p]) /\ Cuenta(rec[p], s) >= 0
        BY DEF Cuentas, TypeOK
      <3>2. CASE s = r
        BY <2>1, <3>1, <3>2, AnotadaLemma
      <3>3. CASE s # r
        BY <3>1, <3>3, AnotadaLemma
      <3> QED BY <3>2, <3>3
    <2>4. \A q \in Procesos, s \in Nombres \ Sueltos : Cuenta(rec'[q], s) >= 0
      BY <2>1, <2>3 DEF Cuentas, TypeOK
    <2> QED BY <2>1, <2>2, <2>4 DEF Cuentas
  <1>4. ASSUME NEW h \in Hilos, NEW p \in Procesos, EmpezarFin(h, p)
        PROVE  Cuentas'
    <2>1. \A q \in Procesos : estado'[q] = "SALIENDO" => \E g \in Hilos : fin'[g] = q
      <3>1. fin'[h] = p /\ \A g \in Hilos : fin[g] # Nadie => fin'[g] = fin[g]
        BY <1>4 DEF EmpezarFin, TypeOK
      <3>2. \A q \in Procesos : estado'[q] = "SALIENDO" => q = p \/ estado[q] = "SALIENDO"
        BY <1>4 DEF EmpezarFin, TypeOK
      <3> QED BY <3>1, <3>2 DEF Cuentas
    <2>2. \A g \in Hilos : fin'[g] = Nadie => fin[g] = Nadie /\ porSoltar'[g] = porSoltar[g]
      BY <1>4 DEF EmpezarFin, TypeOK
    <2> QED BY <1>4, <2>1, <2>2 DEF EmpezarFin, Cuentas
  <1>5. ASSUME NEW p \in Procesos,
               TerminarEjecucion(p) \/ \E h \in HilosIO : Desconectar(h, p)
        PROVE  Cuentas'
    BY <1>4, <1>5 DEF TerminarEjecucion, Desconectar, Hilos
  <1>6. ASSUME NEW h \in Hilos, NEW r \in Nombres, SignalPorFin(h, r)
        PROVE  Cuentas'
    <2>1. UNCHANGED <<fin, rec>> /\ fin[h] # Nadie
          /\ \A g \in Hilos : g # h => porSoltar'[g] = porSoltar[g]
      BY <1>6 DEF SignalPorFin, Cuentas, TypeOK
    <2>2. \A q \in Procesos : estado'[q] = "SALIENDO" => estado[q] = "SALIENDO"
      BY <1>6, SumarEspera DEF SignalPorFin
    <2> QED BY <2>1, <2>2 DEF Cuentas
  <1>7. ASSUME NEW h \in Hilos, TerminarFin(h)
        PROVE  Cuentas'
    <2>1. PICK p \in Procesos : p = fin[h]
      BY <1>7 DEF TerminarFin, TypeOK
    <2>2. /\ fin' = [fin EXCEPT ![h] = Nadie] /\ rec' = [rec EXCEPT ![p] = ListaVacia]
          /\ estado' = [estado EXCEPT ![p] = "EXIT"] /\ UNCHANGED porSoltar
          /\ \A r \in Nombres : porSoltar[h][r] = 0
      BY <1>7, <2>1 DEF TerminarFin
    <2>3. \A q \in Procesos : estado'[q] = "SALIENDO" => q # p /\ estado[q] = "SALIENDO"
      BY <2>2 DEF TypeOK
    <2>4. \A g \in Hilos : g # h => fin'[g] = fin[g]
      BY <2>2 DEF TypeOK
    <2>5. \A q \in Procesos, s \in Nombres \ Sueltos : Cuenta(rec'[q], s) >= 0
      <3>1. \A s \in Nombres : Cuenta(ListaVacia, s) = 0
        BY DEF Cuenta, ListaVacia
      <3> QED BY <2>2, <3>1 DEF Cuentas, TypeOK
    <2>6. \A g \in Hilos : fin'[g] = Nadie => \A r \in Nombres : porSoltar'[g][r] = 0
      BY <2>2, <2>4 DEF Cuentas
    <2>7. \A q \in Procesos : estado'[q] = "SALIENDO" => \E g \in Hilos : fin'[g] = q
      BY <2>1, <2>3, <2>4 DEF Cuentas
    <2> QED BY <2>5, <2>6, <2>7 DEF Cuentas
  <1>8. CASE UNCHANGED vars
    BY <1>8 DEF vars, Cuentas
  <1> QED BY <1>1, <1>2, <1>3, <1>5, <1>6, <1>7, <1>8 DEF Next

\* A step that counts d requests more for one process takes d instances.
LEMMA Compensado ==
    ASSUME Conservacion, PedidasClaras, NEW p \in Procesos,
           NEW r \in Nombres \ Sueltos, NEW d \in Int,
           instancias[r] \in Int, instancias'[r] = instancias[r] - d,
           Pedidas(p, r)' = Pedidas(p, r) + d,
           \A x \in Procesos : x # p => Pedidas(x, r)' = Pedidas(x, r)
    PROVE  instancias'[r] + TotalPedidas(r)' = Inicial[r]
  <1>1. TotalPedidas(r) \in Int /\ TotalPedidas(r)' = TotalPedidas(r) + d
    BY TotalCambia DEF PedidasClaras
  <1>2. instancias[r] + TotalPedidas(r) = Inicial[r]
    BY DEF Conservacion
  <1> QED BY <1>1, <1>2

LEMMA ConservacionPaso ==
    ASSUME IInv, Cuentas, Conservacion, [Next]_vars
    PROVE  Conservacion'
  <1> USE DEF IInv
  <1>0. TypeOK' /\ FinSaliendo' /\ Cuentas'
    BY TipoPaso, IInvPaso, CuentasPaso
  <1>00. PedidasClaras /\ PedidasClaras'
    BY <1>0, PedidasLemma, PedidasLemmaLuego
  <1> SUFFICES ASSUME NEW r \in Nombres \ Sueltos
               PROVE  instancias'[r] + TotalPedidas(r)' = Inicial[r]
    BY DEF Conservacion
  <1>c. instancias[r] \in Int /\ \A p \in Procesos : EsLista(rec[p])
    BY DEF TypeOK
  \* A process that nobody finishes, before and after, is counted in its list.
  <1>e. \A x \in Procesos : estado[x] # "SALIENDO" /\ estado'[x] # "SALIENDO" =>
             /\ Pedidas(x, r) = Cuenta(rec[x], r)
             /\ Pedidas(x, r)' = Cuenta(rec'[x], r)
    BY <1>00 DEF PedidasClaras
  \* A process that the same thread finishes, in what that has left to return.
  <1>s. \A h \in Hilos : fin[h] # Nadie /\ fin'[h] = fin[h] =>
             /\ Pedidas(fin[h], r) = porSoltar[h][r]
             /\ Pedidas(fin[h], r)' = porSoltar'[h][r]
    <2> SUFFICES ASSUME NEW h \in Hilos, fin[h] # Nadie, fin'[h] = fin[h]
                 PROVE  /\ Pedidas(fin[h], r) = porSoltar[h][r]
                        /\ Pedidas(fin[h], r)' = porSoltar'[h][r]
      OBVIOUS
    <2>1. Pedidas(fin[h], r) = porSoltar[h][r]
      BY <1>00 DEF PedidasClaras
    <2>2. Pedidas(fin[h], r)' = porSoltar'[h][r]
      BY <1>00 DEF PedidasClaras
    <2> QED BY <2>1, <2>2
  <1>n. ASSUME UNCHANGED <<fin, porSoltar>>,
               NEW x \in Procesos, rec'[x] = rec[x],
               estado'[x] = "SALIENDO" <=> estado[x] = "SALIENDO"
        PROVE  Pedidas(x, r)' = Pedidas(x, r)
    BY <1>n DEF Pedidas
  <1>i. ASSUME NEW p \in Procesos, UNCHANGED instancias,
               \A x \in Procesos : Pedidas(x, r)' = Pedidas(x, r)
        PROVE  instancias'[r] + TotalPedidas(r)' = Inicial[r]
    <2>1. instancias'[r] = instancias[r] - 0 /\ Pedidas(p, r)' = Pedidas(p, r) + 0
      BY <1>c, <1>i, <1>00 DEF PedidasClaras
    <2>2. 0 \in Int /\ instancias[r] \in Int /\ PedidasClaras
          /\ \A x \in Procesos : x # p => Pedidas(x, r)' = Pedidas(x, r)
      BY <1>c, <1>i, <1>00
    <2> QED BY ONLY <2>1, <2>2, Compensado, Conservacion, p \in Procesos,
                    r \in Nombres \ Sueltos
  <1>1. ASSUME NEW p \in Procesos,
               Despachar(p) \/ FinQuantum(p) \/ EsperarIO(p)
                 \/ \E h \in HilosIO : FinIO(h, p)
        PROVE  instancias'[r] + TotalPedidas(r)' = Inicial[r]
    <2>1. /\ UNCHANGED <<instancias, rec, fin, porSoltar>>
          /\ \A x \in Procesos : estado'[x] = "SALIENDO" <=> estado[x] = "SALIENDO"
      BY <1>1 DEF Despachar, FinQuantum, EsperarIO, FinIO, TypeOK
    <2>2. \A x \in Procesos : Pedidas(x, r)' = Pedidas(x, r)
      BY <1>n, <2>1
    <2> QED BY <1>i, <2>1, <2>2
  <1>2. ASSUME NEW p \in Procesos, NEW s \in Nombres, AtenderWait(p, s)
        PROVE  instancias'[r] + TotalPedidas(r)' = Inicial[r]
    <2>1. PICK d \in Int : d = IF s = r THEN 1 ELSE 0
      OBVIOUS
    <2>2. /\ UNCHANGED <<fin, porSoltar>>
          /\ estado[p] # "SALIENDO" /\ estado'[p] # "SALIENDO"
          /\ \A x \in Procesos : x # p => estado'[x] = estado[x] /\ rec'[x] = rec[x]
          /\ rec'[p] = Anotada(rec[p], s)
          /\ instancias'[r] = instancias[r] - d
      BY <1>2, <2>1 DEF AtenderWait, WaitConcedido, WaitBloqueado, Restar, TypeOK
    <2>3. Pedidas(p, r)' = Pedidas(p, r) + d
      BY <1>c, <1>e, <2>1, <2>2, AnotadaLemma
    <2>4. \A x \in Procesos : x # p => Pedidas(x, r)' = Pedidas(x, r)
      BY <1>n, <2>2
    <2> QED BY <1>c, <1>00, <2>2, <2>3, <2>4, Compensado
  <1>3. ASSUME NEW s \in Nombres, Sumar(s)
        PROVE  /\ instancias'[r] = instancias[r] + (IF s = r THEN 1 ELSE 0)
               /\ \A x \in Procesos : estado'[x] = "SALIENDO" <=> estado[x] = "SALIENDO"
    <2>1. instancias'[r] = instancias[r] + (IF s = r THEN 1 ELSE 0)
      BY <1>3 DEF Sumar, TypeOK
    <2> QED BY <1>3, <2>1, SumarEspera
  <1>4. ASSUME NEW p \in Procesos, NEW s \in Nombres, AtenderSignal(p, s)
        PROVE  instancias'[r] + TotalPedidas(r)' = Inicial[r]
    <2>1. PICK d \in Int : d = IF s = r THEN -1 ELSE 0
      OBVIOUS
    <2>2. /\ UNCHANGED <<fin, porSoltar>> /\ estado[p] # "SALIENDO" /\ Sumar(s)
          /\ \A x \in Procesos : x # p => rec'[x] = rec[x]
          /\ rec'[p] = Desanotada(rec[p], s)
          /\ s = r => Cuenta(rec[p], r) > 0
      BY <1>4 DEF AtenderSignal, TypeOK
    <2>3. Cuenta(Desanotada(rec[p], s), r) = Cuenta(rec[p], r) + d /\ Cuenta(rec[p], r) \in Int
      <3>1. CASE s = r
        BY <1>c, <2>1, <2>2, <3>1, AnotadaLemma
      <3>2. CASE s # r
        BY <1>c, <2>1, <3>2, AnotadaLemma
      <3> QED BY <3>1, <3>2
    <2>4. Pedidas(p, r)' = Pedidas(p, r) + d
      BY <1>e, <1>3, <2>2, <2>3
    <2>5. \A x \in Procesos : x # p => Pedidas(x, r)' = Pedidas(x, r)
      BY <1>n, <1>3, <2>2
    <2>6. instancias'[r] = instancias[r] - d
      BY <1>c, <1>3, <2>1, <2>2
    <2> QED BY <1>c, <1>00, <2>4, <2>5, <2>6, Compensado
  <1>5. ASSUME NEW h \in Hilos, NEW p \in Procesos, EmpezarFin(h, p), estado[p] # "SALIENDO"
        PROVE  instancias'[r] + TotalPedidas(r)' = Inicial[r]
    <2>1. /\ fin[h] = Nadie /\ fin'[h] = p /\ p # Nadie
          /\ \A g \in Hilos : g # h => fin'[g] = fin[g] /\ porSoltar'[g] = porSoltar[g]
          /\ \A x \in Procesos : x # p => estado'[x] = estado[x]
          /\ UNCHANGED <<instancias, rec>>
          /\ porSoltar'[h][r] = Liberaciones(rec[p])[r]
      BY <1>5 DEF EmpezarFin, TypeOK
    <2>2. Pedidas(p, r)' = porSoltar'[h][r]
      BY <1>00, <2>1 DEF PedidasClaras
    <2>3. Pedidas(p, r) = Cuenta(rec[p], r) /\ Cuenta(rec[p], r) >= 0
      BY <1>5, <1>00 DEF PedidasClaras, Cuentas
    <2>4. Pedidas(p, r)' = Pedidas(p, r)
      BY <2>1, <2>2, <2>3, <1>00 DEF Liberaciones, PedidasClaras
    <2>5. ASSUME NEW x \in Procesos, x # p
          PROVE  Pedidas(x, r)' = Pedidas(x, r)
      <3>1. CASE estado[x] = "SALIENDO"
        <4>1. PICK g \in Hilos : fin[g] = x
          BY <3>1 DEF Cuentas
        <4>2. g # h /\ fin[g] # Nadie
          BY <2>1, <4>1
        <4>3. fin'[g] = fin[g] /\ porSoltar'[g] = porSoltar[g]
          BY <2>1, <4>2
        <4>4. Pedidas(fin[g], r) = porSoltar[g][r] /\ Pedidas(fin[g], r)' = porSoltar'[g][r]
          BY <1>s, <4>2, <4>3
        <4> QED BY <4>1, <4>3, <4>4
      <3> QED BY <1>e, <2>1, <2>5, <3>1
    <2> QED BY <1>i, <2>1, <2>4, <2>5
  <1>6. ASSUME NEW p \in Procesos,
               TerminarEjecucion(p) \/ \E h \in HilosIO : Desconectar(h, p)
        PROVE  instancias'[r] + TotalPedidas(r)' = Inicial[r]
    BY <1>5, <1>6 DEF TerminarEjecucion, Desconectar, Hilos
  <1>7. ASSUME NEW h \in Hilos, NEW s \in Nombres, SignalPorFin(h, s)
        PROVE  instancias'[r] + TotalPedidas(r)' = Inicial[r]
    <2>1. PICK d \in Int : d = IF s = r THEN -1 ELSE 0
      OBVIOUS
    <2>2. /\ UNCHANGED <<rec, fin>> /\ fin[h] # Nadie /\ Sumar(s)
          /\ \A g \in Hilos : g # h => porSoltar'[g] = porSoltar[g]
          /\ porSoltar'[h][r] = porSoltar[h][r] + d
      BY <1>7, <2>1 DEF SignalPorFin, Cuentas, TypeOK
    <2>3. PICK p \in Procesos : p = fin[h]
      BY <2>2 DEF TypeOK
    <2>4. Pedidas(p, r) = porSoltar[h][r] /\ Pedidas(p, r)' = porSoltar'[h][r]
      BY <1>s, <2>2, <2>3
    <2>5. ASSUME NEW x \in Procesos, x # p
          PROVE  Pedidas(x, r)' = Pedidas(x, r)
      <3>1. CASE estado[x] = "SALIENDO"
        <4>1. PICK g \in Hilos : fin[g] = x
          BY <3>1 DEF Cuentas
        <4>2. g # h /\ fin[g] # Nadie
          BY <2>3, <2>5, <4>1
        <4>3. fin'[g] = fin[g] /\ porSoltar'[g] = porSoltar[g]
          BY <2>2, <4>2
        <4>4. Pedidas(fin[g], r) = porSoltar[g][r] /\ Pedidas(fin[g], r)' = porSoltar'[g][r]
          BY <1>s, <4>2, <4>3
        <4> QED BY <4>1, <4>3, <4>4
      <3> QED BY <1>e, <1>3, <2>2, <3>1
    <2>6. instancias'[r] = instancias[r] - d
      BY <1>c, <1>3, <2>1, <2>2
    <2>7. Pedidas(p, r)' = Pedidas(p, r) + d
      BY <2>2, <2>4
    <2> QED BY <1>c, <1>00, <2>5, <2>6, <2>7, Compensado
  <1>8. ASSUME NEW h \in Hilos, TerminarFin(h)
        PROVE  instancias'[r] + TotalPedidas(r)' = Inicial[r]
    <2>1. PICK p \in Procesos : p = fin[h]
      BY <1>8 DEF TerminarFin, TypeOK
    <2>2. /\ UNCHANGED <<instancias, porSoltar>> /\ fin[h] # Nadie
          /\ porSoltar[h][r] = 0 /\ estado'[p] = "EXIT" /\ rec'[p] = ListaVacia
          /\ \A g \in Hilos : g # h => fin'[g] = fin[g]
          /\ \A x \in Procesos : x # p => estado'[x] = estado[x] /\ rec'[x] = rec[x]
      BY <1>8, <2>1 DEF TerminarFin, TypeOK
    <2>3. Pedidas(p, r) = 0
      BY <1>00, <2>1, <2>2 DEF PedidasClaras
    <2>4. Pedidas(p, r)' = Cuenta(rec'[p], r)
      BY <1>00, <2>2 DEF PedidasClaras
    <2>5. Pedidas(p, r)' = 0
      BY <2>2, <2>4 DEF Cuenta, ListaVacia
    <2>6. ASSUME NEW x \in Procesos, x # p
          PROVE  Pedidas(x, r)' = Pedidas(x, r)
      <3>1. CASE estado[x] = "SALIENDO"
        <4>1. PICK g \in Hilos : fin[g] = x
          BY <3>1 DEF Cuentas
        <4>2. g # h /\ fin[g] # Nadie
          BY <2>1, <2>6, <4>1
        <4>3. fin'[g] = fin[g] /\ porSoltar'[g] = porSoltar[g]
          BY <2>2, <4>2
        <4>4. Pedidas(fin[g], r) = porSoltar[g][r] /\ Pedidas(fin[g], r)' = porSoltar'[g][r]
          BY <1>s, <4>2, <4>3
        <4> QED BY <4>1, <4>3, <4>4
      <3>2. CASE estado[x] # "SALIENDO"
        BY <1>e, <2>2, <2>6, <3>2
      <3> QED BY <3>1, <3>2
    <2> QED BY <1>i, <2>2, <2>3, <2>5, <2>6
  <1>9. CASE UNCHANGED vars
    <2>1. \A x \in Procesos : Pedidas(x, r)' = Pedidas(x, r)
      BY <1>n, <1>9 DEF vars
    <2>2. TotalPedidas(r)' = TotalPedidas(r)
      BY <1>00, <2>1, TotalIgual DEF PedidasClaras
    <2> QED BY <1>9, <2>2 DEF vars, Conservacion
  <1> QED BY <1>1, <1>2, <1>4, <1>6, <1>7, <1>8, <1>9 DEF Next

LEMMA ConservacionInicio ==
    ASSUME Init
    PROVE  Cuentas /\ Conservacion
  <1>1. Cuentas
    BY DEF Init, Cuentas, Cuenta, ListaVacia
  <1>2. ASSUME NEW r \in Nombres \ Sueltos
        PROVE  instancias[r] + TotalPedidas(r) = Inicial[r]
    <2>1. PICK F : F = [p \in Procesos |-> 0]
      OBVIOUS
    <2>2. F \in [Procesos -> Int] /\ \A p \in Procesos : F[p] = 0
      BY <2>1
    <2>3. \A p \in Procesos : Pedidas(p, r) = 0
      BY DEF Init, Pedidas, Cuenta, ListaVacia
    <2>4. PICK f : EsSuma(f, F, Procesos) /\ TotalPedidas(r) = f[Procesos]
      BY <2>2, <2>3, TotalLemma
    <2>5. f[Procesos] = 0
      BY ONLY <2>2, <2>4, SumaNula, RecursosAssumption
    <2> QED BY <2>4, <2>5 DEF Init
  <1> QED BY <1>1, <1>2 DEF Conservacion

\* No interleaving of waits, signals and endings loses or invents an instance of a
\* resource that is only signalled after a wait.
THEOREM NadaSePierdeNiSeInventa == Spec => []Conservacion
  <1>1. Init => Cuentas /\ Conservacion
    BY ConservacionInicio
  <1>2. IInv /\ Cuentas /\ Conservacion /\ [Next]_vars => Cuentas' /\ Conservacion'
    BY CuentasPaso, ConservacionPaso
  <1> QED BY <1>1, <1>2, IInvSiempre, PTL DEF Spec

\* Mutual exclusion: the requests let through never exceed the configured instances.
THEOREM ExclusionMutua == Spec => []Exclusion
  <1>1. TypeOK /\ DeudaCubierta /\ Conservacion /\ PedidasClaras => Exclusion
    <2> SUFFICES ASSUME TypeOK, DeudaCubierta, Conservacion, PedidasClaras,
                        NEW r \in Nombres \ Sueltos
                 PROVE  TotalPedidas(r) - Len(cola[r]) <= Inicial[r]
      BY DEF Exclusion
    <2>1. TotalPedidas(r) \in Int
      BY TotalEntero DEF PedidasClaras
    <2>2. Len(cola[r]) \in Nat /\ instancias[r] \in Int /\ Inicial[r] \in Nat
      BY DEF TypeOK
    <2>3. instancias[r] + Len(cola[r]) >= 0 /\ instancias[r] + TotalPedidas(r) = Inicial[r]
      BY DEF DeudaCubierta, Conservacion
    <2> QED BY <2>1, <2>2, <2>3
  <1>2. Spec => []Cuentas
    <2>1. Init => Cuentas
      BY ConservacionInicio
    <2>2. IInv /\ Cuentas /\ [Next]_vars => Cuentas'
      BY CuentasPaso
    <2> QED BY <2>1, <2>2, IInvSiempre, PTL DEF Spec
  <1>3. IInv /\ Cuentas => TypeOK /\ PedidasClaras
    BY PedidasLemma DEF IInv
  <1> QED BY <1>1, <1>2, <1>3, IInvSiempre, NuncaSeConcedeDeMas, NadaSePierdeNiSeInventa, PTL
=============================================================================
