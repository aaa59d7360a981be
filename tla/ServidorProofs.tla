--------------------------- MODULE ServidorProofs ---------------------------
(***************************************************************************)
(* Proofs about what the interfaces promise, for any clients and servers.  *)
(* Every action but Llegar leaves in each queue some of the clients that   *)
(* were there, in the same order: Conserva says so with the positions they *)
(* had, and everything follows from it.                                    *)
(***************************************************************************)
EXTENDS Servidor, TLAPS

\* The queue b holds clients of the queue a, in the order of a.
Conserva(a, b) ==
    \E f \in [DOMAIN b -> DOMAIN a] :
        /\ \A i \in DOMAIN b : b[i] = a[f[i]]
        /\ \A i, j \in DOMAIN b : i < j => f[i] < f[j]

IInv == TypeOK /\ UnLugar

-----------------------------------------------------------------------------
\* Nobody leaves a queue, or everybody.
LEMMA ConservaIgual ==
    ASSUME NEW a \in Seq(Clientes)
    PROVE  Conserva(a, a) /\ Conserva(a, <<>>)
  <1>1. Conserva(a, a)
    <2> DEFINE f == [i \in DOMAIN a |-> i]
    <2>1. f \in [DOMAIN a -> DOMAIN a] /\ \A i \in DOMAIN a : f[i] = i
      OBVIOUS
    <2>2. \A i, j \in DOMAIN a : i < j => f[i] < f[j]
      BY <2>1
    <2> HIDE DEF f
    <2> QED BY <2>1, <2>2 DEF Conserva
  <1>2. Conserva(a, <<>>)
    <2> DEFINE f == [i \in {} |-> i]
    <2>1. DOMAIN <<>> = {} /\ f \in [{} -> DOMAIN a]
      OBVIOUS
    <2> QED BY <2>1 DEF Conserva
  <1> QED BY <1>1, <1>2

\* The first client leaves.
LEMMA ConservaTail ==
    ASSUME NEW a \in Seq(Clientes), a # <<>>
    PROVE  Tail(a) \in Seq(Clientes) /\ Conserva(a, Tail(a))
  <1> DEFINE b == Tail(a)
             f == [i \in DOMAIN b |-> i + 1]
  <1>1. /\ b \in Seq(Clientes) /\ DOMAIN b = 1 .. Len(a) - 1 /\ DOMAIN a = 1 .. Len(a)
        /\ \A i \in DOMAIN b : b[i] = a[i + 1]
        /\ Len(a) \in Nat
    OBVIOUS
  <1>2. f \in [DOMAIN b -> DOMAIN a]
    BY <1>1
  <1>3. \A i \in DOMAIN b : b[i] = a[f[i]]
    BY <1>1
  <1>4. \A i, j \in DOMAIN b : i < j => f[i] < f[j]
    BY <1>1
  <1> HIDE DEF f, b
  <1>5. Conserva(a, b)
    BY <1>2, <1>3, <1>4 DEF Conserva
  <1> QED BY <1>1, <1>5 DEF b

Sin(a, n) == [k \in 1 .. Len(a) - 1 |-> a[IF k < n THEN k ELSE k + 1]]

\* Another one leaves.
LEMMA ConservaSin ==
    ASSUME NEW a \in Seq(Clientes), NEW n \in 2 .. Len(a)
    PROVE  Sin(a, n) \in Seq(Clientes) /\ Conserva(a, Sin(a, n))
  <1> DEFINE f == [k \in 1 .. Len(a) - 1 |-> IF k < n THEN k ELSE k + 1]
             b == Sin(a, n)
  <1>1. Len(a) \in Nat /\ DOMAIN a = 1 .. Len(a) /\ Len(a) - 1 \in Nat
    OBVIOUS
  <1>2. DOMAIN b = 1 .. Len(a) - 1 /\ f \in [DOMAIN b -> DOMAIN a]
    BY <1>1 DEF Sin
  <1>3. \A i \in DOMAIN b : b[i] = a[f[i]] /\ b[i] \in Clientes
    BY <1>1, <1>2 DEF Sin
  <1>4. \A i, j \in DOMAIN b : i < j => f[i] < f[j]
    BY <1>1, <1>2
  <1>5. b \in Seq(Clientes)
    <2>1. b \in [1 .. Len(a) - 1 -> Clientes]
      BY <1>2, <1>3 DEF Sin
    <2> HIDE DEF b
    <2> QED BY <1>1, <2>1
  <1> HIDE DEF f, b
  <1>6. Conserva(a, b)
    BY <1>2, <1>3, <1>4 DEF Conserva
  <1> QED BY <1>5, <1>6 DEF b

\* What every action but the arrival of a client does to the queues.
LEMMA SinLlegar ==
    ASSUME TypeOK, Next, ~ \E s \in Servidores, p \in Clientes : Llegar(p, s)
    PROVE  TypeOK' /\ \A s \in Servidores : Conserva(cola[s], cola'[s])
  <1> USE DEF TypeOK
  <1>0. \A s \in Servidores : cola[s] \in Seq(Clientes) /\ <<>> \in Seq(Clientes)
    OBVIOUS
  <1>9. \A s \in Servidores : Conserva(cola[s], cola[s]) /\ Conserva(cola[s], <<>>)
    BY <1>0, ConservaIgual
  <1>1. ASSUME NEW s \in Servidores, Terminar(s)
        PROVE  TypeOK' /\ \A t \in Servidores : Conserva(cola[t], cola'[t])
    <2>1. Tail(cola[s]) \in Seq(Clientes) /\ Conserva(cola[s], Tail(cola[s]))
      BY <1>0, <1>1, ConservaTail DEF Terminar
    <2> QED BY <1>0, <1>9, <1>1, <2>1 DEF Terminar
  <1>2. ASSUME NEW s \in Servidores, Retirar(s)
        PROVE  TypeOK' /\ \A t \in Servidores : Conserva(cola[t], cola'[t])
    <2>1. PICK n \in 2 .. Len(cola[s]) : cola' = [cola EXCEPT ![s] = Sin(cola[s], n)]
      BY <1>2 DEF Retirar, Sin
    <2>2. Sin(cola[s], n) \in Seq(Clientes) /\ Conserva(cola[s], Sin(cola[s], n))
      BY <1>0, ConservaSin
    <2> QED BY <1>0, <1>9, <1>2, <2>1, <2>2 DEF Retirar
  <1>3. ASSUME NEW s \in Servidores, Cerrar(s) \/ Abrir(s)
        PROVE  TypeOK' /\ \A t \in Servidores : Conserva(cola[t], cola'[t])
    BY <1>0, <1>9, <1>3 DEF Cerrar, Abrir
  <1>4. CASE Perder
    <2>1. perdidos' \subseteq Servidores
      BY <1>4 DEF Perder
    <2>2. cola' = [t \in Servidores |-> IF t \in perdidos' THEN <<>> ELSE cola[t]]
      BY <1>4 DEF Perder
    <2> QED BY <1>0, <1>9, <1>4, <2>1, <2>2 DEF Perder
  <1> QED BY <1>1, <1>2, <1>3, <1>4 DEF Next

\* A client arrives at the end of a queue, and was in none.
LEMMA AlLlegar ==
    ASSUME TypeOK, NEW s \in Servidores, NEW p \in Clientes, Llegar(p, s)
    PROVE  /\ TypeOK'
           /\ \A t \in Servidores \ {s} : cola'[t] = cola[t]
           /\ DOMAIN cola'[s] = 1 .. Len(cola[s]) + 1 /\ DOMAIN cola[s] = 1 .. Len(cola[s])
           /\ Len(cola[s]) \in Nat
           /\ \A n \in DOMAIN cola'[s] :
                  cola'[s][n] = IF n = Len(cola[s]) + 1 THEN p ELSE cola[s][n]
           /\ \A t \in Servidores : \A n \in DOMAIN cola[t] : cola[t][n] # p
  <1>1. cola[s] \in Seq(Clientes)
    BY DEF TypeOK
  <1>2. cola' = [cola EXCEPT ![s] = Append(cola[s], p)] /\ cola'[s] = Append(cola[s], p)
    BY DEF Llegar, TypeOK
  <1>3. /\ Append(cola[s], p) \in Seq(Clientes)
        /\ DOMAIN Append(cola[s], p) = 1 .. Len(cola[s]) + 1 /\ DOMAIN cola[s] = 1 .. Len(cola[s])
        /\ Len(cola[s]) \in Nat
        /\ \A n \in 1 .. Len(cola[s]) + 1 :
              Append(cola[s], p)[n] = IF n = Len(cola[s]) + 1 THEN p ELSE cola[s][n]
    BY <1>1
  <1>4. TypeOK' /\ \A t \in Servidores \ {s} : cola'[t] = cola[t]
    BY <1>2, <1>3 DEF TypeOK, Llegar
  <1>5. \A t \in Servidores : \A n \in DOMAIN cola[t] : cola[t][n] # p
    BY DEF Llegar, Presente
  <1> QED BY <1>2, <1>3, <1>4, <1>5

\* Queues that only lose clients keep each of them at one place.
LEMMA ConservaUnLugar ==
    ASSUME UnLugar, \A s \in Servidores : Conserva(cola[s], cola'[s]),
           \A s \in Servidores : DOMAIN cola'[s] \subseteq Nat /\ DOMAIN cola[s] \subseteq Nat
    PROVE  UnLugar'
  <1> SUFFICES ASSUME NEW s \in Servidores, NEW t \in Servidores,
                      NEW m \in DOMAIN cola'[s], NEW n \in DOMAIN cola'[t],
                      cola'[s][m] = cola'[t][n]
               PROVE  s = t /\ m = n
    BY DEF UnLugar
  <1>1. PICK f \in [DOMAIN cola'[s] -> DOMAIN cola[s]] :
            /\ \A i \in DOMAIN cola'[s] : cola'[s][i] = cola[s][f[i]]
            /\ \A i, j \in DOMAIN cola'[s] : i < j => f[i] < f[j]
    BY DEF Conserva
  <1>2. PICK g \in [DOMAIN cola'[t] -> DOMAIN cola[t]] :
            \A i \in DOMAIN cola'[t] : cola'[t][i] = cola[t][g[i]]
    BY DEF Conserva
  <1>3. s = t
    BY <1>1, <1>2 DEF UnLugar
  <1>4. cola'[s][n] = cola[s][f[n]] /\ cola'[s][m] = cola[s][f[m]] /\ f[m] \in DOMAIN cola[s] /\ f[n] \in DOMAIN cola[s]
    BY <1>1, <1>3
  <1>5. f[m] = f[n]
    BY <1>3, <1>4 DEF UnLugar
  <1>6. m = n
    <2>1. m \in Nat /\ n \in Nat /\ m \in DOMAIN cola'[s] /\ n \in DOMAIN cola'[s]
      BY <1>3
    <2>2. f[m] \in Nat /\ f[n] \in Nat
      BY <1>4
    <2>3. ~(m < n) /\ ~(n < m)
      BY <1>1, <1>5, <2>1, <2>2
    <2> QED BY <2>1, <2>3
  <1> QED BY <1>3, <1>6

-----------------------------------------------------------------------------
\* IInv is inductive.
LEMMA Inicio == Init => IInv
  BY DEF Init, IInv, TypeOK, UnLugar

\* The positions of a queue are naturals.
LEMMA Posiciones ==
    ASSUME TypeOK
    PROVE  \A s \in Servidores : DOMAIN cola[s] \subseteq Nat
  <1>1. \A s \in Servidores : cola[s] \in Seq(Clientes)
    BY DEF TypeOK
  <1>2. \A s \in Servidores : DOMAIN cola[s] = 1 .. Len(cola[s]) /\ Len(cola[s]) \in Nat
    BY <1>1
  <1> QED BY <1>2

\* Every action keeps IInv: an arrival by AlLlegar, the others by Conserva.
LEMMA Paso == IInv /\ [Next]_vars => IInv'
  <1> SUFFICES ASSUME TypeOK, UnLugar, [Next]_vars
               PROVE  TypeOK' /\ UnLugar'
    BY DEF IInv
  <1>1. ASSUME NEW s \in Servidores, NEW p \in Clientes, Llegar(p, s)
        PROVE  TypeOK' /\ UnLugar'
    <2>1. /\ TypeOK'
          /\ \A t \in Servidores \ {s} : cola'[t] = cola[t]
          /\ DOMAIN cola'[s] = 1 .. Len(cola[s]) + 1 /\ DOMAIN cola[s] = 1 .. Len(cola[s])
          /\ Len(cola[s]) \in Nat
          /\ \A n \in DOMAIN cola'[s] :
                 cola'[s][n] = IF n = Len(cola[s]) + 1 THEN p ELSE cola[s][n]
          /\ \A t \in Servidores : \A n \in DOMAIN cola[t] : cola[t][n] # p
      BY <1>1, AlLlegar
    <2>2. SUFFICES ASSUME NEW t \in Servidores, NEW u \in Servidores,
                          NEW m \in DOMAIN cola'[t], NEW n \in DOMAIN cola'[u],
                          cola'[t][m] = cola'[u][n]
                   PROVE  t = u /\ m = n
      BY <2>1 DEF UnLugar
    <2>3. \/ t = s /\ m = Len(cola[s]) + 1 /\ cola'[t][m] = p
          \/ m \in DOMAIN cola[t] /\ cola'[t][m] = cola[t][m] /\ cola'[t][m] # p
      BY <2>1
    <2>4. \/ u = s /\ n = Len(cola[s]) + 1 /\ cola'[u][n] = p
          \/ n \in DOMAIN cola[u] /\ cola'[u][n] = cola[u][n] /\ cola'[u][n] # p
      BY <2>1
    <2> QED BY <2>2, <2>3, <2>4 DEF UnLugar
  <1>2. CASE Next /\ ~ \E s \in Servidores, p \in Clientes : Llegar(p, s)
    <2>1. TypeOK' /\ \A s \in Servidores : Conserva(cola[s], cola'[s])
      BY <1>2, SinLlegar
    <2>2. \A s \in Servidores : DOMAIN cola'[s] \subseteq Nat
      <3>1. \A s \in Servidores : cola'[s] \in Seq(Clientes)
        BY <2>1 DEF TypeOK
      <3>2. \A s \in Servidores : DOMAIN cola'[s] = 1 .. Len(cola'[s]) /\ Len(cola'[s]) \in Nat
        BY <3>1
      <3> QED BY <3>2
    <2> QED BY <2>1, <2>2, Posiciones, ConservaUnLugar
  <1>3. CASE UNCHANGED vars
    BY <1>3 DEF vars, TypeOK, UnLugar
  <1> QED BY <1>1, <1>2, <1>3

\* The queues hold clients, whatever the interfaces, the kills and the disconnections do.
THEOREM TipoCorrecto == Spec => []TypeOK
  <1>1. IInv => TypeOK
    BY DEF IInv
  <1> QED BY Inicio, Paso, <1>1, PTL DEF Spec

\* No process is twice in a queue, nor in two: desocupar_io ends the operation of one
\* process, and what remove_cola_blocked_io removes is in no other interface.
THEOREM UnaVez == Spec => []UnLugar
  <1>1. IInv => UnLugar
    BY DEF IInv
  <1> QED BY Inicio, Paso, <1>1, PTL DEF Spec

\* A step never puts a process before one that came to the interface earlier.
THEOREM Orden == Spec => SinAdelantarse
  <1> DEFINE EnOrden ==
        \A s \in Servidores :
            \A m, n \in DOMAIN cola[s], i, j \in DOMAIN cola'[s] :
                m < n /\ cola'[s][i] = cola[s][m] /\ cola'[s][j] = cola[s][n] => i < j
  <1>1. ASSUME IInv, Next
        PROVE  EnOrden
    <2>0. TypeOK /\ UnLugar /\ TypeOK' /\ (\A s \in Servidores : DOMAIN cola[s] \subseteq Nat)
      BY <1>1, Paso, Posiciones DEF IInv
    <2>1. ASSUME NEW s \in Servidores, NEW p \in Clientes, Llegar(p, s)
          PROVE  EnOrden
      <3>1. /\ \A t \in Servidores \ {s} : cola'[t] = cola[t]
            /\ DOMAIN cola'[s] = 1 .. Len(cola[s]) + 1 /\ DOMAIN cola[s] = 1 .. Len(cola[s])
            /\ Len(cola[s]) \in Nat
            /\ \A n \in DOMAIN cola'[s] :
                   cola'[s][n] = IF n = Len(cola[s]) + 1 THEN p ELSE cola[s][n]
            /\ \A t \in Servidores : \A n \in DOMAIN cola[t] : cola[t][n] # p
        BY <2>0, <2>1, AlLlegar
      <3>2. ASSUME NEW t \in Servidores, NEW m \in DOMAIN cola[t], NEW i \in DOMAIN cola'[t],
                   cola'[t][i] = cola[t][m]
            PROVE  i = m
        <4>1. i \in DOMAIN cola[t] /\ cola'[t][i] = cola[t][i]
          BY <3>1, <3>2
        <4>2. cola[t][i] = cola[t][m]
          BY <3>2, <4>1
        <4>3. \A u, v \in Servidores : \A k \in DOMAIN cola[u], l \in DOMAIN cola[v] :
                  cola[u][k] = cola[v][l] => u = v /\ k = l
          BY <2>0 DEF UnLugar
        <4> QED BY <3>2, <4>1, <4>2, <4>3
      <3> QED BY <3>2
    <2>2. CASE ~ \E s \in Servidores, p \in Clientes : Llegar(p, s)
      <3>1. \A s \in Servidores : Conserva(cola[s], cola'[s])
        BY <1>1, <2>0, <2>2, SinLlegar
      <3>2. SUFFICES ASSUME NEW s \in Servidores,
                            NEW m \in DOMAIN cola[s], NEW n \in DOMAIN cola[s],
                            NEW i \in DOMAIN cola'[s], NEW j \in DOMAIN cola'[s],
                            m < n, cola'[s][i] = cola[s][m], cola'[s][j] = cola[s][n]
                     PROVE  i < j
        OBVIOUS
      <3>3. PICK f \in [DOMAIN cola'[s] -> DOMAIN cola[s]] :
              /\ \A k \in DOMAIN cola'[s] : cola'[s][k] = cola[s][f[k]]
              /\ \A k, l \in DOMAIN cola'[s] : k < l => f[k] < f[l]
        BY <3>1 DEF Conserva
      <3>4. f[i] = m /\ f[j] = n
        BY <2>0, <3>2, <3>3 DEF UnLugar
      <3>5. i \in Nat /\ j \in Nat /\ m \in Nat /\ n \in Nat
        <4>1. cola'[s] \in Seq(Clientes)
          BY <2>0 DEF TypeOK
        <4>2. DOMAIN cola'[s] = 1 .. Len(cola'[s]) /\ Len(cola'[s]) \in Nat
          BY <4>1
        <4> QED BY <2>0, <4>2
      <3>6. i # j /\ ~ (j < i)
        BY <3>2, <3>3, <3>4, <3>5
      <3> QED BY <3>5, <3>6
    <2> QED BY <1>1, <2>1, <2>2
  <1>2. IInv /\ [Next]_vars => [EnOrden]_vars
    BY <1>1
  <1> QED BY Inicio, Paso, <1>2, PTL DEF Spec, SinAdelantarse
=============================================================================
