------------------------------ MODULE Servidor ------------------------------
(***************************************************************************)
(* What the interfaces promise to the processes: each is a server with one *)
(* queue, the first of which it is working for. Nobody is overtaken, and   *)
(* who leaves before having been served was ended. Mutexes, messages and   *)
(* cola_blocked are the business of Interfaces, which implements this      *)
(* module.                                                                 *)
(***************************************************************************)
EXTENDS Naturals, Sequences

CONSTANTS Clientes, Servidores

VARIABLES
    cola,       \* the clients of each server, in the order in which they came
    abiertos,   \* servers that are connected
    perdidos    \* servers about which nothing is promised any more

vars == <<cola, abiertos, perdidos>>

Init ==
    /\ cola = [s \in Servidores |-> <<>>]
    /\ abiertos = Servidores
    /\ perdidos = {}

Promete(s) == s \in abiertos \ perdidos

Presente(p, s) == \E n \in DOMAIN cola[s] : cola[s][n] = p

\* A client is at one server at a time.
Llegar(p, s) ==
    /\ Promete(s) /\ \A t \in Servidores : ~Presente(p, t)
    /\ cola' = [cola EXCEPT ![s] = Append(@, p)]
    /\ UNCHANGED <<abiertos, perdidos>>

\* The operation of the first client ends.
Terminar(s) ==
    /\ cola[s] # <<>>
    /\ cola' = [cola EXCEPT ![s] = Tail(@)]
    /\ UNCHANGED <<abiertos, perdidos>>

\* A client that waits is ended; those behind it move up.
Retirar(s) ==
    /\ \E n \in 2 .. Len(cola[s]) :
          cola' = [cola EXCEPT ![s] = [k \in 1 .. Len(@) - 1 |-> @[IF k < n THEN k ELSE k + 1]]]
    /\ UNCHANGED <<abiertos, perdidos>>

\* The server leaves: its clients are not its clients any more.
Cerrar(s) ==
    /\ s \in abiertos
    /\ abiertos' = abiertos \ {s}
    /\ cola' = [cola EXCEPT ![s] = <<>>]
    /\ UNCHANGED perdidos

Abrir(s) ==
    /\ abiertos' = abiertos \cup {s}
    /\ UNCHANGED <<cola, perdidos>>

Perder ==
    \E S \in SUBSET Servidores :
        /\ perdidos' = perdidos \cup S
        /\ cola' = [s \in Servidores |-> IF s \in perdidos' THEN <<>> ELSE cola[s]]
        /\ UNCHANGED abiertos

Next ==
    \/ \E s \in Servidores :
          \/ Abrir(s) \/ Cerrar(s) \/ Terminar(s) \/ Retirar(s)
          \/ \E p \in Clientes : Llegar(p, s)
    \/ Perder

Spec == Init /\ [][Next]_vars

-----------------------------------------------------------------------------
TypeOK ==
    /\ cola \in [Servidores -> Seq(Clientes)]
    /\ abiertos \subseteq Servidores /\ perdidos \subseteq Servidores

\* A client is at one place of one queue: no operation is served twice, and what
\* ends with TERMINE_OPERACION is the operation of one process (pcb_usando_interfaz).
UnLugar ==
    \A s, t \in Servidores :
        \A m \in DOMAIN cola[s], n \in DOMAIN cola[t] :
            cola[s][m] = cola[t][n] => s = t /\ m = n

\* Of two clients of a server that are still there, the one that came first is first.
SinAdelantarse ==
    [][\A s \in Servidores :
          \A m, n \in DOMAIN cola[s], i, j \in DOMAIN cola'[s] :
              m < n /\ cola'[s][i] = cola[s][m] /\ cola'[s][j] = cola[s][n] => i < j]_vars
=============================================================================
