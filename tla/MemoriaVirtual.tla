--------------------------- MODULE MemoriaVirtual ---------------------------
(***************************************************************************)
(* What memoria and the MMU of the CPU promise to a process: a space of    *)
(* its own that nobody else writes, that grows at its end and where a read *)
(* answers what was written last.  There are no frames, page tables or TLB *)
(* here; Memoria.tla is shown to implement it.  Page k of the code is page *)
(* k + 1 here, and the content of a page is one value.                     *)
(***************************************************************************)
EXTENDS Naturals, Sequences

CONSTANTS Pids, Valores,
          Paginas     \* the page numbers a program can name

VARIABLES espacio,     \* the pages of each process, empty when it has none
          respuestas   \* answers to reads that were not received yet

vars == <<espacio, respuestas>>

Respuesta(p, k, s) == [pid |-> p, pagina |-> k, valor |-> s]

Hasta(p, k, n) == IF k + n - 1 < Len(espacio[p]) THEN k + n - 1 ELSE Len(espacio[p])

Init == /\ espacio = [p \in Pids |-> <<>>]
        /\ respuestas = {}

\* RESIZE to a larger size: a new page holds whatever its frame held.
Crecer(p) ==
  /\ \E v \in Valores : espacio' = [espacio EXCEPT ![p] = Append(@, v)]
  /\ UNCHANGED respuestas

\* MOV_OUT, and IO_STDIN_READ when the kernel is told that it ended.
Escribir(p, k, n, v) ==
  /\ espacio' = [espacio EXCEPT ![p] =
                   [i \in DOMAIN @ |-> IF i \in k .. k + n - 1 THEN v ELSE @[i]]]
  /\ UNCHANGED respuestas

\* MOV_IN and IO_STDOUT_WRITE of pages of the process.
Leer(p, k, n) ==
  /\ k <= Len(espacio[p])
  /\ respuestas' = respuestas \cup {Respuesta(p, k, SubSeq(espacio[p], k, Hasta(p, k, n)))}
  /\ UNCHANGED espacio

\* MOV_IN of a page that the process does not have: any value.
LeerFuera(p, k) ==
  /\ k > Len(espacio[p])
  /\ \E v \in Valores : respuestas' = respuestas \cup {Respuesta(p, k, <<v>>)}
  /\ UNCHANGED espacio

Recibir == /\ \E r \in respuestas : respuestas' = respuestas \ {r}
           /\ UNCHANGED espacio

\* EXIT, or a RESIZE that memoria refused.
Terminar(p) == /\ espacio' = [espacio EXCEPT ![p] = <<>>]
               /\ UNCHANGED respuestas

Next == \/ Recibir
        \/ \E p \in Pids :
             \/ Crecer(p)
             \/ Terminar(p)
             \/ \E k \in 1 .. Len(espacio[p]), n \in 1 .. Len(espacio[p]) :
                  \/ Leer(p, k, n)
                  \/ \E v \in Valores : Escribir(p, k, n, v)
             \/ \E k \in Paginas : LeerFuera(p, k)

Spec == Init /\ [][Next]_vars
=============================================================================
