-------------------------- MODULE SistemaArchivos --------------------------
(***************************************************************************)
(* What a DialFS promises to the processes: files with a size and data,    *)
(* whose operations happen at once or not at all. Blocks, the bitmap, the  *)
(* compaction and the restarts are the business of DialFS, which           *)
(* implements this module until it breaks.                                 *)
(***************************************************************************)
EXTENDS Naturals

CONSTANTS
    Archivos,
    Tamanos   \* the sizes that a truncate may ask for

VARIABLES
    existe,   \* the files there are
    tam,      \* their sizes
    datos,    \* the positions of each file that hold what was written there
    roto      \* nothing is promised any more

vars == <<existe, tam, datos, roto>>

Init ==
    /\ existe = {}
    /\ tam = [f \in Archivos |-> 0]
    /\ datos = [f \in Archivos |-> {}]
    /\ roto = FALSE

Crear(f) ==
    /\ ~roto /\ f \notin existe
    /\ existe' = existe \cup {f}
    /\ UNCHANGED <<tam, datos, roto>>

Borrar(f) ==
    /\ ~roto /\ f \in existe
    /\ existe' = existe \ {f}
    /\ tam' = [tam EXCEPT ![f] = 0]
    /\ datos' = [datos EXCEPT ![f] = {}]
    /\ UNCHANGED roto

\* What fits in the new size stays; a growth may bring to light what the file had
\* there before it shrank.
Truncar(f) ==
    /\ ~roto /\ f \in existe
    /\ \E t \in Tamanos : \E nuevos \in SUBSET {n \in 0 .. t : tam[f] <= n /\ n < t} :
        /\ tam' = [tam EXCEPT ![f] = t]
        /\ datos' = [datos EXCEPT ![f] = {n \in @ : n < t} \cup nuevos]
    /\ UNCHANGED <<existe, roto>>

Escribir(f) ==
    /\ ~roto /\ f \in existe
    /\ \E n \in {k \in 0 .. tam[f] : k < tam[f]} : datos' = [datos EXCEPT ![f] = @ \cup {n}]
    /\ UNCHANGED <<existe, tam, roto>>

Romper ==
    /\ roto' = TRUE
    /\ existe' = {}
    /\ tam' = [f \in Archivos |-> 0]
    /\ datos' = [f \in Archivos |-> {}]

Next ==
    \/ \E f \in Archivos : Crear(f) \/ Borrar(f) \/ Truncar(f) \/ Escribir(f)
    \/ Romper

Spec == Init /\ [][Next]_vars

-----------------------------------------------------------------------------
TypeOK ==
    /\ existe \subseteq Archivos
    /\ tam \in [Archivos -> Nat]
    /\ datos \in [Archivos -> SUBSET Nat]
    /\ roto \in BOOLEAN

\* A file has data within its size only, and one that was deleted has none.
DatosDentro ==
    \A f \in Archivos :
        /\ \A n \in datos[f] : n < tam[f]
        /\ f \notin existe => tam[f] = 0

\* What was written in a file is lost only when that file is deleted or truncated to
\* fewer positions, or when everything is: never by an operation on another file.
NadaSePierde ==
    [][\A f \in Archivos : \A n \in datos[f] :
          roto' \/ n \in datos'[f] \/ (f \in existe /\ f \notin existe') \/ tam'[f] <= n]_vars
=============================================================================
