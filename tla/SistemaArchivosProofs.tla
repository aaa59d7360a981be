----------------------- MODULE SistemaArchivosProofs -----------------------
(***************************************************************************)
(* Proofs about what a DialFS promises, for any files and sizes.           *)
(***************************************************************************)
EXTENDS SistemaArchivos, TLAPS

IInv == TypeOK /\ DatosDentro

\* Without files there is nothing to check.
LEMMA Inicio == Init => IInv
  <1> SUFFICES ASSUME Init PROVE TypeOK /\ DatosDentro
    BY DEF IInv
  <1>1. existe = {} /\ roto = FALSE
    BY DEF Init
  <1>2. tam = [f \in Archivos |-> 0] /\ datos = [f \in Archivos |-> {}]
    BY DEF Init
  <1>3. tam \in [Archivos -> Nat] /\ datos \in [Archivos -> SUBSET Nat]
    BY <1>2
  <1> QED BY <1>1, <1>2, <1>3 DEF TypeOK, DatosDentro


\* Every operation keeps IInv: who truncates a file, or writes in it, stays within its size.
LEMMA Paso ==
    ASSUME Tamanos \subseteq Nat, IInv, [Next]_vars
    PROVE  IInv'
  <1> USE DEF IInv, TypeOK, DatosDentro
  <1>1. ASSUME NEW f \in Archivos, Crear(f) \/ Borrar(f)
        PROVE  IInv'
    BY <1>1 DEF Crear, Borrar
  <1>2. ASSUME NEW f \in Archivos, Truncar(f)
        PROVE  IInv'
    <2>1. PICK t \in Tamanos : \E nuevos \in SUBSET {n \in 0 .. t : tam[f] <= n /\ n < t} :
            /\ tam' = [tam EXCEPT ![f] = t]
            /\ datos' = [datos EXCEPT ![f] = {n \in datos[f] : n < t} \cup nuevos]
      BY <1>2 DEF Truncar
    <2>2. PICK nuevos \in SUBSET {n \in 0 .. t : tam[f] <= n /\ n < t} :
            /\ tam' = [tam EXCEPT ![f] = t]
            /\ datos' = [datos EXCEPT ![f] = {n \in datos[f] : n < t} \cup nuevos]
      BY <2>1
    <2>3. t \in Nat /\ \A n \in nuevos : n \in Nat /\ n < t
      OBVIOUS
    <2>4. existe' = existe /\ roto' = roto /\ f \in existe
      BY <1>2 DEF Truncar
    <2>5. TypeOK'
      BY <2>2, <2>3, <2>4
    <2>6. ASSUME NEW g \in Archivos
          PROVE  (\A n \in datos'[g] : n < tam'[g]) /\ (g \notin existe' => tam'[g] = 0)
      <3>1. CASE g = f
        BY <2>2, <2>3, <2>4, <3>1
      <3>2. CASE g # f
        BY <2>2, <2>4, <3>2
      <3> QED BY <3>1, <3>2
    <2> QED BY <2>5, <2>6
  <1>3. ASSUME NEW f \in Archivos, Escribir(f)
        PROVE  IInv'
    <2>1. PICK n \in {k \in 0 .. tam[f] : k < tam[f]} : datos' = [datos EXCEPT ![f] = datos[f] \cup {n}]
      BY <1>3 DEF Escribir
    <2> QED BY <1>3, <2>1 DEF Escribir
  <1>4. CASE Romper
    BY <1>4 DEF Romper
  <1>5. CASE UNCHANGED vars
    BY <1>5 DEF vars
  <1> QED BY <1>1, <1>2, <1>3, <1>4, <1>5 DEF Next

\* Files have data within their sizes only (escribir_archivo, truncate_archivo), and one
\* that was deleted has none.
THEOREM Contenidos ==
    ASSUME Tamanos \subseteq Nat
    PROVE  Spec => []DatosDentro
  <1>1. IInv => DatosDentro
    BY DEF IInv
  <1>2. IInv /\ [Next]_vars => IInv'
    BY Paso
  <1> QED BY Inicio, <1>1, <1>2, PTL DEF Spec

\* No operation loses what was written in another file, nor what still fits in its own.
THEOREM Durabilidad ==
    ASSUME Tamanos \subseteq Nat
    PROVE  Spec => NadaSePierde
  <1> DEFINE Queda ==
        \A f \in Archivos : \A n \in datos[f] :
            roto' \/ n \in datos'[f] \/ (f \in existe /\ f \notin existe') \/ tam'[f] <= n
  <1>1. ASSUME TypeOK, Next
        PROVE  Queda
    <2> USE DEF TypeOK
    <2>1. ASSUME NEW f \in Archivos, Crear(f) \/ Borrar(f)
          PROVE  Queda
      BY <1>1, <2>1 DEF Crear, Borrar
    <2>2. ASSUME NEW f \in Archivos, Truncar(f)
          PROVE  Queda
      <3>1. PICK t \in Tamanos : \E nuevos \in SUBSET {n \in 0 .. t : tam[f] <= n /\ n < t} :
              /\ tam' = [tam EXCEPT ![f] = t]
              /\ datos' = [datos EXCEPT ![f] = {n \in datos[f] : n < t} \cup nuevos]
        BY <2>2 DEF Truncar
      <3>2. PICK nuevos \in SUBSET {n \in 0 .. t : tam[f] <= n /\ n < t} :
              /\ tam' = [tam EXCEPT ![f] = t]
              /\ datos' = [datos EXCEPT ![f] = {n \in datos[f] : n < t} \cup nuevos]
        BY <3>1
      <3>3. ASSUME NEW n \in datos[f]
            PROVE  n \in datos'[f] \/ tam'[f] <= n
        BY <1>1, <3>2, <3>3
      <3>4. \A g \in Archivos \ {f} : datos'[g] = datos[g]
        BY <1>1, <3>2
      <3> QED BY <3>3, <3>4
    <2>3. ASSUME NEW f \in Archivos, Escribir(f)
          PROVE  Queda
      <3>1. PICK n \in {k \in 0 .. tam[f] : k < tam[f]} : datos' = [datos EXCEPT ![f] = datos[f] \cup {n}]
        BY <2>3 DEF Escribir
      <3> QED BY <1>1, <3>1
    <2>4. CASE Romper
      BY <2>4 DEF Romper
    <2> QED BY <1>1, <2>1, <2>2, <2>3, <2>4 DEF Next
  <1>2. TypeOK /\ [Next]_vars => [Queda]_vars
    BY <1>1
  <1>3. IInv => TypeOK
    BY DEF IInv
  <1>4. IInv /\ [Next]_vars => IInv'
    BY Paso
  <1> QED BY Inicio, <1>2, <1>3, <1>4, PTL DEF Spec, NadaSePierde
=============================================================================
