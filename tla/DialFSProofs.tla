---------------------------- MODULE DialFSProofs ----------------------------
(***************************************************************************)
(* The blocks of a DialFS, for any disk, files and sizes: until the        *)
(* promise ends (sano = "roto") no two files share a block, and until a    *)
(* cut in the middle of an operation no block is lost.                     *)
(*                                                                         *)
(* BloquesDisjuntos speaks of a thread at rest. Inv says what holds in the *)
(* middle of an operation: Quietos are the files that it does not touch,   *)
(* disjoint (Separados) and marked (Marcados); the file in hand has its    *)
(* own clause for each stage. A compaction needs two facts more: that the  *)
(* blocks in use and those of the file in the buffer fit in the disk, so   *)
(* there is a hole whenever it looks for one (Compactando), and where the  *)
(* files of the run are while the metadata are ahead of the blocks         *)
(* (Corrida). That no block is lost is a second invariant, Exacto: each    *)
(* bit is of a file that is still or of what the operation holds (EnUso).  *)
(*                                                                         *)
(* The second half is about the contents: what was written stays where it  *)
(* was written, and DialFS implements SistemaArchivos. Each step has one   *)
(* of five effects for who uses the files (Efecto): none (Nada), or one    *)
(* file is created, deleted, truncated or written, with the contents of    *)
(* every other (Sigue) as they were. The effects follow from Buena, the    *)
(* inductive invariant of the blocks; the written cells (Escritos) are     *)
(* then invariant too, and each effect is a step or a stutter of           *)
(* SistemaArchivos.                                                        *)
(***************************************************************************)
EXTENDS DialFS, FiniteSetTheorems, WellFoundedInduction, TLAPS
USE DialFSAssumption

FCBs == [inicio : Bloque, tam : Nat]

\* n blocks from block b.
TramoDe(b, n) == b .. b + n - 1

\* What op is in each stage.
Formas ==
    /\ op.fase \in {"libre", "pedido", "abrir", "cargar", "quitar", "tam", "mover", "fcb", "leido"}
    /\ op.fase = "libre" => op = Libre
    /\ op.fase # "libre" => vivo /\ op.orden \in Orden
    /\ op.fase \in {"pedido", "quitar", "tam"} => op = [fase |-> op.fase, orden |-> op.orden]
    /\ op.fase \in {"abrir", "cargar"} =>
           op.bloque \in Bloque
           /\ op = [fase |-> op.fase, orden |-> op.orden, bloque |-> op.bloque]
    /\ op.fase = "mover" => op = [fase |-> "mover", orden |-> op.orden, buffer |-> op.buffer]
    /\ op.fase = "fcb" =>
           /\ op.hueco \in Bloque /\ op.contiguo \in Bloque /\ op.largo \in Nat /\ op.j \in Nat
           /\ op = [fase |-> "fcb", orden |-> op.orden, buffer |-> op.buffer,
                    hueco |-> op.hueco, contiguo |-> op.contiguo, largo |-> op.largo, j |-> op.j]

\* The disk and the dictionary.
Disco ==
    /\ bitmap \subseteq Bloque
    /\ DOMAIN meta \subseteq Archivos
    /\ meta \in [DOMAIN meta -> FCBs]
    /\ vivo => dicc = IF op.fase = "cargar" THEN DOMAIN meta \ {f0} ELSE DOMAIN meta

\* The files that the operation in progress does not take apart.
Quietos == IF op.fase \in {"cargar", "quitar", "tam", "mover", "fcb"}
           THEN DOMAIN meta \ {f0} ELSE DOMAIN meta

Separados == \A f, g \in Quietos : f # g => Tramo(f) \cap Tramo(g) = {}
Marcados  == op.fase # "fcb" => \A f \in Quietos : Tramo(f) \subseteq bitmap

\* The block of a file that is being created is nobody's.
Creando == op.fase \in {"abrir", "cargar"} =>
    /\ op.bloque \in bitmap
    /\ \A g \in Quietos : op.bloque \notin Tramo(g)
    /\ op.fase = "abrir" <=> f0 \notin DOMAIN meta

\* The blocks of a file that is being truncated are its own, before its size is
\* written and after.
Nuevo == TramoDe(FCB.inicio, Pide)
Truncado == op.fase = "tam" =>
    /\ op.orden.que = "truncar" /\ f0 \in DOMAIN meta /\ Pide >= 1
    /\ Nuevo \subseteq bitmap
    /\ \A g \in Quietos : Nuevo \cap Tramo(g) = {}
    /\ Tiene < Pide => Tramo(f0) \subseteq Nuevo

\* There is room for the file that waits in the buffer, and getFCBxInicio does not
\* find it where it was.
Compactando == op.fase \in {"mover", "fcb"} =>
    /\ op.orden.que = "truncar" /\ Pide <= BlockCount
    /\ f0 \in DOMAIN meta
    /\ Cardinality(bitmap) + Tiene <= BlockCount
    /\ FCB.inicio \notin TrasHueco

\* The run of blocks that is moving down, of whose files j blocks have their new
\* place in the metadata.
Movido(g) == meta[g].inicio \in TramoDe(op.hueco, op.j)
Corrida == op.fase = "fcb" =>
    /\ op.hueco = GetBit
    /\ op.hueco < op.contiguo /\ op.largo >= 1 /\ op.j <= op.largo
    /\ TramoDe(op.hueco, op.contiguo - op.hueco) \cap bitmap = {}
    /\ TramoDe(op.contiguo, op.largo) \subseteq bitmap
    /\ op.contiguo + op.largo <= BlockCount
    /\ op.contiguo + op.largo \notin bitmap
    /\ \A g \in Quietos :
         \/ Movido(g) /\ Tramo(g) \subseteq TramoDe(op.hueco, op.j)
         \/ ~ Movido(g) /\ Tramo(g) \subseteq bitmap \ TramoDe(op.contiguo, op.j)

Reparto == Separados /\ Marcados /\ Creando /\ Truncado /\ Compactando /\ Corrida
Buena == Formas /\ Disco /\ Reparto
Inv == sano # "roto" => Buena

-----------------------------------------------------------------------------
(* Operators.                                                              *)

\* Every set of naturals has a least element.
LEMMA MinimoLemma ==
    ASSUME NEW S \in SUBSET Nat, S # {}
    PROVE  Min(S) \in S /\ \A n \in S : Min(S) <= n
  <1>1. PICK m \in S : \A n \in S : ~ (<<n, m>> \in OpToRel(<, Nat))
    BY NatLessThanWellFounded, WFMin
  <1>2. ASSUME NEW n \in S, n < m
        PROVE  FALSE
    <2>1. <<n, m>> \in Nat \X Nat /\ <<n, m>>[1] = n /\ <<n, m>>[2] = m
      OBVIOUS
    <2>2. <<n, m>> \in OpToRel(<, Nat)
      BY ONLY <2>1, <1>2 DEF OpToRel
    <2> QED BY <1>1, <2>2
  <1>3. \A n \in S : m <= n
    BY <1>2
  <1> QED BY <1>3 DEF Min

\* getBit returns the first free block.
LEMMA GetBitLemma ==
    ASSUME bitmap \subseteq Bloque
    PROVE  /\ GetBit = -1 <=> bitmap = Bloque
           /\ GetBit # -1 => /\ GetBit \in Bloque \ bitmap
                             /\ \A b \in Bloque : b < GetBit => b \in bitmap
  <1>1. Bloque \ bitmap \in SUBSET Nat
    BY DEF Bloque
  <1>2. CASE Bloque \subseteq bitmap
    BY <1>2 DEF GetBit
  <1>3. CASE ~ (Bloque \subseteq bitmap)
    <2>1. GetBit = Min(Bloque \ bitmap) /\ Bloque \ bitmap # {}
      BY <1>3 DEF GetBit
    <2>2. GetBit \in Bloque \ bitmap /\ \A b \in Bloque \ bitmap : GetBit <= b
      BY <1>1, <2>1, MinimoLemma
    <2>3. GetBit \in Nat /\ \A b \in Bloque : b \in Nat
      BY <2>2 DEF Bloque
    <2> QED BY <2>2, <2>3
  <1> QED BY <1>2, <1>3

\* The number of blocks of a size.
LEMMA TechoLemma ==
    ASSUME NEW n \in Nat
    PROVE  /\ Techo(n) \in Nat /\ n <= Techo(n) * BlockSize
           /\ n # 0 => Techo(n) >= 1 /\ Ocupa(n) = Techo(n)
           /\ n = 0 => Techo(n) = 0 /\ Ocupa(n) = 1
           /\ Ocupa(n) \in Nat /\ Ocupa(n) >= 1
  <1>1. /\ Techo(n) \in Nat /\ n <= Techo(n) * BlockSize
        /\ n # 0 => Techo(n) >= 1
        /\ n = 0 => Techo(n) = 0
    BY Z3 DEF Techo
  <1> QED BY <1>1 DEF Ocupa

LEMMA OrdenLemma ==
    ASSUME NEW o \in Orden
    PROVE  o.f \in Archivos /\ o.tam \in Nat /\ o.ptr \in Nat
           /\ o.que \in {"crear", "borrar", "truncar", "escribir", "leer"}
  <1>1. CASE o \in [que : {"crear", "borrar"}, f : Archivos, tam : {0}, ptr : {0}]
    BY <1>1
  <1>2. CASE o \in [que : {"truncar"}, f : Archivos, tam : Tamanos, ptr : {0}]
    <2>1. o.f \in Archivos /\ o.tam \in Tamanos /\ o.ptr = 0 /\ o.que = "truncar"
      BY <1>2
    <2>2. Tamanos \subseteq Nat
      OBVIOUS
    <2>3. o.tam \in Nat
      BY ONLY <2>1, <2>2
    <2>4. o.ptr \in Nat
      BY ONLY <2>1
    <2> QED BY ONLY <2>1, <2>3, <2>4
  <1>3. CASE o \in [que : {"escribir", "leer"}, f : Archivos, tam : {1}, ptr : {0, BlockSize}]
    BY <1>3
  <1> QED BY <1>1, <1>2, <1>3 DEF Orden

-----------------------------------------------------------------------------
(* The operations.                                                         *)

\* The process ends between two operations, or where nothing is half done but leaks.
LEMMA SalirPaso ==
    ASSUME Buena, Salir, UNCHANGED <<disco, escrito>>,
           op.fase \in {"libre", "pedido", "abrir", "leido"} \/ (op.fase = "tam" /\ Tiene < Pide)
    PROVE  Buena'
  <1>1. op' = Libre /\ op'.fase = "libre" /\ vivo' = FALSE /\ UNCHANGED <<bitmap, meta>>
    BY DEF Salir, Libre, disco
  <1>2. Formas' /\ Disco'
    BY <1>1 DEF Buena, Formas, Disco
  <1>3. Quietos' = DOMAIN meta
    BY <1>1 DEF Quietos
  <1>4. \A f, g \in DOMAIN meta : f # g => Tramo(f) \cap Tramo(g) = {}
    <2>1. CASE op.fase = "tam"
      BY <2>1 DEF Buena, Reparto, Separados, Quietos, Truncado
    <2> QED BY <2>1 DEF Buena, Reparto, Separados, Quietos
  <1>5. \A f \in DOMAIN meta : Tramo(f) \subseteq bitmap
    BY DEF Buena, Reparto, Marcados, Quietos, Truncado
  <1>6. Separados' /\ Marcados'
    BY <1>1, <1>3, <1>4, <1>5 DEF Separados, Marcados, Tramo
  <1> QED BY <1>1, <1>2, <1>6 DEF Buena, Reparto, Creando, Truncado, Compactando, Corrida

\* The files and the bitmap stay, and no operation takes a file apart.
LEMMA QuietoPaso ==
    ASSUME Buena, UNCHANGED <<bitmap, meta>>, Formas', Disco',
           op.fase \in {"libre", "pedido", "leido"}, op'.fase \in {"libre", "pedido", "leido"}
    PROVE  Buena'
  <1>1. Quietos = DOMAIN meta /\ Quietos' = DOMAIN meta
    BY DEF Quietos
  <1>2. Separados' /\ Marcados'
    BY <1>1 DEF Buena, Reparto, Separados, Marcados, Tramo
  <1> QED BY <1>2 DEF Buena, Reparto, Creando, Truncado, Compactando, Corrida

LEMMA SinCambioPaso ==
    ASSUME Buena, Recibir \/ Descartar \/ Escribir \/ Leer \/ EntregarLeido
    PROVE  Buena'
  <1>1. /\ UNCHANGED <<bitmap, meta, dicc, vivo>> /\ vivo
        /\ op.fase \in {"libre", "pedido", "leido"} /\ op'.fase \in {"libre", "pedido", "leido"}
    BY DEF Recibir, Descartar, Escribir, Leer, EntregarLeido, EnFase, Pedido, Libre, disco, ajeno
  <1>2. CASE Recibir
    <2>1. PICK o \in Orden : op' = [fase |-> "pedido", orden |-> o]
      BY <1>2 DEF Recibir
    <2>2. Formas'
      BY <1>1, <2>1 DEF Formas
    <2>3. Disco'
      BY <1>1 DEF Buena, Disco
    <2> QED BY <1>1, <2>2, <2>3, QuietoPaso
  <1>3. CASE op' = Libre
    <2>1. Formas'
      BY <1>3 DEF Formas, Libre
    <2>2. Disco'
      BY <1>1 DEF Buena, Disco
    <2> QED BY <1>1, <2>1, <2>2, QuietoPaso
  <1>4. CASE Leer
    <2>1. op.orden \in Orden
      BY <1>4 DEF Leer, Pedido, EnFase, Buena, Formas
    <2>2. Formas'
      BY <1>1, <1>4, <2>1 DEF Leer, Formas
    <2>3. Disco'
      BY <1>1 DEF Buena, Disco
    <2> QED BY <1>1, <2>2, <2>3, QuietoPaso
  <1> QED BY <1>2, <1>3, <1>4 DEF Descartar, Escribir, EntregarLeido

LEMMA ReiniciarPaso ==
    ASSUME Buena, Reiniciar
    PROVE  Buena'
  <1>1. op = Libre /\ op' = Libre /\ op.fase = "libre" /\ op'.fase = "libre"
        /\ UNCHANGED <<bitmap, meta>>
    BY DEF Reiniciar, Buena, Formas, Libre, disco
  <1>2. Formas' /\ Disco'
    BY <1>1 DEF Reiniciar, Buena, Formas, Disco
  <1> QED BY <1>1, <1>2, QuietoPaso

\* The blocks of the files that stay as they were.
LEMMA TramosIguales ==
    ASSUME NEW S, \A g \in S : meta'[g] = meta[g]
    PROVE  \A g \in S : Tramo(g)' = Tramo(g)
  BY DEF Tramo

LEMMA CrearReservarPaso ==
    ASSUME Buena, CrearReservar
    PROVE  Buena'
  <1>1. /\ bitmap' = bitmap \cup {GetBit} /\ GetBit # -1 /\ f0 \notin DOMAIN meta
        /\ op' = [fase |-> "abrir", orden |-> op.orden, bloque |-> GetBit]
        /\ UNCHANGED <<meta, dicc, vivo>> /\ vivo /\ op.fase = "pedido"
    BY DEF CrearReservar, Pedido, EnFase, ajeno
  <1>2. op'.fase = "abrir" /\ op'.orden = op.orden /\ op'.bloque = GetBit /\ f0' = f0
    BY <1>1 DEF f0
  <1>3. GetBit \in Bloque \ bitmap
    BY <1>1, GetBitLemma DEF Buena, Disco
  <1>4. Formas'
    BY <1>1, <1>2, <1>3 DEF Buena, Formas
  <1>5. Disco'
    BY <1>1, <1>2, <1>3 DEF Buena, Disco
  <1>6. Quietos = DOMAIN meta /\ Quietos' = DOMAIN meta /\ \A g \in DOMAIN meta : Tramo(g)' = Tramo(g)
    BY <1>1, <1>2 DEF Quietos, Tramo
  <1>7. Separados' /\ Marcados'
    BY <1>1, <1>2, <1>6 DEF Buena, Reparto, Separados, Marcados
  <1>8. Creando'
    BY <1>1, <1>2, <1>3, <1>6 DEF Buena, Reparto, Marcados, Creando
  <1> QED BY <1>2, <1>4, <1>5, <1>7, <1>8 DEF Buena, Reparto, Truncado, Compactando, Corrida

\* A metadata file with new contents, and the others.
LEMMA ConFCBLemma ==
    ASSUME Disco, NEW c \in FCBs, f0 \in Archivos, meta' = ConFCB(c)
    PROVE  /\ DOMAIN meta' = DOMAIN meta \cup {f0} /\ DOMAIN meta' \subseteq Archivos
           /\ meta' \in [DOMAIN meta' -> FCBs]
           /\ meta'[f0] = c
           /\ \A g \in DOMAIN meta \ {f0} : meta'[g] = meta[g]
  BY DEF Disco, ConFCB

LEMMA CrearAbrirPaso ==
    ASSUME Buena, CrearAbrir
    PROVE  Buena'
  <1>1. /\ meta' = ConFCB([inicio |-> 0, tam |-> 0])
        /\ op' = [op EXCEPT !.fase = "cargar"]
        /\ UNCHANGED <<bitmap, dicc, vivo>> /\ vivo /\ op.fase = "abrir"
    BY DEF CrearAbrir, EnFase, ajeno
  <1>2. op'.fase = "cargar" /\ op'.orden = op.orden /\ op'.bloque = op.bloque
        /\ op' = [fase |-> "cargar", orden |-> op.orden, bloque |-> op.bloque] /\ f0' = f0
    BY <1>1 DEF Buena, Formas, f0
  <1>3. f0 \in Archivos /\ f0 \notin DOMAIN meta /\ [inicio |-> 0, tam |-> 0] \in FCBs
    BY <1>1, OrdenLemma DEF Buena, Formas, Reparto, Creando, FCBs, Bloque, f0
  <1>4. /\ DOMAIN meta' = DOMAIN meta \cup {f0} /\ DOMAIN meta' \subseteq Archivos
        /\ meta' \in [DOMAIN meta' -> FCBs]
        /\ \A g \in DOMAIN meta : meta'[g] = meta[g]
    BY <1>1, <1>3, ConFCBLemma DEF Buena
  <1>5. Formas'
    BY <1>1, <1>2 DEF Buena, Formas
  <1>6. Disco'
    BY <1>1, <1>2, <1>3, <1>4 DEF Buena, Disco
  <1>7. Quietos = DOMAIN meta /\ Quietos' = DOMAIN meta /\ \A g \in DOMAIN meta : Tramo(g)' = Tramo(g)
    BY <1>1, <1>2, <1>3, <1>4 DEF Quietos, Tramo
  <1>8. Separados' /\ Marcados' /\ Creando'
    BY <1>1, <1>2, <1>4, <1>7 DEF Buena, Reparto, Separados, Marcados, Creando
  <1> QED BY <1>2, <1>5, <1>6, <1>8 DEF Buena, Reparto, Truncado, Compactando, Corrida

LEMMA CrearCargarPaso ==
    ASSUME Buena, CrearCargar
    PROVE  Buena'
  <1>1. /\ meta' = ConFCB([inicio |-> op.bloque, tam |-> 0])
        /\ op' = Libre /\ op'.fase = "libre" /\ dicc' = dicc \cup {f0}
        /\ UNCHANGED <<bitmap, vivo>> /\ vivo /\ op.fase = "cargar"
    BY DEF CrearCargar, EnFase, ajeno, Libre
  <1>2. f0 \in Archivos /\ f0 \in DOMAIN meta /\ [inicio |-> op.bloque, tam |-> 0] \in FCBs
    BY <1>1, OrdenLemma DEF Buena, Formas, Reparto, Creando, FCBs, f0
  <1>3. /\ DOMAIN meta' = DOMAIN meta
        /\ meta' \in [DOMAIN meta' -> FCBs]
        /\ meta'[f0] = [inicio |-> op.bloque, tam |-> 0]
        /\ \A g \in DOMAIN meta \ {f0} : meta'[g] = meta[g]
    BY <1>1, <1>2, ConFCBLemma DEF Buena
  <1>4. Formas'
    BY <1>1 DEF Formas
  <1>5. Disco'
    BY <1>1, <1>2, <1>3 DEF Buena, Disco
  <1>6. /\ Quietos = DOMAIN meta \ {f0} /\ Quietos' = DOMAIN meta
        /\ \A g \in Quietos : Tramo(g)' = Tramo(g)
    BY <1>1, <1>3 DEF Quietos, Tramo
  <1>0. PICK a \in Archivos : a = f0
    BY <1>2
  <1>7. Tramo(a)' = {op.bloque}
    <2>1. Ocupa(0) = 1 /\ op.bloque \in Int
      BY <1>1, TechoLemma DEF Buena, Formas, Bloque
    <2>2. Tramo(a)' = op.bloque .. op.bloque + 1 - 1
      BY <1>0, <1>3, <2>1 DEF Tramo
    <2> QED BY <2>1, <2>2
  <1>8. Separados' /\ Marcados'
    BY <1>0, <1>1, <1>6, <1>7 DEF Buena, Reparto, Separados, Marcados, Creando
  <1> QED BY <1>1, <1>4, <1>5, <1>8 DEF Buena, Reparto, Creando, Truncado, Compactando, Corrida

LEMMA BorrarLiberarPaso ==
    ASSUME Buena, BorrarLiberar
    PROVE  Buena'
  <1>1. /\ bitmap' = bitmap \ Tramo(f0) /\ f0 \in DOMAIN meta
        /\ op' = [op EXCEPT !.fase = "quitar"]
        /\ UNCHANGED <<meta, dicc, vivo>> /\ vivo /\ op.fase = "pedido"
    BY DEF BorrarLiberar, Pedido, EnFase, ajeno, Buena, Disco
  <1>2. op'.fase = "quitar" /\ op'.orden = op.orden
        /\ op' = [fase |-> "quitar", orden |-> op.orden] /\ f0' = f0
    BY <1>1 DEF Buena, Formas, f0
  <1>3. Formas'
    BY <1>1, <1>2 DEF Buena, Formas
  <1>4. Disco'
    BY <1>1, <1>2 DEF Buena, Disco
  <1>5. /\ Quietos = DOMAIN meta /\ Quietos' = DOMAIN meta \ {f0}
        /\ \A g \in Quietos : Tramo(g)' = Tramo(g)
    BY <1>1, <1>2 DEF Quietos, Tramo
  <1>6. Separados' /\ Marcados'
    BY <1>1, <1>2, <1>5 DEF Buena, Reparto, Separados, Marcados
  <1> QED BY <1>2, <1>3, <1>4, <1>6 DEF Buena, Reparto, Creando, Truncado, Compactando, Corrida

LEMMA BorrarQuitarPaso ==
    ASSUME Buena, BorrarQuitar
    PROVE  Buena'
  <1>1. /\ meta' = Restrict(meta, DOMAIN meta \ {f0}) /\ dicc' = dicc \ {f0}
        /\ op' = Libre /\ op'.fase = "libre"
        /\ UNCHANGED <<bitmap, vivo>> /\ vivo /\ op.fase = "quitar"
    BY DEF BorrarQuitar, EnFase, ajeno, Libre
  <1>2. /\ DOMAIN meta' = DOMAIN meta \ {f0} /\ meta' \in [DOMAIN meta' -> FCBs]
        /\ \A g \in DOMAIN meta \ {f0} : meta'[g] = meta[g]
    BY <1>1 DEF Buena, Disco, Restrict
  <1>3. Formas'
    BY <1>1 DEF Formas
  <1>4. Disco'
    BY <1>1, <1>2 DEF Buena, Disco
  <1>5. /\ Quietos = DOMAIN meta \ {f0} /\ Quietos' = DOMAIN meta \ {f0}
        /\ \A g \in Quietos : Tramo(g)' = Tramo(g)
    BY <1>1, <1>2 DEF Quietos, Tramo
  <1>6. Separados' /\ Marcados'
    BY <1>1, <1>5 DEF Buena, Reparto, Separados, Marcados
  <1> QED BY <1>1, <1>3, <1>4, <1>6 DEF Buena, Reparto, Creando, Truncado, Compactando, Corrida

\* The metadata of a file.
LEMMA FCBLemma ==
    ASSUME Disco, NEW g \in DOMAIN meta
    PROVE  /\ meta[g] \in FCBs /\ meta[g].inicio \in Nat /\ meta[g].tam \in Nat
           /\ meta[g].inicio \in Bloque
           /\ Ocupa(meta[g].tam) \in Nat /\ Ocupa(meta[g].tam) >= 1
           /\ \A x : x \in Tramo(g) <=> /\ x \in Int /\ meta[g].inicio <= x
                                        /\ x < meta[g].inicio + Ocupa(meta[g].tam)
           /\ meta[g].inicio \in Tramo(g)
  <1>1. meta[g] \in FCBs
    BY DEF Disco
  <1>2. meta[g].inicio \in Nat /\ meta[g].tam \in Nat /\ meta[g].inicio \in Bloque
    BY <1>1 DEF FCBs, Bloque
  <1>3. Ocupa(meta[g].tam) \in Nat /\ Ocupa(meta[g].tam) >= 1
    BY <1>2, TechoLemma
  <1> QED BY <1>1, <1>2, <1>3 DEF Tramo

\* The operation in progress.
LEMMA F0Lemma ==
    ASSUME Formas, op.fase # "libre"
    PROVE  /\ f0 \in Archivos /\ op.orden.tam \in Nat /\ Pide \in Nat
           /\ Pide # 0 => Ocupa(op.orden.tam) = Pide
  <1>1. op.orden.f \in Archivos /\ op.orden.tam \in Nat
    BY OrdenLemma DEF Formas
  <1> QED BY <1>1, TechoLemma DEF f0, Pide

LEMMA FCB0Lemma ==
    ASSUME Disco, f0 \in DOMAIN meta
    PROVE  /\ FCB.inicio \in Nat /\ FCB.inicio \in Bloque /\ FCB.tam \in Nat
           /\ Tiene \in Nat /\ Tiene >= 1
           /\ \A x : x \in Tramo(f0) <=> x \in Int /\ FCB.inicio <= x /\ x < FCB.inicio + Tiene
           /\ FCB.inicio \in Tramo(f0)
  <1>1. PICK a \in DOMAIN meta : a = f0
    OBVIOUS
  <1>2. FCB = meta[a] /\ Tiene = Ocupa(meta[a].tam) /\ Tramo(f0) = Tramo(a)
    BY <1>1 DEF FCB, Tiene
  <1> QED BY <1>2, FCBLemma

LEMMA TruncarAchicarPaso ==
    ASSUME Buena, TruncarAchicar, sano' # "roto"
    PROVE  Buena'
  <1>1. /\ bitmap' = bitmap \ (Ultimo - (Tiene - Pide) + 1 .. Ultimo)
        /\ op.orden.que = "truncar" /\ f0 \in DOMAIN meta /\ Pide < Tiene /\ Pide # 0
        /\ op' = [op EXCEPT !.fase = "tam"]
        /\ UNCHANGED <<meta, dicc, vivo>> /\ vivo /\ op.fase = "pedido"
    BY DEF TruncarAchicar, Truncando, Pedido, EnFase, ajeno, Buena, Disco
  <1>2. op'.fase = "tam" /\ op'.orden = op.orden /\ f0' = f0 /\ Pide' = Pide
        /\ op' = [fase |-> "tam", orden |-> op.orden]
    BY <1>1 DEF Buena, Formas, f0, Pide
  <1>3. Formas' /\ Disco'
    BY <1>1, <1>2 DEF Buena, Formas, Disco
  <1>4. /\ Quietos = DOMAIN meta /\ Quietos' = DOMAIN meta \ {f0}
        /\ \A g \in Quietos : Tramo(g)' = Tramo(g)
    BY <1>1, <1>2 DEF Quietos, Tramo
  <1>5. FCB.inicio \in Nat /\ Tiene \in Nat /\ Pide \in Nat
        /\ \A x : x \in Tramo(f0) <=> x \in Int /\ FCB.inicio <= x /\ x < FCB.inicio + Tiene
    BY <1>1, FCB0Lemma, F0Lemma DEF Buena
  <1>6. bitmap' = bitmap \ (FCB.inicio + Pide .. FCB.inicio + Tiene - 1)
    <2>1. Ultimo - (Tiene - Pide) + 1 = FCB.inicio + Pide /\ Ultimo = FCB.inicio + Tiene - 1
      BY <1>5 DEF Ultimo
    <2> QED BY <1>1, <2>1
  <1>7. \A x : x \in Nuevo <=> x \in Int /\ FCB.inicio <= x /\ x < FCB.inicio + Pide
    BY <1>5 DEF Nuevo, TramoDe
  <1>8. Nuevo' = Nuevo /\ Tiene' = Tiene /\ FCB' = FCB
    BY <1>1, <1>2 DEF Nuevo, FCB, Tiene
  <1>9. Separados /\ Marcados
    BY DEF Buena, Reparto
  <1>10. \A x \in Nuevo : x \in Tramo(f0) /\ x \in bitmap'
    BY <1>1, <1>4, <1>5, <1>6, <1>7, <1>9 DEF Marcados
  <1>11. \A g \in DOMAIN meta \ {f0} : Tramo(g) \subseteq bitmap'
    BY <1>1, <1>4, <1>5, <1>6, <1>9 DEF Marcados, Separados
  <1>12. \A g \in DOMAIN meta \ {f0} : Nuevo \cap Tramo(g) = {}
    BY <1>1, <1>4, <1>9, <1>10 DEF Separados
  <1>13. Truncado'
    BY <1>1, <1>2, <1>4, <1>5, <1>8, <1>10, <1>12 DEF Truncado
  <1>14. Separados' /\ Marcados'
    BY <1>4, <1>9, <1>11 DEF Marcados, Separados
  <1> QED BY <1>2, <1>3, <1>13, <1>14 DEF Buena, Reparto, Creando, Compactando, Corrida

LEMMA TruncarCrecerPaso ==
    ASSUME Buena, TruncarCrecer
    PROVE  Buena'
  <1>1. /\ bitmap' = bitmap \cup (Ultimo + 1 .. Ultimo + Pide - Tiene)
        /\ VerificarBitmap(Ultimo, Pide - Tiene)
        /\ op.orden.que = "truncar" /\ f0 \in DOMAIN meta /\ Tiene < Pide
        /\ op' = [op EXCEPT !.fase = "tam"]
        /\ UNCHANGED <<meta, dicc, vivo>> /\ vivo /\ op.fase = "pedido"
    BY DEF TruncarCrecer, Truncando, Pedido, EnFase, ajeno, Buena, Disco
  <1>2. op'.fase = "tam" /\ op'.orden = op.orden /\ f0' = f0 /\ Pide' = Pide
        /\ op' = [fase |-> "tam", orden |-> op.orden]
    BY <1>1 DEF Buena, Formas, f0, Pide
  <1>4. /\ Quietos = DOMAIN meta /\ Quietos' = DOMAIN meta \ {f0}
        /\ \A g \in Quietos : Tramo(g)' = Tramo(g)
    BY <1>1, <1>2 DEF Quietos, Tramo
  <1>5. FCB.inicio \in Nat /\ Tiene \in Nat /\ Tiene >= 1 /\ Pide \in Nat
        /\ \A x : x \in Tramo(f0) <=> x \in Int /\ FCB.inicio <= x /\ x < FCB.inicio + Tiene
    BY <1>1, FCB0Lemma, F0Lemma DEF Buena
  <1> DEFINE mas == FCB.inicio + Tiene .. FCB.inicio + Pide - 1
  <1>6. bitmap' = bitmap \cup mas /\ mas \cap bitmap = {} /\ FCB.inicio + Pide - 1 < BlockCount
    <2>1. /\ Ultimo + 1 = FCB.inicio + Tiene
          /\ Ultimo + Pide - Tiene = FCB.inicio + Pide - 1
          /\ Ultimo + (Pide - Tiene) = FCB.inicio + Pide - 1
      BY <1>5 DEF Ultimo
    <2> QED BY <1>1, <2>1 DEF VerificarBitmap
  <1>7. \A x : x \in Nuevo <=> x \in Int /\ FCB.inicio <= x /\ x < FCB.inicio + Pide
    BY <1>5 DEF Nuevo, TramoDe
  <1>8. Nuevo' = Nuevo /\ Tiene' = Tiene /\ FCB' = FCB
    BY <1>1, <1>2 DEF Nuevo, FCB, Tiene
  <1>9. Separados /\ Marcados
    BY DEF Buena, Reparto
  <1>10. \A x \in Nuevo : x \in Tramo(f0) \/ x \in mas
    BY <1>5, <1>7
  <1>3. Formas' /\ Disco'
    <2>1. mas \subseteq Bloque
      BY <1>5, <1>6 DEF Bloque
    <2> QED BY <1>1, <1>2, <1>6, <2>1 DEF Buena, Formas, Disco
  <1> HIDE DEF mas
  <1>11. Nuevo \subseteq bitmap'
    BY <1>1, <1>4, <1>6, <1>9, <1>10 DEF Marcados
  <1>12. \A g \in DOMAIN meta \ {f0} : Nuevo \cap Tramo(g) = {}
    BY <1>1, <1>4, <1>6, <1>9, <1>10 DEF Separados, Marcados
  <1>15. Tramo(f0) \subseteq Nuevo /\ Pide >= 1
    BY <1>1, <1>5, <1>7
  <1>16. Tramo(f0)' = Tramo(f0)
    BY <1>1, <1>2 DEF Tramo
  <1>13. Truncado'
    BY <1>1, <1>2, <1>4, <1>8, <1>11, <1>12, <1>15, <1>16 DEF Truncado
  <1>14. Separados' /\ Marcados'
    BY <1>1, <1>4, <1>6, <1>9 DEF Marcados, Separados
  <1> QED BY <1>2, <1>3, <1>13, <1>14 DEF Buena, Reparto, Creando, Compactando, Corrida

LEMMA TruncarTamPaso ==
    ASSUME Buena, TruncarTam
    PROVE  Buena'
  <1>1. /\ meta' = [meta EXCEPT ![f0].tam = op.orden.tam]
        /\ op' = Libre /\ op'.fase = "libre"
        /\ UNCHANGED <<bitmap, dicc, vivo>> /\ vivo
        /\ op.fase = "tam" \/ (op.fase = "pedido" /\ f0 \in dicc /\ Tiene = Pide)
    BY DEF TruncarTam, Truncando, Pedido, EnFase, ajeno, Libre
  <1>2. f0 \in DOMAIN meta /\ op.orden.tam \in Nat /\ Pide \in Nat
    <2>1. op.fase # "libre"
      BY <1>1
    <2>2. op.orden.tam \in Nat /\ Pide \in Nat
      BY <2>1, F0Lemma DEF Buena
    <2>3. CASE op.fase = "tam"
      BY <2>2, <2>3 DEF Buena, Reparto, Truncado
    <2>4. CASE op.fase = "pedido" /\ f0 \in dicc
      BY <1>1, <2>2, <2>4 DEF Buena, Disco
    <2> QED BY <1>1, <2>3, <2>4
  <1>3. PICK a \in DOMAIN meta : a = f0
    BY <1>2
  <1>4. FCB = meta[a] /\ meta[a].inicio \in Nat /\ Tiene = Ocupa(meta[a].tam) /\ Tiene >= 1
    BY <1>3, FCBLemma DEF Buena, FCB, Tiene
  <1>5. Pide >= 1 /\ Ocupa(op.orden.tam) = Pide
    <2>1. Pide >= 1
      BY <1>1, <1>4 DEF Buena, Reparto, Truncado
    <2>2. Pide # 0
      BY <1>2, <2>1
    <2>3. op.fase # "libre" /\ Formas
      BY <1>1 DEF Buena
    <2> QED BY <2>1, <2>2, <2>3, F0Lemma
  <1>6. /\ DOMAIN meta' = DOMAIN meta /\ meta' \in [DOMAIN meta' -> FCBs]
        /\ meta'[a].inicio = meta[a].inicio /\ meta'[a].tam = op.orden.tam
        /\ \A g \in DOMAIN meta \ {a} : meta'[g] = meta[g]
    BY <1>1, <1>2, <1>3 DEF Buena, Disco, FCBs
  <1>7. Formas' /\ Disco'
    BY <1>1, <1>6 DEF Formas, Buena, Disco
  <1>8. Tramo(a)' = Nuevo
    BY <1>3, <1>4, <1>5, <1>6 DEF Tramo, Nuevo, TramoDe
  <1>9. Separados /\ Marcados
    BY DEF Buena, Reparto
  <1>10. /\ \A g \in DOMAIN meta \ {a} : Nuevo \cap Tramo(g) = {} /\ Tramo(g) \subseteq bitmap
         /\ Nuevo \subseteq bitmap
    <2>1. CASE op.fase = "tam"
      BY <1>3, <1>9, <2>1 DEF Buena, Reparto, Truncado, Quietos, Marcados
    <2>2. CASE op.fase = "pedido" /\ Tiene = Pide
      <3>1. Nuevo = Tramo(a) /\ Quietos = DOMAIN meta
        BY <1>4, <2>2 DEF Nuevo, TramoDe, Tramo, Quietos
      <3> QED BY <1>9, <2>2, <3>1 DEF Marcados, Separados
    <2> QED BY <1>1, <2>1, <2>2
  <1>11. /\ Quietos' = DOMAIN meta /\ \A g \in DOMAIN meta \ {a} : g \in Quietos /\ Tramo(g)' = Tramo(g)
    BY <1>1, <1>3, <1>6 DEF Quietos, Tramo
  <1>12. Separados' /\ Marcados'
    <2>1. \A g, h \in DOMAIN meta : g # h => Tramo(g)' \cap Tramo(h)' = {}
      BY <1>8, <1>9, <1>10, <1>11 DEF Separados
    <2>2. \A g \in DOMAIN meta : Tramo(g)' \subseteq bitmap'
      BY <1>1, <1>8, <1>10, <1>11
    <2> QED BY <1>11, <2>1, <2>2 DEF Separados, Marcados
  <1> QED BY <1>1, <1>7, <1>12 DEF Buena, Reparto, Creando, Truncado, Compactando, Corrida

LEMMA TerminarPaso ==
    ASSUME Buena, TruncarSinEspacio \/ FueraDeArchivo \/ Cortar, sano' # "roto"
    PROVE  Buena'
  <1>1. Salir /\ UNCHANGED <<disco, escrito>>
    BY DEF TruncarSinEspacio, FueraDeArchivo, Cortar, disco
  <1>2. CASE op.fase = "pedido"
    BY <1>1, <1>2, SalirPaso
  <1>3. CASE Cortar
    <2>1. Deja # "roto"
      BY <1>3 DEF Cortar, Empeora
    <2>2. op.fase \in {"libre", "pedido", "abrir", "leido"} \/ (op.fase = "tam" /\ Tiene < Pide)
      BY <2>1 DEF Deja, Buena, Formas
    <2> QED BY <1>1, <2>2, SalirPaso
  <1> QED BY <1>2, <1>3 DEF TruncarSinEspacio, FueraDeArchivo, Truncando, Pedido, EnFase

-----------------------------------------------------------------------------
(* The compaction.                                                         *)

\* The bitmap is finite, and has a block free while it has fewer than the disk.
LEMMA BitmapLemma ==
    ASSUME bitmap \subseteq Bloque
    PROVE  /\ IsFiniteSet(bitmap) /\ Cardinality(bitmap) \in Nat
           /\ Cardinality(bitmap) <= BlockCount
           /\ Cardinality(bitmap) < BlockCount => GetBit # -1
  <1>1. IsFiniteSet(Bloque) /\ Cardinality(Bloque) = BlockCount
    BY FS_Interval DEF Bloque
  <1>2. IsFiniteSet(bitmap) /\ Cardinality(bitmap) <= BlockCount
    BY <1>1, FS_Subset
  <1>3. Cardinality(bitmap) \in Nat
    BY <1>2, FS_CardinalityType
  <1>4. Cardinality(bitmap) < BlockCount => GetBit # -1
    BY <1>1, GetBitLemma
  <1> QED BY <1>2, <1>3, <1>4

LEMMA CompactarLimpiarPaso ==
    ASSUME Buena, CompactarLimpiar
    PROVE  Buena'
  <1>1. /\ bitmap' = bitmap \ Tramo(f0) /\ f0 \in DOMAIN meta /\ Pide <= BlockCount
        /\ op.orden.que = "truncar"
        /\ UNCHANGED <<meta, dicc, vivo>> /\ vivo /\ op.fase = "pedido"
    BY DEF CompactarLimpiar, Truncando, Pedido, EnFase, ajeno, Buena, Disco
  <1>2. /\ op'.fase = "mover" /\ op'.orden = op.orden /\ f0' = f0 /\ Pide' = Pide
        /\ op' = [fase |-> "mover", orden |-> op'.orden, buffer |-> op'.buffer]
    BY DEF CompactarLimpiar, f0, Pide
  <1>3. Formas' /\ Disco'
    BY <1>1, <1>2 DEF Buena, Formas, Disco
  <1>4. /\ Quietos = DOMAIN meta /\ Quietos' = DOMAIN meta \ {f0}
        /\ \A g \in DOMAIN meta : Tramo(g)' = Tramo(g)
    BY <1>1, <1>2 DEF Quietos, Tramo
  <1>5. Separados /\ Marcados
    BY DEF Buena, Reparto
  <1>6. Separados' /\ Marcados'
    BY <1>1, <1>4, <1>5 DEF Separados, Marcados
  <1>7. FCB' = FCB /\ Tiene' = Tiene
    BY <1>1, <1>2 DEF FCB, Tiene
  <1>8. FCB.inicio \in Nat /\ Tiene \in Nat /\ Tiene >= 1 /\ FCB.inicio \in Tramo(f0)
        /\ Tramo(f0) = FCB.inicio .. FCB.inicio + Tiene - 1
    BY <1>1, FCB0Lemma DEF Buena, Tramo, FCB, Tiene
  <1>9. Cardinality(bitmap') + Tiene <= BlockCount
    <2>1. Cardinality(Tramo(f0)) = Tiene
      <3>1. FCB.inicio \in Int /\ FCB.inicio + Tiene - 1 \in Int
        BY <1>8
      <3>2. Cardinality(FCB.inicio .. FCB.inicio + Tiene - 1)
            = IF FCB.inicio > FCB.inicio + Tiene - 1 THEN 0
              ELSE (FCB.inicio + Tiene - 1) - FCB.inicio + 1
        BY ONLY <3>1, FS_Interval
      <3> QED BY <1>8, <3>2
    <2>2. bitmap \cap Tramo(f0) = Tramo(f0)
      BY <1>1, <1>4, <1>5 DEF Marcados
    <2>3. IsFiniteSet(bitmap) /\ Cardinality(bitmap) \in Nat /\ Cardinality(bitmap) <= BlockCount
      BY BitmapLemma DEF Buena, Disco
    <2>4. Cardinality(bitmap') = Cardinality(bitmap) - Tiene
      BY <1>1, <2>1, <2>2, <2>3, FS_Difference
    <2> QED BY <1>8, <2>3, <2>4
  <1>10. Compactando'
    <2>1. FCB.inicio \notin TrasHueco'
      BY <1>1, <1>8 DEF TrasHueco
    <2> QED BY <1>1, <1>2, <1>7, <1>9, <2>1 DEF Compactando
  <1> QED BY <1>2, <1>3, <1>6, <1>10 DEF Buena, Reparto, Creando, Truncado, Corrida

\* What the first hole of a compaction is.
LEMMA HuecoLemma ==
    ASSUME Buena, op.fase \in {"mover", "fcb"}
    PROVE  /\ GetBit \in Bloque \ bitmap /\ GetBit \in Nat
           /\ \A b \in Bloque : b < GetBit => b \in bitmap
           /\ f0 \in DOMAIN meta /\ FCB.inicio \in Nat /\ Tiene \in Nat /\ Tiene >= 1
           /\ Cardinality(bitmap) \in Nat /\ IsFiniteSet(bitmap)
  <1>1. bitmap \subseteq Bloque /\ Compactando /\ Disco
    BY DEF Buena, Disco, Reparto
  <1>2. f0 \in DOMAIN meta /\ Cardinality(bitmap) + Tiene <= BlockCount
    BY <1>1 DEF Compactando
  <1>3. FCB.inicio \in Nat /\ Tiene \in Nat /\ Tiene >= 1
    BY <1>1, <1>2, FCB0Lemma
  <1>4. GetBit # -1 /\ Cardinality(bitmap) \in Nat /\ IsFiniteSet(bitmap)
    BY <1>1, <1>2, <1>3, BitmapLemma
  <1>5. GetBit \in Bloque \ bitmap /\ \A b \in Bloque : b < GetBit => b \in bitmap
    BY <1>1, <1>4, GetBitLemma
  <1> QED BY <1>2, <1>3, <1>4, <1>5 DEF Bloque

LEMMA CompactarBuscarPaso ==
    ASSUME Buena, CompactarBuscar
    PROVE  Buena'
  <1> DEFINE c == Min(TrasHueco)
             F == {b \in c .. BlockCount : b \notin bitmap}
             fin == Min(F)
  <1>1. /\ UNCHANGED <<bitmap, meta, dicc, vivo>> /\ vivo /\ op.fase = "mover" /\ TrasHueco # {}
        /\ op' = [fase |-> "fcb", orden |-> op.orden, buffer |-> op.buffer, hueco |-> GetBit,
                  contiguo |-> c, largo |-> fin - c, j |-> 0]
    BY DEF CompactarBuscar, EnFase, disco, ajeno
  <1>2. bitmap \subseteq Bloque /\ Compactando /\ Separados /\ Marcados
    BY DEF Buena, Disco, Reparto
  <1>3. GetBit \in Bloque \ bitmap /\ GetBit \in Nat
    BY <1>1, HuecoLemma
  <1>0. \A b \in bitmap : b \in Bloque /\ b \in Nat /\ b < BlockCount
    BY <1>2 DEF Bloque
  <1>4. c \in TrasHueco /\ \A b \in TrasHueco : c <= b
    <2>1. TrasHueco \in SUBSET Nat
      BY <1>0 DEF TrasHueco
    <2> QED BY <1>1, <2>1, MinimoLemma
  <1>5. c \in bitmap /\ c \in Bloque /\ c \in Nat /\ GetBit < c /\ c < BlockCount
    <2>1. c \in bitmap /\ c > GetBit
      BY <1>4 DEF TrasHueco
    <2> QED BY <1>0, <1>3, <2>1
  <1> HIDE DEF c
  <1>6. fin \in F /\ \A b \in F : fin <= b
    <2>1. F \in SUBSET Nat
      BY <1>5
    <2>2. BlockCount \in F
      BY <1>2, <1>5 DEF Bloque
    <2> QED BY <2>1, <2>2, MinimoLemma
  <1>7. fin \in Nat /\ fin <= BlockCount /\ fin \notin bitmap /\ c < fin
        /\ \A b \in c .. fin - 1 : b \in bitmap
    <2>1. fin \in Nat /\ c <= fin /\ fin <= BlockCount /\ fin \notin bitmap
      BY <1>5, <1>6
    <2>2. fin # c
      BY <1>5, <2>1
    <2>3. ASSUME NEW b \in c .. fin - 1
          PROVE  b \in bitmap
      <3>1. b \in c .. BlockCount /\ b < fin /\ b \in Int
        BY <1>5, <2>1
      <3> QED BY <1>6, <2>1, <3>1
    <2> QED BY <1>5, <2>1, <2>2, <2>3
  <1> HIDE DEF fin, F
  <1>8. PICK n \in Nat : n = fin - c /\ n >= 1 /\ c + n = fin
    BY <1>5, <1>7
  <1>9. /\ op'.fase = "fcb" /\ op'.orden = op.orden /\ op'.hueco = GetBit
        /\ op'.contiguo = c /\ op'.largo = n /\ op'.j = 0 /\ f0' = f0 /\ Pide' = Pide
        /\ op' = [fase |-> "fcb", orden |-> op'.orden, buffer |-> op'.buffer, hueco |-> op'.hueco,
                  contiguo |-> op'.contiguo, largo |-> op'.largo, j |-> op'.j]
    BY <1>1, <1>8 DEF f0, Pide
  <1>10. Formas' /\ Disco'
    BY <1>1, <1>3, <1>5, <1>9 DEF Buena, Formas, Disco
  <1>11. /\ Quietos' = Quietos /\ Quietos = DOMAIN meta \ {f0} /\ FCB' = FCB /\ Tiene' = Tiene
         /\ GetBit' = GetBit /\ TrasHueco' = TrasHueco
         /\ \A g \in Quietos : Tramo(g)' = Tramo(g)
    BY <1>1, <1>9 DEF Quietos, FCB, Tiene, GetBit, TrasHueco, Tramo
  <1>12. Separados' /\ Marcados' /\ Compactando'
    BY <1>1, <1>2, <1>9, <1>11 DEF Separados, Marcados, Compactando
  <1>13. TramoDe(GetBit, c - GetBit) \cap bitmap = {}
    <2>1. ASSUME NEW b \in TramoDe(GetBit, c - GetBit), b \in bitmap
          PROVE  FALSE
      <3>1. b \in Int /\ GetBit <= b /\ b < c
        BY <1>3, <1>5 DEF TramoDe
      <3>2. b # GetBit
        BY <1>3, <2>1
      <3>3. b \in TrasHueco
        BY <1>3, <2>1, <3>1, <3>2 DEF TrasHueco
      <3> QED BY <1>4, <1>5, <3>1, <3>3 DEF c
    <2> QED BY <2>1
  <1>14. TramoDe(c, n) \subseteq bitmap
    <2>1. TramoDe(c, n) = c .. fin - 1
      BY <1>5, <1>7, <1>8 DEF TramoDe
    <2> QED BY <1>7, <2>1
  <1>15. \A x \in Nat : TramoDe(x, 0) = {}
    BY DEF TramoDe
  <1>16. ASSUME NEW g \in Quietos
         PROVE  ~ Movido(g)' /\ Tramo(g)' \subseteq bitmap' \ TramoDe(c, 0)
    <2>1. ~ Movido(g)'
      BY <1>3, <1>9, <1>15 DEF Movido
    <2>2. TramoDe(c, 0) = {}
      BY <1>5, <1>15
    <2> QED BY <1>1, <1>2, <1>11, <2>1, <2>2 DEF Marcados
  <1>17. Corrida'
    BY <1>1, <1>5, <1>7, <1>8, <1>9, <1>11, <1>13, <1>14, <1>16 DEF Corrida
  <1> QED BY <1>9, <1>10, <1>12, <1>17 DEF Buena, Reparto, Creando, Truncado

\* The stage in which a run of blocks is moved.
LEMMA FcbLemma ==
    ASSUME Buena, op.fase = "fcb"
    PROVE  /\ op.hueco = GetBit /\ op.hueco \in Nat /\ op.hueco \in Bloque
           /\ op.contiguo \in Nat /\ op.largo \in Nat /\ op.j \in Nat
           /\ op.hueco < op.contiguo /\ op.largo >= 1 /\ op.j <= op.largo
           /\ op.contiguo + op.largo <= BlockCount
           /\ op.contiguo + op.largo \notin bitmap
           /\ \A b \in Int : op.hueco <= b /\ b < op.contiguo => b \notin bitmap
           /\ \A b \in Int : op.contiguo <= b /\ b < op.contiguo + op.largo => b \in bitmap
           /\ Quietos = DOMAIN meta \ {f0} /\ f0 \in DOMAIN meta
           /\ FCB.inicio \notin TrasHueco
           /\ \A g \in Quietos :
                \/ /\ op.hueco <= meta[g].inicio /\ meta[g].inicio < op.hueco + op.j
                   /\ \A b \in Tramo(g) : op.hueco <= b /\ b < op.hueco + op.j
                \/ /\ ~ (op.hueco <= meta[g].inicio /\ meta[g].inicio < op.hueco + op.j)
                   /\ \A b \in Tramo(g) :
                        b \in bitmap /\ ~ (op.contiguo <= b /\ b < op.contiguo + op.j)
  <1>1. /\ op.hueco \in Bloque /\ op.contiguo \in Bloque /\ op.largo \in Nat /\ op.j \in Nat
        /\ Corrida /\ Compactando /\ Disco
    BY DEF Buena, Formas, Reparto
  <1>2. op.hueco \in Nat /\ op.contiguo \in Nat
    BY <1>1 DEF Bloque
  <1>3. /\ op.hueco = GetBit
        /\ op.hueco < op.contiguo /\ op.largo >= 1 /\ op.j <= op.largo
        /\ TramoDe(op.hueco, op.contiguo - op.hueco) \cap bitmap = {}
        /\ TramoDe(op.contiguo, op.largo) \subseteq bitmap
        /\ op.contiguo + op.largo <= BlockCount
        /\ op.contiguo + op.largo \notin bitmap
        /\ \A g \in Quietos :
             \/ Movido(g) /\ Tramo(g) \subseteq TramoDe(op.hueco, op.j)
             \/ ~ Movido(g) /\ Tramo(g) \subseteq bitmap \ TramoDe(op.contiguo, op.j)
    BY <1>1 DEF Corrida
  <1>4. \A b \in Int : op.hueco <= b /\ b < op.contiguo => b \notin bitmap
    BY <1>1, <1>2, <1>3 DEF TramoDe
  <1>5. \A b \in Int : op.contiguo <= b /\ b < op.contiguo + op.largo => b \in bitmap
    BY <1>1, <1>2, <1>3 DEF TramoDe
  <1>6. Quietos = DOMAIN meta \ {f0} /\ f0 \in DOMAIN meta /\ FCB.inicio \notin TrasHueco
    BY <1>1 DEF Quietos, Compactando
  <1>7. ASSUME NEW g \in Quietos
        PROVE  \/ /\ op.hueco <= meta[g].inicio /\ meta[g].inicio < op.hueco + op.j
                  /\ \A b \in Tramo(g) : op.hueco <= b /\ b < op.hueco + op.j
               \/ /\ ~ (op.hueco <= meta[g].inicio /\ meta[g].inicio < op.hueco + op.j)
                  /\ \A b \in Tramo(g) :
                        b \in bitmap /\ ~ (op.contiguo <= b /\ b < op.contiguo + op.j)
    <2>1. /\ meta[g].inicio \in Nat
          /\ \A b \in Tramo(g) : b \in Int
      BY <1>1, <1>6, FCBLemma
    <2>2. CASE Movido(g) /\ Tramo(g) \subseteq TramoDe(op.hueco, op.j)
      BY <1>1, <1>2, <2>1, <2>2 DEF Movido, TramoDe
    <2>3. CASE ~ Movido(g) /\ Tramo(g) \subseteq bitmap \ TramoDe(op.contiguo, op.j)
      BY <1>1, <1>2, <2>1, <2>3 DEF Movido, TramoDe
    <2> QED BY <1>3, <2>2, <2>3
  <1> QED BY <1>1, <1>2, <1>3, <1>4, <1>5, <1>6, <1>7

\* One file of a run gets its new place: it is not the one in the buffer, and it is
\* whole in the run.
LEMMA CompactarFCBLemma ==
    ASSUME Buena, op.fase = "fcb", op.j < op.largo,
           NEW g \in EnInicio(op.contiguo + op.j)
    PROVE  /\ g \in Quietos /\ meta[g].inicio = op.contiguo + op.j
           /\ op.j + Ocupa(meta[g].tam) <= op.largo
  <1>1. vivo /\ Disco /\ Separados
    BY DEF Buena, Formas, Reparto
  <1>2. g \in DOMAIN meta /\ meta[g].inicio = op.contiguo + op.j
    BY <1>1 DEF EnInicio, Disco
  <1>3. PICK i \in Nat : i = op.contiguo + op.j /\ i \in bitmap /\ i > GetBit
    BY FcbLemma
  <1>4. g # f0
    <2>1. i \in TrasHueco
      BY <1>3 DEF TrasHueco
    <2> QED BY <1>2, <1>3, <2>1, FcbLemma DEF FCB
  <1>5. g \in Quietos
    BY <1>2, <1>4, FcbLemma
  <1>6. PICK n \in Nat : n = Ocupa(meta[g].tam) /\ n >= 1
    BY <1>1, <1>2, FCBLemma
  <1>7. \A x : x \in Tramo(g) <=> x \in Int /\ i <= x /\ x < i + n
    BY <1>1, <1>2, <1>3, <1>6, FCBLemma
  <1>8. i \in Tramo(g)
    BY <1>6, <1>7
  <1>9. \A b \in Tramo(g) : b \in bitmap
    <2>1. ~ (op.hueco <= meta[g].inicio /\ meta[g].inicio < op.hueco + op.j)
      BY <1>2, FcbLemma
    <2> QED BY <1>5, <2>1, FcbLemma
  <1>10. op.contiguo + op.largo \notin Tramo(g)
    BY <1>9, FcbLemma
  <1>11. op.contiguo \in Nat /\ op.largo \in Nat /\ op.j \in Nat
    BY FcbLemma
  <1>12. ~ (i + n > op.contiguo + op.largo)
    BY <1>3, <1>7, <1>10, <1>11
  <1> QED BY <1>2, <1>3, <1>5, <1>6, <1>11, <1>12

LEMMA CompactarFCBPaso ==
    ASSUME Buena, CompactarFCB
    PROVE  Buena'
  <1>1. PICK g \in EnInicio(op.contiguo + op.j) :
            /\ meta' = [meta EXCEPT ![g].inicio = op.hueco + op.j]
            /\ op' = [op EXCEPT !.j = @ + Ocupa(meta[g].tam)]
    BY DEF CompactarFCB
  <1>2. /\ UNCHANGED <<bitmap, dicc, vivo>> /\ vivo /\ op.fase = "fcb" /\ op.j < op.largo
    BY DEF CompactarFCB, EnFase, ajeno
  <1>3. /\ g \in Quietos /\ meta[g].inicio = op.contiguo + op.j
        /\ op.j + Ocupa(meta[g].tam) <= op.largo /\ g \in DOMAIN meta /\ g # f0
    BY <1>2, CompactarFCBLemma, FcbLemma
  <1>4. Disco /\ Separados /\ Compactando
    BY DEF Buena, Reparto
  <1>5. PICK n \in Nat : n = Ocupa(meta[g].tam) /\ n >= 1
    BY <1>3, <1>4, FCBLemma
  <1>6. PICK h \in Nat, c \in Nat : h = op.hueco /\ c = op.contiguo
    BY <1>2, FcbLemma
  <1>66. PICK l \in Nat, j \in Nat : l = op.largo /\ j = op.j
    BY <1>2, FcbLemma
  <1>7. h < c /\ l >= 1 /\ j + n <= l /\ c + l <= BlockCount /\ j < l
    BY <1>2, <1>3, <1>5, <1>6, <1>66, FcbLemma
  <1>8. /\ op'.fase = "fcb" /\ op'.orden = op.orden /\ op'.hueco = h
        /\ op'.contiguo = c /\ op'.largo = l /\ op'.j = j + n /\ f0' = f0 /\ Pide' = Pide
        /\ op' = [fase |-> "fcb", orden |-> op'.orden, buffer |-> op'.buffer, hueco |-> op'.hueco,
                  contiguo |-> op'.contiguo, largo |-> op'.largo, j |-> op'.j]
    <2>1. PICK o, b : op = [fase |-> "fcb", orden |-> o, buffer |-> b, hueco |-> h,
                            contiguo |-> c, largo |-> l, j |-> j]
      BY <1>2, <1>6, <1>66 DEF Buena, Formas
    <2>2. op' = [fase |-> "fcb", orden |-> o, buffer |-> b, hueco |-> h,
                 contiguo |-> c, largo |-> l, j |-> j + n]
      BY <1>1, <1>5, <2>1
    <2> QED BY <2>1, <2>2 DEF f0, Pide
  <1>9. Formas'
    BY <1>2, <1>6, <1>8 DEF Buena, Formas
  <1>10. h + j \in Bloque
    BY <1>7 DEF Bloque
  <1>11. /\ DOMAIN meta' = DOMAIN meta /\ meta' \in [DOMAIN meta' -> FCBs]
         /\ meta'[g].inicio = h + j /\ meta'[g].tam = meta[g].tam
         /\ \A x \in DOMAIN meta \ {g} : meta'[x] = meta[x]
    BY <1>1, <1>3, <1>4, <1>6, <1>66, <1>10 DEF Disco, FCBs
  <1>12. Disco'
    BY <1>2, <1>4, <1>8, <1>11 DEF Disco
  <1>13. /\ Quietos' = Quietos /\ Quietos = DOMAIN meta \ {f0} /\ f0 \in DOMAIN meta
         /\ FCB' = FCB /\ Tiene' = Tiene /\ GetBit' = GetBit /\ TrasHueco' = TrasHueco
         /\ \A x \in Quietos \ {g} : Tramo(x)' = Tramo(x)
    <2>1. Quietos' = Quietos /\ Quietos = DOMAIN meta \ {f0} /\ f0 \in DOMAIN meta
      BY <1>2, <1>8, <1>11, FcbLemma DEF Quietos
    <2>2. FCB' = FCB
      BY <1>3, <1>8, <1>11, <2>1 DEF FCB
    <2>3. GetBit' = GetBit
      BY <1>2 DEF GetBit
    <2> QED BY <1>2, <1>11, <2>1, <2>2, <2>3 DEF Tiene, TrasHueco, Tramo
  <1>14. Compactando'
    BY <1>2, <1>4, <1>8, <1>11, <1>13 DEF Compactando
  <1>15. \A b : b \in Tramo(g) <=> b \in Int /\ c + j <= b /\ b < c + j + n
    BY <1>3, <1>4, <1>5, <1>6, <1>66, FCBLemma
  <1>16. \A b : b \in Tramo(g)' <=> b \in Int /\ h + j <= b /\ b < h + j + n
    BY <1>5, <1>11 DEF Tramo
  <1>17. ASSUME NEW x \in Quietos, x # g
         PROVE  /\ \/ /\ h <= meta[x].inicio /\ meta[x].inicio < h + j
                      /\ \A b \in Tramo(x) : h <= b /\ b < h + j
                   \/ /\ ~ (h <= meta[x].inicio /\ meta[x].inicio < h + j + n)
                      /\ \A b \in Tramo(x) : b \in bitmap /\ ~ (h <= b /\ b < c + j + n)
                /\ meta[x].inicio \in Nat /\ \A b \in Tramo(x) : b \in Int
    <2>1. meta[x].inicio \in Nat /\ meta[x].inicio \in Tramo(x) /\ \A b \in Tramo(x) : b \in Int
      BY <1>4, <1>13, FCBLemma
    <2>2. \/ /\ h <= meta[x].inicio /\ meta[x].inicio < h + j
             /\ \A b \in Tramo(x) : h <= b /\ b < h + j
          \/ \A b \in Tramo(x) : b \in bitmap /\ ~ (c <= b /\ b < c + j)
      BY <1>2, <1>6, <1>66, FcbLemma
    <2>3. CASE \A b \in Tramo(x) : b \in bitmap /\ ~ (c <= b /\ b < c + j)
      <3>1. \A b \in Tramo(x) : b \notin Tramo(g)
        BY <1>3, <1>4, <1>17 DEF Separados
      <3>2. \A b \in Tramo(x) : ~ (h <= b /\ b < c)
        BY <1>2, <1>6, <2>1, <2>3, FcbLemma
      <3>3. \A b \in Tramo(x) : ~ (h <= b /\ b < c + j + n)
        BY <1>15, <2>1, <2>3, <3>1, <3>2
      <3>4. ~ (h <= meta[x].inicio /\ meta[x].inicio < h + j + n)
        BY <1>7, <2>1, <3>3
      <3> QED BY <2>1, <2>3, <3>3, <3>4
    <2> QED BY <2>1, <2>2, <2>3
  <1>18. Separados'
    <2>1. \A x \in Quietos : x # g => Tramo(x) \cap Tramo(g)' = {}
      <3> SUFFICES ASSUME NEW x \in Quietos, x # g, NEW b, b \in Tramo(x), b \in Tramo(g)'
                   PROVE  FALSE
        OBVIOUS
      <3>1. b \in Int /\ h + j <= b /\ b < h + j + n
        BY <1>16
      <3> QED BY <1>7, <1>17, <3>1
    <2>2. \A x, y \in Quietos : x # y => Tramo(x)' \cap Tramo(y)' = {}
      BY <1>4, <1>13, <2>1 DEF Separados
    <2> QED BY <1>13, <2>2 DEF Separados
  <1>19. ASSUME NEW x \in Quietos
         PROVE  \/ Movido(x)' /\ Tramo(x)' \subseteq TramoDe(h, j + n)
                \/ ~ Movido(x)' /\ Tramo(x)' \subseteq bitmap \ TramoDe(c, j + n)
    <2>1. CASE x = g
      <3>1. Movido(x)'
        BY <1>5, <1>7, <1>8, <1>11, <2>1 DEF Movido, TramoDe
      <3>2. Tramo(x)' \subseteq TramoDe(h, j + n)
        BY <1>16, <2>1 DEF TramoDe
      <3> QED BY <3>1, <3>2
    <2>2. CASE x # g
      <3>1. meta'[x] = meta[x] /\ Tramo(x)' = Tramo(x)
        BY <1>11, <1>13, <2>2
      <3>2. Movido(x)' <=> h <= meta[x].inicio /\ meta[x].inicio < h + j + n
        BY <1>8, <1>17, <2>2, <3>1 DEF Movido, TramoDe
      <3>3. CASE /\ h <= meta[x].inicio /\ meta[x].inicio < h + j
                 /\ \A b \in Tramo(x) : h <= b /\ b < h + j
        <4>1. \A b \in Tramo(x) : b \in TramoDe(h, j + n)
          BY <1>17, <2>2, <3>3 DEF TramoDe
        <4>2. Movido(x)'
          BY <1>17, <2>2, <3>2, <3>3
        <4> QED BY <3>1, <4>1, <4>2
      <3>4. CASE /\ ~ (h <= meta[x].inicio /\ meta[x].inicio < h + j + n)
                 /\ \A b \in Tramo(x) : b \in bitmap /\ ~ (h <= b /\ b < c + j + n)
        <4>1. \A b \in Tramo(x) : b \in bitmap \ TramoDe(c, j + n)
          BY <1>7, <1>17, <2>2, <3>4 DEF TramoDe
        <4> QED BY <3>1, <3>2, <3>4, <4>1
      <3> QED BY <1>17, <2>2, <3>3, <3>4
    <2> QED BY <2>1, <2>2
  <1>20. Corrida'
    <2>1. /\ h = GetBit' /\ TramoDe(h, c - h) \cap bitmap' = {} /\ TramoDe(c, l) \subseteq bitmap'
          /\ c + l \notin bitmap'
      BY <1>2, <1>6, <1>66, <1>13 DEF Buena, Reparto, Corrida
    <2> QED BY <1>2, <1>7, <1>8, <1>13, <1>19, <2>1 DEF Corrida
  <1> QED BY <1>8, <1>9, <1>12, <1>14, <1>18, <1>20 DEF Buena, Reparto, Creando, Truncado, Marcados

LEMMA CompactarCopiarPaso ==
    ASSUME Buena, CompactarCopiar
    PROVE  Buena'
  <1>1. /\ UNCHANGED <<meta, dicc, vivo>> /\ vivo /\ op.fase = "fcb" /\ op.j >= op.largo
        /\ bitmap' = (bitmap \cup (op.hueco .. op.hueco + op.largo - 1))
                       \ (op.hueco + op.largo .. op.contiguo + op.largo - 1)
        /\ op' = [fase |-> "mover", orden |-> op.orden, buffer |-> op.buffer]
    <2>1. /\ meta' = meta /\ dicc' = dicc /\ vivo' = vivo /\ vivo
          /\ op.fase = "fcb" /\ op.j >= op.largo
      BY DEF CompactarCopiar, EnFase, ajeno
    <2>2. bitmap' = (bitmap \cup (op.hueco .. op.hueco + op.largo - 1))
                      \ (op.hueco + op.largo .. op.contiguo + op.largo - 1)
      BY Zenon DEF CompactarCopiar
    <2>3. op' = [fase |-> "mover", orden |-> op.orden, buffer |-> op.buffer]
      BY Zenon DEF CompactarCopiar
    <2> QED BY <2>1, <2>2, <2>3
  <1>2. /\ op'.fase = "mover" /\ op'.orden = op.orden /\ f0' = f0 /\ Pide' = Pide
        /\ op' = [fase |-> "mover", orden |-> op'.orden, buffer |-> op'.buffer]
    BY <1>1 DEF f0, Pide
  <1>3. PICK h \in Nat, c \in Nat : h = op.hueco /\ c = op.contiguo
    BY <1>1, FcbLemma
  <1>4. PICK l \in Nat : l = op.largo /\ l = op.j
    BY <1>1, FcbLemma
  <1>5. h < c /\ l >= 1 /\ c + l <= BlockCount /\ h = GetBit
    BY <1>1, <1>3, <1>4, FcbLemma
  <1>6. bitmap \subseteq Bloque /\ Disco /\ Separados /\ Compactando
    BY DEF Buena, Disco, Reparto
  <1>7. bitmap' = (bitmap \cup (h .. h + l - 1)) \ (h + l .. c + l - 1)
    BY <1>1, <1>3, <1>4
  <1>8. \A b \in Int : h <= b /\ b < c => b \notin bitmap
    BY <1>1, <1>3, FcbLemma
  <1>9. \A b \in Int : c <= b /\ b < c + l => b \in bitmap
    BY <1>1, <1>3, <1>4, FcbLemma
  <1>10. bitmap' \subseteq Bloque
    <2>1. h .. h + l - 1 \subseteq Bloque
      BY <1>5 DEF Bloque
    <2> QED BY <1>6, <1>7, <2>1
  <1>11. /\ Quietos' = Quietos /\ Quietos = DOMAIN meta \ {f0} /\ f0 \in DOMAIN meta
         /\ FCB' = FCB /\ Tiene' = Tiene
         /\ \A x \in Quietos : Tramo(x)' = Tramo(x)
    <2>1. Quietos' = Quietos /\ Quietos = DOMAIN meta \ {f0} /\ f0 \in DOMAIN meta
      BY <1>1, <1>2, FcbLemma DEF Quietos
    <2> QED BY <1>1, <1>2, <2>1 DEF FCB, Tiene, Tramo
  <1>12. Formas' /\ Disco'
    BY <1>1, <1>2, <1>6, <1>10 DEF Buena, Formas, Disco
  <1>13. Marcados'
    <2> SUFFICES ASSUME NEW x \in Quietos, NEW b \in Tramo(x)
                 PROVE  b \in bitmap'
      BY <1>11 DEF Marcados
    <2>1. b \in Int
      BY <1>6, <1>11, FCBLemma
    <2>2. (h <= b /\ b < h + l) \/ (b \in bitmap /\ ~ (c <= b /\ b < c + l))
      BY <1>1, <1>3, <1>4, FcbLemma
    <2>3. CASE h <= b /\ b < h + l
      BY <1>7, <2>1, <2>3
    <2>4. CASE b \in bitmap /\ ~ (c <= b /\ b < c + l)
      <3>1. ~ (h + l <= b /\ b <= c + l - 1)
        BY <1>8, <2>1, <2>4
      <3> QED BY <1>7, <2>1, <2>4, <3>1
    <2> QED BY <2>2, <2>3, <2>4
  <1>14. Separados'
    BY <1>6, <1>11 DEF Separados
  <1>15. Cardinality(bitmap') = Cardinality(bitmap)
    <2> DEFINE R == c .. c + l - 1
               N == h .. h + l - 1
    <2>1. IsFiniteSet(R) /\ Cardinality(R) = l /\ IsFiniteSet(N) /\ Cardinality(N) = l
      <3>1. c \in Int /\ c + l - 1 \in Int /\ h \in Int /\ h + l - 1 \in Int
        OBVIOUS
      <3>2. Cardinality(R) = IF c > c + l - 1 THEN 0 ELSE (c + l - 1) - c + 1
        BY ONLY <3>1, FS_Interval
      <3>3. Cardinality(N) = IF h > h + l - 1 THEN 0 ELSE (h + l - 1) - h + 1
        BY ONLY <3>1, FS_Interval
      <3>4. IsFiniteSet(R) /\ IsFiniteSet(N)
        BY ONLY <3>1, FS_Interval
      <3> QED BY <1>5, <3>2, <3>3, <3>4
    <2>2. bitmap \cap R = R
      BY <1>9
    <2>3. IsFiniteSet(bitmap) /\ Cardinality(bitmap) \in Nat
      BY <1>6, BitmapLemma
    <2>4. IsFiniteSet(bitmap \ R) /\ Cardinality(bitmap \ R) = Cardinality(bitmap) - l
      <3> HIDE DEF R, N
      <3>1. /\ IsFiniteSet(bitmap \ R)
            /\ Cardinality(bitmap \ R) = Cardinality(bitmap) - Cardinality(bitmap \cap R)
        BY ONLY <2>3, FS_Difference
      <3> QED BY ONLY <2>1, <2>2, <3>1
    <2>5. (bitmap \ R) \cap N = {}
      <3> SUFFICES ASSUME NEW b \in N, b \in bitmap, b \notin R
                   PROVE  FALSE
        OBVIOUS
      <3>1. b \in Int /\ h <= b /\ b < h + l /\ ~ (c <= b /\ b < c + l)
        OBVIOUS
      <3> QED BY <1>5, <1>8, <3>1
    <2>6. bitmap' = (bitmap \ R) \cup N
      <3>1. ASSUME NEW b \in bitmap'
            PROVE  b \in (bitmap \ R) \cup N
        <4>1. (b \in bitmap \/ b \in N) /\ ~ (b \in h + l .. c + l - 1)
          BY <1>7
        <4>2. b \in Int
          BY <1>10 DEF Bloque
        <4>3. CASE b \notin N
          <5>1. b \notin R
            BY <1>5, <4>1, <4>2, <4>3
          <5> QED BY <4>1, <4>3, <5>1
        <4> QED BY <4>3
      <3>2. ASSUME NEW b \in bitmap, b \notin R
            PROVE  b \in bitmap'
        <4>1. b \in Int
          BY <1>6 DEF Bloque
        <4>2. ~ (b \in h + l .. c + l - 1)
          BY <1>8, <3>2, <4>1
        <4> QED BY <1>7, <4>2
      <3>3. ASSUME NEW b \in N
            PROVE  b \in bitmap'
        BY <1>7
      <3> QED BY <3>1, <3>2, <3>3
    <2> HIDE DEF R, N
    <2>7. Cardinality({}) = 0
      BY FS_EmptySet
    <2>8. Cardinality(bitmap') = (Cardinality(bitmap) - l) + l - 0
      BY <2>1, <2>4, <2>5, <2>6, <2>7, FS_Union
    <2> QED BY <2>3, <2>8
  <1>16. TrasHueco' \subseteq TrasHueco
    <2>1. Bloque \ bitmap' \in SUBSET Nat
      BY DEF Bloque
    <2>2. h + l \in Bloque /\ h + l \notin bitmap'
      BY <1>5, <1>7 DEF Bloque
    <2>3. GetBit' = Min(Bloque \ bitmap')
      BY <2>2 DEF GetBit
    <2>4. GetBit' \in Bloque /\ GetBit' \notin bitmap' /\ GetBit' \in Nat
      BY <2>1, <2>2, <2>3, MinimoLemma
    <2>5. GetBit' >= h + l
      <3>1. ASSUME GetBit' < h
            PROVE  FALSE
        <4>1. GetBit' \in bitmap
          BY <1>5, <1>6, <2>4, <3>1, GetBitLemma, FcbLemma, <1>1
        <4>2. ~ (GetBit' \in h + l .. c + l - 1)
          BY <2>4, <3>1
        <4> QED BY <1>7, <2>4, <4>1, <4>2
      <3>2. ~ (h <= GetBit' /\ GetBit' < h + l)
        BY <1>7, <2>4
      <3> QED BY <2>4, <3>1, <3>2
    <2>6. ASSUME NEW b \in bitmap', b > GetBit'
          PROVE  b \in bitmap /\ b > GetBit
      <3>1. b \in Int
        BY <1>10 DEF Bloque
      <3>2. b \notin h .. h + l - 1
        BY <2>4, <2>5, <2>6, <3>1
      <3> QED BY <1>5, <1>7, <2>4, <2>5, <2>6, <3>1, <3>2
    <2> QED BY <2>6 DEF TrasHueco
  <1>17. Compactando'
    BY <1>1, <1>2, <1>6, <1>11, <1>15, <1>16 DEF Compactando
  <1> QED BY <1>2, <1>12, <1>13, <1>14, <1>17 DEF Buena, Reparto, Creando, Truncado, Corrida

LEMMA CompactarFinPaso ==
    ASSUME Buena, CompactarFin
    PROVE  Buena'
  <1>1. /\ UNCHANGED <<dicc, vivo>> /\ vivo /\ op.fase = "mover" /\ TrasHueco = {}
        /\ meta' = [meta EXCEPT ![f0].inicio = GetBit]
        /\ bitmap' = bitmap \cup (GetBit .. GetBit + Tiene - 1)
        /\ op' = [fase |-> "pedido", orden |-> op.orden]
    BY DEF CompactarFin, EnFase, ajeno
  <1>2. /\ op'.fase = "pedido" /\ op'.orden = op.orden /\ f0' = f0
    BY <1>1 DEF f0
  <1>3. bitmap \subseteq Bloque /\ Disco /\ Separados /\ Marcados /\ Compactando
    BY DEF Buena, Disco, Reparto
  <1>4. PICK h \in Nat, t \in Nat : h = GetBit /\ t = Tiene /\ t >= 1
    BY <1>1, HuecoLemma
  <1>5. /\ h \in Bloque /\ \A b \in bitmap : b \in Nat /\ b < h
        /\ \A b \in Bloque : b < h => b \in bitmap
    <2>1. h \in Bloque \ bitmap /\ \A b \in Bloque : b < h => b \in bitmap
      BY <1>1, <1>4, HuecoLemma
    <2>2. ASSUME NEW b \in bitmap
          PROVE  b \in Nat /\ b < h
      <3>1. b \in Nat
        BY <1>3 DEF Bloque
      <3>2. ~ (b > h) /\ b # h
        BY <1>1, <1>4, <2>1 DEF TrasHueco
      <3> QED BY <3>1, <3>2
    <2> QED BY <2>1, <2>2
  <1>6. h + t <= BlockCount
    <2>1. bitmap = 0 .. h - 1
      <3>1. ASSUME NEW b \in 0 .. h - 1
            PROVE  b \in bitmap
        <4>1. b \in Bloque /\ b < h
          BY <1>5 DEF Bloque
        <4> QED BY <1>5, <4>1
      <3>2. ASSUME NEW b \in bitmap
            PROVE  b \in 0 .. h - 1
        <4>1. b \in Nat /\ b < h
          BY <1>5
        <4> QED BY <4>1
      <3> QED BY <3>1, <3>2
    <2>2. Cardinality(0 .. h - 1) = h
      <3>1. 0 \in Int /\ h - 1 \in Int
        OBVIOUS
      <3>2. Cardinality(0 .. h - 1) = IF 0 > h - 1 THEN 0 ELSE (h - 1) - 0 + 1
        BY ONLY <3>1, FS_Interval
      <3> QED BY <3>2
    <2> QED BY <1>1, <1>3, <1>4, <2>1, <2>2 DEF Compactando
  <1>7. PICK a \in DOMAIN meta : a = f0
    BY <1>1, HuecoLemma
  <1>8. /\ DOMAIN meta' = DOMAIN meta /\ meta' \in [DOMAIN meta' -> FCBs]
        /\ meta'[a].inicio = h /\ meta'[a].tam = meta[a].tam
        /\ \A x \in DOMAIN meta \ {a} : meta'[x] = meta[x]
    BY <1>1, <1>3, <1>4, <1>5, <1>7 DEF Disco, FCBs
  <1>9. Formas'
    BY <1>1, <1>2 DEF Buena, Formas
  <1>10. Disco'
    <2>1. h .. h + t - 1 \subseteq Bloque
      BY <1>6 DEF Bloque
    <2> QED BY <1>1, <1>2, <1>3, <1>4, <1>8, <2>1 DEF Disco
  <1>11. Tramo(a)' = h .. h + t - 1
    BY <1>4, <1>7, <1>8 DEF Tramo, Tiene, FCB
  <1>12. /\ Quietos = DOMAIN meta \ {a} /\ Quietos' = DOMAIN meta
         /\ \A x \in Quietos : Tramo(x)' = Tramo(x)
    BY <1>1, <1>2, <1>7, <1>8 DEF Quietos, Tramo
  <1>13. \A x \in Quietos : Tramo(x) \subseteq bitmap /\ Tramo(x) \cap (h .. h + t - 1) = {}
    <2>1. \A x \in Quietos : Tramo(x) \subseteq bitmap
      BY <1>1, <1>3 DEF Marcados
    <2>2. bitmap \cap (h .. h + t - 1) = {}
      <3> SUFFICES ASSUME NEW b \in bitmap, b \in h .. h + t - 1
                   PROVE  FALSE
        OBVIOUS
      <3>1. h <= b /\ b < h
        BY <1>5
      <3> QED BY <1>5, <3>1
    <2> QED BY <2>1, <2>2
  <1>14. Marcados'
    <2>1. \A x \in DOMAIN meta : Tramo(x)' \subseteq bitmap'
      BY <1>1, <1>4, <1>11, <1>12, <1>13
    <2> QED BY <1>12, <2>1 DEF Marcados
  <1>15. Separados'
    <2>1. \A x, y \in DOMAIN meta : x # y => Tramo(x)' \cap Tramo(y)' = {}
      BY <1>3, <1>11, <1>12, <1>13 DEF Separados
    <2> QED BY <1>12, <2>1 DEF Separados
  <1> QED BY <1>2, <1>9, <1>10, <1>14, <1>15 DEF Buena, Reparto, Creando, Truncado, Compactando, Corrida

-----------------------------------------------------------------------------

\* Once the promise is broken it stays so.
LEMMA RotoPaso ==
    ASSUME [Next]_vars, sano = "roto"
    PROVE  sano' = "roto"
  <1>1. CASE UNCHANGED sano
    BY <1>1
  <1> QED BY <1>1 DEF Next, Hilo, vars, Recibir, Descartar, CrearReservar, CrearAbrir, CrearCargar,
        BorrarLiberar, BorrarQuitar, TruncarAchicar, TruncarCrecer, TruncarTam, TruncarSinEspacio,
        CompactarLimpiar, CompactarBuscar, CompactarFCB, CompactarSinFCB, CompactarCopiar,
        CompactarFin, FueraDeArchivo, Escribir, Leer, EntregarLeido, Cortar, Reiniciar, Empeora

LEMMA InvPaso ==
    ASSUME Inv, [Next]_vars
    PROVE  Inv'
  <1> SUFFICES ASSUME sano' # "roto"
               PROVE  Buena'
    BY DEF Inv
  <1>1. Buena
    BY RotoPaso DEF Inv
  <1>2. CASE Recibir \/ Descartar \/ Escribir \/ Leer \/ EntregarLeido
    BY <1>1, <1>2, SinCambioPaso
  <1>3. CASE CrearReservar \/ CrearAbrir \/ CrearCargar \/ BorrarLiberar \/ BorrarQuitar
    BY <1>1, <1>3, CrearReservarPaso, CrearAbrirPaso, CrearCargarPaso, BorrarLiberarPaso,
       BorrarQuitarPaso
  <1>4. CASE TruncarAchicar \/ TruncarCrecer \/ TruncarTam
    BY <1>1, <1>4, TruncarAchicarPaso, TruncarCrecerPaso, TruncarTamPaso
  <1>5. CASE TruncarSinEspacio \/ FueraDeArchivo \/ Cortar
    BY <1>1, <1>5, TerminarPaso
  <1>6. CASE CompactarLimpiar \/ CompactarBuscar \/ CompactarFCB \/ CompactarCopiar \/ CompactarFin
    BY <1>1, <1>6, CompactarLimpiarPaso, CompactarBuscarPaso, CompactarFCBPaso,
       CompactarCopiarPaso, CompactarFinPaso
  <1>7. CASE CompactarSinFCB
    BY <1>7 DEF CompactarSinFCB
  <1>8. CASE Reiniciar
    BY <1>1, <1>8, ReiniciarPaso
  <1>9. CASE UNCHANGED vars
    BY <1>1, <1>9 DEF vars, Buena, Formas, Disco, Reparto, Separados, Marcados, Creando, Truncado,
       Compactando, Corrida, Quietos, Tramo, f0, Pide, Nuevo, FCB, Tiene, TrasHueco, GetBit, Movido
  <1> QED BY <1>2, <1>3, <1>4, <1>5, <1>6, <1>7, <1>8, <1>9 DEF Next, Hilo

LEMMA InvInicio ==
    ASSUME Init
    PROVE  Inv
  <1>1. /\ op = Libre /\ op.fase = "libre" /\ bitmap = {} /\ DOMAIN meta = {} /\ dicc = {}
        /\ meta \in [DOMAIN meta -> FCBs]
    BY DEF Init, Libre
  <1>2. Quietos = {}
    BY <1>1 DEF Quietos
  <1> QED BY <1>1, <1>2 DEF Inv, Buena, Formas, Disco, Reparto, Separados, Marcados, Creando,
                            Truncado, Compactando, Corrida

LEMMA InvSiempre == Spec => []Inv
  <1>1. Init => Inv
    BY InvInicio
  <1>2. Inv /\ [Next]_vars => Inv'
    BY InvPaso
  <1> QED BY <1>1, <1>2, PTL DEF Spec

\* No two files share a block and the blocks of every file are marked, whatever was
\* created, deleted, truncated, compacted and cut, until a cut in the middle of what
\* cannot be undone.
THEOREM NadieComparteBloques == Spec => []BloquesDisjuntos
  <1>1. Inv => BloquesDisjuntos
    BY DEF Inv, Buena, Reparto, Separados, Marcados, Quietos, BloquesDisjuntos, EnReposo
  <1> QED BY <1>1, InvSiempre, PTL

-----------------------------------------------------------------------------
(* No block is lost.                                                       *)

\* A block is of a file that keeps its place, or of what the operation is doing.
EnUso(x) ==
    \/ \E g \in Quietos : x \in Tramo(g) /\ ~ (op.fase = "fcb" /\ Movido(g))
    \/ op.fase \in {"abrir", "cargar"} /\ x = op.bloque
    \/ op.fase = "tam" /\ x \in Nuevo
    \/ op.fase = "fcb" /\ x \in TramoDe(op.contiguo, op.j)

\* The part of a run that has its new place in the metadata has no holes.
Llena == op.fase = "fcb" =>
    \A x \in TramoDe(op.hueco, op.j) : \E g \in Quietos : Movido(g) /\ x \in Tramo(g)

Usados == (\A x \in bitmap : EnUso(x)) /\ Llena
Exacto == sano = "exacto" => Usados

\* Outside of a move of blocks, those of the bitmap are of files or of the operation.
LEMMA UsadosLemma ==
    ASSUME Usados, op.fase # "fcb", NEW x \in bitmap
    PROVE  \/ \E g \in Quietos : x \in Tramo(g)
           \/ op.fase \in {"abrir", "cargar"} /\ x = op.bloque
           \/ op.fase = "tam" /\ x \in Nuevo
  BY DEF Usados, EnUso

LEMMA UsadosQuieto ==
    ASSUME Buena, Usados, UNCHANGED <<bitmap, meta>>,
           op.fase \in {"libre", "pedido", "leido"}, op'.fase \in {"libre", "pedido", "leido"}
    PROVE  Usados'
  <1>1. Quietos = DOMAIN meta /\ Quietos' = DOMAIN meta /\ \A g \in DOMAIN meta : Tramo(g)' = Tramo(g)
    BY DEF Quietos, Tramo
  <1>2. \A x \in bitmap : \E g \in DOMAIN meta : x \in Tramo(g)
    BY <1>1, UsadosLemma
  <1> QED BY <1>1, <1>2 DEF Usados, EnUso, Llena

LEMMA UsadosCrear ==
    ASSUME Buena, Usados, CrearReservar \/ CrearAbrir \/ CrearCargar
    PROVE  Usados'
  <1>1. CASE CrearReservar
    <2>1. /\ bitmap' = bitmap \cup {GetBit} /\ meta' = meta /\ op.fase = "pedido"
          /\ op'.fase = "abrir" /\ op'.bloque = GetBit
      BY <1>1 DEF CrearReservar, Pedido, EnFase
    <2>2. Quietos = DOMAIN meta /\ Quietos' = DOMAIN meta /\ \A g \in DOMAIN meta : Tramo(g)' = Tramo(g)
      BY <2>1 DEF Quietos, Tramo
    <2>3. \A x \in bitmap : \E g \in DOMAIN meta : x \in Tramo(g)
      BY <2>1, <2>2, UsadosLemma
    <2> QED BY <2>1, <2>2, <2>3 DEF Usados, EnUso, Llena
  <1>2. CASE CrearAbrir
    <2>1. /\ meta' = ConFCB([inicio |-> 0, tam |-> 0]) /\ bitmap' = bitmap /\ op.fase = "abrir"
          /\ op' = [op EXCEPT !.fase = "cargar"]
      BY <1>2 DEF CrearAbrir, EnFase
    <2>2. op'.fase = "cargar" /\ op'.bloque = op.bloque /\ f0' = f0
      BY <2>1 DEF Buena, Formas, f0
    <2>3. f0 \in Archivos /\ f0 \notin DOMAIN meta /\ [inicio |-> 0, tam |-> 0] \in FCBs
      BY <2>1, OrdenLemma DEF Buena, Formas, Reparto, Creando, FCBs, Bloque, f0
    <2>4. DOMAIN meta' = DOMAIN meta \cup {f0} /\ \A g \in DOMAIN meta : meta'[g] = meta[g]
      BY <2>1, <2>3, ConFCBLemma DEF Buena
    <2>5. Quietos = DOMAIN meta /\ Quietos' = DOMAIN meta /\ \A g \in DOMAIN meta : Tramo(g)' = Tramo(g)
      BY <2>1, <2>2, <2>3, <2>4 DEF Quietos, Tramo
    <2>6. \A x \in bitmap : x = op.bloque \/ \E g \in DOMAIN meta : x \in Tramo(g)
      BY <2>1, <2>5, UsadosLemma
    <2> QED BY <2>1, <2>2, <2>5, <2>6 DEF Usados, EnUso, Llena
  <1>3. CASE CrearCargar
    <2>1. /\ meta' = ConFCB([inicio |-> op.bloque, tam |-> 0]) /\ bitmap' = bitmap
          /\ op'.fase = "libre" /\ op.fase = "cargar"
      BY <1>3 DEF CrearCargar, EnFase, Libre
    <2>2. f0 \in Archivos /\ f0 \in DOMAIN meta /\ [inicio |-> op.bloque, tam |-> 0] \in FCBs
      BY <2>1, OrdenLemma DEF Buena, Formas, Reparto, Creando, FCBs, f0
    <2>3. /\ DOMAIN meta' = DOMAIN meta
          /\ meta'[f0] = [inicio |-> op.bloque, tam |-> 0]
          /\ \A g \in DOMAIN meta \ {f0} : meta'[g] = meta[g]
      BY <2>1, <2>2, ConFCBLemma DEF Buena
    <2>4. /\ Quietos = DOMAIN meta \ {f0} /\ Quietos' = DOMAIN meta
          /\ \A g \in Quietos : Tramo(g)' = Tramo(g)
      BY <2>1, <2>3 DEF Quietos, Tramo
    <2>5. PICK a \in DOMAIN meta : a = f0
      BY <2>2
    <2>6. op.bloque \in Tramo(a)'
      <3>1. Ocupa(0) = 1 /\ op.bloque \in Int
        BY <2>1, TechoLemma DEF Buena, Formas, Bloque
      <3>2. Tramo(a)' = op.bloque .. op.bloque + 1 - 1
        BY <2>3, <2>5, <3>1 DEF Tramo
      <3> QED BY <3>1, <3>2
    <2>7. \A x \in bitmap : x = op.bloque \/ \E g \in Quietos : x \in Tramo(g)
      BY <2>1, UsadosLemma
    <2>8. \A x \in bitmap : \E g \in DOMAIN meta : x \in Tramo(g)'
      BY <2>4, <2>5, <2>6, <2>7
    <2> QED BY <2>1, <2>4, <2>8 DEF Usados, EnUso, Llena
  <1> QED BY <1>1, <1>2, <1>3

LEMMA UsadosBorrar ==
    ASSUME Buena, Usados, BorrarLiberar \/ BorrarQuitar
    PROVE  Usados'
  <1>1. CASE BorrarLiberar
    <2>1. /\ bitmap' = bitmap \ Tramo(f0) /\ meta' = meta /\ op.fase = "pedido"
          /\ op' = [op EXCEPT !.fase = "quitar"]
      BY <1>1 DEF BorrarLiberar, Pedido, EnFase
    <2>2. op'.fase = "quitar" /\ f0' = f0
      BY <2>1 DEF Buena, Formas, f0
    <2>3. /\ Quietos = DOMAIN meta /\ Quietos' = DOMAIN meta \ {f0}
          /\ \A g \in DOMAIN meta : Tramo(g)' = Tramo(g)
      BY <2>1, <2>2 DEF Quietos, Tramo
    <2>4. \A x \in bitmap : \E g \in DOMAIN meta : x \in Tramo(g)
      BY <2>1, <2>3, UsadosLemma
    <2>5. \A x \in bitmap' : \E g \in Quietos' : x \in Tramo(g)'
      BY <2>1, <2>3, <2>4
    <2> QED BY <2>2, <2>5 DEF Usados, EnUso, Llena
  <1>2. CASE BorrarQuitar
    <2>1. /\ meta' = Restrict(meta, DOMAIN meta \ {f0}) /\ bitmap' = bitmap
          /\ op'.fase = "libre" /\ op.fase = "quitar"
      BY <1>2 DEF BorrarQuitar, EnFase, Libre
    <2>2. DOMAIN meta' = DOMAIN meta \ {f0} /\ \A g \in DOMAIN meta \ {f0} : meta'[g] = meta[g]
      BY <2>1 DEF Restrict
    <2>3. /\ Quietos = DOMAIN meta \ {f0} /\ Quietos' = DOMAIN meta \ {f0}
          /\ \A g \in Quietos : Tramo(g)' = Tramo(g)
      BY <2>1, <2>2 DEF Quietos, Tramo
    <2>4. \A x \in bitmap : \E g \in Quietos : x \in Tramo(g)
      BY <2>1, UsadosLemma
    <2> QED BY <2>1, <2>3, <2>4 DEF Usados, EnUso, Llena
  <1> QED BY <1>1, <1>2

LEMMA UsadosTruncar ==
    ASSUME Buena, Usados, TruncarCrecer \/ (TruncarAchicar /\ sano' # "roto")
    PROVE  Usados'
  <1>1. /\ f0 \in DOMAIN meta /\ op.fase = "pedido" /\ meta' = meta
        /\ op' = [op EXCEPT !.fase = "tam"]
    BY DEF TruncarCrecer, TruncarAchicar, Truncando, Pedido, EnFase, Buena, Disco
  <1>2. op'.fase = "tam" /\ op'.orden = op.orden /\ f0' = f0 /\ Pide' = Pide /\ Nuevo' = Nuevo
    BY <1>1 DEF Buena, Formas, f0, Pide, Nuevo, FCB
  <1>3. /\ Quietos = DOMAIN meta /\ Quietos' = DOMAIN meta \ {f0}
        /\ \A g \in DOMAIN meta : Tramo(g)' = Tramo(g)
    BY <1>1, <1>2 DEF Quietos, Tramo
  <1>4. PICK i \in Nat, t \in Nat, n \in Nat : i = FCB.inicio /\ t = Tiene /\ n = Pide
    BY <1>1, FCB0Lemma, F0Lemma DEF Buena
  <1>5. /\ \A x : x \in Tramo(f0) <=> x \in Int /\ i <= x /\ x < i + t
        /\ \A x : x \in Nuevo <=> x \in Int /\ i <= x /\ x < i + n
    <2>1. \A x : x \in Tramo(f0) <=> x \in Int /\ i <= x /\ x < i + t
      BY <1>1, <1>4, FCB0Lemma DEF Buena
    <2> QED BY <1>4, <2>1 DEF Nuevo, TramoDe
  <1>6. \A x \in bitmap : \E g \in DOMAIN meta : x \in Tramo(g)
    BY <1>1, <1>3, UsadosLemma
  <1>7. \A x \in bitmap' : x \notin bitmap \/ x \in Tramo(f0) => x \in Nuevo
    <2>1. CASE TruncarCrecer
      <3>1. bitmap' = bitmap \cup (i + t .. i + n - 1) /\ t < n
        <4>1. Ultimo + 1 = i + t /\ Ultimo + Pide - Tiene = i + n - 1
          BY <1>4 DEF Ultimo
        <4> QED BY <1>4, <2>1, <4>1 DEF TruncarCrecer
      <3>2. \A x \in i + t .. i + n - 1 : x \in Int /\ i <= x /\ x < i + n
        OBVIOUS
      <3>3. \A x \in Tramo(f0) : x \in Int /\ i <= x /\ x < i + n
        BY <1>5, <3>1
      <3> QED BY <1>5, <3>1, <3>2, <3>3
    <2>2. CASE TruncarAchicar
      <3>1. bitmap' = bitmap \ (i + n .. i + t - 1)
        <4>1. Ultimo = i + t - 1 /\ Ultimo - (Tiene - Pide) + 1 = i + n
          BY <1>4 DEF Ultimo
        <4> QED BY <2>2, <4>1 DEF TruncarAchicar
      <3>2. ASSUME NEW x \in Tramo(f0), x \notin i + n .. i + t - 1
            PROVE  x \in Nuevo
        BY <1>5, <3>2
      <3> QED BY <3>1, <3>2
    <2> QED BY <2>1, <2>2
  <1>8. \A x \in bitmap' : x \in Nuevo \/ \E g \in DOMAIN meta \ {f0} : x \in Tramo(g)
    BY <1>6, <1>7
  <1> QED BY <1>2, <1>3, <1>8 DEF Usados, EnUso, Llena

LEMMA UsadosTam ==
    ASSUME Buena, Usados, TruncarTam
    PROVE  Usados'
  <1>1. /\ meta' = [meta EXCEPT ![f0].tam = op.orden.tam] /\ bitmap' = bitmap
        /\ op'.fase = "libre"
        /\ op.fase = "tam" \/ (op.fase = "pedido" /\ f0 \in dicc /\ vivo /\ Tiene = Pide)
    BY DEF TruncarTam, Truncando, Pedido, EnFase, Libre
  <1>2. f0 \in DOMAIN meta
    BY <1>1 DEF Buena, Reparto, Truncado, Disco
  <1>3. PICK a \in DOMAIN meta : a = f0
    BY <1>2
  <1>4. op.fase # "libre" /\ Formas /\ Disco /\ (op.fase = "tam" => Pide >= 1)
    BY <1>1 DEF Buena, Reparto, Truncado
  <1>5. FCB = meta[a] /\ Tiene = Ocupa(meta[a].tam) /\ Tiene >= 1 /\ Pide \in Nat
    BY <1>3, <1>4, FCBLemma, F0Lemma DEF FCB, Tiene
  <1>6. Ocupa(op.orden.tam) = Pide
    <2>1. Pide # 0
      BY <1>1, <1>4, <1>5
    <2> QED BY <1>4, <2>1, F0Lemma
  <1>7. /\ DOMAIN meta' = DOMAIN meta
        /\ meta'[a].inicio = meta[a].inicio /\ meta'[a].tam = op.orden.tam
        /\ \A g \in DOMAIN meta \ {a} : meta'[g] = meta[g]
    BY <1>1, <1>3, <1>4 DEF Disco, FCBs
  <1>8. Tramo(a)' = Nuevo
    BY <1>5, <1>6, <1>7 DEF Tramo, Nuevo, TramoDe
  <1>9. Quietos' = DOMAIN meta /\ \A g \in DOMAIN meta \ {a} : Tramo(g)' = Tramo(g)
    BY <1>1, <1>7 DEF Quietos, Tramo
  <1>10. \A x \in bitmap : x \in Nuevo \/ \E g \in DOMAIN meta \ {a} : x \in Tramo(g)
    <2>1. CASE op.fase = "tam"
      BY <1>3, <2>1, UsadosLemma DEF Quietos
    <2>2. CASE op.fase = "pedido" /\ Tiene = Pide
      <3>1. Nuevo = Tramo(a) /\ Quietos = DOMAIN meta
        BY <1>5, <2>2 DEF Nuevo, TramoDe, Tramo, Quietos
      <3> QED BY <2>2, <3>1, UsadosLemma
    <2> QED BY <1>1, <2>1, <2>2
  <1>11. \A x \in bitmap : \E g \in DOMAIN meta : x \in Tramo(g)'
    BY <1>8, <1>9, <1>10
  <1> QED BY <1>1, <1>9, <1>11 DEF Usados, EnUso, Llena

LEMMA UsadosLimpiarBuscar ==
    ASSUME Buena, Usados, CompactarLimpiar \/ CompactarBuscar
    PROVE  Usados'
  <1>1. CASE CompactarLimpiar
    <2>1. /\ bitmap' = bitmap \ Tramo(f0) /\ meta' = meta /\ op.fase = "pedido"
          /\ op'.fase = "mover" /\ f0' = f0
      BY <1>1 DEF CompactarLimpiar, Truncando, Pedido, EnFase, f0
    <2>2. /\ Quietos = DOMAIN meta /\ Quietos' = DOMAIN meta \ {f0}
          /\ \A g \in DOMAIN meta : Tramo(g)' = Tramo(g)
      BY <2>1 DEF Quietos, Tramo
    <2>3. \A x \in bitmap : \E g \in DOMAIN meta : x \in Tramo(g)
      BY <2>1, <2>2, UsadosLemma
    <2>4. \A x \in bitmap' : \E g \in Quietos' : x \in Tramo(g)'
      BY <2>1, <2>2, <2>3
    <2> QED BY <2>1, <2>4 DEF Usados, EnUso, Llena
  <1>2. CASE CompactarBuscar
    <2>1. /\ UNCHANGED <<bitmap, meta>> /\ op.fase = "mover" /\ op'.fase = "fcb" /\ f0' = f0
          /\ op'.hueco = GetBit /\ op'.j = 0
      BY <1>2 DEF CompactarBuscar, EnFase, disco, f0
    <2>2. Quietos' = Quietos /\ \A g \in DOMAIN meta : Tramo(g)' = Tramo(g)
      BY <2>1 DEF Quietos, Tramo
    <2>3. GetBit \in Nat
      BY <2>1, HuecoLemma
    <2>4. TramoDe(op'.hueco, op'.j) = {}
      BY <2>1, <2>3 DEF TramoDe
    <2>5. \A g : ~ Movido(g)'
      BY <2>4 DEF Movido
    <2>6. \A x \in bitmap : \E g \in Quietos : x \in Tramo(g)
      BY <2>1, UsadosLemma
    <2>7. \A x \in bitmap' : \E g \in Quietos' : x \in Tramo(g)'
      BY <2>1, <2>2, <2>6 DEF Quietos
    <2> QED BY <2>1, <2>4, <2>5, <2>7 DEF Usados, EnUso, Llena
  <1> QED BY <1>1, <1>2

LEMMA UsadosFCB ==
    ASSUME Buena, Usados, CompactarFCB
    PROVE  Usados'
  <1>1. PICK g \in EnInicio(op.contiguo + op.j) :
            /\ meta' = [meta EXCEPT ![g].inicio = op.hueco + op.j]
            /\ op' = [op EXCEPT !.j = @ + Ocupa(meta[g].tam)]
    BY DEF CompactarFCB
  <1>2. bitmap' = bitmap /\ op.fase = "fcb" /\ op.j < op.largo
    BY DEF CompactarFCB, EnFase
  <1>3. /\ g \in Quietos /\ meta[g].inicio = op.contiguo + op.j
        /\ op.j + Ocupa(meta[g].tam) <= op.largo /\ g \in DOMAIN meta /\ g # f0
    BY <1>1, <1>2, CompactarFCBLemma, FcbLemma
  <1>4. Disco
    BY DEF Buena
  <1>5. PICK n \in Nat : n = Ocupa(meta[g].tam) /\ n >= 1
    BY <1>3, <1>4, FCBLemma
  <1>6. PICK h \in Nat, c \in Nat : h = op.hueco /\ c = op.contiguo /\ h < c
    BY <1>2, FcbLemma
  <1>7. PICK j \in Nat : j = op.j
    BY <1>2, FcbLemma
  <1>8. /\ op'.fase = "fcb" /\ op'.hueco = h /\ op'.contiguo = c /\ op'.j = j + n /\ f0' = f0
    BY <1>1, <1>2, <1>5, <1>6, <1>7 DEF Buena, Formas, f0
  <1>9. /\ DOMAIN meta' = DOMAIN meta
        /\ meta'[g].inicio = h + j /\ meta'[g].tam = meta[g].tam
        /\ \A x \in DOMAIN meta \ {g} : meta'[x] = meta[x]
    BY <1>1, <1>3, <1>4, <1>6, <1>7 DEF Disco, FCBs
  <1>10. Quietos' = Quietos /\ \A q \in Quietos \ {g} : Tramo(q)' = Tramo(q) /\ meta'[q] = meta[q]
    BY <1>2, <1>8, <1>9 DEF Quietos, Tramo
  <1>11. /\ \A x : x \in Tramo(g) <=> x \in Int /\ c + j <= x /\ x < c + j + n
         /\ \A x : x \in Tramo(g)' <=> x \in Int /\ h + j <= x /\ x < h + j + n
    BY <1>3, <1>5, <1>6, <1>7, <1>9 DEF Tramo
  <1>12. /\ \A q : Movido(q) <=> meta[q].inicio \in Int /\ h <= meta[q].inicio /\ meta[q].inicio < h + j
         /\ \A q : Movido(q)' <=>
                meta'[q].inicio \in Int /\ h <= meta'[q].inicio /\ meta'[q].inicio < h + j + n
    BY <1>5, <1>6, <1>7, <1>8 DEF Movido, TramoDe
  <1>13. Movido(g)' /\ ~ Movido(g)
    BY <1>3, <1>5, <1>6, <1>7, <1>9, <1>12
  <1>14. \A q \in Quietos \ {g} : Movido(q) => Movido(q)'
    BY <1>5, <1>6, <1>7, <1>10, <1>12
  <1>15. ASSUME NEW q \in Quietos \ {g}, ~ Movido(q)
         PROVE  ~ Movido(q)'
    <2>1. q \in DOMAIN meta
      BY <1>2 DEF Quietos
    <2>2. PICK i \in Nat : i = meta[q].inicio /\ i \in Tramo(q)
      BY <1>4, <2>1, FCBLemma
    <2>3. i \in bitmap /\ ~ (c <= i /\ i < c + j)
      BY <1>2, <1>6, <1>7, <1>12, <1>15, <2>2, FcbLemma
    <2>4. i \notin Tramo(g)
      BY <1>3, <1>15, <2>2 DEF Buena, Reparto, Separados
    <2>5. ~ (h <= i /\ i < c)
      BY <1>2, <1>6, <2>3, FcbLemma
    <2>6. ~ (h <= i /\ i < h + j + n)
      BY <1>5, <1>6, <1>7, <1>11, <2>3, <2>4, <2>5
    <2> QED BY <1>10, <1>12, <2>2, <2>6
  <1>16. ASSUME NEW x \in TramoDe(h, j + n)
         PROVE  \E q \in Quietos : Movido(q)' /\ x \in Tramo(q)'
    <2>1. x \in Int /\ h <= x /\ x < h + j + n
      BY <1>5, <1>6, <1>7 DEF TramoDe
    <2>2. CASE x < h + j
      <3>1. x \in TramoDe(op.hueco, op.j)
        BY <1>6, <1>7, <2>1, <2>2 DEF TramoDe
      <3>2. PICK q \in Quietos : Movido(q) /\ x \in Tramo(q)
        BY <1>2, <3>1 DEF Usados, Llena
      <3> QED BY <1>10, <1>13, <1>14, <3>2
    <2>3. CASE h + j <= x
      BY <1>3, <1>11, <1>13, <2>1, <2>3
    <2> QED BY <1>6, <1>7, <2>1, <2>2, <2>3
  <1>17. Llena'
    BY <1>8, <1>10, <1>16 DEF Llena
  <1>18. ASSUME NEW x \in bitmap
         PROVE  EnUso(x)'
    <2>1. \/ \E q \in Quietos : x \in Tramo(q) /\ ~ Movido(q)
          \/ x \in TramoDe(op.contiguo, op.j)
      BY <1>2 DEF Usados, EnUso
    <2>2. CASE \E q \in Quietos \ {g} : x \in Tramo(q) /\ ~ Movido(q)
      BY <1>10, <1>15, <2>2 DEF EnUso
    <2>3. CASE x \in Tramo(g) \/ x \in TramoDe(op.contiguo, op.j)
      <3>1. x \in TramoDe(c, j + n)
        BY <1>5, <1>6, <1>7, <1>11, <2>3 DEF TramoDe
      <3> QED BY <1>8, <3>1 DEF EnUso
    <2> QED BY <2>1, <2>2, <2>3
  <1> QED BY <1>2, <1>17, <1>18 DEF Usados

LEMMA UsadosCopiar ==
    ASSUME Buena, Usados, CompactarCopiar
    PROVE  Usados'
  <1>1. /\ meta' = meta /\ op.fase = "fcb" /\ op.j >= op.largo
        /\ bitmap' = (bitmap \cup (op.hueco .. op.hueco + op.largo - 1))
                       \ (op.hueco + op.largo .. op.contiguo + op.largo - 1)
    <2>1. bitmap' = (bitmap \cup (op.hueco .. op.hueco + op.largo - 1))
                      \ (op.hueco + op.largo .. op.contiguo + op.largo - 1)
      BY Zenon DEF CompactarCopiar
    <2> QED BY <2>1 DEF CompactarCopiar, EnFase
  <1>2. op'.fase = "mover" /\ f0' = f0
    BY DEF CompactarCopiar, f0
  <1>3. PICK h \in Nat, c \in Nat : h = op.hueco /\ c = op.contiguo /\ h < c
    BY <1>1, FcbLemma
  <1>4. PICK l \in Nat : l = op.largo /\ l = op.j
    BY <1>1, FcbLemma
  <1>5. Quietos' = Quietos /\ \A g \in Quietos : Tramo(g)' = Tramo(g)
    BY <1>1, <1>2 DEF Quietos, Tramo
  <1>6. ASSUME NEW x \in bitmap'
        PROVE  \E g \in Quietos : x \in Tramo(g)
    <2>1. CASE x \in TramoDe(h, l)
      BY <1>1, <1>3, <1>4, <2>1 DEF Usados, Llena
    <2>2. CASE x \notin TramoDe(h, l)
      <3>1. x \in bitmap /\ x \notin h + l .. c + l - 1 /\ x \notin h .. h + l - 1
        BY <1>1, <1>3, <1>4, <2>2 DEF TramoDe
      <3>2. x \notin TramoDe(c, l)
        BY <1>3, <3>1 DEF TramoDe
      <3> QED BY <1>1, <1>3, <1>4, <3>1, <3>2 DEF Usados, EnUso
    <2> QED BY <2>1, <2>2
  <1> QED BY <1>2, <1>5, <1>6 DEF Usados, EnUso, Llena

LEMMA UsadosFin ==
    ASSUME Buena, Usados, CompactarFin
    PROVE  Usados'
  <1>1. /\ op.fase = "mover" /\ op'.fase = "pedido" /\ Disco
        /\ meta' = [meta EXCEPT ![f0].inicio = GetBit]
        /\ bitmap' = bitmap \cup (GetBit .. GetBit + Tiene - 1)
    BY DEF CompactarFin, EnFase, Buena
  <1>2. PICK a \in DOMAIN meta : a = f0
    BY <1>1, HuecoLemma
  <1>3. /\ DOMAIN meta' = DOMAIN meta
        /\ meta'[a].inicio = GetBit /\ meta'[a].tam = meta[a].tam
        /\ \A g \in DOMAIN meta \ {a} : meta'[g] = meta[g]
    BY <1>1, <1>2 DEF Disco, FCBs
  <1>4. Tramo(a)' = GetBit .. GetBit + Tiene - 1
    BY <1>2, <1>3 DEF Tramo, Tiene, FCB
  <1>5. /\ Quietos = DOMAIN meta \ {a} /\ Quietos' = DOMAIN meta
        /\ \A g \in Quietos : Tramo(g)' = Tramo(g)
    BY <1>1, <1>2, <1>3 DEF Quietos, Tramo
  <1>6. \A x \in bitmap : \E g \in Quietos : x \in Tramo(g)
    BY <1>1, UsadosLemma
  <1>7. \A x \in bitmap' : \E g \in DOMAIN meta : x \in Tramo(g)'
    BY <1>1, <1>4, <1>5, <1>6
  <1> QED BY <1>1, <1>5, <1>7 DEF Usados, EnUso, Llena

\* The process ends with nothing lost only between two operations.
LEMMA UsadosTerminar ==
    ASSUME Buena, Usados, Reiniciar \/ TruncarSinEspacio \/ FueraDeArchivo \/ (Cortar /\ sano' = "exacto")
    PROVE  Usados'
  <1>1. UNCHANGED <<bitmap, meta>>
    BY DEF Reiniciar, TruncarSinEspacio, FueraDeArchivo, Cortar, disco
  <1>2. op'.fase = "libre"
    BY DEF Reiniciar, TruncarSinEspacio, FueraDeArchivo, Cortar, Salir, Libre, Buena, Formas
  <1>3. op.fase \in {"libre", "pedido", "leido"}
    <2>1. CASE Cortar /\ sano' = "exacto"
      <3>1. Deja = "exacto"
        BY <2>1 DEF Cortar, Empeora
      <3> QED BY <3>1 DEF Deja, Buena, Formas
    <2>2. CASE Reiniciar
      BY <2>2 DEF Reiniciar, Buena, Formas
    <2>3. CASE TruncarSinEspacio \/ FueraDeArchivo
      BY <2>3 DEF TruncarSinEspacio, FueraDeArchivo, Truncando, Pedido, EnFase
    <2> QED BY <2>1, <2>2, <2>3
  <1> QED BY <1>1, <1>2, <1>3, UsadosQuieto

\* What was lost is not found again.
LEMMA ExactoAntes ==
    ASSUME [Next]_vars, sano' = "exacto"
    PROVE  sano = "exacto"
  <1>1. CASE UNCHANGED sano
    BY <1>1
  <1>2. CASE Cortar
    BY <1>2 DEF Cortar, Empeora, Deja
  <1> QED BY <1>1, <1>2 DEF Next, Hilo, vars, Recibir, Descartar, CrearReservar, CrearAbrir,
        CrearCargar, BorrarLiberar, BorrarQuitar, TruncarAchicar, TruncarCrecer, TruncarTam,
        TruncarSinEspacio, CompactarLimpiar, CompactarBuscar, CompactarFCB, CompactarSinFCB,
        CompactarCopiar, CompactarFin, FueraDeArchivo, Escribir, Leer, EntregarLeido, Reiniciar

LEMMA ExactoPaso ==
    ASSUME Inv, Exacto, [Next]_vars
    PROVE  Exacto'
  <1> SUFFICES ASSUME sano' = "exacto"
               PROVE  Usados'
    BY DEF Exacto
  <1>1. Buena /\ Usados
    BY ExactoAntes DEF Inv, Exacto
  <1>2. CASE Recibir \/ Descartar \/ Escribir \/ Leer \/ EntregarLeido
    <2>1. /\ UNCHANGED <<bitmap, meta>>
          /\ op.fase \in {"libre", "pedido", "leido"} /\ op'.fase \in {"libre", "pedido", "leido"}
      BY <1>2 DEF Recibir, Descartar, Escribir, Leer, EntregarLeido, EnFase, Pedido, Libre, disco
    <2> QED BY <1>1, <2>1, UsadosQuieto
  <1>3. CASE CrearReservar \/ CrearAbrir \/ CrearCargar \/ BorrarLiberar \/ BorrarQuitar
    BY <1>1, <1>3, UsadosCrear, UsadosBorrar
  <1>4. CASE TruncarAchicar \/ TruncarCrecer \/ TruncarTam
    BY <1>1, <1>4, UsadosTruncar, UsadosTam
  <1>5. CASE TruncarSinEspacio \/ FueraDeArchivo \/ Cortar \/ Reiniciar
    BY <1>1, <1>5, UsadosTerminar
  <1>6. CASE CompactarLimpiar \/ CompactarBuscar \/ CompactarFCB \/ CompactarCopiar \/ CompactarFin
    BY <1>1, <1>6, UsadosLimpiarBuscar, UsadosFCB, UsadosCopiar, UsadosFin
  <1>7. CASE CompactarSinFCB
    BY <1>7 DEF CompactarSinFCB
  <1>8. CASE UNCHANGED vars
    BY <1>1, <1>8 DEF vars, Usados, EnUso, Llena, Quietos, Movido, Tramo, Nuevo, FCB, Pide, f0
  <1> QED BY <1>2, <1>3, <1>4, <1>5, <1>6, <1>7, <1>8 DEF Next, Hilo

\* Without cuts in the middle of an operation the bitmap has the blocks of the files
\* and no other, also after any number of compactions.
THEOREM NoSePierdenBloques == Spec => []BitmapExacto
  <1>1. Init => Exacto
    BY DEF Init, Exacto, Usados, Llena, Libre
  <1>2. Inv /\ Exacto /\ [Next]_vars => Exacto'
    BY ExactoPaso
  <1>3. Inv /\ Exacto => BitmapExacto
    <2> SUFFICES ASSUME Inv, Exacto, sano = "exacto", EnReposo
                 PROVE  bitmap = UNION {Tramo(f) : f \in DOMAIN meta}
      BY DEF BitmapExacto
    <2>1. Quietos = DOMAIN meta /\ op.fase = "libre"
      BY DEF Quietos, EnReposo
    <2>2. \A x \in bitmap : \E g \in DOMAIN meta : x \in Tramo(g)
      BY <2>1, UsadosLemma DEF Exacto
    <2>3. \A g \in DOMAIN meta : Tramo(g) \subseteq bitmap
      BY <2>1 DEF Inv, Buena, Reparto, Marcados
    <2> QED BY <2>2, <2>3
  <1> QED BY <1>1, <1>2, <1>3, InvSiempre, PTL DEF Spec

-----------------------------------------------------------------------------
(* The contents, and SistemaArchivos.                                      *)

\* bloques has every cell, and the buffer of a compaction those of the file.
Datos ==
    /\ bloques = [c \in Celda |-> bloques[c]]
    /\ op.fase \in {"mover", "fcb"} => DOMAIN op.buffer = 0 .. Tiene * BlockSize - 1

\* The first block with the data of a file.
Inicio(g) == IF op.fase = "fcb" /\ meta[g].inicio \in op.hueco .. op.hueco + op.j - 1
             THEN meta[g].inicio + op.contiguo - op.hueco ELSE meta[g].inicio

EnBloques(g) == ~ (op.fase \in {"mover", "fcb"} /\ g = f0)

-----------------------------------------------------------------------------
(* Cells.                                                                  *)

\* The cells of k blocks are before those of the blocks that follow.
LEMMA CeldasAntes ==
    ASSUME NEW a \in Nat, NEW k \in Nat, NEW b \in Nat, NEW n \in Nat,
           a + k <= b, n < k * BlockSize
    PROVE  a * BlockSize + n \in Nat /\ a * BlockSize + n < b * BlockSize
  <1>1. (a + k) * BlockSize <= b * BlockSize
    BY Z3
  <1>2. (a + k) * BlockSize = a * BlockSize + k * BlockSize
    BY Z3
  <1>3. a * BlockSize \in Nat /\ k * BlockSize \in Nat /\ b * BlockSize \in Nat
    BY Z3
  <1> QED BY <1>1, <1>2, <1>3

LEMMA ProductoNat ==
    ASSUME NEW a \in Nat
    PROVE  a * BlockSize \in Nat
  BY Z3

LEMMA CeldaLemma ==
    ASSUME NEW i \in Nat, NEW k \in Nat, i + k <= BlockCount, NEW n \in Nat, n < k * BlockSize
    PROVE  i * BlockSize + n \in Celda
  <1>1. i * BlockSize + n \in Nat /\ i * BlockSize + n < BlockCount * BlockSize
    BY CeldasAntes
  <1>2. BlockCount * BlockSize \in Nat
    BY ProductoNat
  <1> QED BY <1>1, <1>2 DEF Celda

\* The cells of k blocks from block i and those of m blocks from block a.
LEMMA CeldaAjena ==
    ASSUME NEW i \in Nat, NEW k \in Nat, NEW n \in Nat, n < k * BlockSize,
           NEW a \in Nat, NEW m \in Nat, i + k <= a \/ a + m <= i
    PROVE  ~ (a * BlockSize <= i * BlockSize + n /\ i * BlockSize + n < (a + m) * BlockSize)
  <1>1. a * BlockSize \in Nat /\ (a + m) * BlockSize \in Nat /\ i * BlockSize \in Nat
    BY ProductoNat
  <1>2. CASE i + k <= a
    <2>1. i * BlockSize + n < a * BlockSize
      BY <1>2, CeldasAntes
    <2> QED BY <1>1, <2>1
  <1>3. CASE a + m <= i
    <2>1. \A x, y \in Nat : x <= y => x * BlockSize <= y * BlockSize
      BY Z3
    <2>2. (a + m) * BlockSize <= i * BlockSize
      BY <1>3, <2>1
    <2> QED BY <1>1, <2>2
  <1> QED BY <1>2, <1>3

\* Two runs of blocks that share none: one is before the other.
LEMMA AparteLemma ==
    ASSUME Disco, NEW f \in DOMAIN meta, NEW g \in DOMAIN meta, Tramo(f) \cap Tramo(g) = {}
    PROVE  \/ meta[f].inicio + Ocupa(meta[f].tam) <= meta[g].inicio
           \/ meta[g].inicio + Ocupa(meta[g].tam) <= meta[f].inicio
  <1>1. meta[f].inicio \in Nat /\ meta[f].inicio \notin Tramo(g)
    BY FCBLemma
  <1>2. meta[g].inicio \in Nat /\ meta[g].inicio \notin Tramo(f)
    BY FCBLemma
  <1>3. ~ (meta[g].inicio <= meta[f].inicio /\ meta[f].inicio < meta[g].inicio + Ocupa(meta[g].tam))
    BY <1>1, FCBLemma
  <1>4. ~ (meta[f].inicio <= meta[g].inicio /\ meta[g].inicio < meta[f].inicio + Ocupa(meta[f].tam))
    BY <1>2, FCBLemma
  <1>5. Ocupa(meta[f].tam) \in Nat /\ Ocupa(meta[g].tam) \in Nat
    BY FCBLemma
  <1> QED BY <1>1, <1>2, <1>3, <1>4, <1>5

\* What is within the size of a file is within its blocks.
LEMMA AlcanceLemma ==
    ASSUME Buena, sano # "roto", NEW g \in Presentes, NEW n \in Nat, n < TamDe(g)
    PROVE  g \in DOMAIN meta /\ n < Ocupa(meta[g].tam) * BlockSize
  <1>1. g \in DOMAIN meta /\ Disco /\ Formas
    BY DEF Presentes, Buena
  <1>2. meta[g].tam \in Nat /\ Ocupa(meta[g].tam) \in Nat
    BY <1>1, FCBLemma
  <1>3. meta[g].tam <= Ocupa(meta[g].tam) * BlockSize
    <2>1. meta[g].tam = 0 => Ocupa(meta[g].tam) * BlockSize \in Nat
      BY <1>2, ProductoNat
    <2> QED BY <1>2, <2>1, TechoLemma
  <1>4. CASE op.fase = "tam" /\ g = f0 /\ Pide < Tiene
    <2>1. TamDe(g) = op.orden.tam
      BY <1>4 DEF TamDe
    <2>2. op.orden.tam \in Nat /\ Pide \in Nat
      BY <1>1, <1>4, F0Lemma
    <2>3. op.orden.tam <= Pide * BlockSize
      BY <2>2, TechoLemma DEF Pide
    <2>4. Tiene = Ocupa(meta[g].tam)
      BY <1>4 DEF Tiene, FCB
    <2>5. Pide * BlockSize <= Ocupa(meta[g].tam) * BlockSize
      <3>1. \A x, y \in Nat : x < y => x * BlockSize <= y * BlockSize
        BY Z3
      <3> QED BY <1>2, <1>4, <2>2, <2>4, <3>1
    <2>6. Pide * BlockSize \in Nat /\ Ocupa(meta[g].tam) * BlockSize \in Nat
      BY <1>2, <2>2, ProductoNat
    <2> QED BY <1>1, <2>1, <2>2, <2>3, <2>5, <2>6
  <1>5. CASE ~ (op.fase = "tam" /\ g = f0 /\ Pide < Tiene)
    <2>1. TamDe(g) = meta[g].tam
      BY <1>5 DEF TamDe
    <2>2. Ocupa(meta[g].tam) * BlockSize \in Nat
      BY <1>2, ProductoNat
    <2> QED BY <1>1, <1>2, <1>3, <2>1, <2>2
  <1> QED BY <1>4, <1>5

\* Where the data of the files are that nothing takes apart.
LEMMA LugarLemma ==
    ASSUME Buena, NEW g \in Quietos
    PROVE  /\ g \in DOMAIN meta /\ Inicio(g) \in Nat /\ Ocupa(meta[g].tam) \in Nat
           /\ Inicio(g) + Ocupa(meta[g].tam) <= BlockCount
  <1>1. g \in DOMAIN meta /\ Disco
    BY DEF Quietos, Buena
  <1>2. PICK i \in Nat, k \in Nat : i = meta[g].inicio /\ k = Ocupa(meta[g].tam) /\ k >= 1
    BY <1>1, FCBLemma
  <1>3. i \in Tramo(g) /\ i + k - 1 \in Tramo(g)
    BY <1>1, <1>2, FCBLemma
  <1>4. bitmap \subseteq Bloque
    BY <1>1 DEF Disco
  <1>5. CASE op.fase = "fcb"
    <2>1. PICK h \in Nat, c \in Nat : h = op.hueco /\ c = op.contiguo
      BY <1>5, FcbLemma
    <2>2. PICK l \in Nat, j \in Nat : l = op.largo /\ j = op.j
      BY <1>5, FcbLemma
    <2>3. h < c /\ j <= l /\ c + l <= BlockCount
      BY <1>5, <2>1, <2>2, FcbLemma
    <2>4. CASE h <= i /\ i < h + j
      <3>1. \A b \in Tramo(g) : h <= b /\ b < h + j
        BY <1>2, <1>5, <2>1, <2>2, <2>4, FcbLemma
      <3>2. i + k - 1 < h + j
        BY <1>3, <3>1
      <3>3. Inicio(g) = i + c - h
        BY <1>2, <1>5, <2>1, <2>2, <2>4 DEF Inicio
      <3> QED BY <1>1, <1>2, <2>3, <2>4, <3>2, <3>3
    <2>5. CASE ~ (h <= i /\ i < h + j)
      <3>1. i + k - 1 \in bitmap
        BY <1>2, <1>3, <1>5, <2>1, <2>2, <2>5, FcbLemma
      <3>2. Inicio(g) = i
        BY <1>2, <1>5, <2>1, <2>2, <2>5 DEF Inicio
      <3> QED BY <1>1, <1>2, <1>4, <3>1, <3>2 DEF Bloque
    <2> QED BY <2>4, <2>5
  <1>6. CASE op.fase # "fcb"
    <2>1. i + k - 1 \in bitmap
      BY <1>3, <1>6 DEF Buena, Reparto, Marcados
    <2>2. Inicio(g) = i
      BY <1>2, <1>6 DEF Inicio
    <2> QED BY <1>1, <1>2, <1>4, <2>1, <2>2 DEF Bloque
  <1> QED BY <1>5, <1>6

LEMMA ContenidoEnBloques ==
    ASSUME NEW g, EnBloques(g), NEW n
    PROVE  Contenido(g, n) = bloques[Inicio(g) * BlockSize + n]
  BY DEF Contenido, EnBloques, Inicio

LEMMA ContenidoEnBuffer ==
    ASSUME op.fase \in {"mover", "fcb"}, NEW n
    PROVE  Contenido(f0, n) = op.buffer[n]
  BY DEF Contenido

-----------------------------------------------------------------------------
(* The forms of the data.                                                  *)

LEMMA CopiaLemma ==
    ASSUME NEW b, bloques' = [c \in Celda |-> b[c]]
    PROVE  bloques' = [c \in Celda |-> bloques'[c]]
  OBVIOUS

\* The cells after each operation.
LEMMA BloquesPaso ==
    ASSUME Datos, [Next]_vars
    PROVE  bloques' = [c \in Celda |-> bloques'[c]]
  <1>1. bloques = [c \in Celda |-> bloques[c]]
    BY DEF Datos
  <1>2. CASE bloques' = bloques
    BY <1>1, <1>2
  <1>3. CASE BorrarLiberar \/ TruncarAchicar
    BY <1>3 DEF BorrarLiberar, TruncarAchicar, Borradas
  <1>4. CASE CompactarCopiar
    BY <1>4 DEF CompactarCopiar, Copiados
  <1>5. CASE CompactarFin
    BY <1>5 DEF CompactarFin
  <1>6. CASE Escribir
    BY <1>1, <1>6 DEF Escribir
  <1> QED BY <1>2, <1>3, <1>4, <1>5, <1>6 DEF Next, Hilo, vars, disco, Recibir, Descartar,
        CrearReservar, CrearAbrir, CrearCargar, BorrarQuitar, TruncarCrecer, TruncarTam,
        TruncarSinEspacio, CompactarLimpiar, CompactarBuscar, CompactarFCB, CompactarSinFCB,
        FueraDeArchivo, Leer, EntregarLeido, Cortar, Reiniciar

LEMMA DatosPaso ==
    ASSUME Buena, Datos, [Next]_vars
    PROVE  Datos'
  <1>1. bloques' = [c \in Celda |-> bloques'[c]]
    BY BloquesPaso
  <1>2. CASE op'.fase \notin {"mover", "fcb"}
    BY <1>1, <1>2 DEF Datos
  <1>3. CASE CompactarLimpiar
    <2>1. /\ op'.buffer = [i \in 0 .. Tiene * BlockSize - 1 |-> bloques[FCB.inicio * BlockSize + i]]
          /\ meta' = meta /\ op'.orden = op.orden
      BY <1>3 DEF CompactarLimpiar
    <2>2. Tiene' = Tiene
      BY <2>1 DEF Tiene, FCB, f0
    <2> QED BY <1>1, <2>1, <2>2 DEF Datos
  <1>4. CASE CompactarBuscar \/ CompactarCopiar
    <2>1. meta' = meta /\ op'.orden = op.orden /\ op'.buffer = op.buffer
          /\ op.fase \in {"mover", "fcb"}
      BY <1>4 DEF CompactarBuscar, CompactarCopiar, disco, EnFase
    <2>2. Tiene' = Tiene
      BY <2>1 DEF Tiene, FCB, f0
    <2> QED BY <1>1, <2>1, <2>2 DEF Datos
  <1>5. CASE CompactarFCB
    <2>1. PICK g \in EnInicio(op.contiguo + op.j) :
              /\ meta' = [meta EXCEPT ![g].inicio = op.hueco + op.j]
              /\ op' = [op EXCEPT !.j = @ + Ocupa(meta[g].tam)]
      BY <1>5 DEF CompactarFCB
    <2>2. op.fase = "fcb" /\ op.j < op.largo
      BY <1>5 DEF CompactarFCB, EnFase
    <2>3. g \in Quietos /\ Quietos = DOMAIN meta \ {f0} /\ f0 \in DOMAIN meta
      BY <2>2, CompactarFCBLemma, FcbLemma
    <2>4. op'.orden = op.orden /\ op'.buffer = op.buffer
      <3>1. PICK o, b, h, c, l, j :
                op = [fase |-> "fcb", orden |-> o, buffer |-> b, hueco |-> h,
                      contiguo |-> c, largo |-> l, j |-> j]
        BY <2>2 DEF Buena, Formas
      <3> QED BY <2>1, <3>1
    <2>5. meta'[f0] = meta[f0]
      BY <2>1, <2>3
    <2>6. Tiene' = Tiene
      BY <2>4, <2>5 DEF Tiene, FCB, f0
    <2> QED BY <1>1, <2>2, <2>4, <2>6 DEF Datos
  <1>6. CASE UNCHANGED vars
    BY <1>1, <1>6 DEF Datos, vars, Tiene, FCB, f0
  <1>7. CASE op' = Libre
    BY <1>2, <1>7 DEF Libre
  <1>8. CASE Recibir \/ CrearReservar \/ CompactarFin \/ CompactarSinFCB \/ Leer
    BY <1>2, <1>8 DEF Recibir, CrearReservar, CompactarFin, CompactarSinFCB, Leer
  <1>9. CASE CrearAbrir \/ BorrarLiberar \/ TruncarAchicar \/ TruncarCrecer
    <2>1. DOMAIN op # {} /\ "fase" \in DOMAIN op
      BY <1>9 DEF CrearAbrir, BorrarLiberar, TruncarAchicar, TruncarCrecer, Truncando, Pedido,
                  EnFase, Buena, Formas
    <2> QED BY <1>2, <1>9, <2>1 DEF CrearAbrir, BorrarLiberar, TruncarAchicar, TruncarCrecer
  <1>10. CASE Reiniciar
    <2>1. op' = op /\ op = Libre
      BY <1>10 DEF Reiniciar, Buena, Formas
    <2> QED BY <1>7, <2>1
  <1> QED BY <1>3, <1>4, <1>5, <1>6, <1>7, <1>8, <1>9, <1>10 DEF Next, Hilo, Descartar,
        CrearCargar, BorrarQuitar, TruncarTam, TruncarSinEspacio, FueraDeArchivo, Escribir,
        EntregarLeido, Cortar, Salir

-----------------------------------------------------------------------------
(* No operation but a write changes what a file holds within its old and   *)
(* its new size.                                                           *)

Sigue(g) == \A n \in Nat : n < TamDe(g) /\ n < TamDe(g)' => Contenido(g, n)' = Contenido(g, n)

LEMMA SigueQuieto ==
    ASSUME NEW g, bloques' = bloques, meta'[g].inicio = meta[g].inicio,
           op.fase \notin {"mover", "fcb"}, op'.fase \notin {"mover", "fcb"}
    PROVE  Sigue(g)
  BY DEF Sigue, Contenido

LEMMA SigueBorrarLiberar ==
    ASSUME Buena, Datos, sano # "roto", BorrarLiberar, NEW g \in Presentes, g # f0
    PROVE  Sigue(g)
  <1>1. /\ bloques' = [c \in Celda |-> IF c \in CeldasDe(FCB.inicio, Ocupa(FCB.tam))
                                       THEN Cero ELSE bloques[c]]
        /\ UNCHANGED meta /\ op.fase = "pedido" /\ f0 \in DOMAIN meta
        /\ op'.fase = "quitar"
    <2>1. vivo /\ op.fase = "pedido" /\ f0 \in dicc /\ op' = [op EXCEPT !.fase = "quitar"]
      BY DEF BorrarLiberar, Pedido, EnFase
    <2>2. op = [fase |-> "pedido", orden |-> op.orden]
      BY <2>1 DEF Buena, Formas
    <2> QED BY <2>1, <2>2 DEF BorrarLiberar, Borradas, Buena, Disco
  <1>2. PICK f \in DOMAIN meta : f = f0
    BY <1>1
  <1>3. g \in DOMAIN meta /\ g \in Quietos /\ f \in Quietos /\ f # g
    BY <1>1, <1>2 DEF Presentes, Quietos
  <1>4. Tramo(f) \cap Tramo(g) = {} /\ Disco
    BY <1>3 DEF Buena, Reparto, Separados
  <1>5. PICK i \in Nat, k \in Nat : i = meta[g].inicio /\ k = Ocupa(meta[g].tam)
    BY <1>3, <1>4, FCBLemma
  <1>6. PICK a \in Nat, m \in Nat : a = meta[f].inicio /\ m = Ocupa(meta[f].tam)
    BY <1>4, FCBLemma
  <1>7. i + k <= a \/ a + m <= i
    BY <1>3, <1>4, <1>5, <1>6, AparteLemma
  <1>8. CeldasDe(FCB.inicio, Ocupa(FCB.tam)) = a * BlockSize .. (a + m) * BlockSize - 1
    BY <1>2, <1>6 DEF CeldasDe, FCB
  <1>9. Inicio(g) = i /\ i + k <= BlockCount /\ EnBloques(g) /\ EnBloques(g)' /\ Inicio(g)' = i
    BY <1>1, <1>3, <1>5, LugarLemma DEF Inicio, EnBloques
  <1>10. ASSUME NEW n \in Nat, n < TamDe(g)
         PROVE  bloques'[i * BlockSize + n] = bloques[i * BlockSize + n]
    <2>1. n < k * BlockSize
      BY <1>5, <1>10, AlcanceLemma
    <2>2. i * BlockSize + n \in Celda
      BY <1>9, <2>1, CeldaLemma
    <2>3. i * BlockSize + n \notin a * BlockSize .. (a + m) * BlockSize - 1
      BY <1>7, <2>1, CeldaAjena
    <2> QED BY <1>1, <1>8, <2>2, <2>3
  <1>11. \A n : Contenido(g, n) = bloques[i * BlockSize + n]
    BY <1>9, ContenidoEnBloques
  <1>12. \A n : Contenido(g, n)' = bloques'[i * BlockSize + n]
    BY <1>1, <1>5 DEF Contenido
  <1> QED BY <1>10, <1>11, <1>12 DEF Sigue

\* Between operations: the blocks of two files.
LEMMA DosArchivos ==
    ASSUME Buena, op.fase = "pedido", NEW f \in DOMAIN meta, NEW g \in DOMAIN meta, f # g
    PROVE  \/ meta[f].inicio + Ocupa(meta[f].tam) <= meta[g].inicio
           \/ meta[g].inicio + Ocupa(meta[g].tam) <= meta[f].inicio
  <1>1. Tramo(f) \cap Tramo(g) = {} /\ Disco
    BY DEF Buena, Reparto, Separados, Quietos
  <1> QED BY <1>1, AparteLemma

\* Between operations: the data of a file.
LEMMA EnReposoLemma ==
    ASSUME Buena, op.fase = "pedido", NEW g \in DOMAIN meta
    PROVE  /\ meta[g].inicio \in Nat /\ Ocupa(meta[g].tam) \in Nat
           /\ meta[g].inicio + Ocupa(meta[g].tam) <= BlockCount
           /\ \A n : Contenido(g, n) = bloques[meta[g].inicio * BlockSize + n]
  <1>1. g \in Quietos /\ Inicio(g) = meta[g].inicio /\ EnBloques(g)
    BY DEF Quietos, Inicio, EnBloques
  <1>2. \A n : Contenido(g, n) = bloques[Inicio(g) * BlockSize + n]
    BY <1>1, ContenidoEnBloques
  <1> QED BY <1>1, <1>2, LugarLemma

LEMMA SigueTruncarAchicar ==
    ASSUME Buena, Datos, sano # "roto", TruncarAchicar, NEW g \in Presentes
    PROVE  Sigue(g)
  <1> DEFINE desde == FCB.inicio * BlockSize + op.orden.tam
             hasta == desde + (Tiene - Pide) * BlockSize - 1
  <1>1. /\ bloques' = [c \in Celda |-> IF c \in desde .. hasta THEN Cero ELSE bloques[c]]
        /\ UNCHANGED meta /\ op.fase = "pedido" /\ f0 \in DOMAIN meta /\ Pide < Tiene
        /\ op'.fase = "tam" /\ op'.orden = op.orden
    <2>1. vivo /\ op.fase = "pedido" /\ f0 \in dicc /\ op' = [op EXCEPT !.fase = "tam"]
      BY DEF TruncarAchicar, Truncando, Pedido, EnFase
    <2>2. op = [fase |-> "pedido", orden |-> op.orden]
      BY <2>1 DEF Buena, Formas
    <2> QED BY <2>1, <2>2 DEF TruncarAchicar, Borradas, Buena, Disco
  <1> HIDE DEF desde, hasta
  <1>2. PICK f \in DOMAIN meta : f = f0
    BY <1>1
  <1>3. g \in DOMAIN meta
    BY DEF Presentes
  <1>4. PICK a \in Nat, m \in Nat, p \in Nat, t \in Nat :
            /\ a = meta[f].inicio /\ m = Ocupa(meta[f].tam) /\ m = Tiene
            /\ p = Pide /\ t = op.orden.tam /\ p < m /\ t <= p * BlockSize
    <2>1. meta[f].inicio \in Nat /\ Ocupa(meta[f].tam) \in Nat /\ Tiene = Ocupa(meta[f].tam)
      BY <1>1, <1>2, EnReposoLemma DEF Tiene, FCB
    <2>2. Pide \in Nat /\ op.orden.tam \in Nat
      BY <1>1, F0Lemma DEF Buena
    <2>3. op.orden.tam <= Pide * BlockSize
      BY <2>2, TechoLemma DEF Pide
    <2> QED BY <1>1, <2>1, <2>2, <2>3
  <1>5. PICK i \in Nat, k \in Nat :
            i = meta[g].inicio /\ k = Ocupa(meta[g].tam) /\ i + k <= BlockCount
    BY <1>1, <1>3, EnReposoLemma
  <1>6. desde = a * BlockSize + t /\ hasta = a * BlockSize + t + (m - p) * BlockSize - 1
    BY <1>2, <1>4 DEF FCB, desde, hasta
  <1>7. (m - p) * BlockSize = m * BlockSize - p * BlockSize
        /\ (a + m) * BlockSize = a * BlockSize + m * BlockSize
    BY Z3
  <1>8. a * BlockSize \in Nat /\ m * BlockSize \in Nat /\ p * BlockSize \in Nat
        /\ (a + m) * BlockSize \in Nat /\ i * BlockSize \in Nat
    BY ProductoNat
  <1>9. a * BlockSize <= desde /\ hasta < (a + m) * BlockSize /\ desde \in Nat /\ hasta \in Int
    BY <1>4, <1>6, <1>7, <1>8
  <1>10. ASSUME NEW n \in Nat, n < TamDe(g), n < TamDe(g)'
         PROVE  bloques'[i * BlockSize + n] = bloques[i * BlockSize + n]
    <2>1. n < k * BlockSize
      BY <1>5, <1>10, AlcanceLemma
    <2>2. i * BlockSize + n \in Celda
      BY <1>5, <2>1, CeldaLemma
    <2>3. i * BlockSize + n \notin desde .. hasta
      <3>1. CASE g = f
        <4>1. Pide' = Pide /\ Tiene' = Tiene /\ f0' = f0
          BY <1>1 DEF Pide, Tiene, FCB, f0
        <4>2. TamDe(g)' \in {0, t}
          BY <1>1, <1>2, <1>4, <3>1, <4>1 DEF TamDe
        <4>3. n < t
          BY <1>10, <4>2
        <4> QED BY <1>4, <1>5, <1>6, <1>8, <1>9, <3>1, <4>3
      <3>2. CASE g # f
        <4>1. i + k <= a \/ a + m <= i
          BY <1>1, <1>3, <1>4, <1>5, <3>2, DosArchivos
        <4>2. ~ (a * BlockSize <= i * BlockSize + n /\ i * BlockSize + n < (a + m) * BlockSize)
          BY <2>1, <4>1, CeldaAjena
        <4> QED BY <1>8, <1>9, <4>2
      <3> QED BY <3>1, <3>2
    <2> QED BY <1>1, <2>2, <2>3
  <1>11. \A n : Contenido(g, n) = bloques[i * BlockSize + n]
    BY <1>1, <1>3, <1>5, EnReposoLemma
  <1>12. \A n : Contenido(g, n)' = bloques'[i * BlockSize + n]
    BY <1>1, <1>5 DEF Contenido
  <1> QED BY <1>10, <1>11, <1>12 DEF Sigue

LEMMA SigueCompactarLimpiar ==
    ASSUME Buena, Datos, sano # "roto", CompactarLimpiar, NEW g \in Presentes
    PROVE  Sigue(g)
  <1>1. /\ UNCHANGED <<bloques, meta>> /\ op.fase = "pedido" /\ f0 \in DOMAIN meta
        /\ op'.fase = "mover" /\ f0' = f0
        /\ op'.buffer = [x \in 0 .. Tiene * BlockSize - 1 |-> bloques[FCB.inicio * BlockSize + x]]
    BY DEF CompactarLimpiar, Truncando, Pedido, EnFase, f0, Buena, Disco
  <1>2. g \in DOMAIN meta
    BY DEF Presentes
  <1>3. \A n : Contenido(g, n) = bloques[meta[g].inicio * BlockSize + n]
    BY <1>1, <1>2, EnReposoLemma
  <1>4. CASE g # f0
    <2>1. \A n : Contenido(g, n)' = bloques[meta[g].inicio * BlockSize + n]
      BY <1>1, <1>4 DEF Contenido
    <2> QED BY <1>3, <2>1 DEF Sigue
  <1>5. CASE g = f0
    <2>1. \A n : Contenido(g, n)' = op'.buffer[n]
      BY <1>1, <1>5 DEF Contenido
    <2>2. ASSUME NEW n \in Nat, n < TamDe(g)
          PROVE  op'.buffer[n] = bloques[meta[g].inicio * BlockSize + n]
      <3>1. n < Tiene * BlockSize
        BY <1>5, <2>2, AlcanceLemma DEF Tiene, FCB
      <3>2. Tiene * BlockSize \in Nat
        <4>1. Tiene \in Nat
          BY <1>1, <1>5, <1>2, EnReposoLemma DEF Tiene, FCB
        <4> QED BY <4>1, ProductoNat
      <3>3. n \in 0 .. Tiene * BlockSize - 1
        BY <3>1, <3>2
      <3> QED BY <1>1, <1>5, <3>3 DEF FCB
    <2> QED BY <1>3, <2>1, <2>2 DEF Sigue
  <1> QED BY <1>4, <1>5

LEMMA SigueCompactarBuscar ==
    ASSUME Buena, CompactarBuscar, NEW g
    PROVE  Sigue(g)
  <1>1. /\ UNCHANGED <<bloques, meta>> /\ op.fase = "mover" /\ op'.fase = "fcb" /\ f0' = f0
        /\ op'.buffer = op.buffer /\ op'.hueco = GetBit /\ op'.j = 0
    BY DEF CompactarBuscar, EnFase, f0, disco
  <1>2. GetBit \in Nat
    BY <1>1, HuecoLemma
  <1>3. op'.hueco .. op'.hueco + op'.j - 1 = {}
    BY <1>1, <1>2
  <1>4. CASE g = f0
    BY <1>1, <1>4 DEF Sigue, Contenido
  <1>5. CASE g # f0
    <2>1. \A n : Contenido(g, n) = bloques[meta[g].inicio * BlockSize + n]
      BY <1>1, <1>5 DEF Contenido
    <2>2. \A n : Contenido(g, n)' = bloques[meta[g].inicio * BlockSize + n]
      BY <1>1, <1>3, <1>5 DEF Contenido
    <2> QED BY <2>1, <2>2 DEF Sigue
  <1> QED BY <1>4, <1>5

\* The file whose metadata change keeps its blocks, and no other file is taken for it.
LEMMA SigueCompactarFCB ==
    ASSUME Buena, CompactarFCB, NEW x \in DOMAIN meta
    PROVE  Sigue(x)
  <1>1. PICK g \in EnInicio(op.contiguo + op.j) :
            /\ meta' = [meta EXCEPT ![g].inicio = op.hueco + op.j]
            /\ op' = [op EXCEPT !.j = @ + Ocupa(meta[g].tam)]
    BY DEF CompactarFCB
  <1>2. bloques' = bloques /\ op.fase = "fcb" /\ op.j < op.largo
    BY DEF CompactarFCB, EnFase
  <1>3. /\ g \in Quietos /\ meta[g].inicio = op.contiguo + op.j
        /\ op.j + Ocupa(meta[g].tam) <= op.largo /\ g \in DOMAIN meta /\ g # f0
        /\ Quietos = DOMAIN meta \ {f0}
    BY <1>2, CompactarFCBLemma, FcbLemma
  <1>4. Disco /\ Separados
    BY DEF Buena, Reparto
  <1>5. PICK n \in Nat : n = Ocupa(meta[g].tam) /\ n >= 1
    BY <1>3, <1>4, FCBLemma
  <1>6. PICK h \in Nat, c \in Nat : h = op.hueco /\ c = op.contiguo
    BY <1>2, FcbLemma
  <1>7. PICK l \in Nat, j \in Nat : l = op.largo /\ j = op.j
    BY <1>2, FcbLemma
  <1>8. h < c /\ j + n <= l
    BY <1>2, <1>3, <1>5, <1>6, <1>7, FcbLemma
  <1>9. /\ op'.fase = "fcb" /\ op'.orden = op.orden /\ op'.buffer = op.buffer
        /\ op'.hueco = h /\ op'.contiguo = c /\ op'.j = j + n /\ f0' = f0
    <2>1. PICK o, b : op = [fase |-> "fcb", orden |-> o, buffer |-> b, hueco |-> h,
                            contiguo |-> c, largo |-> l, j |-> j]
      BY <1>2, <1>6, <1>7 DEF Buena, Formas
    <2>2. op' = [fase |-> "fcb", orden |-> o, buffer |-> b, hueco |-> h,
                 contiguo |-> c, largo |-> l, j |-> j + n]
      BY <1>1, <1>5, <2>1
    <2> QED BY <2>1, <2>2 DEF f0
  <1>10. CASE x = f0
    BY <1>2, <1>9, <1>10 DEF Sigue, Contenido
  <1>11. CASE x = g
    <2>1. meta'[g].inicio = h + j /\ meta[g].inicio = c + j
      BY <1>1, <1>3, <1>4, <1>6, <1>7 DEF Disco, FCBs
    <2>2. h + j \in h .. h + (j + n) - 1 /\ (h + j) + c - h = c + j
      BY <1>5
    <2>3. c + j \notin h .. h + j - 1
      BY <1>8
    <2>4. \A m : Contenido(g, m) = bloques[(c + j) * BlockSize + m]
      BY <1>2, <1>3, <1>6, <1>7, <2>1, <2>3 DEF Contenido
    <2>5. \A m : Contenido(g, m)' = bloques[(c + j) * BlockSize + m]
      BY <1>2, <1>3, <1>9, <2>1, <2>2 DEF Contenido
    <2> QED BY <1>11, <2>4, <2>5 DEF Sigue
  <1>12. CASE x # f0 /\ x # g
    <2>1. meta'[x] = meta[x]
      BY <1>1, <1>12
    <2>2. x \in Quietos /\ meta[x].inicio \in Nat /\ meta[x].inicio \in Tramo(x)
      BY <1>3, <1>4, <1>12, FCBLemma
    <2>3. meta[x].inicio \in h .. h + j - 1 <=> meta[x].inicio \in h .. h + (j + n) - 1
      <3>1. CASE h <= meta[x].inicio /\ meta[x].inicio < h + j
        BY <2>2, <3>1
      <3>2. CASE ~ (h <= meta[x].inicio /\ meta[x].inicio < h + j)
        <4>1. meta[x].inicio \in bitmap /\ ~ (c <= meta[x].inicio /\ meta[x].inicio < c + j)
          BY <1>2, <1>6, <1>7, <2>2, <3>2, FcbLemma
        <4>2. ~ (h <= meta[x].inicio /\ meta[x].inicio < c)
          BY <1>2, <1>6, <2>2, <4>1, FcbLemma
        <4>3. meta[x].inicio \notin Tramo(g)
          BY <1>3, <1>4, <1>12, <2>2 DEF Separados
        <4>4. ~ (c + j <= meta[x].inicio /\ meta[x].inicio < c + j + n)
          BY <1>3, <1>4, <1>5, <1>6, <1>7, <2>2, <4>3, FCBLemma
        <4> QED BY <1>8, <2>2, <3>2, <4>1, <4>2, <4>4
      <3> QED BY <3>1, <3>2
    <2> QED BY <1>2, <1>6, <1>7, <1>9, <1>12, <2>1, <2>3 DEF Sigue, Contenido
  <1> QED BY <1>10, <1>11, <1>12

\* The blocks of the run get to where their metadata say.
LEMMA SigueCompactarCopiar ==
    ASSUME Buena, Datos, sano # "roto", CompactarCopiar, NEW x \in Presentes
    PROVE  Sigue(x)
  <1>1. /\ bloques' = Copiados(op.contiguo, op.hueco, op.largo)
        /\ meta' = meta /\ op.fase = "fcb" /\ op.j >= op.largo
        /\ op'.fase = "mover" /\ op'.buffer = op.buffer /\ f0' = f0
    BY DEF CompactarCopiar, EnFase, f0
  <1>2. PICK h \in Nat, c \in Nat : h = op.hueco /\ c = op.contiguo
    BY <1>1, FcbLemma
  <1>3. PICK l \in Nat : l = op.largo /\ l = op.j
    BY <1>1, FcbLemma
  <1>4. h < c /\ l >= 1 /\ c + l <= BlockCount
    BY <1>1, <1>2, <1>3, FcbLemma
  <1>5. CASE x = f0
    BY <1>1, <1>5 DEF Sigue, Contenido
  <1>6. CASE x # f0
    <2>1. x \in Quietos /\ x \in DOMAIN meta /\ EnBloques(x) /\ EnBloques(x)'
      BY <1>1, <1>6, FcbLemma DEF Presentes, EnBloques
    <2>2. PICK i \in Nat, k \in Nat :
              /\ i = meta[x].inicio /\ k = Ocupa(meta[x].tam) /\ k >= 1
              /\ \A b \in Tramo(x) : b \in Int
              /\ \A b \in Int : b \in Tramo(x) <=> i <= b /\ b < i + k
      <3>1. Disco
        BY DEF Buena
      <3> QED BY <2>1, <3>1, FCBLemma
    <2>3. Inicio(x) \in Nat /\ Inicio(x) + k <= BlockCount
      BY <2>1, <2>2, LugarLemma
    <2>4. \A n : Contenido(x, n) = bloques[Inicio(x) * BlockSize + n]
      BY <2>1, ContenidoEnBloques
    <2>5. \A n : Contenido(x, n)' = bloques'[i * BlockSize + n]
      BY <1>1, <1>6, <2>2 DEF Contenido
    <2>6. \A u \in Celda : bloques'[u] = IF u \in h * BlockSize .. (h + l) * BlockSize - 1
                                         THEN bloques[u + (c - h) * BlockSize] ELSE bloques[u]
      BY <1>1, <1>2, <1>3 DEF Copiados, CeldasDe
    <2>7. ASSUME NEW n \in Nat, n < TamDe(x)
          PROVE  bloques'[i * BlockSize + n] = bloques[Inicio(x) * BlockSize + n]
      <3>1. n < k * BlockSize
        BY <2>2, <2>7, AlcanceLemma
      <3>2. CASE h <= i /\ i < h + l
        <4>1. Inicio(x) = i + c - h
          BY <1>1, <1>2, <1>3, <2>2, <3>2 DEF Inicio
        <4>2. i + k <= h + l
          <5>1. i + k - 1 \in Tramo(x)
            BY <2>2
          <5>2. i + k - 1 < h + l
            BY <1>1, <1>2, <1>3, <2>1, <2>2, <3>2, <5>1, FcbLemma
          <5> QED BY <5>2
        <4>3. i * BlockSize + n \in Celda
          <5>1. i + k <= BlockCount
            BY <1>4, <4>2
          <5> QED BY <3>1, <5>1, CeldaLemma
        <4>4. h * BlockSize <= i * BlockSize + n /\ i * BlockSize + n < (h + l) * BlockSize
          <5>1. \A a, b \in Nat : a <= b => a * BlockSize <= b * BlockSize
            BY Z3
          <5>2. h * BlockSize <= i * BlockSize
            BY <3>2, <5>1
          <5>3. h * BlockSize \in Nat /\ i * BlockSize \in Nat
            BY ProductoNat
          <5>4. i * BlockSize + n < (h + l) * BlockSize
            BY <3>1, <4>2, CeldasAntes
          <5> QED BY <5>2, <5>3, <5>4
        <4>5. i * BlockSize + n + (c - h) * BlockSize = (i + c - h) * BlockSize + n
          BY Z3
        <4>6. h * BlockSize \in Nat /\ (h + l) * BlockSize \in Nat /\ i * BlockSize + n \in Nat
          BY <4>3, ProductoNat DEF Celda
        <4>7. i * BlockSize + n \in h * BlockSize .. (h + l) * BlockSize - 1
          BY <4>4, <4>6
        <4> QED BY <2>6, <4>1, <4>3, <4>5, <4>7
      <3>3. CASE ~ (h <= i /\ i < h + l)
        <4>1. Inicio(x) = i
          BY <1>1, <1>2, <1>3, <2>2, <3>3 DEF Inicio
        <4>2. \A b \in Tramo(x) : b \in bitmap
          BY <1>1, <1>2, <1>3, <2>1, <2>2, <3>3, FcbLemma
        <4>3. \A b \in Tramo(x) : ~ (h <= b /\ b < c)
          BY <1>1, <1>2, <2>2, <4>2, FcbLemma
        <4>4. i + k <= h \/ h + l <= i
          <5>1. i \in Tramo(x)
            BY <2>2
          <5>2. h \in Tramo(x) => FALSE
            BY <1>4, <4>3
          <5> QED BY <2>2, <3>3, <5>1, <5>2
        <4>5. i * BlockSize + n \in Celda
          BY <2>3, <3>1, <4>1, CeldaLemma
        <4>6. i * BlockSize + n \notin h * BlockSize .. (h + l) * BlockSize - 1
          <5>1. ~ (h * BlockSize <= i * BlockSize + n /\ i * BlockSize + n < (h + l) * BlockSize)
            BY <3>1, <4>4, CeldaAjena
          <5>2. h * BlockSize \in Nat /\ (h + l) * BlockSize \in Nat
            BY ProductoNat
          <5> QED BY <4>5, <5>1, <5>2 DEF Celda
        <4> QED BY <2>6, <4>1, <4>5, <4>6
      <3> QED BY <3>2, <3>3
    <2> QED BY <2>4, <2>5, <2>7 DEF Sigue
  <1> QED BY <1>5, <1>6

\* The file leaves the buffer, after all the others.
LEMMA SigueCompactarFin ==
    ASSUME Buena, Buena', Datos, sano # "roto", CompactarFin, NEW g \in Presentes
    PROVE  Sigue(g)
  <1>1. /\ op.fase = "mover" /\ TrasHueco = {} /\ op'.fase = "pedido" /\ f0' = f0
        /\ meta' = [meta EXCEPT ![f0].inicio = GetBit]
        /\ bloques' = [c \in Celda |-> IF c >= GetBit * BlockSize
                                       THEN EnBuffer(c - GetBit * BlockSize) ELSE bloques[c]]
    BY DEF CompactarFin, EnFase, f0
  <1>2. PICK h \in Nat : h = GetBit
    BY <1>1, HuecoLemma
  <1>3. h * BlockSize \in Nat
    BY ProductoNat
  <1>4. Disco /\ f0 \in DOMAIN meta
    BY <1>1, HuecoLemma DEF Buena
  <1>5. g \in DOMAIN meta
    BY DEF Presentes
  <1>6. PICK i \in Nat, k \in Nat : i = meta[g].inicio /\ k = Ocupa(meta[g].tam) /\ k >= 1
    BY <1>4, <1>5, FCBLemma
  <1>7. CASE g # f0
    <2>1. g \in Quietos /\ EnBloques(g) /\ Inicio(g) = i /\ meta'[g] = meta[g]
      BY <1>1, <1>5, <1>6, <1>7 DEF Quietos, EnBloques, Inicio
    <2>2. \A n : Contenido(g, n) = bloques[i * BlockSize + n]
      BY <2>1, ContenidoEnBloques
    <2>3. \A n : Contenido(g, n)' = bloques'[i * BlockSize + n]
      BY <1>1, <1>6, <2>1 DEF Contenido
    <2>4. i + k <= h
      <3>1. i + k - 1 \in Tramo(g)
        BY <1>4, <1>5, <1>6, FCBLemma
      <3>2. i + k - 1 \in bitmap
        BY <1>1, <2>1, <3>1 DEF Buena, Reparto, Marcados
      <3>3. ~ (i + k - 1 > h)
        BY <1>1, <1>2, <3>2 DEF TrasHueco
      <3>4. i + k - 1 # h
        BY <1>1, <1>2, <3>2, HuecoLemma
      <3> QED BY <3>3, <3>4
    <2>5. ASSUME NEW n \in Nat, n < TamDe(g)
          PROVE  bloques'[i * BlockSize + n] = bloques[i * BlockSize + n]
      <3>1. n < k * BlockSize
        BY <1>6, <2>5, AlcanceLemma
      <3>2. i + k <= BlockCount
        BY <1>6, <2>1, LugarLemma
      <3>3. i * BlockSize + n \in Celda
        BY <3>1, <3>2, CeldaLemma
      <3>4. i * BlockSize + n \in Nat /\ i * BlockSize + n < h * BlockSize
        BY <2>4, <3>1, CeldasAntes
      <3>5. ~ (i * BlockSize + n >= h * BlockSize)
        BY <1>3, <3>4
      <3> QED BY <1>1, <1>2, <3>3, <3>5
    <2> QED BY <2>2, <2>3, <2>5 DEF Sigue
  <1>8. CASE g = f0
    <2>1. \A n : Contenido(g, n) = op.buffer[n]
      BY <1>1, <1>8, ContenidoEnBuffer
    <2>2. meta'[g].inicio = h /\ meta'[g].tam = meta[g].tam /\ g \in DOMAIN meta'
      BY <1>1, <1>2, <1>4, <1>8 DEF Disco, FCBs
    <2>3. \A n : Contenido(g, n)' = bloques'[h * BlockSize + n]
      BY <1>1, <2>2 DEF Contenido
    <2>4. h + k <= BlockCount
      <3>1. Tramo(g)' \subseteq bitmap' /\ bitmap' \subseteq Bloque
        BY <1>1, <2>2 DEF Buena, Reparto, Marcados, Disco, Quietos
      <3>2. Tramo(g)' = h .. h + k - 1
        BY <1>6, <2>2 DEF Tramo
      <3>3. h + k - 1 \in Tramo(g)'
        BY <1>6, <3>2
      <3> QED BY <3>1, <3>3 DEF Bloque
    <2>5. ASSUME NEW n \in Nat, n < TamDe(g)
          PROVE  bloques'[h * BlockSize + n] = op.buffer[n]
      <3>1. n < k * BlockSize
        BY <1>6, <2>5, AlcanceLemma
      <3>2. h * BlockSize + n \in Celda
        BY <2>4, <3>1, CeldaLemma
      <3>3. bloques'[h * BlockSize + n] = EnBuffer((h * BlockSize + n) - h * BlockSize)
        BY <1>1, <1>2, <1>3, <3>2
      <3>4. (h * BlockSize + n) - h * BlockSize = n
        BY <1>3
      <3>5. n \in DOMAIN op.buffer
        <4>1. DOMAIN op.buffer = 0 .. Tiene * BlockSize - 1 /\ Tiene = k
          BY <1>1, <1>6, <1>8 DEF Datos, Tiene, FCB
        <4>2. k * BlockSize \in Nat
          BY ProductoNat
        <4> QED BY <3>1, <4>1, <4>2
      <3> QED BY <3>3, <3>4, <3>5 DEF EnBuffer
    <2> QED BY <2>1, <2>3, <2>5 DEF Sigue
  <1> QED BY <1>7, <1>8

\* A write changes one position of one file.
LEMMA EscribirLemma ==
    ASSUME Buena, Datos, sano # "roto", Escribir
    PROVE  /\ op.fase = "pedido" /\ op' = Libre /\ UNCHANGED <<meta, sano>>
           /\ \E f \in Presentes : \E p \in Nat :
                /\ f = f0 /\ f \in DOMAIN meta /\ f \in Archivos /\ p < TamDe(f) /\ p < meta[f].tam
                /\ escrito' = [escrito EXCEPT ![f] = @ \cup {p}]
                /\ Contenido(f, p)' = <<f, p>>
                /\ \A g \in Presentes : \A n \in Nat :
                     n < TamDe(g) /\ ~ (g = f /\ n = p) => Contenido(g, n)' = Contenido(g, n)
  <1>1. /\ op.fase = "pedido" /\ op' = Libre /\ op'.fase = "libre"
        /\ UNCHANGED <<meta, sano, dicc>> /\ f0 \in DOMAIN meta
        /\ op.orden.que = "escribir" /\ FCB.tam >= op.orden.ptr + op.orden.tam
        /\ bloques' = [bloques EXCEPT ![FCB.inicio * BlockSize + op.orden.ptr] = <<f0, op.orden.ptr>>]
        /\ escrito' = [escrito EXCEPT ![f0] = @ \cup {op.orden.ptr}]
    BY DEF Escribir, Pedido, EnFase, Alcanza, Buena, Disco, Libre
  <1>2. op.orden \in Orden /\ op.orden.ptr \in Nat /\ op.orden.tam = 1
    <2>1. op.orden \in Orden
      BY <1>1 DEF Buena, Formas
    <2>2. op.orden.ptr \in Nat
      BY <2>1, OrdenLemma
    <2>3. op.orden \in [que : {"escribir", "leer"}, f : Archivos, tam : {1}, ptr : {0, BlockSize}]
      BY <1>1, <2>1 DEF Orden
    <2>4. op.orden.tam = 1
      BY ONLY <2>3
    <2> QED BY <2>1, <2>2, <2>4
  <1>3. PICK f \in DOMAIN meta : f = f0
    BY <1>1
  <1>4. PICK p \in Nat : p = op.orden.ptr
    BY <1>2
  <1>5. f0 \in Presentes /\ TamDe(f0) = FCB.tam /\ FCB.tam \in Nat /\ p < FCB.tam
    <2>1. FCB.tam \in Nat
      BY <1>1, FCB0Lemma DEF Buena
    <2>2. p < FCB.tam
      BY <1>1, <1>2, <1>4, <2>1
    <2> QED BY <1>1, <2>1, <2>2 DEF Presentes, TamDe, FCB
  <1>6. PICK a \in Nat, m \in Nat :
            a = meta[f].inicio /\ m = Ocupa(meta[f].tam) /\ a + m <= BlockCount
    BY <1>1, EnReposoLemma
  <1>7. p < m * BlockSize
    BY <1>3, <1>5, <1>6, AlcanceLemma
  <1>8. a * BlockSize + p \in Celda /\ a * BlockSize \in Nat
    BY <1>6, <1>7, CeldaLemma, ProductoNat
  <1>9. bloques' = [bloques EXCEPT ![a * BlockSize + p] = <<f, p>>]
    BY <1>1, <1>3, <1>4, <1>6 DEF FCB
  <1>10. Contenido(f, p)' = <<f, p>>
    <2>1. Contenido(f, p)' = bloques'[a * BlockSize + p]
      BY <1>1, <1>6 DEF Contenido
    <2>2. DOMAIN bloques = Celda
      BY DEF Datos
    <2> QED BY <1>8, <1>9, <2>1, <2>2
  <1>11. ASSUME NEW g \in Presentes, NEW n \in Nat, n < TamDe(g), ~ (g = f /\ n = p)
         PROVE  Contenido(g, n)' = Contenido(g, n)
    <2>1. g \in DOMAIN meta
      BY DEF Presentes
    <2>2. PICK i \in Nat, k \in Nat : i = meta[g].inicio /\ k = Ocupa(meta[g].tam)
      BY <1>1, <2>1, EnReposoLemma
    <2>3. Contenido(g, n) = bloques[i * BlockSize + n]
      BY <1>1, <2>1, <2>2, EnReposoLemma
    <2>4. Contenido(g, n)' = bloques'[i * BlockSize + n]
      BY <1>1, <2>2 DEF Contenido
    <2>5. i * BlockSize + n # a * BlockSize + p
      <3>1. CASE g = f
        <4>1. i = a /\ n # p
          BY <1>6, <1>11, <2>2, <3>1
        <4> QED BY <1>8, <4>1
      <3>2. CASE g # f
        <4>1. i + k <= a \/ a + m <= i
          BY <1>1, <1>6, <2>1, <2>2, <3>2, DosArchivos
        <4>2. n < k * BlockSize
          BY <1>11, <2>2, AlcanceLemma
        <4>3. ~ (a * BlockSize <= i * BlockSize + n /\ i * BlockSize + n < (a + m) * BlockSize)
          BY <4>1, <4>2, CeldaAjena
        <4>4. (a + m) * BlockSize = a * BlockSize + m * BlockSize /\ m * BlockSize \in Nat
          BY Z3
        <4>5. a * BlockSize <= a * BlockSize + p /\ a * BlockSize + p < (a + m) * BlockSize
          BY <1>7, <1>8, <4>4
        <4> QED BY <4>3, <4>5
      <3> QED BY <3>1, <3>2
    <2> QED BY <1>9, <2>3, <2>4, <2>5
  <1>12. f \in Presentes /\ f \in Archivos /\ p < TamDe(f) /\ p < meta[f].tam
    BY <1>3, <1>5 DEF FCB, Buena, Disco
  <1>13. escrito' = [escrito EXCEPT ![f] = @ \cup {p}]
    BY <1>1, <1>3, <1>4
  <1>14. \A g \in Presentes : \A n \in Nat :
            n < TamDe(g) /\ ~ (g = f /\ n = p) => Contenido(g, n)' = Contenido(g, n)
    BY <1>11
  <1>15. op.fase = "pedido" /\ op' = Libre /\ UNCHANGED <<meta, sano>>
    BY <1>1
  <1> QED BY ONLY <1>3, <1>10, <1>12, <1>13, <1>14, <1>15, f \in DOMAIN meta, p \in Nat

-----------------------------------------------------------------------------
(* What each step is for who uses the files.                               *)

Igual(g) == TamDe(g)' = TamDe(g) /\ Sigue(g)

Nada == Presentes' = Presentes /\ \A g \in Presentes : Igual(g)

Crea == \E f \in Archivos \ Presentes :
    /\ Presentes' = Presentes \cup {f} /\ TamDe(f)' = 0
    /\ \A g \in Presentes : Igual(g)

Borra == \E f \in Presentes :
    /\ Presentes' = Presentes \ {f}
    /\ \A g \in Presentes \ {f} : Igual(g)

Trunca == \E f \in Presentes : \E t \in Tamanos :
    /\ Presentes' = Presentes /\ TamDe(f) = meta[f].tam /\ TamDe(f)' = t /\ Sigue(f)
    /\ \A g \in Presentes \ {f} : Igual(g)

Escribe == \E f \in Presentes : \E p \in Nat :
    /\ Presentes' = Presentes /\ p < TamDe(f) /\ Contenido(f, p)' = <<f, p>>
    /\ \A g \in Presentes : TamDe(g)' = TamDe(g)
    /\ \A g \in Presentes : \A n \in Nat :
         n < TamDe(g) /\ ~ (g = f /\ n = p) => Contenido(g, n)' = Contenido(g, n)

Efecto == Nada \/ Crea \/ Borra \/ Trunca \/ (Escribir /\ Escribe)

\* A step after which the promise still stands.
Firme == Buena /\ Datos /\ sano # "roto" /\ sano' # "roto"

LEMMA PresentesLemma ==
    ASSUME Firme
    PROVE  /\ Presentes = DOMAIN meta \ (IF op.fase \in {"cargar", "quitar"} THEN {f0} ELSE {})
           /\ Presentes' = DOMAIN meta' \ (IF op'.fase \in {"cargar", "quitar"} THEN {f0'} ELSE {})
           /\ Presentes \subseteq Archivos /\ Presentes \subseteq DOMAIN meta
  BY DEF Firme, Presentes, Buena, Disco

LEMMA NadaQuieto ==
    ASSUME Firme, UNCHANGED <<bloques, meta>>,
           op.fase \in {"libre", "pedido", "abrir", "leido"} \/ (op.fase = "tam" /\ Tiene < Pide),
           op'.fase \in {"libre", "pedido", "abrir", "leido"}
    PROVE  Nada
  <1>1. Presentes = DOMAIN meta /\ Presentes' = DOMAIN meta
    BY PresentesLemma
  <1>2. ASSUME NEW g \in Presentes
        PROVE  Igual(g)
    <2>1. Sigue(g)
      BY SigueQuieto
    <2>2. ~ (op.fase = "tam" /\ g = f0 /\ Pide < Tiene)
      <3>1. CASE op.fase = "tam"
        <4>1. Tiene < Pide /\ f0 \in DOMAIN meta /\ Disco /\ Formas
          BY <3>1 DEF Firme, Buena, Reparto, Truncado
        <4>2. Tiene \in Nat /\ Pide \in Nat
          BY <3>1, <4>1, FCB0Lemma, F0Lemma
        <4> QED BY <4>1, <4>2
      <3> QED BY <3>1
    <2>3. TamDe(g) = meta[g].tam
      BY <2>2 DEF TamDe
    <2>4. TamDe(g)' = meta[g].tam
      BY <1>1 DEF TamDe
    <2> QED BY <2>1, <2>3, <2>4 DEF Igual
  <1> QED BY <1>1, <1>2 DEF Nada

LEMMA EfectoQuieto ==
    ASSUME Firme, \/ Recibir \/ Descartar \/ Leer \/ EntregarLeido \/ CrearReservar \/ Reiniciar
                  \/ TruncarSinEspacio \/ FueraDeArchivo \/ Cortar
    PROVE  Nada
  <1>1. UNCHANGED <<bloques, meta>> /\ op'.fase \in {"libre", "pedido", "abrir", "leido"}
    <2>1. CASE Recibir \/ Leer \/ CrearReservar
      BY <2>1 DEF Recibir, Leer, CrearReservar, disco
    <2>2. CASE Reiniciar
      BY <2>2 DEF Reiniciar, Firme, Buena, Formas, disco
    <2> QED BY <2>1, <2>2 DEF Descartar, EntregarLeido, TruncarSinEspacio, FueraDeArchivo, Cortar,
                              Salir, Libre, disco
  <1>2. CASE Cortar
    <2>1. Deja # "roto"
      BY <1>2 DEF Firme, Cortar, Empeora
    <2>2. op.fase \in {"libre", "pedido", "abrir", "leido"} \/ (op.fase = "tam" /\ Tiene < Pide)
      BY <2>1 DEF Deja, Firme, Buena, Formas
    <2> QED BY <1>1, <2>2, NadaQuieto
  <1>3. CASE op.fase \in {"libre", "pedido", "leido"}
    BY <1>1, <1>3, NadaQuieto
  <1> QED BY <1>2, <1>3 DEF Recibir, Descartar, Leer, EntregarLeido, CrearReservar, Reiniciar,
        TruncarSinEspacio, FueraDeArchivo, Truncando, Pedido, EnFase, Firme, Buena, Formas

LEMMA EfectoCrearAbrir ==
    ASSUME Firme, CrearAbrir
    PROVE  Nada
  <1>1. /\ meta' = ConFCB([inicio |-> 0, tam |-> 0]) /\ bloques' = bloques
        /\ op.fase = "abrir" /\ op'.fase = "cargar" /\ f0' = f0
    <2>1. op = [fase |-> "abrir", orden |-> op.orden, bloque |-> op.bloque]
      BY DEF CrearAbrir, EnFase, Firme, Buena, Formas
    <2>2. op' = [fase |-> "cargar", orden |-> op.orden, bloque |-> op.bloque]
      BY <2>1 DEF CrearAbrir
    <2> QED BY <2>1, <2>2 DEF CrearAbrir, f0
  <1>2. f0 \notin DOMAIN meta
    BY <1>1 DEF Firme, Buena, Reparto, Creando
  <1>3. DOMAIN meta' = DOMAIN meta \cup {f0} /\ \A g \in DOMAIN meta : meta'[g] = meta[g]
    BY <1>1, <1>2 DEF ConFCB
  <1>4. Presentes = DOMAIN meta /\ Presentes' = DOMAIN meta
    BY <1>1, <1>2, <1>3, PresentesLemma
  <1>5. ASSUME NEW g \in Presentes
        PROVE  Igual(g)
    <2>1. Sigue(g)
      BY <1>1, <1>3, <1>4, SigueQuieto
    <2>2. TamDe(g)' = TamDe(g)
      BY <1>1, <1>3, <1>4 DEF TamDe
    <2> QED BY <2>1, <2>2 DEF Igual
  <1> QED BY <1>4, <1>5 DEF Nada

LEMMA EfectoCrearCargar ==
    ASSUME Firme, CrearCargar
    PROVE  Crea
  <1>1. /\ meta' = ConFCB([inicio |-> op.bloque, tam |-> 0]) /\ bloques' = bloques
        /\ op.fase = "cargar" /\ op'.fase = "libre"
    BY DEF CrearCargar, EnFase, Libre
  <1>2. f0 \in DOMAIN meta
    BY <1>1 DEF Firme, Buena, Reparto, Creando
  <1>3. PICK f \in DOMAIN meta : f = f0
    BY <1>2
  <1>4. /\ DOMAIN meta' = DOMAIN meta /\ meta'[f].tam = 0
        /\ \A g \in DOMAIN meta \ {f} : meta'[g] = meta[g]
    BY <1>1, <1>3 DEF ConFCB
  <1>5. Presentes = DOMAIN meta \ {f} /\ Presentes' = DOMAIN meta
    BY <1>1, <1>3, <1>4, PresentesLemma
  <1>6. ASSUME NEW g \in Presentes
        PROVE  Igual(g)
    <2>1. Sigue(g)
      BY <1>1, <1>4, <1>5, SigueQuieto
    <2>2. TamDe(g)' = TamDe(g)
      BY <1>1, <1>4, <1>5 DEF TamDe
    <2> QED BY <2>1, <2>2 DEF Igual
  <1>7. TamDe(f)' = 0
    BY <1>1, <1>4, <1>5 DEF TamDe
  <1>8. f \in Archivos \ Presentes /\ Presentes' = Presentes \cup {f}
    BY <1>5 DEF Firme, Buena, Disco
  <1> QED BY <1>6, <1>7, <1>8 DEF Crea

LEMMA EfectoBorrarLiberar ==
    ASSUME Firme, BorrarLiberar
    PROVE  Borra
  <1>1. /\ UNCHANGED meta /\ op.fase = "pedido" /\ f0 \in DOMAIN meta
        /\ op'.fase = "quitar" /\ f0' = f0
    <2>1. vivo /\ op.fase = "pedido" /\ f0 \in dicc /\ op' = [op EXCEPT !.fase = "quitar"]
      BY DEF BorrarLiberar, Pedido, EnFase
    <2>2. op = [fase |-> "pedido", orden |-> op.orden]
      BY <2>1 DEF Firme, Buena, Formas
    <2>3. op' = [fase |-> "quitar", orden |-> op.orden]
      BY <2>1, <2>2
    <2> QED BY <2>1, <2>2, <2>3 DEF BorrarLiberar, Firme, Buena, Disco, f0
  <1>2. PICK f \in DOMAIN meta : f = f0
    BY <1>1
  <1>3. Presentes = DOMAIN meta /\ Presentes' = DOMAIN meta \ {f}
    BY <1>1, <1>2, PresentesLemma
  <1>4. ASSUME NEW g \in Presentes \ {f}
        PROVE  Igual(g)
    <2>1. Sigue(g)
      BY <1>2, SigueBorrarLiberar DEF Firme
    <2>2. TamDe(g)' = TamDe(g)
      BY <1>1, <1>3 DEF TamDe
    <2> QED BY <2>1, <2>2 DEF Igual
  <1> QED BY <1>3, <1>4 DEF Borra

LEMMA EfectoBorrarQuitar ==
    ASSUME Firme, BorrarQuitar
    PROVE  Nada
  <1>1. /\ meta' = Restrict(meta, DOMAIN meta \ {f0}) /\ bloques' = bloques
        /\ op.fase = "quitar" /\ op'.fase = "libre"
    BY DEF BorrarQuitar, EnFase, Libre
  <1>2. DOMAIN meta' = DOMAIN meta \ {f0} /\ \A g \in DOMAIN meta \ {f0} : meta'[g] = meta[g]
    BY <1>1 DEF Restrict
  <1>3. Presentes = DOMAIN meta \ {f0} /\ Presentes' = DOMAIN meta \ {f0}
    BY <1>1, <1>2, PresentesLemma
  <1>4. ASSUME NEW g \in Presentes
        PROVE  Igual(g)
    <2>1. Sigue(g)
      BY <1>1, <1>2, <1>3, SigueQuieto
    <2>2. TamDe(g)' = TamDe(g)
      BY <1>1, <1>2, <1>3 DEF TamDe
    <2> QED BY <2>1, <2>2 DEF Igual
  <1> QED BY <1>3, <1>4 DEF Nada

LEMMA TamanoLemma ==
    ASSUME Firme, op.fase # "libre", op.orden.que = "truncar"
    PROVE  op.orden.tam \in Tamanos
  <1>1. op.orden \in Orden
    BY DEF Firme, Buena, Formas
  <1>2. op.orden \in [que : {"truncar"}, f : Archivos, tam : Tamanos, ptr : {0}]
    BY <1>1 DEF Orden
  <1> QED BY ONLY <1>2

LEMMA EfectoTruncarAchicar ==
    ASSUME Firme, TruncarAchicar
    PROVE  Trunca
  <1>1. /\ UNCHANGED meta /\ op.fase = "pedido" /\ f0 \in DOMAIN meta /\ Pide < Tiene
        /\ op'.fase = "tam" /\ op'.orden = op.orden /\ op.orden.que = "truncar"
    <2>1. /\ vivo /\ op.fase = "pedido" /\ f0 \in dicc /\ op' = [op EXCEPT !.fase = "tam"]
          /\ op.orden.que = "truncar"
      BY DEF TruncarAchicar, Truncando, Pedido, EnFase
    <2>2. op = [fase |-> "pedido", orden |-> op.orden]
      BY <2>1 DEF Firme, Buena, Formas
    <2> QED BY <2>1, <2>2 DEF TruncarAchicar, Firme, Buena, Disco
  <1>2. f0' = f0 /\ Pide' = Pide /\ Tiene' = Tiene
    BY <1>1 DEF f0, Pide, Tiene, FCB
  <1>3. PICK f \in DOMAIN meta : f = f0
    BY <1>1
  <1>4. Presentes = DOMAIN meta /\ Presentes' = DOMAIN meta
    BY <1>1, PresentesLemma
  <1>5. TamDe(f)' = op.orden.tam /\ TamDe(f) = meta[f].tam
    BY <1>1, <1>2, <1>3, <1>4 DEF TamDe
  <1>6. op.orden.tam \in Tamanos
    BY <1>1, TamanoLemma
  <1>7. \A g \in Presentes : Sigue(g)
    BY SigueTruncarAchicar DEF Firme
  <1>8. ASSUME NEW g \in Presentes \ {f}
        PROVE  TamDe(g)' = TamDe(g)
    BY <1>1, <1>2, <1>3, <1>4 DEF TamDe
  <1> QED BY <1>3, <1>4, <1>5, <1>6, <1>7, <1>8 DEF Trunca, Igual

LEMMA EfectoTruncarCrecer ==
    ASSUME Firme, TruncarCrecer
    PROVE  Nada
  <1>1. /\ UNCHANGED <<bloques, meta>> /\ op.fase = "pedido" /\ f0 \in DOMAIN meta /\ Tiene < Pide
        /\ op'.fase = "tam" /\ op'.orden = op.orden
    <2>1. vivo /\ op.fase = "pedido" /\ f0 \in dicc /\ op' = [op EXCEPT !.fase = "tam"]
      BY DEF TruncarCrecer, Truncando, Pedido, EnFase
    <2>2. op = [fase |-> "pedido", orden |-> op.orden]
      BY <2>1 DEF Firme, Buena, Formas
    <2> QED BY <2>1, <2>2 DEF TruncarCrecer, Truncando, Firme, Buena, Disco
  <1>2. f0' = f0 /\ Pide' = Pide /\ Tiene' = Tiene
    BY <1>1 DEF f0, Pide, Tiene, FCB
  <1>3. Tiene \in Nat /\ Pide \in Nat
    BY <1>1, FCB0Lemma, F0Lemma DEF Firme, Buena
  <1>4. Presentes = DOMAIN meta /\ Presentes' = DOMAIN meta
    BY <1>1, PresentesLemma
  <1>5. ~ (Pide < Tiene)
    BY <1>1, <1>3
  <1>6. ASSUME NEW g \in Presentes
        PROVE  Igual(g)
    <2>1. Sigue(g)
      BY <1>1, SigueQuieto
    <2>2. TamDe(g)' = TamDe(g)
      BY <1>1, <1>2, <1>4, <1>5 DEF TamDe
    <2> QED BY <2>1, <2>2 DEF Igual
  <1> QED BY <1>4, <1>6 DEF Nada

LEMMA EfectoTruncarTam ==
    ASSUME Firme, TruncarTam
    PROVE  Nada \/ Trunca
  <1>1. /\ meta' = [meta EXCEPT ![f0].tam = op.orden.tam] /\ bloques' = bloques
        /\ op'.fase = "libre"
        /\ op.fase = "tam" \/ (op.fase = "pedido" /\ f0 \in dicc /\ op.orden.que = "truncar")
    BY DEF TruncarTam, Truncando, Pedido, EnFase, Libre
  <1>2. f0 \in DOMAIN meta
    <2>1. vivo
      BY <1>1 DEF Firme, Buena, Formas
    <2> QED BY <1>1, <2>1 DEF Firme, Buena, Disco, Reparto, Truncado
  <1>3. PICK f \in DOMAIN meta : f = f0
    BY <1>2
  <1>4. meta \in [DOMAIN meta -> FCBs]
    BY DEF Firme, Buena, Disco
  <1>5. /\ DOMAIN meta' = DOMAIN meta /\ meta'[f].tam = op.orden.tam
        /\ meta'[f].inicio = meta[f].inicio
        /\ \A g \in DOMAIN meta \ {f} : meta'[g] = meta[g]
    BY <1>1, <1>3, <1>4 DEF FCBs
  <1>6. Presentes = DOMAIN meta /\ Presentes' = DOMAIN meta
    BY <1>1, <1>5, PresentesLemma
  <1>7. ASSUME NEW g \in Presentes
        PROVE  Sigue(g)
    <2>1. meta'[g].inicio = meta[g].inicio
      BY <1>5, <1>6
    <2> QED BY <1>1, <2>1, SigueQuieto
  <1>8. \A g \in Presentes : TamDe(g)' = meta'[g].tam
    BY <1>1, <1>6 DEF TamDe
  <1>9. \A g \in Presentes \ {f} : TamDe(g) = meta[g].tam
    BY <1>3 DEF TamDe
  <1>10. CASE op.fase = "tam" /\ Pide < Tiene
    <2>1. TamDe(f) = op.orden.tam
      BY <1>3, <1>6, <1>10 DEF TamDe
    <2> QED BY <1>5, <1>6, <1>7, <1>8, <1>9, <2>1 DEF Nada, Igual
  <1>11. CASE op.orden.que = "truncar" /\ ~ (op.fase = "tam" /\ Pide < Tiene)
    <2>1. op.orden.tam \in Tamanos
      BY <1>1, <1>11, TamanoLemma
    <2>2. TamDe(f)' = op.orden.tam /\ f \in Presentes /\ TamDe(f) = meta[f].tam
      BY <1>5, <1>6, <1>8, <1>11 DEF TamDe
    <2>3. \A g \in Presentes \ {f} : Igual(g)
      BY <1>5, <1>6, <1>7, <1>8, <1>9 DEF Igual
    <2> QED BY <1>6, <1>7, <2>1, <2>2, <2>3 DEF Trunca
  <1>12. op.fase = "tam" => op.orden.que = "truncar"
    BY DEF Firme, Buena, Reparto, Truncado
  <1> QED BY <1>1, <1>10, <1>11, <1>12

LEMMA EfectoCompactar ==
    ASSUME Firme, Buena',
           \/ CompactarLimpiar \/ CompactarBuscar \/ CompactarFCB \/ CompactarCopiar \/ CompactarFin
    PROVE  Nada
  <1>1. /\ op.fase \in {"pedido", "mover", "fcb"} /\ op'.fase \in {"pedido", "mover", "fcb"}
        /\ DOMAIN meta' = DOMAIN meta
        /\ \A g \in DOMAIN meta : meta'[g].tam = meta[g].tam
    <2>1. meta \in [DOMAIN meta -> FCBs]
      BY DEF Firme, Buena, Disco
    <2>2. CASE CompactarLimpiar \/ CompactarBuscar \/ CompactarCopiar
      BY <2>2 DEF CompactarLimpiar, CompactarBuscar, CompactarCopiar, Truncando, Pedido, EnFase, disco
    <2>3. CASE CompactarFin
      BY <2>1, <2>3 DEF CompactarFin, EnFase, FCBs
    <2>4. CASE CompactarFCB
      <3>1. op.fase = "fcb"
        BY <2>4 DEF CompactarFCB, EnFase
      <3>2. PICK g \in EnInicio(op.contiguo + op.j) :
                /\ meta' = [meta EXCEPT ![g].inicio = op.hueco + op.j]
                /\ op' = [op EXCEPT !.j = @ + Ocupa(meta[g].tam)]
        BY <2>4 DEF CompactarFCB
      <3>3. op'.fase = "fcb"
        <4>1. PICK o, b, h, c, l, j :
                  op = [fase |-> "fcb", orden |-> o, buffer |-> b, hueco |-> h,
                        contiguo |-> c, largo |-> l, j |-> j]
          BY <3>1 DEF Firme, Buena, Formas
        <4> QED BY <3>2, <4>1
      <3> QED BY <2>1, <3>1, <3>2, <3>3 DEF FCBs
    <2> QED BY <2>2, <2>3, <2>4
  <1>2. Presentes = DOMAIN meta /\ Presentes' = DOMAIN meta
    BY <1>1, PresentesLemma
  <1>3. \A g \in Presentes : TamDe(g) = meta[g].tam
    BY <1>1 DEF TamDe
  <1>4. \A g \in Presentes : TamDe(g)' = meta[g].tam
    BY <1>1, <1>2 DEF TamDe
  <1>5. \A g \in Presentes : Sigue(g)
    BY <1>2, SigueCompactarLimpiar, SigueCompactarBuscar, SigueCompactarFCB, SigueCompactarCopiar,
       SigueCompactarFin DEF Firme
  <1> QED BY <1>2, <1>3, <1>4, <1>5 DEF Nada, Igual

LEMMA EfectoEscribir ==
    ASSUME Firme, Escribir
    PROVE  Escribe
  <1>1. PICK f \in Presentes : \E p \in Nat :
            /\ p < TamDe(f) /\ Contenido(f, p)' = <<f, p>>
            /\ \A g \in Presentes : \A n \in Nat :
                 n < TamDe(g) /\ ~ (g = f /\ n = p) => Contenido(g, n)' = Contenido(g, n)
    BY EscribirLemma DEF Firme
  <1>2. op.fase = "pedido" /\ op'.fase = "libre" /\ UNCHANGED meta
    BY DEF Escribir, Pedido, EnFase, Libre
  <1>3. Presentes = DOMAIN meta /\ Presentes' = DOMAIN meta
    BY <1>2, PresentesLemma
  <1>4. \A g \in Presentes : TamDe(g)' = TamDe(g)
    BY <1>2, <1>3 DEF TamDe
  <1> QED BY <1>1, <1>3, <1>4 DEF Escribe

LEMMA EfectoPaso ==
    ASSUME Firme, Buena', [Next]_vars
    PROVE  Efecto
  <1>1. CASE UNCHANGED vars
    <2>1. /\ UNCHANGED <<meta, op, bloques, sano>>
      BY <1>1 DEF vars
    <2>2. Presentes' = Presentes /\ \A g : TamDe(g)' = TamDe(g)
      BY <2>1 DEF Presentes, TamDe, f0, Pide, Tiene, FCB
    <2>3. \A g : Sigue(g)
      BY <2>1 DEF Sigue, Contenido, f0
    <2> QED BY <2>2, <2>3 DEF Efecto, Nada, Igual
  <1>2. ~ CompactarSinFCB
    BY DEF CompactarSinFCB, Firme
  <1> QED BY <1>1, <1>2, EfectoQuieto, EfectoCrearAbrir, EfectoCrearCargar, EfectoBorrarLiberar,
             EfectoBorrarQuitar, EfectoTruncarAchicar, EfectoTruncarCrecer, EfectoTruncarTam,
             EfectoCompactar, EfectoEscribir DEF Next, Hilo, Efecto

-----------------------------------------------------------------------------
(* What was written is where the file says.                                *)

\* What is noted as written in a file is within its size.
Dentro ==
    /\ escrito = [f \in Archivos |-> escrito[f]]
    /\ \A f \in Archivos : \A n \in escrito[f] :
         n \in Nat /\ f \in DOMAIN meta /\ n < meta[f].tam
    /\ op.fase = "cargar" => escrito[f0] = {}

Intactos == \A g \in Presentes : \A n \in escrito[g] : n < TamDe(g) => Contenido(g, n) = <<g, n>>

Escritos == Datos /\ Dentro /\ Intactos /\ LecturaDelPrimero

LEMMA DentroPaso ==
    ASSUME Firme, Dentro, [Next]_vars
    PROVE  Dentro'
  <1>1. meta \in [DOMAIN meta -> FCBs] /\ DOMAIN meta \subseteq Archivos
    BY DEF Firme, Buena, Disco
  <1>2. CASE UNCHANGED <<escrito, meta>> /\ op'.fase # "cargar"
    BY <1>2 DEF Dentro
  <1>3. CASE CrearAbrir
    <2>1. op.fase = "abrir" /\ op'.orden = op.orden /\ UNCHANGED escrito
          /\ meta' = ConFCB([inicio |-> 0, tam |-> 0])
      BY <1>3 DEF CrearAbrir, EnFase, Firme, Buena, Formas
    <2>2. f0 \notin DOMAIN meta /\ f0 \in Archivos
      BY <2>1, F0Lemma DEF Firme, Buena, Reparto, Creando
    <2>3. escrito[f0] = {}
      BY <2>2 DEF Dentro
    <2>4. DOMAIN meta' = DOMAIN meta \cup {f0} /\ \A g \in DOMAIN meta : meta'[g] = meta[g]
      BY <2>1, <2>2 DEF ConFCB
    <2>5. f0' = f0
      BY <2>1 DEF f0
    <2> QED BY <2>1, <2>3, <2>4, <2>5 DEF Dentro
  <1>4. CASE CrearCargar
    <2>1. op.fase = "cargar" /\ op'.fase = "libre" /\ UNCHANGED escrito
          /\ meta' = ConFCB([inicio |-> op.bloque, tam |-> 0])
      BY <1>4 DEF CrearCargar, EnFase, Libre
    <2>2. \A g \in DOMAIN meta \ {f0} : g \in DOMAIN meta' /\ meta'[g] = meta[g]
      BY <2>1 DEF ConFCB
    <2> QED BY <2>1, <2>2 DEF Dentro
  <1>5. CASE BorrarQuitar
    <2>1. op'.fase = "libre" /\ escrito' = [escrito EXCEPT ![f0] = {}]
          /\ meta' = Restrict(meta, DOMAIN meta \ {f0})
      BY <1>5 DEF BorrarQuitar, Libre
    <2>2. \A g \in DOMAIN meta \ {f0} : g \in DOMAIN meta' /\ meta'[g] = meta[g]
      BY <2>1 DEF Restrict
    <2>3. escrito' = [f \in Archivos |-> IF f = f0 THEN {} ELSE escrito[f]]
      BY <2>1 DEF Dentro
    <2>4. \A f \in Archivos : \A n \in escrito'[f] :
            n \in Nat /\ f \in DOMAIN meta' /\ n < meta'[f].tam
      BY <2>2, <2>3 DEF Dentro
    <2>5. escrito' = [f \in Archivos |-> escrito'[f]]
      BY <2>3
    <2> QED BY <2>1, <2>4, <2>5 DEF Dentro
  <1>6. CASE TruncarTam
    <2>1. /\ op'.fase = "libre" /\ meta' = [meta EXCEPT ![f0].tam = op.orden.tam]
          /\ escrito' = [escrito EXCEPT ![f0] = @ \cap (0 .. op.orden.tam - 1)]
          /\ op.fase # "libre"
      BY <1>6 DEF TruncarTam, Truncando, Pedido, EnFase, Libre
    <2>2. op.orden.tam \in Nat
      BY <2>1, F0Lemma DEF Firme, Buena
    <2>3. escrito' = [f \in Archivos |-> IF f = f0 THEN escrito[f] \cap (0 .. op.orden.tam - 1)
                                                  ELSE escrito[f]]
      BY <2>1 DEF Dentro
    <2>4. ASSUME NEW f \in Archivos, NEW n \in escrito'[f]
          PROVE  n \in Nat /\ f \in DOMAIN meta' /\ n < meta'[f].tam
      <3>1. n \in escrito[f] /\ (f = f0 => n < op.orden.tam)
        BY <2>2, <2>3, <2>4
      <3>2. n \in Nat /\ f \in DOMAIN meta /\ n < meta[f].tam
        BY <3>1 DEF Dentro
      <3> QED BY <1>1, <2>1, <3>1, <3>2 DEF FCBs
    <2>5. escrito' = [f \in Archivos |-> escrito'[f]]
      BY <2>3
    <2> QED BY <2>1, <2>4, <2>5 DEF Dentro
  <1>7. CASE CompactarFCB \/ CompactarFin
    <2>1. UNCHANGED escrito /\ DOMAIN meta' = DOMAIN meta
          /\ \A g \in DOMAIN meta : meta'[g].tam = meta[g].tam
      BY <1>1, <1>7 DEF CompactarFCB, CompactarFin, FCBs
    <2>2. op'.fase # "cargar"
      <3>1. CASE CompactarFin
        BY <3>1 DEF CompactarFin
      <3>2. CASE CompactarFCB
        <4>1. op.fase = "fcb" /\ \E x : op' = [op EXCEPT !.j = x]
          BY <3>2 DEF CompactarFCB, EnFase
        <4> QED BY <4>1 DEF Firme, Buena, Formas
      <3> QED BY <1>7, <3>1, <3>2
    <2> QED BY <2>1, <2>2 DEF Dentro
  <1>8. CASE Escribir
    <2>1. op' = Libre /\ meta' = meta
      BY <1>8 DEF Escribir
    <2>2. PICK f \in Presentes : \E p \in Nat :
              f \in DOMAIN meta /\ p < meta[f].tam /\ escrito' = [escrito EXCEPT ![f] = @ \cup {p}]
      BY <1>8, EscribirLemma DEF Firme
    <2>3. PICK p \in Nat :
              f \in DOMAIN meta /\ p < meta[f].tam /\ escrito' = [escrito EXCEPT ![f] = @ \cup {p}]
      BY <2>2
    <2>4. escrito' = [g \in Archivos |-> IF g = f THEN escrito[g] \cup {p} ELSE escrito[g]]
      BY <2>3 DEF Dentro
    <2>5. \A g \in Archivos : \A n \in escrito'[g] :
            n \in Nat /\ g \in DOMAIN meta' /\ n < meta'[g].tam
      BY <2>1, <2>3, <2>4 DEF Dentro
    <2>6. escrito' = [g \in Archivos |-> escrito'[g]]
      BY <2>4
    <2> QED BY <2>1, <2>5, <2>6 DEF Dentro, Libre
  <1>9. CASE UNCHANGED vars
    BY <1>9 DEF vars, Dentro, f0
  <1>10. CASE \/ Recibir \/ Descartar \/ CrearReservar \/ TruncarSinEspacio
              \/ CompactarLimpiar \/ CompactarBuscar \/ CompactarSinFCB \/ CompactarCopiar
              \/ FueraDeArchivo \/ Leer \/ EntregarLeido \/ Cortar
    <2>1. UNCHANGED <<escrito, meta>> /\ op'.fase # "cargar"
      BY <1>10 DEF Recibir, Descartar, CrearReservar, TruncarSinEspacio,
         CompactarLimpiar, CompactarBuscar, CompactarSinFCB, CompactarCopiar, FueraDeArchivo,
         Leer, EntregarLeido, Cortar, Salir, Libre, disco
    <2> QED BY <1>2, <2>1
  <1>11. CASE BorrarLiberar \/ TruncarAchicar \/ TruncarCrecer
    <2>1. UNCHANGED <<escrito, meta>> /\ op.fase = "pedido" /\ \E x \in {"quitar", "tam"} : op' = [op EXCEPT !.fase = x]
      BY <1>11 DEF BorrarLiberar, TruncarAchicar, TruncarCrecer, Truncando, Pedido, EnFase
    <2>2. op = [fase |-> "pedido", orden |-> op.orden]
      BY <2>1 DEF Firme, Buena, Formas
    <2>3. op'.fase # "cargar"
      BY <2>1, <2>2
    <2> QED BY <1>2, <2>1, <2>3
  <1>12. CASE Reiniciar
    <2>1. UNCHANGED <<escrito, meta>> /\ op'.fase # "cargar"
      BY <1>12 DEF Reiniciar, Firme, Buena, Formas, disco
    <2> QED BY <1>2, <2>1
  <1> QED BY <1>3, <1>4, <1>5, <1>6, <1>7, <1>8, <1>9, <1>10, <1>11, <1>12 DEF Next, Hilo

\* Only a write notes something in a file.
LEMMA EscritoPaso ==
    ASSUME Firme, Dentro, [Next]_vars, ~ Escribir, NEW g \in Archivos
    PROVE  escrito'[g] \subseteq escrito[g]
  <1>1. escrito = [f \in Archivos |-> escrito[f]]
    BY DEF Dentro
  <1>2. CASE BorrarQuitar
    <2>1. escrito' = [escrito EXCEPT ![f0] = {}]
      BY <1>2 DEF BorrarQuitar
    <2> QED BY <1>1, <2>1
  <1>3. CASE TruncarTam
    <2>1. escrito' = [escrito EXCEPT ![f0] = @ \cap (0 .. op.orden.tam - 1)]
      BY <1>3 DEF TruncarTam
    <2> QED BY <1>1, <2>1
  <1>4. CASE UNCHANGED escrito
    BY <1>4
  <1> QED BY <1>2, <1>3, <1>4 DEF Next, Hilo, vars, Recibir, Descartar, CrearReservar, CrearAbrir,
        CrearCargar, BorrarLiberar, TruncarAchicar, TruncarCrecer, TruncarSinEspacio,
        CompactarLimpiar, CompactarBuscar, CompactarFCB, CompactarSinFCB, CompactarCopiar,
        CompactarFin, FueraDeArchivo, Leer, EntregarLeido, Cortar, Reiniciar

LEMMA IntactosPaso ==
    ASSUME Firme, Buena', Dentro, Dentro', Intactos, [Next]_vars
    PROVE  Intactos'
  <1>1. Presentes \subseteq Archivos /\ Presentes \subseteq DOMAIN meta
    BY PresentesLemma
  <1>2. ASSUME NEW g \in Presentes, g \in Presentes', Sigue(g), ~ Escribir,
               TamDe(g)' = TamDe(g) \/ TamDe(g) = meta[g].tam,
               NEW n \in escrito'[g], n < TamDe(g)'
        PROVE  Contenido(g, n)' = <<g, n>>
    <2>1. n \in escrito[g]
      BY <1>1, <1>2, EscritoPaso
    <2>2. n \in Nat /\ n < meta[g].tam
      BY <1>1, <2>1 DEF Dentro
    <2>3. n < TamDe(g)
      BY <1>2, <2>2
    <2> QED BY <1>2, <2>1, <2>2, <2>3 DEF Sigue, Intactos
  <1>3. Efecto
    BY EfectoPaso
  <1>4. CASE Escribir
    <2>1. PICK f \in Presentes : \E p \in Nat :
              /\ f \in DOMAIN meta /\ escrito' = [escrito EXCEPT ![f] = @ \cup {p}]
              /\ Contenido(f, p)' = <<f, p>>
              /\ \A g \in Presentes : \A n \in Nat :
                   n < TamDe(g) /\ ~ (g = f /\ n = p) => Contenido(g, n)' = Contenido(g, n)
      BY <1>4, EscribirLemma DEF Firme
    <2>2. PICK p \in Nat :
              /\ f \in DOMAIN meta /\ escrito' = [escrito EXCEPT ![f] = @ \cup {p}]
              /\ Contenido(f, p)' = <<f, p>>
              /\ \A g \in Presentes : \A n \in Nat :
                   n < TamDe(g) /\ ~ (g = f /\ n = p) => Contenido(g, n)' = Contenido(g, n)
      BY <2>1
    <2>3. op.fase = "pedido" /\ op'.fase = "libre" /\ UNCHANGED meta
      BY <1>4 DEF Escribir, Pedido, EnFase, Libre
    <2>4. Presentes' = Presentes /\ \A g \in Presentes : TamDe(g)' = TamDe(g)
      BY <2>3, PresentesLemma DEF TamDe
    <2>5. ASSUME NEW g \in Presentes, NEW n \in escrito'[g], n < TamDe(g)
          PROVE  Contenido(g, n)' = <<g, n>>
      <3>1. CASE g = f /\ n = p
        BY <2>2, <3>1
      <3>2. CASE ~ (g = f /\ n = p)
        <4>1. n \in escrito[g]
          BY <1>1, <2>2, <3>2 DEF Dentro
        <4>2. n \in Nat
          BY <1>1, <4>1 DEF Dentro
        <4> QED BY <2>2, <2>5, <3>2, <4>1, <4>2 DEF Intactos
      <3> QED BY <3>1, <3>2
    <2> QED BY <2>4, <2>5 DEF Intactos
  <1>5. CASE Nada /\ ~ Escribir
    BY <1>2, <1>5 DEF Nada, Igual, Intactos
  <1>6. CASE Crea /\ ~ Escribir
    <2>1. PICK f \in Archivos \ Presentes :
              /\ Presentes' = Presentes \cup {f} /\ TamDe(f)' = 0
              /\ \A g \in Presentes : Igual(g)
      BY <1>6 DEF Crea
    <2>2. \A n \in escrito'[f] : ~ (n < 0)
      BY DEF Dentro
    <2>3. ASSUME NEW g \in Presentes, NEW n \in escrito'[g], n < TamDe(g)'
          PROVE  Contenido(g, n)' = <<g, n>>
      BY <1>2, <1>6, <2>1, <2>3 DEF Igual
    <2>4. \A n \in escrito'[f] : ~ (n < TamDe(f)')
      BY <2>1, <2>2
    <2> QED BY <2>1, <2>3, <2>4 DEF Intactos
  <1>7. CASE Borra /\ ~ Escribir
    BY <1>2, <1>7 DEF Borra, Igual, Intactos
  <1>8. CASE Trunca /\ ~ Escribir
    <2>1. PICK f \in Presentes :
              /\ Presentes' = Presentes /\ TamDe(f) = meta[f].tam /\ Sigue(f)
              /\ \A g \in Presentes \ {f} : Igual(g)
      BY <1>8 DEF Trunca
    <2>2. ASSUME NEW g \in Presentes, NEW n \in escrito'[g], n < TamDe(g)'
          PROVE  Contenido(g, n)' = <<g, n>>
      <3>1. Sigue(g) /\ (TamDe(g)' = TamDe(g) \/ TamDe(g) = meta[g].tam)
        BY <2>1 DEF Igual
      <3> QED BY <1>2, <1>8, <2>1, <2>2, <3>1
    <2> QED BY <2>1, <2>2 DEF Intactos
  <1> QED BY <1>3, <1>4, <1>5, <1>6, <1>7, <1>8 DEF Efecto

\* leer_archivo of the first file of the disk.
LEMMA LecturaPaso ==
    ASSUME Firme, Dentro, Intactos, LecturaDelPrimero, [Next]_vars
    PROVE  LecturaDelPrimero'
  <1>1. CASE Leer
    <2>1. /\ op' = [fase |-> "leido", orden |-> op.orden, dato |-> bloques[op.orden.ptr]]
          /\ UNCHANGED <<meta, bloques, escrito>> /\ op.fase = "pedido" /\ f0 \in DOMAIN meta
      BY <1>1 DEF Leer, Pedido, EnFase, Alcanza, Firme, Buena, Disco, disco
    <2>2. op'.fase = "leido" /\ op'.orden = op.orden /\ op'.dato = bloques[op.orden.ptr] /\ f0' = f0
      BY <2>1 DEF f0
    <2>3. PICK f \in DOMAIN meta : f = f0
      BY <2>1
    <2>4. PICK p : p = op.orden.ptr
      OBVIOUS
    <2>5. ASSUME meta[f].inicio = 0, p \in escrito[f]
          PROVE  bloques[p] = <<f, p>>
      <3>1. f \in Presentes /\ f \in Archivos /\ TamDe(f) = meta[f].tam
        BY <2>1, PresentesLemma DEF TamDe
      <3>2. p \in Nat /\ p < meta[f].tam
        BY <2>5, <3>1 DEF Dentro
      <3>3. Contenido(f, p) = bloques[0 * BlockSize + p]
        BY <2>1, <2>5 DEF Contenido
      <3>4. 0 * BlockSize + p = p
        BY <3>2, Z3
      <3> QED BY <2>5, <3>1, <3>2, <3>3, <3>4 DEF Intactos
    <2> QED BY <2>1, <2>2, <2>3, <2>4, <2>5 DEF LecturaDelPrimero
  <1>2. CASE UNCHANGED vars
    BY <1>2 DEF vars, LecturaDelPrimero, f0
  <1>3. CASE op'.fase # "leido"
    BY <1>3 DEF LecturaDelPrimero
  <1>4. CASE CrearAbrir \/ BorrarLiberar \/ TruncarAchicar \/ TruncarCrecer \/ CompactarFCB
    <2>1. \/ \E x \in {"cargar", "quitar", "tam"} : op' = [op EXCEPT !.fase = x]
          \/ op.fase = "fcb" /\ \E x : op' = [op EXCEPT !.j = x]
      BY <1>4 DEF CrearAbrir, BorrarLiberar, TruncarAchicar, TruncarCrecer, CompactarFCB, EnFase
    <2>2. op.fase \in {"abrir", "pedido", "fcb"}
      BY <1>4 DEF CrearAbrir, BorrarLiberar, TruncarAchicar, TruncarCrecer, Truncando, CompactarFCB,
                  Pedido, EnFase
    <2>3. op'.fase # "leido"
      BY <2>1, <2>2 DEF Firme, Buena, Formas
    <2> QED BY <1>3, <2>3
  <1>5. CASE Reiniciar
    BY <1>3, <1>5 DEF Reiniciar, Firme, Buena, Formas
  <1>6. CASE op' = Libre
    BY <1>3, <1>6 DEF Libre
  <1>7. CASE \/ Recibir \/ CrearReservar \/ CompactarLimpiar \/ CompactarBuscar
             \/ CompactarSinFCB \/ CompactarCopiar \/ CompactarFin
    BY <1>3, <1>7 DEF Recibir, CrearReservar, CompactarLimpiar, CompactarBuscar, CompactarSinFCB,
                      CompactarCopiar, CompactarFin
  <1> QED BY <1>1, <1>2, <1>4, <1>5, <1>6, <1>7 DEF Next, Hilo, Descartar, CrearCargar,
        BorrarQuitar, TruncarTam, TruncarSinEspacio, FueraDeArchivo, Escribir, EntregarLeido,
        Cortar, Salir

\* The invariant: until the promise ends, the blocks are shared out and hold what was written.
Fiel == sano # "roto" => Buena /\ Escritos

LEMMA FielPaso ==
    ASSUME Fiel, [Next]_vars
    PROVE  Fiel'
  <1> SUFFICES ASSUME sano' # "roto"
               PROVE  Buena' /\ Escritos'
    BY DEF Fiel
  <1>1. sano # "roto" /\ Buena /\ Escritos
    BY RotoPaso DEF Fiel
  <1>2. Firme
    BY <1>1 DEF Firme, Escritos
  <1>3. Buena'
    BY <1>1, InvPaso DEF Inv
  <1>4. Datos' /\ Dentro'
    BY <1>1, <1>2, DatosPaso, DentroPaso DEF Escritos
  <1>5. Intactos' /\ LecturaDelPrimero'
    BY <1>1, <1>2, <1>3, <1>4, IntactosPaso, LecturaPaso DEF Escritos
  <1> QED BY <1>3, <1>4, <1>5 DEF Escritos

LEMMA FielInicio ==
    ASSUME Init
    PROVE  Fiel
  <1>1. Buena
    BY InvInicio DEF Inv, Init
  <1>2. op = Libre /\ op.fase = "libre" /\ DOMAIN meta = {} /\ sano # "roto"
    BY DEF Init, Libre
  <1>3. Datos
    BY <1>2 DEF Datos, Init
  <1>4. Dentro
    BY <1>2 DEF Dentro, Init
  <1>5. Intactos /\ LecturaDelPrimero
    BY <1>2 DEF Intactos, LecturaDelPrimero, Presentes
  <1> QED BY <1>1, <1>3, <1>4, <1>5 DEF Fiel, Escritos

LEMMA FielSiempre == Spec => []Fiel
  <1>1. Init => Fiel
    BY FielInicio
  <1>2. Fiel /\ [Next]_vars => Fiel'
    BY FielPaso
  <1> QED BY <1>1, <1>2, PTL DEF Spec

\* What was written in a file is on the disk where the file says, whatever was created,
\* deleted, truncated, moved by a compaction and restarted in between.
THEOREM LoEscritoEstaEnSuLugar == Spec => []ContenidoIntacto
  <1>1. Fiel => ContenidoIntacto
    <2> SUFFICES ASSUME Fiel, sano # "roto", op.fase = "libre",
                        NEW f \in DOMAIN meta, NEW n \in escrito[f]
                 PROVE  bloques[meta[f].inicio * BlockSize + n] = <<f, n>>
      BY DEF ContenidoIntacto, EnReposo
    <2>1. f \in Archivos /\ f \in Presentes /\ TamDe(f) = meta[f].tam
      BY DEF Fiel, Buena, Disco, Presentes, TamDe
    <2>2. n < TamDe(f)
      BY <2>1 DEF Fiel, Escritos, Dentro
    <2>3. Contenido(f, n) = bloques[meta[f].inicio * BlockSize + n]
      BY DEF Contenido
    <2> QED BY <2>1, <2>2, <2>3 DEF Fiel, Escritos, Intactos
  <1> QED BY <1>1, FielSiempre, PTL

\* IO_FS_READ of the first file of the disk hands memoria what was written there.
THEOREM SeLeeLoEscrito == Spec => []LecturaDelPrimero
  <1>1. Fiel => LecturaDelPrimero
    BY DEF Fiel, Escritos, LecturaDelPrimero
  <1> QED BY <1>1, FielSiempre, PTL

-----------------------------------------------------------------------------
(* DialFS implements SistemaArchivos.                                      *)

DatosDe(f) == {n \in 0 .. TamDe(f) - 1 : Contenido(f, n) = <<f, n>>}

LEMMA AusenteLemma ==
    ASSUME NEW f
    PROVE  /\ f \notin Presentes => TamDe(f) = 0 /\ DatosDe(f) = {}
           /\ f \notin Presentes' => TamDe(f)' = 0 /\ DatosDe(f)' = {}
  <1>1. 0 .. 0 - 1 = {}
    OBVIOUS
  <1>2. f \notin Presentes => TamDe(f) = 0
    BY DEF TamDe
  <1>3. f \notin Presentes' => TamDe(f)' = 0
    BY DEF TamDe
  <1>4. f \notin Presentes => DatosDe(f) = {}
    BY <1>1, <1>2 DEF DatosDe
  <1>5. f \notin Presentes' => DatosDe(f)' = {}
    BY <1>1, <1>3 DEF DatosDe
  <1> QED BY <1>2, <1>3, <1>4, <1>5

LEMMA TamDeNat ==
    ASSUME Firme, NEW f \in Presentes
    PROVE  TamDe(f) \in Nat
  <1>1. f \in DOMAIN meta /\ meta[f].tam \in Nat
    BY PresentesLemma, FCBLemma DEF Firme, Buena
  <1>2. op.fase = "tam" => op.orden.tam \in Nat
    BY F0Lemma DEF Firme, Buena
  <1> QED BY <1>1, <1>2 DEF TamDe

LEMMA DatosIguales ==
    ASSUME Firme, NEW f \in Presentes, Igual(f)
    PROVE  DatosDe(f)' = DatosDe(f)
  <1>1. TamDe(f) \in Nat /\ TamDe(f)' = TamDe(f)
    BY TamDeNat DEF Igual
  <1>2. \A n \in 0 .. TamDe(f) - 1 : Contenido(f, n)' = Contenido(f, n)
    BY <1>1 DEF Igual, Sigue
  <1> QED BY <1>1, <1>2 DEF DatosDe

LEMMA PasoNada ==
    ASSUME Firme, Nada
    PROVE  UNCHANGED A!vars
  <1>1. \A f \in Archivos : TamDe(f)' = TamDe(f) /\ DatosDe(f)' = DatosDe(f)
    BY AusenteLemma, DatosIguales DEF Nada, Igual
  <1>2. Presentes' = Presentes /\ (sano = "roto") = FALSE /\ (sano' = "roto") = FALSE
    BY DEF Nada, Firme
  <1>3. /\ [f \in Archivos |-> TamDe(f)]' = [f \in Archivos |-> TamDe(f)]
        /\ [f \in Archivos |-> DatosDe(f)]' = [f \in Archivos |-> DatosDe(f)]
    BY <1>1
  <1>4. UNCHANGED <<Presentes, [f \in Archivos |-> TamDe(f)], [f \in Archivos |-> DatosDe(f)],
                    sano = "roto">>
    BY <1>2, <1>3
  <1> QED BY <1>4 DEF A!vars, DatosDe

LEMMA PasoCrea ==
    ASSUME Firme, Crea
    PROVE  A!Next
  <1>1. PICK f \in Archivos \ Presentes :
            /\ Presentes' = Presentes \cup {f} /\ TamDe(f)' = 0
            /\ \A g \in Presentes : Igual(g)
    BY DEF Crea
  <1>2. TamDe(f) = 0 /\ DatosDe(f) = {} /\ DatosDe(f)' = {}
    BY <1>1, AusenteLemma DEF DatosDe
  <1>3. \A g \in Archivos : TamDe(g)' = TamDe(g) /\ DatosDe(g)' = DatosDe(g)
    BY <1>1, <1>2, AusenteLemma, DatosIguales DEF Igual
  <1>4. A!Crear(f)
    BY <1>1, <1>3 DEF A!Crear, DatosDe, Firme
  <1> QED BY <1>4 DEF A!Next

LEMMA PasoBorra ==
    ASSUME Firme, Borra
    PROVE  A!Next
  <1>1. PICK f \in Presentes :
            /\ Presentes' = Presentes \ {f}
            /\ \A g \in Presentes \ {f} : Igual(g)
    BY DEF Borra
  <1>2. TamDe(f)' = 0 /\ DatosDe(f)' = {} /\ f \in Archivos
    BY <1>1, AusenteLemma, PresentesLemma
  <1>3. \A g \in Archivos \ {f} : TamDe(g)' = TamDe(g) /\ DatosDe(g)' = DatosDe(g)
    BY <1>1, AusenteLemma, DatosIguales DEF Igual
  <1>4. /\ [g \in Archivos |-> TamDe(g)]' = [[g \in Archivos |-> TamDe(g)] EXCEPT ![f] = 0]
        /\ [g \in Archivos |-> DatosDe(g)]' = [[g \in Archivos |-> DatosDe(g)] EXCEPT ![f] = {}]
    BY <1>2, <1>3
  <1>5. A!Borrar(f)
    BY <1>1, <1>4 DEF A!Borrar, DatosDe, Firme
  <1> QED BY <1>2, <1>5 DEF A!Next

LEMMA PasoTrunca ==
    ASSUME Firme, Trunca
    PROVE  A!Next
  <1>1. PICK f \in Presentes : \E t \in Tamanos :
            /\ Presentes' = Presentes /\ TamDe(f)' = t /\ Sigue(f)
            /\ \A g \in Presentes \ {f} : Igual(g)
    BY DEF Trunca
  <1>2. PICK t \in Tamanos :
            /\ Presentes' = Presentes /\ TamDe(f)' = t /\ Sigue(f)
            /\ \A g \in Presentes \ {f} : Igual(g)
    BY <1>1
  <1>3. f \in Archivos /\ t \in Nat /\ TamDe(f) \in Nat
    BY PresentesLemma, TamDeNat
  <1>4. \A g \in Archivos \ {f} : TamDe(g)' = TamDe(g) /\ DatosDe(g)' = DatosDe(g)
    BY <1>2, AusenteLemma, DatosIguales DEF Igual
  <1> DEFINE nuevos == {n \in 0 .. t - 1 : TamDe(f) <= n /\ Contenido(f, n)' = <<f, n>>}
  <1>5. nuevos \in SUBSET {n \in 0 .. t : TamDe(f) <= n /\ n < t}
    BY <1>3
  <1>6. DatosDe(f)' = {n \in DatosDe(f) : n < t} \cup nuevos
    <2>1. \A n \in Nat : n < TamDe(f) /\ n < t => Contenido(f, n)' = Contenido(f, n)
      BY <1>2 DEF Sigue
    <2>2. DatosDe(f)' = {n \in 0 .. t - 1 : Contenido(f, n)' = <<f, n>>}
      BY <1>2 DEF DatosDe
    <2>3. \A n : n \in DatosDe(f)' <=> n \in Nat /\ n < t /\ Contenido(f, n)' = <<f, n>>
      BY <1>3, <2>2
    <2>4. \A n : n \in DatosDe(f) <=> n \in Nat /\ n < TamDe(f) /\ Contenido(f, n) = <<f, n>>
      BY <1>3 DEF DatosDe
    <2>5. \A n : n \in nuevos <=> n \in Nat /\ n < t /\ TamDe(f) <= n /\ Contenido(f, n)' = <<f, n>>
      BY <1>3
    <2>6. ASSUME NEW n
          PROVE  n \in DatosDe(f)' <=> (n \in DatosDe(f) /\ n < t) \/ n \in nuevos
      <3>1. n \in Nat => (n < TamDe(f) <=> ~ (TamDe(f) <= n))
        BY <1>3
      <3> QED BY <2>1, <2>3, <2>4, <2>5, <3>1
    <2> HIDE DEF nuevos
    <2> QED BY <2>6
  <1>7. /\ [g \in Archivos |-> TamDe(g)]' = [[g \in Archivos |-> TamDe(g)] EXCEPT ![f] = t]
        /\ [g \in Archivos |-> DatosDe(g)]'
             = [[g \in Archivos |-> DatosDe(g)] EXCEPT ![f] = {n \in @ : n < t} \cup nuevos]
    <2> HIDE DEF nuevos
    <2>1. [g \in Archivos |-> TamDe(g)]' = [[g \in Archivos |-> TamDe(g)] EXCEPT ![f] = t]
      BY <1>2, <1>3, <1>4
    <2>2. [g \in Archivos |-> DatosDe(g)][f] = DatosDe(f)
      BY <1>3
    <2>3. [g \in Archivos |-> DatosDe(g)]'
             = [[g \in Archivos |-> DatosDe(g)] EXCEPT ![f] = {n \in DatosDe(f) : n < t} \cup nuevos]
      BY <1>3, <1>4, <1>6
    <2> QED BY <2>1, <2>2, <2>3
  <1>8. A!Truncar(f)
    <2> HIDE DEF nuevos
    <2>1. [g \in Archivos |-> TamDe(g)][f] = TamDe(f)
      BY <1>3
    <2>2. (sano = "roto") = FALSE /\ (sano' = "roto") = FALSE
      BY DEF Firme
    <2>3. \E nue \in SUBSET {n \in 0 .. t : [g \in Archivos |-> TamDe(g)][f] <= n /\ n < t} :
            /\ [g \in Archivos |-> TamDe(g)]' = [[g \in Archivos |-> TamDe(g)] EXCEPT ![f] = t]
            /\ [g \in Archivos |-> DatosDe(g)]'
                 = [[g \in Archivos |-> DatosDe(g)] EXCEPT ![f] = {n \in @ : n < t} \cup nue]
      <3>1. nuevos \in SUBSET {n \in 0 .. t : [g \in Archivos |-> TamDe(g)][f] <= n /\ n < t}
        BY ONLY <1>5, <2>1
      <3> QED BY ONLY <3>1, <1>7
    <2>4. \E x \in Tamanos :
          \E nue \in SUBSET {n \in 0 .. x : [g \in Archivos |-> TamDe(g)][f] <= n /\ n < x} :
            /\ [g \in Archivos |-> TamDe(g)]' = [[g \in Archivos |-> TamDe(g)] EXCEPT ![f] = x]
            /\ [g \in Archivos |-> DatosDe(g)]'
                 = [[g \in Archivos |-> DatosDe(g)] EXCEPT ![f] = {n \in @ : n < x} \cup nue]
      BY <2>3
    <2> QED BY <1>2, <2>2, <2>4 DEF A!Truncar, DatosDe
  <1> QED BY <1>3, <1>8 DEF A!Next

LEMMA PasoEscribe ==
    ASSUME Firme, Escribe
    PROVE  A!Next
  <1>1. PICK f \in Presentes : \E p \in Nat :
            /\ Presentes' = Presentes /\ p < TamDe(f) /\ Contenido(f, p)' = <<f, p>>
            /\ \A g \in Presentes : TamDe(g)' = TamDe(g)
            /\ \A g \in Presentes : \A n \in Nat :
                 n < TamDe(g) /\ ~ (g = f /\ n = p) => Contenido(g, n)' = Contenido(g, n)
    BY DEF Escribe
  <1>2. PICK p \in Nat :
            /\ Presentes' = Presentes /\ p < TamDe(f) /\ Contenido(f, p)' = <<f, p>>
            /\ \A g \in Presentes : TamDe(g)' = TamDe(g)
            /\ \A g \in Presentes : \A n \in Nat :
                 n < TamDe(g) /\ ~ (g = f /\ n = p) => Contenido(g, n)' = Contenido(g, n)
    BY <1>1
  <1>3. f \in Archivos /\ TamDe(f) \in Nat
    BY PresentesLemma, TamDeNat
  <1>4. \A g \in Archivos : TamDe(g)' = TamDe(g)
    BY <1>2, AusenteLemma
  <1>5. \A g \in Archivos \ {f} : DatosDe(g)' = DatosDe(g)
    <2> SUFFICES ASSUME NEW g \in Archivos \ {f}
                 PROVE  DatosDe(g)' = DatosDe(g)
      OBVIOUS
    <2>1. CASE g \in Presentes
      <3>1. \A n \in 0 .. TamDe(g) - 1 : Contenido(g, n)' = Contenido(g, n)
        BY <1>2, <2>1, TamDeNat
      <3> QED BY <1>4, <3>1 DEF DatosDe
    <2> QED BY <1>2, <2>1, AusenteLemma
  <1>6. DatosDe(f)' = DatosDe(f) \cup {p}
    <2>1. \A n \in 0 .. TamDe(f) - 1 : n # p => Contenido(f, n)' = Contenido(f, n)
      BY <1>2, <1>3
    <2>2. p \in 0 .. TamDe(f) - 1
      BY <1>2, <1>3
    <2> QED BY <1>2, <2>1, <2>2 DEF DatosDe
  <1>7. [g \in Archivos |-> DatosDe(g)]'
          = [[g \in Archivos |-> DatosDe(g)] EXCEPT ![f] = @ \cup {p}]
    BY <1>3, <1>5, <1>6
  <1>8. p \in {k \in 0 .. [g \in Archivos |-> TamDe(g)][f] : k < [g \in Archivos |-> TamDe(g)][f]}
    BY <1>2, <1>3
  <1>9. A!Escribir(f)
    BY <1>2, <1>4, <1>7, <1>8 DEF A!Escribir, DatosDe, Firme
  <1> QED BY <1>3, <1>9 DEF A!Next

LEMMA RefinaPaso ==
    ASSUME Fiel, [Next]_vars
    PROVE  [A!Next]_(A!vars)
  <1>1. CASE sano' = "roto"
    <2>1. /\ Presentes' = {}
          /\ \A f \in Archivos : TamDe(f)' = 0 /\ DatosDe(f)' = {}
      BY <1>1, AusenteLemma DEF Presentes
    <2>2. A!Romper
      BY <1>1, <2>1 DEF A!Romper, DatosDe
    <2> QED BY <2>2 DEF A!Next
  <1>2. CASE sano' # "roto"
    <2>1. Firme /\ Buena'
      BY <1>2, FielPaso, RotoPaso DEF Fiel, Firme, Escritos
    <2>2. Efecto
      BY <2>1, EfectoPaso
    <2> QED BY <2>1, <2>2, PasoNada, PasoCrea, PasoBorra, PasoTrunca, PasoEscribe DEF Efecto
  <1> QED BY <1>1, <1>2

LEMMA RefinaInicio ==
    ASSUME Init
    PROVE  A!Init
  <1>1. Presentes = {} /\ sano # "roto"
    BY DEF Init, Presentes, Libre
  <1>2. \A f \in Archivos : TamDe(f) = 0 /\ DatosDe(f) = {}
    BY <1>1, AusenteLemma
  <1> QED BY <1>1, <1>2 DEF A!Init, DatosDe

\* For who uses the files each operation changes one file, at once; a compaction and a
\* restart change none, and what a cut leaves half done is done or not done.
THEOREM DialFSImplementaSistemaArchivos == Spec => OperacionesAtomicas
  <1>1. Fiel /\ [Next]_vars => [A!Next]_(A!vars)
    BY RefinaPaso
  <1>2. Init => A!Init
    BY RefinaInicio
  <1> QED BY <1>1, <1>2, FielSiempre, PTL DEF Spec, OperacionesAtomicas, A!Spec
=============================================================================
