------------------------------- MODULE DialFS -------------------------------
(***************************************************************************)
(* The file system of a DialFS interface (entradasalida): a bitmap, the    *)
(* blocks and one metadata file per archivo, all of them mapped files that *)
(* outlive the process, and the dictionary that is rebuilt when it starts. *)
(* One thread (hilo_dialfs) serves one operation at a time; the process    *)
(* may be cut, or call exit, and be started again.                         *)
(*                                                                         *)
(* bloques.dat is modelled cell by cell, BlockSize cells to a block. What  *)
(* a program writes in cell n of archivo f is <<f, n>>, so a value tells   *)
(* where it belongs. memcpy between overlapping runs copies as memmove     *)
(* does (it is the same code in the libc the build uses).                  *)
(***************************************************************************)
EXTENDS Integers, FiniteSets, FiniteSetsExt, Functions

CONSTANTS
    Archivos,        \* names of files
    BlockCount,      \* BLOCK_COUNT of the configuration
    BlockSize,       \* BLOCK_SIZE of the configuration
    Tamanos,         \* sizes IO_FS_TRUNCATE may ask for
    MaxCortes,       \* bound on the times the process ends
    SigueTrasRoto    \* whether operations go on after sano = "roto"

ASSUME DialFSAssumption ==
    /\ BlockCount \in Nat \ {0} /\ BlockSize \in Nat \ {0}
    /\ Tamanos \subseteq Nat
    /\ MaxCortes \in Nat /\ SigueTrasRoto \in BOOLEAN

VARIABLES
    bitmap,    \* bitmap.dat: the blocks whose bit is 1
    meta,      \* metadata files: archivo |-> [inicio, tam] (mapped by the FCBs)
    dicc,      \* diccionarioFS: the archivos with an FCB
    bloques,   \* bloques.dat
    op,        \* what hilo_dialfs is doing
    vivo,      \* the process runs
    cortes,    \* times it ended
    escrito,   \* history: the cells of each archivo that hold written data
    sano       \* history: what the operations and the cuts so far allow to expect

vars == <<bitmap, meta, dicc, bloques, op, vivo, cortes, escrito, sano>>
disco == <<bitmap, meta, bloques>>
ajeno == <<vivo, cortes>>

Cero == <<>>
Bloque == 0 .. BlockCount - 1
Celda  == 0 .. BlockCount * BlockSize - 1

(***************************************************************************)
(* Operations as they come from the kernel, and stages of one in progress. *)
(* A write or a read is of one cell, the first of the file or the first of *)
(* its second block; the code takes any pointer and any size.              *)
(***************************************************************************)
Orden ==
         [que : {"crear", "borrar"}, f : Archivos, tam : {0}, ptr : {0}]
    \cup [que : {"truncar"}, f : Archivos, tam : Tamanos, ptr : {0}]
    \cup [que : {"escribir", "leer"}, f : Archivos, tam : {1}, ptr : {0, BlockSize}]

Libre == [fase |-> "libre"]
EnFase(fase) == vivo /\ op.fase = fase
Pedido(que)  == EnFase("pedido") /\ op.orden.que = que
f0 == op.orden.f
FCB == meta[f0]

-----------------------------------------------------------------------------
(***************************************************************************)
(* Sizes, bitmap and dictionary.                                           *)
(***************************************************************************)
Techo(tam) == (tam + BlockSize - 1) \div BlockSize

\* A file of size 0 occupies one block.
Ocupa(tam) == IF tam = 0 THEN 1 ELSE Techo(tam)

Tramo(f) == meta[f].inicio .. meta[f].inicio + Ocupa(meta[f].tam) - 1

\* Mutant of CeldasDe: one block more is cleared, or copied.
CeldasDeMas(b, n) == b * BlockSize .. (b + n + 1) * BlockSize - 1

\* The cells of n blocks from block b, or of part of them.
CeldasDe(b, n) == b * BlockSize .. (b + n) * BlockSize - 1

GetBit == IF Bloque \subseteq bitmap THEN -1 ELSE Min(Bloque \ bitmap)

\* Mutant of VerificarBitmap: the end of the disk is not looked at.
VerificarBitmapSinBorde(b, n) ==
    (b + 1 .. b + n) \cap bitmap = {}

\* Mutant of VerificarBitmap: the last of the n blocks is not looked at.
VerificarBitmapMenosUno(b, n) ==
    b + n < BlockCount /\ (b + 1 .. b + n - 1) \cap bitmap = {}

\* Mutant of VerificarBitmap: the last block of the disk is never given.
VerificarBitmapSinUltimo(b, n) ==
    b + n < BlockCount - 1 /\ (b + 1 .. b + n) \cap bitmap = {}

VerificarBitmap(b, n) ==
    b + n < BlockCount /\ (b + 1 .. b + n) \cap bitmap = {}

EspacioLibre(f) ==
    BlockCount - MapThenSumSet(LAMBDA g : Ocupa(meta[g].tam), dicc) + Ocupa(meta[f].tam)

\* bloques with the cells of cs set to zero.
Borradas(cs) == [c \in Celda |-> IF c \in cs THEN Cero ELSE bloques[c]]

Empeora(s) == IF sano = "roto" THEN "roto" ELSE s

-----------------------------------------------------------------------------
TypeOK ==
    /\ bitmap \subseteq Bloque
    /\ DOMAIN meta \subseteq Archivos
    /\ \A f \in DOMAIN meta : meta[f].inicio \in Bloque /\ meta[f].tam \in Nat
    /\ dicc \subseteq Archivos /\ (sano # "roto" => dicc \subseteq DOMAIN meta)
    /\ \A c \in Celda : bloques[c] = Cero \/ bloques[c] \in Archivos \X Nat
    /\ op.fase \in {"libre", "pedido", "abrir", "cargar", "quitar", "tam", "mover", "fcb", "leido"}
    /\ vivo \in BOOLEAN /\ cortes \in 0 .. MaxCortes + 1
    /\ \A f \in Archivos : escrito[f] \subseteq Nat
    /\ sano \in {"exacto", "fuga", "roto"}

\* An empty file system, as inicializar_FS leaves it the first time.
Init ==
    /\ bitmap = {}
    /\ meta = [f \in {} |-> {}]
    /\ dicc = {}
    /\ bloques = [c \in Celda |-> Cero]
    /\ op = Libre
    /\ vivo = TRUE
    /\ cortes = 0
    /\ escrito = [f \in Archivos |-> {}]
    /\ sano = "exacto"

-----------------------------------------------------------------------------
(***************************************************************************)
(* hilo_dialfs: receive an operation; TERMINE_OPERACION is op' = Libre.    *)
(***************************************************************************)
Recibir ==
    /\ EnFase("libre")
    /\ sano # "roto" \/ SigueTrasRoto
    /\ \E o \in Orden : op' = [fase |-> "pedido", orden |-> o]
    /\ UNCHANGED <<disco, ajeno, dicc, escrito, sano>>

\* The early returns: no room or the file exists, it does not exist, the size does not
\* fit in the disk. They only log, and hilo_dialfs answers as ever.
NoSeCrea == GetBit = -1 \/ f0 \in DOMAIN meta
NoSeBorra == f0 \notin dicc
NoSeTrunca == Techo(op.orden.tam) > BlockCount \/ f0 \notin dicc

Descartar ==
    /\ \/ Pedido("crear") /\ NoSeCrea
       \/ Pedido("borrar") /\ NoSeBorra
       \/ Pedido("truncar") /\ NoSeTrunca
    /\ op' = Libre
    /\ UNCHANGED <<disco, ajeno, dicc, escrito, sano>>

(***************************************************************************)
(* crear_archivo: the bit is set, the metadata file is opened empty (it    *)
(* would be read as block 0, size 0), its contents reach it when it is     *)
(* closed, and the FCB enters the dictionary.                              *)
(***************************************************************************)
CrearReservar ==
    /\ Pedido("crear")
    /\ GetBit # -1 /\ f0 \notin DOMAIN meta
    /\ bitmap' = bitmap \cup {GetBit}
    /\ op' = [fase |-> "abrir", orden |-> op.orden, bloque |-> GetBit]
    /\ UNCHANGED <<meta, bloques, ajeno, dicc, escrito, sano>>

\* The metadata files with that of the operation, which may be new.
ConFCB(fcb) == [g \in DOMAIN meta \cup {f0} |-> IF g = f0 THEN fcb ELSE meta[g]]

CrearAbrir ==
    /\ EnFase("abrir")
    /\ meta' = ConFCB([inicio |-> 0, tam |-> 0])
    /\ op' = [op EXCEPT !.fase = "cargar"]
    /\ UNCHANGED <<bitmap, bloques, ajeno, dicc, escrito, sano>>

CrearCargar ==
    /\ EnFase("cargar")
    /\ meta' = ConFCB([inicio |-> op.bloque, tam |-> 0])
    /\ dicc' = dicc \cup {f0}
    /\ op' = Libre
    /\ UNCHANGED <<bitmap, bloques, ajeno, escrito, sano>>

(***************************************************************************)
(* delete_archivo: bits and blocks first, the metadata file last.          *)
(***************************************************************************)
BorrarLiberar ==
    /\ Pedido("borrar")
    /\ f0 \in dicc
    /\ bitmap' = bitmap \ Tramo(f0)
    /\ bloques' = Borradas(CeldasDe(FCB.inicio, Ocupa(FCB.tam)))
    /\ op' = [op EXCEPT !.fase = "quitar"]
    /\ UNCHANGED <<meta, ajeno, dicc, escrito, sano>>

BorrarQuitar ==
    /\ EnFase("quitar")
    /\ dicc' = dicc \ {f0}
    /\ meta' = Restrict(meta, DOMAIN meta \ {f0})
    /\ escrito' = [escrito EXCEPT ![f0] = {}]
    /\ op' = Libre
    /\ UNCHANGED <<bitmap, bloques, ajeno, sano>>

(***************************************************************************)
(* truncate_archivo. Pide: the blocks asked for; Tiene: the blocks it has. *)
(***************************************************************************)
Pide   == Techo(op.orden.tam)
Tiene  == Ocupa(FCB.tam)
Ultimo == FCB.inicio + Tiene - 1
Truncando == Pedido("truncar") /\ Pide <= BlockCount /\ f0 \in dicc

\* Shrinking to size 0 gives back every block, also the one that an empty file
\* goes on occupying.
TruncarAchicar ==
    /\ Truncando /\ Tiene > Pide
    /\ LET desde == FCB.inicio * BlockSize + op.orden.tam
       IN  bloques' = Borradas(desde .. desde + (Tiene - Pide) * BlockSize - 1)
    /\ bitmap' = bitmap \ (Ultimo - (Tiene - Pide) + 1 .. Ultimo)
    /\ sano' = IF Pide = 0 THEN "roto" ELSE sano
    /\ op' = [op EXCEPT !.fase = "tam"]
    /\ UNCHANGED <<meta, ajeno, dicc, escrito>>

TruncarCrecer ==
    /\ Truncando /\ Tiene < Pide
    /\ VerificarBitmap(Ultimo, Pide - Tiene)
    /\ bitmap' = bitmap \cup (Ultimo + 1 .. Ultimo + Pide - Tiene)
    /\ op' = [op EXCEPT !.fase = "tam"]
    /\ UNCHANGED <<meta, bloques, ajeno, dicc, escrito, sano>>

TruncarTam ==
    /\ EnFase("tam") \/ (Truncando /\ Tiene = Pide)
    /\ meta' = [meta EXCEPT ![f0].tam = op.orden.tam]
    /\ escrito' = [escrito EXCEPT ![f0] = @ \cap (0 .. op.orden.tam - 1)]
    /\ op' = Libre
    /\ UNCHANGED <<bitmap, bloques, ajeno, dicc, sano>>

\* perror and exit: the whole process ends; the files stay.
Salir ==
    /\ vivo' = FALSE /\ cortes' = cortes + 1
    /\ dicc' = {} /\ op' = Libre

TruncarSinEspacio ==
    /\ Truncando /\ Tiene < Pide
    /\ ~VerificarBitmap(Ultimo, Pide - Tiene) /\ EspacioLibre(f0) < Pide
    /\ Salir
    /\ UNCHANGED <<disco, escrito, sano>>

(***************************************************************************)
(* compactacion_bloques: the file leaves its blocks and waits in a buffer, *)
(* the runs of blocks after each hole move down, first the metadata of     *)
(* their files and then the blocks, and the file goes after the last one.  *)
(* Then truncate_archivo is called again.                                  *)
(***************************************************************************)
CompactarLimpiar ==
    /\ Truncando /\ Tiene < Pide
    /\ ~VerificarBitmap(Ultimo, Pide - Tiene) /\ EspacioLibre(f0) >= Pide
    /\ bitmap' = bitmap \ Tramo(f0)
    /\ op' = [fase |-> "mover", orden |-> op.orden,
              buffer |-> [i \in 0 .. Tiene * BlockSize - 1 |-> bloques[FCB.inicio * BlockSize + i]]]
    /\ UNCHANGED <<meta, bloques, ajeno, dicc, escrito, sano>>

\* The blocks in use after the first hole.
TrasHueco == {b \in bitmap : b > GetBit}

CompactarBuscar ==
    /\ EnFase("mover") /\ TrasHueco # {}
    /\ LET contiguo == Min(TrasHueco)
           fin == Min({b \in contiguo .. BlockCount : b \notin bitmap})
       IN  op' = [fase |-> "fcb", orden |-> op.orden, buffer |-> op.buffer, hueco |-> GetBit,
                  contiguo |-> contiguo, largo |-> fin - contiguo, j |-> 0]
    /\ UNCHANGED <<disco, ajeno, dicc, escrito, sano>>

\* The files that getFCBxInicio may return.
EnInicio(b) == {g \in dicc : meta[g].inicio = b}

CompactarFCB ==
    /\ EnFase("fcb") /\ op.j < op.largo
    /\ \E g \in EnInicio(op.contiguo + op.j) :
        /\ meta' = [meta EXCEPT ![g].inicio = op.hueco + op.j]
        /\ op' = [op EXCEPT !.j = @ + Ocupa(meta[g].tam)]
    /\ UNCHANGED <<bitmap, bloques, ajeno, dicc, escrito, sano>>

\* A block in use that begins no file: it returns with the work half done, and
\* truncate_archivo goes on from the beginning.
CompactarSinFCB ==
    /\ EnFase("fcb") /\ op.j < op.largo
    /\ EnInicio(op.contiguo + op.j) = {}
    /\ op' = [fase |-> "pedido", orden |-> op.orden]
    /\ sano' = "roto"
    /\ UNCHANGED <<disco, ajeno, dicc, escrito>>

\* bloques with n blocks copied from block de to block a.
Copiados(de, a, n) ==
    [c \in Celda |-> IF c \in CeldasDe(a, n) THEN bloques[c + (de - a) * BlockSize] ELSE bloques[c]]

\* Mutant of CompactarCopiar: the blocks that the run leaves are not released.
CompactarCopiarSinLiberar ==
    /\ EnFase("fcb") /\ op.j >= op.largo
    /\ bloques' = Copiados(op.contiguo, op.hueco, op.largo)
    /\ bitmap' = bitmap \cup (op.hueco .. op.hueco + op.largo - 1)
    /\ op' = [fase |-> "mover", orden |-> op.orden, buffer |-> op.buffer]
    /\ UNCHANGED <<meta, ajeno, dicc, escrito, sano>>

CompactarCopiar ==
    /\ EnFase("fcb") /\ op.j >= op.largo
    /\ bloques' = Copiados(op.contiguo, op.hueco, op.largo)
    /\ bitmap' = (bitmap \cup (op.hueco .. op.hueco + op.largo - 1))
                   \ (op.hueco + op.largo .. op.contiguo + op.largo - 1)
    /\ op' = [fase |-> "mover", orden |-> op.orden, buffer |-> op.buffer]
    /\ UNCHANGED <<meta, ajeno, dicc, escrito, sano>>

\* The buffer is as large as the disk, with zeros after the blocks of the file.
\* Mutant of EnBuffer: only the first block of the file was kept.
EnBufferPrimero(i) == IF i < BlockSize THEN op.buffer[i] ELSE Cero

EnBuffer(i) == IF i \in DOMAIN op.buffer THEN op.buffer[i] ELSE Cero

CompactarFin ==
    /\ EnFase("mover") /\ TrasHueco = {}
    /\ meta' = [meta EXCEPT ![f0].inicio = GetBit]
    /\ bloques' = [c \in Celda |-> IF c >= GetBit * BlockSize
                                   THEN EnBuffer(c - GetBit * BlockSize) ELSE bloques[c]]
    /\ bitmap' = bitmap \cup (GetBit .. GetBit + Tiene - 1)
    /\ op' = [fase |-> "pedido", orden |-> op.orden]
    /\ UNCHANGED <<ajeno, dicc, escrito, sano>>

(***************************************************************************)
(* escribir_archivo and leer_archivo. A file that does not exist or is too *)
(* short ends the process. leer_archivo takes the data from the beginning  *)
(* of the disk and not of the file.                                        *)
(***************************************************************************)
Alcanza == f0 \in dicc /\ FCB.tam >= op.orden.ptr + op.orden.tam

FueraDeArchivo ==
    /\ (Pedido("escribir") \/ Pedido("leer")) /\ ~Alcanza
    /\ Salir
    /\ UNCHANGED <<disco, escrito, sano>>

Escribir ==
    /\ Pedido("escribir") /\ Alcanza
    /\ LET n == op.orden.ptr IN
        /\ bloques' = [bloques EXCEPT ![FCB.inicio * BlockSize + n] = <<f0, n>>]
        /\ escrito' = [escrito EXCEPT ![f0] = @ \cup {n}]
    /\ op' = Libre
    /\ UNCHANGED <<bitmap, meta, ajeno, dicc, sano>>

Leer ==
    /\ Pedido("leer") /\ Alcanza
    /\ op' = [fase |-> "leido", orden |-> op.orden, dato |-> bloques[op.orden.ptr]]
    /\ UNCHANGED <<disco, ajeno, dicc, escrito, sano>>

\* The data goes to memoria, which does not answer.
EntregarLeido ==
    /\ EnFase("leido")
    /\ op' = Libre
    /\ UNCHANGED <<disco, ajeno, dicc, escrito, sano>>

-----------------------------------------------------------------------------
(***************************************************************************)
(* The process is cut in the middle of an operation, and started again.    *)
(* What it leaves behind depends on where it was: bits without a file      *)
(* (fuga), or a file whose blocks are not its own (roto).                  *)
(***************************************************************************)
Deja ==
    CASE op.fase = "abrir" -> "fuga"
      [] op.fase = "tam" -> IF Tiene < Pide THEN "fuga" ELSE "roto"
      [] op.fase \in {"cargar", "quitar", "mover", "fcb"} -> "roto"
      [] OTHER -> sano

Cortar ==
    /\ vivo /\ cortes < MaxCortes
    /\ sano' = Empeora(Deja)
    /\ Salir
    /\ UNCHANGED <<disco, escrito>>

\* incializar_el_diccionario: an FCB for every metadata file.
Reiniciar ==
    /\ ~vivo /\ cortes <= MaxCortes
    /\ vivo' = TRUE
    /\ dicc' = DOMAIN meta
    /\ UNCHANGED <<disco, op, cortes, escrito, sano>>

Hilo ==
    \/ Descartar \/ CrearReservar \/ CrearAbrir \/ CrearCargar
    \/ BorrarLiberar \/ BorrarQuitar
    \/ TruncarAchicar \/ TruncarCrecer \/ TruncarTam \/ TruncarSinEspacio
    \/ CompactarLimpiar \/ CompactarBuscar \/ CompactarFCB \/ CompactarSinFCB
    \/ CompactarCopiar \/ CompactarFin
    \/ FueraDeArchivo \/ Escribir \/ Leer \/ EntregarLeido

Next == Recibir \/ Hilo \/ Cortar \/ Reiniciar

\* The thread of the interface runs; nothing makes the kernel send operations,
\* nor anybody start the process again.
Spec == Init /\ [][Next]_vars /\ WF_vars(Hilo)

-----------------------------------------------------------------------------
EnReposo == op.fase = "libre"

\* No two files share a block and the blocks of every file are marked as used,
\* whatever was created, deleted, truncated and compacted, also after a cut
\* that lost blocks (getBit, verificar_bitmap, compactacion_bloques). What ends
\* the promise is what sets sano to "roto".
BloquesDisjuntos ==
    sano # "roto" /\ EnReposo =>
        /\ \A f \in DOMAIN meta : Tramo(f) \subseteq bitmap
        /\ \A f, g \in DOMAIN meta : f # g => Tramo(f) \cap Tramo(g) = {}

\* Without cuts no block is lost: those of the bitmap are those of the files, so
\* that espacioLIbre, which counts the blocks of the files, tells how many
\* blocks are free.
BitmapExacto ==
    sano = "exacto" /\ EnReposo => bitmap = UNION {Tramo(f) : f \in DOMAIN meta}

\* What was written in a file is on the disk where the file says, after the
\* file or others were moved, truncated or deleted, and the process restarted.
ContenidoIntacto ==
    sano # "roto" /\ EnReposo =>
        \A f \in DOMAIN meta : \A n \in escrito[f] :
            bloques[meta[f].inicio * BlockSize + n] = <<f, n>>

\* IO_FS_READ hands memoria what was written in the file as long as the file
\* is the first of the disk (leer_archivo does not add bloque_inicial).
LecturaDelPrimero ==
    op.fase = "leido" /\ sano # "roto" =>
        (meta[f0].inicio = 0 /\ op.orden.ptr \in escrito[f0]
            => op.dato = <<f0, op.orden.ptr>>)

\* Every operation ends with TERMINE_OPERACION or with the process: one
\* compaction makes room for the truncate that asked for it, so the recursion
\* of truncate_archivo stops. It need not after blocks were lost.
TodaOperacionTermina == (~EnReposo /\ sano = "exacto") ~> (EnReposo \/ sano # "exacto")

-----------------------------------------------------------------------------
(* DialFS implements SistemaArchivos.                                      *)

\* The files: one whose metadata file is open without contents is not there yet, one
\* whose blocks were given back is not there any more.
Presentes == IF sano = "roto" THEN {}
             ELSE DOMAIN meta \ (IF op.fase \in {"cargar", "quitar"} THEN {f0} ELSE {})

\* A shrink happens when the blocks are given back, a growth when the size is written.
TamDe(f) ==
    IF f \notin Presentes THEN 0
    ELSE IF op.fase = "tam" /\ f = f0 /\ Pide < Tiene THEN op.orden.tam
    ELSE meta[f].tam

\* Where the data of a file is: during a compaction, in the buffer, or in blocks that
\* are copied after the metadata of all their files.
Contenido(f, n) ==
    LET ini == meta[f].inicio
        porCopiar == op.fase = "fcb" /\ ini \in op.hueco .. op.hueco + op.j - 1
    IN  IF op.fase \in {"mover", "fcb"} /\ f = f0 THEN op.buffer[n]
        ELSE bloques[(IF porCopiar THEN ini + op.contiguo - op.hueco ELSE ini) * BlockSize + n]

A == INSTANCE SistemaArchivos WITH
    existe <- Presentes,
    tam <- [f \in Archivos |-> TamDe(f)],
    datos <- [f \in Archivos |-> {n \in 0 .. TamDe(f) - 1 : Contenido(f, n) = <<f, n>>}],
    roto <- sano = "roto"

\* The operations of DialFS happen at once for who uses the files: each changes its own
\* file only, a compaction and a restart change none, and what a cut leaves half done is
\* done or not done, until the promise ends (sano = "roto").
OperacionesAtomicas == A!Spec
=============================================================================
