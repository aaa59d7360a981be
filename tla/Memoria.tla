------------------------------ MODULE Memoria ------------------------------
(***************************************************************************)
(* Paged memory: the server memoria (its table of processes, page tables   *)
(* and bitmap of free frames) and the MMU and TLB of the CPU that          *)
(* translates against it.                                                  *)
(*                                                                         *)
(* Three kinds of thread of memoria touch the same state and only the copy *)
(* of bytes takes a mutex: the thread of the kernel creates and ends       *)
(* processes, the thread of the CPU resizes, translates, reads and writes, *)
(* and one thread per interface reads and writes.  An action is one        *)
(* iteration of the loops of those handlers; setting or clearing a bit is  *)
(* two actions, because it reads a byte of the bitmap and writes it back.  *)
(*                                                                         *)
(* Pages are numbered from 1 (page k of the code is k + 1) and the content *)
(* of a frame is one value.                                                *)
(***************************************************************************)
EXTENDS Integers, FiniteSets, Sequences, SequencesExt, FiniteSetsExt

CONSTANTS
  Pids,          \* every process that the kernel ever asks for
  NumMarcos,     \* TAM_MEMORIA / TAM_PAGINA
  AnchoByte,     \* bits in a byte of the bitmap: 8
  Valores,       \* contents of a frame
  EntradasTLB,   \* CANTIDAD_ENTRADAS_TLB
  AlgoritmoTLB,  \* ALGORITMO_TLB
  MaxPaginas,    \* bound: the largest size and page that a program names
  MaxLargo,      \* bound: the pages that one access spans
  SigueTrasAchicar, \* bound: programs go on after some process reduced its size
  Exclusivo,     \* assumption: no RESIZE runs while a process is being ended
  EntradaATiempo \* assumption: IO_STDIN_READ is in memory when the process goes on

ASSUME ParametrosMemoria ==
  /\ NumMarcos \in Nat /\ AnchoByte \in Nat \ {0}
  /\ EntradasTLB \in Nat /\ AlgoritmoTLB \in {"FIFO", "LRU"}
  /\ 0 \in Valores
  /\ MaxPaginas \in Nat /\ MaxLargo \in Nat \ {0}
  /\ SigueTrasAchicar \in BOOLEAN
  /\ Exclusivo \in BOOLEAN /\ EntradaATiempo \in BOOLEAN

\* The bitmap is created with NumMarcos / 8 bytes: the frames of an
\* incomplete last byte are never handed out.
Marcos == 0 .. AnchoByte * (NumMarcos \div AnchoByte) - 1

ByteDe(m) == {k \in Marcos : k \div AnchoByte = m \div AnchoByte}

SinMarco == -1
Paginas == 1 .. MaxPaginas
Hilos == {"KERNEL", "CPU"}

VARIABLES
  fase,     \* NUEVO, CARGADO, RECHAZADO, SALIENDO (left the CPU for good), FIN
  tabla,    \* tabla_de_paginas: the frame of each page
  libres,   \* marcosLibres: the bits that are set
  copia,    \* the byte that a thread read and has not written back yet
  ajuste,   \* redimensionarProceso in its loop: none or one record
  cierre,   \* finalizarProceso in its loop: none or one record
  dato,     \* memoria.memoria
  tlb,      \* TLB
  pedidos,  \* accesses to memory on their way
  achico    \* history: some process has reduced its size

vars == <<fase, tabla, libres, copia, ajuste, cierre, dato, tlb, pedidos, achico>>

Init ==
  /\ fase = [p \in Pids |-> "NUEVO"]
  /\ tabla = [p \in Pids |-> <<>>]
  /\ libres = Marcos
  /\ copia = [h \in Hilos |-> {}]
  /\ ajuste = {} /\ cierre = {}
  /\ dato = [m \in Marcos |-> 0]
  /\ tlb = <<>> /\ pedidos = {} /\ achico = FALSE

MarcosDe(p) == ToSet(tabla[p])
Cargados == {p \in Pids : fase[p] \notin {"NUEVO", "RECHAZADO"}}

-----------------------------------------------------------------------------
(* The bitmap: bitarray_set_bit and bitarray_clean_bit.                    *)

LeerByte(h, m) == /\ copia[h] = {}
                  /\ copia' = [copia EXCEPT ![h] = {libres \cap ByteDe(m)}]
                  /\ UNCHANGED libres

\* Mutant of EscribirByte: the byte is written as the bit alone.
EscribirByteSinCopia(h, m, queda) ==
  /\ copia[h] # {}
  /\ libres' = (libres \ ByteDe(m)) \cup (IF queda THEN {m} ELSE {})
  /\ copia' = [copia EXCEPT ![h] = {}]

EscribirByte(h, m, queda) ==
  \E b \in copia[h] :
    /\ libres' = (libres \ ByteDe(m)) \cup (IF queda THEN b \cup {m} ELSE b \ {m})
    /\ copia' = [copia EXCEPT ![h] = {}]

-----------------------------------------------------------------------------
(* The thread of the kernel.                                               *)

\* crearProceso: no place left, or no file with that name, leave no process.
\* Places are never reused: an ended process keeps its own.
Crear(p) ==
  /\ fase[p] = "NUEVO" /\ cierre = {}
  /\ \E existe \in BOOLEAN :
       fase' = [fase EXCEPT ![p] = IF existe /\ Cardinality(Cargados) < NumMarcos
                                   THEN "CARGADO" ELSE "RECHAZADO"]
  /\ UNCHANGED <<tabla, libres, copia, ajuste, cierre, dato, tlb, pedidos, achico>>

\* finalizarProceso of a process without pages.
CerrarVacio(p) ==
  /\ fase[p] = "SALIENDO" /\ cierre = {} /\ tabla[p] = <<>>
  /\ fase' = [fase EXCEPT ![p] = "FIN"]
  /\ UNCHANGED <<tabla, libres, copia, ajuste, cierre, dato, tlb, pedidos, achico>>

\* finalizarProceso up to its loop, which runs once per page and frees the
\* first element of dictionary_elements every time.
Cierre(p, m) == [pid |-> p, marco |-> m, faltan |-> Len(tabla[p])]

EmpezarCierre(p) ==
  /\ fase[p] = "SALIENDO" /\ cierre = {}
  /\ Exclusivo => ajuste = {}
  /\ \E m \in MarcosDe(p) : cierre' = {Cierre(p, m)}
  /\ UNCHANGED <<fase, tabla, libres, copia, ajuste, dato, tlb, pedidos, achico>>

CierreLee ==
  /\ \E c \in cierre : LeerByte("KERNEL", c.marco)
  /\ UNCHANGED <<fase, tabla, ajuste, cierre, dato, tlb, pedidos, achico>>

CierreEscribe ==
  \E c \in cierre :
    /\ EscribirByte("KERNEL", c.marco, TRUE)
    /\ cierre' = IF c.faltan = 1 THEN {} ELSE {[c EXCEPT !.faltan = @ - 1]}
    /\ fase' = IF c.faltan = 1 THEN [fase EXCEPT ![c.pid] = "FIN"] ELSE fase
    /\ UNCHANGED <<tabla, ajuste, dato, tlb, pedidos, achico>>

-----------------------------------------------------------------------------
(* The CPU executes an instruction of p.  It waits for every answer of     *)
(* memoria, so it and its thread there are one sequence of steps.          *)

Demora(r) == \/ r.de = "CPU" \/ r.op = "LEER" \/ r.en = "INTERFAZ"
             \/ EntradaATiempo

Puede(p) == /\ fase[p] = "CARGADO" /\ ajuste = {}
            /\ achico => SigueTrasAchicar
            /\ ~\E r \in pedidos : r.de = "CPU"
            /\ ~\E r \in pedidos : r.pid = p /\ Demora(r)

\* EXIT.
Salir(p) ==
  /\ Puede(p)
  /\ fase' = [fase EXCEPT ![p] = "SALIENDO"]
  /\ UNCHANGED <<tabla, libres, copia, ajuste, cierre, dato, tlb, pedidos, achico>>

\* RESIZE.  Asking for the present size answers at once and changes nothing.
Excede(p, n) == \/ n > NumMarcos
                \/ n - Len(tabla[p]) > Cardinality(libres)

RechazarResize(p, n) ==
  /\ Puede(p) /\ Excede(p, n)
  /\ Exclusivo => cierre = {}
  /\ fase' = [fase EXCEPT ![p] = "SALIENDO"]
  /\ UNCHANGED <<tabla, libres, copia, ajuste, cierre, dato, tlb, pedidos, achico>>

EmpezarResize(p, n) ==
  /\ Puede(p) /\ n # Len(tabla[p]) /\ ~Excede(p, n)
  /\ Exclusivo => cierre = {}
  /\ \E m \in IF n < Len(tabla[p]) THEN MarcosDe(p) ELSE {SinMarco} :
       ajuste' = {[pid |-> p, marco |-> m, faltan |-> n - Len(tabla[p])]}
  /\ UNCHANGED <<fase, tabla, libres, copia, cierre, dato, tlb, pedidos, achico>>

\* Mutant of PrimerLibre: the test of the bit is the other way round.
PrimerOcupado == Min(IF libres = Marcos THEN libres ELSE Marcos \ libres)

\* The growing loop.  buscarMarcoLibre finds a frame: the size was checked
\* and only this thread takes frames.
PrimerLibre == Min(libres)

AgregarMarco ==
  \E a \in ajuste :
    /\ a.faltan > 0 /\ libres # {}
    /\ LeerByte("CPU", PrimerLibre)
    /\ tabla' = [tabla EXCEPT ![a.pid] = Append(@, PrimerLibre)]
    /\ ajuste' = {[a EXCEPT !.marco = PrimerLibre]}
    /\ UNCHANGED <<fase, cierre, dato, tlb, pedidos, achico>>

OcuparMarco ==
  \E a \in ajuste :
    /\ a.faltan > 0
    /\ EscribirByte("CPU", a.marco, FALSE)
    /\ ajuste' = IF a.faltan = 1 THEN {} ELSE {[a EXCEPT !.faltan = @ - 1]}
    /\ UNCHANGED <<fase, tabla, cierre, dato, tlb, pedidos, achico>>

\* Mutant of SacarMarco: the last page leaves the table, the TLB is not told.
SacarMarcoDelFinal ==
  /\ \E a \in ajuste :
       /\ a.faltan < 0 /\ LeerByte("CPU", a.marco)
       /\ tabla' = [tabla EXCEPT ![a.pid] = Front(@)]
  /\ achico' = TRUE
  /\ UNCHANGED <<fase, ajuste, cierre, dato, tlb, pedidos>>

\* The shrinking loop: it takes the first element of a fresh list every
\* time, frees that frame and leaves the page table as it was.
SacarMarco ==
  /\ \E a \in ajuste : a.faltan < 0 /\ LeerByte("CPU", a.marco)
  /\ achico' = TRUE
  /\ UNCHANGED <<fase, tabla, ajuste, cierre, dato, tlb, pedidos>>

SoltarMarco ==
  \E a \in ajuste :
    /\ a.faltan < 0
    /\ EscribirByte("CPU", a.marco, TRUE)
    /\ ajuste' = IF a.faltan = -1 THEN {} ELSE {[a EXCEPT !.faltan = @ + 1]}
    /\ UNCHANGED <<fase, tabla, cierre, dato, tlb, pedidos, achico>>

-----------------------------------------------------------------------------
(* MMU and TLB.                                                            *)

\* buscarDireccionFisicaEnTablaDePaginas
MarcoEnTabla(p, k) == IF k \in DOMAIN tabla[p] THEN tabla[p][k] ELSE SinMarco

\* Mutant of EntradasDe: the PID is not compared.
EntradasDePagina(p, k) == {i \in DOMAIN tlb : tlb[i].pagina = k}

EntradasDe(p, k) == {i \in DOMAIN tlb : tlb[i].pid = p /\ tlb[i].pagina = k}

\* buscarEnTLB.  An entry kept with marco -1 reads as a miss.
MarcoEnTLB(p, k) == IF EntradasDe(p, k) = {} THEN SinMarco
                    ELSE tlb[Min(EntradasDe(p, k))].marco

\* Mutant of ConEntrada: a full list drops nothing.
ConEntradaSinSacar(p, k) ==
  Append(tlb, [pid |-> p, pagina |-> k, marco |-> MarcoEnTabla(p, k)])

\* agregarEntradaTLB: both algorithms drop the first entry of a full list.
ConEntrada(p, k) ==
  LET e == [pid |-> p, pagina |-> k, marco |-> MarcoEnTabla(p, k)]
  IN  Append(IF Len(tlb) = EntradasTLB THEN Tail(tlb) ELSE tlb, e)

\* Under LRU a hit moves the entry to the end.
Movida(i) == IF AlgoritmoTLB = "LRU" THEN Append(RemoveAt(tlb, i), tlb[i]) ELSE tlb

\* calcularDireccionFisica: the frame it uses and the TLB it leaves.
Traduccion(p, k) == IF MarcoEnTLB(p, k) # SinMarco THEN MarcoEnTLB(p, k)
                    ELSE MarcoEnTabla(p, k)

Traducir(p, k) ==
  tlb' = IF MarcoEnTLB(p, k) # SinMarco THEN Movida(Min(EntradasDe(p, k)))
         ELSE IF EntradasTLB > 0 THEN ConEntrada(p, k) ELSE tlb

-----------------------------------------------------------------------------
(* Accesses.                                                               *)

Pedido(de, en, op, p, k, n, m, s) ==
  [de |-> de, en |-> en, op |-> op, pid |-> p, pagina |-> k, largo |-> n,
   marco |-> m, num |-> 0, hechas |-> 0, valor |-> s]

Pedir(de, en, op, p, k, n, s) ==
  /\ Puede(p)
  /\ Traduccion(p, k) # SinMarco
  /\ Traducir(p, k)
  /\ pedidos' = pedidos \cup {Pedido(de, en, op, p, k, n, Traduccion(p, k), s)}
  /\ UNCHANGED <<fase, tabla, libres, copia, ajuste, cierre, dato, achico>>

MovIn(p, k, n)     == Pedir("CPU", "MEMORIA", "LEER", p, k, n, <<>>)
MovOut(p, k, v)    == Pedir("CPU", "MEMORIA", "ESCRIBIR", p, k, 1, <<v>>)
Stdin(p, k, n, v)  == Pedir("IO", "INTERFAZ", "ESCRIBIR", p, k, n, <<v>>)
Stdout(p, k, n)    == Pedir("IO", "INTERFAZ", "LEER", p, k, n, <<>>)

\* A page that the process does not have.  MOV_OUT gives up; MOV_IN asks
\* memoria for the address -1 and gets the bytes that lie there.
MovOutFuera(p, k) ==
  /\ Puede(p) /\ Traduccion(p, k) = SinMarco
  /\ Traducir(p, k)
  /\ UNCHANGED <<fase, tabla, libres, copia, ajuste, cierre, dato, pedidos, achico>>

MovInFuera(p, k, v) ==
  /\ Puede(p) /\ Traduccion(p, k) = SinMarco
  /\ Traducir(p, k)
  /\ pedidos' = pedidos \cup {Pedido("CPU", "RESPUESTA", "LEER", p, k, 1, SinMarco, <<v>>)}
  /\ UNCHANGED <<fase, tabla, libres, copia, ajuste, cierre, dato, achico>>

\* The interface asks memoria.  After a write it tells the kernel that the
\* operation ended without waiting for memoria.
Enviar(r) ==
  /\ r.en = "INTERFAZ"
  /\ pedidos' = (pedidos \ {r}) \cup {[r EXCEPT !.en = "MEMORIA"]}
  /\ UNCHANGED <<fase, tabla, libres, copia, ajuste, cierre, dato, tlb, achico>>

\* buscarPaginaPorPIDYMarco, for the first page; then the pages that follow.
PaginasDelPedido(r) ==
  IF r.hechas > 0 THEN {r.num}
  ELSE LET ks == {k \in DOMAIN tabla[r.pid] : tabla[r.pid][k] = r.marco}
       IN  IF ks = {} THEN {0} ELSE ks

\* Continues with the page after num, or is done.
Avanzar(r, num, s, fin) ==
  pedidos' = (pedidos \ {r}) \cup
    IF r.hechas + 1 = r.largo \/ MarcoEnTabla(r.pid, num + 1) = SinMarco
    THEN fin
    ELSE {[r EXCEPT !.num = num + 1, !.hechas = @ + 1, !.valor = s,
                    !.marco = MarcoEnTabla(r.pid, num + 1)]}

\* One page of obtenerDatoMemoria; the last one sends the answer.
LeerPagina(r) ==
  /\ r.en = "MEMORIA" /\ r.op = "LEER"
  /\ \E num \in PaginasDelPedido(r) :
       LET s == Append(r.valor, dato[r.marco])
       IN  Avanzar(r, num, s, {[r EXCEPT !.en = "RESPUESTA", !.valor = s]})
  /\ UNCHANGED <<fase, tabla, libres, copia, ajuste, cierre, dato, tlb, achico>>

\* One page of escribirMemoria, which drops a frame that is not of the process.
EscribirPagina(r) ==
  /\ r.en = "MEMORIA" /\ r.op = "ESCRIBIR"
  /\ \E num \in PaginasDelPedido(r) :
       IF num = 0
       THEN pedidos' = pedidos \ {r} /\ UNCHANGED dato
       ELSE /\ dato' = [dato EXCEPT ![r.marco] = r.valor[1]]
            /\ Avanzar(r, num, r.valor, {})
  /\ UNCHANGED <<fase, tabla, libres, copia, ajuste, cierre, tlb, achico>>

\* The CPU or the interface takes the answer.
Recibir(r) ==
  /\ r.en = "RESPUESTA"
  /\ pedidos' = pedidos \ {r}
  /\ UNCHANGED <<fase, tabla, libres, copia, ajuste, cierre, dato, tlb, achico>>

-----------------------------------------------------------------------------
Instruccion(p) ==
  \/ Salir(p)
  \/ \E n \in 0 .. MaxPaginas : RechazarResize(p, n) \/ EmpezarResize(p, n)
  \/ \E k \in Paginas :
       \/ MovOutFuera(p, k)
       \/ \E v \in Valores : MovInFuera(p, k, v) \/ MovOut(p, k, v)
       \/ \E n \in 1 .. MaxLargo :
            \/ MovIn(p, k, n) \/ Stdout(p, k, n)
            \/ \E v \in Valores : Stdin(p, k, n, v)

Next ==
  \/ \E p \in Pids : Crear(p) \/ CerrarVacio(p) \/ EmpezarCierre(p) \/ Instruccion(p)
  \/ CierreLee \/ CierreEscribe
  \/ AgregarMarco \/ OcuparMarco \/ SacarMarco \/ SoltarMarco
  \/ \E r \in pedidos : Enviar(r) \/ LeerPagina(r) \/ EscribirPagina(r) \/ Recibir(r)

Spec == Init /\ [][Next]_vars

-----------------------------------------------------------------------------
(* Properties.                                                             *)

Registro == [pid : Pids, marco : Marcos \cup {SinMarco}, faltan : -NumMarcos .. NumMarcos]

PedidosPosibles ==
  [de : {"CPU", "IO"}, en : {"INTERFAZ", "MEMORIA", "RESPUESTA"}, op : {"LEER", "ESCRIBIR"},
   pid : Pids, pagina : Paginas, largo : 1 .. MaxLargo, marco : Marcos \cup {SinMarco},
   num : 0 .. NumMarcos, hechas : 0 .. MaxLargo - 1, valor : Seq(Valores)]

\* Types and bounds: the TLB keeps its configured size, there is one resize
\* and one ending process at a time, and the CPU has one access on its way.
TypeOK ==
  /\ fase \in [Pids -> {"NUEVO", "CARGADO", "RECHAZADO", "SALIENDO", "FIN"}]
  /\ tabla \in [Pids -> Seq(Marcos)]
  /\ libres \subseteq Marcos
  /\ copia \in [Hilos -> SUBSET SUBSET Marcos]
  /\ \A h \in Hilos : Cardinality(copia[h]) <= 1
  /\ ajuste \subseteq Registro /\ Cardinality(ajuste) <= 1
  /\ cierre \subseteq Registro /\ Cardinality(cierre) <= 1
  /\ dato \in [Marcos -> Valores]
  /\ tlb \in Seq([pid : Pids, pagina : Paginas, marco : Marcos \cup {SinMarco}])
  /\ Len(tlb) <= EntradasTLB
  /\ pedidos \subseteq PedidosPosibles
  /\ Cardinality({r \in pedidos : r.de = "CPU"}) <= 1
  /\ achico \in BOOLEAN

Vivos == {p \in Pids : fase[p] \in {"CARGADO", "SALIENDO"}}

\* Until some process reduces its size, no frame is given to two pages of
\* the processes that memoria has not begun to end (redimensionarProceso
\* takes the first free bit, finalizarProceso and the threads of the CPU
\* and the kernel share the bitmap without a lock).
MarcosExclusivos ==
  ~achico =>
    \A p, q \in {p \in Vivos : \A c \in cierre : c.pid # p} :
      \A i \in DOMAIN tabla[p], j \in DOMAIN tabla[q] :
        tabla[p][i] = tabla[q][j] => p = q /\ i = j

\* What ending processes costs: with no resize and no ending in progress,
\* the frames that are neither free nor of a living process are one less
\* than the pages of each ended process that had any; finalizarProceso
\* gives back one frame of each, never another's.
PerdidasExactas ==
  ~achico /\ ajuste = {} /\ cierre = {} =>
    Cardinality(Marcos \ (libres \cup UNION {MarcosDe(p) : p \in Vivos}))
      = MapThenSumSet(LAMBDA p : Len(tabla[p]) - 1,
                      {p \in Pids : fase[p] = "FIN" /\ tabla[p] # <<>>})

\* An entry of the TLB that has a frame agrees with the page table of
\* memoria, which the CPU never hears of again after it asked once: no
\* resize may leave behind a translation that is no longer true.
TLBFiel ==
  \A i \in DOMAIN tlb :
    tlb[i].marco # SinMarco => /\ tlb[i].pagina <= Len(tabla[tlb[i].pid])
                              /\ tlb[i].marco = tabla[tlb[i].pid][tlb[i].pagina]

-----------------------------------------------------------------------------
(* The refinement of MemoriaVirtual.  A write counts from the moment the   *)
(* process may go on: what is still on its way covers the content of the   *)
(* frame.                                                                  *)

Faltantes(r) == r.pagina + r.hechas .. r.pagina + r.largo - 1

EnCamino(p, k) == {r \in pedidos : /\ r.pid = p /\ r.op = "ESCRIBIR"
                                   /\ r.en = "MEMORIA" /\ k \in Faltantes(r)}

Contenido(p, k) == IF EnCamino(p, k) = {} THEN dato[tabla[p][k]]
                   ELSE (CHOOSE r \in EnCamino(p, k) : TRUE).valor[1]

espacio == [p \in Pids |-> IF fase[p] = "CARGADO"
                           THEN [k \in 1 .. Len(tabla[p]) |-> Contenido(p, k)]
                           ELSE <<>>]

respuestas == {[pid |-> r.pid, pagina |-> r.pagina, valor |-> r.valor] :
                 r \in {r \in pedidos : r.en = "RESPUESTA"}}

MV == INSTANCE MemoriaVirtual

\* Until some process reduces its size, memoria and the MMU give every
\* process a space of its own: no step of a process, of an interface or of
\* the end of another process changes it, and a read answers the last write,
\* through a TLB that drops, moves and keeps failed entries.
EspacioPropio == MV!Init /\ [][MV!Next \/ achico']_<<espacio, respuestas>>
=============================================================================
