---------------------------- MODULE MemoriaProofs ----------------------------
(***************************************************************************)
(* Proofs about memoria and the MMU, for any processes, frames, contents   *)
(* and sizes of the TLB: types, the TLB, and the frames of the processes.  *)
(*                                                                         *)
(* None of the three properties is inductive. Tipos adds to TypeOK what    *)
(* the loops keep (how far they may still go, the frame they are at);      *)
(* Bitmap says what the two threads that write the bitmap know of it, and  *)
(* EnUso which frames may be free and belong to a page at the same time:   *)
(* the one that the growing loop has put in the table and not yet marked.  *)
(*                                                                         *)
(* The second half proves that Memoria implements MemoriaVirtual: every    *)
(* step of the threads of memoria, of the MMU and of the interfaces is a   *)
(* step of the private spaces, or changes none of them. It adds what is    *)
(* known of the accesses on their way: each process has one at most, its   *)
(* frame is the one of the page it has come to, and a read has copied so   *)
(* far what the frames still hold.                                         *)
(***************************************************************************)
EXTENDS Memoria, FiniteSetTheorems, WellFoundedInduction, TLAPS
ALoSumoUno(S) == \A x, y \in S : x = y

Entrada == [pid : Pids, pagina : Paginas, marco : Marcos \cup {SinMarco}]

\* The pages that the growing loop has counted and not yet marked as taken.
PorMarcar == IF copia["CPU"] = {} THEN 0 ELSE 1

TiposDatos ==
  /\ fase \in [Pids -> {"NUEVO", "CARGADO", "RECHAZADO", "SALIENDO", "FIN"}]
  /\ tabla \in [Pids -> Seq(Marcos)]
  /\ \A p \in Pids : Len(tabla[p]) <= NumMarcos
  /\ dato \in [Marcos -> Valores]
  /\ achico \in BOOLEAN

TiposBitmap ==
  /\ libres \subseteq Marcos
  /\ copia \in [Hilos -> SUBSET SUBSET Marcos]
  /\ \A h \in Hilos : ALoSumoUno(copia[h])

TiposLazos ==
  /\ ajuste \subseteq Registro /\ ALoSumoUno(ajuste)
  /\ cierre \subseteq Registro /\ ALoSumoUno(cierre)
  /\ \A a \in ajuste :
       /\ a.faltan # 0
       /\ a.faltan < 0 => a.marco \in Marcos
       /\ a.faltan > 0 => Len(tabla[a.pid]) + a.faltan - PorMarcar <= NumMarcos
  /\ \A c \in cierre : c.marco \in Marcos /\ c.faltan > 0

TiposTLB == tlb \in Seq(Entrada) /\ Len(tlb) <= EntradasTLB

PedidoBueno(r) ==
  /\ r \in PedidosPosibles /\ r.hechas < r.largo
  /\ r.en # "RESPUESTA" => r.marco \in Marcos
  /\ r.op = "ESCRIBIR" => r.valor # <<>>

TiposPedidos ==
  /\ \A r \in pedidos : PedidoBueno(r)
  /\ ALoSumoUno({r \in pedidos : r.de = "CPU"})

Tipos == TiposDatos /\ TiposBitmap /\ TiposLazos /\ TiposTLB /\ TiposPedidos

\* What the thread that holds a copy of a byte knows: nobody else has written it.
Bitmap ==
  /\ ajuste = {} \/ cierre = {}
  /\ copia["CPU"] # {} => \E a \in ajuste : /\ a.marco \in Marcos
                                             /\ copia["CPU"] = {libres \cap ByteDe(a.marco)}
  /\ copia["KERNEL"] # {} => \E c \in cierre : copia["KERNEL"] = {libres \cap ByteDe(c.marco)}

\* Who is in the loops, and who has pages.
Fases ==
  /\ \A a \in ajuste : fase[a.pid] = "CARGADO"
  /\ \A c \in cierre : fase[c.pid] = "SALIENDO"
  /\ \A p \in Pids : fase[p] \in {"NUEVO", "RECHAZADO"} => tabla[p] = <<>>

\* The processes whose frames nobody else may get.
Duenos == {p \in Vivos : \A c \in cierre : c.pid # p}

EnUso ==
  ~achico =>
    /\ \A a \in ajuste : copia["CPU"] # {} => a.faltan > 0
    /\ \A p \in Duenos : \A i \in DOMAIN tabla[p] :
         /\ tabla[p][i] \in libres =>
              \E a \in ajuste : /\ a.pid = p /\ i = Len(tabla[p]) /\ copia["CPU"] # {}
                                /\ a.marco = tabla[p][i]
         /\ \A c \in cierre : tabla[p][i] # c.marco

MarcosInv == Bitmap /\ Fases /\ EnUso /\ MarcosExclusivos

USE ParametrosMemoria

-----------------------------------------------------------------------------
(* Operators.                                                              *)

\* Min of a set of naturals is in it: every such set has a least element.
LEMMA MinimoLemma ==
    ASSUME NEW S \in SUBSET Nat, S # {}
    PROVE  Min(S) \in S
  <1>1. PICK m \in S : \A n \in S : ~ (<<n, m>> \in OpToRel(<, Nat))
    BY NatLessThanWellFounded, WFMin
  <1>2. ASSUME NEW n \in S, n < m
        PROVE  FALSE
    <2>1. <<n, m>> \in Nat \X Nat /\ <<n, m>>[1] = n /\ <<n, m>>[2] = m
      OBVIOUS
    <2>2. <<n, m>> \in OpToRel(<, Nat)
      BY ONLY <2>1, <1>2 DEF OpToRel
    <2> QED BY <1>1, <2>2
  <1>3. \A n \in S : m <= n
    BY <1>2
  <1> QED BY <1>3 DEF Min

\* buscarMarcoLibre returns a free frame.
LEMMA PrimerLibreLemma ==
    ASSUME TiposBitmap, libres # {}
    PROVE  PrimerLibre \in libres
  <1>1. libres \in SUBSET Nat
    BY DEF TiposBitmap, Marcos
  <1> QED BY <1>1, MinimoLemma DEF PrimerLibre

\* buscarEnTLB reads an entry of the page, and calcularDireccionFisica uses a frame of
\* the memory or none.
LEMMA TraduccionLemma ==
    ASSUME TiposDatos, TiposTLB, NEW p \in Pids, NEW k \in Paginas
    PROVE  /\ EntradasDe(p, k) # {} => Min(EntradasDe(p, k)) \in EntradasDe(p, k)
           /\ MarcoEnTabla(p, k) \in Marcos \cup {SinMarco}
           /\ MarcoEnTLB(p, k) \in Marcos \cup {SinMarco}
           /\ Traduccion(p, k) \in Marcos \cup {SinMarco}
  <1>1. DOMAIN tlb \subseteq Nat /\ \A i \in DOMAIN tlb : tlb[i] \in Entrada
    BY DEF TiposTLB
  <1>2. EntradasDe(p, k) \in SUBSET Nat /\ EntradasDe(p, k) \subseteq DOMAIN tlb
    BY <1>1 DEF EntradasDe
  <1>3. EntradasDe(p, k) # {} => Min(EntradasDe(p, k)) \in EntradasDe(p, k)
    BY <1>2, MinimoLemma
  <1>4. MarcoEnTabla(p, k) \in Marcos \cup {SinMarco}
    BY DEF TiposDatos, MarcoEnTabla
  <1>5. MarcoEnTLB(p, k) \in Marcos \cup {SinMarco}
    BY <1>1, <1>2, <1>3 DEF MarcoEnTLB, Entrada
  <1> QED BY <1>3, <1>4, <1>5 DEF Traduccion

\* The hit of an LRU list: the same entries, as many.
LEMMA MovidaLemma ==
    ASSUME TiposTLB, NEW i \in DOMAIN tlb
    PROVE  /\ Movida(i) \in Seq(Entrada) /\ Len(Movida(i)) = Len(tlb)
           /\ \A j \in DOMAIN Movida(i) : \E l \in DOMAIN tlb : Movida(i)[j] = tlb[l]
  <1>1. tlb \in Seq(Entrada) /\ i \in 1 .. Len(tlb) /\ Len(tlb) \in Nat
    BY DEF TiposTLB
  <1>2. CASE AlgoritmoTLB = "LRU"
    <2> DEFINE a == SubSeq(tlb, 1, i - 1)
               b == SubSeq(tlb, i + 1, Len(tlb))
               c == Append(a \o b, tlb[i])
    <2>1. /\ a \in Seq(Entrada) /\ Len(a) = i - 1
          /\ \A j \in 1 .. i - 1 : a[j] = tlb[j]
      BY <1>1
    <2>2. /\ b \in Seq(Entrada) /\ Len(b) = Len(tlb) - i
          /\ \A j \in 1 .. Len(tlb) - i : b[j] = tlb[i + j]
      BY <1>1
    <2> HIDE DEF a, b
    <2>3. /\ a \o b \in Seq(Entrada) /\ Len(a \o b) = Len(tlb) - 1
          /\ \A j \in 1 .. Len(tlb) - 1 : (a \o b)[j] = IF j <= i - 1 THEN a[j] ELSE b[j - (i - 1)]
      BY <1>1, <2>1, <2>2
    <2>4. /\ c \in Seq(Entrada) /\ Len(c) = Len(tlb)
          /\ \A j \in 1 .. Len(tlb) : c[j] = IF j = Len(tlb) THEN tlb[i] ELSE (a \o b)[j]
      BY <1>1, <2>3
    <2>5. \A j \in 1 .. Len(tlb) : \E l \in 1 .. Len(tlb) : c[j] = tlb[l]
      <3> SUFFICES ASSUME NEW j \in 1 .. Len(tlb)
                   PROVE  \E l \in 1 .. Len(tlb) : c[j] = tlb[l]
        OBVIOUS
      <3>1. CASE j = Len(tlb)
        BY <1>1, <2>4, <3>1
      <3>2. CASE j < Len(tlb) /\ j <= i - 1
        BY <1>1, <2>1, <2>3, <2>4, <3>2
      <3>3. CASE j < Len(tlb) /\ ~(j <= i - 1)
        <4>1. j - (i - 1) \in 1 .. Len(tlb) - i /\ i + (j - (i - 1)) = j + 1 /\ j \in 1 .. Len(tlb) - 1
          BY <1>1, <3>3
        <4>2. c[j] = (a \o b)[j]
          BY <2>4, <3>3
        <4>3. (a \o b)[j] = b[j - (i - 1)]
          BY ONLY <2>3, <3>3, <4>1
        <4>4. b[j - (i - 1)] = tlb[j + 1]
          BY ONLY <2>2, <4>1
        <4>5. j + 1 \in 1 .. Len(tlb) /\ c[j] = tlb[j + 1]
          BY <1>1, <3>3, <4>2, <4>3, <4>4
        <4> HIDE DEF c
        <4> QED BY ONLY <4>5
      <3>4. j = Len(tlb) \/ j < Len(tlb)
        BY <1>1
      <3> HIDE DEF c
      <3> QED BY <3>1, <3>2, <3>3, <3>4
    <2>6. Movida(i) = c
      BY <1>2 DEF Movida, RemoveAt, a, b
    <2> HIDE DEF c
    <2>7. DOMAIN c = 1 .. Len(tlb) /\ DOMAIN tlb = 1 .. Len(tlb)
      BY <1>1, <2>4
    <2> QED BY <2>4, <2>5, <2>6, <2>7
  <1>3. CASE AlgoritmoTLB # "LRU"
    BY <1>1, <1>3 DEF Movida
  <1> QED BY <1>2, <1>3

\* What a translation does to the list: entries that were there, and at most one new one,
\* which says what the page table says.
LEMMA TraducirLemma ==
    ASSUME TiposDatos, TiposTLB, NEW p \in Pids, NEW k \in Paginas, Traducir(p, k)
    PROVE  /\ TiposTLB'
           /\ \A j \in DOMAIN tlb' :
                \/ \E l \in DOMAIN tlb : tlb'[j] = tlb[l]
                \/ tlb'[j] = [pid |-> p, pagina |-> k, marco |-> MarcoEnTabla(p, k)]
  <1>1. tlb \in Seq(Entrada) /\ Len(tlb) \in Nat /\ DOMAIN tlb = 1 .. Len(tlb)
    BY DEF TiposTLB
  <1>2. CASE MarcoEnTLB(p, k) # SinMarco
    <2>1. EntradasDe(p, k) # {}
      BY <1>2 DEF MarcoEnTLB
    <2>2. Min(EntradasDe(p, k)) \in DOMAIN tlb
      BY <2>1, TraduccionLemma DEF EntradasDe
    <2>3. tlb' = Movida(Min(EntradasDe(p, k)))
      BY <1>2 DEF Traducir
    <2> QED BY <2>2, <2>3, MovidaLemma DEF TiposTLB
  <1>3. CASE MarcoEnTLB(p, k) = SinMarco /\ EntradasTLB > 0
    <2> DEFINE e == [pid |-> p, pagina |-> k, marco |-> MarcoEnTabla(p, k)]
               t == IF Len(tlb) = EntradasTLB THEN Tail(tlb) ELSE tlb
    <2>1. e \in Entrada
      BY TraduccionLemma DEF Entrada
    <2>2. /\ t \in Seq(Entrada) /\ Len(t) \in Nat /\ Len(t) + 1 <= EntradasTLB
          /\ \A j \in 1 .. Len(t) : \E l \in DOMAIN tlb : t[j] = tlb[l]
      <3>1. CASE Len(tlb) = EntradasTLB
        <4>1. /\ Tail(tlb) \in Seq(Entrada) /\ Len(Tail(tlb)) = Len(tlb) - 1
              /\ \A j \in 1 .. Len(tlb) - 1 : Tail(tlb)[j] = tlb[j + 1] /\ j + 1 \in DOMAIN tlb
          BY <1>1, <1>3, <3>1
        <4> QED BY <1>1, <1>3, <3>1, <4>1
      <3>2. CASE Len(tlb) # EntradasTLB
        <4>1. t = tlb
          BY ONLY <3>2
        <4>2. Len(tlb) <= EntradasTLB /\ EntradasTLB \in Nat
          BY DEF TiposTLB
        <4>3. \A n, m \in Nat : n <= m /\ n # m => n + 1 <= m
          OBVIOUS
        <4>4. Len(tlb) + 1 <= EntradasTLB
          BY <1>1, <3>2, <4>2, <4>3
        <4> HIDE DEF t
        <4> QED BY ONLY <1>1, <4>1, <4>4
      <3> QED BY <3>1, <3>2
    <2>3. tlb' = Append(t, e)
      BY <1>3 DEF Traducir, ConEntrada
    <2> HIDE DEF t, e
    <2>4. /\ tlb' \in Seq(Entrada) /\ Len(tlb') = Len(t) + 1 /\ DOMAIN tlb' = 1 .. Len(t) + 1
          /\ \A j \in 1 .. Len(t) + 1 : tlb'[j] = IF j = Len(t) + 1 THEN e ELSE t[j]
      BY <2>1, <2>2, <2>3
    <2>5. \A j \in DOMAIN tlb' : (\E l \in DOMAIN tlb : tlb'[j] = tlb[l]) \/ tlb'[j] = e
      BY <2>2, <2>4
    <2> QED BY <2>2, <2>4, <2>5 DEF TiposTLB, e
  <1>4. CASE MarcoEnTLB(p, k) = SinMarco /\ ~(EntradasTLB > 0)
    BY <1>1, <1>4 DEF Traducir, TiposTLB
  <1> QED BY <1>2, <1>3, <1>4

\* The first half of setting or clearing a bit: the thread has its copy of the byte.
LEMMA LeerByteLemma ==
    ASSUME TiposBitmap, NEW h \in Hilos, NEW m, LeerByte(h, m)
    PROVE  /\ TiposBitmap' /\ libres' = libres
           /\ copia[h] = {} /\ copia'[h] = {libres \cap ByteDe(m)}
           /\ \A g \in Hilos : g # h => copia'[g] = copia[g]
  <1>1. copia \in [Hilos -> SUBSET SUBSET Marcos]
    BY DEF TiposBitmap
  <1>2. /\ libres' = libres /\ copia[h] = {}
        /\ copia' = [copia EXCEPT ![h] = {libres \cap ByteDe(m)}]
    BY DEF LeerByte
  <1>3. {libres \cap ByteDe(m)} \in SUBSET SUBSET Marcos
    BY DEF TiposBitmap
  <1>4. copia' \in [Hilos -> SUBSET SUBSET Marcos]
    BY <1>1, <1>2, <1>3
  <1>5. /\ copia'[h] = {libres \cap ByteDe(m)}
        /\ \A g \in Hilos : g # h => copia'[g] = copia[g]
    BY <1>1, <1>2
  <1>6. \A g \in Hilos : ALoSumoUno(copia'[g])
    BY <1>5 DEF TiposBitmap, ALoSumoUno
  <1> QED BY <1>2, <1>4, <1>5, <1>6 DEF TiposBitmap

\* The second half: the other bits are those of the copy.
LEMMA EscribirByteLemma ==
    ASSUME TiposBitmap, NEW h \in Hilos, NEW m, NEW queda \in BOOLEAN,
           queda => m \in Marcos, EscribirByte(h, m, queda)
    PROVE  /\ TiposBitmap'
           /\ copia[h] # {} /\ copia'[h] = {}
           /\ \A g \in Hilos : g # h => copia'[g] = copia[g]
           /\ m \in Marcos /\ copia[h] = {libres \cap ByteDe(m)} =>
                libres' = IF queda THEN libres \cup {m} ELSE libres \ {m}
  <1>1. copia \in [Hilos -> SUBSET SUBSET Marcos] /\ libres \subseteq Marcos
    BY DEF TiposBitmap
  <1>2. PICK b \in copia[h] :
          /\ libres' = (libres \ ByteDe(m)) \cup (IF queda THEN b \cup {m} ELSE b \ {m})
          /\ copia' = [copia EXCEPT ![h] = {}]
    BY DEF EscribirByte
  <1>3. b \subseteq Marcos /\ libres' \subseteq Marcos
    BY <1>1, <1>2
  <1>4. /\ copia' \in [Hilos -> SUBSET SUBSET Marcos] /\ copia'[h] = {}
        /\ \A g \in Hilos : g # h => copia'[g] = copia[g]
    BY <1>1, <1>2
  <1>5. \A g \in Hilos : ALoSumoUno(copia'[g])
    BY <1>4 DEF TiposBitmap, ALoSumoUno
  <1>6. ASSUME m \in Marcos, copia[h] = {libres \cap ByteDe(m)}
        PROVE  libres' = IF queda THEN libres \cup {m} ELSE libres \ {m}
    <2>1. b = libres \cap ByteDe(m) /\ m \in ByteDe(m)
      BY <1>2, <1>6 DEF ByteDe
    <2> QED BY <1>2, <2>1
  <1> QED BY <1>2, <1>3, <1>4, <1>5, <1>6 DEF TiposBitmap

-----------------------------------------------------------------------------
(* Types.                                                                  *)

\* The initial state.
LEMMA TiposInicio == Init => Tipos
  <1> SUFFICES ASSUME Init PROVE Tipos
    OBVIOUS
  <1>1. TiposDatos
    <2>1. /\ fase \in [Pids -> {"NUEVO", "CARGADO", "RECHAZADO", "SALIENDO", "FIN"}]
          /\ dato \in [Marcos -> Valores] /\ achico \in BOOLEAN
      BY DEF Init
    <2>2. /\ tabla \in [Pids -> Seq(Marcos)]
          /\ \A p \in Pids : Len(tabla[p]) <= NumMarcos
      BY DEF Init
    <2> QED BY <2>1, <2>2 DEF TiposDatos
  <1>2. TiposBitmap
    BY DEF Init, TiposBitmap, ALoSumoUno
  <1>3. TiposLazos /\ TiposPedidos
    BY DEF Init, TiposLazos, TiposPedidos, ALoSumoUno
  <1>4. TiposTLB
    BY DEF Init, TiposTLB
  <1> QED BY <1>1, <1>2, <1>3, <1>4 DEF Tipos

\* The steps that change the phase of a process and nothing else.
SoloFase(p) == Crear(p) \/ CerrarVacio(p) \/ Salir(p) \/ \E n \in 0 .. MaxPaginas : RechazarResize(p, n)

LEMMA TiposSoloFase ==
    ASSUME Tipos, NEW p \in Pids, SoloFase(p)
    PROVE  Tipos'
  <1>1. /\ UNCHANGED <<tabla, libres, copia, ajuste, cierre, dato, tlb, pedidos, achico>>
        /\ \E f \in {"NUEVO", "CARGADO", "RECHAZADO", "SALIENDO", "FIN"} :
             fase' = [fase EXCEPT ![p] = f]
    BY DEF SoloFase, Crear, CerrarVacio, Salir, RechazarResize
  <1>2. TiposDatos'
    BY <1>1 DEF Tipos, TiposDatos
  <1>3. TiposBitmap' /\ TiposTLB'
    BY <1>1 DEF Tipos, TiposBitmap, TiposTLB
  <1>4. TiposLazos' /\ TiposPedidos'
    BY <1>1 DEF Tipos, TiposLazos, TiposPedidos, PorMarcar
  <1> QED BY <1>2, <1>3, <1>4 DEF Tipos

\* finalizarProceso: its loop counts the pages down and never below one.
LEMMA TiposCierre ==
    ASSUME Tipos, (\E p \in Pids : EmpezarCierre(p)) \/ CierreLee \/ CierreEscribe
    PROVE  Tipos'
  <1> USE DEF Tipos
  <1>1. ASSUME NEW p \in Pids, EmpezarCierre(p)
        PROVE  Tipos'
    <2>1. /\ UNCHANGED <<fase, tabla, libres, copia, ajuste, dato, tlb, pedidos, achico>>
          /\ \E m \in MarcosDe(p) : cierre' = {Cierre(p, m)}
      BY <1>1 DEF EmpezarCierre
    <2>2. TiposDatos' /\ TiposBitmap'
      BY <2>1 DEF TiposDatos, TiposBitmap
    <2>3. TiposTLB' /\ TiposPedidos'
      BY <2>1 DEF TiposTLB, TiposPedidos
    <2>4. PICK m \in MarcosDe(p) : cierre' = {Cierre(p, m)}
      BY <2>1
    <2>5. tabla[p] \in Seq(Marcos) /\ Len(tabla[p]) <= NumMarcos /\ tabla' = tabla
      BY <2>1 DEF TiposDatos
    <2>6. m \in Marcos /\ Len(tabla[p]) \in 1 .. NumMarcos
      BY <2>4, <2>5 DEF MarcosDe, ToSet
    <2>7. Cierre(p, m) \in Registro /\ Cierre(p, m).marco = m /\ Cierre(p, m).faltan = Len(tabla[p])
      BY <2>6 DEF Cierre, Registro
    <2>8. TiposLazos'
      BY <2>1, <2>4, <2>6, <2>7 DEF TiposLazos, ALoSumoUno, PorMarcar
    <2> QED BY <2>2, <2>3, <2>8
  <1>2. ASSUME CierreLee
        PROVE  Tipos'
    <2>1. PICK c \in cierre : LeerByte("KERNEL", c.marco)
      BY <1>2 DEF CierreLee
    <2>2. UNCHANGED <<fase, tabla, ajuste, cierre, dato, tlb, pedidos, achico>>
      BY <1>2 DEF CierreLee
    <2>3. TiposBitmap' /\ copia'["CPU"] = copia["CPU"]
      BY <2>1, LeerByteLemma DEF Hilos
    <2>4. TiposDatos' /\ TiposTLB' /\ TiposPedidos'
      BY <2>2 DEF TiposDatos, TiposTLB, TiposPedidos
    <2>5. TiposLazos'
      BY <2>2, <2>3 DEF TiposLazos, PorMarcar
    <2> QED BY <2>3, <2>4, <2>5
  <1>3. ASSUME CierreEscribe
        PROVE  Tipos'
    <2>1. PICK c \in cierre :
            /\ EscribirByte("KERNEL", c.marco, TRUE)
            /\ cierre' = IF c.faltan = 1 THEN {} ELSE {[c EXCEPT !.faltan = @ - 1]}
            /\ fase' = IF c.faltan = 1 THEN [fase EXCEPT ![c.pid] = "FIN"] ELSE fase
            /\ UNCHANGED <<tabla, ajuste, dato, tlb, pedidos, achico>>
      BY <1>3 DEF CierreEscribe
    <2>2. c \in Registro /\ c.marco \in Marcos /\ c.faltan > 0
      BY DEF TiposLazos
    <2>3. TiposBitmap' /\ copia'["CPU"] = copia["CPU"]
      BY <2>1, <2>2, EscribirByteLemma DEF Hilos
    <2>4. TiposTLB' /\ TiposPedidos'
      BY <2>1 DEF TiposTLB, TiposPedidos
    <2>5. TiposDatos'
      BY <2>1, <2>2 DEF TiposDatos, Registro
    <2>6. c.faltan # 1 => /\ [c EXCEPT !.faltan = @ - 1] \in Registro
                          /\ [c EXCEPT !.faltan = @ - 1].marco \in Marcos
                          /\ [c EXCEPT !.faltan = @ - 1].faltan > 0
      BY <2>2 DEF Registro
    <2>7. TiposLazos'
      BY <2>1, <2>3, <2>6 DEF TiposLazos, ALoSumoUno, PorMarcar
    <2> QED BY <2>3, <2>4, <2>5, <2>7
  <1> QED BY <1>1, <1>2, <1>3

\* redimensionarProceso: the pages that it has still to add fit in the memory.
LEMMA TiposEmpezarResize ==
    ASSUME Tipos, NEW p \in Pids, NEW n \in 0 .. MaxPaginas, EmpezarResize(p, n)
    PROVE  Tipos'
  <1> USE DEF Tipos
  <1>1. /\ UNCHANGED <<fase, tabla, libres, copia, cierre, dato, tlb, pedidos, achico>>
        /\ ~ (n > NumMarcos) /\ n # Len(tabla[p])
    BY DEF EmpezarResize, Excede
  <1>2. PICK m \in IF n < Len(tabla[p]) THEN MarcosDe(p) ELSE {SinMarco} :
          ajuste' = {[pid |-> p, marco |-> m, faltan |-> n - Len(tabla[p])]}
    BY DEF EmpezarResize
  <1>3. tabla[p] \in Seq(Marcos) /\ Len(tabla[p]) \in 0 .. NumMarcos /\ n \in 0 .. NumMarcos
    BY <1>1 DEF TiposDatos
  <1>4. MarcosDe(p) \subseteq Marcos
    BY <1>3 DEF MarcosDe, ToSet
  <1> DEFINE a == [pid |-> p, marco |-> m, faltan |-> n - Len(tabla[p])]
  <1>5. m \in Marcos \cup {SinMarco} /\ (n < Len(tabla[p]) => m \in Marcos)
    BY <1>2, <1>4
  <1>6. a.pid = p /\ a.marco = m /\ a.faltan = n - Len(tabla[p])
    OBVIOUS
  <1>7. n - Len(tabla[p]) \in -NumMarcos .. NumMarcos
    BY <1>3
  <1>8. a \in Registro
    BY <1>5, <1>7 DEF Registro
  <1>9. a.faltan # 0 /\ (a.faltan < 0 => a.marco \in Marcos)
        /\ Len(tabla[a.pid]) + a.faltan = n
    BY <1>1, <1>3, <1>5, <1>6
  <1>10. ajuste' = {a}
    BY <1>2
  <1> HIDE DEF a
  <1>11. PorMarcar' \in {0, 1} /\ a.faltan \in Int
    BY <1>8 DEF PorMarcar, Registro
  <1>12. a.faltan > 0 => Len(tabla'[a.pid]) + a.faltan - PorMarcar' <= NumMarcos
    BY <1>1, <1>3, <1>9, <1>11
  <1>13. TiposLazos'
    BY <1>1, <1>8, <1>9, <1>10, <1>12 DEF TiposLazos, ALoSumoUno
  <1>14. TiposDatos' /\ TiposBitmap'
    BY <1>1 DEF TiposDatos, TiposBitmap
  <1>15. TiposTLB' /\ TiposPedidos'
    BY <1>1 DEF TiposTLB, TiposPedidos
  <1> QED BY <1>13, <1>14, <1>15

LEMMA TiposAgregar ==
    ASSUME Tipos, AgregarMarco
    PROVE  Tipos'
  <1> USE DEF Tipos
  <1>1. PICK a \in ajuste :
          /\ a.faltan > 0 /\ libres # {}
          /\ LeerByte("CPU", PrimerLibre)
          /\ tabla' = [tabla EXCEPT ![a.pid] = Append(@, PrimerLibre)]
          /\ ajuste' = {[a EXCEPT !.marco = PrimerLibre]}
          /\ UNCHANGED <<fase, cierre, dato, tlb, pedidos, achico>>
    BY DEF AgregarMarco
  <1>2. PrimerLibre \in Marcos
    BY <1>1, PrimerLibreLemma DEF TiposBitmap
  <1>3. TiposBitmap' /\ copia["CPU"] = {} /\ copia'["CPU"] # {}
    BY <1>1, LeerByteLemma DEF Hilos
  <1>4. /\ a \in Registro /\ a.pid \in Pids /\ a.faltan \in Int
        /\ Len(tabla[a.pid]) + a.faltan <= NumMarcos
    BY <1>1, <1>3 DEF TiposLazos, PorMarcar, Registro, TiposDatos
  <1>5. /\ tabla[a.pid] \in Seq(Marcos) /\ Append(tabla[a.pid], PrimerLibre) \in Seq(Marcos)
        /\ Len(Append(tabla[a.pid], PrimerLibre)) = Len(tabla[a.pid]) + 1
        /\ Len(tabla[a.pid]) \in Nat
    BY <1>2, <1>4 DEF TiposDatos
  <1>6. /\ tabla' \in [Pids -> Seq(Marcos)]
        /\ Len(tabla'[a.pid]) = Len(tabla[a.pid]) + 1
        /\ \A p \in Pids : p # a.pid => tabla'[p] = tabla[p]
    BY <1>1, <1>4, <1>5 DEF TiposDatos
  <1>7. Len(tabla[a.pid]) + 1 <= NumMarcos
    BY <1>1, <1>4, <1>5
  <1>8. TiposDatos'
    BY <1>1, <1>6, <1>7 DEF TiposDatos
  <1>9. TiposTLB' /\ TiposPedidos'
    BY <1>1 DEF TiposTLB, TiposPedidos
  <1> DEFINE b == [a EXCEPT !.marco = PrimerLibre]
  <1>10. b \in Registro /\ b.pid = a.pid /\ b.faltan = a.faltan /\ b.marco \in Marcos
    BY <1>2, <1>4 DEF Registro
  <1>11. ajuste' = {b} /\ cierre' = cierre
    BY <1>1
  <1> HIDE DEF b
  <1>12. PorMarcar' = 1
    BY <1>3 DEF PorMarcar
  <1>13. Len(tabla'[b.pid]) + b.faltan - PorMarcar' <= NumMarcos
    BY <1>4, <1>5, <1>6, <1>10, <1>12
  <1>14. TiposLazos'
    BY <1>1, <1>10, <1>11, <1>13 DEF TiposLazos, ALoSumoUno
  <1> QED BY <1>3, <1>8, <1>9, <1>14

LEMMA TiposOcupar ==
    ASSUME Tipos, OcuparMarco
    PROVE  Tipos'
  <1> USE DEF Tipos
  <1>1. PICK a \in ajuste :
          /\ a.faltan > 0
          /\ EscribirByte("CPU", a.marco, FALSE)
          /\ ajuste' = IF a.faltan = 1 THEN {} ELSE {[a EXCEPT !.faltan = @ - 1]}
          /\ UNCHANGED <<fase, tabla, cierre, dato, tlb, pedidos, achico>>
    BY DEF OcuparMarco
  <1>2. TiposBitmap' /\ copia["CPU"] # {} /\ copia'["CPU"] = {}
    BY <1>1, EscribirByteLemma DEF Hilos
  <1>3. PorMarcar = 1 /\ PorMarcar' = 0
    BY <1>2 DEF PorMarcar
  <1>4. /\ a \in Registro /\ a.faltan \in -NumMarcos .. NumMarcos
        /\ Len(tabla[a.pid]) \in Nat /\ Len(tabla[a.pid]) + a.faltan - 1 <= NumMarcos
    BY <1>1, <1>3 DEF TiposLazos, TiposDatos, Registro
  <1> DEFINE b == [a EXCEPT !.faltan = @ - 1]
  <1>5. a.faltan # 1 => /\ b \in Registro /\ b.pid = a.pid /\ b.faltan > 0
                        /\ b.faltan = a.faltan - 1
    BY <1>1, <1>4 DEF Registro
  <1>6. ajuste' = IF a.faltan = 1 THEN {} ELSE {b}
    BY <1>1
  <1> HIDE DEF b
  <1>7. a.faltan # 1 => Len(tabla'[b.pid]) + b.faltan - PorMarcar' <= NumMarcos
    BY <1>1, <1>3, <1>4, <1>5
  <1>8. a.faltan # 1 => b.faltan # 0 /\ ~ (b.faltan < 0)
    BY <1>4, <1>5
  <1>9. /\ ajuste' \subseteq Registro /\ ALoSumoUno(ajuste')
        /\ \A x \in ajuste' : x = b /\ a.faltan # 1
    BY <1>5, <1>6 DEF ALoSumoUno
  <1>10. TiposLazos'
    BY <1>1, <1>7, <1>8, <1>9 DEF TiposLazos
  <1>11. TiposDatos' /\ TiposTLB' /\ TiposPedidos'
    BY <1>1 DEF TiposDatos, TiposTLB, TiposPedidos
  <1> QED BY <1>2, <1>10, <1>11

LEMMA TiposSacar ==
    ASSUME Tipos, SacarMarco
    PROVE  Tipos'
  <1> USE DEF Tipos
  <1>1. PICK a \in ajuste : a.faltan < 0 /\ LeerByte("CPU", a.marco)
    BY DEF SacarMarco
  <1>2. /\ achico' = TRUE
        /\ UNCHANGED <<fase, tabla, ajuste, cierre, dato, tlb, pedidos>>
    BY DEF SacarMarco
  <1>3. TiposBitmap'
    BY <1>1, LeerByteLemma DEF Hilos
  <1>4. \A x \in ajuste : ~ (x.faltan > 0)
    <2>1. a.faltan \in Int /\ \A x \in ajuste : x = a
      BY DEF TiposLazos, ALoSumoUno, Registro
    <2> QED BY <1>1, <2>1
  <1>5. TiposLazos'
    BY <1>2, <1>4 DEF TiposLazos
  <1>6. TiposDatos' /\ TiposTLB' /\ TiposPedidos'
    BY <1>2 DEF TiposDatos, TiposTLB, TiposPedidos
  <1> QED BY <1>3, <1>5, <1>6

LEMMA TiposSoltar ==
    ASSUME Tipos, SoltarMarco
    PROVE  Tipos'
  <1> USE DEF Tipos
  <1>1. PICK a \in ajuste :
          /\ a.faltan < 0
          /\ EscribirByte("CPU", a.marco, TRUE)
          /\ ajuste' = IF a.faltan = -1 THEN {} ELSE {[a EXCEPT !.faltan = @ + 1]}
          /\ UNCHANGED <<fase, tabla, cierre, dato, tlb, pedidos, achico>>
    BY DEF SoltarMarco
  <1>2. a \in Registro /\ a.marco \in Marcos /\ a.faltan \in -NumMarcos .. NumMarcos
    BY <1>1 DEF TiposLazos, Registro
  <1>3. TiposBitmap'
    BY <1>1, <1>2, EscribirByteLemma DEF Hilos
  <1> DEFINE b == [a EXCEPT !.faltan = @ + 1]
  <1>4. a.faltan # -1 => /\ b \in Registro /\ b.marco \in Marcos
                         /\ b.faltan < 0 /\ b.faltan # 0 /\ ~ (b.faltan > 0)
    BY <1>1, <1>2 DEF Registro
  <1>5. ajuste' = IF a.faltan = -1 THEN {} ELSE {b}
    BY <1>1
  <1> HIDE DEF b
  <1>6. /\ ajuste' \subseteq Registro /\ ALoSumoUno(ajuste')
        /\ \A x \in ajuste' : x = b /\ a.faltan # -1
    BY <1>4, <1>5 DEF ALoSumoUno
  <1>7. TiposLazos'
    BY <1>1, <1>4, <1>6 DEF TiposLazos
  <1>8. TiposDatos' /\ TiposTLB' /\ TiposPedidos'
    BY <1>1 DEF TiposDatos, TiposTLB, TiposPedidos
  <1> QED BY <1>3, <1>7, <1>8

\* A new request.
LEMMA PedidoNuevoLemma ==
    ASSUME NEW p \in Pids, NEW k \in Paginas, NEW n \in 1 .. MaxLargo,
           NEW de \in {"CPU", "IO"}, NEW en \in {"INTERFAZ", "MEMORIA", "RESPUESTA"},
           NEW op \in {"LEER", "ESCRIBIR"}, NEW m \in Marcos \cup {SinMarco}, NEW s \in Seq(Valores),
           en # "RESPUESTA" => m \in Marcos, op = "ESCRIBIR" => s # <<>>
    PROVE  PedidoBueno(Pedido(de, en, op, p, k, n, m, s))
  <1>1. 0 \in 0 .. NumMarcos /\ 0 \in 0 .. MaxLargo - 1 /\ 0 < n
    OBVIOUS
  <1>2. Pedido(de, en, op, p, k, n, m, s) \in PedidosPosibles
    BY <1>1 DEF Pedido, PedidosPosibles
  <1> QED BY <1>1, <1>2 DEF PedidoBueno, Pedido

\* Whoever asks has nothing on its way from the CPU.
LEMMA PedirLemma ==
    ASSUME TiposPedidos, NEW p, Puede(p), NEW r, PedidoBueno(r), pedidos' = pedidos \cup {r}
    PROVE  TiposPedidos'
  <1>1. \A x \in pedidos : x.de # "CPU"
    BY DEF Puede
  <1>2. \A x \in pedidos' : PedidoBueno(x)
    BY DEF TiposPedidos
  <1>3. ALoSumoUno({x \in pedidos' : x.de = "CPU"})
    BY <1>1 DEF ALoSumoUno
  <1> QED BY <1>2, <1>3 DEF TiposPedidos

\* A request leaves a request of its own kind or none.
LEMMA ReemplazarLemma ==
    ASSUME TiposPedidos, NEW r \in pedidos, NEW S, pedidos' = (pedidos \ {r}) \cup S,
           ALoSumoUno(S), \A x \in S : PedidoBueno(x) /\ x.de = r.de
    PROVE  TiposPedidos'
  <1>1. \A x \in pedidos' : PedidoBueno(x)
    BY DEF TiposPedidos
  <1>2. ALoSumoUno({x \in pedidos' : x.de = "CPU"})
    BY DEF ALoSumoUno, TiposPedidos
  <1> QED BY <1>1, <1>2 DEF TiposPedidos

\* One page of an access: obtenerDatoMemoria and escribirMemoria go on only with a page
\* that the process has, and no further than the length.
LEMMA AvanzarLemma ==
    ASSUME TiposDatos, TiposPedidos, NEW r \in pedidos, r.en = "MEMORIA",
           NEW num \in PaginasDelPedido(r), NEW s \in Seq(Valores),
           r.op = "ESCRIBIR" => s # <<>>,
           NEW fin, ALoSumoUno(fin), \A x \in fin : PedidoBueno(x) /\ x.de = r.de,
           Avanzar(r, num, s, fin)
    PROVE  TiposPedidos'
  <1>1. PedidoBueno(r) /\ r \in PedidosPosibles
    BY DEF TiposPedidos, PedidoBueno
  <1>2. /\ r.pid \in Pids /\ r.hechas \in 0 .. MaxLargo - 1 /\ r.largo \in 1 .. MaxLargo
        /\ r.hechas < r.largo /\ tabla[r.pid] \in Seq(Marcos) /\ Len(tabla[r.pid]) <= NumMarcos
        /\ r.num \in 0 .. NumMarcos
    BY <1>1 DEF PedidoBueno, PedidosPosibles, TiposDatos
  <1>3. num \in Nat
    BY <1>2 DEF PaginasDelPedido
  <1>4. CASE r.hechas + 1 = r.largo \/ MarcoEnTabla(r.pid, num + 1) = SinMarco
    BY <1>4, ReemplazarLemma DEF Avanzar
  <1>5. CASE ~ (r.hechas + 1 = r.largo \/ MarcoEnTabla(r.pid, num + 1) = SinMarco)
    <2> DEFINE x == [r EXCEPT !.num = num + 1, !.hechas = @ + 1, !.valor = s,
                              !.marco = MarcoEnTabla(r.pid, num + 1)]
    <2>1. num + 1 \in 0 .. NumMarcos /\ MarcoEnTabla(r.pid, num + 1) \in Marcos
      BY <1>2, <1>3, <1>5 DEF MarcoEnTabla
    <2>2. r.hechas + 1 \in 0 .. MaxLargo - 1 /\ r.hechas + 1 < r.largo
      BY <1>2, <1>5
    <2>3. /\ x.hechas = r.hechas + 1 /\ x.largo = r.largo /\ x.de = r.de /\ x.op = r.op
          /\ x.valor = s /\ x.marco = MarcoEnTabla(r.pid, num + 1) /\ x \in PedidosPosibles
      BY <1>1, <2>1, <2>2 DEF PedidosPosibles
    <2>4. pedidos' = (pedidos \ {r}) \cup {x}
      BY <1>5 DEF Avanzar
    <2> HIDE DEF x
    <2>5. PedidoBueno(x) /\ x.de = r.de
      BY <2>1, <2>2, <2>3 DEF PedidoBueno
    <2>6. ALoSumoUno({x})
      BY DEF ALoSumoUno
    <2> QED BY <2>4, <2>5, <2>6, ReemplazarLemma
  <1> QED BY <1>4, <1>5

\* The instructions that translate: they change the TLB and the requests.
LEMMA TiposInstruccion ==
    ASSUME Tipos, NEW p \in Pids, NEW k \in Paginas,
           \/ MovOutFuera(p, k)
           \/ \E v \in Valores : MovInFuera(p, k, v) \/ MovOut(p, k, v)
           \/ \E n \in 1 .. MaxLargo : \/ MovIn(p, k, n) \/ Stdout(p, k, n)
                                      \/ \E v \in Valores : Stdin(p, k, n, v)
    PROVE  Tipos'
  <1> USE DEF Tipos
  <1>1. ASSUME UNCHANGED <<fase, tabla, libres, copia, ajuste, cierre, dato, achico>>,
               Traducir(p, k), TiposPedidos'
        PROVE  Tipos'
    <2>1. TiposTLB'
      BY <1>1, TraducirLemma
    <2>2. TiposDatos' /\ TiposBitmap' /\ TiposLazos'
      BY <1>1 DEF TiposDatos, TiposBitmap, TiposLazos, PorMarcar
    <2> QED BY <1>1, <2>1, <2>2
  <1>2. Traduccion(p, k) \in Marcos \cup {SinMarco}
    BY TraduccionLemma
  <1>3. ASSUME MovOutFuera(p, k)
        PROVE  Tipos'
    BY <1>1, <1>3 DEF MovOutFuera, TiposPedidos
  <1>4. ASSUME NEW v \in Valores, MovInFuera(p, k, v)
        PROVE  Tipos'
    <2> DEFINE r == Pedido("CPU", "RESPUESTA", "LEER", p, k, 1, SinMarco, <<v>>)
    <2>1. PedidoBueno(r)
      <3>1. 1 \in 1 .. MaxLargo /\ <<v>> \in Seq(Valores) /\ SinMarco \in Marcos \cup {SinMarco}
        OBVIOUS
      <3>2. /\ "CPU" \in {"CPU", "IO"} /\ "LEER" \in {"LEER", "ESCRIBIR"}
            /\ "RESPUESTA" \in {"INTERFAZ", "MEMORIA", "RESPUESTA"}
        OBVIOUS
      <3> QED BY <3>1, <3>2, PedidoNuevoLemma
    <2>2. Puede(p) /\ pedidos' = pedidos \cup {r}
      BY <1>4 DEF MovInFuera
    <2>3. TiposPedidos'
      BY <2>1, <2>2, PedirLemma
    <2> QED BY <1>1, <1>4, <2>3 DEF MovInFuera
  <1>5. ASSUME NEW n \in 1 .. MaxLargo, NEW s \in Seq(Valores),
               NEW de \in {"CPU", "IO"}, NEW en \in {"INTERFAZ", "MEMORIA"},
               NEW op \in {"LEER", "ESCRIBIR"}, op = "ESCRIBIR" => s # <<>>,
               Pedir(de, en, op, p, k, n, s)
        PROVE  Tipos'
    <2> DEFINE r == Pedido(de, en, op, p, k, n, Traduccion(p, k), s)
    <2>1. Puede(p) /\ pedidos' = pedidos \cup {r} /\ Traduccion(p, k) # SinMarco
      BY <1>5 DEF Pedir
    <2>2. PedidoBueno(r)
      BY <1>2, <1>5, <2>1, PedidoNuevoLemma
    <2>3. TiposPedidos'
      BY <2>1, <2>2, PedirLemma
    <2> QED BY <1>1, <1>5, <2>3 DEF Pedir
  <1>6. \A v \in Valores : <<v>> \in Seq(Valores) /\ <<v>> # <<>>
    OBVIOUS
  <1>7. <<>> \in Seq(Valores) /\ 1 \in 1 .. MaxLargo
    OBVIOUS
  <1>8. ASSUME NEW v \in Valores, MovOut(p, k, v)
        PROVE  Tipos'
    BY <1>5, <1>6, <1>7, <1>8 DEF MovOut
  <1>9. ASSUME NEW n \in 1 .. MaxLargo, MovIn(p, k, n) \/ Stdout(p, k, n)
        PROVE  Tipos'
    BY <1>5, <1>7, <1>9 DEF MovIn, Stdout
  <1>10. ASSUME NEW n \in 1 .. MaxLargo, NEW v \in Valores, Stdin(p, k, n, v)
         PROVE  Tipos'
    BY <1>5, <1>6, <1>10 DEF Stdin
  <1> QED BY <1>3, <1>4, <1>8, <1>9, <1>10

\* What memoria and the interfaces do with a request.
LEMMA TiposPedido ==
    ASSUME Tipos, NEW r \in pedidos,
           Enviar(r) \/ LeerPagina(r) \/ EscribirPagina(r) \/ Recibir(r)
    PROVE  Tipos'
  <1> USE DEF Tipos
  <1>1. UNCHANGED <<fase, tabla, libres, copia, ajuste, cierre, tlb, achico>>
    BY DEF Enviar, LeerPagina, EscribirPagina, Recibir
  <1>2. TiposBitmap' /\ TiposLazos' /\ TiposTLB'
    BY <1>1 DEF TiposBitmap, TiposLazos, TiposTLB, PorMarcar
  <1>3. PedidoBueno(r) /\ r \in PedidosPosibles /\ r.valor \in Seq(Valores)
    BY DEF TiposPedidos, PedidoBueno, PedidosPosibles
  <1>4. ALoSumoUno({}) /\ \A x : ALoSumoUno({x})
    BY DEF ALoSumoUno
  <1>5. ASSUME Enviar(r)
        PROVE  Tipos'
    <2> DEFINE x == [r EXCEPT !.en = "MEMORIA"]
    <2>1. /\ x \in PedidosPosibles /\ x.hechas = r.hechas /\ x.largo = r.largo /\ x.marco = r.marco
          /\ x.op = r.op /\ x.valor = r.valor /\ x.de = r.de
      BY <1>3 DEF PedidosPosibles
    <2>2. pedidos' = (pedidos \ {r}) \cup {x} /\ r.en # "RESPUESTA"
      BY <1>5 DEF Enviar
    <2> HIDE DEF x
    <2>3. PedidoBueno(x) /\ x.de = r.de
      BY <1>3, <2>1, <2>2 DEF PedidoBueno
    <2>4. TiposPedidos'
      BY <1>4, <2>2, <2>3, ReemplazarLemma
    <2>5. TiposDatos'
      BY <1>1, <1>5 DEF Enviar, TiposDatos
    <2> QED BY <1>2, <2>4, <2>5
  <1>6. ASSUME LeerPagina(r)
        PROVE  Tipos'
    <2>1. r.en = "MEMORIA" /\ r.op = "LEER"
      BY <1>6 DEF LeerPagina
    <2> DEFINE s == Append(r.valor, dato[r.marco])
               x == [r EXCEPT !.en = "RESPUESTA", !.valor = s]
    <2>2. PICK num \in PaginasDelPedido(r) : Avanzar(r, num, s, {x})
      BY <1>6 DEF LeerPagina
    <2>3. dato[r.marco] \in Valores
      BY <1>3, <2>1 DEF PedidoBueno, TiposDatos
    <2>4. s \in Seq(Valores)
      BY <1>3, <2>3
    <2> HIDE DEF s
    <2>5. /\ x \in PedidosPosibles /\ x.hechas = r.hechas /\ x.largo = r.largo
          /\ x.op = r.op /\ x.de = r.de /\ x.en = "RESPUESTA"
      BY <1>3, <2>4 DEF PedidosPosibles
    <2> HIDE DEF x
    <2>6. PedidoBueno(x) /\ x.de = r.de
      BY <1>3, <2>1, <2>5 DEF PedidoBueno
    <2>7. TiposPedidos'
      <3>1. ALoSumoUno({x}) /\ \A y \in {x} : PedidoBueno(y) /\ y.de = r.de
        BY <1>4, <2>6
      <3>2. r.op = "ESCRIBIR" => s # <<>>
        BY <2>1
      <3> DEFINE fin == {x}
      <3>3. ALoSumoUno(fin) /\ (\A y \in fin : PedidoBueno(y) /\ y.de = r.de) /\ Avanzar(r, num, s, fin)
        BY <2>2, <3>1
      <3> HIDE DEF fin
      <3> QED BY <2>1, <2>4, <3>2, <3>3, AvanzarLemma
    <2>8. TiposDatos'
      BY <1>1, <1>6 DEF LeerPagina, TiposDatos
    <2> QED BY <1>2, <2>7, <2>8
  <1>7. ASSUME EscribirPagina(r)
        PROVE  Tipos'
    <2>1. r.en = "MEMORIA" /\ r.op = "ESCRIBIR"
      BY <1>7 DEF EscribirPagina
    <2>2. PICK num \in PaginasDelPedido(r) :
            IF num = 0
            THEN pedidos' = pedidos \ {r} /\ UNCHANGED dato
            ELSE /\ dato' = [dato EXCEPT ![r.marco] = r.valor[1]]
                 /\ Avanzar(r, num, r.valor, {})
      BY <1>7 DEF EscribirPagina
    <2>3. r.valor # <<>> /\ r.valor[1] \in Valores
      BY <1>3, <2>1 DEF PedidoBueno
    <2>4. TiposDatos'
      BY <1>1, <2>2, <2>3 DEF TiposDatos
    <2>5. CASE num = 0
      <3>1. pedidos' = (pedidos \ {r}) \cup {}
        BY <2>2, <2>5
      <3> QED BY <1>2, <1>4, <2>4, <3>1, ReemplazarLemma
    <2>6. CASE num # 0
      <3>1. TiposPedidos'
        BY <1>3, <1>4, <2>1, <2>2, <2>3, <2>6, AvanzarLemma
      <3> QED BY <1>2, <2>4, <3>1
    <2> QED BY <2>5, <2>6
  <1>8. ASSUME Recibir(r)
        PROVE  Tipos'
    <2>1. pedidos' = (pedidos \ {r}) \cup {}
      BY <1>8 DEF Recibir
    <2>2. TiposPedidos'
      BY <1>4, <2>1, ReemplazarLemma
    <2>3. TiposDatos'
      BY <1>1, <1>8 DEF Recibir, TiposDatos
    <2> QED BY <1>2, <2>2, <2>3
  <1> QED BY <1>5, <1>6, <1>7, <1>8

LEMMA TiposPaso == Tipos /\ [Next]_vars => Tipos'
  <1> SUFFICES ASSUME Tipos, [Next]_vars PROVE Tipos'
    OBVIOUS
  <1>1. ASSUME NEW p \in Pids, Instruccion(p)
        PROVE  Tipos'
    BY <1>1, TiposSoloFase, TiposEmpezarResize, TiposInstruccion DEF Instruccion, SoloFase
  <1>2. ASSUME NEW p \in Pids, Crear(p) \/ CerrarVacio(p) \/ EmpezarCierre(p)
        PROVE  Tipos'
    BY <1>2, TiposSoloFase, TiposCierre DEF SoloFase
  <1>3. CASE CierreLee \/ CierreEscribe
    BY <1>3, TiposCierre
  <1>4. CASE AgregarMarco \/ OcuparMarco \/ SacarMarco \/ SoltarMarco
    BY <1>4, TiposAgregar, TiposOcupar, TiposSacar, TiposSoltar
  <1>5. ASSUME NEW r \in pedidos, Enviar(r) \/ LeerPagina(r) \/ EscribirPagina(r) \/ Recibir(r)
        PROVE  Tipos'
    BY <1>5, TiposPedido
  <1>6. CASE UNCHANGED vars
    BY <1>6 DEF vars, Tipos, TiposDatos, TiposBitmap, TiposLazos, TiposTLB, TiposPedidos, PorMarcar
  <1> QED BY <1>1, <1>2, <1>3, <1>4, <1>5, <1>6 DEF Next

\* A set without two different elements has at most one.
LEMMA CardinalLemma ==
    ASSUME NEW S, ALoSumoUno(S)
    PROVE  Cardinality(S) <= 1
  <1>1. CASE S = {}
    BY <1>1, FS_EmptySet
  <1>2. CASE S # {}
    <2>1. PICK x \in S : TRUE
      BY <1>2
    <2>2. S = {x}
      BY <2>1 DEF ALoSumoUno
    <2>3. Cardinality({x}) = 1
      BY FS_Singleton
    <2> QED BY <2>2, <2>3
  <1> QED BY <1>1, <1>2

LEMMA TiposImplicanTypeOK == Tipos => TypeOK
  <1> SUFFICES ASSUME Tipos PROVE TypeOK
    OBVIOUS
  <1>1. /\ Cardinality(ajuste) <= 1 /\ Cardinality(cierre) <= 1
        /\ Cardinality({r \in pedidos : r.de = "CPU"}) <= 1
        /\ \A h \in Hilos : Cardinality(copia[h]) <= 1
    BY CardinalLemma DEF Tipos, TiposBitmap, TiposLazos, TiposPedidos
  <1>2. pedidos \subseteq PedidosPosibles
    BY DEF Tipos, TiposPedidos, PedidoBueno
  <1> QED BY <1>1, <1>2 DEF Tipos, TiposDatos, TiposBitmap, TiposLazos, TiposTLB, Entrada, TypeOK

\* Types and bounds of memoria and of the MMU: the TLB never outgrows CANTIDAD_ENTRADAS_TLB,
\* no page table outgrows the memory, one resize and one ending process at a time, one
\* access of the CPU.
THEOREM MemoriaTypeOK == Spec => []TypeOK
  <1>1. Tipos /\ [Next]_vars => Tipos'
    BY TiposPaso
  <1> QED BY <1>1, TiposInicio, TiposImplicanTypeOK, PTL DEF Spec

LEMMA MemoriaTipos == Spec => []Tipos
  BY TiposInicio, TiposPaso, PTL DEF Spec

-----------------------------------------------------------------------------
(* The TLB.                                                                *)

LEMMA TLBFielPaso == Tipos /\ TLBFiel /\ [Next]_vars => TLBFiel'
  <1> SUFFICES ASSUME Tipos, TLBFiel, [Next]_vars PROVE TLBFiel'
    OBVIOUS
  <1> USE DEF Tipos
  <1>1. tlb \in Seq(Entrada) /\ tabla \in [Pids -> Seq(Marcos)]
    BY DEF TiposTLB, TiposDatos
  <1>2. CASE UNCHANGED <<tlb, tabla>>
    BY <1>2 DEF TLBFiel
  <1>3. ASSUME NEW p \in Pids, NEW k \in Paginas, Traducir(p, k), UNCHANGED tabla
        PROVE  TLBFiel'
    <2> SUFFICES ASSUME NEW j \in DOMAIN tlb', tlb'[j].marco # SinMarco
                 PROVE  /\ tlb'[j].pagina <= Len(tabla[tlb'[j].pid])
                        /\ tlb'[j].marco = tabla[tlb'[j].pid][tlb'[j].pagina]
      BY <1>3 DEF TLBFiel
    <2>1. CASE \E l \in DOMAIN tlb : tlb'[j] = tlb[l]
      BY <2>1 DEF TLBFiel
    <2>2. CASE tlb'[j] = [pid |-> p, pagina |-> k, marco |-> MarcoEnTabla(p, k)]
      <3>1. tlb'[j].pid = p /\ tlb'[j].pagina = k /\ tlb'[j].marco = MarcoEnTabla(p, k)
        BY <2>2
      <3>2. k \in DOMAIN tabla[p] /\ MarcoEnTabla(p, k) = tabla[p][k]
        BY <3>1 DEF MarcoEnTabla
      <3>3. k <= Len(tabla[p])
        BY <1>1, <3>2
      <3> QED BY <3>1, <3>2, <3>3
    <2> QED BY <1>3, <2>1, <2>2, TraducirLemma
  <1>4. ASSUME AgregarMarco
        PROVE  TLBFiel'
    <2>1. PICK a \in ajuste : tabla' = [tabla EXCEPT ![a.pid] = Append(@, PrimerLibre)]
      BY <1>4 DEF AgregarMarco
    <2>2. UNCHANGED tlb /\ PrimerLibre \in Marcos
      BY <1>4, PrimerLibreLemma DEF AgregarMarco, TiposBitmap
    <2>3. a.pid \in Pids
      BY DEF TiposLazos, Registro
    <2>4. \A p \in Pids : /\ Len(tabla[p]) <= Len(tabla'[p])
                          /\ \A k \in 1 .. Len(tabla[p]) : tabla'[p][k] = tabla[p][k]
      <3> SUFFICES ASSUME NEW p \in Pids
                   PROVE  /\ Len(tabla[p]) <= Len(tabla'[p])
                          /\ \A k \in 1 .. Len(tabla[p]) : tabla'[p][k] = tabla[p][k]
        OBVIOUS
      <3>1. tabla[p] \in Seq(Marcos)
        BY <1>1
      <3>2. tabla'[p] = IF p = a.pid THEN Append(tabla[p], PrimerLibre) ELSE tabla[p]
        BY <1>1, <2>1, <2>3
      <3> QED BY <2>2, <3>1, <3>2
    <2> SUFFICES ASSUME NEW i \in DOMAIN tlb, tlb[i].marco # SinMarco
                 PROVE  /\ tlb[i].pagina <= Len(tabla'[tlb[i].pid])
                        /\ tlb[i].marco = tabla'[tlb[i].pid][tlb[i].pagina]
      BY <2>2 DEF TLBFiel
    <2>5. tlb[i] \in Entrada
      BY <1>1
    <2>6. tlb[i].pid \in Pids /\ tlb[i].pagina \in Nat \ {0}
      BY <2>5 DEF Entrada, Paginas
    <2>7. /\ tlb[i].pagina <= Len(tabla[tlb[i].pid])
          /\ tlb[i].marco = tabla[tlb[i].pid][tlb[i].pagina]
      BY DEF TLBFiel
    <2>8. Len(tabla[tlb[i].pid]) \in Nat /\ Len(tabla'[tlb[i].pid]) \in Nat
      BY <2>6, TiposPaso DEF TiposDatos
    <2> QED BY <2>4, <2>6, <2>7, <2>8
  <1>5. ASSUME NEW p \in Pids, Instruccion(p)
        PROVE  TLBFiel'
    BY <1>2, <1>3, <1>5 DEF Instruccion, Salir, RechazarResize, EmpezarResize, MovOutFuera, MovInFuera,
       MovOut, MovIn, Stdout, Stdin, Pedir
  <1>6. ASSUME NEW p \in Pids, Crear(p) \/ CerrarVacio(p) \/ EmpezarCierre(p)
        PROVE  TLBFiel'
    BY <1>2, <1>6 DEF Crear, CerrarVacio, EmpezarCierre
  <1>7. CASE CierreLee \/ CierreEscribe \/ OcuparMarco \/ SacarMarco \/ SoltarMarco
    BY <1>2, <1>7 DEF CierreLee, CierreEscribe, OcuparMarco, SacarMarco, SoltarMarco
  <1>8. ASSUME NEW r \in pedidos, Enviar(r) \/ LeerPagina(r) \/ EscribirPagina(r) \/ Recibir(r)
        PROVE  TLBFiel'
    BY <1>2, <1>8 DEF Enviar, LeerPagina, EscribirPagina, Recibir
  <1>9. CASE UNCHANGED vars
    BY <1>2, <1>9 DEF vars
  <1> QED BY <1>4, <1>5, <1>6, <1>7, <1>8, <1>9 DEF Next

\* A translation of the TLB is never stale: an entry with a frame says what the page table of
\* memoria says, whatever was resized, created or ended in the meantime.
THEOREM TLBSiempreFiel == Spec => []TLBFiel
  <1>1. Init => TLBFiel
    BY DEF Init, TLBFiel
  <1> QED BY <1>1, MemoriaTipos, TLBFielPaso, PTL DEF Spec

-----------------------------------------------------------------------------
(* The frames of the processes.                                            *)

LEMMA MarcosInicio == Init => MarcosInv
  <1> SUFFICES ASSUME Init PROVE MarcosInv
    OBVIOUS
  <1>1. Bitmap
    BY DEF Init, Bitmap, Hilos
  <1>2. Fases
    BY DEF Init, Fases
  <1>3. EnUso /\ MarcosExclusivos
    BY DEF Init, EnUso, MarcosExclusivos, Duenos, Vivos
  <1> QED BY <1>1, <1>2, <1>3 DEF MarcosInv

\* What is left of EnUso when no process is growing: no frame of a process is free.
LEMMA NadaPorMarcar ==
    ASSUME EnUso, ~achico, ajuste = {} \/ copia["CPU"] = {}
    PROVE  \A p \in Duenos : \A i \in DOMAIN tabla[p] : tabla[p][i] \notin libres
  BY DEF EnUso

\* Processes that become the owner of no frame leave all as it was.
LEMMA MarcosSoloFase ==
    ASSUME Tipos, MarcosInv, NEW p \in Pids, SoloFase(p)
    PROVE  MarcosInv'
  <1> USE DEF MarcosInv
  <1>1. UNCHANGED <<tabla, libres, copia, ajuste, cierre, dato, tlb, pedidos, achico>>
    BY DEF SoloFase, Crear, CerrarVacio, Salir, RechazarResize
  <1>2. PICK f \in {"CARGADO", "RECHAZADO", "SALIENDO", "FIN"} : fase' = [fase EXCEPT ![p] = f]
    BY DEF SoloFase, Crear, CerrarVacio, Salir, RechazarResize
  <1>3. fase \in [Pids -> {"NUEVO", "CARGADO", "RECHAZADO", "SALIENDO", "FIN"}]
    BY DEF Tipos, TiposDatos
  <1>4. fase'[p] = f /\ \A q \in Pids : q # p => fase'[q] = fase[q]
    BY <1>2, <1>3
  <1>5. /\ ~ \E a \in ajuste : a.pid = p
        /\ ~ \E c \in cierre : c.pid = p
    BY DEF SoloFase, Crear, CerrarVacio, Salir, RechazarResize, Puede, Fases
  <1>6. f \in {"CARGADO", "RECHAZADO"} => tabla[p] = <<>> /\ fase[p] = "NUEVO"
    BY <1>2, <1>3 DEF SoloFase, Crear, CerrarVacio, Salir, RechazarResize, Puede, Fases
  <1>7. f \in {"SALIENDO"} => fase[p] = "CARGADO"
    BY <1>2, <1>3 DEF SoloFase, Crear, CerrarVacio, Salir, RechazarResize, Puede, Fases
  <1>8. (\A a \in ajuste : a.pid \in Pids) /\ (\A c \in cierre : c.pid \in Pids)
    BY DEF Tipos, TiposLazos, Registro
  <1>9. Fases'
    BY <1>1, <1>4, <1>5, <1>6, <1>8 DEF Fases
  <1>10. Bitmap'
    BY <1>1 DEF Bitmap
  <1>11. \A q \in Duenos' : q \in Duenos \/ tabla[q] = <<>>
    BY <1>1, <1>4, <1>6, <1>7 DEF Duenos, Vivos
  <1>12. EnUso'
    BY <1>1, <1>11 DEF EnUso
  <1>13. MarcosExclusivos'
    BY <1>1, <1>11 DEF MarcosExclusivos, Duenos
  <1> QED BY <1>9, <1>10, <1>12, <1>13

\* finalizarProceso: what it gives back is not of any other process.
LEMMA MarcosCierre ==
    ASSUME Tipos, MarcosInv, Exclusivo,
           (\E p \in Pids : EmpezarCierre(p)) \/ CierreLee \/ CierreEscribe
    PROVE  MarcosInv'
  <1> USE DEF MarcosInv
  <1>1. /\ fase \in [Pids -> {"NUEVO", "CARGADO", "RECHAZADO", "SALIENDO", "FIN"}]
        /\ \A c \in cierre : c \in Registro /\ c.pid \in Pids /\ c.marco \in Marcos
        /\ \A x, y \in cierre : x = y
    BY DEF Tipos, TiposDatos, TiposLazos, Registro, ALoSumoUno
  <1>2. ASSUME NEW p \in Pids, EmpezarCierre(p)
        PROVE  MarcosInv'
    <2>1. /\ UNCHANGED <<fase, tabla, libres, copia, ajuste, dato, tlb, pedidos, achico>>
          /\ fase[p] = "SALIENDO" /\ cierre = {} /\ ajuste = {}
      BY <1>2 DEF EmpezarCierre
    <2>2. PICK m \in MarcosDe(p) : cierre' = {Cierre(p, m)}
      BY <1>2 DEF EmpezarCierre
    <2>3. PICK j \in DOMAIN tabla[p] : m = tabla[p][j]
      BY <2>2 DEF MarcosDe, ToSet
    <2>4. \A c \in cierre' : c.pid = p /\ c.marco = m
      BY <2>2 DEF Cierre
    <2>5. p \in Duenos /\ Duenos' = Duenos \ {p}
      BY <2>1, <2>2 DEF Duenos, Vivos, Cierre
    <2>6. Bitmap' /\ Fases'
      BY <2>1, <2>4 DEF Bitmap, Fases
    <2>7. MarcosExclusivos'
      BY <2>1, <2>5 DEF MarcosExclusivos, Duenos
    <2>8. ASSUME ~achico, NEW q \in Duenos', NEW i \in DOMAIN tabla[q]
          PROVE  tabla[q][i] # m
      BY <2>3, <2>5, <2>8 DEF MarcosExclusivos, Duenos
    <2>9. EnUso'
      BY <2>1, <2>4, <2>5, <2>8 DEF EnUso
    <2> QED BY <2>6, <2>7, <2>9
  <1>3. ASSUME CierreLee
        PROVE  MarcosInv'
    <2>1. PICK c \in cierre : LeerByte("KERNEL", c.marco)
      BY <1>3 DEF CierreLee
    <2>2. UNCHANGED <<fase, tabla, ajuste, cierre, dato, tlb, pedidos, achico>>
      BY <1>3 DEF CierreLee
    <2>3. /\ libres' = libres /\ copia'["KERNEL"] = {libres \cap ByteDe(c.marco)}
          /\ copia'["CPU"] = copia["CPU"]
      BY <2>1, LeerByteLemma DEF Hilos, Tipos
    <2>4. Bitmap' /\ Fases'
      BY <2>2, <2>3 DEF Bitmap, Fases
    <2>5. Duenos' = Duenos
      BY <2>2 DEF Duenos, Vivos
    <2>6. EnUso' /\ MarcosExclusivos'
      BY <2>2, <2>3, <2>5 DEF EnUso, MarcosExclusivos, Duenos
    <2> QED BY <2>4, <2>6
  <1>4. ASSUME CierreEscribe
        PROVE  MarcosInv'
    <2>1. PICK c \in cierre :
            /\ EscribirByte("KERNEL", c.marco, TRUE)
            /\ cierre' = IF c.faltan = 1 THEN {} ELSE {[c EXCEPT !.faltan = @ - 1]}
            /\ fase' = IF c.faltan = 1 THEN [fase EXCEPT ![c.pid] = "FIN"] ELSE fase
            /\ UNCHANGED <<tabla, ajuste, dato, tlb, pedidos, achico>>
      BY <1>4 DEF CierreEscribe
    <2>2. /\ copia["KERNEL"] # {} /\ copia'["KERNEL"] = {} /\ copia'["CPU"] = copia["CPU"]
          /\ copia["KERNEL"] = {libres \cap ByteDe(c.marco)} => libres' = libres \cup {c.marco}
      BY <1>1, <2>1, EscribirByteLemma DEF Hilos, Tipos
    <2>3. libres' = libres \cup {c.marco}
      BY <1>1, <2>1, <2>2 DEF Bitmap
    <2>4. ajuste = {} /\ copia["CPU"] = {}
      BY <2>1 DEF Bitmap
    <2>5. \A d \in cierre' : d.pid = c.pid /\ d.marco = c.marco /\ c.faltan # 1
      BY <1>1, <2>1 DEF Registro
    <2>6. \A q \in Pids : fase'[q] = IF c.faltan = 1 /\ q = c.pid THEN "FIN" ELSE fase[q]
      BY <1>1, <2>1
    <2>7. Bitmap'
      BY <2>1, <2>2, <2>4 DEF Bitmap
    <2>8. fase[c.pid] = "SALIENDO"
      BY <2>1 DEF Fases
    <2>9. Fases'
      BY <1>1, <2>1, <2>4, <2>5, <2>6, <2>8 DEF Fases
    <2>10. Duenos' \subseteq Duenos
      <3>1. \A d \in cierre : d = c
        BY <1>1, <2>1
      <3>2. \A q \in Duenos' : q \in Pids /\ q # c.pid /\ fase[q] \in {"CARGADO", "SALIENDO"}
        <4>1. c.faltan # 1 => \E d \in cierre' : d.pid = c.pid
          BY <1>1, <2>1 DEF Registro
        <4> SUFFICES ASSUME NEW q \in Duenos'
                     PROVE  q \in Pids /\ q # c.pid /\ fase[q] \in {"CARGADO", "SALIENDO"}
          OBVIOUS
        <4>2. q \in Pids /\ fase'[q] \in {"CARGADO", "SALIENDO"} /\ \A d \in cierre' : d.pid # q
          BY DEF Duenos, Vivos
        <4>3. q # c.pid
          BY <2>6, <4>1, <4>2
        <4> QED BY <2>6, <4>2, <4>3
      <3> QED BY <3>1, <3>2 DEF Duenos, Vivos
    <2>11. MarcosExclusivos'
      BY <2>1, <2>10 DEF MarcosExclusivos, Duenos
    <2>12. ASSUME ~achico
           PROVE  \A q \in Duenos : \A i \in DOMAIN tabla[q] :
                    tabla[q][i] \notin libres /\ tabla[q][i] # c.marco
      BY <2>1, <2>4, <2>12, NadaPorMarcar DEF EnUso
    <2>13. EnUso'
      BY <2>1, <2>2, <2>3, <2>4, <2>5, <2>10, <2>12 DEF EnUso
    <2> QED BY <2>7, <2>9, <2>11, <2>13
  <1> QED BY <1>2, <1>3, <1>4

\* RESIZE: the frame that a process gets is of nobody, and while one is ended nobody gets any.
LEMMA MarcosAjuste ==
    ASSUME Tipos, MarcosInv, Exclusivo,
           \/ \E p \in Pids, n \in 0 .. MaxPaginas : EmpezarResize(p, n)
           \/ AgregarMarco \/ OcuparMarco \/ SacarMarco \/ SoltarMarco
    PROVE  MarcosInv'
  <1> USE DEF MarcosInv
  <1>1. /\ \A a \in ajuste : a \in Registro /\ a.pid \in Pids /\ a.faltan \in Int
        /\ \A a \in ajuste : a.faltan < 0 => a.marco \in Marcos
        /\ \A x, y \in ajuste : x = y
        /\ TiposBitmap
    BY DEF Tipos, TiposLazos, Registro, ALoSumoUno
  <1>2. ASSUME NEW p \in Pids, NEW n \in 0 .. MaxPaginas, EmpezarResize(p, n)
        PROVE  MarcosInv'
    <2>1. /\ UNCHANGED <<fase, tabla, libres, copia, cierre, dato, tlb, pedidos, achico>>
          /\ fase[p] = "CARGADO" /\ ajuste = {} /\ cierre = {}
          /\ \A a \in ajuste' : a.pid = p
      BY <1>2 DEF EmpezarResize, Puede
    <2>2. Bitmap' /\ Fases'
      BY <2>1 DEF Bitmap, Fases
    <2>3. Duenos' = Duenos /\ copia["CPU"] = {}
      BY <2>1 DEF Duenos, Vivos, Bitmap
    <2>4. EnUso' /\ MarcosExclusivos'
      BY <2>1, <2>3 DEF EnUso, MarcosExclusivos, Duenos
    <2> QED BY <2>2, <2>4
  <1>3. ASSUME AgregarMarco
        PROVE  MarcosInv'
    <2>1. PICK a \in ajuste :
            /\ a.faltan > 0 /\ libres # {}
            /\ LeerByte("CPU", PrimerLibre)
            /\ tabla' = [tabla EXCEPT ![a.pid] = Append(@, PrimerLibre)]
            /\ ajuste' = {[a EXCEPT !.marco = PrimerLibre]}
            /\ UNCHANGED <<fase, cierre, dato, tlb, pedidos, achico>>
      BY <1>3 DEF AgregarMarco
    <2>2. PrimerLibre \in libres /\ PrimerLibre \in Marcos
      BY <1>1, <2>1, PrimerLibreLemma DEF TiposBitmap
    <2>3. /\ libres' = libres /\ copia["CPU"] = {} /\ copia'["CPU"] = {libres \cap ByteDe(PrimerLibre)}
          /\ copia'["KERNEL"] = copia["KERNEL"]
      BY <1>1, <2>1, LeerByteLemma DEF Hilos
    <2>4. cierre = {} /\ cierre' = {} /\ copia["KERNEL"] = {} /\ Duenos' = Duenos
      BY <2>1 DEF Bitmap, Duenos, Vivos
    <2> DEFINE b == [a EXCEPT !.marco = PrimerLibre]
               t == tabla[a.pid]
    <2>5. b.pid = a.pid /\ b.marco = PrimerLibre /\ b.faltan = a.faltan /\ ajuste' = {b}
      BY <1>1, <2>1 DEF Registro
    <2> HIDE DEF b
    <2>6. Bitmap'
      BY <2>2, <2>3, <2>4, <2>5 DEF Bitmap
    <2>7. fase[a.pid] = "CARGADO" /\ a.pid \in Pids
      BY <1>1 DEF Fases
    <2>8. /\ t \in Seq(Marcos) /\ Len(t) \in Nat
          /\ \A q \in Pids : tabla'[q] = IF q = a.pid THEN Append(t, PrimerLibre) ELSE tabla[q]
      BY <2>1, <2>7 DEF Tipos, TiposDatos
    <2>9. Fases'
      BY <2>1, <2>4, <2>5, <2>7, <2>8 DEF Fases
    <2>10. /\ DOMAIN t = 1 .. Len(t) /\ DOMAIN Append(t, PrimerLibre) = 1 .. Len(t) + 1
           /\ Len(Append(t, PrimerLibre)) = Len(t) + 1
           /\ \A i \in 1 .. Len(t) + 1 :
                Append(t, PrimerLibre)[i] = IF i = Len(t) + 1 THEN PrimerLibre ELSE t[i]
      BY <2>2, <2>8
    <2> HIDE DEF t
    \* A page of the new table is an old one or the one that was added.
    <2>11. ASSUME NEW q \in Duenos', NEW i \in DOMAIN tabla'[q]
           PROVE  \/ q \in Duenos /\ i \in DOMAIN tabla[q] /\ tabla'[q][i] = tabla[q][i]
                  \/ q = a.pid /\ i = Len(tabla'[q]) /\ tabla'[q][i] = PrimerLibre
      <3>1. q \in Pids /\ q \in Duenos
        BY <2>4 DEF Duenos, Vivos
      <3>2. CASE q # a.pid
        BY <2>8, <3>1, <3>2
      <3>3. CASE q = a.pid
        <4>1. tabla'[q] = Append(t, PrimerLibre) /\ tabla[q] = t
          BY <2>8, <3>1, <3>3 DEF t
        <4>2. i \in 1 .. Len(t) + 1
          BY <2>10, <4>1
        <4>3. CASE i = Len(t) + 1
          BY <2>10, <3>3, <4>1, <4>2, <4>3
        <4>4. CASE i # Len(t) + 1
          BY <2>8, <2>10, <3>1, <4>1, <4>2, <4>4
        <4> QED BY <4>3, <4>4
      <3> QED BY <3>2, <3>3
    <2>12. ASSUME ~achico
           PROVE  \A q \in Duenos : \A i \in DOMAIN tabla[q] : tabla[q][i] \notin libres
      BY <2>3, <2>12, NadaPorMarcar
    <2>13. EnUso'
      BY <2>1, <2>3, <2>4, <2>5, <2>11, <2>12 DEF EnUso
    <2>14. MarcosExclusivos'
      <3> SUFFICES ASSUME ~achico, NEW p \in Duenos', NEW q \in Duenos',
                          NEW i \in DOMAIN tabla'[p], NEW j \in DOMAIN tabla'[q],
                          tabla'[p][i] = tabla'[q][j]
                   PROVE  p = q /\ i = j
        BY <2>1 DEF MarcosExclusivos, Duenos
      <3>1. CASE /\ p \in Duenos /\ i \in DOMAIN tabla[p] /\ tabla'[p][i] = tabla[p][i]
                 /\ q \in Duenos /\ j \in DOMAIN tabla[q] /\ tabla'[q][j] = tabla[q][j]
        <4>1. tabla[p][i] = tabla[q][j]
          BY <3>1
        <4>2. \A x, y \in Duenos : \A l \in DOMAIN tabla[x], n \in DOMAIN tabla[y] :
                tabla[x][l] = tabla[y][n] => x = y /\ l = n
          BY DEF MarcosExclusivos, Duenos
        <4> QED BY ONLY <3>1, <4>1, <4>2
      <3> QED BY <2>2, <2>11, <2>12, <3>1
    <2> QED BY <2>6, <2>9, <2>13, <2>14
  <1>4. ASSUME OcuparMarco
        PROVE  MarcosInv'
    <2>1. PICK a \in ajuste :
            /\ a.faltan > 0
            /\ EscribirByte("CPU", a.marco, FALSE)
            /\ ajuste' = IF a.faltan = 1 THEN {} ELSE {[a EXCEPT !.faltan = @ - 1]}
            /\ UNCHANGED <<fase, tabla, cierre, dato, tlb, pedidos, achico>>
      BY <1>4 DEF OcuparMarco
    <2>2. /\ copia["CPU"] # {} /\ copia'["CPU"] = {} /\ copia'["KERNEL"] = copia["KERNEL"]
          /\ a.marco \in Marcos /\ copia["CPU"] = {libres \cap ByteDe(a.marco)} =>
               libres' = libres \ {a.marco}
      BY <1>1, <2>1, EscribirByteLemma DEF Hilos
    <2>3. libres' = libres \ {a.marco}
      BY <1>1, <2>1, <2>2 DEF Bitmap
    <2>4. cierre = {} /\ cierre' = {} /\ copia["KERNEL"] = {} /\ Duenos' = Duenos
      BY <2>1 DEF Bitmap, Duenos, Vivos
    <2>5. \A b \in ajuste' : b.pid = a.pid
      BY <1>1, <2>1 DEF Registro
    <2>6. Bitmap' /\ Fases'
      BY <2>1, <2>2, <2>4, <2>5 DEF Bitmap, Fases
    <2>7. ASSUME ~achico
          PROVE  \A q \in Duenos : \A i \in DOMAIN tabla[q] : tabla[q][i] \notin libres'
      BY <1>1, <2>1, <2>3, <2>7 DEF EnUso
    <2>8. EnUso' /\ MarcosExclusivos'
      BY <2>1, <2>2, <2>4, <2>7 DEF EnUso, MarcosExclusivos, Duenos
    <2> QED BY <2>6, <2>8
  <1>5. ASSUME SacarMarco
        PROVE  MarcosInv'
    <2>1. PICK a \in ajuste : a.faltan < 0 /\ LeerByte("CPU", a.marco)
      BY <1>5 DEF SacarMarco
    <2>2. achico' = TRUE /\ UNCHANGED <<fase, tabla, ajuste, cierre, dato, tlb, pedidos>>
      BY <1>5 DEF SacarMarco
    <2>3. /\ libres' = libres /\ copia'["CPU"] = {libres \cap ByteDe(a.marco)}
          /\ copia'["KERNEL"] = copia["KERNEL"] /\ a.marco \in Marcos
      BY <1>1, <2>1, LeerByteLemma DEF Hilos
    <2>4. Bitmap' /\ Fases'
      BY <2>1, <2>2, <2>3 DEF Bitmap, Fases
    <2>5. EnUso' /\ MarcosExclusivos'
      BY <2>2 DEF EnUso, MarcosExclusivos
    <2> QED BY <2>4, <2>5
  <1>6. ASSUME SoltarMarco
        PROVE  MarcosInv'
    <2>1. PICK a \in ajuste :
            /\ a.faltan < 0
            /\ EscribirByte("CPU", a.marco, TRUE)
            /\ ajuste' = IF a.faltan = -1 THEN {} ELSE {[a EXCEPT !.faltan = @ + 1]}
            /\ UNCHANGED <<fase, tabla, cierre, dato, tlb, pedidos, achico>>
      BY <1>6 DEF SoltarMarco
    <2>2. copia["CPU"] # {} /\ copia'["CPU"] = {} /\ copia'["KERNEL"] = copia["KERNEL"]
      BY <1>1, <2>1, EscribirByteLemma DEF Hilos
    <2>3. cierre = {} /\ copia["KERNEL"] = {}
      BY <2>1 DEF Bitmap
    <2>4. \A b \in ajuste' : b.pid = a.pid
      BY <1>1, <2>1 DEF Registro
    <2>5. Bitmap' /\ Fases'
      BY <2>1, <2>2, <2>3, <2>4 DEF Bitmap, Fases
    <2>6. ~ (a.faltan > 0)
      BY <1>1, <2>1
    <2>7. achico /\ achico'
      BY <2>1, <2>2, <2>6, TiposPaso DEF EnUso, Tipos, TiposDatos
    <2>8. EnUso' /\ MarcosExclusivos'
      BY <2>7 DEF EnUso, MarcosExclusivos
    <2> QED BY <2>5, <2>8
  <1> QED BY <1>2, <1>3, <1>4, <1>5, <1>6

LEMMA MarcosPaso == Exclusivo /\ Tipos /\ MarcosInv /\ [Next]_vars => MarcosInv'
  <1> SUFFICES ASSUME Exclusivo, Tipos, MarcosInv, [Next]_vars PROVE MarcosInv'
    OBVIOUS
  <1>1. ASSUME UNCHANGED <<fase, tabla, libres, copia, ajuste, cierre, achico>>
        PROVE  MarcosInv'
    BY <1>1 DEF MarcosInv, Bitmap, Fases, EnUso, MarcosExclusivos, Duenos, Vivos
  <1>2. ASSUME NEW p \in Pids, Instruccion(p)
        PROVE  MarcosInv'
    <2>1. CASE SoloFase(p)
      BY <2>1, MarcosSoloFase
    <2>2. CASE \E n \in 0 .. MaxPaginas : EmpezarResize(p, n)
      BY <2>2, MarcosAjuste
    <2>3. CASE \E k \in Paginas :
                 \/ MovOutFuera(p, k)
                 \/ \E v \in Valores : MovInFuera(p, k, v) \/ MovOut(p, k, v)
                 \/ \E n \in 1 .. MaxLargo : \/ MovIn(p, k, n) \/ Stdout(p, k, n)
                                            \/ \E v \in Valores : Stdin(p, k, n, v)
      BY <1>1, <2>3 DEF MovOutFuera, MovInFuera, MovOut, MovIn, Stdout, Stdin, Pedir
    <2> QED BY <1>2, <2>1, <2>2, <2>3 DEF Instruccion, SoloFase
  <1>3. ASSUME NEW p \in Pids, Crear(p) \/ CerrarVacio(p) \/ EmpezarCierre(p)
        PROVE  MarcosInv'
    BY <1>3, MarcosSoloFase, MarcosCierre DEF SoloFase
  <1>4. CASE CierreLee \/ CierreEscribe
    BY <1>4, MarcosCierre
  <1>5. CASE AgregarMarco \/ OcuparMarco \/ SacarMarco \/ SoltarMarco
    BY <1>5, MarcosAjuste
  <1>6. ASSUME NEW r \in pedidos, Enviar(r) \/ LeerPagina(r) \/ EscribirPagina(r) \/ Recibir(r)
        PROVE  MarcosInv'
    BY <1>1, <1>6 DEF Enviar, LeerPagina, EscribirPagina, Recibir
  <1>7. CASE UNCHANGED vars
    BY <1>1, <1>7 DEF vars
  <1> QED BY <1>2, <1>3, <1>4, <1>5, <1>6, <1>7 DEF Next

LEMMA MemoriaMarcosInv == Exclusivo => (Spec => []MarcosInv)
  <1> SUFFICES ASSUME Exclusivo PROVE Spec => []MarcosInv
    OBVIOUS
  <1>1. Tipos /\ MarcosInv /\ [Next]_vars => MarcosInv'
    BY MarcosPaso
  <1> QED BY <1>1, MarcosInicio, MemoriaTipos, PTL DEF Spec

\* When no RESIZE runs while a process is being ended, and until some process reduces its
\* size, memoria never gives a frame to two pages of the living processes. Two threads write
\* the same bytes of the bitmap without a lock: the assumption is what keeps a stale copy from
\* marking a taken frame as free.
THEOREM MarcosDeUnoSolo == Exclusivo => (Spec => []MarcosExclusivos)
  <1>1. MarcosInv => MarcosExclusivos
    BY DEF MarcosInv
  <1> QED BY <1>1, MemoriaMarcosInv, PTL

-----------------------------------------------------------------------------
(* Memoria implements MemoriaVirtual.                                      *)

\* What a process that waits for its accesses guarantees.
Accesos ==
  /\ \A r, s \in pedidos : r.pid = s.pid => r = s
  /\ \A r \in pedidos : fase[r.pid] = "CARGADO"
  /\ \A r \in pedidos : \A a \in ajuste : r.pid # a.pid

\* The page that an access has come to.
Actual(r) == r.pagina + r.hechas

Paginado(r) ==
  /\ Actual(r) \in DOMAIN tabla[r.pid] /\ r.marco = tabla[r.pid][Actual(r)]
  /\ r.hechas > 0 => r.num = Actual(r)
  /\ r.en = "INTERFAZ" => r.hechas = 0
  /\ r.op = "ESCRIBIR" => Len(r.valor) = 1
  /\ r.op = "LEER" => /\ Len(r.valor) = r.hechas
                      /\ \A i \in 1 .. r.hechas : r.valor[i] = dato[tabla[r.pid][r.pagina + i - 1]]

Paginados == ~achico => \A r \in pedidos : r.en # "RESPUESTA" => Paginado(r)

AccesosInv == Accesos /\ Paginados

-----------------------------------------------------------------------------
(* One access of each process.                                             *)

\* A handler leaves at most one request in the place of the one it takes, of the same process.
LEMMA SucesorLemma ==
    ASSUME Tipos, NEW r \in pedidos,
           Enviar(r) \/ LeerPagina(r) \/ EscribirPagina(r) \/ Recibir(r)
    PROVE  /\ UNCHANGED <<fase, tabla, libres, copia, ajuste, cierre, tlb, achico>>
           /\ \E S : /\ pedidos' = (pedidos \ {r}) \cup S /\ ALoSumoUno(S)
                     /\ \A x \in S : x.pid = r.pid
  <1>1. r \in PedidosPosibles
    BY DEF Tipos, TiposPedidos, PedidoBueno
  <1>2. ALoSumoUno({}) /\ \A x : ALoSumoUno({x})
    BY DEF ALoSumoUno
  <1>3. UNCHANGED <<fase, tabla, libres, copia, ajuste, cierre, tlb, achico>>
    BY DEF Enviar, LeerPagina, EscribirPagina, Recibir
  <1>4. ASSUME NEW x, x.pid = r.pid, pedidos' = (pedidos \ {r}) \cup {x}
        PROVE  \E S : /\ pedidos' = (pedidos \ {r}) \cup S /\ ALoSumoUno(S)
                     /\ \A y \in S : y.pid = r.pid
    <2> WITNESS {x}
    <2> QED BY <1>2, <1>4
  <1>5. ASSUME NEW num, NEW s, NEW fin, ALoSumoUno(fin), \A x \in fin : x.pid = r.pid,
               Avanzar(r, num, s, fin)
        PROVE  \E S : /\ pedidos' = (pedidos \ {r}) \cup S /\ ALoSumoUno(S)
                     /\ \A x \in S : x.pid = r.pid
    <2> DEFINE x == [r EXCEPT !.num = num + 1, !.hechas = @ + 1, !.valor = s,
                              !.marco = MarcoEnTabla(r.pid, num + 1)]
    <2>1. x.pid = r.pid
      BY <1>1 DEF PedidosPosibles
    <2>2. pedidos' = (pedidos \ {r}) \cup fin \/ pedidos' = (pedidos \ {r}) \cup {x}
      BY <1>5 DEF Avanzar
    <2> HIDE DEF x
    <2> QED BY <1>5, <1>4, <2>1, <2>2
  <1>6. CASE Enviar(r)
    <2> DEFINE x == [r EXCEPT !.en = "MEMORIA"]
    <2>1. x.pid = r.pid
      BY <1>1 DEF PedidosPosibles
    <2>2. pedidos' = (pedidos \ {r}) \cup {x}
      BY <1>6 DEF Enviar
    <2> HIDE DEF x
    <2> QED BY <1>3, <1>4, <2>1, <2>2
  <1>7. CASE LeerPagina(r)
    <2>1. PICK num \in PaginasDelPedido(r) :
            LET s == Append(r.valor, dato[r.marco])
            IN  Avanzar(r, num, s, {[r EXCEPT !.en = "RESPUESTA", !.valor = s]})
      BY <1>7 DEF LeerPagina
    <2> DEFINE s == Append(r.valor, dato[r.marco])
               x == [r EXCEPT !.en = "RESPUESTA", !.valor = s]
               fin == {x}
    <2>2. x.pid = r.pid
      BY <1>1 DEF PedidosPosibles
    <2>3. Avanzar(r, num, s, fin)
      BY <2>1
    <2> HIDE DEF s, x
    <2>4. ALoSumoUno(fin) /\ \A y \in fin : y.pid = r.pid
      BY <1>2, <2>2
    <2> HIDE DEF fin
    <2> QED BY <1>3, <1>5, <2>3, <2>4
  <1>8. CASE EscribirPagina(r)
    <2>1. PICK num \in PaginasDelPedido(r) :
            \/ pedidos' = pedidos \ {r}
            \/ Avanzar(r, num, r.valor, {})
      BY <1>8 DEF EscribirPagina
    <2>2. CASE pedidos' = pedidos \ {r}
      <3>1. pedidos' = (pedidos \ {r}) \cup {}
        BY <2>2
      <3> QED BY <1>2, <1>3, <3>1
    <2> QED BY <1>2, <1>3, <1>5, <2>1, <2>2
  <1>9. CASE Recibir(r)
    <2>1. pedidos' = (pedidos \ {r}) \cup {}
      BY <1>9 DEF Recibir
    <2> QED BY <1>2, <1>3, <2>1
  <1> QED BY <1>6, <1>7, <1>8, <1>9

LEMMA SinAccesos ==
    ASSUME EntradaATiempo, NEW p, Puede(p)
    PROVE  \A r \in pedidos : r.pid # p
  BY DEF Puede, Demora

\* A new access.
LEMMA AccesoNuevo ==
    ASSUME EntradaATiempo, Accesos, NEW p, Puede(p), NEW x, x.pid = p,
           pedidos' = pedidos \cup {x}, UNCHANGED <<fase, ajuste>>
    PROVE  Accesos'
  <1>1. \A r \in pedidos : r.pid # p
    BY SinAccesos
  <1>2. fase[p] = "CARGADO" /\ ajuste = {}
    BY DEF Puede
  <1> QED BY <1>1, <1>2 DEF Accesos

\* The instructions that ask memoria or an interface for bytes.
LEMMA PedirAccede ==
    ASSUME NEW p \in Pids, NEW k \in Paginas,
           \/ \E v \in Valores : MovInFuera(p, k, v) \/ MovOut(p, k, v)
           \/ \E n \in 1 .. MaxLargo : \/ MovIn(p, k, n) \/ Stdout(p, k, n)
                                      \/ \E v \in Valores : Stdin(p, k, n, v)
    PROVE  /\ Puede(p) /\ UNCHANGED <<fase, tabla, libres, copia, ajuste, cierre, dato, achico>>
           /\ \E x : x.pid = p /\ pedidos' = pedidos \cup {x}
  <1>1. \A de, en, op, n, m, s : Pedido(de, en, op, p, k, n, m, s).pid = p
    BY DEF Pedido
  <1> QED BY <1>1 DEF MovInFuera, MovOut, MovIn, Stdout, Stdin, Pedir

LEMMA AccesosPaso ==
    ASSUME EntradaATiempo, Tipos, Fases, Accesos, [Next]_vars
    PROVE  Accesos'
  <1>1. /\ fase \in [Pids -> {"NUEVO", "CARGADO", "RECHAZADO", "SALIENDO", "FIN"}]
        /\ \A a \in ajuste : a \in Registro
        /\ \A c \in cierre : c \in Registro
    BY DEF Tipos, TiposDatos, TiposLazos
  <1>2. CASE UNCHANGED <<fase, ajuste, pedidos>>
    BY <1>2 DEF Accesos
  <1>3. ASSUME NEW p \in Pids, SoloFase(p)
        PROVE  Accesos'
    <2>1. UNCHANGED <<ajuste, pedidos>> /\ \A q \in Pids : q # p => fase'[q] = fase[q]
      BY <1>1, <1>3 DEF SoloFase, Crear, CerrarVacio, Salir, RechazarResize
    <2>2. \A r \in pedidos : r.pid # p
      BY <1>3, SinAccesos DEF SoloFase, Crear, CerrarVacio, Salir, RechazarResize, Accesos
    <2>3. \A r \in pedidos : r.pid \in Pids
      BY DEF Tipos, TiposPedidos, PedidoBueno, PedidosPosibles
    <2> QED BY <2>1, <2>2, <2>3 DEF Accesos
  <1>4. ASSUME NEW p \in Pids, NEW n \in 0 .. MaxPaginas, EmpezarResize(p, n)
        PROVE  Accesos'
    <2>1. UNCHANGED <<fase, pedidos>> /\ Puede(p) /\ \A a \in ajuste' : a.pid = p
      BY <1>4 DEF EmpezarResize
    <2> QED BY <2>1, SinAccesos DEF Accesos
  <1>5. ASSUME NEW p \in Pids, Instruccion(p)
        PROVE  Accesos'
    <2>1. CASE SoloFase(p)
      BY <1>3, <2>1
    <2>2. CASE \E n \in 0 .. MaxPaginas : EmpezarResize(p, n)
      BY <1>4, <2>2
    <2>3. CASE \E k \in Paginas : MovOutFuera(p, k)
      BY <1>2, <2>3 DEF MovOutFuera
    <2>4. ASSUME NEW k \in Paginas,
                 \/ \E v \in Valores : MovInFuera(p, k, v) \/ MovOut(p, k, v)
                 \/ \E n \in 1 .. MaxLargo : \/ MovIn(p, k, n) \/ Stdout(p, k, n)
                                            \/ \E v \in Valores : Stdin(p, k, n, v)
          PROVE  Accesos'
      BY <2>4, PedirAccede, AccesoNuevo
    <2> QED BY <1>5, <2>1, <2>2, <2>3, <2>4 DEF Instruccion, SoloFase
  <1>6. ASSUME NEW p \in Pids, Crear(p) \/ CerrarVacio(p) \/ EmpezarCierre(p)
        PROVE  Accesos'
    BY <1>2, <1>3, <1>6 DEF SoloFase, EmpezarCierre
  <1>7. CASE CierreEscribe
    <2>1. PICK c \in cierre :
            /\ fase' = IF c.faltan = 1 THEN [fase EXCEPT ![c.pid] = "FIN"] ELSE fase
            /\ UNCHANGED <<ajuste, pedidos>>
      BY <1>7 DEF CierreEscribe
    <2>2. fase[c.pid] = "SALIENDO" /\ c.pid \in Pids
      BY <1>1 DEF Fases, Registro
    <2>3. \A r \in pedidos : r.pid \in Pids /\ r.pid # c.pid
      BY <2>2 DEF Accesos, Tipos, TiposPedidos, PedidoBueno, PedidosPosibles
    <2>4. \A q \in Pids : q # c.pid => fase'[q] = fase[q]
      BY <1>1, <2>1, <2>2
    <2> QED BY <2>1, <2>3, <2>4 DEF Accesos
  <1>8. ASSUME UNCHANGED <<fase, pedidos>>, \A b \in ajuste' : \E a \in ajuste : b.pid = a.pid
        PROVE  Accesos'
    BY <1>8 DEF Accesos
  <1>9. CASE CierreLee \/ SacarMarco
    BY <1>2, <1>9 DEF CierreLee, SacarMarco
  <1>10. CASE AgregarMarco \/ OcuparMarco \/ SoltarMarco
    <2>1. UNCHANGED <<fase, pedidos>>
      BY <1>10 DEF AgregarMarco, OcuparMarco, SoltarMarco
    <2>2. CASE AgregarMarco
      <3>1. PICK a \in ajuste : ajuste' = {[a EXCEPT !.marco = PrimerLibre]}
        BY <2>2 DEF AgregarMarco
      <3>2. \A b \in ajuste' : b.pid = a.pid
        BY <1>1, <3>1 DEF Registro
      <3> QED BY <1>8, <2>1, <3>2
    <2>3. CASE OcuparMarco
      <3>1. PICK a \in ajuste : ajuste' = IF a.faltan = 1 THEN {} ELSE {[a EXCEPT !.faltan = @ - 1]}
        BY <2>3 DEF OcuparMarco
      <3>2. \A b \in ajuste' : b.pid = a.pid
        BY <1>1, <3>1 DEF Registro
      <3> QED BY <1>8, <2>1, <3>2
    <2>4. CASE SoltarMarco
      <3>1. PICK a \in ajuste : ajuste' = IF a.faltan = -1 THEN {} ELSE {[a EXCEPT !.faltan = @ + 1]}
        BY <2>4 DEF SoltarMarco
      <3>2. \A b \in ajuste' : b.pid = a.pid
        BY <1>1, <3>1 DEF Registro
      <3> QED BY <1>8, <2>1, <3>2
    <2> QED BY <1>10, <2>2, <2>3, <2>4
  <1>11. ASSUME NEW r \in pedidos, Enviar(r) \/ LeerPagina(r) \/ EscribirPagina(r) \/ Recibir(r)
         PROVE  Accesos'
    BY <1>11, SucesorLemma DEF Accesos, ALoSumoUno
  <1>12. CASE UNCHANGED vars
    BY <1>2, <1>12 DEF vars
  <1> QED BY <1>5, <1>6, <1>7, <1>9, <1>10, <1>11, <1>12 DEF Next

-----------------------------------------------------------------------------
(* The page that an access has come to.                                    *)

LEMMA PedidoTipo ==
    ASSUME Tipos, NEW r \in pedidos
    PROVE  /\ r \in PedidosPosibles /\ r.pid \in Pids /\ r.pagina \in Nat \ {0}
           /\ r.hechas \in Nat /\ r.largo \in Nat \ {0} /\ r.hechas < r.largo
           /\ r.valor \in Seq(Valores) /\ Actual(r) \in Nat \ {0}
           /\ tabla[r.pid] \in Seq(Marcos) /\ Len(tabla[r.pid]) \in Nat
           /\ DOMAIN tabla[r.pid] = 1 .. Len(tabla[r.pid])
           /\ r.en # "RESPUESTA" => r.marco \in Marcos
           /\ r.op = "ESCRIBIR" => r.valor # <<>>
           /\ r.en \in {"INTERFAZ", "MEMORIA", "RESPUESTA"} /\ r.op \in {"LEER", "ESCRIBIR"}
  BY DEF Tipos, TiposPedidos, TiposDatos, PedidoBueno, PedidosPosibles, Paginas, Actual

\* A frame is of one page of the processes that run.
LEMMA MarcoDeUno ==
    ASSUME MarcosInv, ~achico, NEW p \in Pids, NEW q \in Pids,
           fase[p] = "CARGADO", fase[q] = "CARGADO",
           NEW i \in DOMAIN tabla[p], NEW j \in DOMAIN tabla[q], tabla[p][i] = tabla[q][j]
    PROVE  p = q /\ i = j
  <1>1. p \in {x \in Vivos : \A c \in cierre : c.pid # x} /\ q \in {x \in Vivos : \A c \in cierre : c.pid # x}
    BY DEF MarcosInv, Fases, Vivos
  <1> QED BY <1>1 DEF MarcosInv, MarcosExclusivos

\* buscarPaginaPorPIDYMarco finds the page that was asked for and no other.
LEMMA PaginaUnica ==
    ASSUME Tipos, MarcosInv, AccesosInv, ~achico, NEW r \in pedidos, r.en = "MEMORIA"
    PROVE  PaginasDelPedido(r) = {Actual(r)} /\ Paginado(r)
  <1>1. Paginado(r) /\ fase[r.pid] = "CARGADO"
    BY DEF AccesosInv, Accesos, Paginados
  <1>2. CASE r.hechas > 0
    BY <1>1, <1>2 DEF PaginasDelPedido, Paginado
  <1>3. CASE ~ (r.hechas > 0)
    <2>1. Actual(r) \in DOMAIN tabla[r.pid] /\ tabla[r.pid][Actual(r)] = r.marco
      BY <1>1 DEF Paginado
    <2>2. \A k \in DOMAIN tabla[r.pid] : tabla[r.pid][k] = r.marco => k = Actual(r)
      BY <1>1, <2>1, PedidoTipo, MarcoDeUno
    <2> QED BY <1>1, <1>3, <2>1, <2>2 DEF PaginasDelPedido
  <1> QED BY <1>2, <1>3

\* What one page of a read, and of a write, does to its request.
LEMMA LeerPaginaAvanza ==
    ASSUME Tipos, MarcosInv, AccesosInv, ~achico, NEW r \in pedidos, LeerPagina(r)
    PROVE  LET s == Append(r.valor, dato[r.marco])
           IN  Avanzar(r, Actual(r), s, {[r EXCEPT !.en = "RESPUESTA", !.valor = s]})
  BY PaginaUnica DEF LeerPagina

LEMMA EscribirPaginaAvanza ==
    ASSUME Tipos, MarcosInv, AccesosInv, ~achico, NEW r \in pedidos, EscribirPagina(r)
    PROVE  /\ dato' = [dato EXCEPT ![r.marco] = r.valor[1]]
           /\ Avanzar(r, Actual(r), r.valor, {})
  <1>1. Actual(r) # 0 /\ PaginasDelPedido(r) = {Actual(r)}
    BY PaginaUnica, PedidoTipo DEF EscribirPagina
  <1> QED BY <1>1 DEF EscribirPagina

\* A request stays with its page while nobody writes the frames of its process.
LEMMA PaginadoEstable ==
    ASSUME Tipos, NEW r \in pedidos, Paginado(r), tabla'[r.pid] = tabla[r.pid],
           \A i \in DOMAIN tabla[r.pid] : dato'[tabla[r.pid][i]] = dato[tabla[r.pid][i]]
    PROVE  Paginado(r)'
  <1>1. ASSUME r.op = "LEER", NEW i \in 1 .. r.hechas
        PROVE  r.valor[i] = dato'[tabla[r.pid][r.pagina + i - 1]]
    <2>1. r.valor[i] = dato[tabla[r.pid][r.pagina + i - 1]] /\ Actual(r) \in DOMAIN tabla[r.pid]
      BY <1>1 DEF Paginado
    <2>2. r.pagina + i - 1 \in DOMAIN tabla[r.pid]
      BY <2>1, PedidoTipo DEF Actual
    <2> QED BY <2>1, <2>2
  <1> QED BY <1>1 DEF Paginado

\* The access that goes on with the next page.
LEMMA PaginadoSigue ==
    ASSUME Tipos, NEW r \in pedidos, Paginado(r), r.en = "MEMORIA", tabla' = tabla, NEW s,
           NEW x, x = [r EXCEPT !.num = Actual(r) + 1, !.hechas = @ + 1, !.valor = s,
                                !.marco = MarcoEnTabla(r.pid, Actual(r) + 1)],
           MarcoEnTabla(r.pid, Actual(r) + 1) # SinMarco,
           r.op = "ESCRIBIR" => s = r.valor,
           r.op = "LEER" => s = Append(r.valor, dato[r.marco]) /\ dato' = dato
    PROVE  Paginado(x)'
  <1>1. r \in PedidosPosibles /\ r.hechas \in Nat /\ r.pagina \in Nat /\ r.valor \in Seq(Valores)
    BY PedidoTipo
  <1>2. /\ x.pid = r.pid /\ x.pagina = r.pagina /\ x.hechas = r.hechas + 1 /\ x.num = Actual(r) + 1
        /\ x.op = r.op /\ x.en = "MEMORIA" /\ x.valor = s
        /\ x.marco = MarcoEnTabla(r.pid, Actual(r) + 1)
    BY <1>1 DEF PedidosPosibles
  <1>3. Actual(x) = Actual(r) + 1
    BY <1>1, <1>2 DEF Actual
  <1>4. Actual(x) \in DOMAIN tabla[x.pid] /\ x.marco = tabla[x.pid][Actual(x)]
    BY <1>2, <1>3 DEF MarcoEnTabla
  <1>5. ASSUME x.op = "LEER"
        PROVE  /\ Len(x.valor) = x.hechas
               /\ \A i \in 1 .. x.hechas : x.valor[i] = dato'[tabla[x.pid][x.pagina + i - 1]]
    <2>1. /\ Len(r.valor) = r.hechas /\ r.marco = tabla[r.pid][r.pagina + r.hechas]
          /\ \A i \in 1 .. r.hechas : r.valor[i] = dato[tabla[r.pid][r.pagina + i - 1]]
      BY <1>2, <1>5 DEF Paginado, Actual
    <2>2. /\ Len(s) = r.hechas + 1 /\ dato' = dato
          /\ \A i \in 1 .. r.hechas + 1 : s[i] = IF i = r.hechas + 1 THEN dato[r.marco] ELSE r.valor[i]
      BY <1>1, <1>2, <1>5, <2>1
    <2>3. r.pagina + (r.hechas + 1) - 1 = r.pagina + r.hechas
      BY <1>1
    <2>4. \A i \in 1 .. r.hechas + 1 : i = r.hechas + 1 \/ i \in 1 .. r.hechas
      BY <1>1
    <2> QED BY <1>2, <2>1, <2>2, <2>3, <2>4
  <1> QED BY <1>2, <1>3, <1>4, <1>5 DEF Paginado

\* A write changes the page it has come to and no page of any process that runs.
LEMMA EscribeSoloLaSuya ==
    ASSUME Tipos, MarcosInv, AccesosInv, ~achico, NEW r \in pedidos, EscribirPagina(r),
           NEW p \in Pids, fase[p] = "CARGADO", NEW k \in DOMAIN tabla[p]
    PROVE  dato'[tabla[p][k]] = IF p = r.pid /\ k = Actual(r) THEN r.valor[1] ELSE dato[tabla[p][k]]
  <1>1. dato' = [dato EXCEPT ![r.marco] = r.valor[1]]
    BY EscribirPaginaAvanza
  <1>2. Actual(r) \in DOMAIN tabla[r.pid] /\ r.marco = tabla[r.pid][Actual(r)]
    BY PaginaUnica DEF Paginado, EscribirPagina
  <1>3. fase[r.pid] = "CARGADO" /\ r.pid \in Pids
    BY PedidoTipo DEF AccesosInv, Accesos
  <1>4. tabla[p] \in Seq(Marcos) /\ tabla[p][k] \in Marcos /\ r.marco \in Marcos
    BY PedidoTipo DEF Tipos, TiposDatos, EscribirPagina
  <1>5. dato'[tabla[p][k]] = IF tabla[p][k] = r.marco THEN r.valor[1] ELSE dato[tabla[p][k]]
    BY <1>1, <1>4 DEF Tipos, TiposDatos
  <1>6. tabla[p][k] = r.marco => p = r.pid /\ k = Actual(r)
    BY <1>2, <1>3, MarcoDeUno
  <1> QED BY <1>2, <1>5, <1>6

\* A translation that finds a frame finds the one of the page table.
LEMMA TraduccionFiel ==
    ASSUME Tipos, TLBFiel, NEW p \in Pids, NEW k \in Paginas
    PROVE  Traduccion(p, k) # SinMarco => k \in DOMAIN tabla[p] /\ Traduccion(p, k) = tabla[p][k]
  <1>1. CASE MarcoEnTLB(p, k) = SinMarco
    BY <1>1 DEF Traduccion, MarcoEnTabla
  <1>2. CASE MarcoEnTLB(p, k) # SinMarco
    <2> DEFINE i == Min(EntradasDe(p, k))
    <2>1. EntradasDe(p, k) # {} /\ MarcoEnTLB(p, k) = tlb[i].marco
      BY <1>2 DEF MarcoEnTLB
    <2>2. i \in EntradasDe(p, k)
      BY <2>1, TraduccionLemma DEF Tipos
    <2> HIDE DEF i
    <2>3. i \in DOMAIN tlb /\ tlb[i].pid = p /\ tlb[i].pagina = k
      BY <2>2 DEF EntradasDe
    <2>4. k <= Len(tabla[p]) /\ tlb[i].marco = tabla[p][k]
      BY <1>2, <2>1, <2>3 DEF TLBFiel
    <2>5. tabla[p] \in Seq(Marcos) /\ k \in DOMAIN tabla[p]
      BY <2>4 DEF Tipos, TiposDatos, Paginas
    <2> QED BY <1>2, <2>1, <2>4, <2>5 DEF Traduccion
  <1> QED BY <1>1, <1>2

LEMMA AchicoQueda == Tipos /\ [Next]_vars /\ achico => achico'
  <1> SUFFICES ASSUME Tipos, [Next]_vars, achico PROVE achico'
    OBVIOUS
  <1>1. ASSUME NEW p \in Pids, Instruccion(p)
        PROVE  achico' = achico
    <2>1. \A n : RechazarResize(p, n) \/ EmpezarResize(p, n) => achico' = achico
      BY DEF RechazarResize, EmpezarResize
    <2>2. \A k : MovOutFuera(p, k) => achico' = achico
      BY DEF MovOutFuera
    <2>3. Salir(p) => achico' = achico
      BY DEF Salir
    <2> QED BY <1>1, <2>1, <2>2, <2>3, PedirAccede DEF Instruccion
  <1>2. \A p \in Pids : Crear(p) \/ CerrarVacio(p) \/ EmpezarCierre(p) => achico' = achico
    BY DEF Crear, CerrarVacio, EmpezarCierre
  <1>3. CierreLee \/ CierreEscribe \/ AgregarMarco \/ OcuparMarco \/ SoltarMarco => achico' = achico
    BY DEF CierreLee, CierreEscribe, AgregarMarco, OcuparMarco, SoltarMarco
  <1>4. SacarMarco => achico'
    BY DEF SacarMarco
  <1>5. \A r \in pedidos : Enviar(r) \/ LeerPagina(r) \/ EscribirPagina(r) \/ Recibir(r) => achico' = achico
    BY DEF Enviar, LeerPagina, EscribirPagina, Recibir
  <1>6. UNCHANGED vars => achico' = achico
    BY DEF vars
  <1> QED BY <1>1, <1>2, <1>3, <1>4, <1>5, <1>6 DEF Next

\* A step that writes no frame of a process and changes no page table of one with accesses.
LEMMA PaginadosQuedan ==
    ASSUME Tipos, AccesosInv, ~achico, pedidos' \subseteq pedidos,
           \A r \in pedidos' : tabla'[r.pid] = tabla[r.pid], dato' = dato
    PROVE  Paginados'
  <1>1. ASSUME NEW r \in pedidos', r.en # "RESPUESTA"
        PROVE  Paginado(r)'
    <2>1. r \in pedidos /\ Paginado(r)
      BY <1>1 DEF AccesosInv, Paginados
    <2> QED BY <1>1, <2>1, PaginadoEstable
  <1> QED BY <1>1 DEF Paginados

\* A step that adds or replaces one request.
LEMMA PaginadosUno ==
    ASSUME Tipos, AccesosInv, ~achico, tabla' = tabla, dato' = dato,
           NEW x, \A r \in pedidos' : r \in pedidos \/ r = x,
           x.en # "RESPUESTA" => Paginado(x)'
    PROVE  Paginados'
  <1>1. ASSUME NEW r \in pedidos', r.en # "RESPUESTA", r \in pedidos
        PROVE  Paginado(r)'
    <2>1. Paginado(r)
      BY <1>1 DEF AccesosInv, Paginados
    <2> QED BY <1>1, <2>1, PaginadoEstable
  <1> QED BY <1>1 DEF Paginados

\* Asking for a page that the MMU could translate.
LEMMA PaginadosPedir ==
    ASSUME Tipos, TLBFiel, AccesosInv, ~achico, NEW p \in Pids, NEW k \in Paginas,
           NEW de, NEW en, NEW op, NEW n, NEW s, Pedir(de, en, op, p, k, n, s),
           op = "ESCRIBIR" => Len(s) = 1, op = "LEER" => s = <<>>
    PROVE  Paginados'
  <1>0. PICK x : x = Pedido(de, en, op, p, k, n, Traduccion(p, k), s)
    OBVIOUS
  <1>1. /\ UNCHANGED <<tabla, dato>> /\ pedidos' = pedidos \cup {x}
        /\ Traduccion(p, k) # SinMarco
    BY <1>0 DEF Pedir
  <1>2. /\ x.pid = p /\ x.pagina = k /\ x.marco = Traduccion(p, k) /\ x.hechas = 0
        /\ x.op = op /\ x.valor = s
    BY <1>0 DEF Pedido
  <1>3. k \in DOMAIN tabla[p] /\ Traduccion(p, k) = tabla[p][k]
    BY <1>1, TraduccionFiel
  <1>4. Actual(x) = k
    BY <1>2 DEF Actual, Paginas
  <1>5. op = "LEER" => Len(s) = 0
    OBVIOUS
  <1>6. Paginado(x)'
    BY <1>1, <1>2, <1>3, <1>4, <1>5 DEF Paginado
  <1> QED BY <1>1, <1>6, PaginadosUno

\* What memoria and the interfaces do with a request.
LEMMA PaginadosPedido ==
    ASSUME Tipos, MarcosInv, AccesosInv, ~achico, NEW r \in pedidos,
           Enviar(r) \/ LeerPagina(r) \/ EscribirPagina(r) \/ Recibir(r)
    PROVE  Paginados'
  <1>1. tabla' = tabla
    BY DEF Enviar, LeerPagina, EscribirPagina, Recibir
  <1>2. r \in PedidosPosibles /\ r.op \in {"LEER", "ESCRIBIR"}
    BY PedidoTipo
  <1>3. CASE Enviar(r)
    <2>1. Paginado(r) /\ r.en = "INTERFAZ"
      BY <1>3 DEF Enviar, AccesosInv, Paginados
    <2>2. PICK x : x = [r EXCEPT !.en = "MEMORIA"]
      OBVIOUS
    <2>3. /\ x.pid = r.pid /\ x.pagina = r.pagina /\ x.marco = r.marco /\ x.hechas = r.hechas
          /\ x.num = r.num /\ x.op = r.op /\ x.valor = r.valor /\ x.en = "MEMORIA"
      BY <1>2, <2>2 DEF PedidosPosibles
    <2>4. pedidos' = (pedidos \ {r}) \cup {x} /\ dato' = dato
      BY <1>3, <2>2 DEF Enviar
    <2>5. Paginado(r)'
      BY <1>1, <2>1, <2>4, PaginadoEstable
    <2>6. Actual(x) = Actual(r)
      BY <2>3 DEF Actual
    <2>7. Paginado(x)'
      BY <2>3, <2>5, <2>6 DEF Paginado
    <2> QED BY <1>1, <2>4, <2>7, PaginadosUno
  <1>4. CASE LeerPagina(r)
    <2>1. PICK s : s = Append(r.valor, dato[r.marco])
      OBVIOUS
    <2>2. PICK y : y = [r EXCEPT !.en = "RESPUESTA", !.valor = s]
      OBVIOUS
    <2>3. Avanzar(r, Actual(r), s, {y}) /\ dato' = dato
      BY <1>4, <2>1, <2>2, LeerPaginaAvanza DEF LeerPagina
    <2>4. y.en = "RESPUESTA"
      BY <1>2, <2>2 DEF PedidosPosibles
    <2>5. Paginado(r) /\ r.en = "MEMORIA" /\ r.op = "LEER"
      BY <1>4, PaginaUnica DEF LeerPagina
    <2>6. CASE pedidos' = (pedidos \ {r}) \cup {y}
      BY <1>1, <2>3, <2>4, <2>6, PaginadosUno
    <2>7. CASE /\ MarcoEnTabla(r.pid, Actual(r) + 1) # SinMarco
               /\ pedidos' = (pedidos \ {r}) \cup
                    {[r EXCEPT !.num = Actual(r) + 1, !.hechas = @ + 1, !.valor = s,
                               !.marco = MarcoEnTabla(r.pid, Actual(r) + 1)]}
      <3>1. PICK x : x = [r EXCEPT !.num = Actual(r) + 1, !.hechas = @ + 1, !.valor = s,
                                   !.marco = MarcoEnTabla(r.pid, Actual(r) + 1)]
        OBVIOUS
      <3>2. Paginado(x)'
        BY <1>1, <2>1, <2>3, <2>5, <2>7, <3>1, PaginadoSigue
      <3> QED BY <1>1, <2>3, <2>7, <3>1, <3>2, PaginadosUno
    <2> QED BY <2>3, <2>6, <2>7 DEF Avanzar
  <1>5. CASE EscribirPagina(r)
    <2>1. Avanzar(r, Actual(r), r.valor, {})
      BY <1>5, EscribirPaginaAvanza
    <2>2. Paginado(r) /\ r.en = "MEMORIA" /\ r.op = "ESCRIBIR"
      BY <1>5, PaginaUnica DEF EscribirPagina
    <2>3. ASSUME NEW q \in pedidos', q \in pedidos, q # r, q.en # "RESPUESTA"
          PROVE  Paginado(q)'
      <3>1. Paginado(q) /\ q.pid # r.pid /\ fase[q.pid] = "CARGADO" /\ q.pid \in Pids
        BY <2>3, PedidoTipo DEF AccesosInv, Accesos, Paginados
      <3>2. \A i \in DOMAIN tabla[q.pid] : dato'[tabla[q.pid][i]] = dato[tabla[q.pid][i]]
        BY <1>5, <3>1, EscribeSoloLaSuya
      <3> QED BY <1>1, <2>3, <3>1, <3>2, PaginadoEstable
    <2>4. CASE pedidos' = (pedidos \ {r}) \cup {}
      BY <2>3, <2>4 DEF Paginados
    <2>5. CASE /\ MarcoEnTabla(r.pid, Actual(r) + 1) # SinMarco
               /\ pedidos' = (pedidos \ {r}) \cup
                    {[r EXCEPT !.num = Actual(r) + 1, !.hechas = @ + 1, !.valor = r.valor,
                               !.marco = MarcoEnTabla(r.pid, Actual(r) + 1)]}
      <3>1. PICK x : x = [r EXCEPT !.num = Actual(r) + 1, !.hechas = @ + 1, !.valor = r.valor,
                                   !.marco = MarcoEnTabla(r.pid, Actual(r) + 1)]
        OBVIOUS
      <3>2. Paginado(x)'
        BY <1>1, <2>2, <2>5, <3>1, PaginadoSigue
      <3>3. \A q \in pedidos' : q = x \/ (q \in pedidos /\ q # r)
        BY <2>5, <3>1
      <3> QED BY <2>3, <3>2, <3>3 DEF Paginados
    <2> QED BY <2>1, <2>4, <2>5 DEF Avanzar
  <1>6. CASE Recibir(r)
    BY <1>1, <1>6, PaginadosQuedan DEF Recibir
  <1> QED BY <1>3, <1>4, <1>5, <1>6

LEMMA PaginadosPaso ==
    ASSUME EntradaATiempo, Tipos, MarcosInv, TLBFiel, AccesosInv, [Next]_vars
    PROVE  Paginados'
  <1> SUFFICES ASSUME ~achico' PROVE Paginados'
    BY DEF Paginados
  <1>1. ~achico
    BY AchicoQueda
  <1>2. CASE UNCHANGED <<tabla, dato, pedidos>>
    BY <1>1, <1>2, PaginadosQuedan
  <1>3. ASSUME NEW p \in Pids, NEW k \in Paginas, NEW v \in Valores, MovInFuera(p, k, v)
        PROVE  Paginados'
    <2>1. PICK x : x = Pedido("CPU", "RESPUESTA", "LEER", p, k, 1, SinMarco, <<v>>)
      OBVIOUS
    <2>2. x.en = "RESPUESTA"
      BY <2>1 DEF Pedido
    <2> QED BY <1>1, <1>3, <2>1, <2>2, PaginadosUno DEF MovInFuera
  <1>4. ASSUME NEW p \in Pids, Instruccion(p)
        PROVE  Paginados'
    <2>1. CASE Salir(p) \/ \E n \in 0 .. MaxPaginas : RechazarResize(p, n) \/ EmpezarResize(p, n)
      BY <1>2, <2>1 DEF Salir, RechazarResize, EmpezarResize
    <2>2. ASSUME NEW k \in Paginas, MovOutFuera(p, k)
          PROVE  Paginados'
      BY <1>2, <2>2 DEF MovOutFuera
    <2>3. ASSUME NEW k \in Paginas, NEW v \in Valores, MovOut(p, k, v)
          PROVE  Paginados'
      <3>1. Len(<<v>>) = 1
        OBVIOUS
      <3> QED BY <1>1, <2>3, <3>1, PaginadosPedir DEF MovOut
    <2>4. ASSUME NEW k \in Paginas, NEW n \in 1 .. MaxLargo, MovIn(p, k, n) \/ Stdout(p, k, n)
          PROVE  Paginados'
      BY <1>1, <2>4, PaginadosPedir DEF MovIn, Stdout
    <2>5. ASSUME NEW k \in Paginas, NEW n \in 1 .. MaxLargo, NEW v \in Valores, Stdin(p, k, n, v)
          PROVE  Paginados'
      <3>1. Len(<<v>>) = 1
        OBVIOUS
      <3> QED BY <1>1, <2>5, <3>1, PaginadosPedir DEF Stdin
    <2> QED BY <1>3, <1>4, <2>1, <2>2, <2>3, <2>4, <2>5 DEF Instruccion
  <1>5. ASSUME NEW p \in Pids, Crear(p) \/ CerrarVacio(p) \/ EmpezarCierre(p)
        PROVE  Paginados'
    BY <1>2, <1>5 DEF Crear, CerrarVacio, EmpezarCierre
  <1>6. CASE CierreLee \/ CierreEscribe \/ OcuparMarco \/ SacarMarco \/ SoltarMarco
    BY <1>2, <1>6 DEF CierreLee, CierreEscribe, OcuparMarco, SacarMarco, SoltarMarco
  <1>7. CASE AgregarMarco
    <2>1. PICK a \in ajuste : /\ tabla' = [tabla EXCEPT ![a.pid] = Append(@, PrimerLibre)]
                              /\ UNCHANGED <<dato, pedidos>>
      BY <1>7 DEF AgregarMarco
    <2>2. \A r \in pedidos : r.pid # a.pid /\ r.pid \in Pids
      BY PedidoTipo DEF AccesosInv, Accesos
    <2>3. \A r \in pedidos : tabla'[r.pid] = tabla[r.pid]
      BY <2>1, <2>2 DEF Tipos, TiposDatos
    <2> QED BY <1>1, <2>1, <2>3, PaginadosQuedan
  <1>8. ASSUME NEW r \in pedidos, Enviar(r) \/ LeerPagina(r) \/ EscribirPagina(r) \/ Recibir(r)
        PROVE  Paginados'
    BY <1>1, <1>8, PaginadosPedido
  <1>9. CASE UNCHANGED vars
    BY <1>2, <1>9 DEF vars
  <1> QED BY <1>4, <1>5, <1>6, <1>7, <1>8, <1>9 DEF Next

\* Whatever is proved of the states of memoria.
Inv == Tipos /\ MarcosInv /\ TLBFiel /\ AccesosInv

LEMMA MemoriaInv == Exclusivo /\ EntradaATiempo => (Spec => []Inv)
  <1> SUFFICES ASSUME Exclusivo, EntradaATiempo PROVE Spec => []Inv
    OBVIOUS
  <1>1. Init => AccesosInv
    BY DEF Init, AccesosInv, Accesos, Paginados
  <1>2. Tipos /\ MarcosInv /\ TLBFiel /\ AccesosInv /\ [Next]_vars => AccesosInv'
    BY AccesosPaso, PaginadosPaso DEF AccesosInv, MarcosInv
  <1>3. Inv <=> Tipos /\ MarcosInv /\ TLBFiel /\ AccesosInv
    BY DEF Inv
  <1> QED BY <1>1, <1>2, <1>3, MemoriaTipos, MemoriaMarcosInv, TLBSiempreFiel, PTL DEF Spec

-----------------------------------------------------------------------------
(* The private spaces.                                                     *)

\* Sequences are equal when their elements are, and a function on 1 .. n is one.
LEMMA SecuenciaIgual ==
    ASSUME NEW S, NEW s \in Seq(S), NEW t \in Seq(S), Len(s) = Len(t),
           \A i \in 1 .. Len(s) : s[i] = t[i]
    PROVE  s = t
  OBVIOUS

LEMMA SecuenciaFuncion ==
    ASSUME NEW n \in Nat, NEW S, NEW f \in [1 .. n -> S]
    PROVE  f \in Seq(S) /\ Len(f) = n
  OBVIOUS

LEMMA Tramo ==
    ASSUME NEW S, NEW s \in Seq(S), NEW k \in Nat \ {0}, NEW n \in Nat \ {0}, k + n - 1 <= Len(s)
    PROVE  /\ SubSeq(s, k, k + n - 1) \in Seq(S) /\ Len(SubSeq(s, k, k + n - 1)) = n
           /\ \A i \in 1 .. n : SubSeq(s, k, k + n - 1)[i] = s[k + i - 1]
  <1>1. k \in 1 .. Len(s) /\ k + n - 1 \in 1 .. Len(s) /\ (k + n - 1) - k + 1 = n
    OBVIOUS
  <1> QED BY <1>1

\* The pages that a write has still to do, before and after it does one.
LEMMA FaltanLemma ==
    ASSUME NEW k \in Nat, NEW h \in Nat, NEW l \in Nat, h < l
    PROVE  /\ \A i \in Nat : i \in k + h .. k + l - 1 <=> i \in k + (h + 1) .. k + l - 1 \/ i = k + h
           /\ h + 1 = l => \A i \in Nat : i \in k + h .. k + l - 1 <=> i = k + h
           /\ \A i \in Nat : i <= k + h => (i \in k + h .. k + l - 1 <=> i = k + h)
  OBVIOUS

\* A process has one write on its way at most, and its content is the one that counts.
LEMMA ContenidoLemma ==
    ASSUME Tipos, Accesos, NEW p \in Pids, NEW k
    PROVE  /\ \A r \in EnCamino(p, k) : Contenido(p, k) = r.valor[1]
           /\ EnCamino(p, k) = {} => Contenido(p, k) = dato[tabla[p][k]]
           /\ k \in DOMAIN tabla[p] => Contenido(p, k) \in Valores
  <1>1. ASSUME NEW r \in EnCamino(p, k)
        PROVE  Contenido(p, k) = r.valor[1] /\ r.valor[1] \in Valores
    <2>1. \A s \in EnCamino(p, k) : s = r
      BY DEF EnCamino, Accesos
    <2>2. (CHOOSE s \in EnCamino(p, k) : TRUE) = r
      BY <2>1
    <2>3. r \in pedidos /\ r.op = "ESCRIBIR"
      BY DEF EnCamino
    <2>4. r.valor \in Seq(Valores) /\ r.valor # <<>>
      BY <2>3, PedidoTipo
    <2>5. r.valor[1] \in Valores
      BY <2>4
    <2>6. EnCamino(p, k) # {}
      OBVIOUS
    <2> QED BY <2>2, <2>5, <2>6 DEF Contenido
  <1>2. EnCamino(p, k) = {} => Contenido(p, k) = dato[tabla[p][k]]
    BY DEF Contenido
  <1>3. k \in DOMAIN tabla[p] => dato[tabla[p][k]] \in Valores
    BY DEF Tipos, TiposDatos
  <1> QED BY <1>1, <1>2, <1>3

LEMMA EspacioLemma ==
    ASSUME Tipos, Accesos, NEW p \in Pids, fase[p] = "CARGADO"
    PROVE  /\ espacio[p] \in Seq(Valores) /\ Len(espacio[p]) = Len(tabla[p])
           /\ DOMAIN espacio[p] = 1 .. Len(tabla[p]) /\ DOMAIN tabla[p] = 1 .. Len(tabla[p])
           /\ Len(tabla[p]) \in Nat
           /\ \A k \in 1 .. Len(tabla[p]) : espacio[p][k] = Contenido(p, k)
  <1>1. espacio[p] = [k \in 1 .. Len(tabla[p]) |-> Contenido(p, k)]
    BY DEF espacio
  <1>2. tabla[p] \in Seq(Marcos) /\ Len(tabla[p]) \in Nat /\ DOMAIN tabla[p] = 1 .. Len(tabla[p])
    BY DEF Tipos, TiposDatos
  <1>3. \A k \in 1 .. Len(tabla[p]) : Contenido(p, k) \in Valores
    BY <1>2, ContenidoLemma
  <1>4. espacio[p] \in [1 .. Len(tabla[p]) -> Valores]
    BY <1>1, <1>3
  <1>5. espacio[p] \in Seq(Valores) /\ Len(espacio[p]) = Len(tabla[p])
    BY <1>2, <1>4, SecuenciaFuncion
  <1> QED BY <1>1, <1>2, <1>5

\* A write that memoria has.
Escritura(r) == r.op = "ESCRIBIR" /\ r.en = "MEMORIA"

LEMMA EnCaminoIgual ==
    ASSUME NEW p, NEW k,
           \A r : r.pid = p /\ Escritura(r) => (r \in pedidos' <=> r \in pedidos)
    PROVE  EnCamino(p, k)' = EnCamino(p, k)
  BY DEF EnCamino, Escritura, Faltantes

Elegido(S) == CHOOSE r \in S : TRUE

LEMMA ContenidoIgual ==
    ASSUME NEW p, NEW k, tabla'[p] = tabla[p], dato'[tabla[p][k]] = dato[tabla[p][k]],
           \A r : r.pid = p /\ Escritura(r) => (r \in pedidos' <=> r \in pedidos)
    PROVE  Contenido(p, k)' = Contenido(p, k)
  <1>1. EnCamino(p, k)' = EnCamino(p, k)
    BY EnCaminoIgual
  <1>2. Contenido(p, k) = IF EnCamino(p, k) = {} THEN dato[tabla[p][k]]
                          ELSE Elegido(EnCamino(p, k)).valor[1]
    BY DEF Contenido, Elegido
  <1>3. Contenido(p, k)' = IF EnCamino(p, k)' = {} THEN dato'[tabla'[p][k]]
                           ELSE Elegido(EnCamino(p, k)').valor[1]
    BY DEF Contenido, Elegido
  <1> QED BY <1>1, <1>2, <1>3

\* The space of a process whose table, writes and frames stay.
LEMMA EspacioIgual ==
    ASSUME NEW p \in Pids, fase'[p] = "CARGADO" <=> fase[p] = "CARGADO",
           fase[p] = "CARGADO" =>
             /\ tabla'[p] = tabla[p]
             /\ \A k \in 1 .. Len(tabla[p]) : Contenido(p, k)' = Contenido(p, k)
    PROVE  espacio'[p] = espacio[p]
  <1>1. espacio'[p] = IF fase'[p] = "CARGADO"
                      THEN [k \in 1 .. Len(tabla'[p]) |-> Contenido(p, k)'] ELSE <<>>
    BY DEF espacio
  <1>2. espacio[p] = IF fase[p] = "CARGADO"
                     THEN [k \in 1 .. Len(tabla[p]) |-> Contenido(p, k)] ELSE <<>>
    BY DEF espacio
  <1> QED BY <1>1, <1>2

\* A change of one space.
LEMMA EspacioDeUno ==
    ASSUME NEW p \in Pids, NEW e, espacio'[p] = e,
           \A q \in Pids : q # p => espacio'[q] = espacio[q]
    PROVE  espacio' = [espacio EXCEPT ![p] = e]
  <1>1. /\ espacio = [q \in Pids |-> espacio[q]]
        /\ espacio' = [q \in Pids |-> espacio'[q]]
    BY DEF espacio
  <1> QED BY <1>1

LEMMA EspaciosIguales ==
    ASSUME \A q \in Pids : espacio'[q] = espacio[q]
    PROVE  espacio' = espacio
  <1>1. /\ espacio = [q \in Pids |-> espacio[q]]
        /\ espacio' = [q \in Pids |-> espacio'[q]]
    BY DEF espacio
  <1> QED BY <1>1

LEMMA RespuestasIguales ==
    ASSUME \A r : r.en = "RESPUESTA" => (r \in pedidos' <=> r \in pedidos)
    PROVE  respuestas' = respuestas
  <1>1. {r \in pedidos' : r.en = "RESPUESTA"} = {r \in pedidos : r.en = "RESPUESTA"}
    OBVIOUS
  <1> QED BY <1>1 DEF respuestas

-----------------------------------------------------------------------------
(* Steps that no process sees.                                             *)

Nada == espacio' = espacio /\ respuestas' = respuestas

\* Every process keeps its table, its frames and its accesses.
LEMMA NadaCambia ==
    ASSUME UNCHANGED <<dato, pedidos>>,
           \A q \in Pids : /\ fase'[q] = "CARGADO" <=> fase[q] = "CARGADO"
                           /\ fase[q] = "CARGADO" => tabla'[q] = tabla[q]
    PROVE  Nada
  <1>1. ASSUME NEW q \in Pids
        PROVE  espacio'[q] = espacio[q]
    <2>1. fase[q] = "CARGADO" => \A k : Contenido(q, k)' = Contenido(q, k)
      BY ContenidoIgual
    <2> QED BY <2>1, EspacioIgual
  <1>2. respuestas' = respuestas
    BY DEF respuestas
  <1> QED BY <1>1, <1>2, EspaciosIguales DEF Nada

\* The accesses change, but no write in the hands of memoria and no answer.
LEMMA NadaPedido ==
    ASSUME UNCHANGED <<fase, tabla, dato>>,
           \A r : Escritura(r) \/ r.en = "RESPUESTA" => (r \in pedidos' <=> r \in pedidos)
    PROVE  Nada
  <1>1. ASSUME NEW q \in Pids
        PROVE  espacio'[q] = espacio[q]
    <2>1. \A k : Contenido(q, k)' = Contenido(q, k)
      BY ContenidoIgual
    <2> QED BY <2>1, EspacioIgual
  <1> QED BY <1>1, RespuestasIguales, EspaciosIguales DEF Nada

\* crearProceso gives an empty space, which an unknown process has already.
LEMMA NadaCrear ==
    ASSUME Inv, NEW p \in Pids, Crear(p)
    PROVE  Nada
  <1>1. UNCHANGED <<tabla, dato, pedidos>> /\ fase[p] = "NUEVO" /\ tabla[p] = <<>>
    BY DEF Crear, Inv, MarcosInv, Fases
  <1>2. \A q \in Pids : q # p => fase'[q] = fase[q]
    BY DEF Crear, Inv, Tipos, TiposDatos
  <1>3. ASSUME NEW q \in Pids, q # p
        PROVE  espacio'[q] = espacio[q]
    <2>1. \A k : Contenido(q, k)' = Contenido(q, k)
      BY <1>1, ContenidoIgual
    <2> QED BY <1>1, <1>2, <1>3, <2>1, EspacioIgual
  <1>4. espacio'[p] = espacio[p]
    <2>1. espacio[p] = <<>>
      BY <1>1 DEF espacio
    <2>2. 1 .. Len(tabla'[p]) = 1 .. 0
      BY <1>1
    <2>3. espacio'[p] = IF fase'[p] = "CARGADO" THEN [k \in 1 .. 0 |-> Contenido(p, k)'] ELSE <<>>
      BY <2>2 DEF espacio
    <2> QED BY <2>1, <2>3
  <1>5. respuestas' = respuestas
    BY <1>1 DEF respuestas
  <1> QED BY <1>3, <1>4, <1>5, EspaciosIguales DEF Nada

\* The ends of processes, the bitmap and the translations that find nothing.
LEMMA NadaInterno ==
    ASSUME Inv,
           \/ \E p \in Pids :
                \/ CerrarVacio(p) \/ EmpezarCierre(p)
                \/ \E n \in 0 .. MaxPaginas : EmpezarResize(p, n)
                \/ \E k \in Paginas : MovOutFuera(p, k)
           \/ CierreLee \/ CierreEscribe \/ OcuparMarco \/ SacarMarco \/ SoltarMarco
    PROVE  Nada
  <1>1. UNCHANGED <<tabla, dato, pedidos>>
    BY DEF CerrarVacio, EmpezarCierre, EmpezarResize, MovOutFuera, CierreLee, CierreEscribe,
       OcuparMarco, SacarMarco, SoltarMarco
  <1>2. fase \in [Pids -> {"NUEVO", "CARGADO", "RECHAZADO", "SALIENDO", "FIN"}]
    BY DEF Inv, Tipos, TiposDatos
  <1>3. ASSUME NEW x \in Pids, fase[x] = "SALIENDO", fase' = [fase EXCEPT ![x] = "FIN"]
        PROVE  Nada
    BY <1>1, <1>2, <1>3, NadaCambia
  <1>4. CASE fase' = fase
    BY <1>1, <1>4, NadaCambia
  <1>5. ASSUME NEW p \in Pids, CerrarVacio(p)
        PROVE  Nada
    BY <1>3, <1>5 DEF CerrarVacio
  <1>6. CASE CierreEscribe
    <2>1. PICK c \in cierre : fase' = IF c.faltan = 1 THEN [fase EXCEPT ![c.pid] = "FIN"] ELSE fase
      BY <1>6 DEF CierreEscribe
    <2>2. fase[c.pid] = "SALIENDO" /\ c.pid \in Pids
      BY DEF Inv, MarcosInv, Fases, Tipos, TiposLazos, Registro
    <2> QED BY <1>3, <1>4, <2>1, <2>2
  <1> QED BY <1>4, <1>5, <1>6 DEF EmpezarCierre, EmpezarResize, MovOutFuera, CierreLee, OcuparMarco,
             SacarMarco, SoltarMarco

-----------------------------------------------------------------------------
(* Steps of the private spaces.                                            *)

\* EXIT and the RESIZE that is refused empty the space.
LEMMA PasoTerminar ==
    ASSUME Inv, NEW p \in Pids, Salir(p) \/ \E n \in 0 .. MaxPaginas : RechazarResize(p, n)
    PROVE  MV!Terminar(p)
  <1>1. UNCHANGED <<tabla, dato, pedidos>> /\ fase' = [fase EXCEPT ![p] = "SALIENDO"]
    BY DEF Salir, RechazarResize
  <1>2. fase'[p] = "SALIENDO" /\ \A q \in Pids : q # p => fase'[q] = fase[q]
    BY <1>1 DEF Inv, Tipos, TiposDatos
  <1>3. espacio'[p] = <<>>
    BY <1>2 DEF espacio
  <1>4. ASSUME NEW q \in Pids, q # p
        PROVE  espacio'[q] = espacio[q]
    <2>1. \A k : Contenido(q, k)' = Contenido(q, k)
      BY <1>1, ContenidoIgual
    <2> QED BY <1>1, <1>2, <1>4, <2>1, EspacioIgual
  <1>5. espacio' = [espacio EXCEPT ![p] = <<>>]
    BY <1>3, <1>4, EspacioDeUno
  <1>6. respuestas' = respuestas
    BY <1>1 DEF respuestas
  <1> QED BY <1>5, <1>6 DEF MV!Terminar

\* The growing loop adds a page, which holds what its frame held.
LEMMA PasoCrecer ==
    ASSUME Inv, AgregarMarco
    PROVE  \E p \in Pids : MV!Crecer(p)
  <1>1. PICK a \in ajuste :
          /\ libres # {}
          /\ tabla' = [tabla EXCEPT ![a.pid] = Append(@, PrimerLibre)]
          /\ UNCHANGED <<fase, dato, pedidos>>
    BY DEF AgregarMarco
  <1>2. a.pid \in Pids /\ fase[a.pid] = "CARGADO"
    BY DEF Inv, MarcosInv, Fases, Tipos, TiposLazos, Registro
  <1>3. PICK p \in Pids : p = a.pid
    BY <1>2
  <1>4. PICK m \in Marcos : m = PrimerLibre
    BY <1>1, PrimerLibreLemma DEF Inv, Tipos, TiposBitmap
  <1>5. \A r \in pedidos : r.pid # p
    BY <1>3 DEF Inv, AccesosInv, Accesos
  <1> DEFINE t == tabla[p]
             v == dato[m]
  <1>6. /\ espacio[p] \in Seq(Valores) /\ Len(espacio[p]) = Len(t) /\ Len(t) \in Nat
        /\ t \in Seq(Marcos) /\ v \in Valores
        /\ \A k \in 1 .. Len(t) : espacio[p][k] = Contenido(p, k)
    BY <1>2, <1>3, EspacioLemma DEF Inv, Tipos, TiposDatos, AccesosInv
  <1>7. \A q \in Pids : tabla'[q] = IF q = p THEN Append(t, m) ELSE tabla[q]
    BY <1>1, <1>3, <1>4 DEF Inv, Tipos, TiposDatos
  <1>8. \A k : Contenido(p, k) = dato[tabla[p][k]] /\ Contenido(p, k)' = dato'[tabla'[p][k]]
    <2>1. \A k : EnCamino(p, k) = {} /\ EnCamino(p, k)' = {}
      BY <1>1, <1>5 DEF EnCamino
    <2> QED BY <2>1 DEF Contenido
  <1>9. espacio'[p] = [k \in 1 .. Len(tabla'[p]) |-> dato[tabla'[p][k]]]
    BY <1>1, <1>2, <1>3, <1>8 DEF espacio
  <1>10. /\ Len(Append(t, m)) = Len(t) + 1
         /\ \A k \in 1 .. Len(t) + 1 : Append(t, m)[k] = IF k = Len(t) + 1 THEN m ELSE t[k]
    BY <1>6
  <1>11. /\ Append(espacio[p], v) \in Seq(Valores) /\ Len(Append(espacio[p], v)) = Len(t) + 1
         /\ \A k \in 1 .. Len(t) + 1 :
              Append(espacio[p], v)[k] = IF k = Len(t) + 1 THEN v ELSE espacio[p][k]
    BY <1>6
  <1>12. \A k \in 1 .. Len(t) + 1 : k = Len(t) + 1 \/ k \in 1 .. Len(t)
    BY <1>6
  <1>13. tabla'[p] = Append(t, m)
    BY <1>7
  <1> HIDE DEF t
  <1>14. /\ DOMAIN espacio'[p] = 1 .. Len(t) + 1
         /\ \A k \in 1 .. Len(t) + 1 : espacio'[p][k] = IF k = Len(t) + 1 THEN v ELSE espacio[p][k]
    <2>1. \A k \in 1 .. Len(t) : Contenido(p, k) = dato[t[k]]
      BY <1>8 DEF t
    <2> QED BY <1>6, <1>9, <1>10, <1>12, <1>13, <2>1
  <1>15. espacio'[p] \in [1 .. Len(t) + 1 -> Valores]
    <2>1. espacio'[p] = [k \in 1 .. Len(t) + 1 |-> espacio'[p][k]]
      BY <1>9, <1>10, <1>13
    <2>2. \A k \in 1 .. Len(t) : espacio[p][k] \in Valores
      BY <1>6
    <2> QED BY <1>6, <1>12, <1>14, <2>1, <2>2
  <1>16. espacio'[p] \in Seq(Valores) /\ Len(espacio'[p]) = Len(t) + 1
    BY <1>6, <1>15, SecuenciaFuncion
  <1>17. espacio'[p] = Append(espacio[p], v)
    BY <1>11, <1>14, <1>16, SecuenciaIgual
  <1>18. ASSUME NEW q \in Pids, q # p
         PROVE  espacio'[q] = espacio[q]
    <2>1. tabla'[q] = tabla[q]
      BY <1>7, <1>18
    <2>2. \A k : Contenido(q, k)' = Contenido(q, k)
      BY <1>1, <2>1, ContenidoIgual
    <2> QED BY <1>1, <2>1, <2>2, EspacioIgual
  <1>19. espacio' = [espacio EXCEPT ![p] = Append(espacio[p], v)]
    BY <1>17, <1>18, EspacioDeUno
  <1>20. respuestas' = respuestas
    BY <1>1 DEF respuestas
  <1> QED BY <1>6, <1>19, <1>20 DEF MV!Crecer

\* What a process reads while its only access is a write.
LEMMA ContenidoEscrito ==
    ASSUME NEW p, NEW x, x \in pedidos, x.pid = p, Escritura(x), \A r \in pedidos : r.pid = p => r = x
    PROVE  \A i : Contenido(p, i) = IF i \in Faltantes(x) THEN x.valor[1] ELSE dato[tabla[p][i]]
  <1> SUFFICES ASSUME NEW i
               PROVE  Contenido(p, i) = IF i \in Faltantes(x) THEN x.valor[1] ELSE dato[tabla[p][i]]
    OBVIOUS
  <1>1. EnCamino(p, i) = IF i \in Faltantes(x) THEN {x} ELSE {}
    BY DEF EnCamino, Escritura
  <1>2. (CHOOSE r \in {x} : TRUE) = x
    OBVIOUS
  <1> QED BY <1>1, <1>2 DEF Contenido

LEMMA ContenidoEscritoLuego ==
    ASSUME NEW p, NEW x, x \in pedidos', x.pid = p, Escritura(x), \A r \in pedidos' : r.pid = p => r = x
    PROVE  \A i : Contenido(p, i)' = IF i \in Faltantes(x) THEN x.valor[1] ELSE dato'[tabla'[p][i]]
  <1> SUFFICES ASSUME NEW i
               PROVE  Contenido(p, i)' = IF i \in Faltantes(x) THEN x.valor[1] ELSE dato'[tabla'[p][i]]
    OBVIOUS
  <1>1. EnCamino(p, i)' = IF i \in Faltantes(x) THEN {x} ELSE {}
    BY DEF EnCamino, Escritura, Faltantes
  <1>2. (CHOOSE r \in {x} : TRUE) = x
    OBVIOUS
  <1> QED BY <1>1, <1>2 DEF Contenido

LEMMA ContenidoLeido ==
    ASSUME NEW p, \A r \in pedidos : r.pid = p => ~ Escritura(r)
    PROVE  \A i : Contenido(p, i) = dato[tabla[p][i]]
  <1>1. \A i : EnCamino(p, i) = {}
    BY DEF EnCamino, Escritura
  <1> QED BY <1>1 DEF Contenido

\* A write that reaches memoria: MOV_OUT, and IO_STDIN_READ when the interface sends it. From
\* here on the process reads it.
LEMMA PasoEscribir ==
    ASSUME Inv, UNCHANGED <<fase, tabla, dato>>, NEW p \in Pids, fase[p] = "CARGADO",
           NEW x \in pedidos', x.pid = p, Escritura(x), x.hechas = 0,
           x.pagina \in DOMAIN tabla[p], x.largo \in Nat \ {0}, x.valor[1] \in Valores,
           \A r \in pedidos' : r.pid = p => r = x,
           \A r \in pedidos : r.pid = p => ~ Escritura(r) /\ r.en # "RESPUESTA",
           \A r : r.pid # p => (r \in pedidos' <=> r \in pedidos)
    PROVE  \E k \in 1 .. Len(espacio[p]), n \in 1 .. Len(espacio[p]) : \E v \in Valores :
             MV!Escribir(p, k, n, v)
  <1> DEFINE L == Len(tabla[p])
             k == x.pagina
             n == IF x.largo <= L THEN x.largo ELSE L
             v == x.valor[1]
  <1>1. /\ Len(espacio[p]) = L /\ L \in Nat
        /\ DOMAIN espacio[p] = 1 .. L /\ k \in 1 .. L
        /\ \A i \in 1 .. L : espacio[p][i] = Contenido(p, i)
    BY EspacioLemma DEF Inv, AccesosInv
  <1>2. n \in 1 .. L
    BY <1>1
  <1>3. \A i \in 1 .. L : i \in Faltantes(x) <=> i \in k .. k + n - 1
    BY <1>1 DEF Faltantes
  <1>4. \A i : Contenido(p, i)' = IF i \in Faltantes(x) THEN v ELSE dato[tabla[p][i]]
    BY ContenidoEscritoLuego
  <1>5. \A i : Contenido(p, i) = dato[tabla[p][i]]
    BY ContenidoLeido
  <1>6. espacio'[p] = [i \in 1 .. L |-> Contenido(p, i)']
    BY DEF espacio
  <1> HIDE DEF L, n
  <1>7. espacio'[p] = [i \in DOMAIN espacio[p] |-> IF i \in k .. k + n - 1 THEN v ELSE espacio[p][i]]
    BY <1>1, <1>3, <1>4, <1>5, <1>6
  <1>8. ASSUME NEW q \in Pids, q # p
        PROVE  espacio'[q] = espacio[q]
    <2>1. \A i : Contenido(q, i)' = Contenido(q, i)
      BY <1>8, ContenidoIgual
    <2> QED BY <1>8, <2>1, EspacioIgual
  <1>9. respuestas' = respuestas
    BY RespuestasIguales DEF Escritura
  <1>10. espacio' = [espacio EXCEPT ![p] =
                      [i \in DOMAIN @ |-> IF i \in k .. k + n - 1 THEN v ELSE @[i]]]
    BY <1>7, <1>8, EspacioDeUno
  <1>11. MV!Escribir(p, k, n, v)
    BY <1>9, <1>10 DEF MV!Escribir
  <1> QED BY <1>1, <1>2, <1>11

\* MOV_IN, IO_STDOUT_WRITE and IO_STDIN_READ start without effect; MOV_OUT counts at once.
LEMMA PasoPedir ==
    ASSUME Inv, EntradaATiempo, NEW p \in Pids, NEW k \in Paginas,
           \/ \E v \in Valores : MovOut(p, k, v)
           \/ \E n \in 1 .. MaxLargo : \/ MovIn(p, k, n) \/ Stdout(p, k, n)
                                      \/ \E v \in Valores : Stdin(p, k, n, v)
    PROVE  \/ Nada
           \/ \E i \in 1 .. Len(espacio[p]), n \in 1 .. Len(espacio[p]) : \E v \in Valores :
                MV!Escribir(p, i, n, v)
  <1>1. ASSUME NEW de, NEW en, NEW op, NEW n, NEW s, Pedir(de, en, op, p, k, n, s),
               op # "ESCRIBIR" \/ en # "MEMORIA", en # "RESPUESTA"
        PROVE  Nada
    <2>1. PICK x : x = Pedido(de, en, op, p, k, n, Traduccion(p, k), s)
      OBVIOUS
    <2>2. UNCHANGED <<fase, tabla, dato>> /\ pedidos' = pedidos \cup {x}
      BY <1>1, <2>1 DEF Pedir
    <2>3. x.op = op /\ x.en = en
      BY <2>1 DEF Pedido
    <2>4. ~ Escritura(x) /\ x.en # "RESPUESTA"
      BY <1>1, <2>3 DEF Escritura
    <2> QED BY <2>2, <2>4, NadaPedido
  <1>2. ASSUME NEW n, MovIn(p, k, n) \/ Stdout(p, k, n) \/ \E v \in Valores : Stdin(p, k, n, v)
        PROVE  Nada
    BY <1>1, <1>2 DEF MovIn, Stdout, Stdin
  <1>3. ASSUME NEW v \in Valores, MovOut(p, k, v)
        PROVE  \E i \in 1 .. Len(espacio[p]), n \in 1 .. Len(espacio[p]) : \E w \in Valores :
                 MV!Escribir(p, i, n, w)
    <2>1. PICK x : x = Pedido("CPU", "MEMORIA", "ESCRIBIR", p, k, 1, Traduccion(p, k), <<v>>)
      OBVIOUS
    <2>2. /\ UNCHANGED <<fase, tabla, dato>> /\ pedidos' = pedidos \cup {x} /\ Puede(p)
          /\ Traduccion(p, k) # SinMarco
      BY <1>3, <2>1 DEF MovOut, Pedir
    <2>3. /\ x.pid = p /\ x.pagina = k /\ x.hechas = 0 /\ x.largo = 1 /\ x.valor = <<v>>
          /\ x.op = "ESCRIBIR" /\ x.en = "MEMORIA"
      BY <2>1 DEF Pedido
    <2>4. fase[p] = "CARGADO" /\ \A r \in pedidos : r.pid # p
      BY <2>2, SinAccesos DEF Puede
    <2>5. x.pagina \in DOMAIN tabla[p]
      BY <2>2, <2>3, TraduccionFiel DEF Inv
    <2>6. Escritura(x) /\ x.valor[1] \in Valores /\ x.largo \in Nat \ {0}
      BY <2>3 DEF Escritura
    <2> QED BY <2>2, <2>3, <2>4, <2>5, <2>6, PasoEscribir
  <1> QED BY <1>2, <1>3

\* MOV_IN of a page that the process does not have gets some value.
LEMMA PasoLeerFuera ==
    ASSUME Inv, EntradaATiempo, NEW p \in Pids, NEW k \in Paginas, NEW v \in Valores, MovInFuera(p, k, v)
    PROVE  MV!LeerFuera(p, k)
  <1>1. PICK x : x = Pedido("CPU", "RESPUESTA", "LEER", p, k, 1, SinMarco, <<v>>)
    OBVIOUS
  <1>2. /\ UNCHANGED <<fase, tabla, dato>> /\ pedidos' = pedidos \cup {x} /\ Puede(p)
        /\ Traduccion(p, k) = SinMarco
    BY <1>1 DEF MovInFuera
  <1>3. x.pid = p /\ x.pagina = k /\ x.valor = <<v>> /\ x.op = "LEER" /\ x.en = "RESPUESTA"
    BY <1>1 DEF Pedido
  <1>4. fase[p] = "CARGADO"
    BY <1>2 DEF Puede
  <1>5. Len(espacio[p]) = Len(tabla[p]) /\ tabla[p] \in Seq(Marcos)
    BY <1>4, EspacioLemma DEF Inv, AccesosInv, Tipos, TiposDatos
  <1>6. k \notin DOMAIN tabla[p]
    <2>1. MarcoEnTabla(p, k) = SinMarco
      BY <1>2 DEF Traduccion
    <2>2. \A i \in DOMAIN tabla[p] : tabla[p][i] \in Marcos
      BY <1>5
    <2>3. SinMarco \notin Marcos
      BY DEF Marcos, SinMarco
    <2> QED BY <2>1, <2>2, <2>3 DEF MarcoEnTabla
  <1>7. k > Len(espacio[p])
    BY <1>5, <1>6 DEF Paginas
  <1>8. ASSUME NEW q \in Pids
        PROVE  espacio'[q] = espacio[q]
    <2>1. \A i : Contenido(q, i)' = Contenido(q, i)
      BY <1>2, <1>3, ContenidoIgual DEF Escritura
    <2> QED BY <1>2, <2>1, EspacioIgual
  <1>9. respuestas' = respuestas \cup {MV!Respuesta(p, k, <<v>>)}
    <2>1. {r \in pedidos' : r.en = "RESPUESTA"} = {r \in pedidos : r.en = "RESPUESTA"} \cup {x}
      BY <1>2, <1>3
    <2>2. [pid |-> x.pid, pagina |-> x.pagina, valor |-> x.valor] = MV!Respuesta(p, k, <<v>>)
      BY <1>3 DEF MV!Respuesta
    <2> QED BY <2>1, <2>2 DEF respuestas
  <1> QED BY <1>7, <1>8, <1>9, EspaciosIguales DEF MV!LeerFuera

LEMMA PasoEnviar ==
    ASSUME Inv, ~achico, NEW r \in pedidos, Enviar(r)
    PROVE  \/ Nada
           \/ \E i \in 1 .. Len(espacio[r.pid]), n \in 1 .. Len(espacio[r.pid]) : \E v \in Valores :
                MV!Escribir(r.pid, i, n, v)
  <1>1. PICK x : x = [r EXCEPT !.en = "MEMORIA"]
    OBVIOUS
  <1>2. /\ UNCHANGED <<fase, tabla, dato>> /\ pedidos' = (pedidos \ {r}) \cup {x}
        /\ r.en = "INTERFAZ"
    BY <1>1 DEF Enviar
  <1>3. /\ r \in PedidosPosibles /\ r.pid \in Pids /\ r.largo \in Nat \ {0}
        /\ r.op = "ESCRIBIR" => r.valor[1] \in Valores
    <2>1. r.valor \in Seq(Valores) /\ (r.op = "ESCRIBIR" => r.valor # <<>>)
      BY PedidoTipo DEF Inv
    <2> QED BY <2>1, PedidoTipo DEF Inv
  <1>4. /\ x.pid = r.pid /\ x.pagina = r.pagina /\ x.hechas = r.hechas /\ x.largo = r.largo
        /\ x.op = r.op /\ x.valor = r.valor /\ x.en = "MEMORIA"
    BY <1>1, <1>3 DEF PedidosPosibles
  <1>5. CASE r.op # "ESCRIBIR"
    BY <1>2, <1>4, <1>5, NadaPedido DEF Escritura
  <1>6. CASE r.op = "ESCRIBIR"
    <2>1. Paginado(r) /\ fase[r.pid] = "CARGADO" /\ \A s \in pedidos : s.pid = r.pid => s = r
      BY <1>2 DEF Inv, AccesosInv, Accesos, Paginados
    <2>2. r.hechas = 0 /\ Actual(r) = r.pagina /\ Actual(r) \in DOMAIN tabla[r.pid]
      BY <1>2, <2>1, PedidoTipo DEF Paginado, Actual, Inv
    <2>3. Escritura(x) /\ ~ Escritura(r)
      BY <1>2, <1>4, <1>6 DEF Escritura
    <2>4. /\ \A s \in pedidos' : s.pid = r.pid => s = x
          /\ \A s \in pedidos : s.pid = r.pid => ~ Escritura(s) /\ s.en # "RESPUESTA"
          /\ \A s : s.pid # r.pid => (s \in pedidos' <=> s \in pedidos)
          /\ x \in pedidos'
      BY <1>2, <1>4, <2>1, <2>3
    <2> QED BY <1>2, <1>3, <1>4, <1>6, <2>1, <2>2, <2>3, <2>4, PasoEscribir
  <1> QED BY <1>5, <1>6

\* One page of a read: the last one answers what the process has written.
LEMMA PasoLeerPagina ==
    ASSUME Inv, ~achico, NEW r \in pedidos, LeerPagina(r)
    PROVE  \/ Nada
           \/ \E i \in 1 .. Len(espacio[r.pid]), n \in 1 .. Len(espacio[r.pid]) : MV!Leer(r.pid, i, n)
  <1>1. PICK s : s = Append(r.valor, dato[r.marco])
    OBVIOUS
  <1>2. PICK y : y = [r EXCEPT !.en = "RESPUESTA", !.valor = s]
    OBVIOUS
  <1>3. /\ Avanzar(r, Actual(r), s, {y}) /\ UNCHANGED <<fase, tabla, dato>>
        /\ r.en = "MEMORIA" /\ r.op = "LEER"
    BY <1>1, <1>2, LeerPaginaAvanza DEF LeerPagina, Inv
  <1>4. /\ r \in PedidosPosibles /\ r.pid \in Pids /\ r.pagina \in Nat \ {0} /\ r.hechas \in Nat
        /\ r.valor \in Seq(Valores) /\ r.marco \in Marcos
    BY <1>3, PedidoTipo DEF Inv
  <1>5. Paginado(r) /\ fase[r.pid] = "CARGADO" /\ \A q \in pedidos : q.pid = r.pid => q = r
    BY <1>3 DEF Inv, AccesosInv, Accesos, Paginados
  <1>6. CASE pedidos' # (pedidos \ {r}) \cup {y}
    <2>1. PICK x : x = [r EXCEPT !.num = Actual(r) + 1, !.hechas = @ + 1, !.valor = s,
                                 !.marco = MarcoEnTabla(r.pid, Actual(r) + 1)]
      OBVIOUS
    <2>2. pedidos' = (pedidos \ {r}) \cup {x}
      BY <1>3, <1>6, <2>1 DEF Avanzar
    <2>3. x.op = "LEER" /\ x.en = "MEMORIA"
      BY <1>3, <1>4, <2>1 DEF PedidosPosibles
    <2> QED BY <1>3, <2>2, <2>3, NadaPedido DEF Escritura
  <1>7. CASE pedidos' = (pedidos \ {r}) \cup {y}
    <2> DEFINE p == r.pid
               k == r.pagina
               n == r.hechas + 1
               e == espacio[p]
    <2>1. /\ y.pid = p /\ y.pagina = k /\ y.valor = s /\ y.op = "LEER" /\ y.en = "RESPUESTA"
      BY <1>2, <1>3, <1>4 DEF PedidosPosibles
    <2>2. /\ e \in Seq(Valores) /\ Len(e) = Len(tabla[p]) /\ DOMAIN tabla[p] = 1 .. Len(e)
          /\ Len(e) \in Nat /\ \A i \in 1 .. Len(e) : e[i] = Contenido(p, i)
      BY <1>4, <1>5, EspacioLemma DEF Inv, AccesosInv
    <2>3. \A i : Contenido(p, i) = dato[tabla[p][i]]
      BY <1>3, <1>5, ContenidoLeido DEF Escritura
    <2>4. k + n - 1 \in 1 .. Len(e) /\ k \in 1 .. Len(e) /\ n \in 1 .. Len(e) /\ k <= k + n - 1
      BY <1>4, <1>5, <2>2 DEF Paginado, Actual
    <2>5. MV!Hasta(p, k, n) = k + n - 1
      BY <2>4 DEF MV!Hasta
    <2>6. /\ SubSeq(e, k, k + n - 1) \in Seq(Valores) /\ Len(SubSeq(e, k, k + n - 1)) = n
          /\ \A i \in 1 .. n : SubSeq(e, k, k + n - 1)[i] = e[k + i - 1]
      <3>1. k \in Nat \ {0} /\ n \in Nat \ {0} /\ k + n - 1 <= Len(e)
        BY <1>4, <2>2, <2>4
      <3> HIDE DEF e, k, n
      <3> QED BY <2>2, <3>1, Tramo
    <2>7. /\ Len(r.valor) = r.hechas /\ r.marco = tabla[p][k + r.hechas]
          /\ \A i \in 1 .. r.hechas : r.valor[i] = dato[tabla[p][k + i - 1]]
      BY <1>3, <1>5 DEF Paginado, Actual
    <2>8. dato[r.marco] \in Valores
      BY <1>4 DEF Inv, Tipos, TiposDatos
    <2>9. /\ s \in Seq(Valores) /\ Len(s) = n
          /\ \A i \in 1 .. n : s[i] = IF i = n THEN dato[r.marco] ELSE r.valor[i]
      BY <1>1, <1>4, <2>7, <2>8
    <2>10. \A i \in 1 .. n : (i = n \/ i \in 1 .. r.hechas) /\ k + i - 1 \in 1 .. Len(e)
      <3> SUFFICES ASSUME NEW i \in 1 .. n
                   PROVE  (i = n \/ i \in 1 .. r.hechas) /\ k + i - 1 \in 1 .. Len(e)
        OBVIOUS
      <3>1. i = n \/ i \in 1 .. r.hechas
        BY <1>4
      <3>2. k \in Nat \ {0} /\ n \in Nat \ {0}
        BY <1>4
      <3> HIDE DEF e, k, n
      <3>3. k + i - 1 \in 1 .. Len(e)
        BY <2>2, <2>4, <3>2
      <3> QED BY <3>1, <3>3
    <2>11. ASSUME NEW i \in 1 .. n
           PROVE  s[i] = SubSeq(e, k, k + n - 1)[i]
      <3>1. e[k + i - 1] = dato[tabla[p][k + i - 1]]
        BY <2>2, <2>3, <2>10
      <3>2. s[i] = dato[tabla[p][k + i - 1]]
        <4>1. CASE i = n
          <5>1. k + i - 1 = k + r.hechas
            BY <1>4, <4>1
          <5> QED BY <2>7, <2>9, <4>1, <5>1
        <4>2. CASE i # n
          BY <2>7, <2>9, <2>10, <4>2
        <4> QED BY <4>1, <4>2
      <3> QED BY <2>6, <3>1, <3>2
    <2>12. s = SubSeq(e, k, MV!Hasta(p, k, n))
      BY <2>5, <2>6, <2>9, <2>11, SecuenciaIgual
    <2>13. ASSUME NEW q \in Pids
           PROVE  espacio'[q] = espacio[q]
      <3>1. \A i : Contenido(q, i)' = Contenido(q, i)
        BY <1>3, <1>7, <2>1, ContenidoIgual DEF Escritura
      <3> QED BY <1>3, <3>1, EspacioIgual
    <2>14. respuestas' = respuestas \cup {MV!Respuesta(p, k, s)}
      <3>1. {q \in pedidos' : q.en = "RESPUESTA"} = {q \in pedidos : q.en = "RESPUESTA"} \cup {y}
        BY <1>3, <1>7, <2>1
      <3>2. [pid |-> y.pid, pagina |-> y.pagina, valor |-> y.valor] = MV!Respuesta(p, k, s)
        BY <2>1 DEF MV!Respuesta
      <3> QED BY <3>1, <3>2 DEF respuestas
    <2>15. MV!Leer(p, k, n)
      BY <2>4, <2>12, <2>13, <2>14, EspaciosIguales DEF MV!Leer
    <2> QED BY <2>4, <2>15
  <1> QED BY <1>6, <1>7

\* One page of a write: the frame takes the content that the process already reads.
LEMMA PasoEscribirPagina ==
    ASSUME Inv, ~achico, NEW r \in pedidos, EscribirPagina(r)
    PROVE  Nada
  <1>1. /\ Avanzar(r, Actual(r), r.valor, {}) /\ UNCHANGED <<fase, tabla>>
        /\ r.en = "MEMORIA" /\ r.op = "ESCRIBIR"
    BY EscribirPaginaAvanza DEF EscribirPagina, Inv
  <1>2. /\ r \in PedidosPosibles /\ r.pid \in Pids /\ r.pagina \in Nat \ {0} /\ r.hechas \in Nat
        /\ r.largo \in Nat \ {0} /\ r.hechas < r.largo
    BY PedidoTipo DEF Inv
  <1>3. Paginado(r) /\ fase[r.pid] = "CARGADO" /\ \A q \in pedidos : q.pid = r.pid => q = r
    BY <1>1 DEF Inv, AccesosInv, Accesos, Paginados
  <1> DEFINE p == r.pid
             L == Len(tabla[p])
             v == r.valor[1]
  <1>4. tabla[p] \in Seq(Marcos) /\ L \in Nat /\ DOMAIN tabla[p] = 1 .. L
    BY <1>2 DEF Inv, Tipos, TiposDatos
  <1>5. \A i : Contenido(p, i) = IF i \in Faltantes(r) THEN v ELSE dato[tabla[p][i]]
    BY <1>1, <1>3, ContenidoEscrito DEF Escritura
  <1>6. \A i \in 1 .. L : dato'[tabla[p][i]] = IF i = Actual(r) THEN v ELSE dato[tabla[p][i]]
    BY <1>2, <1>3, <1>4, EscribeSoloLaSuya DEF Inv
  <1>7. PICK x : x = [r EXCEPT !.num = Actual(r) + 1, !.hechas = @ + 1, !.valor = r.valor,
                               !.marco = MarcoEnTabla(r.pid, Actual(r) + 1)]
    OBVIOUS
  <1>8. /\ x.pid = p /\ x.pagina = r.pagina /\ x.hechas = r.hechas + 1 /\ x.largo = r.largo
        /\ x.op = "ESCRIBIR" /\ x.en = "MEMORIA" /\ x.valor = r.valor
    BY <1>1, <1>2, <1>7 DEF PedidosPosibles
  <1>9. \/ pedidos' = (pedidos \ {r}) \cup {x}
        \/ /\ pedidos' = pedidos \ {r}
           /\ r.hechas + 1 = r.largo \/ MarcoEnTabla(p, Actual(r) + 1) = SinMarco
    BY <1>1, <1>7 DEF Avanzar
  <1>10. MarcoEnTabla(p, Actual(r) + 1) = SinMarco => Actual(r) = L
    <2>1. Actual(r) \in 1 .. L
      BY <1>3, <1>4 DEF Paginado
    <2>2. Actual(r) + 1 \in 1 .. L => tabla[p][Actual(r) + 1] \in Marcos
      BY <1>4
    <2>3. SinMarco \notin Marcos
      BY DEF Marcos, SinMarco
    <2> QED BY <1>4, <2>1, <2>2, <2>3 DEF MarcoEnTabla
  <1>11. \A i \in 1 .. L : Contenido(p, i)' = Contenido(p, i)
    <2>1. CASE pedidos' = (pedidos \ {r}) \cup {x}
      <3>1. \A i : Contenido(p, i)' = IF i \in Faltantes(x) THEN v ELSE dato'[tabla'[p][i]]
        <4>1. \A q \in pedidos' : q.pid = p => q = x
          BY <1>3, <2>1
        <4> QED BY <1>8, <2>1, <4>1, ContenidoEscritoLuego DEF Escritura
      <3>2. \A i \in 1 .. L : i \in Faltantes(r) <=> i \in Faltantes(x) \/ i = Actual(r)
        BY <1>2, <1>8, FaltanLemma DEF Faltantes, Actual
      <3> QED BY <1>1, <1>5, <1>6, <3>1, <3>2
    <2>2. CASE /\ pedidos' = pedidos \ {r}
               /\ r.hechas + 1 = r.largo \/ MarcoEnTabla(p, Actual(r) + 1) = SinMarco
      <3>1. \A i : Contenido(p, i)' = dato'[tabla'[p][i]]
        <4>1. \A i : EnCamino(p, i)' = {}
          BY <1>3, <2>2 DEF EnCamino
        <4> QED BY <4>1 DEF Contenido
      <3>2. \A i \in 1 .. L : i \in Faltantes(r) <=> i = Actual(r)
        <4>1. CASE r.hechas + 1 = r.largo
          BY <1>2, <4>1, FaltanLemma DEF Faltantes, Actual
        <4>2. CASE Actual(r) = L
          BY <1>2, <4>2, FaltanLemma DEF Faltantes, Actual
        <4> QED BY <1>10, <2>2, <4>1, <4>2
      <3> QED BY <1>1, <1>5, <1>6, <3>1, <3>2
    <2> QED BY <1>9, <2>1, <2>2
  <1>12. ASSUME NEW q \in Pids
         PROVE  espacio'[q] = espacio[q]
    <2>1. CASE q = p
      BY <1>1, <1>11, <2>1, EspacioIgual
    <2>2. ASSUME q # p, fase[q] = "CARGADO", NEW i \in 1 .. Len(tabla[q])
          PROVE  Contenido(q, i)' = Contenido(q, i)
      <3>1. i \in DOMAIN tabla[q]
        BY DEF Inv, Tipos, TiposDatos
      <3>2. dato'[tabla[q][i]] = dato[tabla[q][i]]
        BY <2>2, <3>1, EscribeSoloLaSuya DEF Inv
      <3>3. \A z : z.pid = q /\ Escritura(z) => (z \in pedidos' <=> z \in pedidos)
        BY <1>8, <1>9, <2>2
      <3> QED BY <1>1, <3>2, <3>3, ContenidoIgual
    <2> QED BY <1>1, <2>1, <2>2, EspacioIgual
  <1>13. respuestas' = respuestas
    BY <1>1, <1>8, <1>9, RespuestasIguales
  <1> QED BY <1>12, <1>13, EspaciosIguales DEF Nada

\* An answer is received once: no other access of the process has the same one.
LEMMA PasoRecibir ==
    ASSUME Inv, NEW r \in pedidos, Recibir(r)
    PROVE  MV!Recibir
  <1>1. UNCHANGED <<fase, tabla, dato>> /\ pedidos' = pedidos \ {r} /\ r.en = "RESPUESTA"
    BY DEF Recibir
  <1>2. \A q \in pedidos : q.pid = r.pid => q = r
    BY DEF Inv, AccesosInv, Accesos
  <1> DEFINE a(q) == [pid |-> q.pid, pagina |-> q.pagina, valor |-> q.valor]
  <1>3. \A q \in pedidos : a(q) = a(r) => q = r
    BY <1>2
  <1>4. /\ respuestas = {a(q) : q \in {q \in pedidos : q.en = "RESPUESTA"}}
        /\ respuestas' = {a(q) : q \in {q \in pedidos' : q.en = "RESPUESTA"}}
    BY DEF respuestas
  <1> HIDE DEF a
  <1>5. respuestas' = respuestas \ {a(r)} /\ a(r) \in respuestas
    BY <1>1, <1>3, <1>4
  <1>6. ASSUME NEW q \in Pids
        PROVE  espacio'[q] = espacio[q]
    <2>1. \A i : Contenido(q, i)' = Contenido(q, i)
      BY <1>1, ContenidoIgual DEF Escritura
    <2> QED BY <1>1, <2>1, EspacioIgual
  <1> QED BY <1>5, <1>6, EspaciosIguales DEF MV!Recibir

LEMMA RefinaInicio == Init => MV!Init
  <1> SUFFICES ASSUME Init PROVE MV!Init
    OBVIOUS
  <1>1. espacio = [p \in Pids |-> <<>>]
    BY DEF Init, espacio
  <1>2. respuestas = {}
    BY DEF Init, respuestas
  <1> QED BY <1>1, <1>2 DEF MV!Init

LEMMA RefinaPaso ==
    ASSUME Inv, EntradaATiempo, [Next]_vars
    PROVE  [MV!Next \/ achico']_<<espacio, respuestas>>
  <1> SUFFICES ASSUME ~achico'
               PROVE  MV!Next \/ Nada
    BY DEF Nada
  <1>1. ~achico
    BY AchicoQueda DEF Inv
  <1>2. ASSUME NEW p \in Pids, Instruccion(p)
        PROVE  MV!Next \/ Nada
    <2>1. CASE Salir(p) \/ \E n \in 0 .. MaxPaginas : RechazarResize(p, n)
      BY <2>1, PasoTerminar DEF MV!Next
    <2>2. CASE \E n \in 0 .. MaxPaginas : EmpezarResize(p, n)
      BY <2>2, NadaInterno
    <2>3. CASE \E k \in Paginas : MovOutFuera(p, k)
      BY <2>3, NadaInterno
    <2>4. ASSUME NEW k \in Paginas, NEW v \in Valores, MovInFuera(p, k, v)
          PROVE  MV!Next \/ Nada
      BY <2>4, PasoLeerFuera DEF MV!Next
    <2>5. ASSUME NEW k \in Paginas,
                 \/ \E v \in Valores : MovOut(p, k, v)
                 \/ \E n \in 1 .. MaxLargo : \/ MovIn(p, k, n) \/ Stdout(p, k, n)
                                            \/ \E v \in Valores : Stdin(p, k, n, v)
          PROVE  MV!Next \/ Nada
      BY <2>5, PasoPedir DEF MV!Next
    <2> QED BY <1>2, <2>1, <2>2, <2>3, <2>4, <2>5 DEF Instruccion
  <1>3. ASSUME NEW p \in Pids, Crear(p) \/ CerrarVacio(p) \/ EmpezarCierre(p)
        PROVE  Nada
    BY <1>3, NadaCrear, NadaInterno
  <1>4. CASE CierreLee \/ CierreEscribe \/ OcuparMarco \/ SacarMarco \/ SoltarMarco
    BY <1>4, NadaInterno
  <1>5. CASE AgregarMarco
    BY <1>5, PasoCrecer DEF MV!Next
  <1>6. ASSUME NEW r \in pedidos, Enviar(r) \/ LeerPagina(r) \/ EscribirPagina(r) \/ Recibir(r)
        PROVE  MV!Next \/ Nada
    <2>1. r.pid \in Pids
      BY PedidoTipo DEF Inv
    <2>2. CASE Enviar(r)
      BY <1>1, <2>1, <2>2, PasoEnviar DEF MV!Next
    <2>3. CASE LeerPagina(r)
      BY <1>1, <2>1, <2>3, PasoLeerPagina DEF MV!Next
    <2>4. CASE EscribirPagina(r)
      BY <1>1, <2>4, PasoEscribirPagina
    <2>5. CASE Recibir(r)
      BY <2>5, PasoRecibir DEF MV!Next
    <2> QED BY <1>6, <2>2, <2>3, <2>4, <2>5
  <1>7. CASE UNCHANGED vars
    <2>1. UNCHANGED <<fase, tabla, dato, pedidos>>
      BY <1>7 DEF vars
    <2> QED BY <2>1, NadaCambia
  <1> QED BY <1>2, <1>3, <1>4, <1>5, <1>6, <1>7 DEF Next

\* Memoria implements the private spaces: until some process reduces its size, with no RESIZE
\* while a process is being ended and IO_STDIN_READ in memory when its process goes on, every
\* step of the threads changes one space as MemoriaVirtual says or none, and a read of several
\* pages, taken one by one between the writes of the others, answers what the process wrote.
THEOREM MemoriaImplementaMemoriaVirtual ==
    Exclusivo /\ EntradaATiempo => (Spec => EspacioPropio)
  <1> SUFFICES ASSUME Exclusivo, EntradaATiempo PROVE Spec => EspacioPropio
    OBVIOUS
  <1>1. Inv /\ [Next]_vars => [MV!Next \/ achico']_<<espacio, respuestas>>
    BY RefinaPaso
  <1> QED BY <1>1, RefinaInicio, MemoriaInv, PTL DEF Spec, EspacioPropio
=============================================================================
