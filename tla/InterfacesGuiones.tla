-------------------------- MODULE InterfacesGuiones --------------------------
(***************************************************************************)
(* What each thread of Interfaces has left to do, for any processes,       *)
(* interfaces, programs and commands: the sequences of operations that the *)
(* C functions are made of (Guiones), and what each action leaves of them. *)
(*                                                                         *)
(* A thread in the middle of a function has a suffix of it, and the loops  *)
(* on cola_blocked put in front what they have in their hands. For each    *)
(* action one lemma (Paso...) says that Guiones is kept and what can be    *)
(* read off the sequence before and after: the phase of the thread of an   *)
(* interface (Fase), whether it is past its lock (Posee), and the process  *)
(* that the thread answers for (EnHilo).                                   *)
(***************************************************************************)
EXTENDS Interfaces, FiniteSetTheorems, SequenceTheorems, TLAPS

-----------------------------------------------------------------------------
(* Sequences.                                                              *)

LEMMA Juntar ==
    ASSUME NEW a, NEW b, NEW c, NEW d
    PROVE  /\ <<a>> \o <<>> = <<a>>
           /\ <<a>> \o <<b>> = <<a, b>>
           /\ <<a>> \o <<b, c>> = <<a, b, c>>
           /\ <<a>> \o <<b, c, d>> = <<a, b, c, d>>
           /\ <<a, b>> \o <<>> = <<a, b>>
  <1> DEFINE T == {a, b, c, d}
  <1>1. /\ <<a>> \in Seq(T) /\ <<b>> \in Seq(T) /\ <<b, c>> \in Seq(T) /\ <<c, d>> \in Seq(T)
        /\ <<a, b>> \in Seq(T) /\ <<a, b, c>> \in Seq(T) /\ <<b, c, d>> \in Seq(T)
        /\ <<a, b, c, d>> \in Seq(T)
    OBVIOUS
  <1>2. <<a>> \o <<b>> = <<a, b>>
    <2> DEFINE s == <<a>> \o <<b>>
    <2>1. s \in Seq(T) /\ Len(s) = 2 /\ s[1] = a /\ s[2] = b
      BY <1>1
    <2>2. \A n \in 1 .. 2 : s[n] = <<a, b>>[n]
      BY <2>1
    <2>3. Len(<<a, b>>) = 2
      OBVIOUS
    <2> HIDE DEF s
    <2>4. s = <<a, b>>
      BY <1>1, <2>1, <2>2, <2>3, SeqEqual
    <2> QED BY <2>4 DEF s
  <1>3. <<a>> \o <<b, c>> = <<a, b, c>>
    <2> DEFINE s == <<a>> \o <<b, c>>
    <2>1. s \in Seq(T) /\ Len(s) = 3 /\ s[1] = a /\ s[2] = b /\ s[3] = c
      BY <1>1
    <2>2. \A n \in 1 .. 3 : s[n] = <<a, b, c>>[n]
      BY <2>1
    <2>3. Len(<<a, b, c>>) = 3
      OBVIOUS
    <2> HIDE DEF s
    <2>4. s = <<a, b, c>>
      BY <1>1, <2>1, <2>2, <2>3, SeqEqual
    <2> QED BY <2>4 DEF s
  <1>4. <<a>> \o <<b, c, d>> = <<a, b, c, d>>
    <2> DEFINE s == <<a>> \o <<b, c, d>>
    <2>1. s \in Seq(T) /\ Len(s) = 4 /\ s[1] = a /\ s[2] = b /\ s[3] = c /\ s[4] = d
      BY <1>1
    <2>2. \A n \in 1 .. 4 : s[n] = <<a, b, c, d>>[n]
      BY <2>1
    <2>3. Len(<<a, b, c, d>>) = 4
      OBVIOUS
    <2> HIDE DEF s
    <2>4. s = <<a, b, c, d>>
      BY <1>1, <2>1, <2>2, <2>3, SeqEqual
    <2> QED BY <2>4 DEF s
  <1> QED BY <1>1, <1>2, <1>3, <1>4

LEMMA JuntarPar ==
    ASSUME NEW a, NEW b, NEW c
    PROVE  <<a, b>> \o <<c>> = <<a, b, c>>
  <1> DEFINE T == {a, b, c}
             s == <<a, b>> \o <<c>>
  <1>1. <<a, b>> \in Seq(T) /\ <<c>> \in Seq(T) /\ <<a, b, c>> \in Seq(T)
    OBVIOUS
  <1>2. s \in Seq(T) /\ Len(s) = 3 /\ s[1] = a /\ s[2] = b /\ s[3] = c
    BY <1>1
  <1>3. \A n \in 1 .. 3 : s[n] = <<a, b, c>>[n]
    BY <1>2
  <1>4. Len(<<a, b, c>>) = 3
    OBVIOUS
  <1> HIDE DEF s
  <1>5. s = <<a, b, c>>
    BY <1>1, <1>2, <1>3, <1>4, SeqEqual
  <1> QED BY <1>5 DEF s

LEMMA JuntarPares ==
    ASSUME NEW a, NEW b, NEW c, NEW d
    PROVE  <<a, b>> \o <<c, d>> = <<a, b, c, d>>
  <1> DEFINE T == {a, b, c, d}
             s == <<a, b>> \o <<c, d>>
  <1>1. <<a, b>> \in Seq(T) /\ <<c, d>> \in Seq(T) /\ <<a, b, c, d>> \in Seq(T)
    OBVIOUS
  <1>2. s \in Seq(T) /\ Len(s) = 4 /\ s[1] = a /\ s[2] = b /\ s[3] = c /\ s[4] = d
    BY <1>1
  <1>3. \A n \in 1 .. 4 : s[n] = <<a, b, c, d>>[n]
    BY <1>2
  <1>4. Len(<<a, b, c, d>>) = 4
    OBVIOUS
  <1> HIDE DEF s
  <1>5. s = <<a, b, c, d>>
    BY <1>1, <1>2, <1>3, <1>4, SeqEqual
  <1> QED BY <1>5 DEF s

\* What a queue holds and that it holds it once, after each thing done to it.
LEMMA AlFinal ==
    ASSUME NEW T, NEW s \in Seq(T), NEW p \in T
    PROVE  /\ Append(s, p) \in Seq(T) /\ ToSet(Append(s, p)) = ToSet(s) \cup {p}
           /\ IsInjective(s) /\ p \notin ToSet(s) => IsInjective(Append(s, p))
  <1> DEFINE u == Append(s, p)
  <1>1. /\ u \in Seq(T) /\ DOMAIN u = 1 .. Len(s) + 1 /\ DOMAIN s = 1 .. Len(s) /\ Len(s) \in Nat
        /\ u[Len(s) + 1] = p /\ \A n \in 1 .. Len(s) : u[n] = s[n]
    BY AppendProperties
  <1> HIDE DEF u
  <1>2. \A n \in DOMAIN u : n \in DOMAIN s \/ n = Len(s) + 1
    BY <1>1
  <1>3. ToSet(u) = ToSet(s) \cup {p}
    <2>1. ToSet(u) \subseteq ToSet(s) \cup {p}
      BY <1>1, <1>2 DEF ToSet
    <2>2. \A n \in DOMAIN s : n \in DOMAIN u /\ s[n] = u[n]
      BY <1>1
    <2>3. Len(s) + 1 \in DOMAIN u
      BY <1>1
    <2> QED BY <1>1, <2>1, <2>2, <2>3 DEF ToSet
  <1>4. ASSUME IsInjective(s), p \notin ToSet(s)
        PROVE  IsInjective(u)
    BY <1>1, <1>2, <1>4 DEF IsInjective, ToSet
  <1> QED BY <1>1, <1>3, <1>4 DEF u

LEMMA SinPrimero ==
    ASSUME NEW T, NEW s \in Seq(T), s # <<>>
    PROVE  /\ Head(s) \in T /\ Head(s) \in ToSet(s) /\ Tail(s) \in Seq(T)
           /\ ToSet(Tail(s)) \subseteq ToSet(s)
           /\ ToSet(s) = ToSet(Tail(s)) \cup {Head(s)}
           /\ IsInjective(s) => IsInjective(Tail(s)) /\ Head(s) \notin ToSet(Tail(s))
  <1> DEFINE u == Tail(s)
  <1>1. /\ u \in Seq(T) /\ DOMAIN s = 1 .. Len(s) /\ Len(s) \in Nat /\ Len(s) >= 1
        /\ DOMAIN u = 1 .. Len(s) - 1 /\ \A n \in DOMAIN u : u[n] = s[n + 1]
        /\ Head(s) = s[1] /\ Head(s) \in T
    OBVIOUS
  <1> HIDE DEF u
  <1>2. \A n \in DOMAIN u : n + 1 \in DOMAIN s /\ n + 1 # 1 /\ u[n] = s[n + 1]
    BY <1>1
  <1>3. 1 \in DOMAIN s
    BY <1>1
  <1>4. ToSet(u) \subseteq ToSet(s) /\ Head(s) \in ToSet(s)
    BY <1>1, <1>2, <1>3 DEF ToSet
  <1>5. ToSet(s) \subseteq ToSet(u) \cup {Head(s)}
    <2> SUFFICES ASSUME NEW n \in DOMAIN s, n # 1
                 PROVE  s[n] \in ToSet(u)
      BY <1>1 DEF ToSet
    <2>1. n - 1 \in DOMAIN u /\ (n - 1) + 1 = n
      BY <1>1
    <2>2. u[n - 1] = s[n]
      BY <1>1, <2>1
    <2> QED BY <2>1, <2>2 DEF ToSet
  <1>6. ASSUME IsInjective(s)
        PROVE  IsInjective(u) /\ Head(s) \notin ToSet(u)
    <2>1. \A m, n \in DOMAIN u : u[m] = u[n] => m + 1 = n + 1
      BY <1>2, <1>6 DEF IsInjective
    <2>2. \A m, n \in DOMAIN u : m + 1 = n + 1 => m = n
      BY <1>1
    <2>3. \A n \in DOMAIN u : u[n] # s[1]
      BY <1>2, <1>3, <1>6 DEF IsInjective
    <2> QED BY <1>1, <2>1, <2>2, <2>3 DEF IsInjective, ToSet
  <1> QED BY <1>1, <1>4, <1>5, <1>6 DEF u

LEMMA TramoUnico ==
    ASSUME NEW T, NEW s \in Seq(T), NEW m \in 1 .. Len(s) + 1, NEW n \in 0 .. Len(s), m <= n + 1
    PROVE  /\ SubSeq(s, m, n) \in Seq(T) /\ ToSet(SubSeq(s, m, n)) = {s[k] : k \in m .. n}
           /\ IsInjective(s) => IsInjective(SubSeq(s, m, n))
  <1> DEFINE u == SubSeq(s, m, n)
  <1>1. /\ u \in Seq(T) /\ DOMAIN s = 1 .. Len(s) /\ Len(s) \in Nat /\ m \in Nat /\ n \in Nat
        /\ DOMAIN u = 1 .. (n - m) + 1 /\ \A k \in DOMAIN u : u[k] = s[(m + k) - 1]
    BY SubSeqProperties
  <1> HIDE DEF u
  <1>2. \A k \in DOMAIN u : (m + k) - 1 \in m .. n /\ (m + k) - 1 \in DOMAIN s
    BY <1>1
  <1>3. \A k \in m .. n : (k - m) + 1 \in DOMAIN u /\ (m + ((k - m) + 1)) - 1 = k
    BY <1>1
  <1>4. ToSet(u) = {s[k] : k \in m .. n}
    <2>1. \A k \in DOMAIN u : u[k] \in {s[j] : j \in m .. n}
      BY <1>1, <1>2
    <2>2. \A k \in m .. n : u[(k - m) + 1] = s[k]
      BY <1>1, <1>3
    <2>3. \A k \in m .. n : s[k] \in ToSet(u)
      BY <1>3, <2>2 DEF ToSet
    <2> QED BY <2>1, <2>3 DEF ToSet
  <1>5. ASSUME IsInjective(s)
        PROVE  IsInjective(u)
    <2>1. \A k, l \in DOMAIN u : u[k] = u[l] => (m + k) - 1 = (m + l) - 1
      BY <1>1, <1>2, <1>5 DEF IsInjective
    <2>2. \A k, l \in DOMAIN u : (m + k) - 1 = (m + l) - 1 => k = l
      BY <1>1
    <2> QED BY <2>1, <2>2 DEF IsInjective
  <1> QED BY <1>1, <1>4, <1>5 DEF u

LEMMA UnaTrasOtra ==
    ASSUME NEW T, NEW s \in Seq(T), NEW t \in Seq(T)
    PROVE  /\ s \o t \in Seq(T) /\ ToSet(s \o t) = ToSet(s) \cup ToSet(t)
           /\ IsInjective(s) /\ IsInjective(t) /\ ToSet(s) \cap ToSet(t) = {} => IsInjective(s \o t)
  <1> DEFINE u == s \o t
  <1>1. /\ u \in Seq(T) /\ DOMAIN u = 1 .. Len(s) + Len(t) /\ Len(s) \in Nat /\ Len(t) \in Nat
        /\ DOMAIN s = 1 .. Len(s) /\ DOMAIN t = 1 .. Len(t)
        /\ \A n \in 1 .. Len(s) : u[n] = s[n]
        /\ \A n \in Len(s) + 1 .. Len(s) + Len(t) : u[n] = t[n - Len(s)]
    BY ConcatProperties
  <1> HIDE DEF u
  <1>2. \A n \in DOMAIN u : \/ n \in DOMAIN s /\ u[n] = s[n]
                            \/ n \notin DOMAIN s /\ n - Len(s) \in DOMAIN t /\ u[n] = t[n - Len(s)]
    BY <1>1
  <1>3. /\ \A n \in DOMAIN s : n \in DOMAIN u /\ u[n] = s[n]
        /\ \A n \in DOMAIN t : n + Len(s) \in DOMAIN u /\ u[n + Len(s)] = t[n]
    <2>1. \A n \in DOMAIN t : n + Len(s) \in Len(s) + 1 .. Len(s) + Len(t) /\ (n + Len(s)) - Len(s) = n
      BY <1>1
    <2> QED BY <1>1, <2>1
  <1>4. ToSet(u) = ToSet(s) \cup ToSet(t)
    BY <1>2, <1>3 DEF ToSet
  <1>5. ASSUME IsInjective(s), IsInjective(t), ToSet(s) \cap ToSet(t) = {}
        PROVE  IsInjective(u)
    <2> SUFFICES ASSUME NEW m \in DOMAIN u, NEW n \in DOMAIN u, u[m] = u[n]
                 PROVE  m = n
      BY DEF IsInjective
    <2>1. CASE m \in DOMAIN s /\ n \in DOMAIN s
      BY <1>3, <1>5, <2>1 DEF IsInjective
    <2>2. CASE m \notin DOMAIN s /\ n \notin DOMAIN s
      <3>1. m - Len(s) = n - Len(s)
        BY <1>2, <1>5, <2>2 DEF IsInjective
      <3> QED BY <1>1, <3>1
    <2>3. \A k, l : k \in DOMAIN s /\ l \in DOMAIN t => s[k] # t[l]
      BY <1>5 DEF ToSet
    <2>4. CASE m \in DOMAIN s /\ n \notin DOMAIN s
      BY <1>2, <2>3, <2>4
    <2>5. CASE m \notin DOMAIN s /\ n \in DOMAIN s
      BY <1>2, <2>3, <2>5
    <2> QED BY <2>1, <2>2, <2>4, <2>5
  <1> QED BY <1>1, <1>4, <1>5 DEF u

LEMMA SinUltimoLemma ==
    ASSUME NEW T, NEW s \in Seq(T)
    PROVE  /\ SinUltimo(s) \in Seq(T) /\ ToSet(SinUltimo(s)) \subseteq ToSet(s)
           /\ IsInjective(s) => IsInjective(SinUltimo(s))
  <1>1. CASE s = <<>>
    BY <1>1 DEF SinUltimo
  <1>2. CASE s # <<>>
    <2>1. Len(s) \in Nat /\ Len(s) >= 1 /\ DOMAIN s = 1 .. Len(s)
      BY <1>2
    <2>2. SinUltimo(s) = SubSeq(s, 1, Len(s) - 1)
      BY <1>2 DEF SinUltimo, Front
    <2>3. /\ SubSeq(s, 1, Len(s) - 1) \in Seq(T)
          /\ ToSet(SubSeq(s, 1, Len(s) - 1)) = {s[k] : k \in 1 .. Len(s) - 1}
          /\ IsInjective(s) => IsInjective(SubSeq(s, 1, Len(s) - 1))
      BY <2>1, TramoUnico
    <2> QED BY <2>1, <2>2, <2>3 DEF ToSet
  <1> QED BY <1>1, <1>2

LEMMA PosicionLemma ==
    ASSUME NEW s, NEW p, p \in ToSet(s)
    PROVE  Posicion(s, p) \in DOMAIN s /\ s[Posicion(s, p)] = p
  BY DEF Posicion, ToSet

\* What is before and after a position.
LEMMA Partes ==
    ASSUME NEW T, NEW s \in Seq(T), IsInjective(s), NEW n \in DOMAIN s
    PROVE  LET a == SubSeq(s, 1, n - 1)
               b == SubSeq(s, n + 1, Len(s))
           IN  /\ a \in Seq(T) /\ IsInjective(a) /\ b \in Seq(T) /\ IsInjective(b)
               /\ ToSet(a) \cap ToSet(b) = {} /\ ToSet(a) \cup ToSet(b) = ToSet(s) \ {s[n]}
  <1> DEFINE a == SubSeq(s, 1, n - 1)
             b == SubSeq(s, n + 1, Len(s))
  <1>1. n \in 1 .. Len(s) /\ n \in Nat /\ Len(s) \in Nat /\ DOMAIN s = 1 .. Len(s)
    OBVIOUS
  <1>0. /\ 1 \in 1 .. Len(s) + 1 /\ n - 1 \in 0 .. Len(s) /\ 1 <= (n - 1) + 1
        /\ n + 1 \in 1 .. Len(s) + 1 /\ Len(s) \in 0 .. Len(s) /\ n + 1 <= Len(s) + 1
    BY <1>1
  <1>2. a \in Seq(T) /\ ToSet(a) = {s[k] : k \in 1 .. n - 1} /\ IsInjective(a)
    BY <1>0, TramoUnico
  <1>3. b \in Seq(T) /\ ToSet(b) = {s[k] : k \in n + 1 .. Len(s)} /\ IsInjective(b)
    BY <1>0, TramoUnico
  <1> HIDE DEF a, b
  <1>4. \A k, l \in DOMAIN s : s[k] = s[l] => k = l
    BY DEF IsInjective
  <1>5. /\ \A k \in 1 .. n - 1 : k \in DOMAIN s /\ k < n
        /\ \A k \in n + 1 .. Len(s) : k \in DOMAIN s /\ k > n
        /\ \A k \in DOMAIN s : k \in 1 .. n - 1 \/ k = n \/ k \in n + 1 .. Len(s)
    BY <1>1
  <1>6. \A k \in 1 .. n - 1, l \in n + 1 .. Len(s) : s[k] # s[l] /\ s[k] # s[n] /\ s[l] # s[n]
    <2> SUFFICES ASSUME NEW k \in 1 .. n - 1, NEW l \in n + 1 .. Len(s)
                 PROVE  s[k] # s[l] /\ s[k] # s[n] /\ s[l] # s[n]
      OBVIOUS
    <2>1. k # l /\ k # n /\ l # n /\ k \in DOMAIN s /\ l \in DOMAIN s
      BY <1>1
    <2> QED BY <1>4, <2>1
  <1>7. \A k \in 1 .. n - 1 : s[k] # s[n]
    <2> TAKE k \in 1 .. n - 1
    <2>1. k # n /\ k \in DOMAIN s
      BY <1>1
    <2> QED BY <1>4, <2>1
  <1>8. \A k \in n + 1 .. Len(s) : s[k] # s[n]
    <2> TAKE k \in n + 1 .. Len(s)
    <2>1. k # n /\ k \in DOMAIN s
      BY <1>1
    <2> QED BY <1>4, <2>1
  <1>9. ToSet(a) \cap ToSet(b) = {}
    BY <1>2, <1>3, <1>6
  <1>10. ToSet(a) \cup ToSet(b) \subseteq ToSet(s) \ {s[n]}
    BY <1>2, <1>3, <1>5, <1>7, <1>8 DEF ToSet
  <1>11. ToSet(s) \ {s[n]} \subseteq ToSet(a) \cup ToSet(b)
    BY <1>2, <1>3, <1>5 DEF ToSet
  <1>12. /\ a \in Seq(T) /\ IsInjective(a) /\ b \in Seq(T) /\ IsInjective(b)
         /\ ToSet(a) \cap ToSet(b) = {} /\ ToSet(a) \cup ToSet(b) = ToSet(s) \ {s[n]}
    BY <1>2, <1>3, <1>9, <1>10, <1>11
  <1> QED BY <1>12 DEF a, b

\* remove_cola_blocked_io, and the loop of buscar_pcb on cola_ready.
LEMMA SinLemma ==
    ASSUME NEW T, NEW s \in Seq(T), NEW p, IsInjective(s)
    PROVE  Sin(s, p) \in Seq(T) /\ IsInjective(Sin(s, p)) /\ ToSet(Sin(s, p)) = ToSet(s) \ {p}
  <1>1. CASE p \notin ToSet(s)
    BY <1>1 DEF Sin
  <1>2. CASE p \in ToSet(s)
    <2> DEFINE n == Posicion(s, p)
               a == SubSeq(s, 1, n - 1)
               b == SubSeq(s, n + 1, Len(s))
    <2>1. n \in DOMAIN s /\ s[n] = p
      BY <1>2, PosicionLemma
    <2>2. Sin(s, p) = a \o b
      BY <1>2 DEF Sin, RemoveAt
    <2> HIDE DEF n
    <2>3. /\ a \in Seq(T) /\ IsInjective(a) /\ b \in Seq(T) /\ IsInjective(b)
          /\ ToSet(a) \cap ToSet(b) = {} /\ ToSet(a) \cup ToSet(b) = ToSet(s) \ {s[n]}
      BY <2>1, Partes
    <2> HIDE DEF a, b
    <2>4. /\ a \o b \in Seq(T) /\ ToSet(a \o b) = ToSet(a) \cup ToSet(b)
          /\ IsInjective(a \o b)
      BY <2>3, UnaTrasOtra
    <2> QED BY <2>1, <2>2, <2>3, <2>4
  <1> QED BY <1>1, <1>2

LEMMA GirarHasta ==
    ASSUME NEW T, NEW s \in Seq(T), NEW p, IsInjective(s), p \in ToSet(s)
    PROVE  LET n == Posicion(s, p)
               u == SubSeq(s, n + 1, Len(s)) \o SubSeq(s, 1, n - 1)
           IN  u \in Seq(T) /\ IsInjective(u) /\ ToSet(u) = ToSet(s) \ {p}
  <1> DEFINE n == Posicion(s, p)
             a == SubSeq(s, 1, n - 1)
             b == SubSeq(s, n + 1, Len(s))
  <1>1. n \in DOMAIN s /\ s[n] = p
    BY PosicionLemma
  <1> HIDE DEF n
  <1>2. /\ a \in Seq(T) /\ IsInjective(a) /\ b \in Seq(T) /\ IsInjective(b)
        /\ ToSet(a) \cap ToSet(b) = {} /\ ToSet(a) \cup ToSet(b) = ToSet(s) \ {s[n]}
    BY <1>1, Partes
  <1> HIDE DEF a, b
  <1>3. /\ b \o a \in Seq(T) /\ ToSet(b \o a) = ToSet(b) \cup ToSet(a)
        /\ IsInjective(b \o a)
    BY <1>2, UnaTrasOtra
  <1>4. b \o a \in Seq(T) /\ IsInjective(b \o a) /\ ToSet(b \o a) = ToSet(s) \ {p}
    BY <1>1, <1>2, <1>3
  <1> QED BY <1>4 DEF n, a, b

\* SetToSeq of a finite set lists each element once.
LEMMA TodosUnaVez ==
    ASSUME NEW T, IsFiniteSet(T)
    PROVE  SetToSeq(T) \in Seq(T) /\ IsInjective(SetToSeq(T))
  <1>1. Cardinality(T) \in Nat
    BY FS_CardinalityType
  <1>2. PICK f : f \in Bijection(1 .. Cardinality(T), T)
    BY FS_CardinalityType DEF ExistsBijection
  <1>3. f \in [1 .. Cardinality(T) -> T] /\ IsInjective(f)
    BY <1>2 DEF Bijection, Injection, IsInjective
  <1>4. SetToSeq(T) \in [1 .. Cardinality(T) -> T] /\ IsInjective(SetToSeq(T))
    BY <1>3 DEF SetToSeq
  <1> QED BY <1>1, <1>4

-----------------------------------------------------------------------------
(* What each thread may have left to do, from the operation it is at.      *)

Veces == Nat \ {0}
Primera(s) == Head(s).op

LEMMA OpCampos ==
    ASSUME NEW n, NEW p, NEW i, NEW k
    PROVE  /\ Op(n, p, i).op = n /\ Op(n, p, i).p = p /\ Op(n, p, i).i = i
           /\ OpVeces(n, p, k).op = n /\ OpVeces(n, p, k).p = p /\ OpVeces(n, p, k).k = k
           /\ OpVeces(n, p, k).i = Nulo
  BY DEF Op, OpVeces

LEMMA OpVecesMenos ==
    ASSUME NEW n, NEW p, NEW k, NEW l
    PROVE  [OpVeces(n, p, k) EXCEPT !.k = l] = OpVeces(n, p, l)
  BY DEF OpVeces

\* delete_queue_blocked of process p, and what desocupar_io (fin = "liberar") and
\* desconectar_IO (fin = "vaciar") do then.
Finales == {"liberar", "vaciar"}
OpsBorrar == {"cargarReady", "ltsEx", "girar", "reponer"}
Luego(fin, p) == Op(IF fin = "liberar" THEN "cargarReady" ELSE "ltsEx", p, Nulo)
Borrando(s, i, p, fin) ==
    /\ Primera(s) \in OpsBorrar
    /\ Primera(s) \in {"cargarReady", "ltsEx"} => s = <<Luego(fin, p), Op(fin, Nulo, i)>>
    /\ Primera(s) = "girar" => \E k \in Veces :
          s = <<OpVeces("girar", p, k), Luego(fin, p), Op(fin, Nulo, i)>>
    /\ Primera(s) = "reponer" => \E q \in Procesos, j \in Interfaces :
          \/ s = <<Op("reponer", q, j), Luego(fin, p), Op(fin, Nulo, i)>>
          \/ \E k \in Veces :
                s = <<Op("reponer", q, j), OpVeces("girar", p, k), Luego(fin, p), Op(fin, Nulo, i)>>

\* The thread of an interface.
OpsSolas == {"liberar", "siguiente", "vaciar"}
GuionInterfaz(i, s) == s # <<>> =>
    \/ Primera(s) \in OpsSolas /\ s = <<Op(Primera(s), Nulo, i)>>
    \/ Primera(s) = "tomar" /\ s = <<Op("tomar", Nulo, i), Op("vaciar", Nulo, i)>>
    \/ \E p \in Procesos, fin \in Finales : Borrando(s, i, p, fin)

\* The dispatch receiver: what is left of an atender_*.
OpsDispatch == {"ltsEx", "tomar", "bloquear", "atender", "mirar", "ocupar", "encolar", "soltar", "pasar"}
DeDispatch(s, p, i) ==
    /\ Primera(s) \in OpsDispatch
    /\ Primera(s) = "ltsEx" =>
          \/ s = <<Op("ltsEx", p, Nulo)>>
          \/ s = <<Op("ltsEx", p, Nulo), Op("soltar", p, i)>>
          \/ s = <<Op("ltsEx", p, Nulo), Op("pasar", p, i)>>
    /\ Primera(s) = "tomar" =>
          \/ s = <<Op("tomar", p, i), Op("ltsEx", p, Nulo), Op("soltar", p, i)>>
          \/ s = <<Op("tomar", p, i), Op("bloquear", p, i), Op("atender", p, i)>>
    /\ Primera(s) = "bloquear" =>
          \/ s = <<Op("bloquear", p, i), Op("atender", p, i)>>
          \/ s = <<Op("bloquear", p, i), Op("mirar", p, i), Op("pasar", p, i)>>
    /\ Primera(s) \in {"mirar", "ocupar", "encolar"} => s = <<Op(Primera(s), p, i), Op("pasar", p, i)>>
    /\ Primera(s) \in {"atender", "soltar", "pasar"} => s = <<Op(Primera(s), p, i)>>
GuionDispatch(s) == s # <<>> => \E p \in Procesos :
    s = <<Op("ltsEx", p, Nulo)>> \/ \E i \in Interfaces : DeDispatch(s, p, i)

GuionMemoria(s) == s # <<>> => \E p \in Procesos : s = <<Op("cargarReady", p, Nulo)>>
GuionPlanificador(s) == s # <<>> => s = <<Op("sacarReady", Nulo, Nulo)>>

\* The console: modificar_multiprogramacion, or buscar_pcb from READY on, or the turn of
\* cola_blocked of listar_procesos_por_estado, which looks for nobody.
Bajada == Op("bajarGrado", Nulo, Nulo)
OpsBuscar == {"buscarReady", "descontarReady", "tomarBlocked", "buscarExec", "soltarBlocked",
              "buscarBlocked", "reponer", "sacarBloqueo", "sacarEspera", "ltsEx"}
Suelta == Op("soltarBlocked", Nulo, Nulo)
Exec(p) == Op("buscarExec", p, Nulo)
Buscando(s, p) ==
    /\ Primera(s) \in OpsBuscar
    /\ Primera(s) \in {"buscarReady", "descontarReady", "tomarBlocked"} =>
          s = <<Op(Primera(s), p, Nulo), Exec(p)>>
    /\ Primera(s) = "buscarExec" => s = <<Exec(p)>>
    /\ Primera(s) = "soltarBlocked" => s = <<Suelta, Exec(p)>>
    /\ Primera(s) = "buscarBlocked" => \E k \in Veces :
          s = <<OpVeces("buscarBlocked", p, k), Suelta, Exec(p)>>
    /\ Primera(s) = "reponer" => \E q \in Procesos, j \in Interfaces :
          \/ s = <<Op("reponer", q, j), Suelta, Exec(p)>>
          \/ \E k \in Veces : s = <<Op("reponer", q, j), OpVeces("buscarBlocked", p, k), Suelta, Exec(p)>>
    /\ Primera(s) \in {"sacarBloqueo", "sacarEspera"} => \E j \in Interfaces :
          s = <<Op(Primera(s), p, j), Op("ltsEx", p, Nulo), Suelta, Exec(p)>>
    /\ Primera(s) = "ltsEx" => s = <<Op("ltsEx", p, Nulo), Suelta, Exec(p)>>
OpsListar == {"tomarBlocked", "buscarBlocked", "reponer", "soltarBlocked", "buscarExec"}
Buscado(s, p) == p \in Procesos \/ (p = Nulo /\ Primera(s) \in OpsListar)
GuionConsola(s) == s # <<>> =>
    \/ Primera(s) = "bajarGrado" /\ s \in Seq({Bajada})
    \/ \E p : Buscado(s, p) /\ Buscando(s, p)

Guiones ==
    /\ DOMAIN tareas = Hilos
    /\ \A i \in Interfaces : GuionInterfaz(i, tareas[i])
    /\ GuionDispatch(tareas["dispatch"]) /\ GuionMemoria(tareas["memoria"])
    /\ GuionPlanificador(tareas["planificador"]) /\ GuionConsola(tareas["consola"])

-----------------------------------------------------------------------------
(* The thread of an interface, step by step.                               *)

\* What the invariants look at: its last operation, whether it has the mutex of its
\* interface, the process it carries.
Ultima(s) == s[Len(s)]
Fase(s) == IF s = <<>> THEN "nada" ELSE Ultima(s).op
Posee(s) == s # <<>> /\ s[1].op # "tomar"
Lleva(s, p) == Len(s) > 1 /\ s[Len(s) - 1].op \in {"cargarReady", "ltsEx"} /\ s[Len(s) - 1].p = p

LEMMA SolaObs ==
    ASSUME NEW i, NEW n \in OpsSolas
    PROVE  LET s == <<Op(n, Nulo, i)>> IN
           /\ GuionInterfaz(i, s) /\ Fase(s) = n /\ Posee(s) /\ s # <<>> /\ \A p : ~ Lleva(s, p)
  <1> DEFINE s == <<Op(n, Nulo, i)>>
  <1>1. Primera(s) = n /\ s # <<>> /\ Len(s) = 1 /\ s[1] = Op(n, Nulo, i)
    BY OpCampos DEF Primera
  <1>2. s = <<Op(n, Nulo, i)>>
    OBVIOUS
  <1> HIDE DEF s
  <1>3. GuionInterfaz(i, s)
    BY <1>1, <1>2 DEF GuionInterfaz
  <1>4. Fase(s) = n /\ Posee(s)
    BY <1>1, OpCampos DEF Fase, Posee, Ultima, OpsSolas
  <1>5. ~ (Len(s) > 1)
    BY <1>1
  <1>6. \A p : ~ Lleva(s, p)
    BY <1>5 DEF Lleva
  <1>7. GuionInterfaz(i, s) /\ Fase(s) = n /\ Posee(s) /\ s # <<>> /\ \A p : ~ Lleva(s, p)
    BY <1>1, <1>3, <1>4, <1>6
  <1> QED BY <1>7 DEF s

LEMMA TomarObs ==
    ASSUME NEW i
    PROVE  LET s == <<Op("tomar", Nulo, i), Op("vaciar", Nulo, i)>> IN
           /\ GuionInterfaz(i, s) /\ Fase(s) = "vaciar" /\ ~ Posee(s) /\ s # <<>> /\ \A p : ~ Lleva(s, p)
  <1> DEFINE s == <<Op("tomar", Nulo, i), Op("vaciar", Nulo, i)>>
  <1>1. /\ Primera(s) = "tomar" /\ s # <<>> /\ Len(s) = 2 /\ s[1] = Op("tomar", Nulo, i)
        /\ s[2] = Op("vaciar", Nulo, i)
    BY OpCampos DEF Primera
  <1>2. s = <<Op("tomar", Nulo, i), Op("vaciar", Nulo, i)>>
    OBVIOUS
  <1> HIDE DEF s
  <1>3. GuionInterfaz(i, s)
    BY <1>1, <1>2 DEF GuionInterfaz
  <1>4. Fase(s) = "vaciar" /\ ~ Posee(s)
    BY <1>1, OpCampos DEF Fase, Posee, Ultima
  <1>5. s[Len(s) - 1].op = "tomar"
    BY <1>1, OpCampos
  <1>6. \A p : ~ Lleva(s, p)
    BY <1>5 DEF Lleva
  <1>7. GuionInterfaz(i, s) /\ Fase(s) = "vaciar" /\ ~ Posee(s) /\ s # <<>> /\ \A p : ~ Lleva(s, p)
    BY <1>1, <1>3, <1>4, <1>6
  <1> QED BY <1>7 DEF s

LEMMA LuegoCampos ==
    ASSUME NEW p, NEW fin \in Finales
    PROVE  /\ Luego(fin, p).op \in {"cargarReady", "ltsEx"} /\ Luego(fin, p).p = p
           /\ Luego(fin, p).op = "cargarReady" <=> fin = "liberar"
  BY OpCampos DEF Luego, Finales

LEMMA BorrandoObs ==
    ASSUME NEW i, NEW s, NEW p \in Procesos, NEW fin \in Finales, Borrando(s, i, p, fin), s # <<>>
    PROVE  /\ GuionInterfaz(i, s) /\ Fase(s) = fin /\ Posee(s)
           /\ (\A q : Lleva(s, q) <=> q = p) /\ Len(s) - 1 \in DOMAIN s
  <1>1. GuionInterfaz(i, s)
    BY DEF GuionInterfaz
  <1> DEFINE fines == /\ Len(s) \in Nat /\ Len(s) > 1 /\ s[Len(s)] = Op(fin, Nulo, i)
                      /\ s[Len(s) - 1] = Luego(fin, p) /\ Head(s) = s[1]
                      /\ Len(s) - 1 \in DOMAIN s
  <1>2. fines
    <2>1. CASE Primera(s) \in {"cargarReady", "ltsEx"}
      <3>1. s = <<Luego(fin, p), Op(fin, Nulo, i)>>
        BY <2>1 DEF Borrando
      <3> QED BY <3>1
    <2>2. CASE Primera(s) = "girar"
      <3>1. PICK k \in Veces : s = <<OpVeces("girar", p, k), Luego(fin, p), Op(fin, Nulo, i)>>
        BY <2>2 DEF Borrando
      <3> QED BY <3>1
    <2>3. CASE Primera(s) = "reponer"
      <3>1. PICK q \in Procesos, j \in Interfaces :
                \/ s = <<Op("reponer", q, j), Luego(fin, p), Op(fin, Nulo, i)>>
                \/ \E k \in Veces :
                      s = <<Op("reponer", q, j), OpVeces("girar", p, k), Luego(fin, p), Op(fin, Nulo, i)>>
        BY <2>3 DEF Borrando
      <3>2. CASE s = <<Op("reponer", q, j), Luego(fin, p), Op(fin, Nulo, i)>>
        BY <3>2
      <3>3. CASE \E k \in Veces :
                      s = <<Op("reponer", q, j), OpVeces("girar", p, k), Luego(fin, p), Op(fin, Nulo, i)>>
        <4>1. PICK k \in Veces :
                 s = <<Op("reponer", q, j), OpVeces("girar", p, k), Luego(fin, p), Op(fin, Nulo, i)>>
          BY <3>3
        <4> QED BY <4>1
      <3> QED BY <3>1, <3>2, <3>3
    <2> QED BY <2>1, <2>2, <2>3 DEF Borrando, OpsBorrar
  <1>3. s[1].op # "tomar"
    BY <1>2 DEF Borrando, OpsBorrar, Primera
  <1>4. \A q : Lleva(s, q) <=> q = p
    BY <1>2, LuegoCampos DEF Lleva
  <1> QED BY <1>1, <1>2, <1>3, <1>4, OpCampos DEF Fase, Posee, Ultima

-----------------------------------------------------------------------------
\* The turns of the loops on cola_blocked.
RestoDe(s) ==
    LET quedan == Head(s).k - 1
    IN  IF quedan = 0 THEN <<>> ELSE <<[Head(s) EXCEPT !.k = quedan]>>

LEMMA RestoCasos ==
    ASSUME NEW s, NEW n, NEW p, NEW k \in Veces, Head(s) = OpVeces(n, p, k)
    PROVE  RestoDe(s) = <<>> \/ \E l \in Veces : RestoDe(s) = <<OpVeces(n, p, l)>>
  <1>1. Head(s).k = k
    BY OpCampos
  <1>2. k \in Nat /\ k > 0
    BY DEF Veces
  <1>3. CASE k - 1 = 0
    BY <1>1, <1>3 DEF RestoDe
  <1>4. CASE k - 1 # 0
    <2>1. k - 1 \in Veces
      BY <1>2, <1>4 DEF Veces
    <2>2. RestoDe(s) = <<OpVeces(n, p, k - 1)>>
      BY <1>1, <1>4, OpVecesMenos DEF RestoDe
    <2> QED BY <2>1, <2>2
  <1> QED BY <1>3, <1>4

\* The shapes that the thread of an interface goes through while it deletes.
LEMMA BorrandoFormas ==
    ASSUME NEW i, NEW p \in Procesos, NEW fin \in Finales
    PROVE  LET l == Luego(fin, p)
               f == Op(fin, Nulo, i)
           IN  /\ Borrando(<<l, f>>, i, p, fin)
               /\ \A k \in Veces : Borrando(<<OpVeces("girar", p, k), l, f>>, i, p, fin)
               /\ \A q \in Procesos, j \in Interfaces :
                     Borrando(<<Op("reponer", q, j), l, f>>, i, p, fin)
               /\ \A q \in Procesos, j \in Interfaces : \A k \in Veces :
                     Borrando(<<Op("reponer", q, j), OpVeces("girar", p, k), l, f>>, i, p, fin)
  <1> DEFINE l == Luego(fin, p)
             f == Op(fin, Nulo, i)
  <1>1. Borrando(<<l, f>>, i, p, fin)
    <2> DEFINE s == <<l, f>>
    <2>1. Primera(s) \in {"cargarReady", "ltsEx"}
      BY LuegoCampos DEF Primera
    <2>2. s = <<l, f>>
      OBVIOUS
    <2> HIDE DEF s, l, f
    <2>3. Borrando(s, i, p, fin)
      BY <2>1, <2>2 DEF Borrando, OpsBorrar, l, f
    <2> QED BY <2>2, <2>3
  <1>2. ASSUME NEW k \in Veces
        PROVE  Borrando(<<OpVeces("girar", p, k), l, f>>, i, p, fin)
    <2> DEFINE s == <<OpVeces("girar", p, k), l, f>>
    <2>1. Primera(s) = "girar"
      BY OpCampos DEF Primera
    <2>2. s = <<OpVeces("girar", p, k), l, f>>
      OBVIOUS
    <2> HIDE DEF s
    <2>3. Borrando(s, i, p, fin)
      BY <2>1, <2>2 DEF Borrando, OpsBorrar
    <2> QED BY <2>2, <2>3
  <1>3. ASSUME NEW q \in Procesos, NEW j \in Interfaces
        PROVE  Borrando(<<Op("reponer", q, j), l, f>>, i, p, fin)
    <2> DEFINE s == <<Op("reponer", q, j), l, f>>
    <2>1. Primera(s) = "reponer"
      BY OpCampos DEF Primera
    <2>2. s = <<Op("reponer", q, j), l, f>>
      OBVIOUS
    <2> HIDE DEF s
    <2>3. Borrando(s, i, p, fin)
      BY <2>1, <2>2 DEF Borrando, OpsBorrar
    <2> QED BY <2>2, <2>3
  <1>4. ASSUME NEW q \in Procesos, NEW j \in Interfaces, NEW k \in Veces
        PROVE  Borrando(<<Op("reponer", q, j), OpVeces("girar", p, k), l, f>>, i, p, fin)
    <2> DEFINE s == <<Op("reponer", q, j), OpVeces("girar", p, k), l, f>>
    <2>1. Primera(s) = "reponer"
      BY OpCampos DEF Primera
    <2>2. s = <<Op("reponer", q, j), OpVeces("girar", p, k), l, f>>
      OBVIOUS
    <2> HIDE DEF s
    <2>3. Borrando(s, i, p, fin)
      BY <2>1, <2>2 DEF Borrando, OpsBorrar
    <2> QED BY <2>2, <2>3
  <1> QED BY <1>1, <1>2, <1>3, <1>4

LEMMA BorrandoGira ==
    ASSUME NEW i, NEW s, NEW p \in Procesos, NEW fin \in Finales, Borrando(s, i, p, fin),
           s # <<>>, Primera(s) = "girar"
    PROVE  /\ Head(s).p = p
           /\ Borrando(RestoDe(s) \o Tail(s), i, p, fin) /\ RestoDe(s) \o Tail(s) # <<>>
           /\ \A q \in Procesos, j \in Interfaces :
                /\ Borrando((<<Op("reponer", q, j)>> \o RestoDe(s)) \o Tail(s), i, p, fin)
                /\ (<<Op("reponer", q, j)>> \o RestoDe(s)) \o Tail(s) # <<>>
                /\ Head((<<Op("reponer", q, j)>> \o RestoDe(s)) \o Tail(s)) = Op("reponer", q, j)
  <1> DEFINE l == Luego(fin, p)
             f == Op(fin, Nulo, i)
  <1>1. PICK k \in Veces : s = <<OpVeces("girar", p, k), l, f>>
    BY DEF Borrando
  <1>0. /\ Borrando(<<l, f>>, i, p, fin)
        /\ \A m \in Veces : Borrando(<<OpVeces("girar", p, m), l, f>>, i, p, fin)
        /\ \A q \in Procesos, j \in Interfaces :
              Borrando(<<Op("reponer", q, j), l, f>>, i, p, fin)
        /\ \A q \in Procesos, j \in Interfaces : \A m \in Veces :
              Borrando(<<Op("reponer", q, j), OpVeces("girar", p, m), l, f>>, i, p, fin)
    BY BorrandoFormas
  <1> HIDE DEF l, f
  <1>2. Head(s) = OpVeces("girar", p, k) /\ Tail(s) = <<l, f>>
    BY <1>1
  <1>3. Head(s).p = p
    BY <1>2, OpCampos
  <1>4. RestoDe(s) = <<>> \/ \E m \in Veces : RestoDe(s) = <<OpVeces("girar", p, m)>>
    BY <1>2, RestoCasos
  <1>5. CASE RestoDe(s) = <<>>
    <2>1. RestoDe(s) \o Tail(s) = <<l, f>>
      BY <1>2, <1>5
    <2>2. ASSUME NEW q \in Procesos, NEW j \in Interfaces
          PROVE  /\ Borrando((<<Op("reponer", q, j)>> \o RestoDe(s)) \o Tail(s), i, p, fin)
                 /\ (<<Op("reponer", q, j)>> \o RestoDe(s)) \o Tail(s) # <<>>
                 /\ Head((<<Op("reponer", q, j)>> \o RestoDe(s)) \o Tail(s)) = Op("reponer", q, j)
      <3> DEFINE o == Op("reponer", q, j)
      <3>1. Borrando(<<o, l, f>>, i, p, fin)
        BY <1>0
      <3> HIDE DEF o
      <3>4. <<o>> \o RestoDe(s) = <<o>>
        BY <1>5, Juntar
      <3>5. <<o>> \o <<l, f>> = <<o, l, f>>
        BY Juntar
      <3>2. (<<o>> \o RestoDe(s)) \o Tail(s) = <<o, l, f>>
        BY <1>2, <3>4, <3>5
      <3>3. <<o, l, f>> # <<>> /\ Head(<<o, l, f>>) = o
        OBVIOUS
      <3> QED BY <3>1, <3>2, <3>3 DEF o
    <2>4. <<l, f>> # <<>>
      OBVIOUS
    <2> QED BY <1>0, <1>3, <2>1, <2>2, <2>4
  <1>6. CASE \E m \in Veces : RestoDe(s) = <<OpVeces("girar", p, m)>>
    <2>0. PICK m \in Veces : RestoDe(s) = <<OpVeces("girar", p, m)>>
      BY <1>6
    <2> DEFINE g == OpVeces("girar", p, m)
    <2>3. Borrando(<<g, l, f>>, i, p, fin)
      BY <1>0
    <2>5. RestoDe(s) = <<g>>
      BY <2>0
    <2>1. RestoDe(s) \o Tail(s) = <<g, l, f>>
      BY <1>2, <2>5, Juntar
    <2>2. ASSUME NEW q \in Procesos, NEW j \in Interfaces
          PROVE  /\ Borrando((<<Op("reponer", q, j)>> \o RestoDe(s)) \o Tail(s), i, p, fin)
                 /\ (<<Op("reponer", q, j)>> \o RestoDe(s)) \o Tail(s) # <<>>
                 /\ Head((<<Op("reponer", q, j)>> \o RestoDe(s)) \o Tail(s)) = Op("reponer", q, j)
      <3> DEFINE o == Op("reponer", q, j)
      <3>1. Borrando(<<o, g, l, f>>, i, p, fin)
        BY <1>0
      <3> HIDE DEF o, g
      <3>4. <<o>> \o RestoDe(s) = <<o, g>>
        BY <2>5, Juntar
      <3>5. <<o, g>> \o <<l, f>> = <<o, g, l, f>>
        BY JuntarPares
      <3>2. (<<o>> \o RestoDe(s)) \o Tail(s) = <<o, g, l, f>>
        BY <1>2, <3>4, <3>5
      <3>3. <<o, g, l, f>> # <<>> /\ Head(<<o, g, l, f>>) = o
        OBVIOUS
      <3> QED BY <3>1, <3>2, <3>3 DEF o
    <2>4. <<g, l, f>> # <<>>
      OBVIOUS
    <2> HIDE DEF g
    <2> QED BY <1>3, <2>1, <2>2, <2>3, <2>4
  <1> QED BY <1>4, <1>5, <1>6

LEMMA BorrandoRepone ==
    ASSUME NEW i, NEW s, NEW p \in Procesos, NEW fin \in Finales, Borrando(s, i, p, fin),
           s # <<>>, Primera(s) = "reponer"
    PROVE  /\ Head(s).p \in Procesos /\ Head(s).i \in Interfaces
           /\ Borrando(Tail(s), i, p, fin) /\ Tail(s) # <<>> /\ <<>> \o Tail(s) = Tail(s)
  <1> DEFINE l == Luego(fin, p)
             f == Op(fin, Nulo, i)
  <1>1. PICK q \in Procesos, j \in Interfaces :
            \/ s = <<Op("reponer", q, j), l, f>>
            \/ \E k \in Veces : s = <<Op("reponer", q, j), OpVeces("girar", p, k), l, f>>
    BY DEF Borrando
  <1>0. /\ Borrando(<<l, f>>, i, p, fin)
        /\ \A m \in Veces : Borrando(<<OpVeces("girar", p, m), l, f>>, i, p, fin)
    BY BorrandoFormas
  <1>4. Op("reponer", q, j).p = q /\ Op("reponer", q, j).i = j
    BY OpCampos
  <1> HIDE DEF l, f
  <1>2. CASE s = <<Op("reponer", q, j), l, f>>
    <2>1. /\ Head(s) = Op("reponer", q, j) /\ Tail(s) = <<l, f>> /\ Tail(s) # <<>>
          /\ <<>> \o Tail(s) = Tail(s)
      BY <1>2
    <2> QED BY <1>0, <1>4, <2>1
  <1>3. CASE \E k \in Veces : s = <<Op("reponer", q, j), OpVeces("girar", p, k), l, f>>
    <2>0. PICK k \in Veces : s = <<Op("reponer", q, j), OpVeces("girar", p, k), l, f>>
      BY <1>3
    <2>1. /\ Head(s) = Op("reponer", q, j) /\ Tail(s) = <<OpVeces("girar", p, k), l, f>>
          /\ Tail(s) # <<>> /\ <<>> \o Tail(s) = Tail(s)
      BY <2>0
    <2>2. Borrando(<<OpVeces("girar", p, k), l, f>>, i, p, fin)
      BY <1>0
    <2> QED BY <1>4, <2>1, <2>2
  <1> QED BY <1>1, <1>2, <1>3

LEMMA BorrandoFin ==
    ASSUME NEW i, NEW s, NEW p \in Procesos, NEW fin \in Finales, Borrando(s, i, p, fin),
           s # <<>>, Primera(s) \in {"cargarReady", "ltsEx"}
    PROVE  /\ Head(s).p = p /\ Tail(s) = <<Op(fin, Nulo, i)>> /\ <<>> \o Tail(s) = Tail(s)
           /\ Primera(s) = "cargarReady" <=> fin = "liberar"
  <1>1. s = <<Luego(fin, p), Op(fin, Nulo, i)>>
    BY DEF Borrando
  <1>2. Head(s) = Luego(fin, p) /\ Tail(s) = <<Op(fin, Nulo, i)>> /\ <<>> \o Tail(s) = Tail(s)
    BY <1>1
  <1> QED BY <1>2, LuegoCampos DEF Primera

\* delete_queue_blocked starts.
LEMMA BorrarInicio ==
    ASSUME NEW i, NEW p \in Procesos, NEW fin \in Finales, NEW T, colas.blocked \in Seq(T)
    PROVE  LET u == Borrar(p) \o <<Luego(fin, p), Op(fin, Nulo, i)>>
           IN  Borrando(u, i, p, fin) /\ u # <<>> /\ u \o <<>> = u
  <1> DEFINE l == Luego(fin, p)
             f == Op(fin, Nulo, i)
             u == Borrar(p) \o <<l, f>>
  <1>1. CASE colas.blocked = <<>>
    <2>1. u = <<l, f>> /\ <<l, f>> # <<>>
      BY <1>1 DEF Borrar
    <2> HIDE DEF l, f, u
    <2>2. Borrando(u, i, p, fin) /\ u # <<>>
      BY <2>1, BorrandoFormas DEF l, f
    <2>5. u \o <<>> = u
      BY <2>1, Juntar
    <2> QED BY <2>2, <2>5 DEF l, f, u
  <1>2. CASE colas.blocked # <<>>
    <2>0. Len(colas.blocked) \in Veces
      BY <1>2 DEF Veces
    <2> DEFINE k == Len(colas.blocked)
    <2> HIDE DEF k
    <2>3. Borrar(p) = <<OpVeces("girar", p, k)>>
      BY <1>2 DEF Borrar, k
    <2>1. u = <<OpVeces("girar", p, k), l, f>> /\ <<OpVeces("girar", p, k), l, f>> # <<>>
      BY <2>3, Juntar
    <2>4. k \in Veces
      BY <2>0 DEF k
    <2> HIDE DEF l, f, u
    <2>2. Borrando(u, i, p, fin) /\ u # <<>>
      BY <2>1, <2>4, BorrandoFormas DEF l, f
    <2> DEFINE o == OpVeces("girar", p, k)
    <2>6. u \in Seq({o, l, f})
      BY <2>1
    <2> HIDE DEF o
    <2>5. u \o <<>> = u
      BY <2>6, ConcatEmptySeq
    <2> QED BY <2>2, <2>5 DEF l, f, u
  <1> QED BY <1>1, <1>2

-----------------------------------------------------------------------------
(* The dispatch receiver, step by step.                                    *)

\* The shapes that atender_* goes through.
LEMMA FormasDispatch ==
    ASSUME NEW p, NEW i
    PROVE  /\ DeDispatch(<<Op("ltsEx", p, Nulo)>>, p, i)
           /\ DeDispatch(<<Op("ltsEx", p, Nulo), Op("soltar", p, i)>>, p, i)
           /\ DeDispatch(<<Op("ltsEx", p, Nulo), Op("pasar", p, i)>>, p, i)
           /\ DeDispatch(<<Op("tomar", p, i), Op("ltsEx", p, Nulo), Op("soltar", p, i)>>, p, i)
           /\ DeDispatch(<<Op("tomar", p, i), Op("bloquear", p, i), Op("atender", p, i)>>, p, i)
           /\ DeDispatch(<<Op("bloquear", p, i), Op("atender", p, i)>>, p, i)
           /\ DeDispatch(<<Op("bloquear", p, i), Op("mirar", p, i), Op("pasar", p, i)>>, p, i)
           /\ DeDispatch(<<Op("mirar", p, i), Op("pasar", p, i)>>, p, i)
           /\ DeDispatch(<<Op("ocupar", p, i), Op("pasar", p, i)>>, p, i)
           /\ DeDispatch(<<Op("encolar", p, i), Op("pasar", p, i)>>, p, i)
           /\ DeDispatch(<<Op("atender", p, i)>>, p, i)
           /\ DeDispatch(<<Op("soltar", p, i)>>, p, i)
           /\ DeDispatch(<<Op("pasar", p, i)>>, p, i)
  <1>1. DeDispatch(<<Op("ltsEx", p, Nulo)>>, p, i)
    <2> DEFINE s == <<Op("ltsEx", p, Nulo)>>
    <2>1. Primera(s) = "ltsEx"
      BY OpCampos DEF Primera
    <2>2. s = <<Op("ltsEx", p, Nulo)>>
      OBVIOUS
    <2> HIDE DEF s
    <2>3. DeDispatch(s, p, i)
      BY <2>1, <2>2 DEF DeDispatch, OpsDispatch
    <2> QED BY <2>2, <2>3
  <1>2. DeDispatch(<<Op("ltsEx", p, Nulo), Op("soltar", p, i)>>, p, i)
    <2> DEFINE s == <<Op("ltsEx", p, Nulo), Op("soltar", p, i)>>
    <2>1. Primera(s) = "ltsEx"
      BY OpCampos DEF Primera
    <2>2. s = <<Op("ltsEx", p, Nulo), Op("soltar", p, i)>>
      OBVIOUS
    <2> HIDE DEF s
    <2>3. DeDispatch(s, p, i)
      BY <2>1, <2>2 DEF DeDispatch, OpsDispatch
    <2> QED BY <2>2, <2>3
  <1>3. DeDispatch(<<Op("ltsEx", p, Nulo), Op("pasar", p, i)>>, p, i)
    <2> DEFINE s == <<Op("ltsEx", p, Nulo), Op("pasar", p, i)>>
    <2>1. Primera(s) = "ltsEx"
      BY OpCampos DEF Primera
    <2>2. s = <<Op("ltsEx", p, Nulo), Op("pasar", p, i)>>
      OBVIOUS
    <2> HIDE DEF s
    <2>3. DeDispatch(s, p, i)
      BY <2>1, <2>2 DEF DeDispatch, OpsDispatch
    <2> QED BY <2>2, <2>3
  <1>4. DeDispatch(<<Op("tomar", p, i), Op("ltsEx", p, Nulo), Op("soltar", p, i)>>, p, i)
    <2> DEFINE s == <<Op("tomar", p, i), Op("ltsEx", p, Nulo), Op("soltar", p, i)>>
    <2>1. Primera(s) = "tomar"
      BY OpCampos DEF Primera
    <2>2. s = <<Op("tomar", p, i), Op("ltsEx", p, Nulo), Op("soltar", p, i)>>
      OBVIOUS
    <2> HIDE DEF s
    <2>3. DeDispatch(s, p, i)
      BY <2>1, <2>2 DEF DeDispatch, OpsDispatch
    <2> QED BY <2>2, <2>3
  <1>5. DeDispatch(<<Op("tomar", p, i), Op("bloquear", p, i), Op("atender", p, i)>>, p, i)
    <2> DEFINE s == <<Op("tomar", p, i), Op("bloquear", p, i), Op("atender", p, i)>>
    <2>1. Primera(s) = "tomar"
      BY OpCampos DEF Primera
    <2>2. s = <<Op("tomar", p, i), Op("bloquear", p, i), Op("atender", p, i)>>
      OBVIOUS
    <2> HIDE DEF s
    <2>3. DeDispatch(s, p, i)
      BY <2>1, <2>2 DEF DeDispatch, OpsDispatch
    <2> QED BY <2>2, <2>3
  <1>6. DeDispatch(<<Op("bloquear", p, i), Op("atender", p, i)>>, p, i)
    <2> DEFINE s == <<Op("bloquear", p, i), Op("atender", p, i)>>
    <2>1. Primera(s) = "bloquear"
      BY OpCampos DEF Primera
    <2>2. s = <<Op("bloquear", p, i), Op("atender", p, i)>>
      OBVIOUS
    <2> HIDE DEF s
    <2>3. DeDispatch(s, p, i)
      BY <2>1, <2>2 DEF DeDispatch, OpsDispatch
    <2> QED BY <2>2, <2>3
  <1>7. DeDispatch(<<Op("bloquear", p, i), Op("mirar", p, i), Op("pasar", p, i)>>, p, i)
    <2> DEFINE s == <<Op("bloquear", p, i), Op("mirar", p, i), Op("pasar", p, i)>>
    <2>1. Primera(s) = "bloquear"
      BY OpCampos DEF Primera
    <2>2. s = <<Op("bloquear", p, i), Op("mirar", p, i), Op("pasar", p, i)>>
      OBVIOUS
    <2> HIDE DEF s
    <2>3. DeDispatch(s, p, i)
      BY <2>1, <2>2 DEF DeDispatch, OpsDispatch
    <2> QED BY <2>2, <2>3
  <1>8. DeDispatch(<<Op("mirar", p, i), Op("pasar", p, i)>>, p, i)
    <2> DEFINE s == <<Op("mirar", p, i), Op("pasar", p, i)>>
    <2>1. Primera(s) = "mirar"
      BY OpCampos DEF Primera
    <2>2. s = <<Op("mirar", p, i), Op("pasar", p, i)>>
      OBVIOUS
    <2> HIDE DEF s
    <2>3. DeDispatch(s, p, i)
      BY <2>1, <2>2 DEF DeDispatch, OpsDispatch
    <2> QED BY <2>2, <2>3
  <1>9. DeDispatch(<<Op("ocupar", p, i), Op("pasar", p, i)>>, p, i)
    <2> DEFINE s == <<Op("ocupar", p, i), Op("pasar", p, i)>>
    <2>1. Primera(s) = "ocupar"
      BY OpCampos DEF Primera
    <2>2. s = <<Op("ocupar", p, i), Op("pasar", p, i)>>
      OBVIOUS
    <2> HIDE DEF s
    <2>3. DeDispatch(s, p, i)
      BY <2>1, <2>2 DEF DeDispatch, OpsDispatch
    <2> QED BY <2>2, <2>3
  <1>10. DeDispatch(<<Op("encolar", p, i), Op("pasar", p, i)>>, p, i)
    <2> DEFINE s == <<Op("encolar", p, i), Op("pasar", p, i)>>
    <2>1. Primera(s) = "encolar"
      BY OpCampos DEF Primera
    <2>2. s = <<Op("encolar", p, i), Op("pasar", p, i)>>
      OBVIOUS
    <2> HIDE DEF s
    <2>3. DeDispatch(s, p, i)
      BY <2>1, <2>2 DEF DeDispatch, OpsDispatch
    <2> QED BY <2>2, <2>3
  <1>11. DeDispatch(<<Op("atender", p, i)>>, p, i)
    <2> DEFINE s == <<Op("atender", p, i)>>
    <2>1. Primera(s) = "atender"
      BY OpCampos DEF Primera
    <2>2. s = <<Op("atender", p, i)>>
      OBVIOUS
    <2> HIDE DEF s
    <2>3. DeDispatch(s, p, i)
      BY <2>1, <2>2 DEF DeDispatch, OpsDispatch
    <2> QED BY <2>2, <2>3
  <1>12. DeDispatch(<<Op("soltar", p, i)>>, p, i)
    <2> DEFINE s == <<Op("soltar", p, i)>>
    <2>1. Primera(s) = "soltar"
      BY OpCampos DEF Primera
    <2>2. s = <<Op("soltar", p, i)>>
      OBVIOUS
    <2> HIDE DEF s
    <2>3. DeDispatch(s, p, i)
      BY <2>1, <2>2 DEF DeDispatch, OpsDispatch
    <2> QED BY <2>2, <2>3
  <1>13. DeDispatch(<<Op("pasar", p, i)>>, p, i)
    <2> DEFINE s == <<Op("pasar", p, i)>>
    <2>1. Primera(s) = "pasar"
      BY OpCampos DEF Primera
    <2>2. s = <<Op("pasar", p, i)>>
      OBVIOUS
    <2> HIDE DEF s
    <2>3. DeDispatch(s, p, i)
      BY <2>1, <2>2 DEF DeDispatch, OpsDispatch
    <2> QED BY <2>2, <2>3
  <1> QED BY <1>1, <1>2, <1>3, <1>4, <1>5, <1>6, <1>7, <1>8, <1>9, <1>10, <1>11, <1>12, <1>13

\* Every step but mirar's leaves the rest.
TrasDispatch(s, p, i) ==
    /\ Head(s) = s[1] /\ Head(s).p = p /\ <<>> \o Tail(s) = Tail(s)
    /\ Primera(s) # "ltsEx" => Head(s).i = i /\ Ultima(s).i = i
    /\ Ultima(s).i \in Interfaces => Ultima(s).i = i /\ Ultima(s).op \in {"atender", "soltar", "pasar"}
    /\ Ultima(s).op \in {"atender", "soltar", "pasar"} => Ultima(s).i = i
    /\ {1, Len(s)} \subseteq DOMAIN s
    /\ Tail(s) # <<>> => DeDispatch(Tail(s), p, i) /\ Ultima(Tail(s)) = Ultima(s)
    /\ Tail(s) = <<>> => Primera(s) = Ultima(s).op
    /\ Primera(s) = "tomar" => /\ Tail(s) # <<>> /\ Primera(Tail(s)) \in {"ltsEx", "bloquear"}
                               /\ Ultima(s).op \in {"atender", "soltar"}
    /\ Primera(s) = "bloquear" => Tail(s) # <<>> /\ Primera(Tail(s)) \in {"atender", "mirar"}
    /\ Primera(s) = "ltsEx" => Tail(s) = <<>> \/ Primera(Tail(s)) \in {"soltar", "pasar"}
    /\ Primera(s) \in {"mirar", "ocupar", "encolar"} => /\ Tail(s) = <<Op("pasar", p, i)>>
                                                        /\ Ultima(s).op = "pasar"
    /\ Primera(s) \in {"atender", "soltar", "pasar"} => Tail(s) = <<>>

LEMMA DispatchObs ==
    ASSUME NEW p, NEW i, NEW s, DeDispatch(s, p, i)
    PROVE  TrasDispatch(s, p, i)
  <1>0. Nulo \notin Interfaces
    BY InterfacesAssumption DEF Hilos
  <1>1. CASE s = <<Op("ltsEx", p, Nulo)>>
    <2> DEFINE a == Op("ltsEx", p, Nulo)
    <2>1. a.op = "ltsEx" /\ a.p = p /\ a.i = Nulo
      BY OpCampos
    <2> HIDE DEF a
    <2>3. s = <<a>>
      BY <1>1 DEF a
    <2>5. <<>> \o Tail(s) = Tail(s) /\ Head(s) = a /\ s[1] = a /\ Tail(s) = <<>> /\ Ultima(s) = a /\ {1, Len(s)} \subseteq DOMAIN s
      BY <2>3 DEF Ultima
    <2> QED BY ONLY <1>0, <2>1, <2>5 DEF TrasDispatch, Primera
  <1>2. CASE s = <<Op("ltsEx", p, Nulo), Op("soltar", p, i)>>
    <2> DEFINE a == Op("ltsEx", p, Nulo)
               b == Op("soltar", p, i)
    <2>1. a.op = "ltsEx" /\ a.p = p /\ a.i = Nulo /\ b.op = "soltar" /\ b.p = p /\ b.i = i
      BY OpCampos
    <2>2. DeDispatch(<<Op("soltar", p, i)>>, p, i)
      BY FormasDispatch
    <2> HIDE DEF a, b
    <2>3. s = <<a, b>>
      BY <1>2 DEF a, b
    <2>4. DeDispatch(<<b>>, p, i)
      BY <2>2 DEF a, b
    <2> HIDE <2>2
    <2>5. /\ <<>> \o Tail(s) = Tail(s) /\ Head(s) = a /\ s[1] = a /\ Tail(s) = <<b>> /\ Tail(s) # <<>> /\ Head(Tail(s)) = b
          /\ Ultima(s) = b /\ Ultima(Tail(s)) = b /\ {1, Len(s)} \subseteq DOMAIN s
      BY <2>3 DEF Ultima
    <2> QED BY ONLY <1>0, <2>1, <2>4, <2>5 DEF TrasDispatch, Primera
  <1>3. CASE s = <<Op("ltsEx", p, Nulo), Op("pasar", p, i)>>
    <2> DEFINE a == Op("ltsEx", p, Nulo)
               b == Op("pasar", p, i)
    <2>1. a.op = "ltsEx" /\ a.p = p /\ a.i = Nulo /\ b.op = "pasar" /\ b.p = p /\ b.i = i
      BY OpCampos
    <2>2. DeDispatch(<<Op("pasar", p, i)>>, p, i)
      BY FormasDispatch
    <2> HIDE DEF a, b
    <2>3. s = <<a, b>>
      BY <1>3 DEF a, b
    <2>4. DeDispatch(<<b>>, p, i)
      BY <2>2 DEF a, b
    <2> HIDE <2>2
    <2>5. /\ <<>> \o Tail(s) = Tail(s) /\ Head(s) = a /\ s[1] = a /\ Tail(s) = <<b>> /\ Tail(s) # <<>> /\ Head(Tail(s)) = b
          /\ Ultima(s) = b /\ Ultima(Tail(s)) = b /\ {1, Len(s)} \subseteq DOMAIN s
      BY <2>3 DEF Ultima
    <2> QED BY ONLY <1>0, <2>1, <2>4, <2>5 DEF TrasDispatch, Primera
  <1>4. CASE s = <<Op("tomar", p, i), Op("ltsEx", p, Nulo), Op("soltar", p, i)>>
    <2> DEFINE a == Op("tomar", p, i)
               b == Op("ltsEx", p, Nulo)
               c == Op("soltar", p, i)
    <2>1. a.op = "tomar" /\ a.p = p /\ a.i = i /\ b.op = "ltsEx" /\ b.p = p /\ b.i = Nulo /\ c.op = "soltar" /\ c.p = p /\ c.i = i
      BY OpCampos
    <2>2. DeDispatch(<<Op("ltsEx", p, Nulo), Op("soltar", p, i)>>, p, i)
      BY FormasDispatch
    <2> HIDE DEF a, b, c
    <2>3. s = <<a, b, c>>
      BY <1>4 DEF a, b, c
    <2>4. DeDispatch(<<b, c>>, p, i)
      BY <2>2 DEF a, b, c
    <2> HIDE <2>2
    <2>5. /\ <<>> \o Tail(s) = Tail(s) /\ Head(s) = a /\ s[1] = a /\ Tail(s) = <<b, c>> /\ Tail(s) # <<>> /\ Head(Tail(s)) = b
          /\ Ultima(s) = c /\ Ultima(Tail(s)) = c /\ {1, Len(s)} \subseteq DOMAIN s
      BY <2>3 DEF Ultima
    <2> QED BY ONLY <1>0, <2>1, <2>4, <2>5 DEF TrasDispatch, Primera
  <1>5. CASE s = <<Op("tomar", p, i), Op("bloquear", p, i), Op("atender", p, i)>>
    <2> DEFINE a == Op("tomar", p, i)
               b == Op("bloquear", p, i)
               c == Op("atender", p, i)
    <2>1. a.op = "tomar" /\ a.p = p /\ a.i = i /\ b.op = "bloquear" /\ b.p = p /\ b.i = i /\ c.op = "atender" /\ c.p = p /\ c.i = i
      BY OpCampos
    <2>2. DeDispatch(<<Op("bloquear", p, i), Op("atender", p, i)>>, p, i)
      BY FormasDispatch
    <2> HIDE DEF a, b, c
    <2>3. s = <<a, b, c>>
      BY <1>5 DEF a, b, c
    <2>4. DeDispatch(<<b, c>>, p, i)
      BY <2>2 DEF a, b, c
    <2> HIDE <2>2
    <2>5. /\ <<>> \o Tail(s) = Tail(s) /\ Head(s) = a /\ s[1] = a /\ Tail(s) = <<b, c>> /\ Tail(s) # <<>> /\ Head(Tail(s)) = b
          /\ Ultima(s) = c /\ Ultima(Tail(s)) = c /\ {1, Len(s)} \subseteq DOMAIN s
      BY <2>3 DEF Ultima
    <2> QED BY ONLY <1>0, <2>1, <2>4, <2>5 DEF TrasDispatch, Primera
  <1>6. CASE s = <<Op("bloquear", p, i), Op("atender", p, i)>>
    <2> DEFINE a == Op("bloquear", p, i)
               b == Op("atender", p, i)
    <2>1. a.op = "bloquear" /\ a.p = p /\ a.i = i /\ b.op = "atender" /\ b.p = p /\ b.i = i
      BY OpCampos
    <2>2. DeDispatch(<<Op("atender", p, i)>>, p, i)
      BY FormasDispatch
    <2> HIDE DEF a, b
    <2>3. s = <<a, b>>
      BY <1>6 DEF a, b
    <2>4. DeDispatch(<<b>>, p, i)
      BY <2>2 DEF a, b
    <2> HIDE <2>2
    <2>5. /\ <<>> \o Tail(s) = Tail(s) /\ Head(s) = a /\ s[1] = a /\ Tail(s) = <<b>> /\ Tail(s) # <<>> /\ Head(Tail(s)) = b
          /\ Ultima(s) = b /\ Ultima(Tail(s)) = b /\ {1, Len(s)} \subseteq DOMAIN s
      BY <2>3 DEF Ultima
    <2> QED BY ONLY <1>0, <2>1, <2>4, <2>5 DEF TrasDispatch, Primera
  <1>7. CASE s = <<Op("bloquear", p, i), Op("mirar", p, i), Op("pasar", p, i)>>
    <2> DEFINE a == Op("bloquear", p, i)
               b == Op("mirar", p, i)
               c == Op("pasar", p, i)
    <2>1. a.op = "bloquear" /\ a.p = p /\ a.i = i /\ b.op = "mirar" /\ b.p = p /\ b.i = i /\ c.op = "pasar" /\ c.p = p /\ c.i = i
      BY OpCampos
    <2>2. DeDispatch(<<Op("mirar", p, i), Op("pasar", p, i)>>, p, i)
      BY FormasDispatch
    <2> HIDE DEF a, b, c
    <2>3. s = <<a, b, c>>
      BY <1>7 DEF a, b, c
    <2>4. DeDispatch(<<b, c>>, p, i)
      BY <2>2 DEF a, b, c
    <2> HIDE <2>2
    <2>5. /\ <<>> \o Tail(s) = Tail(s) /\ Head(s) = a /\ s[1] = a /\ Tail(s) = <<b, c>> /\ Tail(s) # <<>> /\ Head(Tail(s)) = b
          /\ Ultima(s) = c /\ Ultima(Tail(s)) = c /\ {1, Len(s)} \subseteq DOMAIN s
      BY <2>3 DEF Ultima
    <2> QED BY ONLY <1>0, <2>1, <2>4, <2>5 DEF TrasDispatch, Primera
  <1>8. CASE s = <<Op("mirar", p, i), Op("pasar", p, i)>>
    <2> DEFINE a == Op("mirar", p, i)
               b == Op("pasar", p, i)
    <2>1. a.op = "mirar" /\ a.p = p /\ a.i = i /\ b.op = "pasar" /\ b.p = p /\ b.i = i
      BY OpCampos
    <2>2. DeDispatch(<<Op("pasar", p, i)>>, p, i)
      BY FormasDispatch
    <2> HIDE DEF a, b
    <2>3. s = <<a, b>>
      BY <1>8 DEF a, b
    <2>4. DeDispatch(<<b>>, p, i)
      BY <2>2 DEF a, b
    <2> HIDE <2>2
    <2>5. /\ <<>> \o Tail(s) = Tail(s) /\ Head(s) = a /\ s[1] = a /\ Tail(s) = <<b>> /\ Tail(s) # <<>> /\ Head(Tail(s)) = b
          /\ Ultima(s) = b /\ Ultima(Tail(s)) = b /\ {1, Len(s)} \subseteq DOMAIN s
      BY <2>3 DEF Ultima
    <2>6. Tail(s) = <<Op("pasar", p, i)>>
      BY <2>5 DEF b
    <2> QED BY ONLY <1>0, <2>1, <2>4, <2>5, <2>6 DEF TrasDispatch, Primera
  <1>9. CASE s = <<Op("ocupar", p, i), Op("pasar", p, i)>>
    <2> DEFINE a == Op("ocupar", p, i)
               b == Op("pasar", p, i)
    <2>1. a.op = "ocupar" /\ a.p = p /\ a.i = i /\ b.op = "pasar" /\ b.p = p /\ b.i = i
      BY OpCampos
    <2>2. DeDispatch(<<Op("pasar", p, i)>>, p, i)
      BY FormasDispatch
    <2> HIDE DEF a, b
    <2>3. s = <<a, b>>
      BY <1>9 DEF a, b
    <2>4. DeDispatch(<<b>>, p, i)
      BY <2>2 DEF a, b
    <2> HIDE <2>2
    <2>5. /\ <<>> \o Tail(s) = Tail(s) /\ Head(s) = a /\ s[1] = a /\ Tail(s) = <<b>> /\ Tail(s) # <<>> /\ Head(Tail(s)) = b
          /\ Ultima(s) = b /\ Ultima(Tail(s)) = b /\ {1, Len(s)} \subseteq DOMAIN s
      BY <2>3 DEF Ultima
    <2>6. Tail(s) = <<Op("pasar", p, i)>>
      BY <2>5 DEF b
    <2> QED BY ONLY <1>0, <2>1, <2>4, <2>5, <2>6 DEF TrasDispatch, Primera
  <1>10. CASE s = <<Op("encolar", p, i), Op("pasar", p, i)>>
    <2> DEFINE a == Op("encolar", p, i)
               b == Op("pasar", p, i)
    <2>1. a.op = "encolar" /\ a.p = p /\ a.i = i /\ b.op = "pasar" /\ b.p = p /\ b.i = i
      BY OpCampos
    <2>2. DeDispatch(<<Op("pasar", p, i)>>, p, i)
      BY FormasDispatch
    <2> HIDE DEF a, b
    <2>3. s = <<a, b>>
      BY <1>10 DEF a, b
    <2>4. DeDispatch(<<b>>, p, i)
      BY <2>2 DEF a, b
    <2> HIDE <2>2
    <2>5. /\ <<>> \o Tail(s) = Tail(s) /\ Head(s) = a /\ s[1] = a /\ Tail(s) = <<b>> /\ Tail(s) # <<>> /\ Head(Tail(s)) = b
          /\ Ultima(s) = b /\ Ultima(Tail(s)) = b /\ {1, Len(s)} \subseteq DOMAIN s
      BY <2>3 DEF Ultima
    <2>6. Tail(s) = <<Op("pasar", p, i)>>
      BY <2>5 DEF b
    <2> QED BY ONLY <1>0, <2>1, <2>4, <2>5, <2>6 DEF TrasDispatch, Primera
  <1>11. CASE s = <<Op("atender", p, i)>>
    <2> DEFINE a == Op("atender", p, i)
    <2>1. a.op = "atender" /\ a.p = p /\ a.i = i
      BY OpCampos
    <2> HIDE DEF a
    <2>3. s = <<a>>
      BY <1>11 DEF a
    <2>5. <<>> \o Tail(s) = Tail(s) /\ Head(s) = a /\ s[1] = a /\ Tail(s) = <<>> /\ Ultima(s) = a /\ {1, Len(s)} \subseteq DOMAIN s
      BY <2>3 DEF Ultima
    <2> QED BY ONLY <1>0, <2>1, <2>5 DEF TrasDispatch, Primera
  <1>12. CASE s = <<Op("soltar", p, i)>>
    <2> DEFINE a == Op("soltar", p, i)
    <2>1. a.op = "soltar" /\ a.p = p /\ a.i = i
      BY OpCampos
    <2> HIDE DEF a
    <2>3. s = <<a>>
      BY <1>12 DEF a
    <2>5. <<>> \o Tail(s) = Tail(s) /\ Head(s) = a /\ s[1] = a /\ Tail(s) = <<>> /\ Ultima(s) = a /\ {1, Len(s)} \subseteq DOMAIN s
      BY <2>3 DEF Ultima
    <2> QED BY ONLY <1>0, <2>1, <2>5 DEF TrasDispatch, Primera
  <1>13. CASE s = <<Op("pasar", p, i)>>
    <2> DEFINE a == Op("pasar", p, i)
    <2>1. a.op = "pasar" /\ a.p = p /\ a.i = i
      BY OpCampos
    <2> HIDE DEF a
    <2>3. s = <<a>>
      BY <1>13 DEF a
    <2>5. <<>> \o Tail(s) = Tail(s) /\ Head(s) = a /\ s[1] = a /\ Tail(s) = <<>> /\ Ultima(s) = a /\ {1, Len(s)} \subseteq DOMAIN s
      BY <2>3 DEF Ultima
    <2> QED BY ONLY <1>0, <2>1, <2>5 DEF TrasDispatch, Primera
  <1>14. CASE Primera(s) = "ltsEx"
    BY <1>1, <1>2, <1>3, <1>14 DEF DeDispatch
  <1>15. CASE Primera(s) = "tomar"
    BY <1>4, <1>5, <1>15 DEF DeDispatch
  <1>16. CASE Primera(s) = "bloquear"
    BY <1>6, <1>7, <1>16 DEF DeDispatch
  <1>17. CASE Primera(s) = "mirar"
    BY <1>8, <1>17 DEF DeDispatch
  <1>18. CASE Primera(s) = "ocupar"
    BY <1>9, <1>18 DEF DeDispatch
  <1>19. CASE Primera(s) = "encolar"
    BY <1>10, <1>19 DEF DeDispatch
  <1>20. CASE Primera(s) = "atender"
    BY <1>11, <1>20 DEF DeDispatch
  <1>21. CASE Primera(s) = "soltar"
    BY <1>12, <1>21 DEF DeDispatch
  <1>22. CASE Primera(s) = "pasar"
    BY <1>13, <1>22 DEF DeDispatch
  <1> QED BY <1>14, <1>15, <1>16, <1>17, <1>18, <1>19, <1>20, <1>21, <1>22 DEF DeDispatch, OpsDispatch

\* mirar: the process has seen the interface free, or busy.
LEMMA MirarObs ==
    ASSUME NEW p, NEW i, NEW n \in {"ocupar", "encolar"}
    PROVE  LET s == <<Op(n, p, i)>> \o <<Op("pasar", p, i)>> IN
           /\ DeDispatch(s, p, i) /\ s # <<>> /\ Head(s) = Op(n, p, i) /\ s[1] = Op(n, p, i)
           /\ Ultima(s) = Op("pasar", p, i)
  <1>1. <<Op(n, p, i)>> \o <<Op("pasar", p, i)>> = <<Op(n, p, i), Op("pasar", p, i)>>
    BY Juntar
  <1> DEFINE s == <<Op(n, p, i), Op("pasar", p, i)>>
  <1>2. s # <<>> /\ Head(s) = Op(n, p, i) /\ s[1] = Op(n, p, i) /\ Ultima(s) = Op("pasar", p, i)
    BY DEF Ultima
  <1>3. DeDispatch(s, p, i)
    BY FormasDispatch
  <1> HIDE DEF s
  <1>4. DeDispatch(s, p, i) /\ s # <<>> /\ Head(s) = Op(n, p, i) /\ s[1] = Op(n, p, i) /\ Ultima(s) = Op("pasar", p, i)
    BY <1>2, <1>3
  <1> QED BY <1>1, <1>4 DEF s

\* atender_* starts.
AtenderEmpieza(s, p, i) ==
    /\ s # <<>> /\ Head(s).p = p /\ Primera(s) \in {"ltsEx", "bloquear", "tomar"}
    /\ DeDispatch(s, p, i)

LEMMA AtenderObs ==
    ASSUME NEW p, NEW o \in [forma : {"io", "fs", "truncar"}, tipo : {"GENERICA", "DIALFS"}, i : Interfaces]
    PROVE  AtenderEmpieza(Atender(p, o), p, o.i)
  <1> DEFINE i == o.i
  <1>0. i \in Interfaces /\ o.forma \in {"io", "fs", "truncar"}
    OBVIOUS
  <1>1. CASE Tipo[o.i] = o.tipo /\ o.forma = "io"
    <2>1. Atender(p, o) = <<Op("bloquear", p, i), Op("atender", p, i)>>
      BY <1>1 DEF Atender
    <2>2. /\ <<Op("bloquear", p, i), Op("atender", p, i)>> # <<>>
          /\ Head(<<Op("bloquear", p, i), Op("atender", p, i)>>) = Op("bloquear", p, i)
      OBVIOUS
    <2>3. DeDispatch(<<Op("bloquear", p, i), Op("atender", p, i)>>, p, i)
      BY FormasDispatch
    <2> QED BY <1>0, <2>1, <2>2, <2>3, OpCampos DEF AtenderEmpieza, Primera
  <1>2. CASE Tipo[o.i] = o.tipo /\ o.forma = "fs"
    <2>1. Atender(p, o) = <<Op("tomar", p, i), Op("bloquear", p, i), Op("atender", p, i)>>
      BY <1>2 DEF Atender
    <2>2. /\ <<Op("tomar", p, i), Op("bloquear", p, i), Op("atender", p, i)>> # <<>>
          /\ Head(<<Op("tomar", p, i), Op("bloquear", p, i), Op("atender", p, i)>>) = Op("tomar", p, i)
      OBVIOUS
    <2>3. DeDispatch(<<Op("tomar", p, i), Op("bloquear", p, i), Op("atender", p, i)>>, p, i)
      BY FormasDispatch
    <2> QED BY <1>0, <2>1, <2>2, <2>3, OpCampos DEF AtenderEmpieza, Primera
  <1>3. CASE Tipo[o.i] = o.tipo /\ o.forma = "truncar"
    <2>1. Atender(p, o) = <<Op("bloquear", p, i), Op("mirar", p, i), Op("pasar", p, i)>>
      BY <1>3 DEF Atender
    <2>2. /\ <<Op("bloquear", p, i), Op("mirar", p, i), Op("pasar", p, i)>> # <<>>
          /\ Head(<<Op("bloquear", p, i), Op("mirar", p, i), Op("pasar", p, i)>>) = Op("bloquear", p, i)
      OBVIOUS
    <2>3. DeDispatch(<<Op("bloquear", p, i), Op("mirar", p, i), Op("pasar", p, i)>>, p, i)
      BY FormasDispatch
    <2> QED BY <1>0, <2>1, <2>2, <2>3, OpCampos DEF AtenderEmpieza, Primera
  <1>4. CASE Tipo[o.i] # o.tipo /\ o.forma = "io"
    <2>1. Atender(p, o) = <<Op("ltsEx", p, Nulo), Op("soltar", p, i)>>
      BY <1>4 DEF Atender
    <2>2. /\ <<Op("ltsEx", p, Nulo), Op("soltar", p, i)>> # <<>>
          /\ Head(<<Op("ltsEx", p, Nulo), Op("soltar", p, i)>>) = Op("ltsEx", p, Nulo)
      OBVIOUS
    <2>3. DeDispatch(<<Op("ltsEx", p, Nulo), Op("soltar", p, i)>>, p, i)
      BY FormasDispatch
    <2> QED BY <1>0, <2>1, <2>2, <2>3, OpCampos DEF AtenderEmpieza, Primera
  <1>5. CASE Tipo[o.i] # o.tipo /\ o.forma = "fs"
    <2>1. Atender(p, o) = <<Op("tomar", p, i), Op("ltsEx", p, Nulo), Op("soltar", p, i)>>
      BY <1>5 DEF Atender
    <2>2. /\ <<Op("tomar", p, i), Op("ltsEx", p, Nulo), Op("soltar", p, i)>> # <<>>
          /\ Head(<<Op("tomar", p, i), Op("ltsEx", p, Nulo), Op("soltar", p, i)>>) = Op("tomar", p, i)
      OBVIOUS
    <2>3. DeDispatch(<<Op("tomar", p, i), Op("ltsEx", p, Nulo), Op("soltar", p, i)>>, p, i)
      BY FormasDispatch
    <2> QED BY <1>0, <2>1, <2>2, <2>3, OpCampos DEF AtenderEmpieza, Primera
  <1>6. CASE Tipo[o.i] # o.tipo /\ o.forma = "truncar"
    <2>1. Atender(p, o) = <<Op("ltsEx", p, Nulo), Op("pasar", p, i)>>
      BY <1>6 DEF Atender
    <2>2. /\ <<Op("ltsEx", p, Nulo), Op("pasar", p, i)>> # <<>>
          /\ Head(<<Op("ltsEx", p, Nulo), Op("pasar", p, i)>>) = Op("ltsEx", p, Nulo)
      OBVIOUS
    <2>3. DeDispatch(<<Op("ltsEx", p, Nulo), Op("pasar", p, i)>>, p, i)
      BY FormasDispatch
    <2> QED BY <1>0, <2>1, <2>2, <2>3, OpCampos DEF AtenderEmpieza, Primera
  <1> QED BY <1>0, <1>1, <1>2, <1>3, <1>4, <1>5, <1>6

LEMMA ExpulsarObs ==
    ASSUME NEW p
    PROVE  AtenderEmpieza(<<Op("ltsEx", p, Nulo)>>, p, Nulo)
  <1> DEFINE s == <<Op("ltsEx", p, Nulo)>>
  <1>1. s # <<>> /\ Head(s) = Op("ltsEx", p, Nulo)
    OBVIOUS
  <1>2. DeDispatch(s, p, Nulo)
    BY FormasDispatch
  <1> HIDE DEF s
  <1>3. AtenderEmpieza(s, p, Nulo)
    BY <1>1, <1>2, OpCampos DEF AtenderEmpieza, Primera
  <1> QED BY <1>3 DEF s

-----------------------------------------------------------------------------
(* The console, step by step.                                              *)

LEMMA ConsolaCampos ==
    ASSUME NEW p
    PROVE  /\ Exec(p).op = "buscarExec" /\ Exec(p).p = p /\ Suelta.op = "soltarBlocked"
           /\ Suelta.p = Nulo /\ Bajada.op = "bajarGrado"
  BY OpCampos DEF Exec, Suelta, Bajada

\* The shapes that buscar_pcb goes through.
LEMMA FormasConsola ==
    ASSUME NEW p
    PROVE  /\ Buscando(<<Op("buscarReady", p, Nulo), Exec(p)>>, p)
           /\ Buscando(<<Op("descontarReady", p, Nulo), Exec(p)>>, p)
           /\ Buscando(<<Op("tomarBlocked", p, Nulo), Exec(p)>>, p)
           /\ Buscando(<<Exec(p)>>, p)
           /\ Buscando(<<Suelta, Exec(p)>>, p)
           /\ \A k \in Veces : Buscando(<<OpVeces("buscarBlocked", p, k), Suelta, Exec(p)>>, p)
           /\ \A q \in Procesos, j \in Interfaces : Buscando(<<Op("reponer", q, j), Suelta, Exec(p)>>, p)
           /\ \A q \in Procesos, j \in Interfaces : \A k \in Veces : Buscando(<<Op("reponer", q, j), OpVeces("buscarBlocked", p, k), Suelta, Exec(p)>>, p)
           /\ \A j \in Interfaces : Buscando(<<Op("sacarBloqueo", p, j), Op("ltsEx", p, Nulo), Suelta, Exec(p)>>, p)
           /\ \A j \in Interfaces : Buscando(<<Op("sacarEspera", p, j), Op("ltsEx", p, Nulo), Suelta, Exec(p)>>, p)
           /\ Buscando(<<Op("ltsEx", p, Nulo), Suelta, Exec(p)>>, p)
  <1>1. Buscando(<<Op("buscarReady", p, Nulo), Exec(p)>>, p)
    <2> DEFINE s == <<Op("buscarReady", p, Nulo), Exec(p)>>
    <2>1. Primera(s) = "buscarReady"
      BY OpCampos, ConsolaCampos DEF Primera
    <2>2. s = <<Op("buscarReady", p, Nulo), Exec(p)>>
      OBVIOUS
    <2> HIDE DEF s
    <2>3. Buscando(s, p)
      BY <2>1, <2>2 DEF Buscando, OpsBuscar
    <2> QED BY <2>2, <2>3
  <1>2. Buscando(<<Op("descontarReady", p, Nulo), Exec(p)>>, p)
    <2> DEFINE s == <<Op("descontarReady", p, Nulo), Exec(p)>>
    <2>1. Primera(s) = "descontarReady"
      BY OpCampos, ConsolaCampos DEF Primera
    <2>2. s = <<Op("descontarReady", p, Nulo), Exec(p)>>
      OBVIOUS
    <2> HIDE DEF s
    <2>3. Buscando(s, p)
      BY <2>1, <2>2 DEF Buscando, OpsBuscar
    <2> QED BY <2>2, <2>3
  <1>3. Buscando(<<Op("tomarBlocked", p, Nulo), Exec(p)>>, p)
    <2> DEFINE s == <<Op("tomarBlocked", p, Nulo), Exec(p)>>
    <2>1. Primera(s) = "tomarBlocked"
      BY OpCampos, ConsolaCampos DEF Primera
    <2>2. s = <<Op("tomarBlocked", p, Nulo), Exec(p)>>
      OBVIOUS
    <2> HIDE DEF s
    <2>3. Buscando(s, p)
      BY <2>1, <2>2 DEF Buscando, OpsBuscar
    <2> QED BY <2>2, <2>3
  <1>4. Buscando(<<Exec(p)>>, p)
    <2> DEFINE s == <<Exec(p)>>
    <2>1. Primera(s) = "buscarExec"
      BY OpCampos, ConsolaCampos DEF Primera
    <2>2. s = <<Exec(p)>>
      OBVIOUS
    <2> HIDE DEF s
    <2>3. Buscando(s, p)
      BY <2>1, <2>2 DEF Buscando, OpsBuscar
    <2> QED BY <2>2, <2>3
  <1>5. Buscando(<<Suelta, Exec(p)>>, p)
    <2> DEFINE s == <<Suelta, Exec(p)>>
    <2>1. Primera(s) = "soltarBlocked"
      BY OpCampos, ConsolaCampos DEF Primera
    <2>2. s = <<Suelta, Exec(p)>>
      OBVIOUS
    <2> HIDE DEF s
    <2>3. Buscando(s, p)
      BY <2>1, <2>2 DEF Buscando, OpsBuscar
    <2> QED BY <2>2, <2>3
  <1>6. ASSUME NEW k \in Veces
        PROVE  Buscando(<<OpVeces("buscarBlocked", p, k), Suelta, Exec(p)>>, p)
    <2> DEFINE s == <<OpVeces("buscarBlocked", p, k), Suelta, Exec(p)>>
    <2>1. Primera(s) = "buscarBlocked"
      BY OpCampos, ConsolaCampos DEF Primera
    <2>2. s = <<OpVeces("buscarBlocked", p, k), Suelta, Exec(p)>>
      OBVIOUS
    <2> HIDE DEF s
    <2>3. Buscando(s, p)
      BY <2>1, <2>2 DEF Buscando, OpsBuscar
    <2> QED BY <2>2, <2>3
  <1>7. ASSUME NEW q \in Procesos, NEW j \in Interfaces
        PROVE  Buscando(<<Op("reponer", q, j), Suelta, Exec(p)>>, p)
    <2> DEFINE s == <<Op("reponer", q, j), Suelta, Exec(p)>>
    <2>1. Primera(s) = "reponer"
      BY OpCampos, ConsolaCampos DEF Primera
    <2>2. s = <<Op("reponer", q, j), Suelta, Exec(p)>>
      OBVIOUS
    <2> HIDE DEF s
    <2>3. Buscando(s, p)
      BY <2>1, <2>2 DEF Buscando, OpsBuscar
    <2> QED BY <2>2, <2>3
  <1>8. ASSUME NEW q \in Procesos, NEW j \in Interfaces, NEW k \in Veces
        PROVE  Buscando(<<Op("reponer", q, j), OpVeces("buscarBlocked", p, k), Suelta, Exec(p)>>, p)
    <2> DEFINE s == <<Op("reponer", q, j), OpVeces("buscarBlocked", p, k), Suelta, Exec(p)>>
    <2>1. Primera(s) = "reponer"
      BY OpCampos, ConsolaCampos DEF Primera
    <2>2. s = <<Op("reponer", q, j), OpVeces("buscarBlocked", p, k), Suelta, Exec(p)>>
      OBVIOUS
    <2> HIDE DEF s
    <2>3. Buscando(s, p)
      BY <2>1, <2>2 DEF Buscando, OpsBuscar
    <2> QED BY <2>2, <2>3
  <1>9. ASSUME NEW j \in Interfaces
        PROVE  Buscando(<<Op("sacarBloqueo", p, j), Op("ltsEx", p, Nulo), Suelta, Exec(p)>>, p)
    <2> DEFINE s == <<Op("sacarBloqueo", p, j), Op("ltsEx", p, Nulo), Suelta, Exec(p)>>
    <2>1. Primera(s) = "sacarBloqueo"
      BY OpCampos, ConsolaCampos DEF Primera
    <2>2. s = <<Op("sacarBloqueo", p, j), Op("ltsEx", p, Nulo), Suelta, Exec(p)>>
      OBVIOUS
    <2> HIDE DEF s
    <2>3. Buscando(s, p)
      BY <2>1, <2>2 DEF Buscando, OpsBuscar
    <2> QED BY <2>2, <2>3
  <1>10. ASSUME NEW j \in Interfaces
        PROVE  Buscando(<<Op("sacarEspera", p, j), Op("ltsEx", p, Nulo), Suelta, Exec(p)>>, p)
    <2> DEFINE s == <<Op("sacarEspera", p, j), Op("ltsEx", p, Nulo), Suelta, Exec(p)>>
    <2>1. Primera(s) = "sacarEspera"
      BY OpCampos, ConsolaCampos DEF Primera
    <2>2. s = <<Op("sacarEspera", p, j), Op("ltsEx", p, Nulo), Suelta, Exec(p)>>
      OBVIOUS
    <2> HIDE DEF s
    <2>3. Buscando(s, p)
      BY <2>1, <2>2 DEF Buscando, OpsBuscar
    <2> QED BY <2>2, <2>3
  <1>11. Buscando(<<Op("ltsEx", p, Nulo), Suelta, Exec(p)>>, p)
    <2> DEFINE s == <<Op("ltsEx", p, Nulo), Suelta, Exec(p)>>
    <2>1. Primera(s) = "ltsEx"
      BY OpCampos, ConsolaCampos DEF Primera
    <2>2. s = <<Op("ltsEx", p, Nulo), Suelta, Exec(p)>>
      OBVIOUS
    <2> HIDE DEF s
    <2>3. Buscando(s, p)
      BY <2>1, <2>2 DEF Buscando, OpsBuscar
    <2> QED BY <2>2, <2>3
  <1> QED BY <1>1, <1>2, <1>3, <1>4, <1>5, <1>6, <1>7, <1>8, <1>9, <1>10, <1>11

\* Steps that leave the rest.
Sacar == {"sacarBloqueo", "sacarEspera"}
TrasBuscar(s, p) ==
    /\ <<>> \o Tail(s) = Tail(s)
    /\ Primera(s) \notin {"soltarBlocked", "reponer"} => Head(s).p = p
    /\ Primera(s) = "reponer" => Head(s).p \in Procesos /\ Head(s).i \in Interfaces
    /\ Primera(s) \in Sacar => /\ Head(s).i \in Interfaces /\ Tail(s) # <<>>
                               /\ Primera(Tail(s)) = "ltsEx" /\ Head(Tail(s)).p = p
    /\ Tail(s) # <<>> => /\ Buscando(Tail(s), p)
                         /\ Primera(s) \notin Sacar =>
                               Primera(Tail(s)) \notin {"ltsEx", "reponer", "buscarReady", "descontarReady"} \cup Sacar

LEMMA BuscandoObs ==
    ASSUME NEW p, NEW s, Buscando(s, p)
    PROVE  TrasBuscar(s, p)
  <1>1. CASE s = <<Op("buscarReady", p, Nulo), Exec(p)>>
    <2> DEFINE a == Op("buscarReady", p, Nulo)
               b == Exec(p)
    <2>1. a.op = "buscarReady" /\ a.p = p /\ b.op = "buscarExec" /\ b.p = p
      BY OpCampos, ConsolaCampos
    <2>2. Buscando(<<Exec(p)>>, p)
      BY FormasConsola
    <2> HIDE DEF a, b
    <2>3. s = <<a, b>>
      BY <1>1 DEF a, b
    <2>4. Buscando(<<b>>, p)
      BY <2>2 DEF a, b
    <2>5. <<>> \o Tail(s) = Tail(s) /\ Head(s) = a /\ Tail(s) = <<b>> /\ Tail(s) # <<>> /\ Head(Tail(s)) = b
      BY <2>3
    <2> QED BY ONLY <2>1, <2>4, <2>5 DEF TrasBuscar, Primera, Sacar
  <1>2. CASE s = <<Op("descontarReady", p, Nulo), Exec(p)>>
    <2> DEFINE a == Op("descontarReady", p, Nulo)
               b == Exec(p)
    <2>1. a.op = "descontarReady" /\ a.p = p /\ b.op = "buscarExec" /\ b.p = p
      BY OpCampos, ConsolaCampos
    <2>2. Buscando(<<Exec(p)>>, p)
      BY FormasConsola
    <2> HIDE DEF a, b
    <2>3. s = <<a, b>>
      BY <1>2 DEF a, b
    <2>4. Buscando(<<b>>, p)
      BY <2>2 DEF a, b
    <2>5. <<>> \o Tail(s) = Tail(s) /\ Head(s) = a /\ Tail(s) = <<b>> /\ Tail(s) # <<>> /\ Head(Tail(s)) = b
      BY <2>3
    <2> QED BY ONLY <2>1, <2>4, <2>5 DEF TrasBuscar, Primera, Sacar
  <1>3. CASE s = <<Op("tomarBlocked", p, Nulo), Exec(p)>>
    <2> DEFINE a == Op("tomarBlocked", p, Nulo)
               b == Exec(p)
    <2>1. a.op = "tomarBlocked" /\ a.p = p /\ b.op = "buscarExec" /\ b.p = p
      BY OpCampos, ConsolaCampos
    <2>2. Buscando(<<Exec(p)>>, p)
      BY FormasConsola
    <2> HIDE DEF a, b
    <2>3. s = <<a, b>>
      BY <1>3 DEF a, b
    <2>4. Buscando(<<b>>, p)
      BY <2>2 DEF a, b
    <2>5. <<>> \o Tail(s) = Tail(s) /\ Head(s) = a /\ Tail(s) = <<b>> /\ Tail(s) # <<>> /\ Head(Tail(s)) = b
      BY <2>3
    <2> QED BY ONLY <2>1, <2>4, <2>5 DEF TrasBuscar, Primera, Sacar
  <1>4. CASE s = <<Exec(p)>>
    <2> DEFINE a == Exec(p)
    <2>1. a.op = "buscarExec" /\ a.p = p
      BY OpCampos, ConsolaCampos
    <2> HIDE DEF a
    <2>3. s = <<a>>
      BY <1>4 DEF a
    <2>5. <<>> \o Tail(s) = Tail(s) /\ Head(s) = a /\ Tail(s) = <<>>
      BY <2>3
    <2> QED BY ONLY <2>1, <2>5 DEF TrasBuscar, Primera, Sacar
  <1>5. CASE s = <<Suelta, Exec(p)>>
    <2> DEFINE a == Suelta
               b == Exec(p)
    <2>1. a.op = "soltarBlocked" /\ a.p = Nulo /\ b.op = "buscarExec" /\ b.p = p
      BY OpCampos, ConsolaCampos
    <2>2. Buscando(<<Exec(p)>>, p)
      BY FormasConsola
    <2> HIDE DEF a, b
    <2>3. s = <<a, b>>
      BY <1>5 DEF a, b
    <2>4. Buscando(<<b>>, p)
      BY <2>2 DEF a, b
    <2>5. <<>> \o Tail(s) = Tail(s) /\ Head(s) = a /\ Tail(s) = <<b>> /\ Tail(s) # <<>> /\ Head(Tail(s)) = b
      BY <2>3
    <2> QED BY ONLY <2>1, <2>4, <2>5 DEF TrasBuscar, Primera, Sacar
  <1>6. ASSUME NEW k \in Veces, s = <<OpVeces("buscarBlocked", p, k), Suelta, Exec(p)>>
        PROVE  TrasBuscar(s, p)
    <2> DEFINE a == OpVeces("buscarBlocked", p, k)
               b == Suelta
               c == Exec(p)
    <2>1. a.op = "buscarBlocked" /\ a.p = p /\ b.op = "soltarBlocked" /\ b.p = Nulo /\ c.op = "buscarExec" /\ c.p = p
      BY OpCampos, ConsolaCampos
    <2>2. Buscando(<<Suelta, Exec(p)>>, p)
      BY FormasConsola
    <2> HIDE DEF a, b, c
    <2>3. s = <<a, b, c>>
      BY <1>6 DEF a, b, c
    <2>4. Buscando(<<b, c>>, p)
      BY <2>2 DEF a, b, c
    <2>5. <<>> \o Tail(s) = Tail(s) /\ Head(s) = a /\ Tail(s) = <<b, c>> /\ Tail(s) # <<>> /\ Head(Tail(s)) = b
      BY <2>3
    <2> QED BY ONLY <2>1, <2>4, <2>5 DEF TrasBuscar, Primera, Sacar
  <1>7. ASSUME NEW q \in Procesos, NEW j \in Interfaces, s = <<Op("reponer", q, j), Suelta, Exec(p)>>
        PROVE  TrasBuscar(s, p)
    <2> DEFINE a == Op("reponer", q, j)
               b == Suelta
               c == Exec(p)
    <2>1. a.op = "reponer" /\ a.p = q /\ b.op = "soltarBlocked" /\ b.p = Nulo /\ c.op = "buscarExec" /\ c.p = p
      BY OpCampos, ConsolaCampos
    <2>0. a.i = j
      BY OpCampos
    <2>2. Buscando(<<Suelta, Exec(p)>>, p)
      BY FormasConsola
    <2> HIDE DEF a, b, c
    <2>3. s = <<a, b, c>>
      BY <1>7 DEF a, b, c
    <2>4. Buscando(<<b, c>>, p)
      BY <2>2 DEF a, b, c
    <2>5. <<>> \o Tail(s) = Tail(s) /\ Head(s) = a /\ Tail(s) = <<b, c>> /\ Tail(s) # <<>> /\ Head(Tail(s)) = b
      BY <2>3
    <2> QED BY ONLY <2>0, <2>1, <2>4, <2>5 DEF TrasBuscar, Primera, Sacar
  <1>8. ASSUME NEW q \in Procesos, NEW j \in Interfaces, NEW k \in Veces, s = <<Op("reponer", q, j), OpVeces("buscarBlocked", p, k), Suelta, Exec(p)>>
        PROVE  TrasBuscar(s, p)
    <2> DEFINE a == Op("reponer", q, j)
               b == OpVeces("buscarBlocked", p, k)
               c == Suelta
               d == Exec(p)
    <2>1. a.op = "reponer" /\ a.p = q /\ b.op = "buscarBlocked" /\ b.p = p /\ c.op = "soltarBlocked" /\ c.p = Nulo /\ d.op = "buscarExec" /\ d.p = p
      BY OpCampos, ConsolaCampos
    <2>0. a.i = j
      BY OpCampos
    <2>2. Buscando(<<OpVeces("buscarBlocked", p, k), Suelta, Exec(p)>>, p)
      BY FormasConsola
    <2> HIDE DEF a, b, c, d
    <2>3. s = <<a, b, c, d>>
      BY <1>8 DEF a, b, c, d
    <2>4. Buscando(<<b, c, d>>, p)
      BY <2>2 DEF a, b, c, d
    <2>5. <<>> \o Tail(s) = Tail(s) /\ Head(s) = a /\ Tail(s) = <<b, c, d>> /\ Tail(s) # <<>> /\ Head(Tail(s)) = b
      BY <2>3
    <2> QED BY ONLY <2>0, <2>1, <2>4, <2>5 DEF TrasBuscar, Primera, Sacar
  <1>9. ASSUME NEW j \in Interfaces, s = <<Op("sacarBloqueo", p, j), Op("ltsEx", p, Nulo), Suelta, Exec(p)>>
        PROVE  TrasBuscar(s, p)
    <2> DEFINE a == Op("sacarBloqueo", p, j)
               b == Op("ltsEx", p, Nulo)
               c == Suelta
               d == Exec(p)
    <2>1. a.op = "sacarBloqueo" /\ a.p = p /\ b.op = "ltsEx" /\ b.p = p /\ c.op = "soltarBlocked" /\ c.p = Nulo /\ d.op = "buscarExec" /\ d.p = p
      BY OpCampos, ConsolaCampos
    <2>0. a.i = j
      BY OpCampos
    <2>2. Buscando(<<Op("ltsEx", p, Nulo), Suelta, Exec(p)>>, p)
      BY FormasConsola
    <2> HIDE DEF a, b, c, d
    <2>3. s = <<a, b, c, d>>
      BY <1>9 DEF a, b, c, d
    <2>4. Buscando(<<b, c, d>>, p)
      BY <2>2 DEF a, b, c, d
    <2>5. <<>> \o Tail(s) = Tail(s) /\ Head(s) = a /\ Tail(s) = <<b, c, d>> /\ Tail(s) # <<>> /\ Head(Tail(s)) = b
      BY <2>3
    <2> QED BY ONLY <2>0, <2>1, <2>4, <2>5 DEF TrasBuscar, Primera, Sacar
  <1>10. ASSUME NEW j \in Interfaces, s = <<Op("sacarEspera", p, j), Op("ltsEx", p, Nulo), Suelta, Exec(p)>>
        PROVE  TrasBuscar(s, p)
    <2> DEFINE a == Op("sacarEspera", p, j)
               b == Op("ltsEx", p, Nulo)
               c == Suelta
               d == Exec(p)
    <2>1. a.op = "sacarEspera" /\ a.p = p /\ b.op = "ltsEx" /\ b.p = p /\ c.op = "soltarBlocked" /\ c.p = Nulo /\ d.op = "buscarExec" /\ d.p = p
      BY OpCampos, ConsolaCampos
    <2>0. a.i = j
      BY OpCampos
    <2>2. Buscando(<<Op("ltsEx", p, Nulo), Suelta, Exec(p)>>, p)
      BY FormasConsola
    <2> HIDE DEF a, b, c, d
    <2>3. s = <<a, b, c, d>>
      BY <1>10 DEF a, b, c, d
    <2>4. Buscando(<<b, c, d>>, p)
      BY <2>2 DEF a, b, c, d
    <2>5. <<>> \o Tail(s) = Tail(s) /\ Head(s) = a /\ Tail(s) = <<b, c, d>> /\ Tail(s) # <<>> /\ Head(Tail(s)) = b
      BY <2>3
    <2> QED BY ONLY <2>0, <2>1, <2>4, <2>5 DEF TrasBuscar, Primera, Sacar
  <1>11. CASE s = <<Op("ltsEx", p, Nulo), Suelta, Exec(p)>>
    <2> DEFINE a == Op("ltsEx", p, Nulo)
               b == Suelta
               c == Exec(p)
    <2>1. a.op = "ltsEx" /\ a.p = p /\ b.op = "soltarBlocked" /\ b.p = Nulo /\ c.op = "buscarExec" /\ c.p = p
      BY OpCampos, ConsolaCampos
    <2>2. Buscando(<<Suelta, Exec(p)>>, p)
      BY FormasConsola
    <2> HIDE DEF a, b, c
    <2>3. s = <<a, b, c>>
      BY <1>11 DEF a, b, c
    <2>4. Buscando(<<b, c>>, p)
      BY <2>2 DEF a, b, c
    <2>5. <<>> \o Tail(s) = Tail(s) /\ Head(s) = a /\ Tail(s) = <<b, c>> /\ Tail(s) # <<>> /\ Head(Tail(s)) = b
      BY <2>3
    <2> QED BY ONLY <2>1, <2>4, <2>5 DEF TrasBuscar, Primera, Sacar
  <1>12. CASE Primera(s) = "buscarReady"
    BY <1>1, <1>12 DEF Buscando
  <1>13. CASE Primera(s) = "descontarReady"
    BY <1>2, <1>13 DEF Buscando
  <1>14. CASE Primera(s) = "tomarBlocked"
    BY <1>3, <1>14 DEF Buscando
  <1>15. CASE Primera(s) = "buscarExec"
    BY <1>4, <1>15 DEF Buscando
  <1>16. CASE Primera(s) = "soltarBlocked"
    BY <1>5, <1>16 DEF Buscando
  <1>17. CASE Primera(s) = "buscarBlocked"
    BY <1>6, <1>17 DEF Buscando
  <1>18. CASE Primera(s) = "reponer"
    BY <1>7, <1>8, <1>18 DEF Buscando
  <1>19. CASE Primera(s) = "sacarBloqueo"
    BY <1>9, <1>19 DEF Buscando
  <1>20. CASE Primera(s) = "sacarEspera"
    BY <1>10, <1>20 DEF Buscando
  <1>21. CASE Primera(s) = "ltsEx"
    BY <1>11, <1>21 DEF Buscando
  <1> QED BY <1>12, <1>13, <1>14, <1>15, <1>16, <1>17, <1>18, <1>19, <1>20, <1>21 DEF Buscando, OpsBuscar

\* FINALIZAR_PROCESO; the steps that put something else before the rest.
LEMMA EmpiezaBusqueda ==
    ASSUME NEW p
    PROVE  LET u == <<Op("buscarReady", p, Nulo), Op("buscarExec", p, Nulo)>>
           IN  Buscando(u, p) /\ u # <<>> /\ Primera(u) = "buscarReady"
  <1>1. Buscando(<<Op("buscarReady", p, Nulo), Op("buscarExec", p, Nulo)>>, p)
    BY FormasConsola DEF Exec
  <1> QED BY <1>1, OpCampos DEF Primera

LEMMA BuscarReadyObs ==
    ASSUME NEW p, NEW s, Buscando(s, p), Primera(s) = "buscarReady",
           NEW n \in {"tomarBlocked", "descontarReady"}
    PROVE  LET u == <<Op(n, p, Nulo)>> \o Tail(s)
           IN  Buscando(u, p) /\ u # <<>> /\ Primera(u) = n
  <1>0. s = <<Op("buscarReady", p, Nulo), Exec(p)>>
    BY DEF Buscando
  <1>1. Tail(s) = <<Exec(p)>>
    BY <1>0
  <1>2. <<Op(n, p, Nulo)>> \o Tail(s) = <<Op(n, p, Nulo), Exec(p)>>
    BY <1>1, Juntar
  <1>3. Buscando(<<Op(n, p, Nulo), Exec(p)>>, p)
    BY FormasConsola
  <1>4. <<Op(n, p, Nulo), Exec(p)>> # <<>> /\ Primera(<<Op(n, p, Nulo), Exec(p)>>) = n
    BY OpCampos DEF Primera
  <1> QED BY <1>2, <1>3, <1>4

LEMMA TomarBlockedObs ==
    ASSUME NEW p, NEW s, Buscando(s, p), Primera(s) = "tomarBlocked", NEW T, colas.blocked \in Seq(T)
    PROVE  LET u == ((IF colas.blocked = <<>> THEN <<>>
                      ELSE <<OpVeces("buscarBlocked", p, Len(colas.blocked))>>)
                     \o <<Op("soltarBlocked", Nulo, Nulo)>>) \o Tail(s)
           IN  Buscando(u, p) /\ u # <<>> /\ Primera(u) \in {"soltarBlocked", "buscarBlocked"}
  <1>0. s = <<Op("tomarBlocked", p, Nulo), Exec(p)>>
    BY DEF Buscando
  <1>1. Tail(s) = <<Exec(p)>>
    BY <1>0
  <1> DEFINE g == IF colas.blocked = <<>> THEN <<>>
                  ELSE <<OpVeces("buscarBlocked", p, Len(colas.blocked))>>
             x == Exec(p)
             u == (g \o <<Suelta>>) \o <<x>>
  <1>2. CASE colas.blocked = <<>>
    <2>1. g = <<>> /\ g \o <<Suelta>> = <<Suelta>>
      BY <1>2
    <2> HIDE DEF g, x
    <2>2. u = <<Suelta, x>>
      BY <2>1, Juntar
    <2>3. <<Suelta, x>> # <<>> /\ Primera(<<Suelta, x>>) = "soltarBlocked"
      BY ConsolaCampos DEF Primera
    <2>4. Buscando(<<Suelta, x>>, p)
      BY FormasConsola DEF x
    <2> HIDE DEF u
    <2>5. Buscando(u, p) /\ u # <<>> /\ Primera(u) = "soltarBlocked"
      BY <2>2, <2>3, <2>4
    <2> QED BY <1>1, <2>5 DEF u, g, x, Suelta
  <1>3. CASE colas.blocked # <<>>
    <2>0. Len(colas.blocked) \in Veces
      BY <1>3 DEF Veces
    <2> DEFINE k == Len(colas.blocked)
               o == OpVeces("buscarBlocked", p, k)
    <2>7. k \in Veces
      BY <2>0
    <2> HIDE DEF k
    <2>9. Buscando(<<o, Suelta, x>>, p)
      BY <2>7, FormasConsola
    <2>4. Buscando(<<o, Suelta, x>>, p) /\ o.op = "buscarBlocked"
      BY <2>9, OpCampos
    <2>1. g = <<o>>
      BY <1>3 DEF k
    <2> HIDE DEF g, x, o
    <2>6. g \o <<Suelta>> = <<o, Suelta>>
      BY <2>1, Juntar
    <2>8. <<o, Suelta>> \o <<x>> = <<o, Suelta, x>>
      BY JuntarPar
    <2>2. u = <<o, Suelta, x>>
      BY <2>6, <2>8
    <2>3. <<o, Suelta, x>> # <<>> /\ Primera(<<o, Suelta, x>>) = "buscarBlocked"
      BY <2>4 DEF Primera
    <2> HIDE DEF u
    <2>5. Buscando(u, p) /\ u # <<>> /\ Primera(u) = "buscarBlocked"
      BY <2>2, <2>3, <2>4
    <2> QED BY <1>1, <2>5 DEF u, g, x, Suelta
  <1> QED BY <1>2, <1>3

LEMMA BuscaGira ==
    ASSUME NEW p, NEW s, Buscando(s, p), Primera(s) = "buscarBlocked"
    PROVE  /\ \A j \in Interfaces :
                LET u == <<Op("sacarBloqueo", p, j), Op("ltsEx", p, Nulo)>> \o Tail(s)
                IN  Buscando(u, p) /\ u # <<>> /\ Head(u) = Op("sacarBloqueo", p, j)
           /\ \A q \in Procesos, j \in Interfaces :
                LET u == (<<Op("reponer", q, j)>> \o RestoDe(s)) \o Tail(s)
                IN  Buscando(u, p) /\ u # <<>> /\ Head(u) = Op("reponer", q, j)
  <1> DEFINE x == Exec(p)
  <1>1. PICK k \in Veces : s = <<OpVeces("buscarBlocked", p, k), Suelta, x>>
    BY DEF Buscando
  <1>2. Head(s) = OpVeces("buscarBlocked", p, k) /\ Tail(s) = <<Suelta, x>>
    BY <1>1
  <1>3. ASSUME NEW j \in Interfaces
        PROVE  LET u == <<Op("sacarBloqueo", p, j), Op("ltsEx", p, Nulo)>> \o Tail(s)
               IN  Buscando(u, p) /\ u # <<>> /\ Head(u) = Op("sacarBloqueo", p, j)
    <2> DEFINE a == Op("sacarBloqueo", p, j)
               b == Op("ltsEx", p, Nulo)
    <2>1. Buscando(<<a, b, Suelta, x>>, p)
      BY FormasConsola
    <2> HIDE DEF a, b, x
    <2>2. <<a, b>> \o Tail(s) = <<a, b, Suelta, x>>
      BY <1>2, JuntarPares
    <2>3. <<a, b, Suelta, x>> # <<>> /\ Head(<<a, b, Suelta, x>>) = a
      OBVIOUS
    <2> QED BY <2>1, <2>2, <2>3 DEF a, b
  <1>4. ASSUME NEW q \in Procesos, NEW j \in Interfaces
        PROVE  LET u == (<<Op("reponer", q, j)>> \o RestoDe(s)) \o Tail(s)
               IN  Buscando(u, p) /\ u # <<>> /\ Head(u) = Op("reponer", q, j)
    <2> DEFINE a == Op("reponer", q, j)
    <2>0. RestoDe(s) = <<>> \/ \E m \in Veces : RestoDe(s) = <<OpVeces("buscarBlocked", p, m)>>
      BY <1>2, RestoCasos
    <2>1. CASE RestoDe(s) = <<>>
      <3>1. Buscando(<<a, Suelta, x>>, p)
        BY FormasConsola
      <3> HIDE DEF a, x
      <3>2. <<a>> \o RestoDe(s) = <<a>>
        BY <2>1, Juntar
      <3>3. <<a>> \o <<Suelta, x>> = <<a, Suelta, x>>
        BY Juntar
      <3>4. (<<a>> \o RestoDe(s)) \o Tail(s) = <<a, Suelta, x>>
        BY <1>2, <3>2, <3>3
      <3>5. <<a, Suelta, x>> # <<>> /\ Head(<<a, Suelta, x>>) = a
        OBVIOUS
      <3> QED BY <3>1, <3>4, <3>5 DEF a
    <2>2. CASE \E m \in Veces : RestoDe(s) = <<OpVeces("buscarBlocked", p, m)>>
      <3>0. PICK m \in Veces : RestoDe(s) = <<OpVeces("buscarBlocked", p, m)>>
        BY <2>2
      <3> DEFINE g == OpVeces("buscarBlocked", p, m)
      <3>1. Buscando(<<a, g, Suelta, x>>, p)
        BY FormasConsola
      <3>6. RestoDe(s) = <<g>>
        BY <3>0
      <3> HIDE DEF a, g, x
      <3>2. <<a>> \o RestoDe(s) = <<a, g>>
        BY <3>6, Juntar
      <3>3. <<a, g>> \o <<Suelta, x>> = <<a, g, Suelta, x>>
        BY JuntarPares
      <3>4. (<<a>> \o RestoDe(s)) \o Tail(s) = <<a, g, Suelta, x>>
        BY <1>2, <3>2, <3>3
      <3>5. <<a, g, Suelta, x>> # <<>> /\ Head(<<a, g, Suelta, x>>) = a
        OBVIOUS
      <3> QED BY <3>1, <3>4, <3>5 DEF a
    <2> QED BY <2>0, <2>1, <2>2
  <1> QED BY <1>3, <1>4

LEMMA SacarBloqueoObs ==
    ASSUME NEW p, NEW s, Buscando(s, p), Primera(s) = "sacarBloqueo"
    PROVE  LET u == <<Op("sacarEspera", p, Head(s).i)>> \o Tail(s)
           IN  Buscando(u, p) /\ u # <<>> /\ Head(u) = Op("sacarEspera", p, Head(s).i)
  <1> DEFINE l == Op("ltsEx", p, Nulo)
             x == Exec(p)
  <1>1. PICK j \in Interfaces : s = <<Op("sacarBloqueo", p, j), l, Suelta, x>>
    BY DEF Buscando
  <1>2. Head(s) = Op("sacarBloqueo", p, j) /\ Tail(s) = <<l, Suelta, x>>
    BY <1>1
  <1>3. Head(s).i = j
    BY <1>2, OpCampos
  <1> DEFINE e == Op("sacarEspera", p, j)
  <1>4. Buscando(<<e, l, Suelta, x>>, p)
    BY FormasConsola
  <1> HIDE DEF l, x, e
  <1>7. <<e>> \o <<l, Suelta, x>> = <<e, l, Suelta, x>>
    BY Juntar
  <1>5. <<e>> \o Tail(s) = <<e, l, Suelta, x>>
    BY <1>2, <1>7
  <1>6. <<e, l, Suelta, x>> # <<>> /\ Head(<<e, l, Suelta, x>>) = e
    OBVIOUS
  <1> QED BY <1>3, <1>4, <1>5, <1>6 DEF e

\* modificar_multiprogramacion.
LEMMA BajadaObs ==
    ASSUME NEW s \in Seq({Bajada}), s # <<>>
    PROVE  /\ Primera(s) = "bajarGrado" /\ GuionConsola(s) /\ GuionConsola(Tail(s))
           /\ <<>> \o Tail(s) = Tail(s)
           /\ Tail(s) # <<>> => Primera(Tail(s)) = "bajarGrado"
  <1>1. \A u \in Seq({Bajada}) : u # <<>> => Head(u) = Bajada
    OBVIOUS
  <1>2. \A u \in Seq({Bajada}) : u # <<>> => Primera(u) = "bajarGrado"
    BY <1>1, ConsolaCampos DEF Primera
  <1>3. Tail(s) \in Seq({Bajada}) /\ <<>> \o Tail(s) = Tail(s)
    OBVIOUS
  <1> QED BY <1>2, <1>3 DEF GuionConsola

-----------------------------------------------------------------------------
(* What each operation does to what its thread has left.                   *)

SoloCambia(h) == \A g \in Hilos \ {h} : tareas'[g] = tareas[g]
Portan == {"cargarReady", "ltsEx", "tomar", "bloquear", "atender", "mirar", "ocupar", "encolar"}
Porta(s, p) == s # <<>> /\ Primera(s) \in Portan /\ Head(s).p = p
EnHilo(p, h) == IF h \in Interfaces THEN Lleva(tareas[h], p) ELSE Porta(tareas[h], p)
Mantiene(s, u) == Fase(u) = Fase(s) /\ (Posee(u) <=> Posee(s))

LEMMA Distintos ==
    /\ Interfaces \subseteq Hilos /\ Nulo \notin Interfaces /\ Nulo \notin Hilos /\ Nulo \notin Procesos
    /\ \A i \in Interfaces : /\ i # "dispatch" /\ i # "planificador" /\ i # "memoria" /\ i # "consola"
                             /\ i # "ready" /\ i # "blocked"
    /\ "dispatch" \in Hilos /\ "planificador" \in Hilos /\ "memoria" \in Hilos /\ "consola" \in Hilos
    /\ \A h \in Hilos : h \in Interfaces \/ h \in {"dispatch", "planificador", "memoria", "consola"}
  BY InterfacesAssumption DEF Hilos

LEMMA CambiaGuion ==
    ASSUME Guiones, NEW h \in Hilos, NEW u, tareas' = [tareas EXCEPT ![h] = u],
           h \in Interfaces => GuionInterfaz(h, u), h = "dispatch" => GuionDispatch(u),
           h = "memoria" => GuionMemoria(u), h = "planificador" => GuionPlanificador(u),
           h = "consola" => GuionConsola(u)
    PROVE  Guiones' /\ tareas'[h] = u /\ SoloCambia(h)
  <1>1. /\ DOMAIN tareas' = Hilos /\ tareas'[h] = u /\ \A g \in Hilos \ {h} : tareas'[g] = tareas[g]
    BY DEF Guiones
  <1>2. \A i \in Interfaces : GuionInterfaz(i, tareas'[i])
    BY <1>1, Distintos DEF Guiones
  <1>3. /\ GuionDispatch(tareas'["dispatch"]) /\ GuionMemoria(tareas'["memoria"])
        /\ GuionPlanificador(tareas'["planificador"]) /\ GuionConsola(tareas'["consola"])
    BY <1>1, Distintos DEF Guiones
  <1> QED BY <1>1, <1>2, <1>3 DEF Guiones, SoloCambia

\* Nothing left.
LEMMA NadaObs ==
    /\ \A i : GuionInterfaz(i, <<>>)
    /\ GuionDispatch(<<>>) /\ GuionMemoria(<<>>) /\ GuionPlanificador(<<>>) /\ GuionConsola(<<>>)
    /\ Fase(<<>>) = "nada" /\ ~ Posee(<<>>) /\ \A p : ~ Lleva(<<>>, p) /\ ~ Porta(<<>>, p)
  BY DEF GuionInterfaz, GuionDispatch, GuionMemoria, GuionPlanificador, GuionConsola, Fase, Posee, Lleva, Porta

\* Which operations each thread has.
LEMMA QuienPuede ==
    ASSUME Guiones, NEW h \in Hilos, tareas[h] # <<>>
    PROVE  /\ h \in Interfaces => Primera(tareas[h]) \in OpsSolas \cup {"tomar"} \cup OpsBorrar
           /\ h = "dispatch" => Primera(tareas[h]) \in OpsDispatch
           /\ h = "memoria" => Primera(tareas[h]) = "cargarReady"
           /\ h = "planificador" => Primera(tareas[h]) = "sacarReady"
           /\ h = "consola" => Primera(tareas[h]) \in OpsBuscar \cup {"bajarGrado"}
  <1>1. ASSUME h \in Interfaces PROVE Primera(tareas[h]) \in OpsSolas \cup {"tomar"} \cup OpsBorrar
    BY <1>1 DEF Guiones, GuionInterfaz, Borrando
  <1>2. ASSUME h = "dispatch" PROVE Primera(tareas[h]) \in OpsDispatch
    <2>1. PICK p \in Procesos : tareas[h] = <<Op("ltsEx", p, Nulo)>> \/ \E i \in Interfaces : DeDispatch(tareas[h], p, i)
      BY <1>2 DEF Guiones, GuionDispatch
    <2>2. CASE tareas[h] = <<Op("ltsEx", p, Nulo)>>
      BY <2>2, OpCampos DEF Primera, OpsDispatch
    <2>3. CASE \E i \in Interfaces : DeDispatch(tareas[h], p, i)
      BY <2>3 DEF DeDispatch
    <2> QED BY <2>1, <2>2, <2>3
  <1>3. ASSUME h = "memoria" PROVE Primera(tareas[h]) = "cargarReady"
    <2>1. PICK p \in Procesos : tareas[h] = <<Op("cargarReady", p, Nulo)>>
      BY <1>3 DEF Guiones, GuionMemoria
    <2> QED BY <2>1, OpCampos DEF Primera
  <1>4. ASSUME h = "planificador" PROVE Primera(tareas[h]) = "sacarReady"
    <2>1. tareas[h] = <<Op("sacarReady", Nulo, Nulo)>>
      BY <1>4 DEF Guiones, GuionPlanificador
    <2> QED BY <2>1, OpCampos DEF Primera
  <1>5. ASSUME h = "consola" PROVE Primera(tareas[h]) \in OpsBuscar \cup {"bajarGrado"}
    BY <1>5 DEF Guiones, GuionConsola, Buscando
  <1> QED BY <1>1, <1>2, <1>3, <1>4, <1>5

\* What an interface's thread that deletes carries.
LEMMA Borrador ==
    ASSUME Guiones, NEW i \in Interfaces, tareas[i] # <<>>, Primera(tareas[i]) \in OpsBorrar
    PROVE  \E p \in Procesos, fin \in Finales :
              /\ Borrando(tareas[i], i, p, fin) /\ Fase(tareas[i]) = fin /\ Posee(tareas[i])
              /\ \A q : Lleva(tareas[i], q) <=> q = p
  <1>1. PICK p \in Procesos, fin \in Finales : Borrando(tareas[i], i, p, fin)
    BY DEF Guiones, GuionInterfaz, OpsSolas, OpsBorrar
  <1> QED BY <1>1, BorrandoObs

PasaDispatch(s, p, i) ==
    /\ DeDispatch(s, p, i) /\ TrasDispatch(s, p, i) /\ GuionDispatch(Tail(s))
    /\ Primera(s) # "ltsEx" => i \in Interfaces

LEMMA EnDispatch ==
    ASSUME Guiones, tareas["dispatch"] # <<>>
    PROVE  \E p \in Procesos : \E i \in Interfaces \cup {Nulo} : PasaDispatch(tareas["dispatch"], p, i)
  <1> DEFINE s == tareas["dispatch"]
  <1>1. PICK p \in Procesos : s = <<Op("ltsEx", p, Nulo)>> \/ \E i \in Interfaces : DeDispatch(s, p, i)
    BY DEF Guiones, GuionDispatch
  <1>2. CASE s = <<Op("ltsEx", p, Nulo)>>
    <2>1. Head(s) = Op("ltsEx", p, Nulo) /\ Tail(s) = <<>>
      BY <1>2
    <2>2. DeDispatch(s, p, Nulo)
      BY <1>2, FormasDispatch
    <2>4. TrasDispatch(s, p, Nulo) /\ GuionDispatch(Tail(s))
      BY <2>1, <2>2, DispatchObs, NadaObs
    <2>5. Primera(s) = "ltsEx"
      BY <2>1, OpCampos DEF Primera
    <2>3. PasaDispatch(s, p, Nulo)
      BY <2>2, <2>4, <2>5 DEF PasaDispatch
    <2> QED BY <2>3
  <1>3. CASE \E i \in Interfaces : DeDispatch(s, p, i)
    <2>1. PICK i \in Interfaces : DeDispatch(s, p, i)
      BY <1>3
    <2>2. TrasDispatch(s, p, i)
      BY <2>1, DispatchObs
    <2>3. GuionDispatch(Tail(s))
      BY <2>2 DEF GuionDispatch, TrasDispatch
    <2>4. PasaDispatch(s, p, i)
      BY <2>1, <2>2, <2>3 DEF PasaDispatch
    <2> QED BY <2>4
  <1> QED BY <1>1, <1>2, <1>3

LEMMA EnConsola ==
    ASSUME Guiones, tareas["consola"] # <<>>
    PROVE  \/ Primera(tareas["consola"]) = "bajarGrado" /\ tareas["consola"] \in Seq({Bajada})
           \/ /\ Primera(tareas["consola"]) # "bajarGrado"
              /\ \E p : /\ Buscado(tareas["consola"], p) /\ Buscando(tareas["consola"], p)
                       /\ TrasBuscar(tareas["consola"], p)
  <1>1. \A p : Buscando(tareas["consola"], p) => Primera(tareas["consola"]) # "bajarGrado"
    BY DEF Buscando, OpsBuscar
  <1> QED BY <1>1, BuscandoObs DEF Guiones, GuionConsola

\* What is left of the search is for the same process.
LEMMA BuscadoTail ==
    ASSUME NEW p, NEW s, Buscado(s, p), TrasBuscar(s, p), Tail(s) # <<>>
    PROVE  Buscado(Tail(s), p)
  <1>1. p = Nulo /\ Primera(s) \in OpsListar => Primera(Tail(s)) \in OpsListar
    BY DEF TrasBuscar, Buscando, OpsBuscar, OpsListar, Sacar
  <1> QED BY <1>1 DEF Buscado
-----------------------------------------------------------------------------
(* The threads of the interfaces.                                          *)

SigueBorrando(i) ==
    /\ Guiones' /\ SoloCambia(i) /\ tareas[i] # <<>> /\ tareas'[i] # <<>>
    /\ Mantiene(tareas[i], tareas'[i]) /\ Fase(tareas[i]) \in Finales /\ Posee(tareas[i])

LEMMA PasoGirar ==
    ASSUME Guiones, colas.blocked \in Seq(Entrada), NEW h \in Hilos, Girar(h), Vive'
    PROVE  /\ h \in Interfaces /\ SigueBorrando(h)
           /\ \A q : EnHilo(q, h)' <=> EnHilo(q, h)
           /\ EnHilo(Arg(h), h) /\ Arg(h) \in Procesos
           /\ colas.blocked # <<>> /\ colas' = [colas EXCEPT !.blocked = Tail(@)]
           /\ Head(colas.blocked).p # Arg(h) =>
                 Head(tareas'[h]) = Op("reponer", Head(colas.blocked).p, Head(colas.blocked).i)
  <1> DEFINE s == tareas[h]
             e == Head(colas.blocked)
             g == IF e.p = Arg(h) THEN Resto(h) ELSE <<Op("reponer", e.p, e.i)>> \o Resto(h)
             u == g \o Tail(s)
  <1>1. s # <<>> /\ Primera(s) = "girar"
    BY DEF Girar, En, Primera
  <1>2. h \in Interfaces
    BY <1>1, QuienPuede, Distintos DEF OpsDispatch, OpsBuscar
  <1>3. PICK p \in Procesos, fin \in Finales :
              /\ Borrando(s, h, p, fin) /\ Fase(s) = fin /\ Posee(s)
              /\ \A q : Lleva(s, q) <=> q = p
    BY <1>1, <1>2, Borrador DEF OpsBorrar
  <1>0. p \in Procesos /\ fin \in Finales /\ Borrando(s, h, p, fin) /\ s # <<>> /\ Primera(s) = "girar"
    BY <1>1, <1>3
  <1> HIDE DEF s
  <1>4. /\ Head(s).p = p
        /\ Borrando(RestoDe(s) \o Tail(s), h, p, fin) /\ RestoDe(s) \o Tail(s) # <<>>
    BY ONLY <1>0, BorrandoGira
  <1>15. ASSUME NEW q \in Procesos, NEW j \in Interfaces
         PROVE  /\ Borrando((<<Op("reponer", q, j)>> \o RestoDe(s)) \o Tail(s), h, p, fin)
                /\ (<<Op("reponer", q, j)>> \o RestoDe(s)) \o Tail(s) # <<>>
                /\ Head((<<Op("reponer", q, j)>> \o RestoDe(s)) \o Tail(s)) = Op("reponer", q, j)
    BY ONLY <1>0, <1>15, BorrandoGira
  <1> USE DEF s
  <1>5. Resto(h) = RestoDe(s) /\ Arg(h) = p
    BY <1>4 DEF Resto, RestoDe, Arg
  <1>6. colas.blocked # <<>>
    BY DEF Girar, Girando, Quiebra, Vive
  <1>7. tareas' = [tareas EXCEPT ![h] = u] /\ colas' = [colas EXCEPT !.blocked = Tail(@)]
    BY <1>6 DEF Girar, Girando, Sigue
  <1>8. e \in Entrada
    BY <1>6
  <1>9. e.p \in Procesos /\ e.i \in Interfaces
    BY <1>8 DEF Entrada
  <1>10. /\ Borrando(u, h, p, fin) /\ u # <<>>
         /\ e.p # Arg(h) => Head(u) = Op("reponer", e.p, e.i)
    BY <1>4, <1>5, <1>9, <1>15
  <1> HIDE DEF u, e
  <1>11. /\ GuionInterfaz(h, u) /\ Fase(u) = fin /\ Posee(u) /\ \A q : Lleva(u, q) <=> q = p
    BY <1>10, BorrandoObs
  <1>12. Guiones' /\ tareas'[h] = u /\ SoloCambia(h)
    BY <1>2, <1>7, <1>11, CambiaGuion, Distintos
  <1>13. SigueBorrando(h)
    BY <1>1, <1>3, <1>10, <1>11, <1>12 DEF SigueBorrando, Mantiene
  <1>14. \A q : Lleva(tareas'[h], q) <=> Lleva(tareas[h], q)
    BY <1>3, <1>11, <1>12
  <1> QED BY <1>2, <1>3, <1>5, <1>6, <1>7, <1>10, <1>12, <1>13, <1>14 DEF e, EnHilo

\* The dispatch receiver, and the console in buscar_pcb, go on with the rest.
SigueDispatch ==
    /\ Guiones' /\ SoloCambia("dispatch") /\ tareas["dispatch"] # <<>>
    /\ tareas'["dispatch"] = Tail(tareas["dispatch"])
    /\ \E p \in Procesos : \E i \in Interfaces \cup {Nulo} : PasaDispatch(tareas["dispatch"], p, i)

LEMMA PasoDispatch ==
    ASSUME Guiones, tareas["dispatch"] # <<>>, Sigue("dispatch", <<>>)
    PROVE  SigueDispatch
  <1> DEFINE d == tareas["dispatch"]
  <1>1. PICK p \in Procesos : \E i \in Interfaces \cup {Nulo} : PasaDispatch(d, p, i)
    BY EnDispatch
  <1>2. PICK i \in Interfaces \cup {Nulo} : PasaDispatch(d, p, i)
    BY <1>1
  <1>3. tareas' = [tareas EXCEPT !["dispatch"] = Tail(d)]
    BY <1>2 DEF Sigue, PasaDispatch, TrasDispatch
  <1>4. Guiones' /\ tareas'["dispatch"] = Tail(d) /\ SoloCambia("dispatch")
    BY <1>2, <1>3, CambiaGuion, Distintos DEF PasaDispatch
  <1> QED BY <1>1, <1>4 DEF SigueDispatch

SigueConsola ==
    /\ Guiones' /\ SoloCambia("consola") /\ tareas["consola"] # <<>>
    /\ tareas'["consola"] = Tail(tareas["consola"])
    /\ Primera(tareas["consola"]) # "bajarGrado" =>
          \E p : /\ Buscado(tareas["consola"], p) /\ Buscando(tareas["consola"], p)
                 /\ TrasBuscar(tareas["consola"], p)
    /\ Primera(tareas["consola"]) = "bajarGrado" /\ Tail(tareas["consola"]) # <<>> =>
          Primera(Tail(tareas["consola"])) = "bajarGrado"

LEMMA PasoConsola ==
    ASSUME Guiones, tareas["consola"] # <<>>, Sigue("consola", <<>>)
    PROVE  SigueConsola
  <1> DEFINE s == tareas["consola"]
  <1>1. CASE Primera(s) = "bajarGrado" /\ s \in Seq({Bajada})
    <2>1. /\ GuionConsola(Tail(s)) /\ <<>> \o Tail(s) = Tail(s)
          /\ Tail(s) # <<>> => Primera(Tail(s)) = "bajarGrado"
      BY <1>1, BajadaObs
    <2>2. tareas' = [tareas EXCEPT !["consola"] = Tail(s)]
      BY <2>1 DEF Sigue
    <2>3. Guiones' /\ tareas'["consola"] = Tail(s) /\ SoloCambia("consola")
      BY <2>1, <2>2, CambiaGuion, Distintos
    <2> QED BY <1>1, <2>1, <2>3 DEF SigueConsola
  <1>2. CASE /\ Primera(s) # "bajarGrado"
             /\ \E p : Buscado(s, p) /\ Buscando(s, p) /\ TrasBuscar(s, p)
    <2>1. PICK p : Buscado(s, p) /\ Buscando(s, p) /\ TrasBuscar(s, p)
      BY <1>2
    <2>2. tareas' = [tareas EXCEPT !["consola"] = Tail(s)]
      BY <2>1 DEF Sigue, TrasBuscar
    <2>5. Tail(s) # <<>> => Buscando(Tail(s), p) /\ Buscado(Tail(s), p)
      BY <2>1, BuscadoTail DEF TrasBuscar
    <2>3. GuionConsola(Tail(s))
      BY <2>5 DEF GuionConsola
    <2>4. Guiones' /\ tareas'["consola"] = Tail(s) /\ SoloCambia("consola")
      BY <2>2, <2>3, CambiaGuion, Distintos
    <2> QED BY <1>2, <2>1, <2>4 DEF SigueConsola
  <1> QED BY <1>1, <1>2, EnConsola

LEMMA PasoReponer ==
    ASSUME Guiones, NEW h \in Hilos, Reponer(h)
    PROVE  /\ Guiones' /\ SoloCambia(h) /\ Arg(h) \in Procesos /\ ArgI(h) \in Interfaces
           /\ \A q : EnHilo(q, h)' <=> EnHilo(q, h)
           /\ h \in Interfaces => SigueBorrando(h)
           /\ h \in Interfaces \cup {"consola"}
  <1> DEFINE s == tareas[h]
  <1>1. s # <<>> /\ Primera(s) = "reponer" /\ Sigue(h, <<>>) /\ Arg(h) = Head(s).p /\ ArgI(h) = Head(s).i
    BY DEF Reponer, En, Primera, Arg, ArgI
  <1>2. h \in Interfaces \/ h = "consola"
    BY <1>1, QuienPuede, Distintos DEF OpsDispatch
  <1>3. CASE h \in Interfaces
    <2>1. PICK p \in Procesos, fin \in Finales :
                /\ Borrando(s, h, p, fin) /\ Fase(s) = fin /\ Posee(s)
                /\ \A q : Lleva(s, q) <=> q = p
      BY <1>1, <1>3, Borrador DEF OpsBorrar
    <2>2. /\ Head(s).p \in Procesos /\ Head(s).i \in Interfaces
          /\ Borrando(Tail(s), h, p, fin) /\ Tail(s) # <<>> /\ <<>> \o Tail(s) = Tail(s)
      BY <1>1, <2>1, BorrandoRepone
    <2>3. tareas' = [tareas EXCEPT ![h] = Tail(s)]
      BY <1>1, <2>2 DEF Sigue
    <2>4. /\ GuionInterfaz(h, Tail(s)) /\ Fase(Tail(s)) = fin /\ Posee(Tail(s))
          /\ \A q : Lleva(Tail(s), q) <=> q = p
      BY <2>2, BorrandoObs
    <2>5. Guiones' /\ tareas'[h] = Tail(s) /\ SoloCambia(h)
      BY <1>3, <2>3, <2>4, CambiaGuion, Distintos
    <2>6. SigueBorrando(h)
      BY <1>1, <2>1, <2>2, <2>4, <2>5 DEF SigueBorrando, Mantiene
    <2>7. \A q : EnHilo(q, h)' <=> EnHilo(q, h)
      BY <1>3, <2>1, <2>4, <2>5 DEF EnHilo
    <2> QED BY <1>1, <1>3, <2>2, <2>5, <2>6, <2>7
  <1>4. CASE h = "consola"
    <2>1. SigueConsola
      BY <1>1, <1>4, PasoConsola
    <2>2. PICK p : Buscado(s, p) /\ Buscando(s, p) /\ TrasBuscar(s, p)
      BY <1>1, <1>4, <2>1 DEF SigueConsola
    <2>8. tareas'[h] = Tail(s)
      BY <1>4, <2>1 DEF SigueConsola
    <2>9. Tail(s) # <<>> => Primera(Tail(s)) # "ltsEx" /\ Buscando(Tail(s), p)
      BY <1>1, <2>2 DEF TrasBuscar, Sacar
    <2>3. tareas'[h] = Tail(s) /\ (Tail(s) # <<>> => Primera(Tail(s)) # "ltsEx" /\ Buscando(Tail(s), p))
      BY <2>8, <2>9
    <2>4. \A q : ~ Porta(tareas'[h], q)
      BY <2>3 DEF Porta, Portan, Buscando, OpsBuscar
    <2>5. \A q : ~ Porta(s, q)
      BY <1>1 DEF Porta, Portan
    <2>6. \A q : EnHilo(q, h)' <=> EnHilo(q, h)
      BY <1>4, <2>4, <2>5, Distintos DEF EnHilo
    <2> QED BY <1>1, <1>4, <2>1, <2>2, <2>6, Distintos DEF SigueConsola, TrasBuscar
  <1> QED BY <1>2, <1>3, <1>4

-----------------------------------------------------------------------------
\* A process leaves its thread: cargar_ready and lts_ex.
LEMMA BorradorEntrega ==
    ASSUME Guiones, NEW i \in Interfaces, tareas[i] # <<>>,
           Primera(tareas[i]) \in {"cargarReady", "ltsEx"}, Sigue(i, <<>>)
    PROVE  /\ SigueBorrando(i) /\ Arg(i) \in Procesos /\ EnHilo(Arg(i), i) /\ \A q : ~ EnHilo(q, i)'
           /\ Fase(tareas[i]) = "liberar" <=> Primera(tareas[i]) = "cargarReady"
  <1> DEFINE s == tareas[i]
  <1>1. PICK p \in Procesos, fin \in Finales :
              /\ Borrando(s, i, p, fin) /\ Fase(s) = fin /\ Posee(s)
              /\ \A q : Lleva(s, q) <=> q = p
    BY Borrador DEF OpsBorrar
  <1>2. /\ Head(s).p = p /\ Tail(s) = <<Op(fin, Nulo, i)>> /\ <<>> \o Tail(s) = Tail(s)
        /\ Primera(s) = "cargarReady" <=> fin = "liberar"
    BY <1>1, BorrandoFin
  <1>3. fin \in OpsSolas
    BY <1>1 DEF Finales, OpsSolas
  <1> DEFINE u == <<Op(fin, Nulo, i)>>
  <1>4. /\ GuionInterfaz(i, u) /\ Fase(u) = fin /\ Posee(u) /\ u # <<>> /\ \A q : ~ Lleva(u, q)
    BY <1>3, SolaObs
  <1>5. tareas' = [tareas EXCEPT ![i] = u]
    BY <1>2 DEF Sigue
  <1> HIDE DEF u
  <1>6. Guiones' /\ tareas'[i] = u /\ SoloCambia(i)
    BY <1>4, <1>5, CambiaGuion, Distintos
  <1>7. SigueBorrando(i)
    BY <1>1, <1>4, <1>6 DEF SigueBorrando, Mantiene
  <1>8. Arg(i) = p
    BY <1>2 DEF Arg
  <1>9. EnHilo(Arg(i), i) /\ \A q : ~ EnHilo(q, i)'
    BY <1>1, <1>4, <1>6, <1>8 DEF EnHilo
  <1> QED BY <1>1, <1>2, <1>7, <1>8, <1>9

LEMMA PasoCargarReady ==
    ASSUME Guiones, NEW h \in Hilos, CargarReady(h)
    PROVE  /\ Guiones' /\ SoloCambia(h) /\ Arg(h) \in Procesos /\ EnHilo(Arg(h), h)
           /\ \A q : ~ EnHilo(q, h)'
           /\ h \in Interfaces => SigueBorrando(h) /\ Fase(tareas[h]) = "liberar"
           /\ h \in Interfaces \cup {"memoria"} /\ tareas[h] # <<>> /\ Primera(tareas[h]) = "cargarReady"
  <1> DEFINE s == tareas[h]
  <1>1. s # <<>> /\ Primera(s) = "cargarReady" /\ Sigue(h, <<>>) /\ Arg(h) = Head(s).p
    BY DEF CargarReady, En, Primera, Arg
  <1>2. h \in Interfaces \/ h = "memoria"
    BY <1>1, QuienPuede, Distintos DEF OpsDispatch, OpsBuscar
  <1>3. CASE h \in Interfaces
    BY <1>1, <1>3, BorradorEntrega DEF SigueBorrando
  <1>4. CASE h = "memoria"
    <2>1. PICK p \in Procesos : s = <<Op("cargarReady", p, Nulo)>>
      BY <1>1, <1>4 DEF Guiones, GuionMemoria
    <2>2. Head(s) = Op("cargarReady", p, Nulo) /\ Tail(s) = <<>> /\ <<>> \o Tail(s) = <<>>
      BY <2>1
    <2>3. tareas' = [tareas EXCEPT ![h] = <<>>]
      BY <1>1, <2>2 DEF Sigue
    <2>4. Guiones' /\ tareas'[h] = <<>> /\ SoloCambia(h)
      BY <1>4, <2>3, CambiaGuion, NadaObs, Distintos
    <2>5. Arg(h) = p
      BY <1>1, <2>2, OpCampos
    <2>6. EnHilo(Arg(h), h)
      BY <1>1, <1>4, <2>5, Distintos DEF EnHilo, Porta, Portan
    <2>7. \A q : ~ EnHilo(q, h)'
      BY <1>4, <2>4, NadaObs, Distintos DEF EnHilo
    <2> QED BY <1>1, <1>4, <2>4, <2>5, <2>6, <2>7, Distintos
  <1> QED BY <1>2, <1>3, <1>4

LEMMA PasoLtsEx ==
    ASSUME Guiones, NEW h \in Hilos, LtsEx(h)
    PROVE  /\ Guiones' /\ SoloCambia(h) /\ Arg(h) \in Procesos /\ EnHilo(Arg(h), h)
           /\ \A q : ~ EnHilo(q, h)'
           /\ h \in Interfaces => SigueBorrando(h) /\ Fase(tareas[h]) = "vaciar"
           /\ h = "dispatch" => SigueDispatch
           /\ h \in Interfaces \cup {"dispatch", "consola"} /\ tareas[h] # <<>> /\ Primera(tareas[h]) = "ltsEx"
  <1> DEFINE s == tareas[h]
  <1>1. s # <<>> /\ Primera(s) = "ltsEx" /\ Sigue(h, <<>>) /\ Arg(h) = Head(s).p
    BY DEF LtsEx, En, Primera, Arg
  <1>2. h \in Interfaces \/ h = "dispatch" \/ h = "consola"
    BY <1>1, QuienPuede, Distintos
  <1>3. CASE h \in Interfaces
    <2>1. Fase(s) \in Finales /\ Fase(s) # "liberar" => Fase(s) = "vaciar"
      BY DEF Finales
    <2> QED BY <1>1, <1>3, <2>1, BorradorEntrega, Distintos DEF SigueBorrando
  <1>4. CASE h = "dispatch"
    <2>1. SigueDispatch
      BY <1>1, <1>4, PasoDispatch
    <2>9. PICK p \in Procesos : \E i \in Interfaces \cup {Nulo} : PasaDispatch(s, p, i)
      BY <1>4, <2>1 DEF SigueDispatch
    <2>10. PICK i \in Interfaces \cup {Nulo} : PasaDispatch(s, p, i)
      BY <2>9
    <2>2. DeDispatch(s, p, i) /\ TrasDispatch(s, p, i) /\ (Primera(s) # "ltsEx" => i \in Interfaces)
      BY <2>10 DEF PasaDispatch
    <2>3. Arg(h) = p
      BY <1>1, <2>2 DEF TrasDispatch
    <2>4. EnHilo(Arg(h), h)
      BY <1>1, <1>4, <2>3, Distintos DEF EnHilo, Porta, Portan
    <2>5. Tail(s) = <<>> \/ Primera(Tail(s)) \in {"soltar", "pasar"}
      BY <1>1, <2>2 DEF TrasDispatch
    <2>6. tareas'[h] = Tail(s) /\ Guiones' /\ SoloCambia(h)
      BY <1>4, <2>1 DEF SigueDispatch
    <2>7. \A q : ~ Porta(Tail(s), q)
      BY <2>5 DEF Porta, Portan
    <2>8. \A q : ~ EnHilo(q, h)'
      BY <1>4, <2>6, <2>7, Distintos DEF EnHilo
    <2> QED BY <1>1, <1>4, <2>1, <2>3, <2>4, <2>6, <2>8, Distintos
  <1>5. CASE h = "consola"
    <2>1. SigueConsola
      BY <1>1, <1>5, PasoConsola
    <2>2. PICK p : Buscado(s, p) /\ Buscando(s, p) /\ TrasBuscar(s, p)
      BY <1>1, <1>5, <2>1 DEF SigueConsola
    <2>3. Arg(h) = p /\ p \in Procesos
      BY <1>1, <2>2 DEF TrasBuscar, Buscado, OpsListar
    <2>4. EnHilo(Arg(h), h)
      BY <1>1, <1>5, <2>3, Distintos DEF EnHilo, Porta, Portan
    <2>5. Tail(s) # <<>> => Primera(Tail(s)) # "ltsEx" /\ Buscando(Tail(s), p)
      BY <1>1, <2>2 DEF TrasBuscar, Sacar
    <2>6. tareas'[h] = Tail(s) /\ Guiones' /\ SoloCambia(h)
      BY <1>5, <2>1 DEF SigueConsola
    <2>7. \A q : ~ Porta(Tail(s), q)
      BY <2>5 DEF Porta, Portan, Buscando, OpsBuscar
    <2>8. \A q : ~ EnHilo(q, h)'
      BY <1>5, <2>6, <2>7, Distintos DEF EnHilo
    <2> QED BY <1>1, <1>5, <2>3, <2>4, <2>6, <2>8, Distintos
  <1> QED BY <1>2, <1>3, <1>4, <1>5

\* pthread_mutex_lock of mutex_interfaz.
LEMMA PasoTomar ==
    ASSUME Guiones, NEW h \in Hilos, Tomar(h)
    PROVE  /\ Guiones' /\ SoloCambia(h) /\ ArgI(h) \in Interfaces
           /\ \A q : EnHilo(q, h)' <=> EnHilo(q, h)
           /\ h \in Interfaces => /\ ArgI(h) = h /\ Fase(tareas[h]) = "vaciar" /\ Fase(tareas'[h]) = "vaciar"
                                  /\ ~ Posee(tareas[h]) /\ Posee(tareas'[h])
           /\ h = "dispatch" => SigueDispatch
           /\ h \in Interfaces \cup {"dispatch"} /\ tareas[h] # <<>> /\ Primera(tareas[h]) = "tomar"
  <1> DEFINE s == tareas[h]
  <1>1. s # <<>> /\ Primera(s) = "tomar" /\ Sigue(h, <<>>) /\ ArgI(h) = Head(s).i
    BY DEF Tomar, En, Primera, ArgI
  <1>2. h \in Interfaces \/ h = "dispatch"
    BY <1>1, QuienPuede, Distintos DEF OpsBuscar
  <1>3. CASE h \in Interfaces
    <2>1. s = <<Op("tomar", Nulo, h), Op("vaciar", Nulo, h)>>
      BY <1>1, <1>3 DEF Guiones, GuionInterfaz, OpsSolas, Borrando, OpsBorrar
    <2>2. Head(s) = Op("tomar", Nulo, h) /\ Tail(s) = <<Op("vaciar", Nulo, h)>> /\ <<>> \o Tail(s) = Tail(s)
      BY <2>1
    <2>3. /\ Fase(s) = "vaciar" /\ ~ Posee(s) /\ \A q : ~ Lleva(s, q)
      BY <2>1, TomarObs
    <2> DEFINE u == <<Op("vaciar", Nulo, h)>>
    <2>4. /\ GuionInterfaz(h, u) /\ Fase(u) = "vaciar" /\ Posee(u) /\ u # <<>> /\ \A q : ~ Lleva(u, q)
      BY SolaObs DEF OpsSolas
    <2>5. tareas' = [tareas EXCEPT ![h] = u]
      BY <1>1, <2>2 DEF Sigue
    <2> HIDE DEF u
    <2>6. Guiones' /\ tareas'[h] = u /\ SoloCambia(h)
      BY <1>3, <2>4, <2>5, CambiaGuion, Distintos
    <2>7. \A q : EnHilo(q, h)' <=> EnHilo(q, h)
      BY <1>3, <2>3, <2>4, <2>6 DEF EnHilo
    <2>8. ArgI(h) = h
      BY <1>1, <2>2, OpCampos
    <2> QED BY <1>1, <1>3, <2>3, <2>4, <2>6, <2>7, <2>8, Distintos
  <1>4. CASE h = "dispatch"
    <2>1. SigueDispatch
      BY <1>1, <1>4, PasoDispatch
    <2>9. PICK p \in Procesos : \E i \in Interfaces \cup {Nulo} : PasaDispatch(s, p, i)
      BY <1>4, <2>1 DEF SigueDispatch
    <2>10. PICK i \in Interfaces \cup {Nulo} : PasaDispatch(s, p, i)
      BY <2>9
    <2>2. DeDispatch(s, p, i) /\ TrasDispatch(s, p, i) /\ (Primera(s) # "ltsEx" => i \in Interfaces)
      BY <2>10 DEF PasaDispatch
    <2>3. /\ Head(s).p = p /\ Head(s).i = i /\ Tail(s) # <<>> /\ Primera(Tail(s)) \in {"ltsEx", "bloquear"}
          /\ DeDispatch(Tail(s), p, i)
      BY <1>1, <2>2 DEF TrasDispatch
    <2>5. TrasDispatch(Tail(s), p, i)
      BY <2>3, DispatchObs
    <2>4. Head(Tail(s)).p = p
      BY <2>5 DEF TrasDispatch
    <2>6. tareas'[h] = Tail(s) /\ Guiones' /\ SoloCambia(h)
      BY <1>4, <2>1 DEF SigueDispatch
    <2>7. \A q : Porta(Tail(s), q) <=> Porta(s, q)
      BY <1>1, <2>3, <2>4 DEF Porta, Portan
    <2>8. \A q : EnHilo(q, h)' <=> EnHilo(q, h)
      BY <1>4, <2>6, <2>7, Distintos DEF EnHilo
    <2> QED BY <1>1, <1>4, <2>1, <2>2, <2>3, <2>6, <2>8, Distintos
  <1> QED BY <1>2, <1>3, <1>4

-----------------------------------------------------------------------------
\* The steps of an interface's thread that no other thread has.
LEMMA SolaPasa ==
    ASSUME Guiones, NEW i \in Interfaces, tareas[i] # <<>>, Primera(tareas[i]) \in OpsSolas
    PROVE  /\ Fase(tareas[i]) = Primera(tareas[i]) /\ Posee(tareas[i]) /\ Tail(tareas[i]) = <<>>
           /\ \A q : ~ EnHilo(q, i)
  <1>1. tareas[i] = <<Op(Primera(tareas[i]), Nulo, i)>>
    BY DEF Guiones, GuionInterfaz, OpsSolas, Borrando, OpsBorrar
  <1> DEFINE n == Primera(tareas[i])
  <1> HIDE DEF n
  <1>2. tareas[i] = <<Op(n, Nulo, i)>> /\ n \in OpsSolas
    BY <1>1 DEF n
  <1>3. Fase(tareas[i]) = n /\ Posee(tareas[i]) /\ \A q : ~ Lleva(tareas[i], q)
    BY <1>2, SolaObs
  <1>4. Tail(tareas[i]) = <<>>
    BY <1>2
  <1> QED BY <1>3, <1>4 DEF n, EnHilo

LEMMA PasoDesocupar ==
    ASSUME Guiones, colas.blocked \in Seq(Entrada), NEW i \in Interfaces, DesocuparIO(i), Vive'
    PROVE  /\ Guiones' /\ SoloCambia(i) /\ tareas[i] = <<>> /\ io[i].usando \in Procesos
           /\ dueno' = [dueno EXCEPT ![i] = i]
           /\ Fase(tareas'[i]) = "liberar" /\ Posee(tareas'[i])
           /\ \A q : EnHilo(q, i)' <=> q = io[i].usando
  <1>1. tareas[i] = <<>>
    BY DEF DesocuparIO, Libre
  <1> DEFINE p == io[i].usando
  <1>2. p \in Procesos /\ dueno' = [dueno EXCEPT ![i] = i]
    BY DEF DesocuparIO, Quiebra, Vive
  <1> DEFINE u == Borrar(p) \o <<Op("cargarReady", p, Nulo), Op("liberar", Nulo, i)>>
  <1>3. tareas' = [tareas EXCEPT ![i] = u]
    BY <1>2 DEF DesocuparIO, Empieza
  <1>4. "liberar" \in Finales /\ Luego("liberar", p) = Op("cargarReady", p, Nulo)
    BY DEF Finales, Luego
  <1> HIDE DEF p
  <1>5. Borrando(u, i, p, "liberar") /\ u # <<>>
    BY <1>2, <1>4, BorrarInicio
  <1> HIDE DEF u
  <1>6. GuionInterfaz(i, u) /\ Fase(u) = "liberar" /\ Posee(u) /\ \A q : Lleva(u, q) <=> q = p
    BY <1>2, <1>4, <1>5, BorrandoObs
  <1>7. Guiones' /\ tareas'[i] = u /\ SoloCambia(i)
    BY <1>3, <1>6, CambiaGuion, Distintos
  <1>8. \A q : EnHilo(q, i)' <=> q = p
    BY <1>6, <1>7 DEF EnHilo
  <1> QED BY <1>1, <1>2, <1>6, <1>7, <1>8 DEF p

LEMMA PasoLiberar ==
    ASSUME Guiones, NEW i \in Interfaces, Liberar(i)
    PROVE  /\ Guiones' /\ SoloCambia(i) /\ tareas[i] # <<>> /\ Primera(tareas[i]) = "liberar"
           /\ Fase(tareas[i]) = "liberar" /\ Posee(tareas[i])
           /\ Fase(tareas'[i]) = "siguiente" /\ Posee(tareas'[i])
           /\ \A q : ~ EnHilo(q, i) /\ ~ EnHilo(q, i)'
  <1>1. tareas[i] # <<>> /\ Primera(tareas[i]) = "liberar"
    BY DEF Liberar, En, Primera
  <1>2. /\ Fase(tareas[i]) = "liberar" /\ Posee(tareas[i]) /\ Tail(tareas[i]) = <<>>
        /\ \A q : ~ EnHilo(q, i)
    BY <1>1, SolaPasa DEF OpsSolas
  <1> DEFINE u == <<Op("siguiente", Nulo, i)>>
  <1>3. u \o <<>> = u
    BY Juntar
  <1>4. tareas' = [tareas EXCEPT ![i] = u]
    BY <1>2, <1>3 DEF Liberar, Sigue
  <1>5. /\ GuionInterfaz(i, u) /\ Fase(u) = "siguiente" /\ Posee(u) /\ \A q : ~ Lleva(u, q)
    BY SolaObs DEF OpsSolas
  <1> HIDE DEF u
  <1>6. Guiones' /\ tareas'[i] = u /\ SoloCambia(i)
    BY <1>4, <1>5, CambiaGuion, Distintos
  <1>7. \A q : ~ EnHilo(q, i)'
    BY <1>5, <1>6 DEF EnHilo
  <1> QED BY <1>1, <1>2, <1>5, <1>6, <1>7

LEMMA SolaTermina ==
    ASSUME Guiones, NEW i \in Interfaces, tareas[i] # <<>>, Primera(tareas[i]) \in OpsSolas, Sigue(i, <<>>)
    PROVE  /\ Guiones' /\ SoloCambia(i) /\ tareas'[i] = <<>>
           /\ Fase(tareas[i]) = Primera(tareas[i]) /\ Posee(tareas[i])
           /\ Fase(tareas'[i]) = "nada" /\ ~ Posee(tareas'[i])
           /\ \A q : ~ EnHilo(q, i) /\ ~ EnHilo(q, i)'
  <1>1. /\ Fase(tareas[i]) = Primera(tareas[i]) /\ Posee(tareas[i]) /\ Tail(tareas[i]) = <<>>
        /\ \A q : ~ EnHilo(q, i)
    BY SolaPasa
  <1>2. <<>> \o Tail(tareas[i]) = <<>>
    BY <1>1
  <1>3. tareas' = [tareas EXCEPT ![i] = <<>>]
    BY <1>2 DEF Sigue
  <1>4. Guiones' /\ tareas'[i] = <<>> /\ SoloCambia(i)
    BY <1>3, CambiaGuion, NadaObs, Distintos
  <1>5. \A q : ~ EnHilo(q, i)'
    BY <1>4, NadaObs DEF EnHilo
  <1> QED BY <1>1, <1>4, <1>5, NadaObs

LEMMA PasoSiguiente ==
    ASSUME Guiones, NEW i \in Interfaces, Siguiente(i)
    PROVE  /\ Guiones' /\ SoloCambia(i) /\ tareas[i] # <<>> /\ Primera(tareas[i]) = "siguiente"
           /\ tareas'[i] = <<>> /\ Fase(tareas[i]) = "siguiente" /\ Posee(tareas[i])
           /\ Fase(tareas'[i]) = "nada" /\ ~ Posee(tareas'[i])
           /\ \A q : ~ EnHilo(q, i) /\ ~ EnHilo(q, i)'
  <1>1. tareas[i] # <<>> /\ Primera(tareas[i]) = "siguiente" /\ Sigue(i, <<>>)
    BY DEF Siguiente, En, Primera
  <1> QED BY <1>1, SolaTermina DEF OpsSolas

LEMMA PasoFree ==
    ASSUME Guiones, NEW i \in Interfaces, Free(i), Vive'
    PROVE  /\ Guiones' /\ SoloCambia(i) /\ tareas[i] # <<>> /\ Primera(tareas[i]) = "vaciar"
           /\ tareas'[i] = <<>> /\ Fase(tareas[i]) = "vaciar" /\ Posee(tareas[i])
           /\ Fase(tareas'[i]) = "nada" /\ ~ Posee(tareas'[i])
           /\ \A q : ~ EnHilo(q, i) /\ ~ EnHilo(q, i)'
  <1>1. tareas[i] # <<>> /\ Primera(tareas[i]) = "vaciar" /\ Sigue(i, <<>>)
    BY DEF Free, En, Primera, Quiebra, Vive
  <1> QED BY <1>1, SolaTermina DEF OpsSolas

LEMMA PasoDesconectar ==
    ASSUME Guiones, NEW i \in Interfaces, Desconectar(i)
    PROVE  /\ Guiones' /\ SoloCambia(i) /\ tareas[i] = <<>>
           /\ Fase(tareas'[i]) = "vaciar" /\ ~ Posee(tareas'[i])
           /\ \A q : ~ EnHilo(q, i) /\ ~ EnHilo(q, i)'
  <1> DEFINE u == <<Op("tomar", Nulo, i), Op("vaciar", Nulo, i)>>
  <1>1. tareas[i] = <<>> /\ tareas' = [tareas EXCEPT ![i] = u]
    BY DEF Desconectar, Libre, Empieza
  <1>2. GuionInterfaz(i, u) /\ Fase(u) = "vaciar" /\ ~ Posee(u) /\ \A q : ~ Lleva(u, q)
    BY TomarObs
  <1> HIDE DEF u
  <1>3. Guiones' /\ tareas'[i] = u /\ SoloCambia(i)
    BY <1>1, <1>2, CambiaGuion, Distintos
  <1>4. \A q : ~ EnHilo(q, i) /\ ~ EnHilo(q, i)'
    BY <1>1, <1>2, <1>3, NadaObs DEF EnHilo
  <1> QED BY <1>1, <1>2, <1>3, <1>4

LEMMA PasoVaciar ==
    ASSUME Guiones, colas.blocked \in Seq(Entrada), NEW i \in Interfaces, io[i].espera \in Seq(Procesos),
           Vaciar(i)
    PROVE  /\ Guiones' /\ SoloCambia(i) /\ tareas[i] # <<>> /\ Primera(tareas[i]) = "vaciar"
           /\ Fase(tareas[i]) = "vaciar" /\ Posee(tareas[i])
           /\ Fase(tareas'[i]) = "vaciar" /\ Posee(tareas'[i])
           /\ io[i].espera # <<>> /\ Head(io[i].espera) \in Procesos
           /\ \A q : ~ EnHilo(q, i) /\ (EnHilo(q, i)' <=> q = Head(io[i].espera))
  <1> DEFINE p == Head(io[i].espera)
             u == Borrar(p) \o <<Op("ltsEx", p, Nulo), Op("vaciar", Nulo, i)>>
  <1>1. tareas[i] # <<>> /\ Primera(tareas[i]) = "vaciar" /\ io[i].espera # <<>> /\ Sigue(i, u)
    BY DEF Vaciar, En, Primera
  <1>2. p \in Procesos
    BY <1>1
  <1>3. /\ Fase(tareas[i]) = "vaciar" /\ Posee(tareas[i]) /\ Tail(tareas[i]) = <<>>
        /\ \A q : ~ EnHilo(q, i)
    BY <1>1, SolaPasa DEF OpsSolas
  <1>4. "vaciar" \in Finales /\ Luego("vaciar", p) = Op("ltsEx", p, Nulo)
    BY DEF Finales, Luego
  <1> HIDE DEF p
  <1>5. Borrando(u, i, p, "vaciar") /\ u # <<>> /\ u \o <<>> = u
    BY <1>2, <1>4, BorrarInicio
  <1> HIDE DEF u
  <1>6. GuionInterfaz(i, u) /\ Fase(u) = "vaciar" /\ Posee(u) /\ \A q : Lleva(u, q) <=> q = p
    BY <1>2, <1>4, <1>5, BorrandoObs
  <1>7. tareas' = [tareas EXCEPT ![i] = u]
    BY <1>1, <1>3, <1>5 DEF Sigue
  <1>8. Guiones' /\ tareas'[i] = u /\ SoloCambia(i)
    BY <1>6, <1>7, CambiaGuion, Distintos
  <1>9. \A q : EnHilo(q, i)' <=> q = p
    BY <1>6, <1>8 DEF EnHilo
  <1> QED BY <1>1, <1>2, <1>3, <1>6, <1>8, <1>9 DEF p

-----------------------------------------------------------------------------
(* The dispatch receiver.                                                  *)

Orden == [forma : {"io", "fs", "truncar"}, tipo : {"GENERICA", "DIALFS"}, i : Interfaces]
Pedido == [p : Procesos, orden : Orden \cup {Nulo}]

LEMMA PasoRecibir ==
    ASSUME Guiones, cpu.aKernel \in Seq(Pedido), RecibirDispatch, Vive'
    PROVE  LET p == Head(cpu.aKernel).p IN
           /\ Guiones' /\ SoloCambia("dispatch") /\ tareas["dispatch"] = <<>> /\ tareas'["dispatch"] # <<>>
           /\ p \in Procesos /\ Primera(tareas'["dispatch"]) \in {"ltsEx", "bloquear", "tomar"}
           /\ \A q : ~ EnHilo(q, "dispatch") /\ (EnHilo(q, "dispatch")' <=> q = p)
           /\ \A i \in Interfaces : Ultima(tareas'["dispatch"]).i = i => io[i].esta
           /\ colas.exec # <<>> /\ Head(colas.exec) = p
           /\ colas' = [colas EXCEPT !.exec = Tail(@)] /\ sem' = [sem EXCEPT !.cpu = 1]
  <1> DEFINE c == Head(cpu.aKernel)
  <1>1. c \in Pedido /\ tareas["dispatch"] = <<>>
    BY DEF RecibirDispatch, Libre
  <1>2. c.p \in Procesos /\ c.orden \in Orden \cup {Nulo}
    BY <1>1 DEF Pedido
  <1> DEFINE p == c.p
             o == c.orden
             u == IF o = Nulo THEN <<Op("ltsEx", p, Nulo)>>
                  ELSE IF ~io[o.i].esta THEN <<Op("ltsEx", p, Nulo)>> ELSE Atender(p, o)
  <1>3. /\ colas.exec # <<>> /\ Head(colas.exec) = p /\ tareas' = [tareas EXCEPT !["dispatch"] = u]
        /\ colas' = [colas EXCEPT !.exec = Tail(@)] /\ sem' = [sem EXCEPT !.cpu = 1]
    BY DEF RecibirDispatch, Quiebra, Vive, Empieza
  <1> HIDE DEF p, o
  <1>8. p \in Procesos /\ o \in Orden \cup {Nulo}
    BY <1>2 DEF p, o
  <1>4. \E i \in Interfaces \cup {Nulo} :
           AtenderEmpieza(u, p, i) /\ (i \in Interfaces => io[i].esta) /\ GuionDispatch(u)
    <2>1. CASE u = <<Op("ltsEx", p, Nulo)>>
      <3>1. AtenderEmpieza(u, p, Nulo)
        BY <2>1, ExpulsarObs
      <3>2. GuionDispatch(u)
        BY <2>1, <1>8 DEF GuionDispatch
      <3> QED BY <3>1, <3>2, Distintos
    <2>2. CASE o # Nulo /\ u = Atender(p, o) /\ io[o.i].esta
      <3>1. o \in Orden /\ o.i \in Interfaces
        BY <1>8, <2>2 DEF Orden
      <3>2. AtenderEmpieza(u, p, o.i)
        BY <3>1, <2>2, AtenderObs DEF Orden
      <3>3. GuionDispatch(u)
        BY <3>1, <3>2, <1>8 DEF GuionDispatch, AtenderEmpieza
      <3> QED BY <2>2, <3>1, <3>2, <3>3
    <2> QED BY <2>1, <2>2
  <1>5. PICK i \in Interfaces \cup {Nulo} :
           AtenderEmpieza(u, p, i) /\ (i \in Interfaces => io[i].esta) /\ GuionDispatch(u)
    BY <1>4
  <1> HIDE DEF u
  <1>6. Guiones' /\ tareas'["dispatch"] = u /\ SoloCambia("dispatch")
    BY <1>3, <1>5, CambiaGuion, Distintos
  <1>7. TrasDispatch(u, p, i)
    BY <1>5, DispatchObs DEF AtenderEmpieza
  <1>9. \A j \in Interfaces : Ultima(u).i = j => io[j].esta
    BY <1>5, <1>7 DEF TrasDispatch
  <1>10. \A q : ~ EnHilo(q, "dispatch") /\ (EnHilo(q, "dispatch")' <=> q = p)
    BY <1>1, <1>5, <1>6, NadaObs, Distintos DEF EnHilo, AtenderEmpieza, Porta, Portan
  <1>11. /\ u # <<>> /\ Primera(u) \in {"ltsEx", "bloquear", "tomar"}
    BY <1>5 DEF AtenderEmpieza
  <1> HIDE DEF c
  <1> QED BY <1>1, <1>3, <1>6, <1>8, <1>9, <1>10, <1>11 DEF p, c

LEMMA PasoBloquear ==
    ASSUME Guiones, Bloquear
    PROVE  LET d == tareas["dispatch"]
               u == tareas'["dispatch"]
           IN  /\ Guiones' /\ SoloCambia("dispatch") /\ d # <<>> /\ u # <<>>
               /\ Primera(d) = "bloquear" /\ Primera(u) \in {"atender", "mirar"}
               /\ Ultima(u) = Ultima(d) /\ Arg("dispatch") \in Procesos /\ ArgI("dispatch") \in Interfaces
               /\ Head(u).p = Arg("dispatch") /\ Head(u).i = ArgI("dispatch")
               /\ Head(d).p = Arg("dispatch")
               /\ \A q : EnHilo(q, "dispatch")' <=> EnHilo(q, "dispatch")
  <1> DEFINE d == tareas["dispatch"]
  <1>1. d # <<>> /\ Primera(d) = "bloquear" /\ Sigue("dispatch", <<>>)
    BY DEF Bloquear, En, Primera
  <1>2. SigueDispatch
    BY <1>1, PasoDispatch
  <1>3. PICK p \in Procesos : \E i \in Interfaces \cup {Nulo} : PasaDispatch(d, p, i)
    BY <1>2 DEF SigueDispatch
  <1>4. PICK i \in Interfaces \cup {Nulo} : PasaDispatch(d, p, i)
    BY <1>3
  <1>5. DeDispatch(d, p, i) /\ TrasDispatch(d, p, i) /\ i \in Interfaces
    BY <1>1, <1>4 DEF PasaDispatch
  <1>6. /\ Head(d).p = p /\ Head(d).i = i /\ Tail(d) # <<>> /\ Primera(Tail(d)) \in {"atender", "mirar"}
        /\ DeDispatch(Tail(d), p, i) /\ Ultima(Tail(d)) = Ultima(d)
    BY <1>1, <1>5 DEF TrasDispatch
  <1>7. TrasDispatch(Tail(d), p, i)
    BY <1>6, DispatchObs
  <1>8. Head(Tail(d)).p = p /\ Head(Tail(d)).i = i
    BY <1>6, <1>7 DEF TrasDispatch
  <1>9. \A q : Porta(Tail(d), q) <=> Porta(d, q)
    BY <1>1, <1>6, <1>8 DEF Porta, Portan
  <1>10. Guiones' /\ SoloCambia("dispatch") /\ tareas'["dispatch"] = Tail(d)
    BY <1>2 DEF SigueDispatch
  <1>11. \A q : EnHilo(q, "dispatch")' <=> EnHilo(q, "dispatch")
    BY <1>9, <1>10, Distintos DEF EnHilo
  <1> QED BY <1>1, <1>5, <1>6, <1>8, <1>10, <1>11 DEF Arg, ArgI

\* What is at its last step, or only has pasar left.
TerminaDispatch ==
    LET d == tareas["dispatch"]
        u == tareas'["dispatch"]
    IN  /\ Guiones' /\ SoloCambia("dispatch") /\ d # <<>>
        /\ Arg("dispatch") \in Procesos /\ ArgI("dispatch") \in Interfaces
        /\ Head(d).p = Arg("dispatch") /\ Head(d).i = ArgI("dispatch") /\ Ultima(d).i = ArgI("dispatch")
        /\ Primera(d) \in {"atender", "soltar", "pasar"} => u = <<>> /\ Ultima(d).op = Primera(d)
        /\ Primera(d) \in {"ocupar", "encolar"} => /\ u # <<>> /\ Primera(u) = "pasar"
                                                   /\ Ultima(d).op = "pasar" /\ Ultima(u) = Ultima(d)
        /\ \A q : ~ EnHilo(q, "dispatch")'

LEMMA PasoTermina ==
    ASSUME Guiones, tareas["dispatch"] # <<>>, Sigue("dispatch", <<>>),
           Primera(tareas["dispatch"]) \in {"atender", "soltar", "pasar", "ocupar", "encolar"}
    PROVE  TerminaDispatch
  <1> DEFINE d == tareas["dispatch"]
  <1>2. SigueDispatch
    BY PasoDispatch
  <1>3. PICK p \in Procesos : \E i \in Interfaces \cup {Nulo} : PasaDispatch(d, p, i)
    BY <1>2 DEF SigueDispatch
  <1>4. PICK i \in Interfaces \cup {Nulo} : PasaDispatch(d, p, i)
    BY <1>3
  <1>5. DeDispatch(d, p, i) /\ TrasDispatch(d, p, i) /\ i \in Interfaces
    BY <1>4 DEF PasaDispatch
  <1>6. /\ Head(d).p = p /\ Head(d).i = i /\ Ultima(d).i = i
        /\ Primera(d) \in {"ocupar", "encolar"} =>
             Tail(d) = <<Op("pasar", p, i)>> /\ Ultima(d).op = "pasar" /\ Ultima(Tail(d)) = Ultima(d)
        /\ Primera(d) \in {"atender", "soltar", "pasar"} => Tail(d) = <<>> /\ Ultima(d).op = Primera(d)
    BY <1>5 DEF TrasDispatch
  <1>1. /\ <<Op("pasar", p, i)>> # <<>>
        /\ Primera(<<Op("pasar", p, i)>>) = "pasar"
    BY OpCampos DEF Primera
  <1>7. Primera(d) \in {"ocupar", "encolar"} => Tail(d) # <<>> /\ Primera(Tail(d)) = "pasar"
    BY <1>1, <1>6
  <1>8. Guiones' /\ SoloCambia("dispatch") /\ tareas'["dispatch"] = Tail(d)
    BY <1>2 DEF SigueDispatch
  <1>9. \A q : ~ Porta(Tail(d), q)
    BY <1>6, <1>7 DEF Porta, Portan
  <1>10. \A q : ~ EnHilo(q, "dispatch")'
    BY <1>8, <1>9, Distintos DEF EnHilo
  <1> QED BY <1>5, <1>6, <1>7, <1>8, <1>10 DEF TerminaDispatch, Arg, ArgI

LEMMA PasoMirar ==
    ASSUME Guiones, Mirar
    PROVE  LET d == tareas["dispatch"]
               u == tareas'["dispatch"]
           IN  /\ Guiones' /\ SoloCambia("dispatch") /\ d # <<>> /\ u # <<>>
               /\ Primera(d) = "mirar"
               /\ Primera(u) = (IF io[ArgI("dispatch")].libre THEN "ocupar" ELSE "encolar")
               /\ Ultima(u).op = "pasar" /\ Ultima(d).op = "pasar"
               /\ Ultima(u).i = ArgI("dispatch") /\ Ultima(d).i = ArgI("dispatch")
               /\ Arg("dispatch") \in Procesos /\ ArgI("dispatch") \in Interfaces
               /\ Head(u).p = Arg("dispatch") /\ Head(u).i = ArgI("dispatch")
               /\ Head(d).p = Arg("dispatch") /\ Head(d).i = ArgI("dispatch")
               /\ \A q : EnHilo(q, "dispatch")' <=> EnHilo(q, "dispatch")
  <1> DEFINE d == tareas["dispatch"]
             n == IF io[ArgI("dispatch")].libre THEN "ocupar" ELSE "encolar"
  <1>1. d # <<>> /\ Primera(d) = "mirar" /\ Sigue("dispatch", <<Op(n, Arg("dispatch"), ArgI("dispatch"))>>)
    BY DEF Mirar, En, Primera
  <1>3. PICK p \in Procesos : \E i \in Interfaces \cup {Nulo} : PasaDispatch(d, p, i)
    BY <1>1, EnDispatch
  <1>4. PICK i \in Interfaces \cup {Nulo} : PasaDispatch(d, p, i)
    BY <1>3
  <1>5. DeDispatch(d, p, i) /\ TrasDispatch(d, p, i) /\ i \in Interfaces
    BY <1>1, <1>4 DEF PasaDispatch
  <1>6. /\ Head(d).p = p /\ Head(d).i = i /\ Ultima(d).i = i /\ Tail(d) = <<Op("pasar", p, i)>>
        /\ Ultima(d).op = "pasar"
    BY <1>1, <1>5 DEF TrasDispatch
  <1>7. Arg("dispatch") = p /\ ArgI("dispatch") = i
    BY <1>6 DEF Arg, ArgI
  <1>8. n \in {"ocupar", "encolar"}
    OBVIOUS
  <1> DEFINE u == <<Op(n, p, i)>> \o <<Op("pasar", p, i)>>
  <1>9. tareas' = [tareas EXCEPT !["dispatch"] = u]
    BY <1>1, <1>6, <1>7 DEF Sigue
  <1> HIDE DEF n
  <1>10. DeDispatch(u, p, i) /\ u # <<>> /\ Head(u) = Op(n, p, i) /\ Ultima(u) = Op("pasar", p, i)
    BY <1>8, MirarObs
  <1> HIDE DEF u
  <1>11. Head(u).op = n /\ Head(u).p = p /\ Head(u).i = i /\ Ultima(u).op = "pasar" /\ Ultima(u).i = i
    BY <1>10, OpCampos
  <1>12. GuionDispatch(u)
    BY <1>5, <1>10 DEF GuionDispatch
  <1>13. Guiones' /\ tareas'["dispatch"] = u /\ SoloCambia("dispatch")
    BY <1>9, <1>12, CambiaGuion, Distintos
  <1>14. \A q : Porta(u, q) <=> Porta(d, q)
    BY <1>1, <1>6, <1>8, <1>10, <1>11 DEF Porta, Portan, Primera
  <1>15. \A q : EnHilo(q, "dispatch")' <=> EnHilo(q, "dispatch")
    BY <1>13, <1>14, Distintos DEF EnHilo
  <1>16. Primera(u) = n
    BY <1>11 DEF Primera
  <1> QED BY <1>1, <1>5, <1>6, <1>7, <1>10, <1>11, <1>13, <1>15, <1>16 DEF n

-----------------------------------------------------------------------------
(* Memoria's receiver and the planner.                                     *)

LEMMA PasoPorPid ==
    ASSUME Guiones, deMemoria \in Seq(Procesos), CargarReadyPorPid
    PROVE  LET p == Head(deMemoria) IN
           /\ Guiones' /\ SoloCambia("memoria") /\ tareas["memoria"] = <<>> /\ p \in Procesos
           /\ \A q : ~ EnHilo(q, "memoria") /\ (EnHilo(q, "memoria")' <=> q = p /\ p \in ToSet(colas.new))
  <1> DEFINE p == Head(deMemoria)
             u == IF p \in ToSet(colas.new) THEN <<Op("cargarReady", p, Nulo)>> ELSE <<>>
  <1>1. /\ tareas["memoria"] = <<>> /\ p \in Procesos /\ tareas' = [tareas EXCEPT !["memoria"] = u]
    BY DEF CargarReadyPorPid, Libre, Empieza
  <1> HIDE DEF p
  <1>2. GuionMemoria(u)
    BY <1>1 DEF GuionMemoria
  <1> DEFINE o == Op("cargarReady", p, Nulo)
  <1>3. o.op = "cargarReady" /\ o.p = p
    BY OpCampos
  <1> HIDE DEF o
  <1>4. u = IF p \in ToSet(colas.new) THEN <<o>> ELSE <<>>
    BY DEF o
  <1> HIDE DEF u
  <1>5. p \in ToSet(colas.new) => u # <<>> /\ Head(u) = o
    BY <1>4
  <1>6. \A q : Porta(u, q) <=> q = p /\ p \in ToSet(colas.new)
    BY <1>3, <1>4, <1>5 DEF Porta, Portan, Primera
  <1>7. Guiones' /\ tareas'["memoria"] = u /\ SoloCambia("memoria")
    BY <1>1, <1>2, CambiaGuion, Distintos
  <1>8. \A q : ~ EnHilo(q, "memoria") /\ (EnHilo(q, "memoria")' <=> q = p /\ p \in ToSet(colas.new))
    BY <1>1, <1>6, <1>7, NadaObs, Distintos DEF EnHilo
  <1> QED BY <1>1, <1>7, <1>8 DEF p

LEMMA PasoEsperar ==
    ASSUME Guiones, EsperarReady
    PROVE  /\ Guiones' /\ SoloCambia("planificador") /\ tareas["planificador"] = <<>>
           /\ \A q \in Procesos : ~ EnHilo(q, "planificador")'
  <1> DEFINE u == <<Op("sacarReady", Nulo, Nulo)>>
  <1>1. tareas["planificador"] = <<>> /\ tareas' = [tareas EXCEPT !["planificador"] = u]
    BY DEF EsperarReady, Libre, Empieza
  <1>2. Primera(u) = "sacarReady"
    BY OpCampos DEF Primera
  <1>3. GuionPlanificador(u)
    BY DEF GuionPlanificador
  <1> HIDE DEF u
  <1>4. Guiones' /\ tareas'["planificador"] = u /\ SoloCambia("planificador")
    BY <1>1, <1>3, CambiaGuion, Distintos
  <1> QED BY <1>1, <1>2, <1>4, Distintos DEF EnHilo, Porta, Portan

LEMMA PasoSacar ==
    ASSUME Guiones, SacarReady, Vive'
    PROVE  /\ Guiones' /\ SoloCambia("planificador") /\ tareas["planificador"] # <<>>
           /\ Primera(tareas["planificador"]) = "sacarReady" /\ colas.ready # <<>>
           /\ \A q \in Procesos : ~ EnHilo(q, "planificador")'
  <1>1. tareas["planificador"] # <<>> /\ colas.ready # <<>> /\ Sigue("planificador", <<>>)
    BY DEF SacarReady, En, Quiebra, Vive
  <1>2. tareas["planificador"] = <<Op("sacarReady", Nulo, Nulo)>>
    BY <1>1 DEF Guiones, GuionPlanificador
  <1>3. <<>> \o Tail(tareas["planificador"]) = <<>>
    BY <1>2
  <1>4. Primera(tareas["planificador"]) = "sacarReady"
    BY <1>2, OpCampos DEF Primera
  <1>5. tareas' = [tareas EXCEPT !["planificador"] = <<>>]
    BY <1>3 DEF Sigue, SacarReady, Quiebra, Vive
  <1>6. Guiones' /\ tareas'["planificador"] = <<>> /\ SoloCambia("planificador")
    BY <1>5, CambiaGuion, NadaObs, Distintos
  <1> QED BY <1>1, <1>4, <1>6, NadaObs, Distintos DEF EnHilo
-----------------------------------------------------------------------------
(* The console.                                                            *)

CambiaConsola == Guiones' /\ SoloCambia("consola")

LEMMA PasoFinalizar ==
    ASSUME Guiones, NEW p \in Victimas, FinalizarProceso(p), Vive'
    PROVE  /\ CambiaConsola /\ tareas["consola"] = <<>> /\ colas' = [colas EXCEPT !.new = SinUltimo(@)]
           /\ \A q : ~ EnHilo(q, "consola")'
  <1> DEFINE u == <<Op("buscarReady", p, Nulo), Op("buscarExec", p, Nulo)>>
  <1>1. /\ tareas["consola"] = <<>> /\ tareas' = [tareas EXCEPT !["consola"] = u]
        /\ colas' = [colas EXCEPT !.new = SinUltimo(@)]
    BY DEF FinalizarProceso, Libre, Empieza, Quiebra, Vive
  <1>2. Buscando(u, p) /\ u # <<>> /\ Primera(u) = "buscarReady"
    BY EmpiezaBusqueda
  <1> HIDE DEF u
  <1>3. p \in Procesos
    BY InterfacesAssumption
  <1>4. GuionConsola(u)
    BY <1>2, <1>3 DEF GuionConsola, Buscado
  <1>5. Guiones' /\ tareas'["consola"] = u /\ SoloCambia("consola")
    BY <1>1, <1>4, CambiaGuion, Distintos
  <1> QED BY <1>1, <1>2, <1>5, Distintos DEF EnHilo, Porta, Portan, CambiaConsola

LEMMA PasoListar ==
    ASSUME Guiones, ProcesoEstado
    PROVE  /\ CambiaConsola /\ tareas["consola"] = <<>> /\ colas' = [colas EXCEPT !.new = SinUltimo(@)]
           /\ \A q : ~ EnHilo(q, "consola")'
  <1> DEFINE u == <<Op("tomarBlocked", Nulo, Nulo), Op("buscarExec", Nulo, Nulo)>>
  <1>1. /\ tareas["consola"] = <<>> /\ tareas' = [tareas EXCEPT !["consola"] = u]
        /\ colas' = [colas EXCEPT !.new = SinUltimo(@)]
    BY DEF ProcesoEstado, Libre, Empieza
  <1>2. Buscando(u, Nulo) /\ u # <<>>
    BY FormasConsola DEF Exec
  <1>3. Primera(u) = "tomarBlocked"
    BY OpCampos DEF Primera
  <1> HIDE DEF u
  <1>4. GuionConsola(u)
    BY <1>2, <1>3 DEF GuionConsola, Buscado, OpsListar
  <1>5. Guiones' /\ tareas'["consola"] = u /\ SoloCambia("consola")
    BY <1>1, <1>4, CambiaGuion, Distintos
  <1> QED BY <1>1, <1>3, <1>5, Distintos DEF EnHilo, Porta, Portan, CambiaConsola

LEMMA PasoMulti ==
    ASSUME Guiones, NEW n \in Grados, Multiprogramar(n)
    PROVE  /\ CambiaConsola /\ tareas["consola"] = <<>>
           /\ \A q : ~ EnHilo(q, "consola")'
  <1>4. n \in 1 .. 499 /\ Grado \in Nat
    BY InterfacesAssumption
  <1>5. n \in Nat
    BY ONLY <1>4
  <1>1. tareas["consola"] = <<>> /\ n \in Nat /\ Grado \in Nat
    BY ONLY <1>4, <1>5, Multiprogramar(n) DEF Multiprogramar, Libre
  <1>2. CASE n < Grado
    <2> DEFINE m == Grado - n
               u == [k \in 1 .. m |-> Bajada]
    <2>1. m \in Nat /\ m > 0
      BY <1>1, <1>2
    <2>2. tareas' = [tareas EXCEPT !["consola"] = u]
      BY <1>2 DEF Multiprogramar, Empieza, Bajada
    <2> HIDE DEF m
    <2>3. u \in Seq({Bajada}) /\ Len(u) = m
      BY <2>1
    <2>4. u # <<>>
      BY <2>1, <2>3
    <2> HIDE DEF u
    <2>5. Primera(u) = "bajarGrado" /\ GuionConsola(u)
      BY <2>3, <2>4, BajadaObs
    <2>6. Guiones' /\ tareas'["consola"] = u /\ SoloCambia("consola")
      BY <2>2, <2>5, CambiaGuion, Distintos
    <2> QED BY <1>1, <2>5, <2>6, Distintos DEF EnHilo, Porta, Portan, CambiaConsola
  <1>3. CASE ~ (n < Grado)
    <2>1. tareas' = tareas
      BY <1>3 DEF Multiprogramar
    <2>2. Guiones'
      BY <2>1 DEF Guiones
    <2> QED BY <1>1, <2>1, <2>2, NadaObs, Distintos DEF EnHilo, CambiaConsola, SoloCambia
  <1> QED BY <1>2, <1>3

\* Steps of the console that leave the rest, and end nobody.
LEMMA PasoResto ==
    ASSUME Guiones, tareas["consola"] # <<>>, Sigue("consola", <<>>),
           Primera(tareas["consola"]) \in {"bajarGrado", "descontarReady", "soltarBlocked", "buscarExec"}
    PROVE  /\ CambiaConsola /\ \A q : ~ EnHilo(q, "consola")'
           /\ Primera(tareas["consola"]) = "descontarReady" => Arg("consola") \in Procesos
  <1> DEFINE s == tareas["consola"]
  <1>1. SigueConsola
    BY PasoConsola
  <1>2. Tail(s) # <<>> => Primera(Tail(s)) \in (OpsBuscar \cup {"bajarGrado"}) \ {"ltsEx"}
    <2>1. CASE Primera(s) = "bajarGrado"
      BY <1>1, <2>1 DEF SigueConsola
    <2>2. CASE Primera(s) # "bajarGrado"
      <3>1. PICK p : Buscado(s, p) /\ Buscando(s, p) /\ TrasBuscar(s, p)
        BY <1>1, <2>2 DEF SigueConsola
      <3>2. Tail(s) # <<>> => Primera(Tail(s)) # "ltsEx" /\ Buscando(Tail(s), p)
        BY <3>1 DEF TrasBuscar, Sacar
      <3> QED BY <3>2 DEF Buscando
    <2> QED BY <2>1, <2>2
  <1>3. \A q : ~ Porta(Tail(s), q)
    BY <1>2 DEF Porta, Portan, OpsBuscar
  <1>4. Guiones' /\ SoloCambia("consola") /\ tareas'["consola"] = Tail(s)
    BY <1>1 DEF SigueConsola
  <1>5. \A q : ~ EnHilo(q, "consola")'
    BY <1>3, <1>4, Distintos DEF EnHilo
  <1>6. ASSUME Primera(s) = "descontarReady"
        PROVE  Arg("consola") \in Procesos
    <2>1. PICK p : Buscado(s, p) /\ Buscando(s, p) /\ TrasBuscar(s, p)
      BY <1>1, <1>6 DEF SigueConsola
    <2> QED BY <1>6, <2>1 DEF TrasBuscar, Arg, Buscado, OpsListar
  <1> QED BY <1>4, <1>5, <1>6 DEF CambiaConsola

LEMMA BuscaEn ==
    ASSUME Guiones, tareas["consola"] # <<>>, Primera(tareas["consola"]) \in OpsBuscar \ {"reponer", "soltarBlocked"}
    PROVE  /\ Buscado(tareas["consola"], Arg("consola")) /\ Buscando(tareas["consola"], Arg("consola"))
           /\ TrasBuscar(tareas["consola"], Arg("consola"))
           /\ Primera(tareas["consola"]) \notin OpsListar => Arg("consola") \in Procesos
  <1> DEFINE s == tareas["consola"]
  <1>1. PICK p : Buscado(s, p) /\ Buscando(s, p) /\ TrasBuscar(s, p)
    BY EnConsola DEF OpsBuscar
  <1>2. Arg("consola") = p
    BY <1>1 DEF TrasBuscar, Arg
  <1> QED BY <1>1, <1>2 DEF Buscado

LEMMA PonConsola ==
    ASSUME Guiones, NEW p, NEW u, Buscado(u, p), Buscando(u, p), u # <<>>, tareas' = [tareas EXCEPT !["consola"] = u]
    PROVE  CambiaConsola /\ tareas'["consola"] = u
  <1>1. GuionConsola(u)
    BY DEF GuionConsola
  <1> QED BY <1>1, CambiaGuion, Distintos DEF CambiaConsola

LEMMA PasoBuscarReady ==
    ASSUME Guiones, BuscarReady
    PROVE  /\ CambiaConsola /\ Arg("consola") \in Procesos /\ \A q : ~ EnHilo(q, "consola")'
           /\ tareas["consola"] # <<>> /\ Primera(tareas["consola"]) = "buscarReady"
  <1> DEFINE s == tareas["consola"]
             p == Arg("consola")
  <1>1. s # <<>> /\ Primera(s) = "buscarReady"
    BY DEF BuscarReady, En, Primera
  <1>2. p \in Procesos /\ Buscando(s, p)
    BY <1>1, BuscaEn DEF OpsBuscar, OpsListar
  <1> HIDE DEF p
  <1>3. PICK n \in {"tomarBlocked", "descontarReady"} :
           tareas' = [tareas EXCEPT !["consola"] = <<Op(n, p, Nulo)>> \o Tail(s)]
    BY DEF BuscarReady, Sigue, p
  <1> DEFINE u == <<Op(n, p, Nulo)>> \o Tail(s)
  <1>4. Buscando(u, p) /\ u # <<>> /\ Primera(u) = n
    BY <1>1, <1>2, BuscarReadyObs
  <1> HIDE DEF u
  <1>6. tareas' = [tareas EXCEPT !["consola"] = u]
    BY <1>3 DEF u
  <1>5. CambiaConsola /\ tareas'["consola"] = u
    BY <1>2, <1>4, <1>6, PonConsola DEF Buscado
  <1> QED BY <1>1, <1>2, <1>4, <1>5, Distintos DEF EnHilo, Porta, Portan, p

LEMMA PasoTomarBlocked ==
    ASSUME Guiones, TomarBlocked, colas.blocked \in Seq(Entrada)
    PROVE  /\ CambiaConsola /\ \A q : ~ EnHilo(q, "consola")'
           /\ tareas["consola"] # <<>> /\ Primera(tareas["consola"]) = "tomarBlocked"
  <1> DEFINE s == tareas["consola"]
             p == Arg("consola")
             u == ((IF colas.blocked = <<>> THEN <<>>
                    ELSE <<OpVeces("buscarBlocked", p, Len(colas.blocked))>>)
                   \o <<Op("soltarBlocked", Nulo, Nulo)>>) \o Tail(s)
  <1>1. s # <<>> /\ Primera(s) = "tomarBlocked"
    BY DEF TomarBlocked, En, Primera
  <1>2. Buscado(s, p) /\ Buscando(s, p)
    BY <1>1, BuscaEn DEF OpsBuscar
  <1>3. tareas' = [tareas EXCEPT !["consola"] = u]
    BY DEF TomarBlocked, Sigue
  <1> HIDE DEF p
  <1>4. Buscando(u, p) /\ u # <<>> /\ Primera(u) \in {"soltarBlocked", "buscarBlocked"}
    BY <1>1, <1>2, TomarBlockedObs
  <1> HIDE DEF u
  <1>5. CambiaConsola /\ tareas'["consola"] = u
    BY <1>2, <1>3, <1>4, PonConsola DEF Buscado, OpsListar
  <1> QED BY <1>1, <1>4, <1>5, Distintos DEF EnHilo, Porta, Portan

LEMMA PasoBuscarBlocked ==
    ASSUME Guiones, BuscarBlocked, colas.blocked \in Seq(Entrada), Vive'
    PROVE  LET e == Head(colas.blocked)
               s == tareas["consola"]
               u == tareas'["consola"]
           IN  /\ CambiaConsola /\ \A q : ~ EnHilo(q, "consola")'
               /\ s # <<>> /\ Primera(s) = "buscarBlocked" /\ u # <<>>
               /\ colas.blocked # <<>> /\ colas' = [colas EXCEPT !.blocked = Tail(@)]
               /\ Head(u) = IF e.p = Arg("consola") THEN Op("sacarBloqueo", e.p, e.i) ELSE Op("reponer", e.p, e.i)
  <1> DEFINE s == tareas["consola"]
             p == Arg("consola")
             e == Head(colas.blocked)
             g == IF e.p = p THEN <<Op("sacarBloqueo", e.p, e.i), Op("ltsEx", e.p, Nulo)>>
                  ELSE <<Op("reponer", e.p, e.i)>> \o Resto("consola")
             u == g \o Tail(s)
  <1>1. s # <<>> /\ Primera(s) = "buscarBlocked"
    BY DEF BuscarBlocked, En, Primera
  <1>2. Buscado(s, p) /\ Buscando(s, p)
    BY <1>1, BuscaEn DEF OpsBuscar
  <1>3. colas.blocked # <<>>
    BY DEF BuscarBlocked, Girando, Quiebra, Vive
  <1>4. tareas' = [tareas EXCEPT !["consola"] = u] /\ colas' = [colas EXCEPT !.blocked = Tail(@)]
    BY <1>3 DEF BuscarBlocked, Girando, Sigue
  <1>5. e \in Entrada
    BY <1>3
  <1>6. e.p \in Procesos /\ e.i \in Interfaces
    BY <1>5 DEF Entrada
  <1>7. Resto("consola") = RestoDe(s)
    BY DEF Resto, RestoDe
  <1> HIDE DEF e, s, p
  <1>8. CASE e.p = p
    <2>1. u = <<Op("sacarBloqueo", p, e.i), Op("ltsEx", p, Nulo)>> \o Tail(s)
      BY <1>8
    <2> HIDE DEF u
    <2>2. Buscando(u, p) /\ u # <<>> /\ Head(u) = Op("sacarBloqueo", p, e.i)
      BY <1>1, <1>2, <1>6, <2>1, BuscaGira
    <2>3. Primera(u) = "sacarBloqueo"
      BY <2>2, OpCampos DEF Primera
    <2>4. CambiaConsola /\ tareas'["consola"] = u
      BY <1>4, <1>6, <1>8, <2>2, PonConsola DEF Buscado
    <2>5. \A q : ~ EnHilo(q, "consola")'
      BY <2>3, <2>4, Distintos DEF EnHilo, Porta, Portan
    <2> QED BY <1>1, <1>2, <1>3, <1>4, <1>8, <2>2, <2>4, <2>5 DEF e, s, p
  <1>9. CASE e.p # p
    <2>1. u = (<<Op("reponer", e.p, e.i)>> \o RestoDe(s)) \o Tail(s)
      BY <1>7, <1>9
    <2> HIDE DEF u
    <2>2. Buscando(u, p) /\ u # <<>> /\ Head(u) = Op("reponer", e.p, e.i)
      BY <1>1, <1>2, <1>6, <2>1, BuscaGira
    <2>3. Primera(u) = "reponer"
      BY <2>2, OpCampos DEF Primera
    <2>4. CambiaConsola /\ tareas'["consola"] = u
      BY <1>2, <1>4, <2>2, <2>3, PonConsola DEF Buscado, OpsListar
    <2>5. \A q : ~ EnHilo(q, "consola")'
      BY <2>3, <2>4, Distintos DEF EnHilo, Porta, Portan
    <2> QED BY <1>1, <1>2, <1>3, <1>4, <1>9, <2>2, <2>4, <2>5 DEF e, s, p
  <1> QED BY <1>8, <1>9

LEMMA PasoSacarTail ==
    ASSUME Guiones, tareas["consola"] # <<>>, Primera(tareas["consola"]) \in Sacar, Sigue("consola", <<>>)
    PROVE  /\ CambiaConsola /\ Arg("consola") \in Procesos /\ ArgI("consola") \in Interfaces
           /\ \A q : ~ EnHilo(q, "consola") /\ (EnHilo(q, "consola")' <=> q = Arg("consola"))
  <1> DEFINE s == tareas["consola"]
             p == Arg("consola")
  <1>1. p \in Procesos /\ TrasBuscar(s, p)
    BY BuscaEn DEF OpsBuscar, OpsListar, Sacar
  <1>2. SigueConsola
    BY PasoConsola
  <1>3. Head(s).i \in Interfaces /\ Tail(s) # <<>> /\ Primera(Tail(s)) = "ltsEx" /\ Head(Tail(s)).p = p
    BY <1>1 DEF TrasBuscar
  <1>4. Guiones' /\ SoloCambia("consola") /\ tareas'["consola"] = Tail(s)
    BY <1>2 DEF SigueConsola
  <1>5. \A q : ~ Porta(s, q) /\ (Porta(Tail(s), q) <=> q = p)
    BY <1>3 DEF Porta, Portan, Sacar
  <1>6. \A q : ~ EnHilo(q, "consola") /\ (EnHilo(q, "consola")' <=> q = p)
    BY <1>4, <1>5, Distintos DEF EnHilo
  <1>7. ArgI("consola") \in Interfaces
    BY <1>3 DEF ArgI
  <1> QED BY <1>1, <1>4, <1>6, <1>7 DEF CambiaConsola

LEMMA PasoSacarBloqueo ==
    ASSUME Guiones, SacarBloqueo, Vive'
    PROVE  LET p == Arg("consola")
               i == ArgI("consola")
               u == tareas'["consola"]
           IN  /\ CambiaConsola /\ p \in Procesos /\ i \in Interfaces
               /\ tareas["consola"] # <<>> /\ Primera(tareas["consola"]) = "sacarBloqueo"
               /\ \/ /\ ~ EnOtraParte(p)
                     /\ \A q : ~ EnHilo(q, "consola") /\ (EnHilo(q, "consola")' <=> q = p)
                  \/ /\ \A q : ~ EnHilo(q, "consola")'
                     /\ u # <<>> /\ Head(u) = Op("sacarEspera", p, i)
  <1> DEFINE s == tareas["consola"]
             p == Arg("consola")
             i == ArgI("consola")
  <1>1. s # <<>> /\ Primera(s) = "sacarBloqueo"
    BY DEF SacarBloqueo, En, Primera
  <1>2. p \in Procesos /\ Buscando(s, p) /\ TrasBuscar(s, p)
    BY <1>1, BuscaEn DEF OpsBuscar, OpsListar
  <1>3. i \in Interfaces
    BY <1>1, <1>2 DEF TrasBuscar, ArgI, Sacar
  <1>4. \/ ~ EnOtraParte(p) /\ Sigue("consola", <<>>)
        \/ Sigue("consola", <<Op("sacarEspera", p, i)>>)
    BY DEF SacarBloqueo, Quiebra, Vive
  <1>5. CASE ~ EnOtraParte(p) /\ Sigue("consola", <<>>)
    BY <1>1, <1>3, <1>5, PasoSacarTail DEF Sacar
  <1>6. CASE Sigue("consola", <<Op("sacarEspera", p, i)>>)
    <2> DEFINE u == <<Op("sacarEspera", p, i)>> \o Tail(s)
    <2>1. tareas' = [tareas EXCEPT !["consola"] = u]
      BY <1>6 DEF Sigue
    <2>2. i = Head(s).i
      BY DEF ArgI
    <2> HIDE DEF p, i, s
    <2>3. Buscando(u, p) /\ u # <<>> /\ Head(u) = Op("sacarEspera", p, i)
      BY <1>1, <1>2, <2>2, SacarBloqueoObs
    <2> HIDE DEF u
    <2>4. Primera(u) = "sacarEspera"
      BY <2>3, OpCampos DEF Primera
    <2>5. CambiaConsola /\ tareas'["consola"] = u
      BY <1>2, <2>1, <2>3, PonConsola DEF Buscado
    <2>6. \A q : ~ EnHilo(q, "consola")'
      BY <2>4, <2>5, Distintos DEF EnHilo, Porta, Portan
    <2> QED BY <1>1, <1>2, <1>3, <2>3, <2>5, <2>6 DEF p, i, s
  <1> QED BY <1>4, <1>5, <1>6
=============================================================================
