----------------------------- MODULE HeapProofs -----------------------------
(***************************************************************************)
(* What Heap promises for any number of programs, pages, requests and      *)
(* sizes, while no program frees what it freed already.                    *)
(***************************************************************************)
EXTENDS Heap, ColasProofs, FiniteSetTheorems

-----------------------------------------------------------------------------
(* A page is a chain of blocks.  B has the offsets of its headers.         *)

Usos == BOOLEAN
Cabeceras == [size : Nat, uso : Usos]
Tras(o, size) == o + M + size
Entra(celdas, o, size) == celdas[o].size >= size + M
Sucesor(celdas, o) == o + M + celdas[o].size
Partida(celdas, B) ==
  /\ DOMAIN celdas \subseteq 0 .. TAMPAG - M
  /\ B \subseteq DOMAIN celdas /\ 0 \in B
  /\ \A o \in B : celdas[o] \in Cabeceras /\ Sucesor(celdas, o) \in B \cup {TAMPAG}
  /\ \A o, b \in B : o < b => Sucesor(celdas, o) <= b

(* The walk of a page, step by step. *)
EsVisita(f, celdas) ==
  f = [n \in 0 .. TAMPAG \div M |->
         IF n = 0 THEN {0}
         ELSE f[n - 1] \cup {o + M + celdas[o].size : o \in f[n - 1] \cap DOMAIN celdas}]

LEMMA MenorFalla ==
  ASSUME NEW S \in SUBSET Nat, S # {}
  PROVE  \E m \in S : \A y \in S : m <= y
BY MinExiste

LEMMA HayVisita ==
  ASSUME NEW celdas
  PROVE  \E f : EsVisita(f, celdas) /\ Cadena(celdas) = f[TAMPAG \div M]
<1> DEFINE K == TAMPAG \div M
           Paso(A) == A \cup {o + M + celdas[o].size : o \in A \cap DOMAIN celdas}
           Hasta(m, f) == f = [n \in 0 .. m |-> IF n = 0 THEN {0} ELSE Paso(f[n - 1])]
           Mal == {m \in Nat : ~ \E f : Hasta(m, f)}
<1>0. K \in Nat
  BY TAMPAGAssumption DEF M
<1>1. Mal = {}
  <2> SUFFICES ASSUME Mal # {} PROVE FALSE
    OBVIOUS
  <2>1. PICK m \in Mal : \A y \in Mal : m <= y
    <3>1. Mal \in SUBSET Nat
      OBVIOUS
    <3> HIDE DEF Mal
    <3> QED BY <3>1, MenorFalla
  <2>2. CASE m = 0
    <3>1. Hasta(0, [n \in 0 .. 0 |-> {0}])
      OBVIOUS
    <3> QED BY <2>1, <2>2, <3>1
  <2>3. CASE m # 0
    <3>1. m \in Nat /\ m - 1 \in Nat /\ ~ (m <= m - 1)
      BY <2>1, <2>3
    <3>2. m - 1 \notin Mal
      <4> HIDE DEF Mal
      <4> QED BY <2>1, <3>1
    <3>3. PICK f : Hasta(m - 1, f)
      BY <3>1, <3>2
    <3> HIDE DEF Paso
    <3> DEFINE g == [n \in 0 .. m |-> IF n = m THEN Paso(f[m - 1]) ELSE f[n]]
    <3>4. \A n \in 0 .. m - 1 : g[n] = f[n] /\ f[n] = IF n = 0 THEN {0} ELSE Paso(f[n - 1])
      <4>1. \A n \in 0 .. m - 1 : f[n] = IF n = 0 THEN {0} ELSE Paso(f[n - 1])
        BY <3>3
      <4>2. \A n \in 0 .. m - 1 : n \in 0 .. m /\ n # m
        BY <3>1
      <4> QED BY <4>1, <4>2
    <3>5. \A n \in 0 .. m : g[n] = IF n = 0 THEN {0} ELSE Paso(g[n - 1])
      <4> SUFFICES ASSUME NEW n \in 0 .. m
                   PROVE  g[n] = IF n = 0 THEN {0} ELSE Paso(g[n - 1])
        OBVIOUS
      <4>1. CASE n = m
        <5>1. g[n] = Paso(f[m - 1]) /\ m - 1 \in 0 .. m - 1
          BY <3>1, <4>1
        <5> QED BY <2>3, <3>1, <3>4, <4>1, <5>1
      <4>2. CASE n # m
        <5>1. n \in 0 .. m - 1 /\ (n = 0 \/ n - 1 \in 0 .. m - 1)
          BY <3>1, <4>2
        <5> QED BY <3>4, <5>1
      <4> QED BY <4>1, <4>2
    <3>6. Hasta(m, g)
      <4>1. g = [n \in 0 .. m |-> g[n]]
        OBVIOUS
      <4> HIDE DEF g
      <4> QED BY <3>5, <4>1
    <3> QED BY <2>1, <3>6
  <2> QED BY <2>2, <2>3
<1>2. PICK f : Hasta(K, f)
  BY <1>0, <1>1
<1> DEFINE visita[n \in 0 .. K] ==
        IF n = 0 THEN {0}
        ELSE LET antes == visita[n - 1]
             IN antes \cup {o + M + celdas[o].size : o \in antes \cap DOMAIN celdas}
<1>3. EsVisita(visita, celdas)
  BY <1>2 DEF EsVisita
<1>4. Cadena(celdas) = visita[K]
  BY DEF Cadena
<1> QED BY <1>3, <1>4

(* The offsets of a page that is cut in blocks. *)
LEMMA PartidaTipo ==
  ASSUME NEW celdas, NEW B, Partida(celdas, B)
  PROVE  /\ B \in SUBSET Nat /\ B \subseteq DOMAIN celdas /\ 0 \in B /\ TAMPAG \notin DOMAIN celdas
         /\ DOMAIN celdas \in SUBSET Nat /\ TAMPAG \in Nat /\ TAMPAG > 10
         /\ \A o \in B :
              /\ o \in Nat /\ o + M <= TAMPAG
              /\ celdas[o] \in Cabeceras /\ celdas[o].size \in Nat /\ celdas[o].uso \in BOOLEAN
              /\ celdas[o] = [size |-> celdas[o].size, uso |-> celdas[o].uso]
              /\ Sucesor(celdas, o) = o + M + celdas[o].size
              /\ Sucesor(celdas, o) \in B \cup {TAMPAG}
              /\ Sucesor(celdas, o) \in Nat /\ o + M <= Sucesor(celdas, o)
         /\ \A o, b \in B : o < b => Sucesor(celdas, o) <= b
         /\ M = 5
<1>1. M = 5 /\ TAMPAG \in Nat /\ TAMPAG > 10
  BY TAMPAGAssumption DEF M
<1>2. /\ DOMAIN celdas \subseteq 0 .. TAMPAG - M /\ B \subseteq DOMAIN celdas /\ 0 \in B
      /\ \A o \in B : celdas[o] \in Cabeceras /\ Sucesor(celdas, o) \in B \cup {TAMPAG}
      /\ \A o, b \in B : o < b => Sucesor(celdas, o) <= b
  BY DEF Partida
<1>3. DOMAIN celdas \in SUBSET Nat /\ B \in SUBSET Nat /\ TAMPAG \notin DOMAIN celdas
  BY <1>1, <1>2
<1>4. ASSUME NEW o \in B
      PROVE  /\ o \in Nat /\ o + M <= TAMPAG
             /\ celdas[o] \in Cabeceras /\ celdas[o].size \in Nat /\ celdas[o].uso \in BOOLEAN
             /\ celdas[o] = [size |-> celdas[o].size, uso |-> celdas[o].uso]
             /\ Sucesor(celdas, o) = o + M + celdas[o].size
             /\ Sucesor(celdas, o) \in B \cup {TAMPAG}
             /\ Sucesor(celdas, o) \in Nat /\ o + M <= Sucesor(celdas, o)
  <2>1. celdas[o] \in Cabeceras /\ Sucesor(celdas, o) \in B \cup {TAMPAG} /\ o \in 0 .. TAMPAG - M
    BY <1>2
  <2>2. /\ celdas[o].size \in Nat /\ celdas[o].uso \in BOOLEAN
        /\ celdas[o] = [size |-> celdas[o].size, uso |-> celdas[o].uso]
    BY <2>1 DEF Cabeceras, Usos
  <2>3. o \in Nat /\ o + M <= TAMPAG
    BY <1>1, <2>1
  <2>4. Sucesor(celdas, o) = o + M + celdas[o].size
    BY DEF Sucesor
  <2> QED BY <1>1, <2>1, <2>2, <2>3, <2>4
<1> QED BY <1>1, <1>2, <1>3, <1>4

(* The greatest of the numbers of a set below another. *)
LEMMA MayorDebajo ==
  ASSUME NEW S \in SUBSET Nat, NEW x \in Nat, \E y \in S : y < x
  PROVE  \E p \in S : p < x /\ \A y \in S : y < x => y <= p
<1> DEFINE T == {y \in S : y < x}
<1>1. T \in SUBSET (0 .. x) /\ T # {}
  <2>1. ASSUME NEW y \in S, y < x PROVE y \in 0 .. x
    <3>1. y \in Nat
      OBVIOUS
    <3> QED BY <2>1, <3>1
  <2> QED BY <2>1
<1>2. Max(T) \in T /\ \A y \in T : y <= Max(T)
  BY <1>1, MaxExiste
<1>3. Max(T) \in S /\ Max(T) < x /\ \A y \in S : y < x => y <= Max(T)
  BY <1>2
<1> QED BY <1>3

(* Each block but the first comes right after another. *)
LEMMA Anterior ==
  ASSUME NEW celdas, NEW B, Partida(celdas, B), NEW x \in B \cup {TAMPAG}, x # 0
  PROVE  \E p \in B : Sucesor(celdas, p) = x
<1>1. /\ B \in SUBSET Nat /\ 0 \in B /\ TAMPAG \in Nat /\ M = 5
      /\ \A o \in B : /\ o \in Nat /\ o + M <= TAMPAG
                      /\ Sucesor(celdas, o) \in B \cup {TAMPAG}
                      /\ Sucesor(celdas, o) \in Nat /\ o + M <= Sucesor(celdas, o)
      /\ \A o, b \in B : o < b => Sucesor(celdas, o) <= b
  BY PartidaTipo
<1>2. x \in Nat /\ 0 < x
  BY <1>1
<1>3. PICK p \in B : p < x /\ \A y \in B : y < x => y <= p
  BY <1>1, <1>2, MayorDebajo
<1> DEFINE s == Sucesor(celdas, p)
<1>4. s \in B \cup {TAMPAG} /\ s \in Nat /\ p + M <= s /\ p \in Nat /\ x <= TAMPAG
  <2>1. x <= TAMPAG
    <3>1. x \in B => x + M <= TAMPAG
      BY <1>1
    <3> QED BY <1>1, <1>2, <3>1
  <2> QED BY <1>1, <2>1
<1>5. s <= x
  BY <1>1, <1>3, <1>4
<1> HIDE DEF s
<1>6. ~ (s < x)
  BY <1>1, <1>3, <1>4, <1>2
<1>7. s = x
  BY <1>2, <1>4, <1>5, <1>6
<1> QED BY <1>7 DEF s

(* A walk that goes from block to block sees them all, and the end.        *)
LEMMA PartidaCadena ==
  ASSUME NEW celdas, NEW B, Partida(celdas, B)
  PROVE  Cadena(celdas) = B \cup {TAMPAG} /\ BloquesDe(celdas) = B
<1> DEFINE K == TAMPAG \div M
<1>1. /\ B \in SUBSET Nat /\ B \subseteq DOMAIN celdas /\ 0 \in B /\ TAMPAG \notin DOMAIN celdas
      /\ TAMPAG \in Nat /\ M = 5
      /\ \A o \in B : /\ o \in Nat
                      /\ Sucesor(celdas, o) = o + M + celdas[o].size
                      /\ Sucesor(celdas, o) \in B \cup {TAMPAG}
                      /\ Sucesor(celdas, o) \in Nat /\ o + M <= Sucesor(celdas, o)
  BY PartidaTipo
<1>2. K \in Nat /\ TAMPAG < M * (K + 1)
  BY <1>1
<1>3. PICK f : EsVisita(f, celdas) /\ Cadena(celdas) = f[K]
  BY HayVisita
<1>4. /\ f[0] = {0}
      /\ \A n \in 1 .. K :
           f[n] = f[n - 1] \cup {o + M + celdas[o].size : o \in f[n - 1] \cap DOMAIN celdas}
  BY <1>2, <1>3 DEF EsVisita
<1> HIDE DEF K
<1> DEFINE Hasta(n) == {x \in B \cup {TAMPAG} : x < M * (n + 1)}
           Bien(n) == f[n] \subseteq B \cup {TAMPAG} /\ Hasta(n) \subseteq f[n]
           Mal == {n \in 0 .. K : ~ Bien(n)}
<1>5. Bien(0)
  <2>1. ASSUME NEW x \in Hasta(0) PROVE x = 0
    <3>1. x \in B \cup {TAMPAG} /\ x < 5 /\ x \in Nat
      BY <1>1
    <3>2. CASE x # 0
      <4>1. PICK p \in B : Sucesor(celdas, p) = x
        BY <3>1, <3>2, Anterior
      <4> QED BY <1>1, <3>1, <4>1
    <3> QED BY <3>2
  <2> QED BY <1>1, <1>4, <2>1
<1>6. ASSUME NEW n \in 1 .. K, Bien(n - 1) PROVE Bien(n)
  <2>1. f[n] \subseteq B \cup {TAMPAG}
    <3>1. ASSUME NEW o \in f[n - 1] \cap DOMAIN celdas
          PROVE  o + M + celdas[o].size \in B \cup {TAMPAG}
      <4>1. o \in B
        BY <1>1, <1>6
      <4> QED BY <1>1, <4>1
    <3> QED BY <1>4, <1>6, <3>1
  <2>2. ASSUME NEW x \in Hasta(n) PROVE x \in f[n]
    <3>1. x \in B \cup {TAMPAG} /\ x \in Nat /\ x < 5 * (n + 1) /\ n \in Nat
      BY <1>1, <1>2
    <3>2. CASE x = 0
      <4>1. 0 \in Hasta(n - 1)
        BY <1>1, <1>2
      <4> QED BY <1>4, <1>6, <3>2, <4>1
    <3>3. CASE x # 0
      <4>1. PICK p \in B : Sucesor(celdas, p) = x
        BY <3>1, <3>3, Anterior
      <4>2. p \in Nat /\ p + 5 <= x
        BY <1>1, <4>1
      <4>3. p < 5 * n /\ 5 * ((n - 1) + 1) = 5 * n
        BY <3>1, <4>2
      <4>4. p \in Hasta(n - 1)
        BY <1>1, <4>3
      <4>5. p \in f[n - 1] /\ p \in DOMAIN celdas
        BY <1>1, <1>6, <4>4
      <4>6. x = p + M + celdas[p].size
        BY <1>1, <4>1
      <4> QED BY <1>4, <4>5, <4>6
    <3> QED BY <3>2, <3>3
  <2> QED BY <2>1, <2>2
<1>7. Mal = {}
  <2> SUFFICES ASSUME Mal # {} PROVE FALSE
    OBVIOUS
  <2> HIDE DEF Bien
  <2>1. PICK m \in Mal : \A y \in Mal : m <= y
    <3>1. Mal \in SUBSET Nat
      BY <1>2
    <3> HIDE DEF Mal
    <3> QED BY <3>1, MenorFalla
  <2>2. m # 0
    BY <1>5, <2>1
  <2>3. m \in 1 .. K /\ m - 1 \in 0 .. K /\ ~ (m <= m - 1)
    BY <1>2, <2>1, <2>2
  <2>4. Bien(m - 1)
    BY <2>1, <2>3
  <2> QED BY <1>6, <2>1, <2>3, <2>4
<1>8. Bien(K)
  <2> HIDE DEF Bien
  <2> QED BY <1>2, <1>7
<1>9. B \cup {TAMPAG} \subseteq Hasta(K)
  <2>1. ASSUME NEW x \in B PROVE x < M * (K + 1)
    <3>1. x \in Nat /\ x + M <= TAMPAG
      BY PartidaTipo
    <3> QED BY <1>1, <1>2, <3>1
  <2> QED BY <1>2, <2>1
<1>10. f[K] = B \cup {TAMPAG}
  BY <1>8, <1>9
<1>11. (B \cup {TAMPAG}) \cap DOMAIN celdas = B
  BY <1>1
<1> QED BY <1>3, <1>10, <1>11 DEF BloquesDe

(* What the writing of a header leaves. *)
LEMMA OtrasCabeceras ==
  ASSUME NEW celdas, NEW a, NEW size, NEW uso, NEW c, c = ConCabecera(celdas, a, size, uso)
  PROVE  /\ a \in DOMAIN c /\ c[a] = [size |-> size, uso |-> uso]
         /\ c[a].size = size /\ c[a].uso = uso
         /\ DOMAIN c \subseteq DOMAIN celdas \cup {a}
         /\ \A o \in DOMAIN celdas :
              o # a /\ (o <= a - M \/ o >= a + M) => o \in DOMAIN c /\ c[o] = celdas[o]
<1>1. /\ a \in DOMAIN c /\ c[a] = [size |-> size, uso |-> uso]
      /\ DOMAIN c \subseteq DOMAIN celdas \cup {a}
      /\ \A o \in DOMAIN celdas :
           o # a /\ (o <= a - M \/ o >= a + M) => o \in DOMAIN c /\ c[o] = celdas[o]
  BY DEF ConCabecera
<1>2. c[a].size = size /\ c[a].uso = uso
  BY <1>1
<1> QED BY <1>1, <1>2

-----------------------------------------------------------------------------
(* The three changes that a page gets.                                     *)

(* compactarPaginaHeap: a block swallows the next one. *)
LEMMA PartidaUnida ==
  ASSUME NEW celdas, NEW B, Partida(celdas, B), NEW a \in B, NEW b \in B,
         b = Sucesor(celdas, a), NEW v \in Usos,
         NEW n, n = celdas[a].size + M + celdas[b].size, NEW c, c = ConCabecera(celdas, a, n, v)
  PROVE  /\ Partida(c, B \ {b})
         /\ \A o \in B \ {a, b} : c[o] = celdas[o]
         /\ c[a].size = n /\ c[a].uso = v
<1> DEFINE C == B \ {b}
<1>1. /\ B \in SUBSET Nat /\ B \subseteq DOMAIN celdas /\ 0 \in B /\ M = 5
      /\ \A o \in B : /\ o \in Nat /\ celdas[o].size \in Nat /\ celdas[o] \in Cabeceras
                      /\ Sucesor(celdas, o) = o + M + celdas[o].size
                      /\ Sucesor(celdas, o) \in B \cup {TAMPAG}
                      /\ Sucesor(celdas, o) \in Nat /\ o + M <= Sucesor(celdas, o)
      /\ \A o, x \in B : o < x => Sucesor(celdas, o) <= x
  BY PartidaTipo
<1>2. /\ a \in DOMAIN c /\ c[a] = [size |-> n, uso |-> v] /\ c[a].size = n /\ c[a].uso = v
      /\ DOMAIN c \subseteq DOMAIN celdas \cup {a}
      /\ \A o \in DOMAIN celdas :
           o # a /\ (o <= a - M \/ o >= a + M) => o \in DOMAIN c /\ c[o] = celdas[o]
  <2>1. c = ConCabecera(celdas, a, n, v)
    OBVIOUS
  <2>2. /\ a \in DOMAIN c /\ c[a] = [size |-> n, uso |-> v] /\ c[a].size = n /\ c[a].uso = v
        /\ DOMAIN c \subseteq DOMAIN celdas \cup {a}
        /\ \A o \in DOMAIN celdas :
             o # a /\ (o <= a - M \/ o >= a + M) => o \in DOMAIN c /\ c[o] = celdas[o]
    BY <2>1, OtrasCabeceras
  <2> QED BY <2>2
<1>3. n \in Nat /\ a \in Nat /\ b \in Nat /\ b = a + M + celdas[a].size /\ a < b
  BY <1>1
<1>4. Sucesor(celdas, b) = a + M + n
  BY <1>1, <1>3
<1>5. c[a].size = n /\ c[a] \in Cabeceras
  BY <1>2, <1>3 DEF Cabeceras
<1>6. Sucesor(c, a) = Sucesor(celdas, b)
  BY <1>4, <1>5 DEF Sucesor
<1>7. \A o \in B \ {a} : o \in DOMAIN c /\ c[o] = celdas[o] /\ Sucesor(c, o) = Sucesor(celdas, o)
  <2>1. ASSUME NEW o \in B \ {a} PROVE o <= a - M \/ o >= a + M
    <3>1. o < a => Sucesor(celdas, o) <= a
      BY <1>1
    <3>2. o > a => Sucesor(celdas, a) <= o
      BY <1>1
    <3> QED BY <1>1, <1>3, <3>1, <3>2
  <2>2. \A o \in B \ {a} : o \in DOMAIN c /\ c[o] = celdas[o]
    BY <1>1, <1>2, <2>1
  <2> QED BY <2>2 DEF Sucesor
<1>8. DOMAIN c \subseteq 0 .. TAMPAG - M /\ C \subseteq DOMAIN c /\ 0 \in C
  <2>1. DOMAIN celdas \subseteq 0 .. TAMPAG - M
    BY DEF Partida
  <2>2. DOMAIN c \subseteq 0 .. TAMPAG - M
    BY <1>1, <1>2, <2>1
  <2>3. 0 \in C
    BY <1>1, <1>3
  <2>4. C \subseteq DOMAIN c
    BY <1>2, <1>7
  <2> QED BY <2>2, <2>3, <2>4
<1>9. ASSUME NEW o \in C
      PROVE  c[o] \in Cabeceras /\ Sucesor(c, o) \in C \cup {TAMPAG}
  <2>1. CASE o = a
    <3>1. Sucesor(celdas, b) # b
      BY <1>1, <1>3
    <3> QED BY <1>1, <1>5, <1>6, <2>1, <3>1
  <2>2. CASE o # a
    <3>1. Sucesor(c, o) = Sucesor(celdas, o) /\ c[o] = celdas[o] /\ o \in B
      BY <1>7, <2>2
    <3>2. Sucesor(celdas, o) # b
      <4>1. CASE o < a
        BY <1>1, <1>3, <4>1
      <4>2. CASE o > a
        <5>1. b <= o
          BY <1>1, <4>2
        <5> QED BY <1>1, <1>3, <5>1
      <4> QED BY <1>1, <1>3, <2>2, <4>1, <4>2
    <3> QED BY <1>1, <3>1, <3>2
  <2> QED BY <2>1, <2>2
<1>10. ASSUME NEW o \in C, NEW x \in C, o < x
       PROVE  Sucesor(c, o) <= x
  <2>1. CASE o = a
    <3>1. b <= x
      BY <1>1, <1>10, <2>1
    <3>2. b < x
      BY <1>1, <1>3, <3>1
    <3> QED BY <1>1, <1>6, <2>1, <3>2
  <2>2. CASE o # a
    BY <1>1, <1>7, <1>10, <2>2
  <2> QED BY <2>1, <2>2
<1>11. Partida(c, C)
  BY <1>8, <1>9, <1>10 DEF Partida
<1>12. \A o \in B \ {a, b} : c[o] = celdas[o]
  BY <1>7
<1> QED BY <1>2, <1>11, <1>12

(* liberarBloqueHeap: a block changes its use, and nothing moves. *)
LEMMA PartidaUso ==
  ASSUME NEW celdas, NEW B, Partida(celdas, B), NEW a \in B, NEW uso \in Usos,
         NEW c, c = ConCabecera(celdas, a, celdas[a].size, uso)
  PROVE  /\ Partida(c, B)
         /\ \A o \in B \ {a} : c[o] = celdas[o]
         /\ c[a].size = celdas[a].size /\ c[a].uso = uso
<1> DEFINE n == celdas[a].size
<1>1. /\ B \in SUBSET Nat /\ B \subseteq DOMAIN celdas /\ 0 \in B /\ M = 5
      /\ \A o \in B : /\ o \in Nat /\ celdas[o].size \in Nat /\ celdas[o] \in Cabeceras
                      /\ Sucesor(celdas, o) = o + M + celdas[o].size
                      /\ Sucesor(celdas, o) \in B \cup {TAMPAG}
                      /\ Sucesor(celdas, o) \in Nat /\ o + M <= Sucesor(celdas, o)
      /\ \A o, x \in B : o < x => Sucesor(celdas, o) <= x
  BY PartidaTipo
<1>2. /\ a \in DOMAIN c /\ c[a] = [size |-> n, uso |-> uso] /\ c[a].size = n /\ c[a].uso = uso
      /\ DOMAIN c \subseteq DOMAIN celdas \cup {a}
      /\ \A o \in DOMAIN celdas :
           o # a /\ (o <= a - M \/ o >= a + M) => o \in DOMAIN c /\ c[o] = celdas[o]
  <2>1. c = ConCabecera(celdas, a, n, uso)
    OBVIOUS
  <2> QED BY <2>1, OtrasCabeceras
<1>3. n \in Nat /\ a \in Nat
  BY <1>1
<1>4. c[a].size = n /\ c[a] \in Cabeceras /\ Sucesor(c, a) = Sucesor(celdas, a)
  <2>1. c[a].size = n /\ c[a] \in Cabeceras
    <3> HIDE DEF n
    <3> QED BY <1>2, <1>3 DEF Cabeceras
  <2> QED BY <2>1 DEF Sucesor
<1>5. \A o \in B \ {a} : o \in DOMAIN c /\ c[o] = celdas[o] /\ Sucesor(c, o) = Sucesor(celdas, o)
  <2>1. ASSUME NEW o \in B \ {a} PROVE o <= a - M \/ o >= a + M
    <3>1. o < a => Sucesor(celdas, o) <= a
      BY <1>1
    <3>2. o > a => Sucesor(celdas, a) <= o
      BY <1>1
    <3> QED BY <1>1, <1>3, <3>1, <3>2
  <2>2. \A o \in B \ {a} : o \in DOMAIN c /\ c[o] = celdas[o]
    BY <1>1, <1>2, <2>1
  <2> QED BY <2>2 DEF Sucesor
<1>6. \A o \in B : o \in DOMAIN c /\ c[o] \in Cabeceras /\ Sucesor(c, o) = Sucesor(celdas, o)
  BY <1>1, <1>2, <1>4, <1>5
<1>7. DOMAIN c \subseteq 0 .. TAMPAG - M
  <2>1. DOMAIN celdas \subseteq 0 .. TAMPAG - M
    BY DEF Partida
  <2> QED BY <1>1, <1>2, <2>1
<1>8. Partida(c, B)
  BY <1>1, <1>6, <1>7 DEF Partida
<1> QED BY <1>2, <1>5, <1>8

(* reservarBloqueHeap: a free block is cut in two. *)
EsCorte(celdas, B, a, t, u, v, d, r, e, c) ==
  /\ Partida(celdas, B) /\ a \in B /\ t \in Nat /\ Entra(celdas, a, t)
  /\ u \in Usos /\ v \in Usos
  /\ d = Tras(a, t) /\ r = Resto(celdas[a].size, t)
  /\ e = ConCabecera(celdas, a, t, u) /\ c = ConCabecera(e, d, r, v)
QuedaCortada(celdas, B, a, t, u, v, d, r, c) ==
  /\ Partida(c, B \cup {d}) /\ d \notin B
  /\ \A o \in B \ {a} : c[o] = celdas[o]
  /\ c[a] = [size |-> t, uso |-> u] /\ c[a].uso = u
  /\ c[d].size = r /\ c[d].uso = v

LEMMA PartidaCortada ==
  ASSUME NEW celdas, NEW B, NEW a, NEW t, NEW u, NEW v, NEW d, NEW r, NEW e, NEW c,
         EsCorte(celdas, B, a, t, u, v, d, r, e, c)
  PROVE  QuedaCortada(celdas, B, a, t, u, v, d, r, c)
<1> DEFINE n == celdas[a].size
           s == Sucesor(celdas, a)
           C == B \cup {d}
<1>0. /\ Partida(celdas, B) /\ a \in B /\ t \in Nat /\ Entra(celdas, a, t)
      /\ u \in Usos /\ v \in Usos
      /\ d = Tras(a, t) /\ r = Resto(celdas[a].size, t)
      /\ e = ConCabecera(celdas, a, t, u) /\ c = ConCabecera(e, d, r, v)
  BY DEF EsCorte
<1>1. /\ a \in B /\ t \in Nat /\ u \in Usos /\ v \in Usos
      /\ B \in SUBSET Nat /\ B \subseteq DOMAIN celdas /\ 0 \in B /\ M = 5
      /\ \A o \in B : /\ o \in Nat /\ celdas[o].size \in Nat /\ celdas[o] \in Cabeceras
                      /\ Sucesor(celdas, o) = o + M + celdas[o].size /\ o + M <= TAMPAG
                      /\ Sucesor(celdas, o) \in B \cup {TAMPAG}
                      /\ Sucesor(celdas, o) \in Nat /\ o + M <= Sucesor(celdas, o)
      /\ \A o, x \in B : o < x => Sucesor(celdas, o) <= x
      /\ TAMPAG \in Nat
  BY ONLY <1>0, PartidaTipo
<1>a. celdas[a].size >= t + M /\ d = a + M + t /\ r = celdas[a].size - t - M
  BY ONLY <1>0 DEF Entra, Tras, Resto
<1>2. /\ a \in DOMAIN e /\ e[a] = [size |-> t, uso |-> u] /\ e[a].size = t /\ e[a].uso = u
      /\ DOMAIN e \subseteq DOMAIN celdas \cup {a}
      /\ \A o \in DOMAIN celdas :
           o # a /\ (o <= a - M \/ o >= a + M) => o \in DOMAIN e /\ e[o] = celdas[o]
  <2>1. e = ConCabecera(celdas, a, t, u)
    BY ONLY <1>0
  <2>2. /\ a \in DOMAIN e /\ e[a] = [size |-> t, uso |-> u] /\ e[a].size = t /\ e[a].uso = u
        /\ DOMAIN e \subseteq DOMAIN celdas \cup {a}
        /\ \A o \in DOMAIN celdas :
             o # a /\ (o <= a - M \/ o >= a + M) => o \in DOMAIN e /\ e[o] = celdas[o]
    BY ONLY <2>1, OtrasCabeceras
  <2> QED BY <2>2
<1>3. /\ d \in DOMAIN c /\ c[d] = [size |-> r, uso |-> v]
      /\ c[d].size = r /\ c[d].uso = v
      /\ DOMAIN c \subseteq DOMAIN e \cup {d}
      /\ \A o \in DOMAIN e :
           o # d /\ (o <= d - M \/ o >= d + M) => o \in DOMAIN c /\ c[o] = e[o]
  <2>1. c = ConCabecera(e, d, r, v)
    BY ONLY <1>0
  <2>2. /\ d \in DOMAIN c /\ c[d] = [size |-> r, uso |-> v] /\ c[d].size = r /\ c[d].uso = v
        /\ DOMAIN c \subseteq DOMAIN e \cup {d}
        /\ \A o \in DOMAIN e :
             o # d /\ (o <= d - M \/ o >= d + M) => o \in DOMAIN c /\ c[o] = e[o]
    BY ONLY <2>1, OtrasCabeceras
  <2> QED BY <2>2
<1>4. /\ n \in Nat /\ a \in Nat /\ d \in Nat /\ r \in Nat /\ s \in Nat
      /\ s = d + M + r /\ a + M <= d /\ d + M <= s /\ s <= TAMPAG
      /\ s \in B \cup {TAMPAG}
  <2>1. s \in B => s + M <= TAMPAG
    BY <1>1
  <2> QED BY <1>1, <1>a, <2>1
<1>5. \A o \in B \ {a} : o <= a - M \/ o >= s
  <2>1. ASSUME NEW o \in B \ {a} PROVE o <= a - M \/ o >= s
    <3>1. o < a => Sucesor(celdas, o) <= a
      BY ONLY <1>1
    <3>2. o > a => s <= o
      BY ONLY <1>1
    <3> QED BY ONLY <1>1, <1>4, <3>1, <3>2
  <2> QED BY ONLY <2>1
<1>6. DOMAIN celdas \subseteq 0 .. TAMPAG - M
  BY ONLY <1>0 DEF Partida
<1>7. d \notin B
  BY ONLY <1>1, <1>4, <1>5
<1>8. \A o \in B \ {a} : o \in DOMAIN c /\ c[o] = celdas[o]
  <2>1. ASSUME NEW o \in B \ {a} PROVE o \in DOMAIN c /\ c[o] = celdas[o]
    <3>1. o \in Nat /\ o # a /\ o # d
      BY ONLY <1>1, <1>7
    <3>2. (o <= a - M \/ o >= a + M) /\ (o <= d - M \/ o >= d + M)
      BY ONLY <1>1, <1>4, <1>5, <3>1
    <3>3. o \in DOMAIN e /\ e[o] = celdas[o]
      BY ONLY <1>1, <1>2, <3>1, <3>2
    <3> QED BY ONLY <1>3, <3>1, <3>2, <3>3
  <2> QED BY ONLY <2>1
<1>9. a \in DOMAIN c /\ c[a] = [size |-> t, uso |-> u] /\ c[a].size = t /\ c[a].uso = u
  <2>1. a # d /\ a <= d - M
    BY ONLY <1>1, <1>4
  <2> QED BY ONLY <1>2, <1>3, <2>1
<1>10. /\ c[a] \in Cabeceras /\ c[a].size = t /\ Sucesor(c, a) = d
       /\ c[d] \in Cabeceras /\ c[d].size = r /\ Sucesor(c, d) = s
  <2>1. c[a] \in Cabeceras /\ c[a].size = t
    BY ONLY <1>1, <1>9 DEF Cabeceras
  <2>2. c[d] \in Cabeceras /\ c[d].size = r
    <3>1. r \in Nat /\ c[d] = [size |-> r, uso |-> v]
      BY ONLY <1>3, <1>4
    <3> QED BY ONLY <1>1, <3>1 DEF Cabeceras
  <2>3. Sucesor(c, a) = d
    BY ONLY <1>a, <2>1 DEF Sucesor
  <2>4. Sucesor(c, d) = s
    BY ONLY <2>2, <1>4 DEF Sucesor
  <2> QED BY ONLY <2>1, <2>2, <2>3, <2>4
<1>11. DOMAIN c \subseteq 0 .. TAMPAG - M /\ C \subseteq DOMAIN c /\ 0 \in C
  <2>1. d \in 0 .. TAMPAG - M /\ a \in 0 .. TAMPAG - M
    BY ONLY <1>1, <1>4
  <2>2. DOMAIN c \subseteq 0 .. TAMPAG - M
    BY ONLY <1>2, <1>3, <1>6, <2>1
  <2> QED BY ONLY <1>1, <1>3, <1>8, <1>9, <2>2
<1>12. ASSUME NEW o \in C
       PROVE  c[o] \in Cabeceras /\ Sucesor(c, o) \in C \cup {TAMPAG}
  <2>1. CASE o = a
    BY ONLY <1>10, <2>1
  <2>2. CASE o = d
    BY ONLY <1>4, <1>10, <2>2
  <2>3. CASE o # a /\ o # d
    <3>1. o \in B \ {a} /\ c[o] = celdas[o] /\ Sucesor(c, o) = Sucesor(celdas, o)
      BY ONLY <1>8, <2>3 DEF Sucesor
    <3> QED BY ONLY <1>1, <3>1
  <2> QED BY ONLY <2>1, <2>2, <2>3
<1>13. ASSUME NEW o \in C, NEW x \in C, o < x
       PROVE  Sucesor(c, o) <= x
  <2>1. CASE o = a
    <3>1. x \in B \ {a} \/ x = d
      BY ONLY <1>1, <1>4, <1>13, <2>1
    <3>2. x \in Nat
      BY ONLY <1>1, <1>4
    <3>3. x \in B \ {a} => x >= s
      BY ONLY <1>1, <1>4, <1>5, <1>13, <2>1
    <3>4. Sucesor(c, o) = d /\ d <= s
      BY ONLY <1>1, <1>4, <1>10, <2>1
    <3> QED BY ONLY <1>4, <3>1, <3>2, <3>3, <3>4
  <2>2. CASE o = d
    <3>1. x \in Nat /\ x \in B \ {a}
      BY ONLY <1>1, <1>4, <1>13, <2>2
    <3>2. d < x
      BY ONLY <1>13, <2>2
    <3>3. x >= s
      BY ONLY <1>1, <1>4, <1>5, <3>1, <3>2
    <3>4. Sucesor(c, o) = s
      BY ONLY <1>10, <2>2
    <3> QED BY ONLY <1>4, <3>1, <3>3, <3>4
  <2>3. CASE o # a /\ o # d
    <3>1. o \in B \ {a} /\ Sucesor(c, o) = Sucesor(celdas, o) /\ o \in Nat
      BY ONLY <1>1, <1>8, <2>3 DEF Sucesor
    <3>2. CASE x = d
      <4>1. o < a
        BY ONLY <1>1, <1>4, <1>5, <1>13, <3>1, <3>2
      <4>2. Sucesor(celdas, o) <= a /\ Sucesor(celdas, o) \in Nat
        BY ONLY <1>1, <3>1, <4>1
      <4> QED BY ONLY <1>1, <1>4, <3>1, <3>2, <4>2
    <3>3. CASE x # d
      <4>1. x \in B /\ Sucesor(celdas, o) <= x
        BY ONLY <1>1, <1>13, <3>1, <3>3
      <4> QED BY ONLY <3>1, <4>1
    <3> QED BY ONLY <3>2, <3>3
  <2> QED BY ONLY <2>1, <2>2, <2>3
<1>14. Partida(c, C)
  BY ONLY <1>11, <1>12, <1>13 DEF Partida
<1> QED BY ONLY <1>3, <1>7, <1>8, <1>9, <1>14 DEF QuedaCortada

(* reservarPaginaHeap: a page with one block. *)
LEMMA PartidaNueva ==
  ASSUME NEW v \in Usos, NEW c, c = ConCabecera(<< >>, 0, TAMPAG - M, v)
  PROVE  Partida(c, {0}) /\ c[0].size = TAMPAG - M /\ c[0].uso = v
<1> DEFINE n == TAMPAG - M
<1>1. 0 \in DOMAIN c /\ c[0] = [size |-> n, uso |-> v] /\ c[0].size = n /\ c[0].uso = v
      /\ DOMAIN c \subseteq DOMAIN << >> \cup {0}
  <2>1. c = ConCabecera(<< >>, 0, n, v)
    OBVIOUS
  <2> HIDE DEF n
  <2>2. 0 \in DOMAIN c /\ c[0] = [size |-> n, uso |-> v] /\ c[0].size = n /\ c[0].uso = v /\ DOMAIN c \subseteq DOMAIN << >> \cup {0}
    BY <2>1, OtrasCabeceras
  <2> QED BY <2>2
<1>2. n \in Nat /\ 0 + M + n = TAMPAG
  BY TAMPAGAssumption DEF M
<1> HIDE DEF n
<1>3. c[0] \in Cabeceras /\ c[0].size = n
  BY <1>1, <1>2 DEF Cabeceras
<1>4. Sucesor(c, 0) = TAMPAG
  BY <1>2, <1>3 DEF Sucesor
<1>5. DOMAIN c = {0} /\ 0 \in 0 .. n
  <2>1. DOMAIN << >> = {}
    OBVIOUS
  <2> QED BY ONLY <1>1, <1>2, <2>1
<1>6. Partida(c, {0})
  BY <1>3, <1>4, <1>5 DEF Partida, n
<1> QED BY <1>1, <1>6 DEF n

-----------------------------------------------------------------------------
(* The free bytes of a page: a sum over its blocks, in whatever order.     *)

LibreEn(celdas, o) == IF celdas[o].uso THEN 0 ELSE celdas[o].size
Suma(celdas, S) ==
  MapThenSumSet(LAMBDA o : IF celdas[o].uso THEN 0 ELSE celdas[o].size, S)
EsSuma(f, celdas, S) ==
  /\ f \in [SUBSET S -> Nat] /\ f[{}] = 0
  /\ \A s \in SUBSET S : \A x \in s : f[s] = LibreEn(celdas, x) + f[s \ {x}]

(* One more block. *)
LEMMA SumaUnoMas ==
  ASSUME NEW celdas, NEW T, NEW a \in T, NEW f, EsSuma(f, celdas, T \ {a}),
         \A o \in T : LibreEn(celdas, o) \in Nat
  PROVE  \E g : EsSuma(g, celdas, T)
<1> DEFINE R == T \ {a}
           w(o) == LibreEn(celdas, o)
           g == [s \in SUBSET T |-> IF a \in s THEN w(a) + f[s \ {a}] ELSE f[s]]
<1>1. /\ f \in [SUBSET R -> Nat] /\ f[{}] = 0
      /\ \A s \in SUBSET R : \A x \in s : f[s] = w(x) + f[s \ {x}]
  BY DEF EsSuma
<1>2. \A o \in T : w(o) \in Nat
  OBVIOUS
<1>3. \A s \in SUBSET T : s \ {a} \in SUBSET R /\ (a \notin s => s \in SUBSET R)
  OBVIOUS
<1> HIDE DEF w, R
<1>4. g \in [SUBSET T -> Nat]
  <2>1. ASSUME NEW s \in SUBSET T
        PROVE  (IF a \in s THEN w(a) + f[s \ {a}] ELSE f[s]) \in Nat
    <3>1. f[s \ {a}] \in Nat /\ (a \notin s => f[s] \in Nat)
      BY <1>1, <1>3
    <3> QED BY <1>2, <3>1
  <2> QED BY <2>1
<1>5. g[{}] = 0
  BY <1>1
<1>6. ASSUME NEW s \in SUBSET T, NEW x \in s
      PROVE  g[s] = w(x) + g[s \ {x}]
  <2>0. s \ {x} \in SUBSET T /\ x \in T
    OBVIOUS
  <2>1. CASE x = a
    <3>1. g[s] = w(a) + f[s \ {a}]
      BY <2>1
    <3>2. g[s \ {x}] = f[s \ {a}]
      BY <2>0, <2>1
    <3> QED BY <2>1, <3>1, <3>2
  <2>2. CASE x # a /\ a \in s
    <3> DEFINE u == s \ {a}
               v == u \ {x}
    <3>1. u \in SUBSET R /\ x \in u /\ v \in SUBSET R /\ v = (s \ {x}) \ {a}
      BY <1>3, <2>2
    <3>2. g[s] = w(a) + f[u]
      BY <2>2
    <3>3. g[s \ {x}] = w(a) + f[v]
      BY <2>0, <2>2, <3>1
    <3> HIDE DEF u, g
    <3>4. f[u] = w(x) + f[v]
      BY <1>1, <3>1
    <3>5. w(a) \in Nat /\ w(x) \in Nat /\ f[v] \in Nat
      BY <1>1, <1>2, <2>0, <3>1
    <3> HIDE DEF v
    <3> QED BY <3>2, <3>3, <3>4, <3>5
  <2>3. CASE a \notin s
    <3>1. s \in SUBSET R /\ g[s] = f[s] /\ g[s \ {x}] = f[s \ {x}]
      BY <1>3, <2>0, <2>3
    <3> QED BY <1>1, <3>1
  <2> QED BY <2>1, <2>2, <2>3
<1>7. EsSuma(g, celdas, T)
  <2> HIDE DEF g
  <2> QED BY <1>4, <1>5, <1>6 DEF EsSuma, w
<1> QED BY <1>7

LEMMA HaySuma ==
  ASSUME NEW celdas, NEW S, IsFiniteSet(S), \A o \in S : LibreEn(celdas, o) \in Nat
  PROVE  \E f : EsSuma(f, celdas, S)
<1> DEFINE Sin(T) == ~ \E f : EsSuma(f, celdas, T)
           Mal == {n \in Nat : \E T \in SUBSET S : Cardinality(T) = n /\ Sin(T)}
<1>1. Mal = {}
  <2> SUFFICES ASSUME Mal # {} PROVE FALSE
    OBVIOUS
  <2>1. PICK n \in Mal : \A y \in Mal : n <= y
    <3>1. Mal \in SUBSET Nat
      OBVIOUS
    <3> HIDE DEF Mal
    <3> QED BY <3>1, MenorFalla
  <2>2. PICK T \in SUBSET S : Cardinality(T) = n /\ Sin(T)
    BY <2>1
  <2>3. IsFiniteSet(T) /\ n \in Nat
    BY <2>1, FS_Subset
  <2>4. CASE T = {}
    <3> DEFINE f == [s \in SUBSET {} |-> 0]
    <3>1. f \in [SUBSET {} -> Nat] /\ f[{}] = 0
      OBVIOUS
    <3>2. \A s \in SUBSET {} : \A x \in s : f[s] = LibreEn(celdas, x) + f[s \ {x}]
      OBVIOUS
    <3>3. EsSuma(f, celdas, {})
      <4> HIDE DEF f
      <4> QED BY <3>1, <3>2 DEF EsSuma
    <3> QED BY <2>2, <2>4, <3>3
  <2>5. CASE T # {}
    <3>1. PICK a \in T : TRUE
      BY <2>5
    <3>2. IsFiniteSet(T \ {a}) /\ Cardinality(T \ {a}) = n - 1 /\ T \ {a} \in SUBSET S
      BY <2>2, <2>3, <3>1, FS_RemoveElement
    <3>3. n - 1 \in Nat
      BY <3>2, FS_CardinalityType
    <3>4. n - 1 \notin Mal
      <4>1. ~ (n <= n - 1)
        BY <2>3
      <4> HIDE DEF Mal
      <4> QED BY <2>1, <4>1
    <3>5. ~ Sin(T \ {a})
      BY <3>2, <3>3, <3>4
    <3>6. PICK f : EsSuma(f, celdas, T \ {a})
      BY <3>5
    <3>7. \A o \in T : LibreEn(celdas, o) \in Nat
      BY <2>2
    <3>8. \E g : EsSuma(g, celdas, T)
      BY <3>1, <3>6, <3>7, SumaUnoMas
    <3> QED BY <2>2, <3>8
  <2> QED BY <2>4, <2>5
<1>2. Cardinality(S) \in Nat /\ S \in SUBSET S
  BY FS_CardinalityType
<1>3. ~ Sin(S)
  BY <1>1, <1>2
<1> QED BY <1>3

(* The sum of the model is the only one there is. *)
LEMMA SumaDefinida ==
  ASSUME NEW celdas, NEW S, IsFiniteSet(S), NEW f, EsSuma(f, celdas, S)
  PROVE  Suma(celdas, S) = f[S]
<1> DEFINE Elige(s) == CHOOSE x \in s : TRUE
           w(o) == IF celdas[o].uso THEN 0 ELSE celdas[o].size
           iter[s \in SUBSET S] ==
             IF s = {} THEN 0 ELSE LET x == Elige(s) IN w(x) + iter[s \ {x}]
           Es(h) == h = [s \in SUBSET S |->
                           IF s = {} THEN 0 ELSE LET x == Elige(s) IN w(x) + h[s \ {x}]]
<1>1. Suma(celdas, S) = iter[S]
  BY DEF Suma, MapThenSumSet, MapThenFoldSet
<1>2. \A s \in SUBSET S : s # {} => Elige(s) \in s /\ s \ {Elige(s)} \in SUBSET S
  OBVIOUS
<1>3. /\ f \in [SUBSET S -> Nat] /\ f[{}] = 0
      /\ \A s \in SUBSET S : \A x \in s : f[s] = w(x) + f[s \ {x}]
  BY DEF EsSuma, LibreEn
<1>4. Es(f)
  <2> HIDE DEF Elige, w
  <2> QED BY <1>2, <1>3
<1>5. Es(iter)
  BY <1>4
<1>6. \A s \in SUBSET S :
        iter[s] = IF s = {} THEN 0 ELSE w(Elige(s)) + iter[s \ {Elige(s)}]
  <2> HIDE DEF iter, Elige, w
  <2> QED BY <1>5
<1> HIDE DEF iter, Elige, w, Es
<1> DEFINE Mal == {n \in Nat : \E s \in SUBSET S : Cardinality(s) = n /\ iter[s] # f[s]}
<1>7. Mal = {}
  <2> SUFFICES ASSUME Mal # {} PROVE FALSE
    OBVIOUS
  <2>1. PICK n \in Mal : \A y \in Mal : n <= y
    <3>1. Mal \in SUBSET Nat
      OBVIOUS
    <3> HIDE DEF Mal
    <3> QED BY <3>1, MenorFalla
  <2>2. PICK s \in SUBSET S : Cardinality(s) = n /\ iter[s] # f[s]
    BY <2>1
  <2>3. IsFiniteSet(s) /\ n \in Nat
    BY <2>1, FS_Subset
  <2>4. s # {}
    BY <1>3, <1>6, <2>2
  <2> DEFINE x == Elige(s)
             u == s \ {x}
  <2>5. x \in s /\ u \in SUBSET S
    BY <1>2, <2>4
  <2>6. Cardinality(u) = n - 1
    <3> HIDE DEF x
    <3> QED BY <2>2, <2>3, <2>5, FS_RemoveElement
  <2>7. n - 1 \in Nat
    <3>1. IsFiniteSet(u)
      BY <2>5, FS_Subset
    <3> HIDE DEF u
    <3> QED BY <2>6, <3>1, FS_CardinalityType
  <2>8. n - 1 \notin Mal
    <3>1. ~ (n <= n - 1)
      BY <2>3
    <3> HIDE DEF Mal
    <3> QED BY <2>1, <3>1
  <2>9. iter[u] = f[u]
    <3> HIDE DEF u
    <3> QED BY <2>5, <2>6, <2>7, <2>8
  <2>10. iter[s] = w(x) + iter[u] /\ f[s] = w(x) + f[u]
    BY <1>3, <1>6, <2>4, <2>5
  <2> HIDE DEF x, u
  <2> QED BY <2>2, <2>9, <2>10
<1>8. Cardinality(S) \in Nat /\ S \in SUBSET S
  BY FS_CardinalityType
<1>9. iter[S] = f[S]
  BY <1>7, <1>8
<1> QED BY <1>1, <1>9

(* What it is over one block more, and over blocks that did not change.    *)
LEMMA SumaDeUno ==
  ASSUME NEW celdas, NEW S, IsFiniteSet(S), \A o \in S : LibreEn(celdas, o) \in Nat, NEW a \in S
  PROVE  /\ Suma(celdas, S) \in Nat /\ Suma(celdas, S \ {a}) \in Nat
         /\ Suma(celdas, S) = LibreEn(celdas, a) + Suma(celdas, S \ {a})
<1>1. PICK f : EsSuma(f, celdas, S)
  BY HaySuma
<1>2. /\ f \in [SUBSET S -> Nat] /\ f[{}] = 0
      /\ \A s \in SUBSET S : \A x \in s : f[s] = LibreEn(celdas, x) + f[s \ {x}]
  BY <1>1 DEF EsSuma
<1> DEFINE R == S \ {a}
           g == [s \in SUBSET R |-> f[s]]
<1>3. SUBSET R \subseteq SUBSET S /\ R \in SUBSET R /\ S \in SUBSET S /\ {} \in SUBSET R
  OBVIOUS
<1>4. EsSuma(g, celdas, R)
  <2>1. g \in [SUBSET R -> Nat] /\ g[{}] = 0
    BY <1>2, <1>3
  <2>2. ASSUME NEW s \in SUBSET R, NEW x \in s
        PROVE  g[s] = LibreEn(celdas, x) + g[s \ {x}]
    <3>1. s \ {x} \in SUBSET R /\ s \in SUBSET S
      BY <1>3
    <3>2. g[s] = f[s] /\ g[s \ {x}] = f[s \ {x}]
      BY <3>1
    <3> QED BY <1>2, <3>1, <3>2
  <2> HIDE DEF g
  <2> QED BY <2>1, <2>2 DEF EsSuma
<1>5. IsFiniteSet(R)
  BY FS_RemoveElement
<1>6. Suma(celdas, S) = f[S] /\ Suma(celdas, R) = g[R]
  <2> HIDE DEF g, R
  <2> QED BY <1>1, <1>4, <1>5, SumaDefinida
<1>7. g[R] = f[R] /\ f[R] \in Nat /\ f[S] \in Nat
  BY <1>2, <1>3
<1>8. f[S] = LibreEn(celdas, a) + f[R]
  BY <1>2, <1>3
<1> QED BY <1>6, <1>7, <1>8

LEMMA SumaIgual ==
  ASSUME NEW celdas, NEW c, NEW S, IsFiniteSet(S), \A o \in S : LibreEn(celdas, o) \in Nat,
         \A o \in S : c[o] = celdas[o]
  PROVE  Suma(c, S) = Suma(celdas, S)
<1>1. PICK f : EsSuma(f, celdas, S)
  BY HaySuma
<1>2. \A o \in S : LibreEn(c, o) = LibreEn(celdas, o)
  BY DEF LibreEn
<1>3. EsSuma(f, c, S)
  BY <1>1, <1>2 DEF EsSuma
<1> QED BY <1>1, <1>3, SumaDefinida

LEMMA SumaVacia ==
  ASSUME NEW celdas
  PROVE  Suma(celdas, {}) = 0
<1>1. IsFiniteSet({})
  BY FS_EmptySet
<1>2. PICK f : EsSuma(f, celdas, {})
  BY <1>1, HaySuma
<1> QED BY <1>1, <1>2, SumaDefinida DEF EsSuma

-----------------------------------------------------------------------------
(* A page, what a change does to its blocks and to what is free in it.     *)

EsPagina(celdas) == Partida(celdas, BloquesDe(celdas))

LEMMA PaginaTipo ==
  ASSUME NEW celdas, NEW B, Partida(celdas, B)
  PROVE  /\ EsPagina(celdas) /\ BloquesDe(celdas) = B
         /\ LibreDe(celdas) = Suma(celdas, B) /\ LibreDe(celdas) \in Nat
         /\ IsFiniteSet(B) /\ \A o \in B : LibreEn(celdas, o) \in Nat
<1>1. BloquesDe(celdas) = B
  BY PartidaCadena
<1>2. EsPagina(celdas) /\ LibreDe(celdas) = Suma(celdas, B)
  BY <1>1 DEF EsPagina, LibreDe, Suma
<1>3. IsFiniteSet(B)
  <2>1. B \in SUBSET (0 .. TAMPAG - M) /\ TAMPAG - M \in Int
    BY TAMPAGAssumption DEF Partida, M
  <2>2. IsFiniteSet(0 .. TAMPAG - M)
    BY <2>1, FS_Interval
  <2> QED BY <2>1, <2>2, FS_Subset
<1>4. \A o \in B : LibreEn(celdas, o) \in Nat
  BY PartidaTipo DEF LibreEn
<1>5. 0 \in B
  BY DEF Partida
<1>6. Suma(celdas, B) \in Nat
  BY <1>3, <1>4, <1>5, SumaDeUno
<1> QED BY <1>1, <1>2, <1>3, <1>4, <1>6

LEMMA LibreUnida ==
  ASSUME NEW celdas, NEW B, Partida(celdas, B), NEW a \in B, NEW b \in B \ {a},
         ~ celdas[a].uso, ~ celdas[b].uso,
         NEW c, Partida(c, B \ {b}), \A o \in B \ {a, b} : c[o] = celdas[o],
         c[a].size = celdas[a].size + M + celdas[b].size, ~ c[a].uso
  PROVE  LibreDe(c) = LibreDe(celdas) + M
<1> DEFINE C == B \ {b}
           R == C \ {a}
<1>1. celdas[a].size \in Nat /\ celdas[b].size \in Nat /\ M = 5
  BY PartidaTipo
<1>2. /\ LibreDe(celdas) = Suma(celdas, B)
      /\ IsFiniteSet(B) /\ \A o \in B : LibreEn(celdas, o) \in Nat
  BY PaginaTipo
<1>3. /\ LibreDe(c) = Suma(c, C)
      /\ IsFiniteSet(C) /\ \A o \in C : LibreEn(c, o) \in Nat
  BY PaginaTipo
<1>4. /\ Suma(celdas, B) = LibreEn(celdas, b) + Suma(celdas, C)
      /\ Suma(celdas, C) \in Nat
  BY <1>2, SumaDeUno
<1>5. /\ Suma(celdas, C) = LibreEn(celdas, a) + Suma(celdas, R)
      /\ Suma(celdas, R) \in Nat
  <2>1. a \in C /\ \A o \in C : LibreEn(celdas, o) \in Nat
    BY <1>2
  <2>2. IsFiniteSet(C)
    BY <1>2, FS_RemoveElement
  <2> HIDE DEF C
  <2>3. Suma(celdas, C) = LibreEn(celdas, a) + Suma(celdas, C \ {a})
    BY <2>1, <2>2, SumaDeUno
  <2>4. Suma(celdas, C \ {a}) \in Nat
    BY <2>1, <2>2, SumaDeUno
  <2> QED BY <2>3, <2>4
<1>6. Suma(c, C) = LibreEn(c, a) + Suma(c, R)
  <2>1. a \in C
    OBVIOUS
  <2> HIDE DEF C
  <2> QED BY <1>3, <2>1, SumaDeUno
<1>7. Suma(c, R) = Suma(celdas, R)
  <2>1. IsFiniteSet(R)
    BY <1>3, FS_RemoveElement
  <2>2. \A o \in R : LibreEn(celdas, o) \in Nat /\ c[o] = celdas[o]
    BY <1>2
  <2> HIDE DEF R
  <2> QED BY <2>1, <2>2, SumaIgual
<1>8. /\ LibreEn(celdas, a) = celdas[a].size /\ LibreEn(celdas, b) = celdas[b].size
      /\ LibreEn(c, a) = celdas[a].size + M + celdas[b].size
  BY DEF LibreEn
<1>9. Suma(c, C) = Suma(celdas, B) + M
  BY <1>1, <1>4, <1>5, <1>6, <1>7, <1>8
<1> QED BY <1>2, <1>3, <1>9

LEMMA LibreLiberada ==
  ASSUME NEW celdas, NEW B, Partida(celdas, B), NEW a \in B, celdas[a].uso,
         NEW c, Partida(c, B), \A o \in B \ {a} : c[o] = celdas[o],
         c[a].size = celdas[a].size, ~ c[a].uso
  PROVE  LibreDe(c) = LibreDe(celdas) + celdas[a].size
<1> DEFINE R == B \ {a}
<1>1. celdas[a].size \in Nat
  BY PartidaTipo
<1>2. /\ LibreDe(celdas) = Suma(celdas, B)
      /\ IsFiniteSet(B) /\ \A o \in B : LibreEn(celdas, o) \in Nat
  BY PaginaTipo
<1>3. /\ LibreDe(c) = Suma(c, B)
      /\ \A o \in B : LibreEn(c, o) \in Nat
  BY PaginaTipo
<1>4. /\ Suma(celdas, B) = LibreEn(celdas, a) + Suma(celdas, R)
      /\ Suma(celdas, R) \in Nat
  BY <1>2, SumaDeUno
<1>5. Suma(c, B) = LibreEn(c, a) + Suma(c, R)
  BY <1>2, <1>3, SumaDeUno
<1>6. Suma(c, R) = Suma(celdas, R)
  <2>1. IsFiniteSet(R)
    BY <1>2, FS_RemoveElement
  <2>2. \A o \in R : LibreEn(celdas, o) \in Nat /\ c[o] = celdas[o]
    BY <1>2
  <2> HIDE DEF R
  <2> QED BY <2>1, <2>2, SumaIgual
<1>7. LibreEn(celdas, a) = 0 /\ LibreEn(c, a) = celdas[a].size
  BY DEF LibreEn
<1>8. Suma(c, B) = Suma(celdas, B) + celdas[a].size
  BY <1>1, <1>4, <1>5, <1>6, <1>7
<1> QED BY <1>2, <1>3, <1>8

SeOcupa(celdas, a, u, v) == ~ celdas[a].uso /\ u = TRUE /\ v = FALSE

LEMMA LibreCortada ==
  ASSUME NEW celdas, NEW B, NEW a, NEW t, NEW u, NEW v, NEW d, NEW r, NEW e, NEW c,
         EsCorte(celdas, B, a, t, u, v, d, r, e, c),
         QuedaCortada(celdas, B, a, t, u, v, d, r, c),
         SeOcupa(celdas, a, u, v)
  PROVE  LibreDe(c) = LibreDe(celdas) - t - M
<1> DEFINE C == B \cup {d}
           R == B \ {a}
<1>0. /\ Partida(celdas, B) /\ a \in B /\ t \in Nat /\ d \notin B
      /\ Partida(c, B \cup {d}) /\ \A o \in B \ {a} : c[o] = celdas[o]
      /\ c[a].uso /\ c[d].size = celdas[a].size - t - M /\ ~ c[d].uso
  BY DEF EsCorte, QuedaCortada, SeOcupa, Resto
<1>1. celdas[a].size \in Nat /\ M = 5
  BY <1>0, PartidaTipo
<1>2. /\ LibreDe(celdas) = Suma(celdas, B)
      /\ IsFiniteSet(B) /\ \A o \in B : LibreEn(celdas, o) \in Nat
  BY <1>0, PaginaTipo
<1>3. /\ LibreDe(c) = Suma(c, C)
      /\ IsFiniteSet(C) /\ \A o \in C : LibreEn(c, o) \in Nat
  BY <1>0, PaginaTipo
<1>4. /\ Suma(celdas, B) = LibreEn(celdas, a) + Suma(celdas, R)
      /\ Suma(celdas, R) \in Nat
  BY <1>0, <1>2, SumaDeUno
<1>5. Suma(c, C) = LibreEn(c, d) + Suma(c, B)
  <2>1. C \ {d} = B /\ d \in C
    BY <1>0
  <2>2. Suma(c, C) = LibreEn(c, d) + Suma(c, C \ {d})
    <3> HIDE DEF C
    <3> QED BY <1>3, <2>1, SumaDeUno
  <2> QED BY <2>1, <2>2
<1>6. Suma(c, B) = LibreEn(c, a) + Suma(c, R)
  <2>1. \A o \in B : LibreEn(c, o) \in Nat
    BY <1>3
  <2> QED BY <1>0, <1>2, <2>1, SumaDeUno
<1>7. Suma(c, R) = Suma(celdas, R)
  <2>1. IsFiniteSet(R)
    BY <1>2, FS_RemoveElement
  <2>2. \A o \in R : LibreEn(celdas, o) \in Nat /\ c[o] = celdas[o]
    BY <1>0, <1>2
  <2> HIDE DEF R
  <2> QED BY <2>1, <2>2, SumaIgual
<1>8. /\ LibreEn(celdas, a) = celdas[a].size /\ LibreEn(c, a) = 0
      /\ LibreEn(c, d) = celdas[a].size - t - M
  BY <1>0 DEF LibreEn, SeOcupa
<1>9. Suma(c, C) = Suma(celdas, B) - t - M
  BY <1>0, <1>1, <1>4, <1>5, <1>6, <1>7, <1>8
<1> QED BY <1>2, <1>3, <1>9

LEMMA LibreNueva ==
  ASSUME NEW c, Partida(c, {0}), c[0].size = TAMPAG - M, ~ c[0].uso
  PROVE  LibreDe(c) = TAMPAG - M
<1> DEFINE S == {0}
<1>1. /\ LibreDe(c) = Suma(c, S)
      /\ IsFiniteSet(S) /\ \A o \in S : LibreEn(c, o) \in Nat
  BY PaginaTipo
<1>2. 0 \in S /\ S \ {0} = {}
  OBVIOUS
<1>3. Suma(c, S) = LibreEn(c, 0) + Suma(c, S \ {0})
  <2> HIDE DEF S
  <2> QED BY <1>1, <1>2, SumaDeUno
<1>4. Suma(c, {}) = 0
  BY SumaVacia
<1>5. LibreEn(c, 0) = TAMPAG - M /\ TAMPAG - M \in Nat
  BY TAMPAGAssumption DEF LibreEn, M
<1> QED BY <1>1, <1>2, <1>3, <1>4, <1>5

-----------------------------------------------------------------------------
(* The loop of finalizarProceso over the list of records.                  *)

EsDepurada(f, lista, pid) ==
  f = [n \in 0 .. Len(lista) |->
         IF n = 0 THEN << >>
         ELSE IF n % 2 = 1 /\ lista[n].pid = pid THEN f[n - 1]
         ELSE Append(f[n - 1], lista[n])]

LEMMA HayDepurada ==
  ASSUME NEW lista, NEW pid, Len(lista) \in Nat
  PROVE  \E f : EsDepurada(f, lista, pid) /\ Depurada(lista, pid) = f[Len(lista)]
<1> DEFINE Paso(q, n) == IF n % 2 = 1 /\ lista[n].pid = pid THEN q ELSE Append(q, lista[n])
           Hasta(m, f) == f = [n \in 0 .. m |-> IF n = 0 THEN << >> ELSE Paso(f[n - 1], n)]
           Mal == {m \in Nat : ~ \E f : Hasta(m, f)}
<1>1. Mal = {}
  <2> SUFFICES ASSUME Mal # {} PROVE FALSE
    OBVIOUS
  <2> HIDE DEF Paso
  <2>1. PICK m \in Mal : \A y \in Mal : m <= y
    <3>1. Mal \in SUBSET Nat
      OBVIOUS
    <3> HIDE DEF Mal
    <3> QED BY <3>1, MenorFalla
  <2>2. CASE m = 0
    <3>1. Hasta(0, [n \in 0 .. 0 |-> << >>])
      OBVIOUS
    <3> QED BY <2>1, <2>2, <3>1
  <2>3. CASE m # 0
    <3>1. m \in Nat /\ m - 1 \in Nat /\ ~ (m <= m - 1)
      BY <2>1, <2>3
    <3>2. m - 1 \notin Mal
      <4> HIDE DEF Mal
      <4> QED BY <2>1, <3>1
    <3>3. PICK f : Hasta(m - 1, f)
      BY <3>1, <3>2
    <3> DEFINE g == [n \in 0 .. m |-> IF n = m THEN Paso(f[m - 1], m) ELSE f[n]]
    <3>4. \A n \in 0 .. m - 1 : g[n] = f[n] /\ f[n] = IF n = 0 THEN << >> ELSE Paso(f[n - 1], n)
      <4>1. \A n \in 0 .. m - 1 : f[n] = IF n = 0 THEN << >> ELSE Paso(f[n - 1], n)
        BY <3>3
      <4>2. \A n \in 0 .. m - 1 : n \in 0 .. m /\ n # m
        BY <3>1
      <4> QED BY <4>1, <4>2
    <3>5. \A n \in 0 .. m : g[n] = IF n = 0 THEN << >> ELSE Paso(g[n - 1], n)
      <4> SUFFICES ASSUME NEW n \in 0 .. m
                   PROVE  g[n] = IF n = 0 THEN << >> ELSE Paso(g[n - 1], n)
        OBVIOUS
      <4>1. CASE n = m
        <5>1. g[n] = Paso(f[m - 1], m) /\ m - 1 \in 0 .. m - 1
          BY <3>1, <4>1
        <5> QED BY <2>3, <3>1, <3>4, <4>1, <5>1
      <4>2. CASE n # m
        <5>1. n \in 0 .. m - 1 /\ (n = 0 \/ n - 1 \in 0 .. m - 1)
          BY <3>1, <4>2
        <5> QED BY <3>4, <5>1
      <4> QED BY <4>1, <4>2
    <3>6. Hasta(m, g)
      <4>1. g = [n \in 0 .. m |-> g[n]]
        OBVIOUS
      <4> HIDE DEF g
      <4> QED BY <3>5, <4>1
    <3> QED BY <2>1, <3>6
  <2> QED BY <2>2, <2>3
<1>2. PICK f : Hasta(Len(lista), f)
  BY <1>1
<1> DEFINE quedan[n \in 0 .. Len(lista)] ==
        IF n = 0 THEN << >>
        ELSE IF n % 2 = 1 /\ lista[n].pid = pid THEN quedan[n - 1]
        ELSE Append(quedan[n - 1], lista[n])
<1>3. EsDepurada(quedan, lista, pid)
  BY <1>2 DEF EsDepurada
<1>4. Depurada(lista, pid) = quedan[Len(lista)]
  BY DEF Depurada
<1> QED BY <1>3, <1>4

(* q has some of the first n records of lista, in their order: g says      *)
(* which, and those of other processes are among them.                     *)
Conserva(q, lista, pid, n) ==
  \E g \in [1 .. Len(q) -> 1 .. n] :
    /\ \A j \in 1 .. Len(q) : q[j] = lista[g[j]]
    /\ \A i, j \in 1 .. Len(q) : i < j => g[i] < g[j]
    /\ \A m \in 1 .. n : lista[m].pid # pid => \E j \in 1 .. Len(q) : g[j] = m

LEMMA ConservaUnoMas ==
  ASSUME NEW R, NEW lista \in Seq(R), NEW pid, NEW n \in 1 .. Len(lista),
         NEW q \in Seq(R), Conserva(q, lista, pid, n - 1)
  PROVE  /\ lista[n].pid = pid => Conserva(q, lista, pid, n)
         /\ Append(q, lista[n]) \in Seq(R) /\ Conserva(Append(q, lista[n]), lista, pid, n)
<1> DEFINE k == Len(q)
           p == Append(q, lista[n])
<1>1. PICK g \in [1 .. k -> 1 .. n - 1] :
        /\ \A j \in 1 .. k : q[j] = lista[g[j]]
        /\ \A i, j \in 1 .. k : i < j => g[i] < g[j]
        /\ \A m \in 1 .. n - 1 : lista[m].pid # pid => \E j \in 1 .. k : g[j] = m
  BY DEF Conserva
<1>2. k \in Nat /\ n \in Nat /\ Len(lista) \in Nat /\ lista[n] \in R
  OBVIOUS
<1>3. /\ p \in Seq(R) /\ Len(p) = k + 1 /\ p[k + 1] = lista[n]
      /\ \A j \in 1 .. k : p[j] = q[j]
  BY <1>2
<1>4. lista[n].pid = pid => Conserva(q, lista, pid, n)
  <2> SUFFICES ASSUME lista[n].pid = pid PROVE Conserva(q, lista, pid, n)
    OBVIOUS
  <2>1. g \in [1 .. k -> 1 .. n]
    <3>1. \A j \in 1 .. k : g[j] \in 1 .. n
      BY <1>2
    <3> QED BY <3>1
  <2>2. \A m \in 1 .. n : lista[m].pid # pid => \E j \in 1 .. k : g[j] = m
    <3> SUFFICES ASSUME NEW m \in 1 .. n, lista[m].pid # pid
                 PROVE  \E j \in 1 .. k : g[j] = m
      OBVIOUS
    <3>1. m \in 1 .. n - 1
      BY <1>2
    <3> QED BY <1>1, <3>1
  <2> QED BY <1>1, <2>1, <2>2 DEF Conserva
<1>5. Conserva(p, lista, pid, n)
  <2> DEFINE h == [j \in 1 .. k + 1 |-> IF j = k + 1 THEN n ELSE g[j]]
  <2>1. /\ h[k + 1] = n
        /\ \A j \in 1 .. k : h[j] = g[j] /\ g[j] \in 1 .. n - 1 /\ j # k + 1 /\ j \in 1 .. k + 1
    <3>1. \A j \in 1 .. k : j # k + 1 /\ j \in 1 .. k + 1
      BY <1>2
    <3>2. k + 1 \in 1 .. k + 1
      BY <1>2
    <3> QED BY <3>1, <3>2
  <2>2. \A j \in 1 .. k + 1 : j = k + 1 \/ j \in 1 .. k
    BY <1>2
  <2>3. h \in [1 .. k + 1 -> 1 .. n]
    <3>1. \A j \in 1 .. k : g[j] \in 1 .. n
      BY <1>2
    <3>2. n \in 1 .. n
      BY <1>2
    <3> QED BY <2>2, <3>1, <3>2
  <2> HIDE DEF h
  <2>4. \A j \in 1 .. k + 1 : p[j] = lista[h[j]]
    <3> SUFFICES ASSUME NEW j \in 1 .. k + 1 PROVE p[j] = lista[h[j]]
      OBVIOUS
    <3> HIDE DEF p, k
    <3>1. CASE j = k + 1
      BY <1>3, <2>1, <3>1
    <3>2. CASE j \in 1 .. k
      BY <1>1, <1>3, <2>1, <3>2
    <3> QED BY <2>2, <3>1, <3>2
  <2>5. ASSUME NEW i \in 1 .. k + 1, NEW j \in 1 .. k + 1, i < j PROVE h[i] < h[j]
    <3>1. i \in 1 .. k
      BY <1>2, <2>5
    <3>2. CASE j = k + 1
      <4>1. h[j] = n /\ h[i] \in 1 .. n - 1
        BY <2>1, <3>1, <3>2
      <4> QED BY <1>2, <4>1
    <3>3. CASE j \in 1 .. k
      <4>1. g[i] < g[j] /\ h[i] = g[i] /\ h[j] = g[j]
        BY <1>1, <2>1, <2>5, <3>1, <3>3
      <4> QED BY <4>1
    <3> QED BY <2>2, <3>2, <3>3
  <2>6. ASSUME NEW m \in 1 .. n, lista[m].pid # pid PROVE \E j \in 1 .. k + 1 : h[j] = m
    <3>1. CASE m = n
      <4>1. k + 1 \in 1 .. k + 1
        BY <1>2
      <4> QED BY <2>1, <3>1, <4>1
    <3>2. CASE m # n
      <4>1. m \in 1 .. n - 1
        BY <1>2, <3>2
      <4>2. PICK j \in 1 .. k : g[j] = m
        BY <1>1, <2>6, <4>1
      <4> QED BY <2>1, <4>2
    <3> QED BY <3>1, <3>2
  <2> DEFINE l == Len(p)
  <2>7. l = k + 1
    BY <1>3
  <2> HIDE DEF l
  <2>8. /\ h \in [1 .. l -> 1 .. n]
        /\ \A j \in 1 .. l : p[j] = lista[h[j]]
        /\ \A i, j \in 1 .. l : i < j => h[i] < h[j]
        /\ \A m \in 1 .. n : lista[m].pid # pid => \E j \in 1 .. l : h[j] = m
    <3> HIDE DEF p, k
    <3> QED BY <2>3, <2>4, <2>5, <2>6, <2>7
  <2> HIDE DEF p
  <2> QED BY <2>8 DEF Conserva, l
<1> QED BY <1>3, <1>4, <1>5

LEMMA DepuradaConserva ==
  ASSUME NEW R, NEW lista \in Seq(R), NEW pid
  PROVE  /\ Depurada(lista, pid) \in Seq(R)
         /\ Conserva(Depurada(lista, pid), lista, pid, Len(lista))
<1> DEFINE l == Len(lista)
<1>1. l \in Nat
  OBVIOUS
<1>2. PICK f : EsDepurada(f, lista, pid) /\ Depurada(lista, pid) = f[l]
  BY <1>1, HayDepurada
<1>3. /\ f[0] = << >>
      /\ \A n \in 1 .. l : f[n] = IF n % 2 = 1 /\ lista[n].pid = pid THEN f[n - 1]
                                  ELSE Append(f[n - 1], lista[n])
  <2>1. \A n \in 0 .. l : f[n] = IF n = 0 THEN << >>
                                 ELSE IF n % 2 = 1 /\ lista[n].pid = pid THEN f[n - 1]
                                 ELSE Append(f[n - 1], lista[n])
    BY <1>2 DEF EsDepurada
  <2>2. 0 \in 0 .. l /\ \A n \in 1 .. l : n \in 0 .. l /\ n # 0
    BY <1>1
  <2> QED BY <2>1, <2>2
<1> DEFINE Bien(n) == f[n] \in Seq(R) /\ Conserva(f[n], lista, pid, n)
           Mal == {n \in 0 .. l : ~ Bien(n)}
<1>4. Bien(0)
  <2> DEFINE g == [j \in 1 .. 0 |-> j]
  <2>1. << >> \in Seq(R) /\ Len(<< >>) = 0 /\ 1 .. 0 = {}
    OBVIOUS
  <2>2. g \in [1 .. 0 -> 1 .. 0]
    OBVIOUS
  <2>3. Conserva(<< >>, lista, pid, 0)
    <3> HIDE DEF g
    <3> QED BY <2>1, <2>2 DEF Conserva
  <2> QED BY <1>3, <2>1, <2>3
<1>5. ASSUME NEW n \in 1 .. l, Bien(n - 1) PROVE Bien(n)
  <2>1. /\ lista[n].pid = pid => Conserva(f[n - 1], lista, pid, n)
        /\ Append(f[n - 1], lista[n]) \in Seq(R)
        /\ Conserva(Append(f[n - 1], lista[n]), lista, pid, n)
    <3>1. n - 1 \in Nat
      BY <1>1
    <3> QED BY <1>5, <3>1, ConservaUnoMas
  <2>2. CASE n % 2 = 1 /\ lista[n].pid = pid
    <3>1. f[n] = f[n - 1]
      BY <1>3, <2>2
    <3> QED BY <1>5, <2>1, <2>2, <3>1
  <2>3. CASE ~ (n % 2 = 1 /\ lista[n].pid = pid)
    <3>1. f[n] = Append(f[n - 1], lista[n])
      BY <1>3, <2>3
    <3> QED BY <2>1, <3>1
  <2> QED BY <2>2, <2>3
<1> HIDE DEF Bien, l
<1>6. Mal = {}
  <2> SUFFICES ASSUME Mal # {} PROVE FALSE
    OBVIOUS
  <2>1. PICK m \in Mal : \A y \in Mal : m <= y
    <3>1. Mal \in SUBSET Nat
      BY <1>1
    <3> HIDE DEF Mal
    <3> QED BY <3>1, MenorFalla
  <2>2. m # 0
    BY <1>4, <2>1
  <2>3. m \in 1 .. l /\ m - 1 \in 0 .. l /\ ~ (m <= m - 1)
    BY <1>1, <2>1, <2>2
  <2>4. Bien(m - 1)
    BY <2>1, <2>3
  <2> QED BY <1>5, <2>1, <2>3, <2>4
<1>7. Bien(l)
  BY <1>1, <1>6
<1> QED BY <1>2, <1>7 DEF Bien, l

-----------------------------------------------------------------------------
(* The invariant.                                                          *)

Celdas == UNION {[S -> Cabeceras] : S \in SUBSET Nat}
Paginas == {c \in Celdas : EsPagina(c)}
Registros == [pagina : Nat \ {0}, pid : Procesos, disponible : Nat]
Reservas == [pid : Procesos, pagina : Nat, offset : Nat, tamanio : Nat]
Pasos == {"libre", "revisar", "compactar", "buscar", "paginaNueva", "reservar"}
Hilos == [paso : Pasos, pid : Procesos \cup {Ninguno}, tamanio : Nat, i : Nat,
          pagina : Nat, offset : Nat, actual : Nat]

Tipos ==
  /\ listaAdminHeap \in Seq(Registros)
  /\ sizePaginasHeap \in [Procesos -> Nat]
  /\ paginas \in [Procesos -> Seq(Paginas)]
  /\ estado \in [Procesos -> {"corre", "abortado", "terminado"}]
  /\ hilo \in Hilos
  /\ reservas \subseteq Reservas

(* What the main thread has in its hands: a page of a process that runs, a *)
(* block of it or its end, and a free block that is large enough.          *)
ManoDelHilo ==
  hilo.paso # "libre" =>
    /\ hilo.pid \in Procesos /\ estado[hilo.pid] = "corre"
    /\ hilo.i >= 1 /\ hilo.tamanio + M <= TAMPAG - M
    /\ hilo.paso \in {"compactar", "buscar", "reservar"} =>
         hilo.pagina \in 1 .. Len(paginas[hilo.pid])
    /\ hilo.paso \in {"compactar", "buscar"} =>
         hilo.offset \in BloquesDe(Pagina) \cup {TAMPAG}
    /\ hilo.paso = "reservar" =>
         /\ hilo.offset \in BloquesDe(Pagina)
         /\ ~ Pagina[hilo.offset].uso /\ Pagina[hilo.offset].size >= hilo.tamanio + M

(* The Kernel and Memoria count the same pages, until the process ends.    *)
Vivo(p) == estado[p] # "terminado"
MismasPaginas ==
  \A p \in Procesos : /\ Vivo(p) => sizePaginasHeap[p] = Len(paginas[p])
                      /\ ~ Vivo(p) => paginas[p] = << >>

(* A record of a process that lives is of a page it has, and promises no   *)
(* more than is free there; no page has two, and each has one.             *)
RegistroDe(k, p, n) == listaAdminHeap[k].pid = p /\ listaAdminHeap[k].pagina = n
NoPrometenDeMas ==
  \A k \in 1 .. Len(listaAdminHeap) :
    LET r == listaAdminHeap[k] IN
    Vivo(r.pid) => r.pagina <= Len(paginas[r.pid])
                   /\ r.disponible <= LibreDe(paginas[r.pid][r.pagina])
UnoPorPagina ==
  /\ \A p \in Procesos : \A n \in 1 .. Len(paginas[p]) :
       \E k \in 1 .. Len(listaAdminHeap) : RegistroDe(k, p, n)
  /\ \A k, j \in 1 .. Len(listaAdminHeap) :
       Vivo(listaAdminHeap[j].pid) /\ RegistroDe(k, listaAdminHeap[j].pid, listaAdminHeap[j].pagina)
         => k = j

(* A block that was given is where it was, used and with its size.         *)
Vigente(r) ==
  /\ r.pagina \in 1 .. Len(paginas[r.pid])
  /\ r.offset \in BloquesDe(paginas[r.pid][r.pagina])
  /\ paginas[r.pid][r.pagina][r.offset] = [size |-> r.tamanio, uso |-> TRUE]
Vigentes == (\A r \in reservas : Vigente(r)) /\ liberadas = {}

Inv ==
  /\ Tipos /\ ManoDelHilo /\ MismasPaginas
  /\ NoPrometenDeMas /\ UnoPorPagina /\ Vigentes

-----------------------------------------------------------------------------
(* What the steps need of the pages and of the list.                       *)

\* A header written in cells leaves cells.
LEMMA CeldasConCabecera ==
  ASSUME NEW celdas, DOMAIN celdas \in SUBSET Nat,
         \A o \in DOMAIN celdas : celdas[o] \in Cabeceras,
         NEW a \in Nat, NEW size \in Nat, NEW uso \in Usos
  PROVE  ConCabecera(celdas, a, size, uso) \in Celdas
<1> DEFINE c == ConCabecera(celdas, a, size, uso)
           S == {o \in DOMAIN celdas : o <= a - M \/ o >= a + M} \cup {a}
           nueva == [size |-> size, uso |-> uso]
<1>1. c = [o \in S |-> IF o = a THEN nueva ELSE celdas[o]]
  BY DEF ConCabecera
<1>2. nueva \in Cabeceras /\ S \in SUBSET Nat
  BY DEF Cabeceras
<1>3. \A o \in S : o = a \/ o \in DOMAIN celdas
  OBVIOUS
<1> HIDE DEF c, S, nueva
<1>4. c \in [S -> Cabeceras]
  BY <1>1, <1>2, <1>3
<1> QED BY <1>2, <1>4 DEF c, Celdas

LEMMA DePagina ==
  ASSUME NEW celdas \in Paginas
  PROVE  /\ Partida(celdas, BloquesDe(celdas)) /\ LibreDe(celdas) \in Nat
         /\ DOMAIN celdas \in SUBSET Nat /\ \A o \in DOMAIN celdas : celdas[o] \in Cabeceras
<1>1. Partida(celdas, BloquesDe(celdas)) /\ celdas \in Celdas
  BY DEF Paginas, EsPagina
<1>2. PICK S \in SUBSET Nat : celdas \in [S -> Cabeceras]
  BY <1>1 DEF Celdas
<1> QED BY <1>1, <1>2, PaginaTipo

\* One page changes in Memoria.
CambiaUna(p, n, c) ==
  /\ paginas \in [Procesos -> Seq(Paginas)]
  /\ p \in Procesos /\ n \in 1 .. Len(paginas[p]) /\ c \in Paginas
  /\ paginas' = [paginas EXCEPT ![p][n] = c]

LEMMA UnaPagina ==
  ASSUME NEW p, NEW n, NEW c, CambiaUna(p, n, c)
  PROVE  /\ paginas' \in [Procesos -> Seq(Paginas)]
         /\ \A q \in Procesos : Len(paginas'[q]) = Len(paginas[q])
         /\ paginas'[p][n] = c
         /\ \A q \in Procesos : \A m \in 1 .. Len(paginas[q]) :
              q # p \/ m # n => paginas'[q][m] = paginas[q][m]
<1> DEFINE s == [paginas[p] EXCEPT ![n] = c]
<1>0. /\ paginas \in [Procesos -> Seq(Paginas)]
      /\ p \in Procesos /\ n \in 1 .. Len(paginas[p]) /\ c \in Paginas
      /\ paginas' = [paginas EXCEPT ![p][n] = c]
  BY DEF CambiaUna
<1>1. paginas[p] \in Seq(Paginas)
  BY <1>0
<1>2. /\ s \in Seq(Paginas) /\ Len(s) = Len(paginas[p]) /\ s[n] = c
      /\ \A m \in 1 .. Len(paginas[p]) : m # n => s[m] = paginas[p][m]
  <2> DEFINE t == paginas[p]
  <2> HIDE DEF t
  <2>1. t \in Seq(Paginas) /\ n \in 1 .. Len(t)
    BY <1>0, <1>1 DEF t
  <2>2. [t EXCEPT ![n] = c] \in Seq(Paginas) /\ Len([t EXCEPT ![n] = c]) = Len(t)
    BY <1>0, <2>1
  <2> QED BY <2>1, <2>2 DEF t
<1>3. paginas' = [paginas EXCEPT ![p] = s]
  BY <1>0
<1> HIDE DEF s
<1>4. paginas' \in [Procesos -> Seq(Paginas)] /\ paginas'[p] = s
  BY <1>0, <1>2, <1>3
<1>5. \A q \in Procesos : q # p => paginas'[q] = paginas[q]
  BY <1>0, <1>3
<1> QED BY <1>0, <1>2, <1>4, <1>5

\* What a search of a record gives.
LEMMA RegistroTipo ==
  ASSUME NEW lista, Len(lista) \in Nat, NEW p, NEW n, NEW k, k = Registro(lista, p, n)
  PROVE  /\ k \in 0 .. Len(lista)
         /\ k # 0 => lista[k].pid = p /\ lista[k].pagina = n
         /\ k = 0 => \A j \in 1 .. Len(lista) : ~ (lista[j].pid = p /\ lista[j].pagina = n)
<1> DEFINE I == {i \in 1 .. Len(lista) : lista[i].pid = p /\ lista[i].pagina = n}
<1>1. k = IF I # {} THEN Min(I) ELSE 0
  BY DEF Registro, SelectInSeq
<1>2. I \in SUBSET Nat
  OBVIOUS
<1>3. I # {} => Min(I) \in I
  <2> HIDE DEF I
  <2> QED BY <1>2, MinExiste
<1> QED BY <1>1, <1>3

\* A record changes what it has available.
LEMMA UnRegistro ==
  ASSUME NEW lista \in Seq(Registros), NEW k \in 1 .. Len(lista), NEW v \in Nat,
         NEW q, q = [lista EXCEPT ![k].disponible = v]
  PROVE  /\ q \in Seq(Registros) /\ Len(q) = Len(lista)
         /\ \A j \in 1 .. Len(lista) :
              /\ q[j].pid = lista[j].pid /\ q[j].pagina = lista[j].pagina
              /\ j # k => q[j].disponible = lista[j].disponible
         /\ q[k].disponible = v
<1> DEFINE r == [lista[k] EXCEPT !.disponible = v]
<1>1. lista[k] \in Registros
  OBVIOUS
<1>2. /\ r \in Registros /\ r.pid = lista[k].pid /\ r.pagina = lista[k].pagina
      /\ r.disponible = v
  BY <1>1 DEF Registros
<1>3. q = [lista EXCEPT ![k] = r]
  OBVIOUS
<1> HIDE DEF r
<1>4. q \in Seq(Registros) /\ Len(q) = Len(lista)
  BY <1>2, <1>3
<1>5. \A j \in 1 .. Len(lista) : q[j] = IF j = k THEN r ELSE lista[j]
  BY <1>3
<1> QED BY <1>2, <1>4, <1>5

-----------------------------------------------------------------------------
(* The steps that move only the main thread.                               *)

LEMMA HiloCampos ==
  ASSUME Tipos
  PROVE  /\ hilo.paso \in Pasos /\ hilo.pid \in Procesos \cup {Ninguno}
         /\ hilo.tamanio \in Nat /\ hilo.i \in Nat /\ hilo.pagina \in Nat
         /\ hilo.offset \in Nat /\ hilo.actual \in Nat
BY DEF Tipos, Hilos

LEMMA TodoQuieto ==
  ASSUME Inv, UNCHANGED <<listas, paginas, estado, historia>>, hilo' \in Hilos
  PROVE  Tipos' /\ MismasPaginas' /\ NoPrometenDeMas' /\ UnoPorPagina' /\ Vigentes'
<1>1. /\ listaAdminHeap' = listaAdminHeap /\ sizePaginasHeap' = sizePaginasHeap
      /\ paginas' = paginas /\ estado' = estado /\ reservas' = reservas /\ liberadas' = liberadas
  BY DEF listas, historia
<1>2. Tipos'
  BY <1>1 DEF Inv, Tipos
<1>3. MismasPaginas'
  BY <1>1 DEF Inv, MismasPaginas, Vivo
<1>4. NoPrometenDeMas'
  BY <1>1 DEF Inv, NoPrometenDeMas, Vivo
<1>5. UnoPorPagina'
  BY <1>1 DEF Inv, UnoPorPagina, RegistroDe, Vivo
<1>6. Vigentes'
  BY <1>1 DEF Inv, Vigentes, Vigente
<1> QED BY <1>2, <1>3, <1>4, <1>5, <1>6

\* The page of the thread is one, cut in blocks.
LEMMA PaginaDelHilo ==
  ASSUME Inv, hilo.paso \in {"compactar", "buscar", "reservar"}
  PROVE  /\ hilo.pid \in Procesos /\ estado[hilo.pid] = "corre"
         /\ hilo.pagina \in 1 .. Len(paginas[hilo.pid])
         /\ Pagina \in Paginas /\ Partida(Pagina, BloquesDe(Pagina))
         /\ hilo.i >= 1 /\ hilo.tamanio + M <= TAMPAG - M
<1>1. /\ hilo.pid \in Procesos /\ estado[hilo.pid] = "corre"
      /\ hilo.pagina \in 1 .. Len(paginas[hilo.pid])
      /\ hilo.i >= 1 /\ hilo.tamanio + M <= TAMPAG - M
  BY DEF Inv, ManoDelHilo
<1>2. paginas[hilo.pid] \in Seq(Paginas)
  BY <1>1 DEF Inv, Tipos
<1>3. Pagina \in Paginas
  BY <1>1, <1>2 DEF Pagina
<1> QED BY <1>1, <1>3, DePagina

LEMMA PasoVerificar ==
  ASSUME Inv, verificarEspacioLibreHeap
  PROVE  Inv'
<1>1. /\ hilo.paso = "revisar" /\ UNCHANGED <<listas, paginas, estado, historia>>
      /\ paginas' = paginas /\ estado' = estado
  BY DEF verificarEspacioLibreHeap
<1>2. /\ hilo.paso \in Pasos /\ hilo.pid \in Procesos /\ estado[hilo.pid] = "corre"
      /\ hilo.tamanio \in Nat /\ hilo.i \in Nat /\ hilo.pagina \in Nat
      /\ hilo.offset \in Nat /\ hilo.actual \in Nat /\ hilo \in Hilos
      /\ hilo.i >= 1 /\ hilo.tamanio + M <= TAMPAG - M
  BY <1>1, HiloCampos DEF Inv, ManoDelHilo, Tipos
<1>3. listaAdminHeap \in Seq(Registros) /\ paginas \in [Procesos -> Seq(Paginas)]
  BY DEF Inv, Tipos
<1>4. hilo' \in Hilos /\ ManoDelHilo'
  <2>1. CASE hilo.i > Len(listaAdminHeap)
    <3>1. hilo' = [hilo EXCEPT !.paso = "paginaNueva"]
      BY <2>1 DEF verificarEspacioLibreHeap
    <3>2. /\ hilo' \in Hilos /\ hilo'.paso = "paginaNueva" /\ hilo'.pid = hilo.pid
          /\ hilo'.i = hilo.i /\ hilo'.tamanio = hilo.tamanio
      BY <1>2, <3>1 DEF Hilos, Pasos
    <3> QED BY <1>1, <1>2, <3>2 DEF ManoDelHilo
  <2>2. CASE hilo.i <= Len(listaAdminHeap)
    <3> DEFINE aux == listaAdminHeap[hilo.i]
    <3>1. hilo.i \in 1 .. Len(listaAdminHeap) /\ aux \in Registros
      BY <1>2, <1>3, <2>2
    <3>2. aux.pid \in Procesos /\ aux.pagina \in Nat /\ aux.pagina >= 1
      BY <3>1 DEF Registros
    <3>3. CASE aux.disponible >= hilo.tamanio + D /\ aux.pid = hilo.pid
      <4>1. hilo' = [hilo EXCEPT !.paso = "compactar", !.pagina = aux.pagina,
                                 !.offset = 0, !.actual = 0]
        BY <1>2, <1>3, <2>2, <3>3 DEF verificarEspacioLibreHeap
      <4>2. aux.pagina <= Len(paginas[hilo.pid])
        BY <1>2, <3>1, <3>3 DEF Inv, NoPrometenDeMas, Vivo
      <4>3. paginas[hilo.pid] \in Seq(Paginas) /\ aux.pagina \in 1 .. Len(paginas[hilo.pid])
        BY <1>2, <1>3, <3>2, <4>2
      <4> HIDE DEF aux
      <4>4. paginas[hilo.pid][aux.pagina] \in Paginas
        BY <4>3
      <4>5. 0 \in BloquesDe(paginas[hilo.pid][aux.pagina])
        BY <4>4, DePagina, PartidaTipo
      <4>6. /\ hilo' \in Hilos /\ hilo'.paso = "compactar" /\ hilo'.pid = hilo.pid
            /\ hilo'.i = hilo.i /\ hilo'.tamanio = hilo.tamanio
            /\ hilo'.pagina = aux.pagina /\ hilo'.offset = 0
        BY <1>2, <3>2, <4>1 DEF Hilos, Pasos
      <4>7. Pagina' = paginas[hilo.pid][aux.pagina]
        BY <1>1, <4>6 DEF Pagina
      <4> QED BY <1>1, <1>2, <4>3, <4>5, <4>6, <4>7 DEF ManoDelHilo
    <3>4. CASE ~ (aux.disponible >= hilo.tamanio + D /\ aux.pid = hilo.pid)
      <4>1. hilo' = [hilo EXCEPT !.i = @ + 1]
        BY <1>2, <1>3, <2>2, <3>4 DEF verificarEspacioLibreHeap
      <4>2. /\ hilo' \in Hilos /\ hilo'.paso = "revisar" /\ hilo'.pid = hilo.pid
            /\ hilo'.i = hilo.i + 1 /\ hilo'.tamanio = hilo.tamanio
        BY <1>1, <1>2, <4>1 DEF Hilos, Pasos
      <4> QED BY <1>1, <1>2, <4>2 DEF ManoDelHilo
    <3> QED BY <3>3, <3>4
  <2> QED BY <1>2, <1>3, <2>1, <2>2
<1> QED BY <1>1, <1>4, TodoQuieto DEF Inv

LEMMA PasoFinCompactar ==
  ASSUME Inv, finCompactar
  PROVE  Inv'
<1>1. /\ hilo.paso = "compactar" /\ UNCHANGED <<listas, paginas, estado, historia>>
      /\ paginas' = paginas /\ estado' = estado
      /\ hilo' = [hilo EXCEPT !.paso = "buscar", !.offset = 0]
  BY DEF finCompactar
<1>2. hilo \in Hilos
  BY DEF Inv, Tipos
<1>3. /\ hilo' \in Hilos /\ hilo'.paso = "buscar" /\ hilo'.pid = hilo.pid /\ hilo'.i = hilo.i
      /\ hilo'.tamanio = hilo.tamanio /\ hilo'.pagina = hilo.pagina /\ hilo'.offset = 0
  BY <1>1, <1>2 DEF Hilos, Pasos
<1>4. Pagina' = Pagina
  BY <1>1, <1>3 DEF Pagina
<1>5. 0 \in BloquesDe(Pagina)
  BY <1>1, PaginaDelHilo, PartidaTipo
<1>6. ManoDelHilo'
  BY <1>1, <1>3, <1>4, <1>5, PaginaDelHilo DEF ManoDelHilo
<1> QED BY <1>1, <1>3, <1>6, TodoQuieto DEF Inv

LEMMA PasoBuscar ==
  ASSUME Inv, paginaHeapConBloqueSuficiente
  PROVE  Inv'
<1>1. /\ hilo.paso = "buscar" /\ UNCHANGED <<listas, paginas, estado, historia>>
      /\ paginas' = paginas /\ estado' = estado
  BY DEF paginaHeapConBloqueSuficiente
<1>2. /\ hilo.tamanio \in Nat /\ hilo.i \in Nat /\ hilo.pagina \in Nat
      /\ hilo.offset \in Nat /\ hilo.actual \in Nat /\ hilo \in Hilos
  BY HiloCampos DEF Inv, Tipos
<1>3. /\ hilo.pid \in Procesos /\ estado[hilo.pid] = "corre"
      /\ hilo.pagina \in 1 .. Len(paginas[hilo.pid])
      /\ Partida(Pagina, BloquesDe(Pagina))
      /\ hilo.i >= 1 /\ hilo.tamanio + M <= TAMPAG - M
  BY <1>1, PaginaDelHilo
<1>4. hilo.offset \in BloquesDe(Pagina) \cup {TAMPAG}
  BY <1>1 DEF Inv, ManoDelHilo
<1>5. hilo' \in Hilos /\ ManoDelHilo'
  <2>1. ASSUME hilo' = [hilo EXCEPT !.paso = "revisar", !.i = @ + 1]
        PROVE  hilo' \in Hilos /\ ManoDelHilo'
    <3> DEFINE k == hilo.i + 1
    <3>1. k \in Nat /\ k >= 1 /\ hilo' = [hilo EXCEPT !.paso = "revisar", !.i = k]
      BY <1>2, <2>1
    <3> HIDE DEF k
    <3>2. /\ hilo' \in Hilos /\ hilo'.paso = "revisar" /\ hilo'.pid = hilo.pid
          /\ hilo'.i = k /\ hilo'.tamanio = hilo.tamanio
      BY <1>2, <3>1 DEF Hilos, Pasos
    <3> QED BY <1>1, <1>3, <3>1, <3>2 DEF ManoDelHilo
  <2>2. ASSUME hilo.offset < TAMPAG,
               NEW bloque \in Cabecera(Pagina, hilo.offset),
               hilo' = IF ~Alcanza(bloque)
                       THEN [hilo EXCEPT !.offset = @ + M + bloque.size]
                       ELSE IF hilo.offset > 0
                       THEN [hilo EXCEPT !.paso = "reservar"]
                       ELSE [hilo EXCEPT !.paso = "revisar", !.i = @ + 1]
        PROVE  hilo' \in Hilos /\ ManoDelHilo'
    <3> DEFINE B == BloquesDe(Pagina)
               s == Sucesor(Pagina, hilo.offset)
    <3>1. hilo.offset \in B /\ TAMPAG \in Nat
      BY <1>2, <1>4, <2>2, TAMPAGAssumption
    <3>2. bloque = Pagina[hilo.offset]
      BY <3>1, <2>2 DEF Cabecera, BloquesDe
    <3>3. s \in B \cup {TAMPAG} /\ s \in Nat /\ s = hilo.offset + M + bloque.size
      <4>1. s \in B \cup {TAMPAG} /\ s \in Nat
        <5>1. \A o \in BloquesDe(Pagina) :
                Sucesor(Pagina, o) \in BloquesDe(Pagina) \cup {TAMPAG} /\ Sucesor(Pagina, o) \in Nat
          <6> HIDE DEF s
          <6> QED BY <1>3, PartidaTipo
        <5> QED BY <3>1, <5>1
      <4> QED BY <3>2, <4>1 DEF Sucesor
    <3> HIDE DEF s
    <3>4. CASE ~Alcanza(bloque)
      <4>1. hilo' = [hilo EXCEPT !.offset = s]
        BY <2>2, <3>3, <3>4
      <4>2. /\ hilo' \in Hilos /\ hilo'.paso = "buscar" /\ hilo'.pid = hilo.pid
            /\ hilo'.i = hilo.i /\ hilo'.tamanio = hilo.tamanio
            /\ hilo'.pagina = hilo.pagina /\ hilo'.offset = s
        BY <1>1, <1>2, <3>3, <4>1 DEF Hilos, Pasos
      <4>3. Pagina' = Pagina
        BY <1>1, <4>2 DEF Pagina
      <4> QED BY <1>1, <1>3, <3>3, <4>2, <4>3 DEF ManoDelHilo
    <3>5. CASE Alcanza(bloque) /\ hilo.offset > 0
      <4>1. hilo' = [hilo EXCEPT !.paso = "reservar"]
        BY <2>2, <3>5
      <4>2. /\ hilo' \in Hilos /\ hilo'.paso = "reservar" /\ hilo'.pid = hilo.pid
            /\ hilo'.i = hilo.i /\ hilo'.tamanio = hilo.tamanio
            /\ hilo'.pagina = hilo.pagina /\ hilo'.offset = hilo.offset
        BY <1>2, <4>1 DEF Hilos, Pasos
      <4>3. Pagina' = Pagina
        BY <1>1, <4>2 DEF Pagina
      <4>4. ~ Pagina[hilo.offset].uso /\ Pagina[hilo.offset].size >= hilo.tamanio + M
        BY <3>2, <3>5 DEF Alcanza
      <4> QED BY <1>1, <1>3, <3>1, <4>2, <4>3, <4>4 DEF ManoDelHilo
    <3>6. CASE Alcanza(bloque) /\ ~ (hilo.offset > 0)
      BY <2>1, <2>2, <3>6
    <3> QED BY <3>4, <3>5, <3>6
  <2> QED BY <2>1, <2>2 DEF paginaHeapConBloqueSuficiente
<1> QED BY <1>1, <1>5, TodoQuieto DEF Inv

\* A process is aborted: it still has its pages.
LEMMA PasoFalla ==
  ASSUME Inv, NEW p \in Procesos, estado[p] = "corre", Falla(p),
         UNCHANGED <<listas, paginas, historia>>
  PROVE  Inv'
<1>1. /\ listaAdminHeap' = listaAdminHeap /\ sizePaginasHeap' = sizePaginasHeap
      /\ paginas' = paginas /\ reservas' = reservas /\ liberadas' = liberadas
      /\ hilo' = Libre /\ estado' = [estado EXCEPT ![p] = "abortado"]
  BY DEF listas, historia, Falla
<1>2. estado \in [Procesos -> {"corre", "abortado", "terminado"}]
  BY DEF Inv, Tipos
<1>3. /\ estado' \in [Procesos -> {"corre", "abortado", "terminado"}]
      /\ \A q \in Procesos : (estado'[q] # "terminado") <=> (estado[q] # "terminado")
  BY <1>1, <1>2
<1>4. hilo' \in Hilos /\ hilo'.paso = "libre"
  BY <1>1 DEF Libre, Hilos, Pasos
<1>5. Tipos' /\ listaAdminHeap \in Seq(Registros)
  BY <1>1, <1>3, <1>4 DEF Inv, Tipos
<1>6. \A k \in 1 .. Len(listaAdminHeap) : listaAdminHeap[k].pid \in Procesos
  <2>1. \A k \in 1 .. Len(listaAdminHeap) : listaAdminHeap[k] \in Registros
    BY <1>5
  <2> QED BY <2>1 DEF Registros
<1>7. ManoDelHilo'
  BY <1>4 DEF ManoDelHilo
<1>8. MismasPaginas'
  BY <1>1, <1>3 DEF Inv, MismasPaginas, Vivo
<1>9. NoPrometenDeMas'
  BY <1>1, <1>3, <1>6 DEF Inv, NoPrometenDeMas, Vivo
<1>10. UnoPorPagina'
  <2>1. /\ \A q \in Procesos : \A m \in 1 .. Len(paginas[q]) :
             \E k \in 1 .. Len(listaAdminHeap) : RegistroDe(k, q, m)
        /\ \A k, j \in 1 .. Len(listaAdminHeap) :
             estado[listaAdminHeap[j].pid] # "terminado"
               /\ RegistroDe(k, listaAdminHeap[j].pid, listaAdminHeap[j].pagina) => k = j
    BY DEF Inv, UnoPorPagina, Vivo
  <2>2. \A k, j \in 1 .. Len(listaAdminHeap) :
          estado'[listaAdminHeap[j].pid] # "terminado"
            /\ RegistroDe(k, listaAdminHeap[j].pid, listaAdminHeap[j].pagina) => k = j
    BY <1>3, <1>6, <2>1
  <2> QED BY <1>1, <2>1, <2>2 DEF UnoPorPagina, RegistroDe, Vivo
<1>11. Vigentes'
  BY <1>1 DEF Inv, Vigentes, Vigente
<1> QED BY <1>5, <1>7, <1>8, <1>9, <1>10, <1>11 DEF Inv

LEMMA PasoReservarHeap ==
  ASSUME Inv, NEW pid \in Procesos, NEW tamanio \in Tamanios, reservarHeap(pid, tamanio)
  PROVE  Inv'
<1>1. estado[pid] = "corre" /\ UNCHANGED <<listas, paginas, historia>>
  BY DEF reservarHeap
<1>2. CASE NoEntraEnPagina(tamanio)
  <2>1. Falla(pid)
    BY <1>2 DEF reservarHeap
  <2> QED BY <1>1, <2>1, PasoFalla
<1>3. CASE ~ NoEntraEnPagina(tamanio)
  <2>1. /\ hilo' = [Libre EXCEPT !.paso = "revisar", !.pid = pid, !.tamanio = tamanio]
        /\ estado' = estado
    BY <1>3 DEF reservarHeap
  <2>2. tamanio \in Nat /\ TAMPAG \in Nat /\ M = 5
    BY TamaniosAssumption, TAMPAGAssumption DEF M
  <2>3. tamanio + M <= TAMPAG - M
    BY <1>3, <2>2 DEF NoEntraEnPagina
  <2>4. /\ hilo' \in Hilos /\ hilo'.paso = "revisar" /\ hilo'.pid = pid /\ hilo'.i = 1
        /\ hilo'.tamanio = tamanio
    BY <2>1, <2>2 DEF Libre, Hilos, Pasos
  <2>5. ManoDelHilo'
    BY <1>1, <2>1, <2>3, <2>4 DEF ManoDelHilo
  <2> QED BY <1>1, <2>1, <2>4, <2>5, TodoQuieto DEF Inv
<1> QED BY <1>2, <1>3

-----------------------------------------------------------------------------
(* The steps that change a page of Memoria.                                *)

\* Of the records only those of the page change, to what is free in it or less.
SigueLaPagina(p, n, libre) ==
  /\ listaAdminHeap' \in Seq(Registros) /\ Len(listaAdminHeap') = Len(listaAdminHeap)
  /\ \A k \in 1 .. Len(listaAdminHeap) :
       /\ listaAdminHeap'[k].pid = listaAdminHeap[k].pid
       /\ listaAdminHeap'[k].pagina = listaAdminHeap[k].pagina
       /\ ~ RegistroDe(k, p, n) =>
            listaAdminHeap'[k].disponible = listaAdminHeap[k].disponible
       /\ RegistroDe(k, p, n) => listaAdminHeap'[k].disponible <= libre

\* The records of the page follow it.
LEMMA UnaPaginaYSusRegistros ==
  ASSUME Inv, NEW p, NEW n, NEW c, CambiaUna(p, n, c),
         sizePaginasHeap' = sizePaginasHeap, estado' = estado,
         SigueLaPagina(p, n, LibreDe(c))
  PROVE  MismasPaginas' /\ NoPrometenDeMas' /\ UnoPorPagina'
<1>1. /\ paginas' \in [Procesos -> Seq(Paginas)]
      /\ \A q \in Procesos : Len(paginas'[q]) = Len(paginas[q])
      /\ paginas'[p][n] = c
      /\ \A q \in Procesos : \A m \in 1 .. Len(paginas[q]) :
           q # p \/ m # n => paginas'[q][m] = paginas[q][m]
  BY UnaPagina
<1>0. /\ Len(listaAdminHeap') = Len(listaAdminHeap)
      /\ \A k \in 1 .. Len(listaAdminHeap) :
           /\ listaAdminHeap'[k].pid = listaAdminHeap[k].pid
           /\ listaAdminHeap'[k].pagina = listaAdminHeap[k].pagina
           /\ ~ RegistroDe(k, p, n) =>
                listaAdminHeap'[k].disponible = listaAdminHeap[k].disponible
           /\ RegistroDe(k, p, n) => listaAdminHeap'[k].disponible <= LibreDe(c)
  BY DEF SigueLaPagina
<1>2. listaAdminHeap \in Seq(Registros) /\ paginas \in [Procesos -> Seq(Paginas)]
  BY DEF Inv, Tipos
<1>3. \A k \in 1 .. Len(listaAdminHeap) :
        listaAdminHeap[k].pid \in Procesos /\ listaAdminHeap[k].pagina \in Nat
        /\ listaAdminHeap[k].pagina >= 1
  <2>1. \A k \in 1 .. Len(listaAdminHeap) : listaAdminHeap[k] \in Registros
    BY <1>2
  <2> QED BY <2>1 DEF Registros
<1>4. MismasPaginas'
  <2>1. ASSUME NEW q \in Procesos
        PROVE  /\ Vivo(q)' => sizePaginasHeap'[q] = Len(paginas'[q])
               /\ ~ Vivo(q)' => paginas'[q] = << >>
    <3>1. CASE Vivo(q)
      BY <1>1, <3>1 DEF Inv, MismasPaginas, Vivo
    <3>2. CASE ~ Vivo(q)
      <4>1. paginas[q] = << >> /\ Len(paginas'[q]) = Len(paginas[q])
        BY <1>1, <3>2 DEF Inv, MismasPaginas
      <4>2. paginas'[q] \in Seq(Paginas) /\ Len(paginas'[q]) = 0
        BY <1>1, <4>1
      <4>3. paginas'[q] = << >>
        BY <4>2
      <4> QED BY <3>2, <4>3 DEF Vivo
    <3> QED BY <3>1, <3>2
  <2> QED BY <2>1 DEF MismasPaginas
<1>5. NoPrometenDeMas'
  <2>1. ASSUME NEW k \in 1 .. Len(listaAdminHeap), Vivo(listaAdminHeap[k].pid)
        PROVE  /\ listaAdminHeap[k].pagina <= Len(paginas[listaAdminHeap[k].pid])
               /\ listaAdminHeap'[k].disponible
                    <= LibreDe(paginas'[listaAdminHeap[k].pid][listaAdminHeap[k].pagina])
    <3> DEFINE q == listaAdminHeap[k].pid
               m == listaAdminHeap[k].pagina
    <3>1. m <= Len(paginas[q]) /\ listaAdminHeap[k].disponible <= LibreDe(paginas[q][m])
      BY <2>1 DEF Inv, NoPrometenDeMas
    <3>2. q \in Procesos /\ m \in 1 .. Len(paginas[q])
      <4>1. q \in Procesos /\ m \in Nat /\ m >= 1
        BY <1>3
      <4>2. Len(paginas[q]) \in Nat
        BY <1>2, <4>1
      <4> HIDE DEF q, m
      <4> QED BY <3>1, <4>1, <4>2
    <3>3. CASE RegistroDe(k, p, n)
      <4>1. q = p /\ m = n
        BY <3>3 DEF RegistroDe
      <4> QED BY <1>0, <1>1, <3>1, <3>3, <4>1
    <3>4. CASE ~ RegistroDe(k, p, n)
      <4>1. q # p \/ m # n
        BY <3>4 DEF RegistroDe
      <4>2. paginas'[q][m] = paginas[q][m]
        <5> HIDE DEF q, m
        <5> QED BY <1>1, <3>2, <4>1
      <4> QED BY <1>0, <3>1, <3>4, <4>2
    <3> QED BY <3>3, <3>4
  <2>2. ASSUME NEW k \in 1 .. Len(listaAdminHeap'), estado'[listaAdminHeap'[k].pid] # "terminado"
        PROVE  /\ listaAdminHeap'[k].pagina <= Len(paginas'[listaAdminHeap'[k].pid])
               /\ listaAdminHeap'[k].disponible
                    <= LibreDe(paginas'[listaAdminHeap'[k].pid][listaAdminHeap'[k].pagina])
    <3>1. k \in 1 .. Len(listaAdminHeap)
      BY <1>0
    <3>2. /\ listaAdminHeap'[k].pid = listaAdminHeap[k].pid
          /\ listaAdminHeap'[k].pagina = listaAdminHeap[k].pagina
      BY <1>0, <3>1
    <3>3. Vivo(listaAdminHeap[k].pid)
      BY <2>2, <3>2 DEF Vivo
    <3>4. Len(paginas'[listaAdminHeap[k].pid]) = Len(paginas[listaAdminHeap[k].pid])
      BY <1>1, <1>3, <3>1
    <3> QED BY <2>1, <3>1, <3>2, <3>3, <3>4
  <2> QED BY <2>2 DEF NoPrometenDeMas, Vivo
<1>6. UnoPorPagina'
  <2>1. \A k \in 1 .. Len(listaAdminHeap) :
          /\ listaAdminHeap'[k].pid = listaAdminHeap[k].pid
          /\ listaAdminHeap'[k].pagina = listaAdminHeap[k].pagina
    BY <1>0
  <2>2. \A q \in Procesos : Len(paginas'[q]) = Len(paginas[q])
    BY <1>1
  <2>3. Len(listaAdminHeap') = Len(listaAdminHeap) /\ estado' = estado
    BY <1>0
  <2>4. UnoPorPagina
    BY DEF Inv
  <2>5. ASSUME NEW q \in Procesos, NEW m \in 1 .. Len(paginas'[q])
        PROVE  \E k \in 1 .. Len(listaAdminHeap') :
                 listaAdminHeap'[k].pid = q /\ listaAdminHeap'[k].pagina = m
    <3>1. m \in 1 .. Len(paginas[q])
      BY <2>2
    <3>2. PICK k \in 1 .. Len(listaAdminHeap) :
            listaAdminHeap[k].pid = q /\ listaAdminHeap[k].pagina = m
      BY <2>4, <3>1 DEF UnoPorPagina, RegistroDe
    <3> QED BY <2>1, <2>3, <3>2
  <2>6. ASSUME NEW k \in 1 .. Len(listaAdminHeap'), NEW j \in 1 .. Len(listaAdminHeap'),
               estado'[listaAdminHeap'[j].pid] # "terminado",
               listaAdminHeap'[k].pid = listaAdminHeap'[j].pid,
               listaAdminHeap'[k].pagina = listaAdminHeap'[j].pagina
        PROVE  k = j
    <3>1. k \in 1 .. Len(listaAdminHeap) /\ j \in 1 .. Len(listaAdminHeap)
      BY <2>3
    <3>2. /\ listaAdminHeap[k].pid = listaAdminHeap[j].pid
          /\ listaAdminHeap[k].pagina = listaAdminHeap[j].pagina
          /\ estado[listaAdminHeap[j].pid] # "terminado"
      BY <2>1, <2>3, <2>6, <3>1
    <3> QED BY <2>4, <3>1, <3>2 DEF UnoPorPagina, RegistroDe, Vivo
  <2> QED BY <2>5, <2>6 DEF UnoPorPagina, RegistroDe, Vivo
<1> QED BY <1>4, <1>5, <1>6

\* The record of the page changes what it has available.
LEMMA SuRegistro ==
  ASSUME Inv, NEW p \in Procesos, NEW n, Vivo(p), NEW L,
         NEW k, k = Registro(listaAdminHeap, p, n), NEW w, k # 0 => w \in Nat /\ w <= L,
         listaAdminHeap' = IF k = 0 THEN listaAdminHeap
                           ELSE [listaAdminHeap EXCEPT ![k].disponible = w]
  PROVE  SigueLaPagina(p, n, L)
<1>1. listaAdminHeap \in Seq(Registros) /\ Len(listaAdminHeap) \in Nat
  BY DEF Inv, Tipos
<1>2. /\ k \in 0 .. Len(listaAdminHeap)
      /\ k # 0 => listaAdminHeap[k].pid = p /\ listaAdminHeap[k].pagina = n
      /\ k = 0 => \A j \in 1 .. Len(listaAdminHeap) :
                    ~ (listaAdminHeap[j].pid = p /\ listaAdminHeap[j].pagina = n)
  BY <1>1, RegistroTipo
<1>3. CASE k = 0
  BY <1>1, <1>2, <1>3 DEF RegistroDe, SigueLaPagina
<1>4. CASE k # 0
  <2>1. k \in 1 .. Len(listaAdminHeap) /\ w \in Nat /\ w <= L
    BY <1>1, <1>2, <1>4
  <2>2. listaAdminHeap' = [listaAdminHeap EXCEPT ![k].disponible = w]
    BY <1>4
  <2>3. /\ listaAdminHeap' \in Seq(Registros) /\ Len(listaAdminHeap') = Len(listaAdminHeap)
        /\ \A j \in 1 .. Len(listaAdminHeap) :
              /\ listaAdminHeap'[j].pid = listaAdminHeap[j].pid
              /\ listaAdminHeap'[j].pagina = listaAdminHeap[j].pagina
              /\ j # k => listaAdminHeap'[j].disponible = listaAdminHeap[j].disponible
        /\ listaAdminHeap'[k].disponible = w
    <3> DEFINE q == listaAdminHeap'
    <3>1. q = [listaAdminHeap EXCEPT ![k].disponible = w]
      BY <2>2
    <3> HIDE DEF q
    <3>2. /\ q \in Seq(Registros) /\ Len(q) = Len(listaAdminHeap)
          /\ \A j \in 1 .. Len(listaAdminHeap) :
                /\ q[j].pid = listaAdminHeap[j].pid /\ q[j].pagina = listaAdminHeap[j].pagina
                /\ j # k => q[j].disponible = listaAdminHeap[j].disponible
          /\ q[k].disponible = w
      BY ONLY <1>1, <2>1, <3>1, UnRegistro
    <3> QED BY <3>2 DEF q
  <2>4. ASSUME NEW j \in 1 .. Len(listaAdminHeap), RegistroDe(j, p, n) PROVE j = k
    <3>1. /\ RegistroDe(j, listaAdminHeap[k].pid, listaAdminHeap[k].pagina)
          /\ Vivo(listaAdminHeap[k].pid)
      BY <1>2, <1>4, <2>4
    <3> QED BY <2>1, <3>1 DEF Inv, UnoPorPagina
  <2>5. ASSUME NEW j \in 1 .. Len(listaAdminHeap), ~ RegistroDe(j, p, n) PROVE j # k
    BY <1>2, <1>4, <2>5 DEF RegistroDe
  <2> QED BY <2>1, <2>3, <2>4, <2>5 DEF SigueLaPagina
<1> QED BY <1>3, <1>4

\* What the record of a page says, when it has one.
LEMMA DisponibleDe ==
  ASSUME Inv, NEW p \in Procesos, NEW n, Vivo(p),
         NEW k, k = Registro(listaAdminHeap, p, n), k # 0
  PROVE  /\ k \in 1 .. Len(listaAdminHeap) /\ listaAdminHeap[k].disponible \in Nat
         /\ listaAdminHeap[k].disponible <= LibreDe(paginas[p][n])
<1>1. listaAdminHeap \in Seq(Registros) /\ Len(listaAdminHeap) \in Nat
  BY DEF Inv, Tipos
<1>2. /\ k \in 1 .. Len(listaAdminHeap)
      /\ listaAdminHeap[k].pid = p /\ listaAdminHeap[k].pagina = n
  BY <1>1, RegistroTipo
<1>3. listaAdminHeap[k] \in Registros
  BY <1>1, <1>2
<1>4. listaAdminHeap[k].disponible \in Nat
  BY <1>3 DEF Registros
<1> QED BY <1>2, <1>4 DEF Inv, NoPrometenDeMas

\* A block that was given follows its page, when its header stays.
LEMMA ReservaSigue ==
  ASSUME Inv, NEW p, NEW n, NEW c, CambiaUna(p, n, c), NEW r \in reservas,
         r.pid = p /\ r.pagina = n =>
           r.offset \in BloquesDe(c) /\ c[r.offset] = paginas[p][n][r.offset]
  PROVE  Vigente(r)'
<1>1. /\ paginas \in [Procesos -> Seq(Paginas)] /\ r \in Reservas
      /\ r.pagina \in 1 .. Len(paginas[r.pid])
      /\ r.offset \in BloquesDe(paginas[r.pid][r.pagina])
      /\ paginas[r.pid][r.pagina][r.offset] = [size |-> r.tamanio, uso |-> TRUE]
  BY DEF Inv, Tipos, Vigentes, Vigente
<1>2. r.pid \in Procesos
  BY <1>1 DEF Reservas
<1>3. /\ \A q \in Procesos : Len(paginas'[q]) = Len(paginas[q])
      /\ paginas'[p][n] = c
      /\ \A q \in Procesos : \A m \in 1 .. Len(paginas[q]) :
           q # p \/ m # n => paginas'[q][m] = paginas[q][m]
  BY UnaPagina
<1>4. CASE r.pid = p /\ r.pagina = n
  BY <1>1, <1>2, <1>3, <1>4 DEF Vigente
<1>5. CASE ~ (r.pid = p /\ r.pagina = n)
  <2>1. paginas'[r.pid][r.pagina] = paginas[r.pid][r.pagina]
    BY <1>1, <1>2, <1>3, <1>5
  <2> QED BY <1>1, <1>2, <1>3, <2>1 DEF Vigente
<1> QED BY <1>4, <1>5

\* compactarPaginaHeap: two free blocks become one.
EsUnion(celdas, a, b, v, size, c) ==
  /\ celdas \in Paginas /\ a \in BloquesDe(celdas) /\ b \in BloquesDe(celdas)
  /\ b = Sucesor(celdas, a) /\ ~ celdas[a].uso /\ ~ celdas[b].uso
  /\ v = FALSE /\ size = celdas[a].size + M + celdas[b].size
  /\ c = ConCabecera(celdas, a, size, v)
QuedaUnida(celdas, a, b, size, c) ==
  /\ c \in Paginas /\ BloquesDe(c) = BloquesDe(celdas) \ {b}
  /\ \A o \in BloquesDe(celdas) \ {a, b} : c[o] = celdas[o]
  /\ LibreDe(c) = LibreDe(celdas) + M /\ LibreDe(celdas) \in Nat
  /\ a \in Nat /\ size \in Nat /\ a # b

LEMMA PaginaUnida ==
  ASSUME NEW celdas, NEW a, NEW b, NEW v, NEW size, NEW c, EsUnion(celdas, a, b, v, size, c)
  PROVE  QuedaUnida(celdas, a, b, size, c)
<1> DEFINE B == BloquesDe(celdas)
<1>0. /\ celdas \in Paginas /\ a \in BloquesDe(celdas) /\ b \in BloquesDe(celdas)
      /\ b = Sucesor(celdas, a) /\ ~ celdas[a].uso /\ ~ celdas[b].uso
      /\ v = FALSE /\ size = celdas[a].size + M + celdas[b].size
      /\ c = ConCabecera(celdas, a, size, v)
  BY DEF EsUnion
<1>a. /\ b = Sucesor(celdas, a) /\ size = celdas[a].size + M + celdas[b].size
      /\ c = ConCabecera(celdas, a, size, v)
  BY <1>0
<1>1. /\ Partida(celdas, B) /\ LibreDe(celdas) \in Nat
      /\ DOMAIN celdas \in SUBSET Nat /\ \A o \in DOMAIN celdas : celdas[o] \in Cabeceras
  BY <1>0, DePagina
<1> HIDE DEF B
<1>2. a \in B /\ b \in B
  BY <1>0 DEF B
<1>3. /\ Partida(c, B \ {b}) /\ \A o \in B \ {a, b} : c[o] = celdas[o]
      /\ c[a].size = celdas[a].size + M + celdas[b].size /\ ~ c[a].uso
  <2>1. v \in Usos
    BY <1>0 DEF Usos
  <2>2. Partida(c, B \ {b})
    BY ONLY <1>a, <1>1, <1>2, <2>1, PartidaUnida
  <2>3. \A o \in B \ {a, b} : c[o] = celdas[o]
    BY ONLY <1>a, <1>1, <1>2, <2>1, <2>2, PartidaUnida
  <2>4. c[a].size = size
    BY ONLY <1>a, <1>1, <1>2, <2>1, <2>2, PartidaUnida
  <2>5. c[a].uso = v
    BY ONLY <1>a, <1>1, <1>2, <2>1, <2>2, PartidaUnida
  <2> QED BY <1>0, <2>2, <2>3, <2>4, <2>5
<1>4. a \in Nat /\ celdas[a].size \in Nat /\ celdas[b].size \in Nat /\ a < b /\ M = 5
  <2>1. /\ M = 5
        /\ \A o \in B : /\ o \in Nat /\ celdas[o].size \in Nat
                        /\ Sucesor(celdas, o) = o + M + celdas[o].size
    BY <1>1, PartidaTipo
  <2> QED BY <1>0, <1>2, <2>1 DEF Sucesor
<1>5. size \in Nat /\ b \in B \ {a}
  BY <1>0, <1>2, <1>4
<1>6. c \in Celdas
  BY <1>0, <1>1, <1>4, <1>5, CeldasConCabecera DEF Usos
<1>7. EsPagina(c) /\ BloquesDe(c) = B \ {b}
  BY <1>3, PaginaTipo
<1>8. LibreDe(c) = LibreDe(celdas) + M
  BY <1>0, <1>1, <1>2, <1>3, <1>5, LibreUnida
<1> QED BY <1>1, <1>3, <1>4, <1>5, <1>6, <1>7, <1>8 DEF B, Paginas, QuedaUnida

\* liberarBloqueHeap: a block that was used is free, where it was.
SeLibera(celdas, a, v, c) ==
  /\ celdas \in Paginas /\ a \in BloquesDe(celdas) /\ celdas[a].uso /\ v = FALSE
  /\ c = ConCabecera(celdas, a, celdas[a].size, v)
QuedaLiberada(celdas, a, c) ==
  /\ c \in Paginas /\ BloquesDe(c) = BloquesDe(celdas)
  /\ \A o \in BloquesDe(celdas) \ {a} : c[o] = celdas[o]
  /\ LibreDe(c) = LibreDe(celdas) + celdas[a].size
  /\ LibreDe(celdas) \in Nat /\ celdas[a].size \in Nat

LEMMA PaginaLiberada ==
  ASSUME NEW celdas, NEW a, NEW v, NEW c, SeLibera(celdas, a, v, c)
  PROVE  QuedaLiberada(celdas, a, c)
<1> DEFINE B == BloquesDe(celdas)
<1>b. /\ celdas \in Paginas /\ a \in BloquesDe(celdas) /\ celdas[a].uso /\ v = FALSE
      /\ c = ConCabecera(celdas, a, celdas[a].size, v)
  BY DEF SeLibera
<1>0. c = ConCabecera(celdas, a, celdas[a].size, v) /\ v \in Usos
  BY <1>b DEF Usos
<1>1. /\ Partida(celdas, B) /\ LibreDe(celdas) \in Nat
      /\ DOMAIN celdas \in SUBSET Nat /\ \A o \in DOMAIN celdas : celdas[o] \in Cabeceras
  BY <1>b, DePagina
<1> HIDE DEF B
<1>2. a \in B
  BY <1>b DEF B
<1>3. /\ Partida(c, B) /\ \A o \in B \ {a} : c[o] = celdas[o]
      /\ c[a].size = celdas[a].size /\ ~ c[a].uso
  <2>2. Partida(c, B)
    BY ONLY <1>0, <1>1, <1>2, PartidaUso
  <2>3. \A o \in B \ {a} : c[o] = celdas[o]
    BY ONLY <1>0, <1>1, <1>2, <2>2, PartidaUso
  <2>4. c[a].size = celdas[a].size /\ c[a].uso = v
    BY ONLY <1>0, <1>1, <1>2, <2>2, PartidaUso
  <2> QED BY <1>b, <2>2, <2>3, <2>4
<1>4. a \in Nat /\ celdas[a].size \in Nat
  <2>1. \A o \in B : o \in Nat /\ celdas[o].size \in Nat
    BY <1>1, PartidaTipo
  <2> QED BY <1>2, <2>1
<1>5. c \in Celdas
  BY <1>0, <1>1, <1>4, CeldasConCabecera
<1>6. EsPagina(c) /\ BloquesDe(c) = B
  BY <1>3, PaginaTipo
<1>7. LibreDe(c) = LibreDe(celdas) + celdas[a].size
  BY <1>b, <1>1, <1>2, <1>3, LibreLiberada
<1> QED BY <1>1, <1>3, <1>4, <1>5, <1>6, <1>7 DEF B, Paginas, QuedaLiberada

\* reservarBloqueHeap: a free block is cut in one that is used and the rest.
SeReserva(celdas, a, t, u, v, c) ==
  /\ celdas \in Paginas /\ a \in BloquesDe(celdas) /\ t \in Nat
  /\ Entra(celdas, a, t) /\ ~ celdas[a].uso /\ u = TRUE /\ v = FALSE
  /\ c = ConCabecera(ConCabecera(celdas, a, t, u), Tras(a, t), Resto(celdas[a].size, t), v)
QuedaReservada(celdas, a, t, u, c) ==
  /\ c \in Paginas /\ a \in BloquesDe(c) /\ BloquesDe(celdas) \subseteq BloquesDe(c)
  /\ \A o \in BloquesDe(celdas) \ {a} : c[o] = celdas[o]
  /\ c[a] = [size |-> t, uso |-> u]
  /\ LibreDe(c) = LibreDe(celdas) - t - M /\ LibreDe(celdas) \in Nat

LEMMA PaginaCortada ==
  ASSUME NEW celdas, NEW a, NEW t, NEW u, NEW v, NEW c, SeReserva(celdas, a, t, u, v, c)
  PROVE  QuedaReservada(celdas, a, t, u, c)
<1> DEFINE B == BloquesDe(celdas)
           d == Tras(a, t)
           k == Resto(celdas[a].size, t)
           e == ConCabecera(celdas, a, t, u)
<1>b. /\ celdas \in Paginas /\ a \in BloquesDe(celdas) /\ t \in Nat
      /\ Entra(celdas, a, t) /\ ~ celdas[a].uso /\ u = TRUE /\ v = FALSE
      /\ c = ConCabecera(e, d, k, v)
  BY DEF SeReserva
<1>0. c = ConCabecera(e, d, k, v) /\ v \in Usos /\ u \in Usos
  BY <1>b DEF Usos
<1>1. /\ Partida(celdas, B) /\ LibreDe(celdas) \in Nat
      /\ DOMAIN celdas \in SUBSET Nat /\ \A o \in DOMAIN celdas : celdas[o] \in Cabeceras
  BY <1>b, DePagina
<1> HIDE DEF B
<1>2. a \in B /\ Entra(celdas, a, t) /\ t \in Nat
  BY <1>b DEF B
<1>3. EsCorte(celdas, B, a, t, u, v, d, k, e, c) /\ QuedaCortada(celdas, B, a, t, u, v, d, k, c)
  <2>1. d = Tras(a, t) /\ k = Resto(celdas[a].size, t) /\ e = ConCabecera(celdas, a, t, u)
    OBVIOUS
  <2> HIDE DEF d, k, e
  <2>2. EsCorte(celdas, B, a, t, u, v, d, k, e, c)
    BY ONLY <1>0, <1>1, <1>2, <2>1 DEF EsCorte
  <2> QED BY ONLY <2>2, PartidaCortada
<1>c. /\ Partida(c, B \cup {d}) /\ \A o \in B \ {a} : c[o] = celdas[o]
      /\ c[a] = [size |-> t, uso |-> u]
  BY ONLY <1>3 DEF QuedaCortada
<1>4. a \in Nat /\ d \in Nat /\ k \in Nat
  <2>1. M = 5 /\ \A o \in B : o \in Nat /\ celdas[o].size \in Nat
    BY <1>1, PartidaTipo
  <2> QED BY <1>2, <2>1 DEF Entra, Tras, Resto
<1>5. e \in Celdas
  <2> HIDE DEF e
  <2> QED BY <1>0, <1>1, <1>2, <1>4, CeldasConCabecera DEF e
<1> HIDE DEF d, k, e
<1>6. c \in Celdas
  <2>1. PICK S \in SUBSET Nat : e \in [S -> Cabeceras]
    BY <1>5 DEF Celdas
  <2> QED BY <1>0, <1>4, <2>1, CeldasConCabecera
<1>7. EsPagina(c) /\ BloquesDe(c) = B \cup {d}
  BY <1>c, PaginaTipo
<1>8. LibreDe(c) = LibreDe(celdas) - t - M
  <2>1. SeOcupa(celdas, a, u, v)
    BY ONLY <1>b DEF SeOcupa
  <2> QED BY ONLY <1>3, <2>1, LibreCortada
<1> QED BY ONLY <1>1, <1>2, <1>c, <1>6, <1>7, <1>8 DEF B, Paginas, QuedaReservada

\* reservarPaginaHeap: a page that is one free block.
LEMMA PaginaNueva ==
  ASSUME NEW v, v = FALSE, NEW c, c = ConCabecera(<< >>, 0, TAMPAG - M, v)
  PROVE  /\ c \in Paginas /\ BloquesDe(c) = {0} /\ c[0].size = TAMPAG - M /\ ~ c[0].uso
         /\ LibreDe(c) = TAMPAG - M
<1> DEFINE n == TAMPAG - M
<1>0. c = ConCabecera(<< >>, 0, n, v) /\ v \in Usos /\ n \in Nat
  <2>1. n \in Nat
    BY ONLY TAMPAGAssumption DEF M
  <2> QED BY <2>1 DEF Usos
<1>1. Partida(c, {0}) /\ c[0].size = n /\ ~ c[0].uso
  <2>1. Partida(c, {0}) /\ c[0].size = TAMPAG - M /\ c[0].uso = v
    BY ONLY <1>0, PartidaNueva
  <2> QED BY <2>1
<1> HIDE DEF n
<1>2. DOMAIN << >> \in SUBSET Nat /\ \A o \in DOMAIN << >> : << >>[o] \in Cabeceras
  OBVIOUS
<1>3. c \in Celdas
  <2> DEFINE s == << >>
  <2>1. DOMAIN s \in SUBSET Nat /\ (\A o \in DOMAIN s : s[o] \in Cabeceras) /\ c = ConCabecera(s, 0, n, v)
    BY <1>0, <1>2
  <2> HIDE DEF s
  <2> QED BY <1>0, <2>1, CeldasConCabecera
<1>4. EsPagina(c) /\ BloquesDe(c) = {0}
  BY <1>1, PaginaTipo
<1>5. LibreDe(c) = TAMPAG - M
  BY <1>1, LibreNueva DEF n
<1> QED BY <1>1, <1>3, <1>4, <1>5 DEF n, Paginas

\* A merge of two free blocks: what is given does not move, and the page has
\* the bytes of a header more.
LEMMA PasoUnir ==
  ASSUME Inv, hilo.paso = "compactar",
         listaAdminHeap' = listaAdminHeap, sizePaginasHeap' = sizePaginasHeap,
         estado' = estado, reservas' = reservas, liberadas' = liberadas,
         NEW size, NEW celdas, celdas = Pagina, NEW a, a \in BloquesDe(celdas), a = hilo.offset,
         NEW b, ~ celdas[a].uso, ~ celdas[b].uso,
         NEW c, QuedaUnida(celdas, a, b, size, c), CambiaUna(hilo.pid, hilo.pagina, c),
         hilo' = [hilo EXCEPT !.actual = size]
  PROVE  Inv'
<1> DEFINE p == hilo.pid
           n == hilo.pagina
<1>1. /\ p \in Procesos /\ estado[p] = "corre" /\ n \in 1 .. Len(paginas[p])
      /\ celdas = paginas[p][n] /\ hilo.i >= 1 /\ hilo.tamanio + M <= TAMPAG - M
  BY PaginaDelHilo DEF Pagina
<1>a. /\ c \in Paginas /\ BloquesDe(c) = BloquesDe(celdas) \ {b}
      /\ \A o \in BloquesDe(celdas) \ {a, b} : c[o] = celdas[o]
      /\ LibreDe(c) = LibreDe(celdas) + M /\ LibreDe(celdas) \in Nat
      /\ a \in Nat /\ size \in Nat /\ a # b
  BY DEF QuedaUnida
<1>2. hilo \in Hilos /\ listaAdminHeap \in Seq(Registros) /\ paginas \in [Procesos -> Seq(Paginas)]
  BY DEF Inv, Tipos
<1>3. /\ hilo' \in Hilos /\ hilo'.paso = "compactar" /\ hilo'.pid = p
      /\ hilo'.i = hilo.i /\ hilo'.tamanio = hilo.tamanio
      /\ hilo'.pagina = n /\ hilo'.offset = a
  BY <1>2, <1>a DEF Hilos
<1>4. CambiaUna(p, n, c)
  OBVIOUS
<1> HIDE DEF p, n
<1>5. MismasPaginas' /\ NoPrometenDeMas' /\ UnoPorPagina'
  <2>1. ASSUME NEW k \in 1 .. Len(listaAdminHeap), RegistroDe(k, p, n)
        PROVE  listaAdminHeap[k].disponible <= LibreDe(c)
    <3>1. listaAdminHeap[k].disponible <= LibreDe(celdas)
      BY <1>1, <2>1 DEF Inv, NoPrometenDeMas, Vivo, RegistroDe
    <3>2. listaAdminHeap[k] \in Registros
      BY <1>2
    <3>3. listaAdminHeap[k].disponible \in Nat
      BY <3>2 DEF Registros
    <3> QED BY <1>a, <3>1, <3>3 DEF M
  <2>2. SigueLaPagina(p, n, LibreDe(c))
    BY <1>2, <2>1 DEF SigueLaPagina
  <2> QED BY <1>1, <1>4, <2>2, UnaPaginaYSusRegistros
<1>6. Vigentes'
  <2>1. ASSUME NEW r \in reservas, r.pid = p /\ r.pagina = n
        PROVE  r.offset \in BloquesDe(c) /\ c[r.offset] = paginas[p][n][r.offset]
    <3>1. /\ r.offset \in BloquesDe(celdas)
          /\ celdas[r.offset] = [size |-> r.tamanio, uso |-> TRUE]
      BY <1>1, <2>1 DEF Inv, Vigentes, Vigente
    <3>2. r.offset # a /\ r.offset # b
      BY <3>1
    <3> QED BY <1>1, <1>a, <3>1, <3>2
  <2>2. ASSUME NEW r \in reservas PROVE Vigente(r)'
    BY <1>4, <2>1, ReservaSigue
  <2> QED BY <2>2 DEF Inv, Vigentes
<1>7. /\ paginas' \in [Procesos -> Seq(Paginas)] /\ paginas'[p][n] = c
      /\ \A q \in Procesos : Len(paginas'[q]) = Len(paginas[q])
  BY <1>4, UnaPagina
<1>8. Tipos'
  BY <1>3, <1>7 DEF Inv, Tipos
<1>9. ManoDelHilo'
  <2>1. Pagina' = c
    BY <1>3, <1>7 DEF Pagina
  <2> QED BY <1>1, <1>3, <1>7, <1>a, <2>1 DEF ManoDelHilo
<1> QED BY <1>5, <1>6, <1>8, <1>9 DEF Inv

LEMMA PasoCompactar ==
  ASSUME Inv, compactarPaginaHeap
  PROVE  Inv'
<1>1. hilo.paso = "compactar" /\ SigueCompactando /\ UNCHANGED <<listas, estado, historia>>
  BY DEF compactarPaginaHeap
<1>2. PICK actual \in Cabecera(Pagina, hilo.offset) :
      \E siguiente \in Siguiente(Pagina, hilo.offset + M + actual.size) :
        LET size == Compactado(actual, siguiente)
        IN IF SeUnen(actual, siguiente)
           THEN /\ paginas' = [paginas EXCEPT ![hilo.pid][hilo.pagina] =
                                 ConCabecera(@, hilo.offset, size, FALSE)]
                /\ hilo' = [hilo EXCEPT !.actual = size]
           ELSE /\ hilo' = [hilo EXCEPT !.actual = actual.size,
                                        !.offset = @ + M + actual.size]
                /\ UNCHANGED paginas
  BY DEF compactarPaginaHeap
<1>3. PICK siguiente \in Siguiente(Pagina, hilo.offset + M + actual.size) :
        LET size == Compactado(actual, siguiente)
        IN IF SeUnen(actual, siguiente)
           THEN /\ paginas' = [paginas EXCEPT ![hilo.pid][hilo.pagina] =
                                 ConCabecera(@, hilo.offset, size, FALSE)]
                /\ hilo' = [hilo EXCEPT !.actual = size]
           ELSE /\ hilo' = [hilo EXCEPT !.actual = actual.size,
                                        !.offset = @ + M + actual.size]
                /\ UNCHANGED paginas
  BY <1>2
<1> DEFINE a == hilo.offset
           b == Sucesor(Pagina, a)
<1>4. /\ Partida(Pagina, BloquesDe(Pagina)) /\ hilo.pid \in Procesos
      /\ estado[hilo.pid] = "corre" /\ hilo.pagina \in 1 .. Len(paginas[hilo.pid])
      /\ hilo.i >= 1 /\ hilo.tamanio + M <= TAMPAG - M
  BY <1>1, PaginaDelHilo
<1>5. a \in BloquesDe(Pagina) /\ a \in Nat /\ TAMPAG \in Nat
  <2>1. a < TAMPAG /\ a \in Nat /\ TAMPAG \in Nat
    BY <1>1, HiloCampos, TAMPAGAssumption DEF SigueCompactando, Inv
  <2> QED BY <1>1, <2>1 DEF Inv, ManoDelHilo
<1>6. actual = Pagina[a]
  BY <1>5 DEF Cabecera, BloquesDe
<1>7. /\ b \in BloquesDe(Pagina) \cup {TAMPAG} /\ b \in Nat /\ Pagina[a].size \in Nat /\ M = 5
  <2>1. /\ M = 5
        /\ \A o \in BloquesDe(Pagina) :
              /\ Sucesor(Pagina, o) \in BloquesDe(Pagina) \cup {TAMPAG}
              /\ Sucesor(Pagina, o) \in Nat /\ Pagina[o].size \in Nat
    <3> HIDE DEF b
    <3> QED BY <1>4, PartidaTipo
  <2> QED BY <1>5, <2>1
<1>8. b = hilo.offset + M + actual.size
  BY <1>6 DEF Sucesor
<1> HIDE DEF b
<1>9. CASE SeUnen(actual, siguiente)
  <2>1. ~ actual.uso /\ ~ siguiente.uso
    BY <1>9 DEF SeUnen
  <2>2. siguiente \in Siguiente(Pagina, b)
    BY <1>8
  <2>3. b < TAMPAG - M
    <3>1. ASSUME ~ (b < TAMPAG - M) PROVE FALSE
      <4>1. siguiente = [size |-> 0, uso |-> TRUE]
        BY <2>2, <3>1 DEF Siguiente
      <4> QED BY <2>1, <4>1
    <3> QED BY <3>1
  <2>4. b \in BloquesDe(Pagina)
    BY <1>5, <1>7, <2>3
  <2>5. siguiente = Pagina[b]
    BY <2>2, <2>3, <2>4 DEF Siguiente, Cabecera, BloquesDe
  <2> DEFINE size == Compactado(actual, siguiente)
  <2>6. size = Pagina[a].size + M + Pagina[b].size
    BY <1>6, <2>5 DEF Compactado
  <2> DEFINE v == FALSE
             celdas == Pagina
             c == ConCabecera(celdas, a, size, v)
  <2>7. /\ paginas' = [paginas EXCEPT ![hilo.pid][hilo.pagina] = c]
        /\ hilo' = [hilo EXCEPT !.actual = size]
    BY <1>3, <1>9 DEF Pagina
  <2>8. /\ celdas = Pagina /\ celdas \in Paginas /\ c = ConCabecera(celdas, a, size, v)
        /\ a \in BloquesDe(celdas) /\ b \in BloquesDe(celdas) /\ b = Sucesor(celdas, a)
        /\ ~ celdas[a].uso /\ ~ celdas[b].uso /\ size = celdas[a].size + M + celdas[b].size
        /\ v = FALSE /\ a = hilo.offset
    BY <1>1, <1>5, <1>6, <2>1, <2>4, <2>5, <2>6, PaginaDelHilo DEF b
  <2>9. /\ listaAdminHeap' = listaAdminHeap /\ sizePaginasHeap' = sizePaginasHeap
        /\ estado' = estado /\ reservas' = reservas /\ liberadas' = liberadas
    BY <1>1 DEF listas, historia
  <2> HIDE DEF size, c, celdas, v, a
  <2>10. QuedaUnida(celdas, a, b, size, c)
    <3>1. EsUnion(celdas, a, b, v, size, c)
      BY ONLY <2>8 DEF EsUnion
    <3> QED BY <3>1, PaginaUnida
  <2>11. CambiaUna(hilo.pid, hilo.pagina, c)
    <3>1. c \in Paginas
      BY <2>10 DEF QuedaUnida
    <3> QED BY <1>4, <2>7, <3>1 DEF Inv, Tipos, CambiaUna
  <2> QED BY ONLY Inv, <1>1, <2>7, <2>8, <2>9, <2>10, <2>11, PasoUnir
<1>10. CASE ~ SeUnen(actual, siguiente)
  <2> DEFINE k == actual.size
  <2>1. /\ hilo' = [hilo EXCEPT !.actual = k, !.offset = b] /\ paginas' = paginas
        /\ k \in Nat /\ estado' = estado
    BY <1>1, <1>3, <1>6, <1>7, <1>8, <1>10
  <2> HIDE DEF k
  <2>2. hilo \in Hilos
    BY DEF Inv, Tipos
  <2>3. /\ hilo' \in Hilos /\ hilo'.paso = "compactar" /\ hilo'.pid = hilo.pid
        /\ hilo'.i = hilo.i /\ hilo'.tamanio = hilo.tamanio
        /\ hilo'.pagina = hilo.pagina /\ hilo'.offset = b
    BY <1>1, <1>7, <2>1, <2>2 DEF Hilos
  <2>4. Pagina' = Pagina
    BY <2>1, <2>3 DEF Pagina
  <2>5. ManoDelHilo'
    BY <1>4, <1>7, <2>1, <2>3, <2>4 DEF ManoDelHilo
  <2> QED BY <1>1, <2>1, <2>3, <2>5, TodoQuieto DEF Inv
<1> QED BY <1>9, <1>10

\* reservarBloqueHeap: what the program has stays, and the new block joins it.
LEMMA PasoReservarBloque ==
  ASSUME Inv, reservarBloqueHeap
  PROVE  Inv'
<1>1. hilo.paso = "reservar" /\ UNCHANGED <<sizePaginasHeap, liberadas, pedidos>>
  BY DEF reservarBloqueHeap
<1>2. /\ hilo.pid \in Procesos /\ estado[hilo.pid] = "corre"
      /\ hilo.pagina \in 1 .. Len(paginas[hilo.pid]) /\ Pagina \in Paginas
  BY <1>1, PaginaDelHilo
<1>3. CASE NoAlcanzaDisponible
  <2>1. Falla(hilo.pid) /\ UNCHANGED <<listaAdminHeap, paginas, reservas>>
    BY <1>3 DEF reservarBloqueHeap
  <2> QED BY <1>1, <1>2, <2>1, PasoFalla DEF listas, historia
<1>4. CASE ~ NoAlcanzaDisponible
  <2> DEFINE p == hilo.pid
             n == hilo.pagina
             a == hilo.offset
             t == hilo.tamanio
             celdas == Pagina
             k == Registro(listaAdminHeap, p, n)
             w == listaAdminHeap[k].disponible - t - M
             nueva == [pid |-> p, pagina |-> n, offset |-> a, tamanio |-> t]
             u == TRUE
             v == FALSE
  <2>1. /\ hilo' = Libre /\ estado' = estado
        /\ reservas' = reservas \cup {nueva} /\ listaAdminHeap' = Descontada(listaAdminHeap)
    BY <1>4 DEF reservarBloqueHeap
  <2>2. PICK viejo \in Cabecera(Pagina, hilo.offset) :
               paginas' = [paginas EXCEPT ![hilo.pid][hilo.pagina] =
                 ConCabecera(ConCabecera(@, hilo.offset, hilo.tamanio, TRUE),
                             hilo.offset + M + hilo.tamanio,
                             Resto(viejo.size, hilo.tamanio), FALSE)]
    BY <1>4 DEF reservarBloqueHeap
  <2>3. a \in BloquesDe(celdas) /\ ~ celdas[a].uso /\ celdas[a].size >= t + M
    BY <1>1 DEF Inv, ManoDelHilo
  <2>4. viejo = celdas[a]
    BY <2>3 DEF Cabecera, BloquesDe
  <2>5. a \in Nat /\ t \in Nat /\ M = 5
    BY HiloCampos DEF Inv, M
  <2> DEFINE c == ConCabecera(ConCabecera(celdas, a, t, u), Tras(a, t), Resto(celdas[a].size, t), v)
  <2>6. paginas' = [paginas EXCEPT ![p][n] = c]
    BY <2>2, <2>4 DEF Pagina, Tras
  <2>7. SeReserva(celdas, a, t, u, v, c)
    <3>1. u = TRUE /\ v = FALSE
      OBVIOUS
    <3> HIDE DEF u, v
    <3> QED BY <1>2, <2>3, <2>5, <3>1 DEF SeReserva, Entra
  <2>8. listaAdminHeap' = IF k = 0 THEN listaAdminHeap
                           ELSE [listaAdminHeap EXCEPT ![k].disponible = w]
    BY <2>1 DEF Descontada
  <2>9. k # 0 => ~ (t + M > listaAdminHeap[k].disponible)
    BY <1>4 DEF NoAlcanzaDisponible
  <2>10. Vivo(p) /\ celdas = paginas[p][n] /\ p \in Procesos /\ n \in 1 .. Len(paginas[p])
         /\ u = TRUE
    BY <1>2 DEF Vivo, Pagina
  <2> HIDE DEF u, v
  <2>u. nueva = [pid |-> p, pagina |-> n, offset |-> a, tamanio |-> t] /\ n \in Nat
        /\ k = Registro(listaAdminHeap, p, n)
    BY HiloCampos DEF Inv
  <2>w. w = listaAdminHeap[k].disponible - t - M
    OBVIOUS
  <2> HIDE DEF p, n, a, t, celdas, c, k, w, nueva
  <2>11. QuedaReservada(celdas, a, t, u, c)
    BY ONLY <2>7, PaginaCortada
  <2>12. /\ c \in Paginas /\ a \in BloquesDe(c) /\ BloquesDe(celdas) \subseteq BloquesDe(c)
         /\ \A o \in BloquesDe(celdas) \ {a} : c[o] = celdas[o]
         /\ c[a] = [size |-> t, uso |-> TRUE]
         /\ LibreDe(c) = LibreDe(celdas) - t - M /\ LibreDe(celdas) \in Nat
    BY ONLY <2>10, <2>11 DEF QuedaReservada
  <2>13. CambiaUna(p, n, c)
    BY <2>6, <2>10, <2>12 DEF CambiaUna, Inv, Tipos
  <2>14. k # 0 => w \in Nat /\ w <= LibreDe(c)
    <3>1. ASSUME k # 0 PROVE w \in Nat /\ w <= LibreDe(c)
      <4>1. listaAdminHeap[k].disponible \in Nat /\ listaAdminHeap[k].disponible <= LibreDe(celdas)
        BY <2>10, <2>u, <3>1, DisponibleDe
      <4> QED BY <2>5, <2>9, <2>12, <2>w, <3>1, <4>1
    <3> QED BY <3>1
  <2>15. SigueLaPagina(p, n, LibreDe(c))
    BY ONLY Inv, <2>8, <2>10, <2>14, <2>u, SuRegistro
  <2>16. MismasPaginas' /\ NoPrometenDeMas' /\ UnoPorPagina'
    BY <1>1, <2>1, <2>13, <2>15, UnaPaginaYSusRegistros
  <2>17. /\ paginas' \in [Procesos -> Seq(Paginas)] /\ paginas'[p][n] = c
         /\ \A q \in Procesos : Len(paginas'[q]) = Len(paginas[q])
    BY <2>13, UnaPagina
  <2>18. Vigentes'
    <3>1. ASSUME NEW r \in reservas, r.pid = p /\ r.pagina = n
          PROVE  r.offset \in BloquesDe(c) /\ c[r.offset] = paginas[p][n][r.offset]
      <4>1. /\ r.offset \in BloquesDe(celdas)
            /\ celdas[r.offset] = [size |-> r.tamanio, uso |-> TRUE]
        BY <2>10, <3>1 DEF Inv, Vigentes, Vigente
      <4>2. r.offset # a
        BY <2>3, <4>1 DEF celdas, a
      <4> QED BY <2>10, <2>12, <4>1, <4>2
    <3>2. ASSUME NEW r \in reservas PROVE Vigente(r)'
      BY <2>13, <3>1, ReservaSigue
    <3>3. ASSUME NEW r, r = nueva PROVE Vigente(r)'
      <4>1. r.pid = p /\ r.pagina = n /\ r.offset = a /\ r.tamanio = t
        BY <2>u, <3>3
      <4> QED BY <2>10, <2>12, <2>17, <4>1 DEF Vigente
    <3>4. liberadas' = {}
      BY <1>1 DEF Inv, Vigentes
    <3> QED BY <2>1, <3>2, <3>3, <3>4 DEF Vigentes
  <2>19. hilo' \in Hilos /\ hilo'.paso = "libre"
    BY <2>1 DEF Libre, Hilos, Pasos
  <2>20. Tipos'
    <3>1. nueva \in Reservas
      BY <2>5, <2>10, <2>u DEF Reservas, a, t
    <3>2. listaAdminHeap' \in Seq(Registros)
      BY <2>15 DEF SigueLaPagina
    <3> QED BY <1>1, <2>1, <2>17, <2>19, <3>1, <3>2 DEF Inv, Tipos
  <2>21. ManoDelHilo'
    BY <2>19 DEF ManoDelHilo
  <2> QED BY <2>16, <2>18, <2>20, <2>21 DEF Inv
<1> QED BY <1>3, <1>4

\* liberarBloqueHeap: the block that is freed is of one program only, and its
\* bytes are available again.
LEMMA PasoLiberar ==
  ASSUME Inv, LiberaDosVeces = FALSE, NEW r \in reservas \cup liberadas, liberarBloqueHeap(r)
  PROVE  Inv'
<1>1. r \in reservas /\ r \in Reservas /\ Vigente(r) /\ liberadas = {}
  BY DEF Inv, Tipos, Vigentes
<1> DEFINE p == r.pid
           n == r.pagina
           a == r.offset
           celdas == paginas[p][n]
           k == Registro(listaAdminHeap, p, n)
           v == FALSE
<1>2. /\ p \in Procesos /\ estado[p] = "corre" /\ n \in 1 .. Len(paginas[p]) /\ n \in Nat
      /\ a \in BloquesDe(celdas) /\ celdas[a] = [size |-> r.tamanio, uso |-> TRUE]
  BY <1>1 DEF Reservas, Vigente, liberarBloqueHeap
<1>3. celdas \in Paginas
  <2>1. paginas[p] \in Seq(Paginas)
    BY <1>2 DEF Inv, Tipos
  <2> QED BY <1>2, <2>1
<1>4. PICK bloque \in Cabecera(paginas[r.pid][r.pagina], r.offset) :
        /\ paginas' = [paginas EXCEPT ![r.pid][r.pagina] =
                           ConCabecera(@, r.offset, bloque.size, FALSE)]
        /\ listaAdminHeap' =
               IF k = 0 THEN listaAdminHeap
               ELSE [listaAdminHeap EXCEPT ![k].disponible = @ + Devuelve(bloque.size)]
  BY DEF liberarBloqueHeap
<1>5. bloque = celdas[a]
  BY <1>2 DEF Cabecera, BloquesDe
<1>6. /\ sizePaginasHeap' = sizePaginasHeap /\ estado' = estado /\ hilo' = hilo
      /\ hilo.paso = "libre" /\ reservas' = reservas \ {r} /\ liberadas' = {}
  BY <1>1 DEF liberarBloqueHeap
<1> DEFINE c == ConCabecera(celdas, a, celdas[a].size, v)
           w == listaAdminHeap[k].disponible + celdas[a].size
<1>7. /\ paginas' = [paginas EXCEPT ![p][n] = c]
      /\ listaAdminHeap' = IF k = 0 THEN listaAdminHeap
                           ELSE [listaAdminHeap EXCEPT ![k].disponible = w]
  BY <1>4, <1>5 DEF Devuelve
<1>8. SeLibera(celdas, a, v, c)
  <2>1. v = FALSE /\ celdas[a].uso
    BY <1>2
  <2> HIDE DEF v
  <2> QED BY <1>2, <1>3, <2>1 DEF SeLibera
<1>9. /\ k = Registro(listaAdminHeap, p, n) /\ w = listaAdminHeap[k].disponible + celdas[a].size
      /\ celdas = paginas[p][n] /\ Vivo(p)
  BY <1>2 DEF Vivo
<1>10. \A z \in reservas : z.pid = p /\ z.pagina = n /\ z.offset = a => z = r
  <2>1. ASSUME NEW z \in reservas, z.pid = p, z.pagina = n, z.offset = a PROVE z = r
    <3>1. z \in Reservas /\ Vigente(z)
      BY DEF Inv, Tipos, Vigentes
    <3>2. z.tamanio = r.tamanio
      <4>1. celdas[a] = [size |-> z.tamanio, uso |-> TRUE]
        BY <2>1, <3>1 DEF Vigente
      <4> QED BY <1>2, <4>1
    <3> QED BY <1>1, <2>1, <3>1, <3>2 DEF Reservas
  <2> QED BY <2>1
<1> HIDE DEF p, n, a, celdas, k, v, c, w
<1>11. /\ c \in Paginas /\ BloquesDe(c) = BloquesDe(celdas)
       /\ \A o \in BloquesDe(celdas) \ {a} : c[o] = celdas[o]
       /\ LibreDe(c) = LibreDe(celdas) + celdas[a].size
       /\ LibreDe(celdas) \in Nat /\ celdas[a].size \in Nat
  <2>1. QuedaLiberada(celdas, a, c)
    BY ONLY <1>8, PaginaLiberada
  <2> QED BY ONLY <2>1 DEF QuedaLiberada
<1>12. CambiaUna(p, n, c)
  BY <1>2, <1>7, <1>11 DEF CambiaUna, Inv, Tipos
<1>13. k # 0 => w \in Nat /\ w <= LibreDe(c)
  <2>1. ASSUME k # 0 PROVE w \in Nat /\ w <= LibreDe(c)
    <3>1. listaAdminHeap[k].disponible \in Nat /\ listaAdminHeap[k].disponible <= LibreDe(celdas)
      BY <1>2, <1>9, <2>1, DisponibleDe
    <3> QED BY <1>9, <1>11, <3>1
  <2> QED BY <2>1
<1>14. SigueLaPagina(p, n, LibreDe(c))
  BY ONLY Inv, <1>2, <1>7, <1>9, <1>13, SuRegistro
<1>15. MismasPaginas' /\ NoPrometenDeMas' /\ UnoPorPagina'
  BY <1>6, <1>12, <1>14, UnaPaginaYSusRegistros
<1>16. Vigentes'
  <2>1. ASSUME NEW z \in reservas', z.pid = p /\ z.pagina = n
        PROVE  z.offset \in BloquesDe(c) /\ c[z.offset] = paginas[p][n][z.offset]
    <3>1. z \in reservas /\ z # r
      BY <1>6
    <3>2. z.offset \in BloquesDe(celdas)
      BY <1>9, <2>1, <3>1 DEF Inv, Vigentes, Vigente
    <3>3. z.offset # a
      BY <1>10, <2>1, <3>1
    <3> QED BY <1>9, <1>11, <3>2, <3>3
  <2>2. ASSUME NEW z \in reservas' PROVE Vigente(z)'
    <3>1. z \in reservas
      BY <1>6
    <3> QED BY <1>12, <2>1, <3>1, ReservaSigue
  <2> QED BY <1>6, <2>2 DEF Vigentes
<1>17. Tipos'
  <2>1. paginas' \in [Procesos -> Seq(Paginas)]
    BY <1>12, UnaPagina
  <2>2. listaAdminHeap' \in Seq(Registros)
    BY <1>14 DEF SigueLaPagina
  <2> QED BY <1>6, <2>1, <2>2 DEF Inv, Tipos
<1>18. ManoDelHilo'
  BY <1>6 DEF ManoDelHilo
<1> QED BY <1>15, <1>16, <1>17, <1>18 DEF Inv

\* A page more for a process, that is one free block, and its record.
AgregaUna(p, n, c, nuevo) ==
  /\ p \in Procesos /\ Vivo(p) /\ n = Len(paginas[p]) + 1
  /\ c \in Paginas /\ paginas' = [paginas EXCEPT ![p] = Append(@, c)]
  /\ nuevo \in Registros /\ nuevo.pid = p /\ nuevo.pagina = n /\ nuevo.disponible <= LibreDe(c)
  /\ listaAdminHeap' = Append(listaAdminHeap, nuevo)
  /\ sizePaginasHeap' = [sizePaginasHeap EXCEPT ![p] = @ + 1]
  /\ estado' = estado /\ UNCHANGED historia

LEMMA PaginaMas ==
  ASSUME Inv, NEW p, NEW n, NEW c, NEW nuevo, AgregaUna(p, n, c, nuevo)
  PROVE  /\ paginas' \in [Procesos -> Seq(Paginas)] /\ paginas'[p][n] = c
         /\ Len(paginas'[p]) = n
         /\ \A q \in Procesos : q # p => paginas'[q] = paginas[q]
         /\ \A q \in Procesos : \A m \in 1 .. Len(paginas[q]) :
              m \in 1 .. Len(paginas'[q]) /\ paginas'[q][m] = paginas[q][m]
<1>1. paginas \in [Procesos -> Seq(Paginas)] /\ p \in Procesos /\ c \in Paginas
      /\ n = Len(paginas[p]) + 1 /\ paginas' = [paginas EXCEPT ![p] = Append(@, c)]
  BY DEF AgregaUna, Inv, Tipos
<1> DEFINE s == Append(paginas[p], c)
<1>2. /\ s \in Seq(Paginas) /\ Len(s) = n /\ s[n] = c /\ n \in Nat
      /\ \A m \in 1 .. Len(paginas[p]) : m \in 1 .. Len(s) /\ s[m] = paginas[p][m]
  <2> DEFINE t == paginas[p]
  <2>1. t \in Seq(Paginas) /\ c \in Paginas /\ n = Len(t) + 1
    BY <1>1
  <2> HIDE DEF t
  <2>2. Append(t, c) \in Seq(Paginas) /\ Len(Append(t, c)) = n /\ Append(t, c)[n] = c
        /\ \A m \in 1 .. Len(t) : m \in 1 .. Len(Append(t, c)) /\ Append(t, c)[m] = t[m]
    BY <2>1
  <2> QED BY <2>1, <2>2 DEF t
<1>3. paginas' = [paginas EXCEPT ![p] = s]
  BY <1>1
<1> HIDE DEF s
<1>4. paginas' \in [Procesos -> Seq(Paginas)] /\ paginas'[p] = s
  BY <1>1, <1>2, <1>3
<1>5. \A q \in Procesos : q # p => paginas'[q] = paginas[q]
  BY <1>1, <1>3
<1>6. ASSUME NEW q \in Procesos, NEW m \in 1 .. Len(paginas[q])
      PROVE  m \in 1 .. Len(paginas'[q]) /\ paginas'[q][m] = paginas[q][m]
  <2>1. CASE q = p
    BY <1>2, <1>4, <2>1
  <2>2. CASE q # p
    BY <1>5, <2>2
  <2> QED BY <2>1, <2>2
<1> QED BY <1>2, <1>4, <1>5, <1>6

LEMMA RegistroMas ==
  ASSUME NEW lista \in Seq(Registros), NEW nuevo \in Registros, NEW q, q = Append(lista, nuevo)
  PROVE  /\ q \in Seq(Registros) /\ Len(q) = Len(lista) + 1 /\ Len(lista) \in Nat
         /\ \A k \in 1 .. Len(lista) : q[k] = lista[k] /\ lista[k] \in Registros
         /\ q[Len(lista) + 1] = nuevo
OBVIOUS

LEMMA ConUnaPaginaMas ==
  ASSUME Inv, NEW p, NEW n, NEW c, NEW nuevo, AgregaUna(p, n, c, nuevo)
  PROVE  MismasPaginas' /\ NoPrometenDeMas' /\ UnoPorPagina' /\ Vigentes'
         /\ listaAdminHeap' \in Seq(Registros)
<1>1. /\ p \in Procesos /\ Vivo(p) /\ n = Len(paginas[p]) + 1
      /\ nuevo \in Registros /\ nuevo.pid = p /\ nuevo.pagina = n /\ nuevo.disponible <= LibreDe(c)
      /\ listaAdminHeap' = Append(listaAdminHeap, nuevo)
      /\ sizePaginasHeap' = [sizePaginasHeap EXCEPT ![p] = @ + 1]
      /\ estado' = estado /\ reservas' = reservas /\ liberadas' = liberadas
  BY DEF AgregaUna, historia
<1>2. /\ paginas' \in [Procesos -> Seq(Paginas)] /\ paginas'[p][n] = c /\ Len(paginas'[p]) = n
      /\ \A q \in Procesos : q # p => paginas'[q] = paginas[q]
      /\ \A q \in Procesos : \A m \in 1 .. Len(paginas[q]) :
              m \in 1 .. Len(paginas'[q]) /\ paginas'[q][m] = paginas[q][m]
  BY PaginaMas
<1>3. /\ listaAdminHeap \in Seq(Registros) /\ paginas \in [Procesos -> Seq(Paginas)]
      /\ sizePaginasHeap \in [Procesos -> Nat] /\ reservas \subseteq Reservas
  BY DEF Inv, Tipos
<1> DEFINE l == Len(listaAdminHeap)
<1>4. /\ listaAdminHeap' \in Seq(Registros) /\ Len(listaAdminHeap') = l + 1 /\ l \in Nat
      /\ \A k \in 1 .. l : listaAdminHeap'[k] = listaAdminHeap[k] /\ listaAdminHeap[k] \in Registros
      /\ listaAdminHeap'[l + 1] = nuevo
  BY <1>1, <1>3, RegistroMas
<1>5. \A k \in 1 .. Len(listaAdminHeap') : k \in 1 .. l \/ k = l + 1
  BY <1>4
<1>6. \A q \in Procesos : Len(paginas[q]) \in Nat
  BY <1>3
<1> HIDE DEF l
<1>7. \A k \in 1 .. l : listaAdminHeap[k].pid \in Procesos /\ listaAdminHeap[k].pagina \in Nat
                        /\ listaAdminHeap[k].pagina >= 1
  BY <1>4 DEF Registros
<1>8. \A k \in 1 .. l : Vivo(listaAdminHeap[k].pid) =>
        /\ listaAdminHeap[k].pagina <= Len(paginas[listaAdminHeap[k].pid])
        /\ listaAdminHeap[k].disponible
             <= LibreDe(paginas[listaAdminHeap[k].pid][listaAdminHeap[k].pagina])
  BY DEF Inv, NoPrometenDeMas, l
<1>9. MismasPaginas'
  <2>1. ASSUME NEW q \in Procesos
        PROVE  /\ Vivo(q)' => sizePaginasHeap'[q] = Len(paginas'[q])
               /\ ~ Vivo(q)' => paginas'[q] = << >>
    <3>1. CASE q = p
      <4>1. sizePaginasHeap'[p] = sizePaginasHeap[p] + 1 /\ sizePaginasHeap[p] = Len(paginas[p])
        BY <1>1, <1>3 DEF Inv, MismasPaginas
      <4> QED BY <1>1, <1>2, <3>1, <4>1 DEF Vivo
    <3>2. CASE q # p
      <4>1. sizePaginasHeap'[q] = sizePaginasHeap[q] /\ paginas'[q] = paginas[q]
        BY <1>1, <1>2, <1>3, <3>2
      <4> QED BY <1>1, <4>1 DEF Inv, MismasPaginas, Vivo
    <3> QED BY <3>1, <3>2
  <2> QED BY <2>1 DEF MismasPaginas
<1>10. NoPrometenDeMas'
  <2>1. ASSUME NEW k \in 1 .. Len(listaAdminHeap'), estado'[listaAdminHeap'[k].pid] # "terminado"
        PROVE  /\ listaAdminHeap'[k].pagina <= Len(paginas'[listaAdminHeap'[k].pid])
               /\ listaAdminHeap'[k].disponible
                    <= LibreDe(paginas'[listaAdminHeap'[k].pid][listaAdminHeap'[k].pagina])
    <3>1. CASE k = l + 1
      <4>1. listaAdminHeap'[k] = nuevo /\ n \in Nat
        BY <1>1, <1>4, <1>6, <3>1
      <4> QED BY <1>1, <1>2, <4>1
    <3>2. CASE k \in 1 .. l
      <4> DEFINE q == listaAdminHeap[k].pid
                 m == listaAdminHeap[k].pagina
      <4>1. listaAdminHeap'[k] = listaAdminHeap[k] /\ Vivo(q) /\ q \in Procesos
        BY <1>1, <1>4, <1>7, <2>1, <3>2 DEF Vivo
      <4>2. m <= Len(paginas[q]) /\ listaAdminHeap[k].disponible <= LibreDe(paginas[q][m])
        BY <1>8, <3>2, <4>1
      <4>3. m \in Nat /\ m >= 1
        BY <1>7, <3>2
      <4>4. m \in 1 .. Len(paginas[q])
        <5> HIDE DEF q, m
        <5> QED BY <1>6, <4>1, <4>2, <4>3
      <4>5. m \in 1 .. Len(paginas'[q]) /\ paginas'[q][m] = paginas[q][m]
        <5> HIDE DEF q, m
        <5> QED BY <1>2, <4>1, <4>4
      <4>6. m <= Len(paginas'[q])
        BY <4>5
      <4> QED BY <4>1, <4>2, <4>5, <4>6
    <3> QED BY <1>5, <3>1, <3>2
  <2> QED BY <2>1 DEF NoPrometenDeMas, Vivo
<1>11. \A k \in 1 .. l : listaAdminHeap[k].pid = p => listaAdminHeap[k].pagina # n
  <2>1. ASSUME NEW k \in 1 .. l, listaAdminHeap[k].pid = p PROVE listaAdminHeap[k].pagina # n
    <3>1. listaAdminHeap[k].pagina <= Len(paginas[p])
      BY <1>1, <1>8, <2>1
    <3> QED BY <1>1, <1>6, <3>1
  <2> QED BY <2>1
<1>12. UnoPorPagina'
  <2>1. UnoPorPagina
    BY DEF Inv
  <2>2. ASSUME NEW q \in Procesos, NEW m \in 1 .. Len(paginas'[q])
        PROVE  \E k \in 1 .. Len(listaAdminHeap') :
                 listaAdminHeap'[k].pid = q /\ listaAdminHeap'[k].pagina = m
    <3>1. CASE m \in 1 .. Len(paginas[q])
      <4>1. PICK k \in 1 .. l : listaAdminHeap[k].pid = q /\ listaAdminHeap[k].pagina = m
        BY <2>1, <3>1 DEF UnoPorPagina, RegistroDe, l
      <4>2. k \in 1 .. Len(listaAdminHeap') /\ listaAdminHeap'[k] = listaAdminHeap[k]
        BY <1>4
      <4> QED BY <4>1, <4>2
    <3>2. CASE m \notin 1 .. Len(paginas[q])
      <4>1. q = p
        BY <1>2, <3>2
      <4>2. m = n
        BY <1>1, <1>2, <1>6, <3>2, <4>1
      <4>3. l + 1 \in 1 .. Len(listaAdminHeap')
        BY <1>4
      <4> QED BY <1>1, <1>4, <4>1, <4>2, <4>3
    <3> QED BY <3>1, <3>2
  <2>3. ASSUME NEW k \in 1 .. Len(listaAdminHeap'), NEW j \in 1 .. Len(listaAdminHeap'),
               estado'[listaAdminHeap'[j].pid] # "terminado",
               listaAdminHeap'[k].pid = listaAdminHeap'[j].pid,
               listaAdminHeap'[k].pagina = listaAdminHeap'[j].pagina
        PROVE  k = j
    <3>1. CASE k \in 1 .. l /\ j \in 1 .. l
      <4>1. listaAdminHeap'[k] = listaAdminHeap[k] /\ listaAdminHeap'[j] = listaAdminHeap[j]
        BY <1>4, <3>1
      <4> QED BY <1>1, <2>1, <2>3, <3>1, <4>1 DEF UnoPorPagina, RegistroDe, Vivo, l
    <3>2. CASE k = l + 1 /\ j \in 1 .. l
      <4>1. listaAdminHeap'[k] = nuevo /\ listaAdminHeap'[j] = listaAdminHeap[j]
        BY <1>4, <3>2
      <4> QED BY <1>1, <1>11, <2>3, <3>2, <4>1
    <3>3. CASE k \in 1 .. l /\ j = l + 1
      <4>1. listaAdminHeap'[k] = listaAdminHeap[k] /\ listaAdminHeap'[j] = nuevo
        BY <1>4, <3>3
      <4> QED BY <1>1, <1>11, <2>3, <3>3, <4>1
    <3>4. CASE k = l + 1 /\ j = l + 1
      BY <3>4
    <3> QED BY <1>5, <3>1, <3>2, <3>3, <3>4
  <2> QED BY <2>2, <2>3 DEF UnoPorPagina, RegistroDe, Vivo
<1>13. Vigentes'
  <2>1. ASSUME NEW r \in reservas PROVE Vigente(r)'
    <3>1. /\ r.pid \in Procesos /\ r.pagina \in 1 .. Len(paginas[r.pid])
          /\ r.offset \in BloquesDe(paginas[r.pid][r.pagina])
          /\ paginas[r.pid][r.pagina][r.offset] = [size |-> r.tamanio, uso |-> TRUE]
      BY <1>3 DEF Inv, Vigentes, Vigente, Reservas
    <3>2. /\ r.pagina \in 1 .. Len(paginas'[r.pid])
          /\ paginas'[r.pid][r.pagina] = paginas[r.pid][r.pagina]
      BY <1>2, <3>1
    <3> QED BY <3>1, <3>2 DEF Vigente
  <2> QED BY <1>1, <2>1 DEF Inv, Vigentes
<1> QED BY <1>4, <1>9, <1>10, <1>12, <1>13

\* reservarPaginaHeap: the page Memoria adds is the one the Kernel has counted.
LEMMA PasoReservarPagina ==
  ASSUME Inv, reservarPaginaHeap
  PROVE  Inv'
<1>1. hilo.paso = "paginaNueva" /\ UNCHANGED <<historia, pedidos>>
  BY DEF reservarPaginaHeap
<1>2. /\ hilo.pid \in Procesos /\ estado[hilo.pid] = "corre"
      /\ hilo.i >= 1 /\ hilo.tamanio + M <= TAMPAG - M
  BY <1>1 DEF Inv, ManoDelHilo
<1>3. CASE Asignadas >= MarcosHeap
  <2>1. Falla(hilo.pid) /\ UNCHANGED <<listas, paginas>>
    BY <1>3 DEF reservarPaginaHeap
  <2> QED BY <1>1, <1>2, <2>1, PasoFalla
<1>4. CASE ~ (Asignadas >= MarcosHeap)
  <2> DEFINE p == hilo.pid
             n == sizePaginasHeap[p] + 1
             libre == TAMPAG - M
             v == FALSE
             c == ConCabecera(<< >>, 0, TAMPAG - M, v)
             nuevo == [pagina |-> n, pid |-> p, disponible |-> libre]
  <2>1. /\ paginas' = [paginas EXCEPT ![p] =
                  [Append(paginas[p], << >>) EXCEPT ![n] = ConCabecera(@, 0, libre, FALSE)]]
        /\ listaAdminHeap' = Append(listaAdminHeap, nuevo)
        /\ sizePaginasHeap' = [sizePaginasHeap EXCEPT ![p] = @ + 1]
        /\ hilo' = [hilo EXCEPT !.paso = "reservar", !.pagina = n, !.offset = 0]
        /\ estado' = estado
    BY <1>4 DEF reservarPaginaHeap
  <2>2. p \in Procesos /\ Vivo(p)
    BY <1>2 DEF Vivo
  <2>3. /\ n = Len(paginas[p]) + 1 /\ n \in Nat /\ n >= 1
        /\ paginas \in [Procesos -> Seq(Paginas)]
    <3>1. sizePaginasHeap[p] = Len(paginas[p]) /\ paginas[p] \in Seq(Paginas)
          /\ paginas \in [Procesos -> Seq(Paginas)]
      BY <2>2 DEF Inv, MismasPaginas, Tipos
    <3> QED BY <3>1
  <2>4. /\ c \in Paginas /\ BloquesDe(c) = {0} /\ c[0].size = TAMPAG - M /\ ~ c[0].uso
        /\ LibreDe(c) = TAMPAG - M
    <3>1. v = FALSE /\ c = ConCabecera(<< >>, 0, TAMPAG - M, v)
      OBVIOUS
    <3> HIDE DEF c, v
    <3> QED BY ONLY <3>1, PaginaNueva
  <2>5. libre \in Nat /\ TAMPAG \in Nat /\ M = 5
    BY TAMPAGAssumption DEF M
  <2>6. [Append(paginas[p], << >>) EXCEPT ![n] = ConCabecera(@, 0, libre, FALSE)]
          = Append(paginas[p], c)
    <3> DEFINE s == paginas[p]
               e == << >>
    <3>1. s \in Seq(Paginas) /\ n = Len(s) + 1
      BY <2>2, <2>3
    <3>2. c = ConCabecera(e, 0, libre, FALSE)
      OBVIOUS
    <3> HIDE DEF s, e, c, n, libre
    <3>3. /\ Append(s, e)[n] = e /\ DOMAIN Append(s, e) = 1 .. n
          /\ \A m \in 1 .. n : m # n => Append(s, e)[m] = s[m]
      BY <3>1
    <3>4. Append(s, c) = [m \in 1 .. n |-> IF m = n THEN c ELSE s[m]]
      <4>1. c \in Paginas
        BY <2>4
      <4>2. /\ Append(s, c) \in Seq(Paginas) /\ Len(Append(s, c)) = n /\ Append(s, c)[n] = c
            /\ \A m \in 1 .. n : m # n => Append(s, c)[m] = s[m]
        BY <3>1, <4>1
      <4> DEFINE q == Append(s, c)
      <4>3. q \in Seq(Paginas) /\ Len(q) = n /\ \A m \in 1 .. n : q[m] = IF m = n THEN c ELSE s[m]
        BY <4>2
      <4> HIDE DEF q
      <4>4. q \in [1 .. n -> Paginas]
        BY <4>3
      <4>5. q = [m \in 1 .. n |-> IF m = n THEN c ELSE s[m]]
        BY <4>3, <4>4
      <4> QED BY <4>5 DEF q
    <3>5. [Append(s, e) EXCEPT ![n] = ConCabecera(@, 0, libre, FALSE)]
            = [m \in 1 .. n |-> IF m = n THEN ConCabecera(Append(s, e)[n], 0, libre, FALSE)
                                ELSE Append(s, e)[m]]
      BY <3>3
    <3>6. \A m \in 1 .. n : (IF m = n THEN ConCabecera(Append(s, e)[n], 0, libre, FALSE)
                                ELSE Append(s, e)[m]) = IF m = n THEN c ELSE s[m]
      BY <3>2, <3>3
    <3> QED BY <3>4, <3>5, <3>6 DEF s, e
  <2>7. paginas' = [paginas EXCEPT ![p] = Append(@, c)]
    <3> DEFINE s == [Append(paginas[p], << >>) EXCEPT ![n] = ConCabecera(@, 0, libre, FALSE)]
    <3>1. paginas' = [paginas EXCEPT ![p] = s]
      BY <2>1
    <3>2. s = Append(paginas[p], c)
      BY <2>6
    <3> HIDE DEF p, c, s
    <3> QED BY <3>1, <3>2
  <2>8. nuevo \in Registros /\ nuevo.pid = p /\ nuevo.pagina = n /\ nuevo.disponible = libre
    BY <2>2, <2>3, <2>5 DEF Registros
  <2>9. nuevo.disponible <= LibreDe(c)
    <3>1. nuevo.disponible = libre /\ LibreDe(c) = libre
      BY <2>4, <2>8
    <3> HIDE DEF libre, nuevo, c
    <3> QED BY <2>5, <3>1
  <2>10. hilo \in Hilos
    BY DEF Inv, Tipos
  <2> HIDE DEF n, nuevo, c, v
  <2>11. /\ hilo' \in Hilos /\ hilo'.paso = "reservar" /\ hilo'.pid = p
         /\ hilo'.i = hilo.i /\ hilo'.tamanio = hilo.tamanio
         /\ hilo'.pagina = n /\ hilo'.offset = 0
    BY <2>1, <2>3, <2>10 DEF Hilos, Pasos
  <2> HIDE DEF p, libre
  <2>12. AgregaUna(p, n, c, nuevo)
    BY <1>1, <2>1, <2>2, <2>3, <2>4, <2>7, <2>8, <2>9 DEF AgregaUna
  <2>13. MismasPaginas' /\ NoPrometenDeMas' /\ UnoPorPagina' /\ Vigentes'
         /\ listaAdminHeap' \in Seq(Registros)
    BY <2>12, ConUnaPaginaMas
  <2>14. paginas' \in [Procesos -> Seq(Paginas)] /\ paginas'[p][n] = c /\ Len(paginas'[p]) = n
    BY <2>12, PaginaMas
  <2>15. Tipos'
    <3>1. sizePaginasHeap' \in [Procesos -> Nat] /\ reservas' = reservas
      BY <1>1, <2>1, <2>2 DEF Inv, Tipos, historia
    <3> QED BY <2>1, <2>11, <2>13, <2>14, <3>1 DEF Inv, Tipos
  <2>16. ManoDelHilo'
    <3>1. Pagina' = c
      BY <2>11, <2>14 DEF Pagina
    <3>2. c[0].size >= hilo.tamanio + M /\ ~ c[0].uso /\ 0 \in BloquesDe(c)
      <4>1. hilo.tamanio \in Nat
        BY HiloCampos DEF Inv
      <4> QED BY <1>2, <2>4, <2>5, <4>1
    <3> QED BY <1>2, <2>1, <2>2, <2>3, <2>11, <2>14, <3>1, <3>2 DEF ManoDelHilo, p
  <2> QED BY <2>13, <2>15, <2>16 DEF Inv
<1> QED BY <1>3, <1>4

-----------------------------------------------------------------------------
(* The end of a process, and the theorems.                                 *)

\* finalizarProceso: the loop leaves records of the process that ended, and none
\* of another is lost.
LEMMA PasoFinalizar ==
  ASSUME Inv, NEW pid \in Procesos, finalizarProceso(pid)
  PROVE  Inv'
<1>1. /\ hilo.pid # pid /\ hilo' = hilo /\ sizePaginasHeap' = sizePaginasHeap
      /\ estado' = [estado EXCEPT ![pid] = "terminado"]
      /\ listaAdminHeap' = Depurada(listaAdminHeap, pid)
      /\ paginas' = [paginas EXCEPT ![pid] = << >>]
      /\ reservas' = {r \in reservas : r.pid # pid}
      /\ liberadas' = {r \in liberadas : r.pid # pid}
  BY DEF finalizarProceso
<1>2. /\ listaAdminHeap \in Seq(Registros) /\ paginas \in [Procesos -> Seq(Paginas)]
      /\ estado \in [Procesos -> {"corre", "abortado", "terminado"}]
      /\ sizePaginasHeap \in [Procesos -> Nat] /\ hilo \in Hilos /\ reservas \subseteq Reservas
  BY DEF Inv, Tipos
<1> DEFINE l == Len(listaAdminHeap)
           q == listaAdminHeap'
<1>3. l \in Nat /\ \A k \in 1 .. l : listaAdminHeap[k] \in Registros
  BY <1>2
<1>4. q \in Seq(Registros) /\ Conserva(q, listaAdminHeap, pid, l)
  BY <1>1, <1>2, DepuradaConserva
<1>5. Len(q) \in Nat
  <2> HIDE DEF q
  <2> QED BY <1>4
<1>6. PICK g \in [1 .. Len(q) -> 1 .. l] :
        /\ \A j \in 1 .. Len(q) : q[j] = listaAdminHeap[g[j]]
        /\ \A i, j \in 1 .. Len(q) : i < j => g[i] < g[j]
        /\ \A m \in 1 .. l : listaAdminHeap[m].pid # pid => \E j \in 1 .. Len(q) : g[j] = m
  BY <1>4 DEF Conserva
<1>7. \A i, j \in 1 .. Len(q) : g[i] = g[j] => i = j
  <2>1. ASSUME NEW i \in 1 .. Len(q), NEW j \in 1 .. Len(q), i < j PROVE g[i] # g[j]
    <3>1. g[i] < g[j] /\ g[i] \in 1 .. l /\ g[j] \in 1 .. l
      BY <1>6, <2>1
    <3> HIDE DEF q, l
    <3> QED BY <1>3, <3>1
  <2>2. \A i, j \in 1 .. Len(q) : i < j \/ j < i \/ i = j
    BY <1>5
  <2> QED BY <2>1, <2>2
<1> HIDE DEF l, q
<1>8. /\ \A p \in Procesos : p # pid => estado'[p] = estado[p] /\ paginas'[p] = paginas[p]
      /\ estado'[pid] = "terminado" /\ paginas'[pid] = << >>
  BY <1>1, <1>2
<1>9. /\ paginas' \in [Procesos -> Seq(Paginas)]
      /\ estado' \in [Procesos -> {"corre", "abortado", "terminado"}]
  <2>1. << >> \in Seq(Paginas)
    OBVIOUS
  <2> QED BY <1>1, <1>2, <2>1
<1>10. Tipos'
  BY <1>1, <1>2, <1>4, <1>9 DEF Tipos, q
<1>11. ManoDelHilo'
  <2>1. CASE hilo.paso = "libre"
    BY <1>1, <2>1 DEF ManoDelHilo
  <2>2. CASE hilo.paso # "libre"
    <3>1. hilo.pid \in Procesos
      BY <2>2 DEF Inv, ManoDelHilo
    <3>2. estado'[hilo.pid] = estado[hilo.pid] /\ paginas'[hilo.pid] = paginas[hilo.pid]
      BY <1>1, <1>8, <3>1
    <3>3. Pagina' = Pagina
      BY <1>1, <3>2 DEF Pagina
    <3> QED BY <1>1, <3>2, <3>3 DEF Inv, ManoDelHilo
  <2> QED BY <2>1, <2>2
<1>12. MismasPaginas'
  BY <1>1, <1>8 DEF Inv, MismasPaginas, Vivo
<1>13. \A k \in 1 .. l : listaAdminHeap[k].pid \in Procesos
  BY <1>3 DEF Registros
<1>14. ASSUME NEW k \in 1 .. Len(q), estado'[q[k].pid] # "terminado"
       PROVE  /\ g[k] \in 1 .. l /\ q[k] = listaAdminHeap[g[k]] /\ q[k].pid \in Procesos
              /\ Vivo(q[k].pid) /\ q[k].pid # pid /\ paginas'[q[k].pid] = paginas[q[k].pid]
  <2>1. g[k] \in 1 .. l /\ q[k] = listaAdminHeap[g[k]]
    BY <1>6
  <2>2. q[k].pid \in Procesos
    BY <1>13, <2>1
  <2>3. q[k].pid # pid
    BY <1>8, <1>14
  <2> QED BY <1>8, <1>14, <2>1, <2>2, <2>3 DEF Vivo
<1>15. NoPrometenDeMas'
  <2>1. ASSUME NEW k \in 1 .. Len(q), estado'[q[k].pid] # "terminado"
        PROVE  /\ q[k].pagina <= Len(paginas'[q[k].pid])
               /\ q[k].disponible <= LibreDe(paginas'[q[k].pid][q[k].pagina])
    BY <1>14, <2>1 DEF Inv, NoPrometenDeMas, l
  <2> QED BY <2>1 DEF NoPrometenDeMas, Vivo, q
<1>16. UnoPorPagina'
  <2>1. UnoPorPagina
    BY DEF Inv
  <2>2. ASSUME NEW p \in Procesos, NEW m \in 1 .. Len(paginas'[p])
        PROVE  \E k \in 1 .. Len(q) : q[k].pid = p /\ q[k].pagina = m
    <3>1. p # pid
      <4>1. CASE p = pid
        <5>1. Len(paginas'[p]) = 0
          BY <1>8, <4>1
        <5> QED BY <5>1
      <4> QED BY <4>1
    <3>2. m \in 1 .. Len(paginas[p])
      BY <1>8, <3>1
    <3>3. PICK k \in 1 .. l : listaAdminHeap[k].pid = p /\ listaAdminHeap[k].pagina = m
      BY <2>1, <3>2 DEF UnoPorPagina, RegistroDe, l
    <3>4. PICK j \in 1 .. Len(q) : g[j] = k
      BY <1>6, <3>1, <3>3
    <3> QED BY <1>6, <3>3, <3>4
  <2>3. ASSUME NEW k \in 1 .. Len(q), NEW j \in 1 .. Len(q), estado'[q[j].pid] # "terminado",
               q[k].pid = q[j].pid, q[k].pagina = q[j].pagina
        PROVE  k = j
    <3>1. /\ g[k] \in 1 .. l /\ q[k] = listaAdminHeap[g[k]]
          /\ g[j] \in 1 .. l /\ q[j] = listaAdminHeap[g[j]] /\ Vivo(q[j].pid)
      BY <1>6, <1>14, <2>3
    <3>2. g[k] = g[j]
      BY <2>1, <2>3, <3>1 DEF UnoPorPagina, RegistroDe, l
    <3> QED BY <1>7, <3>2
  <2> QED BY <2>2, <2>3 DEF UnoPorPagina, RegistroDe, Vivo, q
<1>17. Vigentes'
  <2>1. ASSUME NEW r \in reservas, r.pid # pid PROVE Vigente(r)'
    <3>1. r.pid \in Procesos /\ Vigente(r)
      BY <1>2 DEF Inv, Vigentes, Reservas
    <3>2. paginas'[r.pid] = paginas[r.pid]
      BY <1>8, <2>1, <3>1
    <3> QED BY <3>1, <3>2 DEF Vigente
  <2>2. liberadas' = {}
    BY <1>1 DEF Inv, Vigentes
  <2> QED BY <1>1, <2>1, <2>2 DEF Vigentes
<1> QED BY <1>10, <1>11, <1>12, <1>15, <1>16, <1>17 DEF Inv

LEMMA InicioInv ==
  ASSUME Init
  PROVE  Inv
<1>1. /\ listaAdminHeap = << >> /\ paginas = [p \in Procesos |-> << >>]
      /\ sizePaginasHeap = [p \in Procesos |-> 0] /\ estado = [p \in Procesos |-> "corre"]
      /\ hilo = Libre /\ reservas = {} /\ liberadas = {}
  BY DEF Init
<1>2. /\ listaAdminHeap \in Seq(Registros) /\ Len(listaAdminHeap) = 0
      /\ \A p \in Procesos : paginas[p] \in Seq(Paginas) /\ Len(paginas[p]) = 0
  BY <1>1
<1>3. hilo \in Hilos /\ hilo.paso = "libre"
  BY <1>1 DEF Libre, Hilos, Pasos
<1>4. Tipos
  <2>1. paginas \in [Procesos -> Seq(Paginas)]
    BY <1>1, <1>2
  <2> QED BY <1>1, <1>2, <1>3, <2>1 DEF Tipos
<1>5. ManoDelHilo
  BY <1>3 DEF ManoDelHilo
<1>6. MismasPaginas
  BY <1>1, <1>2 DEF MismasPaginas, Vivo
<1>7. NoPrometenDeMas
  BY <1>2 DEF NoPrometenDeMas
<1>8. UnoPorPagina
  <2>1. \A p \in Procesos : 1 .. Len(paginas[p]) = {}
    BY <1>2
  <2>2. 1 .. Len(listaAdminHeap) = {}
    BY <1>2
  <2> QED BY <2>1, <2>2 DEF UnoPorPagina
<1>9. Vigentes
  BY <1>1 DEF Vigentes
<1> QED BY <1>4, <1>5, <1>6, <1>7, <1>8, <1>9 DEF Inv

LEMMA PasoInv ==
  ASSUME LiberaDosVeces = FALSE, Inv, [Next]_vars
  PROVE  Inv'
<1>1. CASE UNCHANGED vars
  <2>1. /\ UNCHANGED <<listas, paginas, estado, historia>> /\ hilo' = hilo /\ paginas' = paginas
        /\ estado' = estado
    BY <1>1 DEF vars
  <2>2. hilo' \in Hilos
    BY <2>1 DEF Inv, Tipos
  <2>3. ManoDelHilo'
    BY <2>1 DEF Inv, ManoDelHilo, Pagina
  <2> QED BY <2>1, <2>2, <2>3, TodoQuieto DEF Inv
<1>2. CASE HiloPrincipal
  BY <1>2, PasoVerificar, PasoCompactar, PasoFinCompactar, PasoBuscar, PasoReservarPagina,
     PasoReservarBloque DEF HiloPrincipal
<1>3. ASSUME NEW pid \in Procesos, finalizarProceso(pid) PROVE Inv'
  BY <1>3, PasoFinalizar
<1>4. ASSUME NEW pid \in Procesos, NEW tamanio \in Tamanios, reservarHeap(pid, tamanio)
      PROVE  Inv'
  BY <1>4, PasoReservarHeap
<1>5. ASSUME NEW r \in reservas \cup liberadas, liberarBloqueHeap(r) PROVE Inv'
  BY <1>5, PasoLiberar
<1> QED BY <1>1, <1>2, <1>3, <1>4, <1>5 DEF Next

\* While no program frees twice: the pages are cut in blocks, the thread has a
\* block of them in its hands, the Kernel has a record of each.
THEOREM InvSiempre ==
  ASSUME LiberaDosVeces = FALSE
  PROVE  Spec => []Inv
<1>1. Inv /\ [Next]_vars => Inv'
  BY PasoInv
<1> QED BY <1>1, InicioInv, PTL DEF Spec

LEMMA PaginaViva ==
  ASSUME Inv, NEW pk \in PaginasVivas
  PROVE  /\ pk[1] \in Procesos /\ pk[2] \in 1 .. Len(paginas[pk[1]])
         /\ paginas[pk[1]][pk[2]] \in Paginas /\ Vivo(pk[1])
<1> DEFINE p == pk[1]
           n == pk[2]
<1>1. p \in Procesos /\ n \in 1 .. MarcosHeap /\ n <= Len(paginas[p])
  BY DEF PaginasVivas
<1> HIDE DEF p, n
<1>2. paginas[p] \in Seq(Paginas)
  BY <1>1 DEF Inv, Tipos
<1>3. n \in 1 .. Len(paginas[p])
  <2>1. MarcosHeap \in Nat /\ Len(paginas[p]) \in Nat
    BY <1>2, MarcosAssumption
  <2> QED BY <1>1, <2>1
<1>4. paginas[p][n] \in Paginas
  BY <1>2, <1>3
<1>5. Vivo(p)
  <2>1. CASE paginas[p] = << >>
    <3>1. Len(paginas[p]) = 0
      BY <2>1
    <3> QED BY <1>3, <3>1
  <2> QED BY <1>1, <2>1 DEF Inv, MismasPaginas
<1> QED BY <1>1, <1>3, <1>4, <1>5 DEF p, n

\* The blocks of a page cover it, one after the other, whatever is merged, split
\* or freed in it (reservarBloqueHeap, compactarPaginaHeap, liberarBloqueHeap).
THEOREM PaginaPartidaSiempre ==
  ASSUME LiberaDosVeces = FALSE
  PROVE  Spec => []PaginaPartida
<1>1. Inv => PaginaPartida
  <2> SUFFICES ASSUME Inv PROVE PaginaPartida
    OBVIOUS
  <2>1. ASSUME NEW celdas \in Paginas
        PROVE  /\ Cadena(celdas) = BloquesDe(celdas) \cup {TAMPAG}
               /\ BloquesDe(celdas) \subseteq 0 .. TAMPAG - M
    <3>1. Partida(celdas, BloquesDe(celdas))
      BY DePagina
    <3>2. Cadena(celdas) = BloquesDe(celdas) \cup {TAMPAG}
      BY <3>1, PartidaCadena
    <3> QED BY <3>1, <3>2 DEF Partida
  <2> QED BY <2>1, PaginaViva DEF PaginaPartida
<1> QED BY <1>1, InvSiempre, PTL

\* A block a program holds stays in the chain, used and with the size it asked
\* for, until the program frees it or ends.
THEOREM ReservaVigenteSiempre ==
  ASSUME LiberaDosVeces = FALSE
  PROVE  Spec => []ReservaVigente
<1>1. Inv => ReservaVigente
  BY DEF Inv, Vigentes, Vigente, ReservaVigente
<1> QED BY <1>1, InvSiempre, PTL

\* Each heap page of a process that lives has one record, although the loop of
\* finalizarProceso drops those of another, and no record promises more than the
\* free blocks of its page have.
THEOREM RegistrosFielesSiempre ==
  ASSUME LiberaDosVeces = FALSE
  PROVE  Spec => []RegistrosFieles
<1>1. Inv => RegistrosFieles
  <2> SUFFICES ASSUME Inv PROVE RegistrosFieles
    OBVIOUS
  <2>1. /\ listaAdminHeap \in Seq(Registros) /\ DOMAIN listaAdminHeap = 1 .. Len(listaAdminHeap)
        /\ paginas \in [Procesos -> Seq(Paginas)]
    BY DEF Inv, Tipos
  <2>2. ASSUME NEW pk \in PaginasVivas
        PROVE  Cardinality({k \in DOMAIN listaAdminHeap :
                 listaAdminHeap[k].pid = pk[1] /\ listaAdminHeap[k].pagina = pk[2]}) = 1
    <3> DEFINE S == {k \in DOMAIN listaAdminHeap :
                       listaAdminHeap[k].pid = pk[1] /\ listaAdminHeap[k].pagina = pk[2]}
    <3>1. pk[1] \in Procesos /\ pk[2] \in 1 .. Len(paginas[pk[1]]) /\ Vivo(pk[1])
      BY PaginaViva
    <3>2. PICK k \in 1 .. Len(listaAdminHeap) : RegistroDe(k, pk[1], pk[2])
      BY <3>1 DEF Inv, UnoPorPagina
    <3>3. k \in S
      BY <2>1, <3>2 DEF RegistroDe
    <3>4. ASSUME NEW j \in S PROVE j = k
      <4>1. /\ j \in 1 .. Len(listaAdminHeap) /\ Vivo(listaAdminHeap[k].pid)
            /\ RegistroDe(j, listaAdminHeap[k].pid, listaAdminHeap[k].pagina)
        BY <2>1, <3>1, <3>2 DEF RegistroDe
      <4> QED BY <3>2, <4>1 DEF Inv, UnoPorPagina
    <3>5. S = {k}
      <4> HIDE DEF S
      <4> QED BY <3>3, <3>4
    <3> QED BY <3>5, FS_Singleton
  <2>3. ASSUME NEW k \in DOMAIN listaAdminHeap,
               listaAdminHeap[k].pagina <= Len(paginas[listaAdminHeap[k].pid])
        PROVE  listaAdminHeap[k].disponible
                 <= LibreDe(paginas[listaAdminHeap[k].pid][listaAdminHeap[k].pagina])
    <3>1. listaAdminHeap[k] \in Registros /\ k \in 1 .. Len(listaAdminHeap)
      BY <2>1
    <3>2. listaAdminHeap[k].pid \in Procesos /\ listaAdminHeap[k].pagina \in Nat \ {0}
      BY <3>1 DEF Registros
    <3>3. CASE Vivo(listaAdminHeap[k].pid)
      BY <3>1, <3>3 DEF Inv, NoPrometenDeMas
    <3>4. CASE ~ Vivo(listaAdminHeap[k].pid)
      <4>1. paginas[listaAdminHeap[k].pid] = << >>
        BY <3>2, <3>4 DEF Inv, MismasPaginas
      <4>2. Len(paginas[listaAdminHeap[k].pid]) = 0
        BY <4>1
      <4> QED BY <2>3, <3>2, <4>2
    <3> QED BY <3>3, <3>4
  <2> QED BY <2>2, <2>3 DEF RegistrosFieles
<1> QED BY <1>1, InvSiempre, PTL

=============================================================================
