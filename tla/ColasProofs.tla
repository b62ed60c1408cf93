---------------------------- MODULE ColasProofs ----------------------------
(***************************************************************************)
(* Lemmas on the queue operations of Colas: what a scan returns and what   *)
(* adding, taking out the first and taking one out of the middle leave;    *)
(* and on the least and the greatest of a set of numbers.                  *)
(***************************************************************************)
EXTENDS Colas, TLAPS, WellFoundedInduction, SequenceTheorems,
        FiniteSetTheorems

(* A nonempty set of naturals has a least element, the one Min chooses.    *)
LEMMA MinExiste ==
  ASSUME NEW S \in SUBSET Nat, S # {}
  PROVE  Min(S) \in S /\ \A y \in S : Min(S) <= y
<1> DEFINE R == OpToRel(<, Nat)
<1>1. IsWellFoundedOn(R, Nat)
  BY NatLessThanWellFounded
<1>2. \A x, y \in Nat : y < x => <<y, x>> \in R
  BY Zenon DEF OpToRel
<1> HIDE DEF R
<1>3. PICK x \in S : \A y \in S : ~ (<<y, x>> \in R)
  BY <1>1, WFMin
<1>4. \A y \in S : ~ (y < x)
  BY <1>2, <1>3
<1>5. \A y \in S : x <= y
  BY <1>4
<1> QED BY <1>5 DEF Min

(* The greatest of a set of numbers that has a bound.                      *)
LEMMA MaxExiste ==
  ASSUME NEW n \in Nat, NEW S \in SUBSET (0 .. n), S # {}
  PROVE  Max(S) \in S /\ \A y \in S : y <= Max(S)
<1> DEFINE T == {n - y : y \in S}
<1>1. T \in SUBSET Nat /\ T # {}
  <2>1. \A y \in S : n - y \in Nat
    OBVIOUS
  <2> QED BY <2>1
<1> HIDE DEF T
<1>2. Min(T) \in T /\ \A z \in T : Min(T) <= z
  BY <1>1, MinExiste
<1>3. PICK x \in S : Min(T) = n - x
  BY <1>2 DEF T
<1>4. \A y \in S : n - y \in T
  BY DEF T
<1>5. \A y \in S : x >= y
  BY <1>2, <1>3, <1>4
<1> QED BY <1>3, <1>5 DEF Max

(* A bound for the first m - 1 values gives one for the first m.           *)
LEMMA CotaUnoMas ==
  ASSUME NEW n \in Nat, NEW f, \A k \in 1 .. n : f[k] \in Nat,
         NEW m \in 1 .. n, NEW b \in Nat, \A k \in 1 .. m - 1 : f[k] <= b
  PROVE  \E c \in Nat : \A k \in 1 .. m : f[k] <= c
<1> DEFINE c == b + f[m]
<1>1. f[m] \in Nat /\ c \in Nat /\ b <= c /\ f[m] <= c
  OBVIOUS
<1> HIDE DEF c
<1>2. ASSUME NEW k \in 1 .. m
      PROVE  f[k] <= c
  <2>1. k \in 1 .. n /\ (k = m \/ k \in 1 .. m - 1)
    OBVIOUS
  <2>2. f[k] \in Nat /\ (f[k] = f[m] \/ f[k] <= b)
    BY <2>1
  <2> QED BY <1>1, <2>2
<1> QED BY <1>1, <1>2

(* A finite set of numbers has a bound.                                    *)
LEMMA FinitoAcotado ==
  ASSUME NEW S \in SUBSET Nat, IsFiniteSet(S)
  PROVE  \E b \in Nat : \A x \in S : x <= b
<1>1. PICK n \in Nat : ExistsBijection(1 .. n, S)
  BY FS_NatBijection
<1>2. PICK f \in [1 .. n -> S] : \A x \in S : \E k \in 1 .. n : f[k] = x
  BY <1>1 DEF ExistsBijection, Bijection, Surjection, Injection
<1> DEFINE Cota(m) == \E b \in Nat : \A k \in 1 .. m : f[k] <= b
           Mal == {m \in 0 .. n : ~ Cota(m)}
<1>3. \A m \in 0 .. n : Cota(m)
  <2> SUFFICES ASSUME Mal # {}
               PROVE  FALSE
    OBVIOUS
  <2>1. Mal \in SUBSET Nat
    OBVIOUS
  <2> DEFINE m == Min(Mal)
  <2>2. m \in Mal /\ \A y \in Mal : m <= y
    <3> HIDE DEF Mal
    <3> QED BY <2>1, MinExiste
  <2> HIDE DEF m
  <2>3. m \in 0 .. n /\ ~ Cota(m)
    BY <2>2
  <2>4. m # 0
    <3>1. 0 \in Nat /\ \A k \in 1 .. 0 : f[k] <= 0
      OBVIOUS
    <3> QED BY <2>3, <3>1
  <2>5. m \in Nat /\ m - 1 \in 0 .. n /\ m \in 1 .. n /\ ~ (m <= m - 1)
    BY <2>3, <2>4
  <2>6. m - 1 \notin Mal
    <3> HIDE DEF Mal
    <3> QED BY <2>2, <2>5
  <2>7. Cota(m - 1)
    BY <2>5, <2>6
  <2>8. \A k \in 1 .. n : f[k] \in Nat
    BY <1>2
  <2>9. Cota(m)
    BY <2>5, <2>7, <2>8, CotaUnoMas
  <2> QED BY <2>3, <2>9
<1>4. PICK b \in Nat : \A k \in 1 .. n : f[k] <= b
  BY <1>3, n \in 0 .. n
<1> QED BY <1>2, <1>4

(* Taking out position i shortens the queue by one. *)
LEMMA RemoveAtTipo ==
  ASSUME NEW T, NEW q \in Seq(T), NEW i \in 1..Len(q)
  PROVE  /\ RemoveAt(q, i) \in Seq(T)
         /\ Len(RemoveAt(q, i)) = Len(q) - 1
<1> DEFINE a == SubSeq(q, 1, i-1)
           b == SubSeq(q, i+1, Len(q))
<1>1. a \in Seq(T) /\ Len(a) = i-1
  OBVIOUS
<1>2. b \in Seq(T) /\ Len(b) = Len(q) - i
  OBVIOUS
<1> HIDE DEF a, b
<1>3. a \o b \in Seq(T) /\ Len(a \o b) = Len(a) + Len(b)
  BY <1>1, <1>2, ConcatProperties
<1>4. RemoveAt(q, i) = a \o b
  BY DEF RemoveAt, a, b
<1>5. (i-1) + (Len(q) - i) = Len(q) - 1
  OBVIOUS
<1>6. Len(RemoveAt(q, i)) = Len(q) - 1
  BY <1>1, <1>2, <1>3, <1>4, <1>5, Zenon
<1> QED BY <1>3, <1>4, <1>6, Zenon

(* The positions a scan matches are positions of the queue; the first one  *)
(* is among them.                                                          *)
LEMMA PosicionesTipo ==
  ASSUME NEW q, NEW S, Len(q) \in Nat, Posiciones(q, S) # {}
  PROVE  /\ Min(Posiciones(q, S)) \in 1..Len(q)
         /\ q[Min(Posiciones(q, S))] \in S
<1>1. Posiciones(q, S) \in SUBSET Nat
  BY DEF Posiciones
<1>2. Min(Posiciones(q, S)) \in Posiciones(q, S)
  BY <1>1, MinExiste
<1> QED BY <1>2 DEF Posiciones

(* Removing the first match leaves a queue, shorter by at most one.        *)
LEMMA SinPrimeroTipo ==
  ASSUME NEW T, NEW q \in Seq(T), NEW S
  PROVE  SinPrimero(q, S) \in Seq(T)
<1>1. CASE Posiciones(q, S) = {}
  BY <1>1 DEF SinPrimero
<1>2. CASE Posiciones(q, S) # {}
  BY <1>2, PosicionesTipo, RemoveAtTipo DEF SinPrimero
<1> QED BY <1>1, <1>2

(* A scan returns a match, or nulo when there is none. *)
LEMMA PrimeroTipo ==
  ASSUME NEW T, NEW q \in Seq(T), NEW S, NEW nulo
  PROVE  \/ Primero(q, S, nulo) \in S \cap T
         \/ Primero(q, S, nulo) = nulo
<1>1. CASE Posiciones(q, S) = {}
  BY <1>1 DEF Primero
<1>2. CASE Posiciones(q, S) # {}
  <2>1. /\ Min(Posiciones(q, S)) \in 1..Len(q)
        /\ q[Min(Posiciones(q, S))] \in S
    BY <1>2, PosicionesTipo
  <2> QED BY <2>1, <1>2 DEF Primero
<1> QED BY <1>1, <1>2

-----------------------------------------------------------------------------
(* Queues as sets: what a step that pushes, pops or takes out does to the  *)
(* elements of a queue that holds nothing twice.                           *)

LEMMA ElementosTipo ==
  ASSUME NEW T, NEW q \in Seq(T)
  PROVE  ToSet(q) \subseteq T /\ (ToSet(q) = {} <=> q = <<>>)
<1>1. ToSet(q) \subseteq T
  BY DEF ToSet
<1>2. q # <<>> => q[1] \in ToSet(q)
  BY EmptySeq, LenProperties DEF ToSet
<1>3. q = <<>> => ToSet(q) = {}
  BY DEF ToSet
<1> QED BY <1>1, <1>2, <1>3

LEMMA ElementosCortos ==
  ToSet(<<>>) = {} /\ \A x : ToSet(<<x>>) = {x}
BY DEF ToSet

LEMMA ElementosAppend ==
  ASSUME NEW T, NEW q \in Seq(T), NEW x \in T
  PROVE  /\ ToSet(Append(q, x)) = ToSet(q) \cup {x}
         /\ SinRepetidos(q) /\ x \notin ToSet(q) => SinRepetidos(Append(q, x))
<1>1. /\ Len(Append(q, x)) = Len(q) + 1 /\ Append(q, x) \in Seq(T)
      /\ \A i \in 1..Len(q) : Append(q, x)[i] = q[i]
      /\ Append(q, x)[Len(q) + 1] = x
  BY AppendProperties
<1>2. /\ DOMAIN q = 1..Len(q) /\ Len(q) \in Nat
      /\ DOMAIN Append(q, x) = 1..(Len(q) + 1)
  BY <1>1, LenProperties
<1>3. ToSet(Append(q, x)) = ToSet(q) \cup {x}
  <2>1. ASSUME NEW y \in ToSet(Append(q, x))
        PROVE  y \in ToSet(q) \cup {x}
    <3>1. PICK i \in 1..(Len(q) + 1) : y = Append(q, x)[i]
      BY <1>2 DEF ToSet
    <3>2. CASE i = Len(q) + 1
      BY <3>1, <3>2, <1>1
    <3>3. CASE i # Len(q) + 1
      <4>1. i \in 1..Len(q)
        BY <1>2, <3>3
      <4> QED BY <3>1, <4>1, <1>1, <1>2 DEF ToSet
    <3> QED BY <3>2, <3>3
  <2>2. ASSUME NEW y \in ToSet(q)
        PROVE  y \in ToSet(Append(q, x))
    <3>1. PICK i \in 1..Len(q) : y = q[i]
      BY <1>2 DEF ToSet
    <3>2. i \in 1..(Len(q) + 1)
      BY <1>2
    <3> QED BY <3>1, <3>2, <1>1, <1>2 DEF ToSet
  <2>3. x \in ToSet(Append(q, x))
    <3>1. Len(q) + 1 \in 1..(Len(q) + 1)
      BY <1>2
    <3> QED BY <3>1, <1>1, <1>2 DEF ToSet
  <2> QED BY <2>1, <2>2, <2>3
<1>4. ASSUME SinRepetidos(q), x \notin ToSet(q)
      PROVE  SinRepetidos(Append(q, x))
  <2> SUFFICES ASSUME NEW i \in 1..(Len(q) + 1), NEW j \in 1..(Len(q) + 1),
                      Append(q, x)[i] = Append(q, x)[j]
               PROVE  i = j
    BY <1>1 DEF SinRepetidos
  <2>1. \A k \in 1..Len(q) : q[k] # x
    BY <1>2, <1>4 DEF ToSet
  <2>2. \A k \in 1..(Len(q) + 1) : k # Len(q) + 1 => k \in 1..Len(q)
    BY <1>2
  <2> QED BY <1>1, <1>4, <2>1, <2>2 DEF SinRepetidos
<1> QED BY <1>3, <1>4

LEMMA ElementosTail ==
  ASSUME NEW T, NEW q \in Seq(T), q # <<>>
  PROVE  /\ Head(q) \in ToSet(q)
         /\ SinRepetidos(q) => /\ ToSet(Tail(q)) = ToSet(q) \ {Head(q)}
                               /\ SinRepetidos(Tail(q))
<1>1. /\ Tail(q) \in Seq(T) /\ Len(Tail(q)) = Len(q) - 1
      /\ \A i \in 1..Len(Tail(q)) : Tail(q)[i] = q[i+1]
      /\ Head(q) = q[1]
  BY HeadTailProperties
<1>2. /\ DOMAIN q = 1..Len(q) /\ Len(q) \in Nat /\ Len(q) > 0
      /\ DOMAIN Tail(q) = 1..(Len(q) - 1)
  BY <1>1, LenProperties, EmptySeq
<1>3. Head(q) \in ToSet(q)
  BY <1>1, <1>2 DEF ToSet
<1>4. ASSUME SinRepetidos(q)
      PROVE  ToSet(Tail(q)) = ToSet(q) \ {Head(q)}
  <2>1. ASSUME NEW y \in ToSet(Tail(q))
        PROVE  y \in ToSet(q) \ {Head(q)}
    <3>1. PICK i \in 1..(Len(q) - 1) : y = Tail(q)[i]
      BY <1>2 DEF ToSet
    <3>2. y = q[i+1] /\ i + 1 \in 1..Len(q) /\ i + 1 # 1 /\ 1 \in 1..Len(q)
      BY <3>1, <1>1, <1>2
    <3>3. y # q[1]
      BY <3>2, <1>4 DEF SinRepetidos
    <3> QED BY <3>2, <3>3, <1>1, <1>2 DEF ToSet
  <2>2. ASSUME NEW y \in ToSet(q), y # Head(q)
        PROVE  y \in ToSet(Tail(q))
    <3>1. PICK i \in 1..Len(q) : y = q[i]
      BY <1>2 DEF ToSet
    <3>2. i # 1 /\ i - 1 \in 1..(Len(q) - 1) /\ (i - 1) + 1 = i
      BY <3>1, <2>2, <1>1, <1>2
    <3>3. Tail(q)[i - 1] = y
      BY <3>1, <3>2, <1>1
    <3> QED BY <3>2, <3>3, <1>2 DEF ToSet
  <2> QED BY <2>1, <2>2
<1>5. ASSUME SinRepetidos(q)
      PROVE  SinRepetidos(Tail(q))
  <2> SUFFICES ASSUME NEW i \in 1..(Len(q) - 1), NEW j \in 1..(Len(q) - 1),
                      Tail(q)[i] = Tail(q)[j]
               PROVE  i = j
    BY <1>1 DEF SinRepetidos
  <2>1. i + 1 \in 1..Len(q) /\ j + 1 \in 1..Len(q) /\ q[i+1] = q[j+1]
    BY <1>1, <1>2
  <2>2. i + 1 = j + 1
    BY <2>1, <1>5 DEF SinRepetidos
  <2> QED BY <2>2
<1> QED BY <1>3, <1>4, <1>5

(* Position by position, what is left when the one at i is taken out.      *)
LEMMA RemoveAtPosiciones ==
  ASSUME NEW T, NEW q \in Seq(T), NEW i \in 1..Len(q)
  PROVE  \A j \in 1..(Len(q) - 1) :
            RemoveAt(q, i)[j] = IF j < i THEN q[j] ELSE q[j+1]
<1> DEFINE a == SubSeq(q, 1, i-1)
           b == SubSeq(q, i+1, Len(q))
<1>1. /\ a \in Seq(T) /\ Len(a) = i-1
      /\ \A j \in 1..(i-1) : a[j] = q[j]
  OBVIOUS
<1>2. /\ b \in Seq(T) /\ Len(b) = Len(q) - i
      /\ \A j \in 1..(Len(q) - i) : b[j] = q[i + j]
  OBVIOUS
<1> HIDE DEF a, b
<1>3. \A j \in 1..(Len(a) + Len(b)) :
         (a \o b)[j] = IF j <= Len(a) THEN a[j] ELSE b[j - Len(a)]
  BY <1>1, <1>2, ConcatProperties
<1>4. RemoveAt(q, i) = a \o b
  BY DEF RemoveAt, a, b
<1>5. ASSUME NEW j \in 1..(Len(q) - 1)
      PROVE  (a \o b)[j] = IF j < i THEN q[j] ELSE q[j+1]
  <2>1. Len(q) \in Nat /\ j \in 1..(Len(a) + Len(b))
    BY <1>1, <1>2
  <2>2. CASE j < i
    <3>1. j \in 1..(i-1) /\ j <= Len(a)
      BY <1>1, <2>1, <2>2
    <3> QED BY <3>1, <2>1, <2>2, <1>3, <1>1
  <2>3. CASE ~(j < i)
    <3>1. ~(j <= Len(a)) /\ j - Len(a) \in 1..(Len(q) - i) /\ i + (j - Len(a)) = j + 1
      BY <1>1, <2>1, <2>3
    <3>2. (a \o b)[j] = b[j - Len(a)]
      BY <3>1, <2>1, <1>3
    <3>3. b[j - Len(a)] = q[i + (j - Len(a))]
      BY <3>1, <1>2
    <3> QED BY <3>1, <3>2, <3>3, <2>3
  <2> QED BY <2>2, <2>3
<1> QED BY <1>4, <1>5

(* Taking one element out of a queue that has it once, or not at all.      *)
LEMMA ElementosSinPrimero ==
  ASSUME NEW T, NEW q \in Seq(T), NEW x, SinRepetidos(q)
  PROVE  /\ ToSet(SinPrimero(q, {x})) = ToSet(q) \ {x}
         /\ SinRepetidos(SinPrimero(q, {x}))
<1>1. DOMAIN q = 1..Len(q) /\ Len(q) \in Nat
  BY LenProperties
<1>2. CASE Posiciones(q, {x}) = {}
  <2>1. x \notin ToSet(q)
    BY <1>1, <1>2 DEF Posiciones, ToSet
  <2> QED BY <2>1, <1>2 DEF SinPrimero
<1>3. CASE Posiciones(q, {x}) # {}
  <2>1. PICK i : i = Min(Posiciones(q, {x}))
    OBVIOUS
  <2>2. i \in 1..Len(q) /\ q[i] = x
    <3>1. /\ Min(Posiciones(q, {x})) \in 1..Len(q)
          /\ q[Min(Posiciones(q, {x}))] \in {x}
      BY <1>1, <1>3, PosicionesTipo
    <3> QED BY <3>1, <2>1
  <2>3. \A j \in 1..Len(q) : q[j] = x => j = i
    BY <2>2 DEF SinRepetidos
  <2>4. PICK r : r = RemoveAt(q, i)
    OBVIOUS
  <2>5. SinPrimero(q, {x}) = r
    BY <1>3, <2>1, <2>4 DEF SinPrimero
  <2>6. r \in Seq(T) /\ Len(r) = Len(q) - 1
    BY <2>2, <2>4, RemoveAtTipo
  <2>7. \A j \in 1..(Len(q) - 1) : r[j] = IF j < i THEN q[j] ELSE q[j+1]
    BY <2>2, <2>4, RemoveAtPosiciones
  <2>8. DOMAIN r = 1..(Len(q) - 1)
    BY <2>6, LenProperties
  <2>9. ASSUME NEW y \in ToSet(r)
        PROVE  y \in ToSet(q) \ {x}
    <3>1. PICK j \in 1..(Len(q) - 1) : y = r[j]
      BY <2>8 DEF ToSet
    <3>2. PICK k \in 1..Len(q) : k # i /\ y = q[k]
      <4>1. CASE j < i
        BY <4>1, <3>1, <2>7, <1>1
      <4>2. CASE ~(j < i)
        <5>1. j + 1 \in 1..Len(q) /\ j + 1 # i
          BY <4>2, <1>1, <2>2
        <5> QED BY <4>2, <5>1, <3>1, <2>7
      <4> QED BY <4>1, <4>2
    <3> QED BY <3>2, <2>3, <1>1 DEF ToSet
  <2>10. ASSUME NEW y \in ToSet(q), y # x
         PROVE  y \in ToSet(r)
    <3>1. PICK k \in 1..Len(q) : y = q[k]
      BY <1>1 DEF ToSet
    <3>2. k # i
      BY <3>1, <2>10, <2>2
    <3>3. PICK j \in 1..(Len(q) - 1) : r[j] = y
      <4>1. CASE k < i
        <5>1. k \in 1..(Len(q) - 1)
          BY <4>1, <1>1, <2>2
        <5> QED BY <4>1, <5>1, <3>1, <2>7
      <4>2. CASE ~(k < i)
        <5>1. k - 1 \in 1..(Len(q) - 1) /\ ~(k - 1 < i) /\ (k - 1) + 1 = k
          BY <4>2, <3>2, <1>1, <2>2
        <5>2. r[k - 1] = q[(k - 1) + 1]
          BY <5>1, <2>7
        <5> QED BY <5>1, <5>2, <3>1
      <4> QED BY <4>1, <4>2
    <3> QED BY <3>3, <2>8 DEF ToSet
  <2>11. ASSUME NEW j \in 1..(Len(q) - 1), NEW k \in 1..(Len(q) - 1), r[j] = r[k]
         PROVE  j = k
    <3>1. /\ j \in 1..Len(q) /\ j + 1 \in 1..Len(q)
          /\ k \in 1..Len(q) /\ k + 1 \in 1..Len(q)
      BY <1>1
    <3>2. /\ (IF j < i THEN j ELSE j + 1) \in 1..Len(q)
          /\ (IF k < i THEN k ELSE k + 1) \in 1..Len(q)
          /\ q[IF j < i THEN j ELSE j + 1] = q[IF k < i THEN k ELSE k + 1]
      BY <3>1, <2>7, <2>11
    <3>3. (IF j < i THEN j ELSE j + 1) = (IF k < i THEN k ELSE k + 1)
      BY <3>2 DEF SinRepetidos
    <3> QED BY <3>3, <2>2, <1>1
  <2>12. SinRepetidos(r)
    BY <2>6, <2>11 DEF SinRepetidos
  <2> QED BY <2>5, <2>9, <2>10, <2>12, <2>2, <1>1, ZenonT(40) DEF ToSet
<1> QED BY <1>2, <1>3

(* A scan finds the one match there is; and if it finds something that is  *)
(* not nulo, it is a match of the queue.                                   *)
LEMMA PrimeroDelConjunto ==
  ASSUME NEW T, NEW q \in Seq(T), NEW S, NEW nulo
  PROVE  /\ Primero(q, S, nulo) # nulo => Primero(q, S, nulo) \in ToSet(q) \cap S
         /\ ToSet(q) \cap S # {} => Primero(q, S, nulo) \in ToSet(q) \cap S
<1>1. DOMAIN q = 1..Len(q) /\ Len(q) \in Nat
  BY LenProperties
<1>2. ToSet(q) \cap S # {} => Posiciones(q, S) # {}
  BY <1>1 DEF ToSet, Posiciones
<1>3. Posiciones(q, S) # {} => Primero(q, S, nulo) \in ToSet(q) \cap S
  <2> HAVE Posiciones(q, S) # {}
  <2>1. /\ Min(Posiciones(q, S)) \in 1..Len(q)
        /\ q[Min(Posiciones(q, S))] \in S
    BY <1>1, PosicionesTipo
  <2> QED BY <2>1, <1>1 DEF Primero, ToSet
<1> QED BY <1>2, <1>3 DEF Primero
=============================================================================
