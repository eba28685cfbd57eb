----------------------------- MODULE ListProofs -----------------------------
(***************************************************************************)
(* What the operators of Lists give, for sequences of any length, and that *)
(* of some positions one is the first and one the last.                    *)
(***************************************************************************)
EXTENDS Lists, TLAPS, NaturalsInduction, WellFoundedInduction, FiniteSetTheorems

---------------------------------------------------------------------------
(* Sequences without repetition *)

\* A sequence is one of its own elements.
LEMMA InOwnSeq ==
    ASSUME NEW S, NEW s \in Seq(S)
    PROVE  s \in Seq(ToSet(s))
<1>1. Len(s) \in Nat /\ DOMAIN s = 1 .. Len(s) /\ s = [i \in 1 .. Len(s) |-> s[i]]
    OBVIOUS
<1>2. \A i \in 1 .. Len(s) : s[i] \in ToSet(s)
    BY <1>1 DEF ToSet
<1>3. s \in [1 .. Len(s) -> ToSet(s)]
    BY <1>1, <1>2
<1> QED
    BY <1>1, <1>3

LEMMA ConcatEachOnce ==
    ASSUME NEW s, NEW t, EachOnce(s), EachOnce(t), ToSet(s) \intersect ToSet(t) = {}
    PROVE  EachOnce(s \o t) /\ ToSet(s \o t) = ToSet(s) \union ToSet(t)
<1> DEFINE S == ToSet(s)  T == ToSet(t)  U == S \union T
<1>1. /\ s \in Seq(U) /\ t \in Seq(U) /\ s \in Seq(S) /\ t \in Seq(T)
      /\ DOMAIN s = 1 .. Len(s) /\ DOMAIN t = 1 .. Len(t)
    BY DEF EachOnce
<1>2. /\ s \o t \in Seq(U) /\ Len(s \o t) = Len(s) + Len(t)
      /\ DOMAIN (s \o t) = 1 .. Len(s) + Len(t)
      /\ \A i \in 1 .. Len(s) + Len(t) :
            (s \o t)[i] = IF i <= Len(s) THEN s[i] ELSE t[i - Len(s)]
    BY <1>1
<1>3. Len(s) \in Nat /\ Len(t) \in Nat
    BY <1>1
<1>4. \A i \in DOMAIN (s \o t) : IF i <= Len(s) THEN i \in DOMAIN s /\ (s \o t)[i] = s[i]
                                  ELSE i - Len(s) \in DOMAIN t /\ (s \o t)[i] = t[i - Len(s)]
    BY <1>1, <1>2, <1>3
<1>5. ToSet(s \o t) = U
  <2>1. \A x \in ToSet(s \o t) : x \in U
    <3> SUFFICES ASSUME NEW i \in DOMAIN (s \o t) PROVE (s \o t)[i] \in U
        BY DEF ToSet
    <3>1. CASE i <= Len(s)
        BY <3>1, <1>4 DEF ToSet
    <3>2. CASE ~(i <= Len(s))
        BY <3>2, <1>4 DEF ToSet
    <3> QED
        BY <3>1, <3>2
  <2>2. \A i \in DOMAIN s : i \in DOMAIN (s \o t) /\ (s \o t)[i] = s[i]
      BY <1>1, <1>2, <1>3
  <2>3. \A i \in DOMAIN t : i + Len(s) \in DOMAIN (s \o t) /\ (s \o t)[i + Len(s)] = t[i]
      BY <1>1, <1>2, <1>3
  <2>4. \A x \in S : x \in ToSet(s \o t)
      BY <2>2 DEF ToSet
  <2>5. \A x \in T : x \in ToSet(s \o t)
      BY <2>3 DEF ToSet
  <2> HIDE DEF S, T
  <2> QED
      BY <2>1, <2>4, <2>5
<1>6. IsInjective(s \o t)
  <2> SUFFICES ASSUME NEW i \in DOMAIN (s \o t), NEW j \in DOMAIN (s \o t),
                      (s \o t)[i] = (s \o t)[j]
               PROVE  i = j
      BY DEF IsInjective
  <2>1. CASE i <= Len(s) /\ j <= Len(s)
      BY <2>1, <1>4 DEF EachOnce, IsInjective
  <2>2. CASE ~(i <= Len(s)) /\ ~(j <= Len(s))
    <3>1. i - Len(s) = j - Len(s)
        BY <2>2, <1>4 DEF EachOnce, IsInjective
    <3> QED
        BY <3>1, <1>2, <1>3
  <2>3. CASE i <= Len(s) /\ ~(j <= Len(s))
      BY <2>3, <1>4 DEF ToSet
  <2>4. CASE ~(i <= Len(s)) /\ j <= Len(s)
      BY <2>4, <1>4, SMTT(60) DEF ToSet
  <2> QED
      BY <2>1, <2>2, <2>3, <2>4
<1> QED
    BY <1>2, <1>5, <1>6 DEF EachOnce

LEMMA TailEachOnce ==
    ASSUME NEW s, EachOnce(s), s # <<>>
    PROVE  /\ EachOnce(Tail(s)) /\ Head(s) \in ToSet(s)
           /\ ToSet(Tail(s)) = ToSet(s) \ {Head(s)}
<1>1. s \in Seq(ToSet(s)) /\ Len(s) \in Nat /\ Len(s) > 0 /\ DOMAIN s = 1 .. Len(s)
    BY DEF EachOnce
<1>2. /\ Tail(s) \in Seq(ToSet(s)) /\ Len(Tail(s)) = Len(s) - 1
      /\ DOMAIN Tail(s) = 1 .. Len(s) - 1
      /\ \A i \in 1 .. Len(s) - 1 : Tail(s)[i] = s[i + 1]
      /\ Head(s) = s[1]
    BY <1>1
<1>3. IsInjective(Tail(s))
    BY <1>1, <1>2 DEF EachOnce, IsInjective
<1>4. ToSet(Tail(s)) = ToSet(s) \ {Head(s)}
  <2>1. ToSet(Tail(s)) \subseteq ToSet(s) \ {Head(s)}
      BY <1>1, <1>2 DEF ToSet, EachOnce, IsInjective
  <2>2. \A i \in DOMAIN s : i = 1 \/ (i - 1 \in DOMAIN Tail(s) /\ Tail(s)[i - 1] = s[i])
      BY <1>1, <1>2
  <2>3. \A i \in DOMAIN s : s[i] = Head(s) \/ s[i] \in ToSet(Tail(s))
      BY <1>2, <2>2 DEF ToSet
  <2>4. ToSet(s) \ {Head(s)} \subseteq ToSet(Tail(s))
      BY <2>3 DEF ToSet
  <2> QED
      BY <2>1, <2>4
<1>5. Head(s) \in ToSet(s)
    BY <1>1, <1>2 DEF ToSet
<1>6. Tail(s) \in Seq(ToSet(Tail(s)))
    BY <1>2, InOwnSeq
<1> QED
    BY <1>2, <1>3, <1>4, <1>5, <1>6 DEF EachOnce

LEMMA AppendEachOnce ==
    ASSUME NEW s, NEW x, EachOnce(s), x \notin ToSet(s)
    PROVE  EachOnce(Append(s, x)) /\ ToSet(Append(s, x)) = ToSet(s) \union {x}
<1>1. EachOnce(<<x>>) /\ ToSet(<<x>>) = {x}
    BY DEF EachOnce, ToSet, IsInjective
<1>2. Append(s, x) = s \o <<x>>
    BY DEF EachOnce
<1> QED
    BY <1>1, <1>2, ConcatEachOnce

---------------------------------------------------------------------------
(* Positions *)

LEMMA LeastOf ==
    ASSUME NEW T, T \subseteq Nat, T # {}
    PROVE  \E x \in T : \A y \in T : x <= y
<1> DEFINE R == OpToRel(<, Nat)
<1>1. \E x \in T : \A y \in T : ~(<<y, x>> \in R)
    BY WFMin, NatLessThanWellFounded
<1>2. \A x \in Nat, y \in Nat : y < x => <<y, x>> \in R
    BY DEF OpToRel
<1> HIDE DEF R
<1>3. PICK x \in T : \A y \in T : ~(<<y, x>> \in R)
    BY <1>1
<1>4. \A y \in T : ~(y < x)
    BY <1>2, <1>3
<1>5. \A y \in T : x <= y
    BY <1>4
<1> QED
    BY <1>5

LEMMA GreatestOf ==
    ASSUME NEW T, NEW n \in Nat, T \subseteq 1 .. n, T # {}
    PROVE  \E x \in T : \A y \in T : y <= x
<1>1. PICK z \in {n - x : x \in T} : \A y \in {n - x : x \in T} : z <= y
    BY LeastOf, {n - x : x \in T} \subseteq Nat, {n - x : x \in T} # {}
<1>2. PICK x \in T : z = n - x
    OBVIOUS
<1>3. \A y \in T : n - x <= n - y
    BY <1>1, <1>2
<1> QED
    BY <1>3

---------------------------------------------------------------------------
(* Lists made of lists *)

LEMMA ListLength ==
    ASSUME NEW s, IsList(s)
    PROVE  /\ Len(s) \in Nat /\ DOMAIN s = 1 .. Len(s) /\ IsFiniteSet(DOMAIN s)
           /\ s = [i \in 1 .. Len(s) |-> s[i]] /\ \A i \in DOMAIN s : s[i] \in ToSet(s)
<1>1. Len(s) \in Nat /\ DOMAIN s = 1 .. Len(s) /\ s = [i \in 1 .. Len(s) |-> s[i]]
    BY DEF IsList
<1>2. IsFiniteSet(1 .. Len(s))
    BY <1>1, FS_Interval
<1> QED
    BY <1>1, <1>2 DEF ToSet

\* A function on the places of a list is one.
LEMMA ListFromLength ==
    ASSUME NEW n \in Nat, NEW s, s = [i \in 1 .. n |-> s[i]]
    PROVE  IsList(s) /\ Len(s) = n
<1>1. DOMAIN s = 1 .. n
    BY Zenon
<1>2. \A i \in 1 .. n : s[i] \in ToSet(s)
    BY <1>1 DEF ToSet
<1> QED
    BY <1>2 DEF IsList

LEMMA JoinedList ==
    ASSUME NEW s, NEW t, IsList(s), IsList(t)
    PROVE  IsList(s \o t) /\ ToSet(s \o t) = ToSet(s) \union ToSet(t)
<1> DEFINE U == ToSet(s) \union ToSet(t)
<1>1. s \in Seq(U) /\ t \in Seq(U)
    BY DEF IsList
<1>2. /\ s \o t \in Seq(U) /\ Len(s \o t) = Len(s) + Len(t)
      /\ DOMAIN (s \o t) = 1 .. Len(s) + Len(t)
      /\ DOMAIN s = 1 .. Len(s) /\ DOMAIN t = 1 .. Len(t)
      /\ Len(s) \in Nat /\ Len(t) \in Nat
      /\ \A i \in 1 .. Len(s) + Len(t) :
            (s \o t)[i] = IF i <= Len(s) THEN s[i] ELSE t[i - Len(s)]
    BY <1>1
<1>3. IsList(s \o t)
    BY <1>2, InOwnSeq DEF IsList
<1>4. \A i \in DOMAIN (s \o t) : (s \o t)[i] \in U
    BY <1>2 DEF ToSet
<1>5. \A i \in DOMAIN s : i \in DOMAIN (s \o t) /\ (s \o t)[i] = s[i]
    BY <1>2
<1>6. \A i \in DOMAIN t : i + Len(s) \in DOMAIN (s \o t) /\ (s \o t)[i + Len(s)] = t[i]
    BY <1>2
<1>7. \A x \in ToSet(s \o t) : x \in U
    BY <1>4 DEF ToSet
<1>8. \A x \in ToSet(s) : x \in ToSet(s \o t)
    BY <1>5 DEF ToSet
<1>9. \A x \in ToSet(t) : x \in ToSet(s \o t)
    BY <1>6 DEF ToSet
<1> HIDE DEF U
<1> QED
    BY <1>3, <1>7, <1>8, <1>9 DEF U

LEMMA ShortLists ==
    /\ IsList(<<>>) /\ ToSet(<<>>) = {}
    /\ \A x : IsList(<<x>>) /\ ToSet(<<x>>) = {x}
<1>1. IsList(<<>>) /\ ToSet(<<>>) = {}
    BY DEF IsList, ToSet
<1>2. \A x : ToSet(<<x>>) = {x}
    BY DEF ToSet
<1>3. \A x : <<x>> \in Seq({x})
    OBVIOUS
<1> QED
    BY <1>1, <1>2, <1>3 DEF IsList

\* What is where in two lists, one behind the other.
LEMMA JoinedPlaces ==
    ASSUME NEW s, NEW t, IsList(s), IsList(t)
    PROVE  /\ Len(s \o t) = Len(s) + Len(t) /\ DOMAIN (s \o t) = 1 .. Len(s) + Len(t)
           /\ \A i \in 1 .. Len(s) + Len(t) :
                 (s \o t)[i] = IF i <= Len(s) THEN s[i] ELSE t[i - Len(s)]
<1> DEFINE U == ToSet(s) \union ToSet(t)
<1>1. s \in Seq(U) /\ t \in Seq(U)
    BY DEF IsList
<1> QED
    BY <1>1

\* A list with one more element.
LEMMA OneMore ==
    ASSUME NEW p, IsList(p), NEW y, NEW n \in Nat, n = Len(p) + 1
    PROVE  p \o <<y>> = [i \in 1 .. n |-> IF i = n THEN y ELSE p[i]]
<1> DEFINE q == p \o <<y>>
<1>1. IsList(<<y>>) /\ Len(<<y>>) = 1 /\ <<y>>[1] = y
    BY ShortLists
<1>2. Len(p) \in Nat
    BY ListLength
<1>3. /\ DOMAIN q = 1 .. n
      /\ \A i \in 1 .. n : q[i] = IF i <= Len(p) THEN p[i] ELSE <<y>>[i - Len(p)]
    BY <1>1, JoinedPlaces
<1>4. \A i \in 1 .. n : q[i] = IF i = n THEN y ELSE p[i]
    BY <1>1, <1>2, <1>3
<1>5. IsList(q) /\ Len(q) = n
  <2>1. IsList(q)
      BY <1>1, JoinedList
  <2>2. Len(q) = Len(p) + 1
      BY <1>1, JoinedPlaces
  <2> QED
      BY <2>1, <2>2
<1>6. q = [i \in 1 .. n |-> q[i]]
  <2> HIDE DEF q
  <2> QED
      BY <1>5, ListLength
<1> HIDE DEF q
<1>7. q = [i \in 1 .. n |-> IF i = n THEN y ELSE p[i]]
    BY <1>4, <1>6
<1> QED
    BY <1>7 DEF q

\* The first of the lists, and each of the others behind what is there.
IsFlat(f, ss, n) == f = [i \in 1 .. n |-> IF i = 1 THEN ss[i] ELSE f[i - 1] \o ss[i]]

\* The recursive function of FlattenSeq exists: if its value were missing at
\* some places, it would be at a first of them.
LEMMA FlatSteps ==
    ASSUME NEW ss, IsList(ss)
    PROVE  \E f : /\ IsFlat(f, ss, Len(ss))
                  /\ FlattenSeq(ss) = IF Len(ss) = 0 THEN <<>> ELSE f[Len(ss)]
<1> DEFINE N == Len(ss)
           Step(f, i) == IF i = 1 THEN ss[i] ELSE f[i - 1] \o ss[i]
           Flat(f, n) == f = [i \in 1 .. n |-> Step(f, i)]
<1>1. N \in Nat /\ DOMAIN ss = 1 .. N
    BY ListLength
<1>2. \A n \in Nat : n <= N => \E f : Flat(f, n)
  <2> SUFFICES ASSUME NEW m \in Nat, m <= N, ~ \E f : Flat(f, m) PROVE FALSE
      OBVIOUS
  <2> DEFINE T == {n \in Nat : n <= N /\ ~ \E f : Flat(f, n)}
  <2>1. PICK n \in T : \A k \in T : n <= k
      BY LeastOf
  <2>a. n \in Nat /\ n <= N /\ ~ \E f : Flat(f, n)
      OBVIOUS
  <2>b. \A k \in Nat : k <= N /\ ~(n <= k) => \E f : Flat(f, k)
      BY <2>1
  <2> HIDE DEF T
  <2>2. CASE n = 0
    <3>1. Flat(<<>>, 0)
        OBVIOUS
    <3> QED
        BY <3>1, <2>a, <2>2
  <2>3. CASE n # 0
    <3>1. n - 1 \in Nat /\ n - 1 <= N /\ ~(n <= n - 1)
        BY <2>a, <2>3, <1>1
    <3> HIDE DEF Flat
    <3>2. PICK f : Flat(f, n - 1)
        BY <3>1, <2>b
    <3>a. f = [i \in 1 .. n - 1 |-> Step(f, i)]
        BY <3>2 DEF Flat
    <3>b. \A i \in 1 .. n - 1 : f[i] = Step(f, i)
        BY <3>a, Zenon
    <3> DEFINE g == [i \in 1 .. n |-> IF i = n THEN Step(f, n) ELSE f[i]]
    <3>3. \A i \in 1 .. n : g[i] = Step(g, i)
      <4> SUFFICES ASSUME NEW i \in 1 .. n PROVE g[i] = Step(g, i)
          OBVIOUS
      <4>1. i # 1 => i - 1 \in 1 .. n /\ i - 1 # n /\ g[i - 1] = f[i - 1]
          BY <2>a
      <4>2. i # n => i \in 1 .. n - 1 /\ f[i] = Step(f, i)
          BY <3>b, <2>a
      <4> QED
          BY <4>1, <4>2
    <3> HIDE DEF g
    <3>4. g = [i \in 1 .. n |-> g[i]]
        BY DEF g
    <3>5. Flat(g, n)
        BY <3>3, <3>4 DEF Flat
    <3> QED
        BY <3>5, <2>a
  <2> QED
      BY <2>2, <2>3
<1> DEFINE flat == CHOOSE f : Flat(f, N)
<1> HIDE DEF Flat
<1>a. \E f : Flat(f, N)
    BY <1>1, <1>2
<1>3. Flat(flat, N)
    BY <1>a, Zenon
<1> USE DEF Flat
<1>4. N # 0 => FlattenSeq(ss) = flat[N]
    BY DEF FlattenSeq
<1>5. N = 0 => FlattenSeq(ss) = <<>>
  <2>1. N = 0 => FlattenSeq(ss) = ss
      BY DEF FlattenSeq
  <2> QED
      BY <2>1, ListLength
<1> HIDE DEF flat
<1>6. IsFlat(flat, ss, N)
    BY <1>3 DEF IsFlat
<1> QED
    BY <1>4, <1>5, <1>6

LEMMA Flattened ==
    ASSUME NEW ss, IsList(ss), \A i \in DOMAIN ss : IsList(ss[i])
    PROVE  /\ IsList(FlattenSeq(ss))
           /\ ToSet(FlattenSeq(ss)) = UNION {ToSet(ss[i]) : i \in DOMAIN ss}
<1> DEFINE N == Len(ss)
<1>1. N \in Nat /\ DOMAIN ss = 1 .. N
    BY ListLength
<1>2. PICK flat : IsFlat(flat, ss, N) /\ FlattenSeq(ss) = IF N = 0 THEN <<>> ELSE flat[N]
    BY FlatSteps
<1> DEFINE Good(n) == IsList(flat[n]) /\ ToSet(flat[n]) = UNION {ToSet(ss[i]) : i \in 1 .. n}
<1>6. \A i \in 1 .. N : flat[i] = IF i = 1 THEN ss[i] ELSE flat[i - 1] \o ss[i]
    BY <1>2, Zenon DEF IsFlat
<1>7. \A n \in 1 .. N : Good(n)
  <2> SUFFICES ASSUME NEW m \in 1 .. N, ~ Good(m) PROVE FALSE
      OBVIOUS
  <2> DEFINE T == {n \in 1 .. N : ~ Good(n)}
  <2>1. T \subseteq Nat /\ m \in T
      BY <1>1
  <2>2. PICK n \in T : \A k \in T : n <= k
      BY <2>1, LeastOf
  <2>3. n \in 1 .. N /\ ~ Good(n)
      OBVIOUS
  <2>4. CASE n = 1
    <3>1. flat[1] = ss[1] /\ IsList(ss[1])
        BY <1>1, <1>6, <2>3, <2>4
    <3>2. {ToSet(ss[i]) : i \in 1 .. 1} = {ToSet(ss[1])}
        OBVIOUS
    <3> QED
        BY <3>1, <3>2, <2>3, <2>4
  <2>5. CASE n # 1
    <3>1. n - 1 \in 1 .. N /\ ~(n <= n - 1)
        BY <1>1, <2>3, <2>5
    <3>2. Good(n - 1)
        BY <3>1, <2>2
    <3>3. flat[n] = flat[n - 1] \o ss[n] /\ IsList(ss[n])
        BY <1>1, <1>6, <2>3, <2>5
    <3>4. IsList(flat[n]) /\ ToSet(flat[n]) = ToSet(flat[n - 1]) \union ToSet(ss[n])
        BY <3>2, <3>3, JoinedList
    <3>5. 1 .. n = (1 .. n - 1) \union {n}
        BY <1>1, <2>3
    <3>6. ToSet(flat[n]) = UNION {ToSet(ss[i]) : i \in 1 .. n}
        BY <3>2, <3>4, <3>5, Zenon
    <3> QED
        BY <3>4, <3>6, <2>3
  <2> QED
      BY <2>4, <2>5
<1>8. CASE N = 0
  <2>1. FlattenSeq(ss) = <<>> /\ DOMAIN ss = {}
      BY <1>1, <1>2, <1>8
  <2>2. IsList(<<>>) /\ ToSet(<<>>) = {}
      BY DEF IsList, ToSet
  <2> QED
      BY <2>1, <2>2
<1>9. CASE N # 0
  <2>1. N \in 1 .. N
      BY <1>1, <1>9
  <2> QED
      BY <2>1, <1>1, <1>2, <1>7, <1>9
<1> QED
    BY <1>8, <1>9

\* Lists of one element, one behind the other.
LEMMA FlatOnes ==
    ASSUME NEW ss, IsList(ss), NEW t, t = [i \in DOMAIN ss |-> t[i]],
           \A i \in DOMAIN ss : ss[i] = <<t[i]>>
    PROVE  FlattenSeq(ss) = t
<1> DEFINE N == Len(ss)
<1>1. N \in Nat /\ DOMAIN ss = 1 .. N
    BY ListLength
<1>2. PICK flat : IsFlat(flat, ss, N) /\ FlattenSeq(ss) = IF N = 0 THEN <<>> ELSE flat[N]
    BY FlatSteps
<1>3. \A i \in 1 .. N : flat[i] = IF i = 1 THEN ss[i] ELSE flat[i - 1] \o ss[i]
    BY <1>2, Zenon DEF IsFlat
<1> DEFINE Good(n) == flat[n] = [i \in 1 .. n |-> t[i]]
<1>4. \A n \in 1 .. N : Good(n)
  <2> SUFFICES ASSUME NEW m \in 1 .. N, ~ Good(m) PROVE FALSE
      OBVIOUS
  <2> DEFINE T == {n \in 1 .. N : ~ Good(n)}
  <2>1. T \subseteq Nat /\ m \in T
      BY <1>1
  <2>2. PICK n \in T : \A k \in T : n <= k
      BY <2>1, LeastOf
  <2>3. n \in 1 .. N /\ ~ Good(n)
      OBVIOUS
  <2>4. CASE n = 1
    <3>1. flat[1] = <<t[1]>>
        BY <1>1, <1>3, <2>3, <2>4
    <3>2. <<t[1]>> = [i \in 1 .. 1 |-> t[i]]
      <4>1. \A x : <<x>> = [i \in 1 .. 1 |-> x]
          OBVIOUS
      <4>2. [i \in 1 .. 1 |-> t[i]] = [i \in 1 .. 1 |-> t[1]]
          OBVIOUS
      <4> QED
          BY <4>1, <4>2
    <3> QED
        BY <3>1, <3>2, <2>3, <2>4
  <2>5. CASE n # 1
    <3>1. n - 1 \in 1 .. N /\ ~(n <= n - 1)
        BY <1>1, <2>3, <2>5
    <3>2. Good(n - 1)
        BY <3>1, <2>2
    <3> DEFINE p == [i \in 1 .. n - 1 |-> t[i]]
    <3>3. flat[n] = p \o <<t[n]>>
        BY <1>1, <1>3, <2>3, <2>5, <3>2
    <3>4. p = [i \in 1 .. n - 1 |-> p[i]] /\ \A i \in 1 .. n - 1 : p[i] = t[i]
        OBVIOUS
    <3> HIDE DEF p
    <3>5. IsList(p) /\ Len(p) = n - 1
        BY <3>1, <1>1, <3>4, ListFromLength
    <3>6. n \in Nat /\ n = Len(p) + 1 /\ \A i \in 1 .. n : i = n \/ i \in 1 .. n - 1
        BY <3>5, <1>1, <2>3
    <3>7. p \o <<t[n]>> = [i \in 1 .. n |-> IF i = n THEN t[n] ELSE p[i]]
        BY <3>5, <3>6, OneMore
    <3>8. \A i \in 1 .. n : (IF i = n THEN t[n] ELSE p[i]) = t[i]
        BY <3>4, <3>6
    <3>9. flat[n] = [i \in 1 .. n |-> t[i]]
        BY <3>3, <3>7, <3>8
    <3> QED
        BY <3>9, <2>3
  <2> QED
      BY <2>4, <2>5
<1>5. CASE N = 0
  <2>1. FlattenSeq(ss) = <<>> /\ DOMAIN ss = {}
      BY <1>1, <1>2, <1>5
  <2>2. [i \in DOMAIN ss |-> t[i]] = <<>>
      BY <2>1
  <2> QED
      BY <2>1, <2>2, Zenon
<1>6. CASE N # 0
  <2>a. N \in 1 .. N
      BY <1>1, <1>6
  <2>1. FlattenSeq(ss) = [i \in 1 .. N |-> t[i]]
      BY <1>2, <1>4, <1>6, <2>a
  <2> QED
      BY <2>1, <1>1
<1> QED
    BY <1>5, <1>6

---------------------------------------------------------------------------
(* What is left of a list *)

\* The places in their order, each of them once.
Ordered(place, S) ==
    /\ place \in [1 .. Cardinality(S) -> S] /\ Cardinality(S) \in Nat
    /\ \A i \in S : \E k \in 1 .. Cardinality(S) : place[k] = i
    /\ \A k, l \in 1 .. Cardinality(S) : k < l <=> place[k] < place[l]

PickedAt(s, place, S) == Picked(s, S) = [k \in 1 .. Cardinality(S) |-> s[place[k]]]

LEMMA PickedPlaces ==
    ASSUME NEW s, NEW n \in Nat, NEW S, S \subseteq 1 .. n
    PROVE  \E place : Ordered(place, S) /\ PickedAt(s, place, S)
<1> DEFINE Upto(i) == {j \in S : j <= i}
           C == Cardinality(S)
           rank == [i \in S |-> Cardinality(Upto(i))]
           place == [k \in 1 .. C |-> CHOOSE i \in S : Cardinality(Upto(i)) = k]
<1>1. IsFiniteSet(S) /\ C \in Nat
  <2>1. IsFiniteSet(1 .. n)
      BY FS_Interval
  <2>2. IsFiniteSet(S)
      BY <2>1, FS_Subset
  <2> QED
      BY <2>2, FS_CardinalityType
<1>2. \A i \in S : /\ IsFiniteSet(Upto(i)) /\ Cardinality(Upto(i)) \in Nat
                   /\ Cardinality(Upto(i)) <= C /\ Cardinality(Upto(i)) # 0
  <2> SUFFICES ASSUME NEW i \in S
               PROVE  /\ IsFiniteSet(Upto(i)) /\ Cardinality(Upto(i)) \in Nat
                      /\ Cardinality(Upto(i)) <= C /\ Cardinality(Upto(i)) # 0
      OBVIOUS
  <2>1. Upto(i) \subseteq S /\ i \in Upto(i)
      OBVIOUS
  <2> HIDE DEF Upto
  <2>2. IsFiniteSet(Upto(i)) /\ Cardinality(Upto(i)) <= C
      BY <1>1, <2>1, FS_Subset
  <2> QED
      BY <2>1, <2>2, FS_CardinalityType, FS_EmptySet
<1>3. \A i, j \in S : i < j => Cardinality(Upto(i)) < Cardinality(Upto(j))
  <2> SUFFICES ASSUME NEW i \in S, NEW j \in S, i < j
               PROVE  Cardinality(Upto(i)) < Cardinality(Upto(j))
      OBVIOUS
  <2>a. i \in Int /\ j \in Int /\ \A k \in S : k \in Int
      OBVIOUS
  <2>b. \A k \in S : k <= i => k <= j
      BY <2>a
  <2>c. j <= j /\ ~(j <= i)
      BY <2>a
  <2>1. Upto(i) \subseteq Upto(j) /\ j \in Upto(j) /\ j \notin Upto(i)
      BY <2>b, <2>c, Zenon
  <2>2. IsFiniteSet(Upto(j))
      BY <1>2
  <2> HIDE DEF Upto
  <2>3. Cardinality(Upto(i)) <= Cardinality(Upto(j))
        /\ (Cardinality(Upto(i)) = Cardinality(Upto(j)) => Upto(i) = Upto(j))
      BY <2>1, <2>2, FS_Subset
  <2> QED
      BY <1>2, <2>1, <2>3
<1>4. \A i, j \in S : i # j => Cardinality(Upto(i)) # Cardinality(Upto(j))
  <2> SUFFICES ASSUME NEW i \in S, NEW j \in S, i # j
               PROVE  Cardinality(Upto(i)) # Cardinality(Upto(j))
      OBVIOUS
  <2>1. i < j \/ j < i
      OBVIOUS
  <2> HIDE DEF Upto
  <2> QED
      BY <1>2, <1>3, <2>1
<1> HIDE DEF Upto, C
<1>5. rank \in Injection(S, 1 .. C)
    BY <1>1, <1>2, <1>4 DEF Injection, IsInjective
<1>6. IsFiniteSet(1 .. C) /\ Cardinality(1 .. C) = C
    BY <1>1, FS_Interval
<1>7. rank \in Surjection(S, 1 .. C)
    BY <1>5, <1>6, FS_Injection DEF C
<1>8. \A k \in 1 .. C : \E i \in S : Cardinality(Upto(i)) = k
    BY <1>7 DEF Surjection
<1>9. \A k \in 1 .. C : place[k] \in S /\ Cardinality(Upto(place[k])) = k
    BY <1>8
<1>10. \A i \in S : \E k \in 1 .. C : place[k] = i
  <2> SUFFICES ASSUME NEW i \in S PROVE \E k \in 1 .. C : place[k] = i
      OBVIOUS
  <2>1. Cardinality(Upto(i)) \in 1 .. C
      BY <1>1, <1>2
  <2> QED
      BY <2>1, <1>4, <1>9
<1> DEFINE p == place
<1>11. Picked(s, S) = [k \in 1 .. C |-> s[p[k]]]
    BY DEF Picked, Upto, C
<1>12. p \in [1 .. C -> S]
    BY <1>9
<1> HIDE DEF p
<1>13. \A k, l \in 1 .. C : k < l <=> p[k] < p[l]
  <2> SUFFICES ASSUME NEW k \in 1 .. C, NEW l \in 1 .. C PROVE k < l <=> p[k] < p[l]
      OBVIOUS
  <2>1. /\ p[k] \in S /\ p[l] \in S
        /\ Cardinality(Upto(p[k])) = k /\ Cardinality(Upto(p[l])) = l
      BY <1>9 DEF p
  <2>2. /\ p[k] < p[l] => k < l
        /\ p[l] < p[k] => l < k
        /\ p[l] = p[k] => l = k
      BY <2>1, <1>3
  <2>3. p[k] \in Int /\ p[l] \in Int /\ k \in Int /\ l \in Int
    <3>1. \A i \in S : i \in Int
        OBVIOUS
    <3>2. p[k] \in Int /\ p[l] \in Int
        BY <2>1, <3>1, Zenon
    <3> QED
        BY <1>1, <3>2
  <2> QED
      BY <2>2, <2>3
<1>14. \A i \in S : \E k \in 1 .. C : p[k] = i
    BY <1>10 DEF p
<1> QED
    BY <1>1, <1>11, <1>12, <1>13, <1>14 DEF C, Ordered, PickedAt

LEMMA PickedList ==
    ASSUME NEW s, IsList(s), NEW S \in SUBSET DOMAIN s
    PROVE  /\ IsList(Picked(s, S)) /\ Len(Picked(s, S)) = Cardinality(S)
           /\ ToSet(Picked(s, S)) = {s[i] : i \in S}
<1>1. Len(s) \in Nat /\ S \subseteq 1 .. Len(s)
    BY ListLength
<1>a. PICK place : Ordered(place, S) /\ PickedAt(s, place, S)
    BY <1>1, PickedPlaces
<1>2. /\ place \in [1 .. Cardinality(S) -> S] /\ Cardinality(S) \in Nat
      /\ \A i \in S : \E k \in 1 .. Cardinality(S) : place[k] = i
      /\ Picked(s, S) = [k \in 1 .. Cardinality(S) |-> s[place[k]]]
    BY <1>a DEF Ordered, PickedAt
<1>3. IsList(Picked(s, S)) /\ Len(Picked(s, S)) = Cardinality(S)
    BY <1>2, ListFromLength
<1>4. /\ DOMAIN Picked(s, S) = 1 .. Cardinality(S)
      /\ \A k \in 1 .. Cardinality(S) : Picked(s, S)[k] = s[place[k]] /\ place[k] \in S
    BY <1>2
<1>5. \A x \in ToSet(Picked(s, S)) : x \in {s[i] : i \in S}
    BY <1>4 DEF ToSet
<1>6. \A i \in S : s[i] \in ToSet(Picked(s, S))
    BY <1>2, <1>4 DEF ToSet
<1> QED
    BY <1>3, <1>5, <1>6

\* What is left by a test: elements of the list that pass it.
LEMMA PickedFrom ==
    ASSUME NEW s, IsList(s), NEW S, S \subseteq DOMAIN s
    PROVE  /\ IsList(Picked(s, S)) /\ Len(Picked(s, S)) = Cardinality(S)
           /\ \A x \in ToSet(Picked(s, S)) : x \in ToSet(s) /\ \E i \in S : x = s[i]
BY PickedList DEF ToSet

LEMMA FirstIsOne ==
    ASSUME NEW s, NEW S, S \subseteq Nat, S # {}
    PROVE  \E i \in S : FirstOf(s, S) = s[i] /\ \A j \in S : i <= j
<1>1. \E i \in S : \A j \in S : i <= j
    BY LeastOf
<1> DEFINE first == CHOOSE i \in S : \A j \in S : i <= j
<1>2. first \in S /\ \A j \in S : first <= j
    BY <1>1
<1> QED
    BY <1>2 DEF FirstOf

---------------------------------------------------------------------------
(* Lists of the same length, tables *)

LEMMA MappedList ==
    ASSUME NEW s, IsList(s), NEW t, t = [i \in DOMAIN s |-> t[i]]
    PROVE  /\ IsList(t) /\ DOMAIN t = DOMAIN s /\ Len(t) = Len(s)
           /\ \A x \in ToSet(t) : \E i \in DOMAIN s : x = t[i]
<1>1. Len(s) \in Nat /\ DOMAIN s = 1 .. Len(s)
    BY ListLength
<1>2. IsList(t) /\ Len(t) = Len(s)
    BY <1>1, ListFromLength
<1>3. DOMAIN t = DOMAIN s
    BY Zenon
<1> QED
    BY <1>2, <1>3 DEF ToSet

\* A list of lists that is a function of another list.
LEMMA MappedFlat ==
    ASSUME NEW s, IsList(s), NEW ss, ss = [i \in DOMAIN s |-> ss[i]],
           \A i \in DOMAIN s : IsList(ss[i])
    PROVE  /\ IsList(FlattenSeq(ss))
           /\ \A x \in ToSet(FlattenSeq(ss)) : \E i \in DOMAIN s : x \in ToSet(ss[i])
<1>1. IsList(ss) /\ DOMAIN ss = DOMAIN s
    BY MappedList
<1> QED
    BY <1>1, Flattened

LEMMA TableRows ==
    ASSUME NEW rows
    PROVE  /\ \A name \in DOMAIN Table(rows) :
                  \E row \in rows : name \in row[1] /\ Table(rows)[name] = row[2]
           /\ \A row \in rows : row[1] \subseteq DOMAIN Table(rows)
<1>1. DOMAIN Table(rows) = UNION {row[1] : row \in rows}
    BY DEF Table
<1>2. \A name \in DOMAIN Table(rows) : \E row \in rows : name \in row[1]
    BY <1>1
<1>3. \A name \in DOMAIN Table(rows) :
          Table(rows)[name] = (CHOOSE row \in rows : name \in row[1])[2]
    BY <1>1 DEF Table
<1>4. \A name \in DOMAIN Table(rows) :
          LET row == CHOOSE row \in rows : name \in row[1] IN row \in rows /\ name \in row[1]
    BY <1>2
<1> QED
    BY <1>1, <1>3, <1>4
=============================================================================
