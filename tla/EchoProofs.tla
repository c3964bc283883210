----------------------------- MODULE EchoProofs -----------------------------
(***************************************************************************)
(* What the result cache guarantees for any number of agents, files,       *)
(* commands and contents, over files that only move forward.               *)
(***************************************************************************)
EXTENDS EchoForward, TLAPS, WellFoundedInduction, FiniteSetTheorems

(***************************************************************************)
(* Induction, sums over finite sets, and lists without duplicates          *)
(***************************************************************************)

\* Induction on the naturals, over a set: the library states it over an operator.
LEMMA ByInduction ==
  ASSUME NEW S, 0 \in S, \A n \in Nat : n \in S => n + 1 \in S
  PROVE  Nat \subseteq S
<1> SUFFICES ASSUME Nat \ S # {} PROVE FALSE
  OBVIOUS
<1> DEFINE R == OpToRel(<, Nat)
<1>1. IsWellFoundedOn(R, Nat)
  BY NatLessThanWellFounded
<1>2. \A x, y \in Nat : x < y => <<x, y>> \in R
  BY DEF OpToRel
<1> HIDE DEF R
<1>3. PICK x \in Nat \ S : \A y \in Nat \ S : ~ (<<y, x>> \in R)
  BY <1>1, WFMin
<1>4. x # 0 /\ x - 1 \in Nat /\ x - 1 < x /\ (x - 1) + 1 = x
  OBVIOUS
<1>5. <<x - 1, x>> \in R
  BY <1>2, <1>4, Zenon
<1>6. x - 1 \in S
  BY <1>3, <1>4, <1>5, Zenon
<1> QED
  BY <1>3, <1>4, <1>6

\* Induction on a finite set, one element at a time.
LEMMA ByFiniteInduction ==
  ASSUME NEW S, IsFiniteSet(S), NEW P, {} \in P,
         \A T \in SUBSET S, x \in S : T \in P /\ x \notin T => T \cup {x} \in P
  PROVE  S \in P
<1> DEFINE I == {n \in Nat : \A T \in SUBSET S : Cardinality(T) = n => T \in P}
<1>1. \A T \in SUBSET S : IsFiniteSet(T) /\ Cardinality(T) \in Nat
  BY FS_Subset, FS_CardinalityType
<1>2. 0 \in I
  BY <1>1, FS_EmptySet
<1>3. ASSUME NEW n \in Nat, n \in I PROVE n + 1 \in I
  <2> SUFFICES ASSUME NEW T \in SUBSET S, Cardinality(T) = n + 1 PROVE T \in P
    OBVIOUS
  <2>1. PICK x : x \in T
    BY <1>1, FS_EmptySet
  <2>2. Cardinality(T \ {x}) = n
    <3>1. IsFiniteSet(T)
      BY <1>1
    <3>2. Cardinality(T \ {x}) = Cardinality(T) - 1
      BY <2>1, <3>1, FS_RemoveElement
    <3> QED
      BY <1>3, <3>2
  <2>3. T \ {x} \in P
    BY <1>3, <2>2
  <2>4. (T \ {x}) \cup {x} = T
    BY <2>1
  <2> QED
    BY <2>1, <2>3, <2>4
<1> HIDE DEF I
<1>4. Nat \subseteq I
  BY <1>2, <1>3, ByInduction
<1> QED
  BY <1>1, <1>4 DEF I

\* g sums f over the subsets of S, in some order.
SumsSomehow(f, S, g) ==
  g = [s \in SUBSET S |-> IF s = {} THEN 0
                          ELSE f[CHOOSE x \in s : TRUE] + g[s \ {CHOOSE x \in s : TRUE}]]

\* g sums f over the subsets of S, in any order.
Sums(f, S, g) ==
  /\ g \in [SUBSET S -> Nat] /\ g[{}] = 0
  /\ \A s \in SUBSET S, x \in S : x \notin s => g[s \cup {x}] = f[x] + g[s]

\* The library's sum is the chosen one of the functions that sum somehow.
LEMMA SumChosen ==
  ASSUME NEW f, NEW S
  PROVE  SumFunctionOnSet(f, S) = (CHOOSE g : SumsSomehow(f, S, g))[S]
BY DEF SumFunctionOnSet, FoldFunctionOnSet, MapThenFoldSet, SumsSomehow

\* There is such a function: the sets of at most n elements have one, for every n.
LEMMA SumExists ==
  ASSUME NEW S, IsFiniteSet(S), NEW f, \A x \in S : f[x] \in Nat
  PROVE  \E g : SumsSomehow(f, S, g)
<1> DEFINE C(s) == CHOOSE x \in s : TRUE
           Small(n) == {s \in SUBSET S : Cardinality(s) <= n}
           Good(n, g) == /\ g \in [Small(n) -> Nat]
                         /\ \A s \in Small(n) : g[s] = IF s = {} THEN 0 ELSE f[C(s)] + g[s \ {C(s)}]
           I == {n \in Nat : \E g : Good(n, g)}
<1>1. \A T \in SUBSET S : /\ IsFiniteSet(T) /\ Cardinality(T) \in Nat /\ Cardinality(T) <= Cardinality(S)
                          /\ Cardinality(T) = 0 <=> T = {}
  BY FS_Subset, FS_CardinalityType, FS_EmptySet
<1>2. \A T \in SUBSET S : T # {} => C(T) \in T /\ Cardinality(T \ {C(T)}) = Cardinality(T) - 1
  BY <1>1, FS_RemoveElement
<1> HIDE DEF C
<1>3. 0 \in I
  <2>1. Small(0) = {{}}
    BY <1>1
  <2>2. Good(0, [s \in Small(0) |-> 0])
    BY <2>1
  <2> QED
    BY <2>2
<1>4. ASSUME NEW n \in Nat, n \in I PROVE n + 1 \in I
  <2>1. PICK g : Good(n, g)
    BY <1>4
  <2> DEFINE h == [s \in Small(n + 1) |->
                     IF Cardinality(s) <= n THEN g[s] ELSE f[C(s)] + g[s \ {C(s)}]]
  <2>2. ASSUME NEW s \in Small(n + 1), s # {}
        PROVE  C(s) \in S /\ s \ {C(s)} \in Small(n) /\ s \ {C(s)} \in Small(n + 1)
    BY <1>1, <1>2, <2>2
  <2>3. \A s \in Small(n) : s \in Small(n + 1)
    BY <1>1
  <2>4. h \in [Small(n + 1) -> Nat]
    <3> SUFFICES ASSUME NEW s \in Small(n + 1) PROVE h[s] \in Nat
      OBVIOUS
    <3>1. CASE Cardinality(s) <= n
      BY <2>1, <3>1
    <3>2. CASE ~(Cardinality(s) <= n)
      <4>1. s # {}
        BY <1>1, <3>2
      <4> QED
        BY <2>1, <2>2, <3>2, <4>1
    <3> QED
      BY <3>1, <3>2
  <2>5. ASSUME NEW s \in Small(n + 1)
        PROVE  h[s] = IF s = {} THEN 0 ELSE f[C(s)] + h[s \ {C(s)}]
    <3>1. CASE s = {}
      BY <1>1, <2>1, <3>1
    <3>2. CASE s # {} 
      <4>1. h[s \ {C(s)}] = g[s \ {C(s)}]
        BY <2>2, <3>2
      <4>2. CASE Cardinality(s) <= n
        BY <2>1, <3>2, <4>1, <4>2
      <4>3. CASE ~(Cardinality(s) <= n)
        BY <3>2, <4>1, <4>3
      <4> QED
        BY <4>2, <4>3
    <3> QED
      BY <3>1, <3>2
  <2>6. Good(n + 1, h)
    BY <2>4, <2>5
  <2> HIDE DEF h, Good
  <2> QED
    BY <2>6
<1> HIDE DEF I
<1>5. Cardinality(S) \in I
  BY <1>1, <1>3, <1>4, ByInduction
<1>6. PICK g : Good(Cardinality(S), g)
  BY <1>5 DEF I
<1>7. Small(Cardinality(S)) = SUBSET S
  BY <1>1
<1>8. g = [s \in SUBSET S |-> IF s = {} THEN 0 ELSE f[C(s)] + g[s \ {C(s)}]]
  BY <1>6, <1>7
<1> QED
  BY <1>8 DEF SumsSomehow, C

\* The order in which the elements are chosen does not matter.
LEMMA SomehowIsAnyhow ==
  ASSUME NEW S, IsFiniteSet(S), NEW f, \A x \in S : f[x] \in Nat,
         NEW g, SumsSomehow(f, S, g)
  PROVE  Sums(f, S, g)
<1> DEFINE C(s) == CHOOSE x \in s : TRUE
           D(T) == g[T] \in Nat /\ \A x \in T : g[T] = f[x] + g[T \ {x}]
           I == {n \in Nat : \A T \in SUBSET S : Cardinality(T) <= n => D(T)}
<1>1. \A T \in SUBSET S : /\ IsFiniteSet(T) /\ Cardinality(T) \in Nat
                          /\ (Cardinality(T) = 0 <=> T = {})
  BY FS_Subset, FS_CardinalityType, FS_EmptySet
<1>2. \A T \in SUBSET S : \A x \in T : Cardinality(T \ {x}) = Cardinality(T) - 1
  BY <1>1, FS_RemoveElement
<1>3. /\ g = [s \in SUBSET S |-> g[s]]
      /\ \A s \in SUBSET S : g[s] = IF s = {} THEN 0 ELSE f[C(s)] + g[s \ {C(s)}]
  BY DEF SumsSomehow
<1>4. \A T \in SUBSET S : T # {} => C(T) \in T
  OBVIOUS
<1>5. ASSUME NEW T \in SUBSET S, Cardinality(T) = 0 PROVE D(T)
  BY <1>1, <1>3, <1>5
<1> HIDE DEF C
<1>6. ASSUME NEW n \in Nat, NEW T \in SUBSET S, Cardinality(T) = n + 1,
             \A U \in SUBSET S : Cardinality(U) <= n => D(U)
      PROVE  D(T)
  <2>1. T # {}
    BY <1>1, <1>6
  <2>2. C(T) \in T /\ g[T] = f[C(T)] + g[T \ {C(T)}]
    BY <1>3, <1>4, <2>1
  <2>3. \A x \in T : D(T \ {x})
    <3>1. \A x \in T : Cardinality(T \ {x}) <= n
      BY <1>2, <1>6
    <3> HIDE DEF D
    <3> QED
      BY <1>6, <3>1
  <2>4. ASSUME NEW x \in T, x # C(T)
        PROVE  g[T] = f[x] + g[T \ {x}]
    <3> DEFINE rest == (T \ {x}) \ {C(T)}
    <3>1. g[T \ {C(T)}] = f[x] + g[rest]
      <4>1. (T \ {C(T)}) \ {x} = rest
        OBVIOUS
      <4> QED
        BY <2>2, <2>3, <2>4, <4>1
    <3>2. g[T \ {x}] = f[C(T)] + g[rest]
      BY <2>2, <2>3, <2>4
    <3>3. g[rest] \in Nat
      <4>1. T \ {x} \in SUBSET S /\ C(T) \in T \ {x} /\ Cardinality(T \ {x}) = n
        BY <1>2, <1>6, <2>2, <2>4
      <4>2. rest \in SUBSET S /\ Cardinality(rest) <= n
        BY <1>2, <4>1
      <4> QED
        BY <1>6, <4>2
    <3> QED
      BY <2>2, <3>1, <3>2, <3>3
  <2>5. g[T] \in Nat
    <3>1. C(T) \in S /\ f[C(T)] \in Nat /\ g[T \ {C(T)}] \in Nat
      BY <2>2, <2>3
    <3> QED
      BY <2>2, <3>1
  <2> QED
    BY <2>2, <2>4, <2>5
<1>7. 0 \in I
  BY <1>1, <1>5
<1>8. ASSUME NEW n \in Nat, n \in I PROVE n + 1 \in I
  <2>1. ASSUME NEW T \in SUBSET S, Cardinality(T) <= n + 1 PROVE D(T)
    <3>1. CASE Cardinality(T) <= n
      BY <1>8, <3>1
    <3>2. CASE Cardinality(T) = n + 1
      <4>1. \A U \in SUBSET S : Cardinality(U) <= n => D(U)
        BY <1>8
      <4> HIDE DEF D
      <4> QED
        BY <1>6, <3>2, <4>1
    <3>3. Cardinality(T) <= n \/ Cardinality(T) = n + 1
      BY <1>1, <2>1
    <3> QED
      BY <3>1, <3>2, <3>3
  <2> HIDE DEF D
  <2> QED
    BY <2>1
<1> HIDE DEF D, I
<1>9. Nat \subseteq I
  BY <1>7, <1>8, ByInduction
<1>10. ASSUME NEW T \in SUBSET S PROVE D(T)
  <2>1. Cardinality(T) \in I /\ Cardinality(T) <= Cardinality(T)
    BY <1>1, <1>9
  <2> QED
    BY <2>1 DEF I
<1>11. ASSUME NEW s \in SUBSET S, NEW x \in S, x \notin s
       PROVE  g[s \cup {x}] = f[x] + g[s]
  <2>1. (s \cup {x}) \ {x} = s
    BY <1>11
  <2> QED
    BY <1>10, <2>1 DEF D
<1> QED
  BY <1>3, <1>10, <1>11 DEF Sums, D

\* Two sums of the same values are one sum.
LEMMA SumsAgree ==
  ASSUME NEW S, IsFiniteSet(S), NEW T \in SUBSET S, NEW f, NEW h, NEW g, NEW k,
         Sums(f, S, g), Sums(h, T, k), \A x \in T : f[x] = h[x]
  PROVE  g[T] = k[T]
<1> DEFINE P == {U \in SUBSET T : g[U] = k[U]}
<1>1. IsFiniteSet(T)
  BY FS_Subset
<1>2. {} \in P
  BY DEF Sums
<1>3. ASSUME NEW U \in SUBSET T, NEW x \in T, U \in P, x \notin U PROVE U \cup {x} \in P
  <2>1. g[U \cup {x}] = f[x] + g[U] /\ k[U \cup {x}] = h[x] + k[U]
    BY <1>3 DEF Sums
  <2> QED
    BY <1>3, <2>1
<1> HIDE DEF P
<1>4. T \in P
  BY <1>1, <1>2, <1>3, ByFiniteInduction
<1> QED
  BY <1>4 DEF P

\* A sum over a finite set is the value of a function that sums in any order.
\* So the library's sum is a sum.
LEMMA SumIsASum ==
  ASSUME NEW S, IsFiniteSet(S), NEW f, \A x \in S : f[x] \in Nat
  PROVE  \E g : Sums(f, S, g) /\ SumFunctionOnSet(f, S) = g[S]
<1> DEFINE g == CHOOSE g : SumsSomehow(f, S, g)
<1>1. SumsSomehow(f, S, g)
  BY SumExists
<1>2. SumFunctionOnSet(f, S) = g[S]
  BY SumChosen
<1> HIDE DEF g
<1>3. Sums(f, S, g)
  BY <1>1, SomehowIsAnyhow
<1> QED
  BY <1>2, <1>3

\* What the sum of the library is, by which of its elements it is taken.
LEMMA SumOfNothing == ASSUME NEW f PROVE SumFunctionOnSet(f, {}) = 0
<1>1. PICK g : Sums(f, {}, g) /\ SumFunctionOnSet(f, {}) = g[{}]
  BY SumIsASum, FS_EmptySet
<1> QED
  BY <1>1 DEF Sums

LEMMA SumIsNatural ==
  ASSUME NEW S, IsFiniteSet(S), NEW f, \A x \in S : f[x] \in Nat
  PROVE  SumFunctionOnSet(f, S) \in Nat
<1>1. PICK g : Sums(f, S, g) /\ SumFunctionOnSet(f, S) = g[S]
  BY SumIsASum
<1> QED
  BY <1>1 DEF Sums

LEMMA SumOfOneMore ==
  ASSUME NEW S, IsFiniteSet(S), NEW x, x \notin S, NEW f, \A y \in S \cup {x} : f[y] \in Nat,
         NEW h, \A y \in S : h[y] = f[y]
  PROVE  SumFunctionOnSet(f, S \cup {x}) = f[x] + SumFunctionOnSet(h, S)
<1> DEFINE Sx == S \cup {x}
<1>1. IsFiniteSet(Sx)
  BY FS_AddElement
<1>2. PICK g : Sums(f, Sx, g) /\ SumFunctionOnSet(f, Sx) = g[Sx]
  BY <1>1, SumIsASum
<1>3. PICK k : Sums(h, S, k) /\ SumFunctionOnSet(h, S) = k[S]
  BY SumIsASum
<1>4. S \in SUBSET Sx /\ \A y \in S : f[y] = h[y]
  OBVIOUS
<1>5. g[S] = k[S]
  BY <1>1, <1>2, <1>3, <1>4, SumsAgree
<1>6. g[S \cup {x}] = f[x] + g[S]
  BY <1>2 DEF Sums
<1> QED
  BY <1>2, <1>3, <1>5, <1>6

\* Functions that agree on a set have one sum over it.
LEMMA SumsOfEquals ==
  ASSUME NEW S, IsFiniteSet(S), NEW f, \A x \in S : f[x] \in Nat,
         NEW h, \A x \in S : h[x] = f[x]
  PROVE  SumFunctionOnSet(f, S) = SumFunctionOnSet(h, S)
<1>1. PICK g : Sums(f, S, g) /\ SumFunctionOnSet(f, S) = g[S]
  BY SumIsASum
<1>2. PICK k : Sums(h, S, k) /\ SumFunctionOnSet(h, S) = k[S]
  BY SumIsASum
<1>3. S \in SUBSET S /\ \A x \in S : f[x] = h[x]
  OBVIOUS
<1>4. g[S] = k[S]
  BY <1>1, <1>2, <1>3, SumsAgree
<1> QED
  BY <1>1, <1>2, <1>4

\* A sum splits over two disjoint sets.
LEMMA SumSplits ==
  ASSUME NEW S, IsFiniteSet(S), NEW T \in SUBSET S, NEW f, \A x \in S : f[x] \in Nat
  PROVE  SumFunctionOnSet(f, S) = SumFunctionOnSet(f, T) + SumFunctionOnSet(f, S \ T)
<1> DEFINE Z(U) == SumFunctionOnSet(f, U)
           P == {U \in SUBSET T : Z(S) = Z(U) + Z(S \ U)}
<1>1. \A U \in SUBSET S : IsFiniteSet(U) /\ Z(U) \in Nat
  BY FS_Subset, SumIsNatural
<1>2. {} \in P
  <2>1. Z({}) = 0 /\ S \ {} = S /\ Z(S) \in Nat
    BY <1>1, SumOfNothing
  <2> HIDE DEF Z
  <2> QED
    BY <2>1
<1>3. ASSUME NEW U \in SUBSET T, NEW x \in T, U \in P, x \notin U PROVE U \cup {x} \in P
  <2> DEFINE V == S \ (U \cup {x})
  <2>1. V \in SUBSET S /\ U \in SUBSET S /\ S \ U = V \cup {x} /\ x \notin V
    BY <1>3
  <2>2. \A y \in U \cup {x} : f[y] \in Nat
    OBVIOUS
  <2>3. \A y \in V \cup {x} : f[y] \in Nat
    OBVIOUS
  <2>4. Z(U \cup {x}) = f[x] + Z(U)
    <3>1. IsFiniteSet(U) /\ x \notin U
      BY <1>1, <1>3, <2>1
    <3> QED
      BY <2>2, <3>1, SumOfOneMore
  <2>5. Z(S \ U) = f[x] + Z(V)
    <3>1. IsFiniteSet(V)
      BY <1>1, <2>1
    <3> HIDE DEF V
    <3>2. Z(V \cup {x}) = f[x] + Z(V)
      BY <2>1, <2>3, <3>1, SumOfOneMore
    <3> QED
      BY <2>1, <3>2
  <2>6. Z(U) \in Nat /\ Z(V) \in Nat /\ f[x] \in Nat
    BY <1>1, <2>1
  <2>7. Z(S) = Z(U) + Z(S \ U)
    BY <1>3
  <2> HIDE DEF Z
  <2> QED
    BY <2>4, <2>5, <2>6, <2>7
<1>4. IsFiniteSet(T)
  BY FS_Subset
<1> HIDE DEF P
<1>5. T \in P
  BY <1>2, <1>3, <1>4, ByFiniteInduction
<1> QED
  BY <1>5 DEF P

\* A list of finitely many elements holds finitely many, and as many if none twice.
\* The keys of a list without duplicates are as many as its elements.
LEMMA ListsAreFinite ==
  ASSUME NEW S, NEW s \in Seq(S)
  PROVE  /\ IsFiniteSet(ToSet(s))
         /\ (\A i, j \in 1 .. Len(s) : s[i] = s[j] => i = j) => Cardinality(ToSet(s)) = Len(s)
<1> DEFINE D == 1 .. Len(s)
<1>1. Len(s) \in Nat /\ DOMAIN s = D /\ s \in [D -> ToSet(s)]
  BY DEF ToSet
<1>2. s \in Surjection(D, ToSet(s))
  BY <1>1 DEF Surjection, ToSet
<1>3. IsFiniteSet(D) /\ Cardinality(D) = Len(s)
  BY <1>1, FS_Interval
<1>4. (\A i, j \in D : s[i] = s[j] => i = j) => s \in Injection(D, ToSet(s))
  BY <1>1 DEF Injection, IsInjective
<1> QED
  BY <1>2, <1>3, <1>4, FS_Surjection

\* What PushFront does to such a list.
LEMMA Prepended ==
  ASSUME NEW S, NEW c \in S, NEW u \in Seq(S), c \notin ToSet(u),
         \A i, j \in 1 .. Len(u) : u[i] = u[j] => i = j,
         NEW s, s = <<c>> \o u
  PROVE  /\ s \in Seq(S) /\ Len(s) = Len(u) + 1
         /\ \A i, j \in 1 .. Len(s) : s[i] = s[j] => i = j
         /\ ToSet(s) = ToSet(u) \cup {c}
<1>1. /\ s \in Seq(S) /\ Len(u) \in Nat /\ Len(s) = Len(u) + 1
      /\ s[1] = c /\ \A i \in 1 .. Len(u) : s[i + 1] = u[i]
  OBVIOUS
<1>2. ToSet(u) = {u[i] : i \in 1 .. Len(u)} /\ ToSet(s) = {s[i] : i \in 1 .. Len(s)}
  <2>1. DOMAIN u = 1 .. Len(u) /\ DOMAIN s = 1 .. Len(s)
    BY <1>1
  <2> QED
    BY <2>1 DEF ToSet
<1>3. \A i \in 1 .. Len(s) : i = 1 \/ (i - 1 \in 1 .. Len(u) /\ s[i] = u[i - 1])
  <2> SUFFICES ASSUME NEW i \in 1 .. Len(s), i # 1
               PROVE  i - 1 \in 1 .. Len(u) /\ s[i] = u[i - 1]
    OBVIOUS
  <2>1. i - 1 \in 1 .. Len(u) /\ (i - 1) + 1 = i
    BY <1>1
  <2> QED
    BY <1>1, <2>1
<1>4. ASSUME NEW i \in 1 .. Len(s), NEW j \in 1 .. Len(s), s[i] = s[j] PROVE i = j
  <2>1. \A n \in 1 .. Len(s) : n # 1 => s[n] # c
    BY <1>1, <1>2, <1>3
  <2>2. CASE i = 1 \/ j = 1
    BY <1>1, <1>4, <2>1, <2>2
  <2>3. CASE i # 1 /\ j # 1
    <3>1. i - 1 = j - 1
      BY <1>3, <1>4, <2>3
    <3> QED
      BY <3>1
  <2> QED
    BY <2>2, <2>3
<1>5. ToSet(s) = ToSet(u) \cup {c}
  <2>1. \A i \in 1 .. Len(s) : s[i] \in ToSet(u) \cup {c}
    BY <1>1, <1>2, <1>3
  <2>2. \A i \in 1 .. Len(u) : u[i] \in ToSet(s)
    <3> SUFFICES ASSUME NEW i \in 1 .. Len(u) PROVE u[i] \in ToSet(s)
      OBVIOUS
    <3>1. i + 1 \in 1 .. Len(s) /\ s[i + 1] = u[i]
      BY <1>1
    <3> QED
      BY <1>2, <3>1
  <2>3. c \in ToSet(s)
    BY <1>1, <1>2
  <2> QED
    BY <1>2, <2>1, <2>2, <2>3
<1> QED
  BY <1>1, <1>4, <1>5

\* A set of lengths has a greatest one.
LEMMA GreatestExists ==
  ASSUME NEW m \in Nat, NEW F \in SUBSET (0 .. m), F # {}
  PROVE  \E n \in F : \A x \in F : x <= n
<1> SUFFICES ASSUME \A n \in F : \E x \in F : ~(x <= n) PROVE FALSE
  OBVIOUS
<1> DEFINE I == {j \in Nat : \A x \in F : x + j <= m}
<1>1. 0 \in I
  OBVIOUS
<1>2. ASSUME NEW j \in Nat, j \in I PROVE j + 1 \in I
  <2>1. ASSUME NEW x \in F PROVE x + j < m
    <3>1. PICK y \in F : ~(y <= x)
      OBVIOUS
    <3>2. y + j <= m
      BY <1>2
    <3> QED
      BY <3>1, <3>2
  <2> QED
    BY <2>1
<1> HIDE DEF I
<1>3. m + 1 \in I
  BY <1>1, <1>2, ByInduction
<1>4. PICK x \in F : x + (m + 1) <= m
  BY <1>3 DEF I
<1> QED
  BY <1>4

-----------------------------------------------------------------------------
\* Precedes is a partial order on contents.
LEMMA PrecedesOrder ==
  /\ \A v \in Contents : Precedes(v, v)
  /\ \A u, v, w \in Contents : Precedes(u, v) /\ Precedes(v, w) => Precedes(u, w)
  /\ \A v, w \in Contents : Precedes(v, w) /\ Precedes(w, v) => v = w
BY ForwardOnly DEF Precedes

\* A rewrite moves its file forward and leaves the others where they are.
LEMMA RewriteMoves ==
  ASSUME TypeOK, NEW p \in Paths, Rewrite(p)
  PROVE  /\ file' \in Texts
         /\ \A q \in Paths : Precedes(file[q], file'[q])
<1>1. PICK v \in Contents : <<file[p], v>> \in Rewrites /\ file' = [file EXCEPT ![p] = v]
  BY DEF Rewrite
<1>2. file \in Texts
  BY DEF TypeOK
<1>3. file' \in Texts
  BY <1>1, <1>2 DEF Texts
<1>4. ASSUME NEW q \in Paths PROVE Precedes(file[q], file'[q])
  BY <1>1, <1>2 DEF Texts, Precedes
<1> QED
  BY <1>3, <1>4

\* Dropping an entry changes that entry only.
LEMMA DroppedEntries ==
  ASSUME NEW k, NEW c
  PROVE  Dropped(k, c).entries = [k.entries EXCEPT ![c] = NoEntry]
BY DEF Dropped

\* Storing puts the new entry in or evicts it, and otherwise only removes entries.
LEMMA StoredEntries ==
  ASSUME TypeOK, NEW a \in Agents
  PROVE  LET new == [text |-> text[a], witnesses |-> after[a]]
             old == cache.entries
             es == Stored(cache, a).entries
         IN  /\ new \in Entry
             /\ es \in [Commands -> Entry \cup {NoEntry}]
             /\ \A c \in Commands :
                  es[c] \in {NoEntry, IF c = cmd[a] THEN new ELSE old[c]}
<1> DEFINE new == [text |-> text[a], witnesses |-> after[a]]
           old == cache.entries
<1>1. new \in Entry /\ old \in [Commands -> Entry \cup {NoEntry}] /\ cmd[a] \in Commands
  BY DEF TypeOK, Entry
<1>2. DroppedIfHeld(cache, cmd[a]).entries \in
        {old, [old EXCEPT ![cmd[a]] = NoEntry]}
  BY DroppedEntries DEF DroppedIfHeld
<1> DEFINE pushed == Pushed(DroppedIfHeld(cache, cmd[a]), cmd[a], new)
<1>3. pushed.entries = [old EXCEPT ![cmd[a]] = new]
  BY <1>1, <1>2 DEF Pushed
<1> HIDE DEF pushed
<1>4. PICK n : Evicted(pushed) = KeepFirst(pushed, n)
  BY DEF Evicted
<1> DEFINE gone == {pushed.order[i] : i \in n + 1 .. Len(pushed.order)}
<1>5. Evicted(pushed).entries =
        [c \in Commands |-> IF c \in gone THEN NoEntry ELSE pushed.entries[c]]
  BY <1>4 DEF KeepFirst
<1> HIDE DEF gone
<1>6. \A c \in Commands : Evicted(pushed).entries[c] \in {NoEntry, pushed.entries[c]}
  BY <1>5
<1>7. Evicted(pushed).entries \in [Commands -> Entry \cup {NoEntry}]
  BY <1>1, <1>3, <1>5
<1>8. Stored(cache, a) = Evicted(pushed)
  BY DEF Stored, pushed
<1> QED
  BY <1>1, <1>3, <1>6, <1>7, <1>8

-----------------------------------------------------------------------------
(***************************************************************************)
(* Types                                                                   *)
(***************************************************************************)
LEMMA InitTyped == Init => TypeOK
BY EchoAssumption DEF Init, TypeOK, Empty, Texts, Nothing, Phases

LEMMA StepTyped == TypeOK /\ [Next]_vars => TypeOK'
<1> SUFFICES ASSUME TypeOK, [Next]_vars PROVE TypeOK'
  OBVIOUS
<1> USE EchoAssumption
<1>1. CASE UNCHANGED vars
  BY <1>1 DEF vars, local, history, TypeOK
<1>2. ASSUME NEW p \in Paths, Rewrite(p) PROVE TypeOK'
  BY <1>2, RewriteMoves DEF Rewrite, TypeOK, local
<1>3. ASSUME NEW a \in Agents, NEW c \in Commands,
             LookupRefused(a, c) \/ LookupMiss(a, c) \/ LookupExpired(a, c) \/ LookupHave(a, c)
      PROVE TypeOK'
  <2> USE DEF TypeOK, Ask, Go, Visit, Phases
  <2>1. Reads[c] \in SUBSET Paths
    OBVIOUS
  <2>2. CASE LookupRefused(a, c)
    BY <2>1, <2>2 DEF LookupRefused
  <2>3. CASE LookupMiss(a, c)
    BY <2>1, <2>3 DEF LookupMiss
  <2>4. CASE LookupExpired(a, c)
    <3>1. cache'.entries = [cache.entries EXCEPT ![c] = NoEntry]
      BY <2>4, DroppedEntries DEF LookupExpired
    <3> QED
      BY <2>1, <2>4, <3>1 DEF LookupExpired
  <2>5. CASE LookupHave(a, c)
    <3>1. cache.entries[c].witnesses \in Texts
      BY <2>5 DEF LookupHave, Has, Entry
    <3> QED
      BY <2>1, <2>5, <3>1 DEF LookupHave
  <2> QED
    BY <1>3, <2>2, <2>3, <2>4, <2>5
<1>4. ASSUME NEW a \in Agents, Unlocked(a) PROVE TypeOK'
  <2> USE DEF TypeOK, Go, Visit, Phases, local, history
  <2>1. CASE HashWitness(a)
    BY <2>1 DEF HashWitness
  <2>2. CASE DigestBefore(a)
    BY <2>2 DEF DigestBefore, Texts
  <2>3. CASE RunRead(a)
    BY <2>3 DEF RunRead, Texts
  <2>4. CASE RunSucceeds(a)
    BY <2>4 DEF RunSucceeds
  <2>5. CASE RunFails(a)
    BY <2>5 DEF RunFails
  <2>6. CASE DigestAfter(a)
    BY <2>6 DEF DigestAfter, Texts
  <2>7. CASE StoreRefused(a)
    BY <2>7 DEF StoreRefused
  <2>8. CASE Return(a)
    BY <2>8 DEF Return, Nothing, Texts
  <2> QED
    BY <1>4, <2>1, <2>2, <2>3, <2>4, <2>5, <2>6, <2>7, <2>8 DEF Unlocked
<1>5. ASSUME NEW a \in Agents, Locking(a) PROVE TypeOK'
  <2> USE DEF TypeOK, Go, Visit, Phases
  <2>1. CASE RecheckGone(a)
    BY <2>1 DEF RecheckGone, Recheck, Nothing, Texts
  <2>2. CASE RecheckStale(a)
    <3>1. cache'.entries = [cache.entries EXCEPT ![cmd[a]] = NoEntry]
      BY <2>2, DroppedEntries DEF RecheckStale
    <3>2. Nothing \in Texts
      BY DEF Nothing, Texts
    <3> QED
      BY <2>2, <3>1, <3>2 DEF RecheckStale, Recheck
  <2>3. CASE RecheckHit(a)
    <3>1. cache.entries[cmd[a]].text \in Texts
      BY <2>3 DEF RecheckHit, Has, Entry
    <3>2. cache'.entries = cache.entries
      BY <2>3 DEF RecheckHit, Touched
    <3>3. Nothing \in Texts
      BY DEF Nothing, Texts
    <3> QED
      BY <2>3, <3>1, <3>2, <3>3 DEF RecheckHit, Recheck
  <2>4. CASE StoreKept(a)
    BY <2>4, StoredEntries DEF StoreKept, local
  <2> QED
    BY <1>5, <2>1, <2>2, <2>3, <2>4 DEF Locking
<1> QED
  BY <1>1, <1>2, <1>3, <1>4, <1>5 DEF Next, Step, Lookup

\* Every reachable state is well typed: resultCache (echo.go 161-187), the lookup it
\* hands back (echo.go 253-260) and the phases of runCommand (subagent.go 473-505).
THEOREM EchoTyped == Spec => []TypeOK
BY InitTyped, StepTyped, PTL DEF Spec

-----------------------------------------------------------------------------
(***************************************************************************)
(* The map, the list and the byte count                                    *)
(***************************************************************************)

\* The map, the list and the byte count are one cache: the list holds every key of the map,
\* once, and the count is the bytes of its texts (resultCache, echo.go 161-187).
CacheOK(k) ==
  /\ k = [entries |-> k.entries, order |-> k.order, bytes |-> k.bytes]
  /\ k.entries \in [Commands -> Entry \cup {NoEntry}]
  /\ k.order \in Seq(Commands)
  /\ \A i, j \in 1 .. Len(k.order) : k.order[i] = k.order[j] => i = j
  /\ ToSet(k.order) = Held(k)
  /\ k.bytes = Weight(k, Held(k))

\* Bytes are natural numbers, of a text and of any part of the map.
LEMMA SizeIsNatural ==
  ASSUME NEW t \in Texts, NEW c \in Commands
  PROVE  Size(t, c) \in Nat
<1> DEFINE f == [p \in Reads[c] |-> Width[t[p]]]
<1>1. IsFiniteSet(Reads[c]) /\ \A p \in Reads[c] : f[p] \in Nat
  BY EchoAssumption DEF Texts
<1>2. Size(t, c) = SumFunctionOnSet(f, Reads[c])
  BY DEF Size, SumFunction
<1> HIDE DEF f
<1> QED
  BY <1>1, <1>2, SumIsNatural

LEMMA HeldSizes ==
  ASSUME NEW k, k.entries \in [Commands -> Entry \cup {NoEntry}],
         NEW c \in Commands, Has(k, c)
  PROVE  SizeIn(k, c) \in Nat
<1>1. k.entries[c].text \in Texts
  BY DEF Has, Entry
<1> QED
  BY <1>1, SizeIsNatural DEF SizeIn

LEMMA WeightIsNatural ==
  ASSUME NEW k, k.entries \in [Commands -> Entry \cup {NoEntry}],
         NEW cs \in SUBSET Held(k), IsFiniteSet(cs)
  PROVE  Weight(k, cs) \in Nat
<1> DEFINE f == [c \in cs |-> SizeIn(k, c)]
<1>1. \A c \in cs : f[c] \in Nat
  BY HeldSizes DEF Held
<1>2. Weight(k, cs) = SumFunctionOnSet(f, cs)
  BY DEF Weight, SumFunction
<1> HIDE DEF f
<1> QED
  BY <1>1, <1>2, SumIsNatural

\* The weight of a set of keys is that of any part of it and of the rest, and depends
\* on the entries of those keys alone.
\* What the map weighs is what its parts do.
LEMMA WeightSplits ==
  ASSUME NEW k, k.entries \in [Commands -> Entry \cup {NoEntry}],
         NEW cs \in SUBSET Held(k), IsFiniteSet(cs), NEW ds \in SUBSET cs
  PROVE  Weight(k, cs) = Weight(k, ds) + Weight(k, cs \ ds)
<1> DEFINE F(es) == [c \in es |-> SizeIn(k, c)]
<1>1. \A c \in cs : F(cs)[c] \in Nat
  BY HeldSizes DEF Held
<1>2. \A es : Weight(k, es) = SumFunctionOnSet(F(es), es)
  BY DEF Weight, SumFunction
<1>3. ASSUME NEW es \in SUBSET cs PROVE SumFunctionOnSet(F(cs), es) = Weight(k, es)
  <2>1. IsFiniteSet(es)
    BY FS_Subset
  <2>2. \A c \in es : F(cs)[c] \in Nat /\ F(es)[c] = F(cs)[c]
    BY <1>1
  <2> DEFINE f == F(cs)
             h == F(es)
  <2> HIDE DEF f, h
  <2>3. SumFunctionOnSet(f, es) = SumFunctionOnSet(h, es)
    BY <2>1, <2>2, SumsOfEquals DEF f, h
  <2> QED
    BY <1>2, <2>3 DEF f, h
<1> DEFINE f == F(cs)
<1>4. \A c \in cs : f[c] \in Nat
  BY <1>1
<1> HIDE DEF f
<1>5. SumFunctionOnSet(f, cs) = SumFunctionOnSet(f, ds) + SumFunctionOnSet(f, cs \ ds)
  BY <1>4, SumSplits
<1> QED
  BY <1>3, <1>5 DEF f

LEMMA WeightAgrees ==
  ASSUME NEW k, k.entries \in [Commands -> Entry \cup {NoEntry}],
         NEW cs \in SUBSET Held(k), IsFiniteSet(cs),
         NEW l, \A c \in cs : l.entries[c] = k.entries[c]
  PROVE  Weight(l, cs) = Weight(k, cs)
<1> DEFINE f == [c \in cs |-> SizeIn(k, c)]
           h == [c \in cs |-> SizeIn(l, c)]
<1>1. \A c \in cs : f[c] \in Nat
  BY HeldSizes DEF Held
<1>2. \A c \in cs : h[c] = f[c]
  BY DEF SizeIn
<1>3. Weight(k, cs) = SumFunctionOnSet(f, cs) /\ Weight(l, cs) = SumFunctionOnSet(h, cs)
  BY DEF Weight, SumFunction
<1> HIDE DEF f, h
<1> QED
  BY <1>1, <1>2, <1>3, SumsOfEquals

LEMMA WeightOfOne ==
  ASSUME NEW k, k.entries \in [Commands -> Entry \cup {NoEntry}], NEW c \in Held(k)
  PROVE  Weight(k, {c}) = SizeIn(k, c)
<1> DEFINE f == [d \in {c} |-> SizeIn(k, d)]
           none == {}
<1>1. f[c] = SizeIn(k, c) /\ f[c] \in Nat
  BY HeldSizes DEF Held
<1>2. Weight(k, {c}) = SumFunctionOnSet(f, {c})
  BY DEF Weight, SumFunction
<1>3. none \cup {c} = {c} /\ IsFiniteSet(none) /\ c \notin none
  BY FS_EmptySet
<1> HIDE DEF f
<1>4. SumFunctionOnSet(f, none \cup {c}) = f[c] + SumFunctionOnSet(f, none)
  <2>1. \A y \in none \cup {c} : f[y] \in Nat
    BY <1>1
  <2>2. \A y \in none : f[y] = f[y]
    OBVIOUS
  <2> HIDE DEF none
  <2> QED
    BY ZenonT(60), <1>3, <2>1, <2>2, SumOfOneMore
<1> QED
  BY <1>1, <1>2, <1>3, <1>4, SumOfNothing

\* The weights of entries that go, and of the ones that stay.
LEMMA KeepingOK ==
  ASSUME NEW k, CacheOK(k), NEW gone \in SUBSET Held(k), NEW l,
         l = [entries |-> l.entries, order |-> l.order, bytes |-> l.bytes],
         l.entries = [c \in Commands |-> IF c \in gone THEN NoEntry ELSE k.entries[c]],
         l.order \in Seq(Commands),
         \A i, j \in 1 .. Len(l.order) : l.order[i] = l.order[j] => i = j,
         ToSet(l.order) = Held(k) \ gone,
         l.bytes = k.bytes - Weight(k, gone)
  PROVE  CacheOK(l) /\ l.bytes \in Nat /\ l.bytes <= k.bytes
<1>1. Held(l) = Held(k) \ gone
  BY DEF Held, Has
<1>2. /\ k.entries \in [Commands -> Entry \cup {NoEntry}]
      /\ Held(k) \in SUBSET Held(k) /\ IsFiniteSet(Held(k)) /\ k.bytes = Weight(k, Held(k))
  BY ListsAreFinite DEF CacheOK
<1>3. IsFiniteSet(gone) /\ IsFiniteSet(Held(k) \ gone)
  BY <1>2, FS_Subset
<1>4. Weight(k, Held(k)) = Weight(k, gone) + Weight(k, Held(k) \ gone)
  <2>1. /\ k.entries \in [Commands -> Entry \cup {NoEntry}]
        /\ Held(k) \in SUBSET Held(k) /\ IsFiniteSet(Held(k))
    BY <1>2
  <2> QED
    BY <2>1, WeightSplits
<1>5. Weight(k, gone) \in Nat /\ Weight(k, Held(k) \ gone) \in Nat
  BY <1>2, <1>3, WeightIsNatural
<1>6. Weight(l, Held(k) \ gone) = Weight(k, Held(k) \ gone)
  <2>1. \A c \in Held(k) \ gone : l.entries[c] = k.entries[c]
    BY DEF Held
  <2> QED
    BY <1>2, <1>3, <2>1, WeightAgrees
<1>7. l.bytes = Weight(l, Held(l)) /\ l.bytes \in Nat /\ l.bytes <= k.bytes
  BY <1>1, <1>2, <1>4, <1>5, <1>6
<1>8. l.entries \in [Commands -> Entry \cup {NoEntry}]
  BY <1>2
<1> QED
  BY <1>1, <1>7, <1>8 DEF CacheOK

\* Unlinking takes the key off the list and keeps the order of the others.
\* order.Remove takes one key out of the list, and no other (echo.go 434-436).
LEMMA UnlinkedList ==
  ASSUME NEW k, CacheOK(k), NEW c \in Commands, Has(k, c)
  PROVE  /\ Unlinked(k, c) \in Seq(Commands)
         /\ Len(Unlinked(k, c)) = Len(k.order) - 1
         /\ \A i, j \in 1 .. Len(Unlinked(k, c)) : Unlinked(k, c)[i] = Unlinked(k, c)[j] => i = j
         /\ ToSet(Unlinked(k, c)) = Held(k) \ {c}
<1> DEFINE s == k.order
           at == CHOOSE i \in DOMAIN s : s[i] = c
           u == Unlinked(k, c)
<1>1. s \in Seq(Commands) /\ DOMAIN s = 1 .. Len(s) /\ Len(s) \in Nat
  BY DEF CacheOK
<1>2. \E i \in DOMAIN s : s[i] = c
  BY DEF CacheOK, ToSet, Held
<1>3. at \in 1 .. Len(s) /\ s[at] = c
  BY <1>1, <1>2
<1>4. u = SubSeq(s, 1, at - 1) \o SubSeq(s, at + 1, Len(s))
  BY DEF Unlinked, RemoveAt
<1> HIDE DEF at, u
<1>5. /\ u \in Seq(Commands) /\ Len(u) = Len(s) - 1
      /\ \A i \in 1 .. Len(s) - 1 : u[i] = IF i < at THEN s[i] ELSE s[i + 1]
  <2> DEFINE v == SubSeq(s, 1, at - 1)
             w == SubSeq(s, at + 1, Len(s))
  <2>1. v \in Seq(Commands) /\ Len(v) = at - 1 /\ \A i \in 1 .. at - 1 : v[i] = s[i]
    BY <1>1, <1>3
  <2>2. /\ w \in Seq(Commands) /\ Len(w) = Len(s) - at
        /\ \A i \in 1 .. Len(s) - at : w[i] = s[at + i]
    BY <1>1, <1>3
  <2>6. u = v \o w
    BY <1>4
  <2> HIDE DEF v, w
  <2>7. Len(v) \in Nat /\ Len(w) \in Nat /\ Len(v) + Len(w) = Len(s) - 1
    BY <1>1, <1>3, <2>1, <2>2
  <2>3. u \in Seq(Commands) /\ Len(u) = Len(s) - 1
    <3>0. v \in Seq(Commands) /\ w \in Seq(Commands)
      BY <2>1, <2>2
    <3>1. v \o w \in Seq(Commands) /\ Len(v \o w) = Len(v) + Len(w)
      BY <3>0
    <3> QED
      BY <2>6, <2>7, <3>1
  <2>4. ASSUME NEW i \in 1 .. Len(s) - 1
        PROVE  u[i] = IF i < at THEN v[i] ELSE w[i - (at - 1)]
    BY <1>3, <2>1, <2>2, <2>6, <2>7
  <2>5. ASSUME NEW i \in 1 .. Len(s) - 1, ~(i < at)
        PROVE  w[i - (at - 1)] = s[i + 1]
    <3>1. i - (at - 1) \in 1 .. Len(s) - at /\ at + (i - (at - 1)) = i + 1
      BY <1>1, <1>3, <2>5
    <3> QED
      BY <2>2, <3>1
  <2>8. ASSUME NEW i \in 1 .. Len(s) - 1
        PROVE  u[i] = IF i < at THEN s[i] ELSE s[i + 1]
    <3>1. CASE i < at
      BY <1>3, <2>1, <2>4, <3>1
    <3>2. CASE ~(i < at)
      BY <2>4, <2>5, <3>2
    <3> QED
      BY <3>1, <3>2
  <2> QED
    BY <2>3, <2>8
<1>6. \A i, j \in 1 .. Len(s) : s[i] = s[j] => i = j
  BY DEF CacheOK
<1>7. \A i, j \in 1 .. Len(u) : u[i] = u[j] => i = j
  <2> SUFFICES ASSUME NEW i \in 1 .. Len(u), NEW j \in 1 .. Len(u), u[i] = u[j]
               PROVE  i = j
    OBVIOUS
  <2> DEFINE up(n) == IF n < at THEN n ELSE n + 1
  <2>1. \A n \in 1 .. Len(u) : up(n) \in 1 .. Len(s) /\ u[n] = s[up(n)]
    BY <1>1, <1>3, <1>5
  <2>2. up(i) = up(j)
    BY <1>6, <2>1
  <2> QED
    BY <1>1, <1>3, <1>5, <2>2
<1>8. ToSet(u) = Held(k) \ {c}
  <2>1. ToSet(s) = Held(k)
    BY DEF CacheOK
  <2>2. ToSet(u) = {u[i] : i \in 1 .. Len(u)} /\ ToSet(s) = {s[i] : i \in 1 .. Len(s)}
    BY <1>1, <1>5 DEF ToSet
  <2>3. ASSUME NEW d \in ToSet(u) PROVE d \in ToSet(s) /\ d # c
    <3>1. PICK i \in 1 .. Len(u) : d = u[i]
      BY <2>2, <2>3
    <3>2. CASE i < at
      BY SMTT(30), <1>1, <1>3, <1>5, <1>6, <2>2, <3>1, <3>2
    <3>3. CASE ~(i < at)
      <4>1. u[i] = s[i + 1] /\ i + 1 \in 1 .. Len(s) /\ i + 1 # at
        BY <1>1, <1>3, <1>5, <3>1, <3>3
      <4> QED
        BY <1>3, <1>6, <2>2, <3>1, <4>1
    <3> QED
      BY <3>2, <3>3
  <2>4. ASSUME NEW d \in ToSet(s), d # c PROVE d \in ToSet(u)
    <3>1. PICK i \in 1 .. Len(s) : d = s[i]
      BY <2>2, <2>4
    <3>2. CASE i < at
      BY <1>1, <1>3, <1>5, <2>2, <3>1, <3>2
    <3>3. CASE i > at
      <4>1. i - 1 \in 1 .. Len(u) /\ u[i - 1] = s[i]
        BY <1>1, <1>3, <1>5, <3>1, <3>3
      <4> QED
        BY <2>2, <3>1, <4>1
    <3> QED
      BY <1>3, <2>4, <3>1, <3>2, <3>3
  <2> QED
    BY <2>1, <2>3, <2>4
<1> QED
  BY <1>5, <1>7, <1>8 DEF u

\* dropLocked keeps the cache one, and makes it no larger (echo.go 434-438).
LEMMA DroppedOK ==
  ASSUME NEW k, CacheOK(k), NEW c \in Commands, Has(k, c)
  PROVE  /\ CacheOK(Dropped(k, c)) /\ ~Has(Dropped(k, c), c)
         /\ Len(Dropped(k, c).order) = Len(k.order) - 1
         /\ Dropped(k, c).bytes \in Nat /\ Dropped(k, c).bytes <= k.bytes
<1> DEFINE l == Dropped(k, c)
           gone == {c}
<1>1. k.entries \in [Commands -> Entry \cup {NoEntry}] /\ c \in Held(k)
  BY DEF CacheOK, Held
<1>2. /\ l = [entries |-> l.entries, order |-> l.order, bytes |-> l.bytes]
      /\ l.entries = [k.entries EXCEPT ![c] = NoEntry]
      /\ l.order = Unlinked(k, c) /\ l.bytes = k.bytes - SizeIn(k, c)
  BY DEF Dropped
<1> HIDE DEF l
<1>3. l.entries = [d \in Commands |-> IF d \in gone THEN NoEntry ELSE k.entries[d]]
  BY <1>1, <1>2
<1>4. l.bytes = k.bytes - Weight(k, gone)
  BY <1>1, <1>2, WeightOfOne
<1>5. /\ l.order \in Seq(Commands) /\ Len(l.order) = Len(k.order) - 1
      /\ \A i, j \in 1 .. Len(l.order) : l.order[i] = l.order[j] => i = j
      /\ ToSet(l.order) = Held(k) \ gone
  BY <1>2, UnlinkedList
<1>6. gone \in SUBSET Held(k)
  BY <1>1
<1> HIDE DEF gone
<1>7. CacheOK(l) /\ l.bytes \in Nat /\ l.bytes <= k.bytes
  BY <1>2, <1>3, <1>4, <1>5, <1>6, KeepingOK
<1>8. ~Has(l, c)
  BY <1>1, <1>2 DEF Has
<1> QED
  BY <1>5, <1>7, <1>8 DEF l

\* So does a hit, which drops nothing (echo.go 321).
LEMMA TouchedOK ==
  ASSUME NEW k, CacheOK(k), NEW c \in Commands, Has(k, c)
  PROVE  /\ CacheOK(Touched(k, c))
         /\ Len(Touched(k, c).order) = Len(k.order) /\ Touched(k, c).bytes = k.bytes
<1> DEFINE l == Touched(k, c)
           u == Unlinked(k, c)
<1>1. /\ u \in Seq(Commands) /\ Len(u) = Len(k.order) - 1
      /\ \A i, j \in 1 .. Len(u) : u[i] = u[j] => i = j
      /\ ToSet(u) = Held(k) \ {c}
  BY UnlinkedList
<1>2. /\ l = [entries |-> l.entries, order |-> l.order, bytes |-> l.bytes]
      /\ l.entries = k.entries /\ l.order = <<c>> \o u /\ l.bytes = k.bytes
  BY DEF Touched
<1>3. k.order \in Seq(Commands) /\ c \in Held(k) /\ k.entries \in [Commands -> Entry \cup {NoEntry}]
      /\ k.bytes = Weight(k, Held(k)) /\ IsFiniteSet(Held(k))
  BY ListsAreFinite DEF CacheOK, Held
<1> HIDE DEF l, u
<1>4. /\ l.order \in Seq(Commands) /\ Len(l.order) = Len(k.order)
      /\ \A i, j \in 1 .. Len(l.order) : l.order[i] = l.order[j] => i = j
      /\ ToSet(l.order) = Held(k)
  <2>1. /\ u \in Seq(Commands) /\ c \notin ToSet(u) /\ l.order = <<c>> \o u
        /\ \A i, j \in 1 .. Len(u) : u[i] = u[j] => i = j
    BY <1>1, <1>2
  <2>2. /\ l.order \in Seq(Commands) /\ Len(l.order) = Len(u) + 1
        /\ \A i, j \in 1 .. Len(l.order) : l.order[i] = l.order[j] => i = j
        /\ ToSet(l.order) = ToSet(u) \cup {c}
    BY <2>1, Prepended
  <2> QED
    BY <1>1, <1>3, <2>2
<1>5. Held(l) = Held(k)
  BY <1>2 DEF Held, Has
<1>6. Weight(l, Held(k)) = Weight(k, Held(k))
  BY <1>2, <1>3, WeightAgrees
<1> QED
  BY <1>2, <1>3, <1>4, <1>5, <1>6 DEF CacheOK, l

\* A new entry is counted once, under a key the map does not hold (echo.go 413-420).
LEMMA PushedOK ==
  ASSUME NEW k, CacheOK(k), NEW c \in Commands, ~Has(k, c), NEW e \in Entry
  PROVE  CacheOK(Pushed(k, c, e))
<1> DEFINE l == Pushed(k, c, e)
<1>1. /\ l = [entries |-> l.entries, order |-> l.order, bytes |-> l.bytes]
      /\ l.entries = [k.entries EXCEPT ![c] = e] /\ l.order = <<c>> \o k.order
      /\ l.bytes = k.bytes + Size(e.text, c)
  BY DEF Pushed
<1>2. /\ k.entries \in [Commands -> Entry \cup {NoEntry}] /\ c \notin Held(k)
      /\ k.bytes = Weight(k, Held(k)) /\ IsFiniteSet(Held(k))
      /\ k.order \in Seq(Commands) /\ ToSet(k.order) = Held(k)
      /\ \A i, j \in 1 .. Len(k.order) : k.order[i] = k.order[j] => i = j
  BY ListsAreFinite DEF CacheOK, Held
<1> HIDE DEF l
<1>3. l.entries \in [Commands -> Entry \cup {NoEntry}]
  BY <1>1, <1>2
<1>4. Held(l) = Held(k) \cup {c}
  BY <1>1, <1>2, EchoAssumption DEF Held, Has
<1>5. /\ l.order \in Seq(Commands) /\ ToSet(l.order) = Held(l)
      /\ \A i, j \in 1 .. Len(l.order) : l.order[i] = l.order[j] => i = j
  <2>1. /\ k.order \in Seq(Commands) /\ c \notin ToSet(k.order) /\ l.order = <<c>> \o k.order
        /\ \A i, j \in 1 .. Len(k.order) : k.order[i] = k.order[j] => i = j
    BY <1>1, <1>2
  <2>2. /\ l.order \in Seq(Commands) /\ Len(l.order) = Len(k.order) + 1
        /\ \A i, j \in 1 .. Len(l.order) : l.order[i] = l.order[j] => i = j
        /\ ToSet(l.order) = ToSet(k.order) \cup {c}
    BY <2>1, Prepended
  <2> QED
    BY <1>2, <1>4, <2>2
<1>6. Weight(l, Held(l)) = Weight(l, {c}) + Weight(l, Held(k))
  <2>1. IsFiniteSet(Held(l)) /\ {c} \in SUBSET Held(l) /\ Held(l) \ {c} = Held(k)
    BY <1>2, <1>4, FS_AddElement
  <2>2. Held(l) \in SUBSET Held(l)
    OBVIOUS
  <2> QED
    BY <1>3, <2>1, <2>2, WeightSplits
<1>7. Weight(l, {c}) = Size(e.text, c)
  <2>1. l.entries[c] = e /\ c \in Held(l)
    BY <1>1, <1>2, <1>4
  <2> QED
    BY <1>3, <2>1, WeightOfOne DEF SizeIn
<1>8. Weight(l, Held(k)) = Weight(k, Held(k))
  <2>1. \A d \in Held(k) : l.entries[d] = k.entries[d]
    BY <1>1, <1>2 DEF Held
  <2> QED
    BY <1>2, <2>1, WeightAgrees
<1>9. Size(e.text, c) \in Nat /\ k.bytes \in Nat
  <2>1. e.text \in Texts
    BY DEF Entry
  <2>2. Weight(k, Held(k)) \in Nat
    BY <1>2, WeightIsNatural
  <2> QED
    BY <1>2, <2>1, <2>2, SizeIsNatural
<1> QED
  BY <1>1, <1>2, <1>3, <1>5, <1>6, <1>7, <1>8, <1>9 DEF CacheOK, l

\* However many entries leave from the back of the list, what is left is one cache.
LEMMA KeepFirstOK ==
  ASSUME NEW k, CacheOK(k), NEW n \in 0 .. Len(k.order)
  PROVE  CacheOK(KeepFirst(k, n)) /\ KeepFirst(k, n).order = SubSeq(k.order, 1, n)
<1> DEFINE gone == {k.order[i] : i \in n + 1 .. Len(k.order)}
           l == KeepFirst(k, n)
<1>1. /\ l = [entries |-> l.entries, order |-> l.order, bytes |-> l.bytes]
      /\ l.entries = [c \in Commands |-> IF c \in gone THEN NoEntry ELSE k.entries[c]]
      /\ l.order = SubSeq(k.order, 1, n)
      /\ l.bytes = k.bytes - Weight(k, gone)
  BY DEF KeepFirst
<1> HIDE DEF l
<1>2. /\ k.order \in Seq(Commands) /\ Len(k.order) \in Nat
      /\ \A i, j \in 1 .. Len(k.order) : k.order[i] = k.order[j] => i = j
      /\ Held(k) = {k.order[i] : i \in 1 .. Len(k.order)}
  BY DEF CacheOK, ToSet
<1>3. /\ l.order \in Seq(Commands) /\ Len(l.order) = n
      /\ \A i \in 1 .. n : l.order[i] = k.order[i]
  BY <1>1, <1>2
<1>4. \A i, j \in 1 .. Len(l.order) : l.order[i] = l.order[j] => i = j
  BY <1>2, <1>3
<1>5. ToSet(l.order) = {l.order[i] : i \in 1 .. n}
  BY <1>3 DEF ToSet
<1>6. ToSet(l.order) = Held(k) \ gone
  <2>1. ASSUME NEW i \in 1 .. n PROVE l.order[i] \in Held(k) /\ l.order[i] \notin gone
    BY <1>2, <1>3
  <2>2. ASSUME NEW d \in Held(k), d \notin gone PROVE d \in ToSet(l.order)
    <3>1. PICK i \in 1 .. Len(k.order) : d = k.order[i]
      BY <1>2
    <3>2. i \in 1 .. n
      BY <1>2, <2>2, <3>1
    <3> QED
      BY <1>3, <1>5, <3>1, <3>2
  <2> QED
    BY <1>5, <2>1, <2>2
<1>7. gone \in SUBSET Held(k)
  BY <1>2
<1> HIDE DEF gone
<1>8. CacheOK(l)
  BY ZenonT(60), <1>1, <1>3, <1>4, <1>6, <1>7, KeepingOK
<1> QED
  BY <1>1, <1>8 DEF l

\* The loop of store ends with a cache within both budgets: when nothing is left there is
\* nothing to count (echo.go 423-431).
LEMMA EvictedOK ==
  ASSUME NEW k, CacheOK(k)
  PROVE  CacheOK(Evicted(k)) /\ Fits(Evicted(k))
<1> DEFINE fitting == {n \in 0 .. Len(k.order) : n = 0 \/ Fits(KeepFirst(k, n))}
           last == CHOOSE n \in fitting : \A m \in fitting : m <= n
<1>1. Len(k.order) \in Nat
  BY DEF CacheOK
<1>2. fitting # {} /\ fitting \in SUBSET (0 .. Len(k.order))
  BY <1>1
<1>3. last \in fitting
  <2> HIDE DEF fitting
  <2>1. \E n \in fitting : \A m \in fitting : m <= n
    BY <1>1, <1>2, GreatestExists
  <2> QED
    BY <2>1
<1>4. Evicted(k) = KeepFirst(k, last)
  BY DEF Evicted
<1> HIDE DEF last
<1>5. CacheOK(KeepFirst(k, last))
  BY <1>3, KeepFirstOK
<1>6. CASE last # 0
  BY <1>3, <1>4, <1>5, <1>6
<1>7. CASE last = 0
  <2> DEFINE l == KeepFirst(k, 0)
  <2>1. CacheOK(l) /\ l.order = SubSeq(k.order, 1, 0)
    BY <1>3, <1>7, KeepFirstOK
  <2> HIDE DEF l
  <2>2. l.order = <<>>
    BY <1>1, <2>1 DEF CacheOK
  <2>3. Held(l) = {}
    BY <2>1, <2>2 DEF CacheOK, ToSet
  <2>4. l.bytes = 0
    <3>1. Weight(l, {}) = SumFunctionOnSet([c \in {} |-> SizeIn(l, c)], {})
      BY DEF Weight, SumFunction
    <3> QED
      BY <2>1, <2>3, <3>1, SumOfNothing DEF CacheOK
  <2>5. Fits(l)
    BY <2>2, <2>4, EchoAssumption DEF Fits
  <2> QED
    BY <1>4, <1>5, <1>7, <2>5 DEF l
<1> QED
  BY <1>6, <1>7

\* newResultCache (echo.go 201-209).
LEMMA EmptyOK == CacheOK(Empty) /\ Fits(Empty)
<1>1. Held(Empty) = {} /\ Empty.order = <<>> /\ Empty.bytes = 0
  BY DEF Held, Has, Empty
<1>2. Weight(Empty, {}) = 0
  <2>1. Weight(Empty, {}) = SumFunctionOnSet([c \in {} |-> SizeIn(Empty, c)], {})
    BY DEF Weight, SumFunction
  <2> QED
    BY <2>1, SumOfNothing
<1>3. ToSet(Empty.order) = {}
  BY <1>1 DEF ToSet
<1>4. /\ Empty.entries \in [Commands -> Entry \cup {NoEntry}]
      /\ Empty = [entries |-> Empty.entries, order |-> Empty.order, bytes |-> Empty.bytes]
  BY DEF Empty
<1>5. Empty.order \in Seq(Commands) /\ Len(Empty.order) = 0
  BY <1>1
<1>6. Fits(Empty)
  BY <1>1, <1>5, EchoAssumption DEF Fits
<1> QED
  BY <1>1, <1>2, <1>3, <1>4, <1>5, <1>6 DEF CacheOK

LEMMA BytesAreNatural ==
  ASSUME NEW k, CacheOK(k)
  PROVE  k.bytes \in Nat /\ Len(k.order) \in Nat
<1>1. IsFiniteSet(Held(k)) /\ Held(k) \in SUBSET Held(k)
  BY ListsAreFinite DEF CacheOK
<1> QED
  BY <1>1, WeightIsNatural DEF CacheOK

\* store, from the drop of the old entry to the end of its loop (echo.go 410-431).
LEMMA StoredOK ==
  ASSUME TypeOK, CacheOK(cache), NEW a \in Agents
  PROVE  CacheOK(Stored(cache, a)) /\ Fits(Stored(cache, a))
<1> DEFINE c == cmd[a]
           e == [text |-> text[a], witnesses |-> after[a]]
           k == DroppedIfHeld(cache, c)
<1>1. c \in Commands /\ e \in Entry
  BY DEF TypeOK, Entry
<1> HIDE DEF c, e
<1>2. CacheOK(k) /\ ~Has(k, c)
  BY <1>1, DroppedOK DEF DroppedIfHeld
<1> HIDE DEF k
<1>3. CacheOK(Pushed(k, c, e))
  BY <1>1, <1>2, PushedOK
<1>4. Stored(cache, a) = Evicted(Pushed(k, c, e))
  BY DEF Stored, k, c, e
<1> QED
  BY <1>3, <1>4, EvictedOK

\* Only lookup and store touch the cache, and both under the lock.
LEMMA CacheStep ==
  ASSUME TypeOK, CacheOK(cache), Fits(cache), [Next]_vars
  PROVE  CacheOK(cache') /\ Fits(cache')
<1>1. CASE cache' = cache
  BY <1>1
<1>2. ASSUME NEW c \in Commands, Has(cache, c), cache' = Dropped(cache, c)
      PROVE  CacheOK(cache') /\ Fits(cache')
  <2>1. /\ CacheOK(cache') /\ Len(cache'.order) <= Len(cache.order)
        /\ Len(cache'.order) \in Nat /\ cache'.bytes \in Nat /\ cache'.bytes <= cache.bytes
    BY <1>2, DroppedOK, BytesAreNatural
  <2>2. Len(cache.order) \in Nat /\ cache.bytes \in Nat
    BY BytesAreNatural
  <2> QED
    BY <2>1, <2>2, EchoAssumption DEF Fits
<1>3. ASSUME NEW a \in Agents, RecheckHit(a) PROVE CacheOK(cache') /\ Fits(cache')
  <2>1. cmd[a] \in Commands /\ Has(cache, cmd[a]) /\ cache' = Touched(cache, cmd[a])
    BY <1>3 DEF RecheckHit, TypeOK
  <2>2. /\ CacheOK(cache') /\ Len(cache'.order) = Len(cache.order)
        /\ cache'.bytes = cache.bytes
    BY <2>1, TouchedOK
  <2> QED
    BY <2>2 DEF Fits
<1>4. ASSUME NEW a \in Agents, StoreKept(a) PROVE CacheOK(cache') /\ Fits(cache')
  BY <1>4, StoredOK DEF StoreKept
<1>5. ASSUME NEW a \in Agents, Step(a) PROVE CacheOK(cache') /\ Fits(cache')
  <2>1. ASSUME NEW c \in Commands, LookupExpired(a, c) PROVE CacheOK(cache') /\ Fits(cache')
    BY <1>2, <2>1 DEF LookupExpired
  <2>2. ASSUME NEW c \in Commands, LookupRefused(a, c) \/ LookupMiss(a, c) \/ LookupHave(a, c)
        PROVE  cache' = cache
    BY <2>2 DEF LookupRefused, LookupMiss, LookupHave
  <2>3. CASE RecheckStale(a)
    <3>1. cmd[a] \in Commands /\ Has(cache, cmd[a]) /\ cache' = Dropped(cache, cmd[a])
      BY <2>3 DEF RecheckStale, TypeOK
    <3> QED
      BY <1>2, <3>1
  <2>4. CASE RecheckGone(a)
    BY <1>1, <2>4 DEF RecheckGone
  <2>5. CASE Unlocked(a)
    <3>1. cache' = cache
      BY <2>5 DEF Unlocked, HashWitness, DigestBefore, RunRead, RunSucceeds, RunFails,
                  DigestAfter, StoreRefused, Return
    <3> QED
      BY <1>1, <3>1
  <2> QED
    BY <1>1, <1>3, <1>4, <1>5, <2>1, <2>2, <2>3, <2>4, <2>5 DEF Step, Lookup, Locking
<1>6. ASSUME NEW p \in Paths, Rewrite(p) PROVE CacheOK(cache') /\ Fits(cache')
  BY <1>1, <1>6 DEF Rewrite
<1>7. CASE UNCHANGED vars
  BY <1>1, <1>7 DEF vars
<1> QED
  BY <1>5, <1>6, <1>7 DEF Next

\* In every reachable state, for any agents, commands, files and budgets, the map, the list
\* and the byte count are one cache that fits: the inductive invariant of the result cache
\* (echo.go 161-187), kept by every drop, hit, store and eviction.
THEOREM CacheIsOne == Spec => [](CacheOK(cache) /\ Fits(cache))
<1> DEFINE Inv == TypeOK /\ CacheOK(cache) /\ Fits(cache)
<1>1. Init => Inv
  BY InitTyped, EmptyOK DEF Init
<1>2. Inv /\ [Next]_vars => Inv'
  BY StepTyped, CacheStep
<1>3. Inv => CacheOK(cache) /\ Fits(cache)
  OBVIOUS
<1> QED
  BY <1>1, <1>2, <1>3, PTL DEF Spec

\* Every key of the map is on the list once, and bytes is the sum of what is held
\* (lookup 292-326, store 410-431, dropLocked 434-438, echo.go).
THEOREM ListMapAndCountAgree == Spec => []LRUConsistent
<1>1. CacheOK(cache) /\ Fits(cache) => LRUConsistent
  BY ListsAreFinite DEF CacheOK, LRUConsistent, Held
<1> QED
  BY <1>1, CacheIsOne, PTL

\* After store's loop neither the entries nor the bytes are over budget (echo.go 423-431).
THEOREM BudgetsHold == Spec => []WithinBudget
<1>1. CacheOK(cache) /\ Fits(cache) => WithinBudget
  BY DEF WithinBudget
<1> QED
  BY <1>1, CacheIsOne, PTL
-----------------------------------------------------------------------------
(***************************************************************************)
(* What a step leaves alone                                                *)
(***************************************************************************)

\* A step of an agent is invisible to another one, but for the cache, the lock and
\* the mark StoreKept leaves on those that are hashing.
LEMMA StepIsLocal ==
  ASSUME TypeOK, NEW a \in Agents, NEW b \in Agents, a # b, Step(a)
  PROVE  /\ pc'[b] = pc[b] /\ cmd'[b] = cmd[b] /\ todo'[b] = todo[b]
         /\ stored'[b] = stored[b] /\ changed'[b] = changed[b]
         /\ before'[b] = before[b] /\ text'[b] = text[b] /\ after'[b] = after[b]
         /\ since'[b] = since[b] /\ hit'[b] = hit[b]
<1> USE DEF TypeOK, Go, Visit, local, history
<1>1. ASSUME NEW c \in Commands,
             LookupRefused(a, c) \/ LookupMiss(a, c) \/ LookupExpired(a, c) \/ LookupHave(a, c)
      PROVE  UNCHANGED <<pc[b], cmd[b], todo[b], stored[b], changed[b], before[b],
                         text[b], after[b], since[b], hit[b]>>
  BY <1>1 DEF LookupRefused, LookupMiss, LookupExpired, LookupHave, Ask
<1>2. CASE Unlocked(a)
  BY <1>2 DEF Unlocked, HashWitness, DigestBefore, RunRead, RunSucceeds, RunFails,
              DigestAfter, StoreRefused, Return
<1>3. CASE Locking(a)
  BY <1>3 DEF Locking, RecheckGone, RecheckStale, RecheckHit, Recheck, StoreKept
<1> QED
  BY <1>1, <1>2, <1>3 DEF Step, Lookup

\* Agents do not rewrite files.
LEMMA StepKeepsDisk ==
  ASSUME NEW a \in Agents, Step(a)
  PROVE  file' = file /\ past' = past
<1>1. ASSUME NEW c \in Commands,
             LookupRefused(a, c) \/ LookupMiss(a, c) \/ LookupExpired(a, c) \/ LookupHave(a, c)
      PROVE  file' = file /\ past' = past
  BY <1>1 DEF LookupRefused, LookupMiss, LookupExpired, LookupHave, Ask
<1>2. CASE Unlocked(a)
  BY <1>2 DEF Unlocked, HashWitness, DigestBefore, RunRead, RunSucceeds, RunFails,
              DigestAfter, StoreRefused, Return, history
<1>3. CASE Locking(a)
  BY <1>3 DEF Locking, RecheckGone, RecheckStale, RecheckHit, Recheck, StoreKept
<1> QED
  BY <1>1, <1>2, <1>3 DEF Step, Lookup

\* Only StoreKept puts an entry in, and only it marks agents that are hashing.
LEMMA OnlyStoreAdds ==
  ASSUME TypeOK, NEW a \in Agents, Step(a), ~StoreKept(a)
  PROVE  /\ \A c \in Commands : cache'.entries[c] \in {NoEntry, cache.entries[c]}
         /\ \A b \in Agents : replaced'[b] => replaced[b]
         /\ \A b \in Agents : pc[b] # "done" => replaced'[b] = replaced[b]
<1> DEFINE Shrinks == \A c \in Commands : cache'.entries[c] \in {NoEntry, cache.entries[c]}
           Marks == /\ \A b \in Agents : replaced'[b] => replaced[b]
                    /\ \A b \in Agents : pc[b] # "done" => replaced'[b] = replaced[b]
<1>1. ASSUME NEW c \in Commands,
             LookupRefused(a, c) \/ LookupMiss(a, c) \/ LookupExpired(a, c) \/ LookupHave(a, c)
      PROVE  Shrinks /\ Marks
  <2>1. cache' = cache \/ cache' = Dropped(cache, c)
    BY <1>1 DEF LookupRefused, LookupMiss, LookupExpired, LookupHave
  <2>2. Shrinks
    <3>1. Dropped(cache, c).entries = [cache.entries EXCEPT ![c] = NoEntry]
      BY DroppedEntries
    <3> QED
      BY <2>1, <3>1 DEF TypeOK
  <2>3. replaced' = replaced
    BY <1>1 DEF LookupRefused, LookupMiss, LookupExpired, LookupHave, Ask
  <2> QED
    BY <2>2, <2>3
<1>2. CASE Unlocked(a)
  <2>1. cache' = cache
    BY <1>2 DEF Unlocked, HashWitness, DigestBefore, RunRead, RunSucceeds, RunFails,
                DigestAfter, StoreRefused, Return
  <2>2. replaced' = replaced \/ Return(a)
    BY <1>2 DEF Unlocked, HashWitness, DigestBefore, RunRead, RunSucceeds, RunFails,
                DigestAfter, StoreRefused, history
  <2>3. CASE Return(a)
    <3>1. pc[a] = "done" /\ replaced' = [replaced EXCEPT ![a] = FALSE]
      BY <2>3 DEF Return, Go
    <3>2. ASSUME NEW b \in Agents PROVE replaced'[b] = IF b = a THEN FALSE ELSE replaced[b]
      BY <3>1 DEF TypeOK
    <3> QED
      BY <2>1, <3>1, <3>2
  <2> QED
    BY <2>1, <2>2, <2>3
<1>3. CASE RecheckGone(a)
  BY <1>3 DEF RecheckGone, Recheck
<1>4. CASE RecheckStale(a)
  <2>1. cache'.entries = [cache.entries EXCEPT ![cmd[a]] = NoEntry]
    BY <1>4, DroppedEntries DEF RecheckStale
  <2> QED
    BY <1>4, <2>1 DEF RecheckStale, Recheck, TypeOK
<1>5. CASE RecheckHit(a)
  <2>1. cache'.entries = cache.entries
    BY <1>5 DEF RecheckHit, Touched
  <2> QED
    BY <1>5, <2>1 DEF RecheckHit, Recheck
<1> QED
  BY <1>1, <1>2, <1>3, <1>4, <1>5 DEF Step, Lookup, Locking

\* What StoreKept does to the cache.
LEMMA StoreAdds ==
  ASSUME TypeOK, NEW a \in Agents, StoreKept(a)
  PROVE  \A c \in Commands : cache'.entries[c] \in
           {NoEntry, IF c = cmd[a] THEN [text |-> text[a], witnesses |-> after[a]]
                                   ELSE cache.entries[c]}
BY StoredEntries DEF StoreKept

-----------------------------------------------------------------------------
(***************************************************************************)
(* The inductive invariant                                                 *)
(***************************************************************************)
LEMMA InitInv == Init => EchoInv
<1> SUFFICES ASSUME Init PROVE EchoInv
  OBVIOUS
<1>1. TypeOK
  BY InitTyped
<1>2. DiskMovesForward
  BY <1>1, PrecedesOrder DEF Init, DiskMovesForward, TypeOK, Texts
<1>3. \A a \in Agents : HashingAgrees(a) /\ DigestsPrecede(a) /\ RunIsBracketed(a)
  BY DEF Init, HashingAgrees, DigestsPrecede, RunIsBracketed
<1>4. EntryIsSnapshot /\ HitIsCurrent
  BY DEF Init, EntryIsSnapshot, HitIsCurrent, Has, Empty
<1> QED
  BY <1>1, <1>2, <1>3, <1>4 DEF EchoInv, Init

LEMMA DiskStep == EchoInv /\ [Next]_vars => DiskMovesForward'
<1> SUFFICES ASSUME EchoInv, [Next]_vars PROVE DiskMovesForward'
  OBVIOUS
<1> USE DEF EchoInv
<1>1. CASE UNCHANGED vars
  BY <1>1 DEF vars, history, DiskMovesForward
<1>2. ASSUME NEW p \in Paths, Rewrite(p) PROVE DiskMovesForward'
  <2>1. \A q \in Paths : Precedes(file[q], file'[q])
    BY <1>2, RewriteMoves
  <2>2. file' \in Texts /\ file \in Texts /\ past \in SUBSET Texts
    BY <1>2, RewriteMoves DEF TypeOK
  <2>3. past' = past \cup {file'}
    BY <1>2 DEF Rewrite
  <2>4. ASSUME NEW f \in past', NEW q \in Paths PROVE Precedes(f[q], file'[q])
    <3>1. CASE f = file'
      BY <2>2, <3>1, PrecedesOrder DEF Texts
    <3>2. CASE f \in past
      BY <2>1, <2>2, <3>2, PrecedesOrder DEF DiskMovesForward, Texts
    <3> QED
      BY <2>3, <3>1, <3>2
  <2>5. ASSUME NEW a \in Agents PROVE since[a]' \subseteq past' /\ (pc'[a] # "ready" => file' \in since'[a])
    BY <1>2, <2>3 DEF Rewrite, DiskMovesForward
  <2> QED
    BY <2>3, <2>4, <2>5 DEF DiskMovesForward
<1>3. ASSUME NEW a \in Agents, Step(a) PROVE DiskMovesForward'
  <2>1. file' = file /\ past' = past
    BY <1>3, StepKeepsDisk
  <2>2. ASSUME NEW b \in Agents, b # a
        PROVE  since'[b] \subseteq past' /\ (pc'[b] # "ready" => file' \in since'[b])
    BY <1>3, <2>1, <2>2, StepIsLocal DEF DiskMovesForward
  <2>3. since'[a] \subseteq past' /\ (pc'[a] # "ready" => file' \in since'[a])
    <3> USE DEF DiskMovesForward, TypeOK, Go
    <3>1. ASSUME NEW c \in Commands,
               LookupRefused(a, c) \/ LookupMiss(a, c) \/ LookupExpired(a, c) \/ LookupHave(a, c)
          PROVE  since'[a] = {file}
      BY <3>1 DEF LookupRefused, LookupMiss, LookupExpired, LookupHave, Ask
    <3>2. CASE Return(a)
      BY <3>2 DEF Return
    <3>3. CASE Unlocked(a) /\ ~Return(a)
      <4>1. since' = since /\ pc[a] # "ready"
        BY <3>3 DEF Unlocked, HashWitness, DigestBefore, RunRead, RunSucceeds, RunFails,
                    DigestAfter, StoreRefused, history
      <4> QED
        BY <2>1, <4>1
    <3>4. CASE Locking(a)
      <4>1. since' = since /\ pc[a] # "ready"
        BY <3>4 DEF Locking, RecheckGone, RecheckStale, RecheckHit, Recheck, StoreKept
      <4> QED
        BY <2>1, <4>1
    <3> QED
      BY <1>3, <2>1, <3>1, <3>2, <3>3, <3>4 DEF Step, Lookup
  <2> QED
    BY <2>1, <2>2, <2>3 DEF DiskMovesForward
<1> QED
  BY <1>1, <1>2, <1>3 DEF Next

\* An entry is put in by StoreKept alone, when the digests before and after its
\* command agree: what lies between them agrees with both.
LEMMA SnapshotStep == EchoInv /\ [Next]_vars => EntryIsSnapshot'
<1> SUFFICES ASSUME EchoInv, [Next]_vars PROVE EntryIsSnapshot'
  OBVIOUS
<1> USE DEF EchoInv
<1>1. CASE UNCHANGED vars
  BY <1>1 DEF vars, history, EntryIsSnapshot, Has
<1>2. ASSUME NEW p \in Paths, Rewrite(p) PROVE EntryIsSnapshot'
  BY <1>2 DEF Rewrite, EntryIsSnapshot, Has
<1>3. ASSUME NEW a \in Agents, Step(a), ~StoreKept(a) PROVE EntryIsSnapshot'
  BY <1>3, OnlyStoreAdds, StepKeepsDisk DEF EntryIsSnapshot, Has
<1>4. ASSUME NEW a \in Agents, StoreKept(a) PROVE EntryIsSnapshot'
  <2>1. past' = past
    BY <1>4 DEF StoreKept
  <2>2. pc[a] = "store" /\ after[a] = before[a]
    BY <1>4 DEF StoreKept, Go
  <2>3. PICK f \in past : \A p \in Reads[cmd[a]] :
          /\ Precedes(before[a][p], f[p])
          /\ Precedes(f[p], text[a][p])
          /\ Precedes(text[a][p], after[a][p])
    BY <2>2 DEF RunIsBracketed
  <2>4. Reads[cmd[a]] \subseteq Paths /\ f \in Texts /\ before[a] \in Texts /\ text[a] \in Texts
    BY EchoAssumption DEF TypeOK
  <2>5. ASSUME NEW p \in Reads[cmd[a]] PROVE text[a][p] = f[p] /\ after[a][p] = f[p]
    <3>1. f[p] \in Contents /\ text[a][p] \in Contents /\ before[a][p] \in Contents
      BY <2>4 DEF Texts
    <3>2. Precedes(f[p], before[a][p])
      BY <2>2, <2>3, <3>1, PrecedesOrder
    <3>3. f[p] = before[a][p]
      BY <2>3, <3>1, <3>2, PrecedesOrder
    <3> QED
      BY <2>2, <2>3, <3>1, <3>3, PrecedesOrder
  <2>6. ASSUME NEW c \in Commands, Has(cache, c)'
        PROVE  \E g \in past' : /\ Says(cache'.entries[c].text, c, g)
                               /\ Says(cache'.entries[c].witnesses, c, g)
    <3>1. CASE c = cmd[a]
      <4>1. cache'.entries[c] = [text |-> text[a], witnesses |-> after[a]]
        BY <1>4, <2>6, <3>1, StoreAdds DEF Has
      <4> QED
        BY <2>1, <2>5, <3>1, <4>1 DEF Says
    <3>2. CASE c # cmd[a]
      BY <1>4, <2>1, <2>6, <3>2, StoreAdds DEF Has, EntryIsSnapshot
    <3> QED
      BY <3>1, <3>2
  <2> QED
    BY <2>6 DEF EntryIsSnapshot
<1> QED
  BY <1>1, <1>2, <1>3, <1>4 DEF Next

LEMMA HashingStep ==
  ASSUME EchoInv, [Next]_vars, NEW b \in Agents
  PROVE  HashingAgrees(b)'
<1> USE DEF EchoInv
<1> DEFINE entry == cache.entries[cmd[b]]
<1>0. /\ Reads[cmd[b]] \subseteq Paths /\ stored[b] \in Texts /\ file \in Texts
      /\ since[b] \subseteq Texts /\ past \subseteq Texts
  BY EchoAssumption DEF TypeOK
<1> USE DEF WitnessesSeen, ChangeIsReal, EntryIsTheOneHashed
<1>1. CASE UNCHANGED vars
  BY <1>1 DEF vars, local, history, HashingAgrees, Has
<1>2. ASSUME NEW p \in Paths, Rewrite(p) PROVE HashingAgrees(b)'
  <2>1. \A q \in Paths : Precedes(file[q], file'[q])
    BY <1>2, RewriteMoves
  <2>2. UNCHANGED <<cache, pc, local, replaced>> /\ since[b] \subseteq since'[b]
    BY <1>2 DEF Rewrite, TypeOK
  <2>3. ASSUME NEW q \in Reads[cmd[b]], <<stored[b][q], file[q]>> \in Rewrites
        PROVE  <<stored[b][q], file'[q]>> \in Rewrites
    <3>1. file' \in Texts
      BY <1>2, RewriteMoves
    <3> QED
      BY <1>0, <2>1, <2>3, <3>1, ForwardOnly DEF Precedes, Texts
  <2>4. UNCHANGED <<cache, pc[b], cmd[b], todo[b], stored[b], changed[b], replaced[b]>>
    BY <2>2 DEF local
  <2>5. WitnessesSeen(b) => WitnessesSeen(b)'
    BY <2>2, <2>4
  <2>6. ChangeIsReal(b) => ChangeIsReal(b)'
    BY <2>3, <2>4
  <2>7. EntryIsTheOneHashed(b) => EntryIsTheOneHashed(b)'
    BY <2>4 DEF Has
  <2> QED
    BY <2>4, <2>5, <2>6, <2>7 DEF HashingAgrees
<1>3. ASSUME NEW a \in Agents, Step(a), a # b, ~StoreKept(a) PROVE HashingAgrees(b)'
  <2>1. cache'.entries[cmd[b]] \in {NoEntry, entry} /\ (pc[b] # "done" => replaced'[b] = replaced[b])
    BY <1>3, OnlyStoreAdds DEF TypeOK
  <2>2. file' = file
    BY <1>3, StepKeepsDisk
  <2> QED
    BY <1>3, <2>1, <2>2, StepIsLocal DEF HashingAgrees, Has
<1>4. ASSUME NEW a \in Agents, StoreKept(a), a # b PROVE HashingAgrees(b)'
  <2>1. Step(a)
    BY <1>4 DEF Step, Locking
  <2>2. file' = file
    BY <1>4 DEF StoreKept
  <2>3. replaced'[b] = (replaced[b] \/ (pc[b] \in {"hash", "recheck"} /\ cmd[b] = cmd[a]))
    BY <1>4 DEF StoreKept
  <2>4. cmd[b] # cmd[a] => cache'.entries[cmd[b]] \in {NoEntry, entry}
    BY <1>4, StoreAdds DEF TypeOK
  <2>5. UNCHANGED <<file, since[b], pc[b], cmd[b], todo[b], stored[b], changed[b]>>
    BY <1>4, <2>1, <2>2, StepIsLocal
  <2>6. (WitnessesSeen(b) => WitnessesSeen(b)') /\ (ChangeIsReal(b) => ChangeIsReal(b)')
    BY <2>5
  <2>7. CASE cmd[b] = cmd[a]
    BY <2>3, <2>5, <2>6, <2>7 DEF HashingAgrees
  <2>8. CASE cmd[b] # cmd[a] /\ pc[b] \in {"hash", "recheck"}
    <3>1. EntryIsTheOneHashed(b) => EntryIsTheOneHashed(b)'
      BY <2>3, <2>4, <2>5, <2>8 DEF Has, TypeOK
    <3> QED
      BY <2>5, <2>6, <2>8, <3>1 DEF HashingAgrees
  <2> QED
    BY <2>5, <2>7, <2>8 DEF HashingAgrees
<1>5. ASSUME Step(b) PROVE HashingAgrees(b)'
  <2> USE DEF TypeOK, Go, Visit
  <2>1. ASSUME NEW c \in Commands, LookupRefused(b, c) \/ LookupMiss(b, c) \/ LookupExpired(b, c)
        PROVE  HashingAgrees(b)'
    BY <2>1 DEF LookupRefused, LookupMiss, LookupExpired, Ask, HashingAgrees
  <2>2. ASSUME NEW c \in Commands, LookupHave(b, c) PROVE HashingAgrees(b)'
    <3>1. /\ pc'[b] = "hash" /\ cmd'[b] = c /\ todo'[b] = Reads[c] /\ since'[b] = {file}
          /\ stored'[b] = cache.entries[c].witnesses /\ changed'[b] = changed[b]
          /\ cache' = cache /\ file' = file /\ replaced'[b] = replaced[b] /\ Has(cache, c)
      BY <2>2 DEF LookupHave, Ask
    <3>2. PICK f \in past : /\ Says(cache.entries[c].text, c, f)
                            /\ Says(cache.entries[c].witnesses, c, f)
      BY <3>1 DEF EntryIsSnapshot
    <3>3. \A p \in Reads[c] : /\ Precedes(cache.entries[c].witnesses[p], file[p])
                              /\ cache.entries[c].text[p] = cache.entries[c].witnesses[p]
      BY <3>2, EchoAssumption DEF Says, DiskMovesForward
    <3>4. changed[b] = FALSE
      BY <2>2 DEF LookupHave, Ask
    <3> QED
      BY <3>1, <3>3, <3>4 DEF HashingAgrees, Says
  <2>3. CASE HashWitness(b)
    <3>1. PICK p \in todo[b] :
            LET differs == file[p] # stored[b][p]
                left == IF differs THEN {} ELSE todo[b] \ {p}
            IN  /\ changed' = [changed EXCEPT ![b] = differs]
                /\ todo' = [todo EXCEPT ![b] = left]
                /\ pc' = [pc EXCEPT ![b] = IF left = {} THEN "recheck" ELSE "hash"]
      BY <2>3 DEF HashWitness
    <3>2. pc[b] = "hash" /\ UNCHANGED <<file, cache, cmd, stored, since, replaced>>
      BY <2>3 DEF HashWitness, history
    <3>3. PICK f \in since[b] : \A q \in Reads[cmd[b]] :
            /\ Precedes(stored[b][q], f[q])
            /\ q \notin todo[b] => stored[b][q] = f[q]
      BY <3>2 DEF HashingAgrees
    <3>4. p \in Reads[cmd[b]] /\ todo[b] \subseteq Reads[cmd[b]] /\ f \in past
      BY <3>2 DEF HashingAgrees, DiskMovesForward
    <3>5. f[p] \in Contents /\ file[p] \in Contents /\ stored[b][p] \in Contents
      BY <1>0, <3>4 DEF Texts
    <3>6. Precedes(stored[b][p], f[p]) /\ Precedes(f[p], file[p])
      BY <1>0, <3>3, <3>4 DEF DiskMovesForward
    <3>7. CASE file[p] = stored[b][p]
      <4>1. f[p] = stored[b][p]
        BY <3>5, <3>6, <3>7, PrecedesOrder
      <4>2. changed'[b] = FALSE /\ todo'[b] = todo[b] \ {p}
            /\ pc'[b] = IF todo[b] \ {p} = {} THEN "recheck" ELSE "hash"
        BY <3>1, <3>7
      <4> QED
        BY <3>2, <3>3, <3>4, <4>1, <4>2 DEF HashingAgrees, Has
    <3>8. CASE file[p] # stored[b][p]
      <4>1. Precedes(stored[b][p], file[p])
        BY <3>5, <3>6, PrecedesOrder
      <4>2. <<stored[b][p], file[p]>> \in Rewrites
        BY <3>8, <4>1 DEF Precedes
      <4>3. changed'[b] = TRUE /\ todo'[b] = {} /\ pc'[b] = "recheck"
        BY <3>1, <3>8
      <4> QED
        BY <3>2, <3>3, <3>4, <4>2, <4>3 DEF HashingAgrees, Has
    <3> QED
      BY <3>7, <3>8
  <2>4. CASE Unlocked(b) /\ ~HashWitness(b)
    <3>1. pc'[b] \notin {"hash", "recheck"}
      BY <2>4 DEF Unlocked, DigestBefore, RunRead, RunSucceeds, RunFails, DigestAfter,
                  StoreRefused, Return
    <3> QED
      BY <3>1 DEF HashingAgrees
  <2>5. CASE Locking(b)
    <3>1. pc'[b] \notin {"hash", "recheck"}
      BY <2>5 DEF Locking, RecheckGone, RecheckStale, RecheckHit, Recheck, StoreKept
    <3> QED
      BY <3>1 DEF HashingAgrees
  <2> QED
    BY <1>5, <2>1, <2>2, <2>3, <2>4, <2>5 DEF Step, Lookup
<1> QED
  BY <1>1, <1>2, <1>3, <1>4, <1>5 DEF Next, Step, Locking

LEMMA DigestStep ==
  ASSUME EchoInv, [Next]_vars, NEW b \in Agents
  PROVE  DigestsPrecede(b)'
<1> USE DEF EchoInv
<1>0. Reads[cmd[b]] \subseteq Paths /\ before[b] \in Texts /\ file \in Texts
  BY EchoAssumption DEF TypeOK
<1>1. CASE UNCHANGED vars
  BY <1>1 DEF vars, local, DigestsPrecede
<1>2. ASSUME NEW p \in Paths, Rewrite(p) PROVE DigestsPrecede(b)'
  <2>1. file' \in Texts /\ \A q \in Paths : Precedes(file[q], file'[q])
    BY <1>2, RewriteMoves
  <2>2. UNCHANGED <<pc, local>>
    BY <1>2 DEF Rewrite
  <2> QED
    BY <1>0, <2>1, <2>2, PrecedesOrder DEF DigestsPrecede, local, Texts
<1>3. ASSUME NEW a \in Agents, Step(a), a # b PROVE DigestsPrecede(b)'
  BY <1>3, StepIsLocal, StepKeepsDisk DEF DigestsPrecede
<1>4. ASSUME Step(b) PROVE DigestsPrecede(b)'
  <2> USE DEF TypeOK, Go, Visit
  <2>1. ASSUME NEW c \in Commands,
               LookupRefused(b, c) \/ LookupMiss(b, c) \/ LookupExpired(b, c) \/ LookupHave(b, c)
        PROVE  DigestsPrecede(b)'
    BY <2>1 DEF LookupRefused, LookupMiss, LookupExpired, LookupHave, Ask, DigestsPrecede
  <2>2. CASE DigestBefore(b)
    <3>1. PICK p \in todo[b] :
            LET left == todo[b] \ {p}
            IN  /\ before' = [before EXCEPT ![b][p] = file[p]]
                /\ todo' = [todo EXCEPT ![b] = IF left = {} THEN Reads[cmd[b]] ELSE left]
                /\ pc' = [pc EXCEPT ![b] = IF left = {} THEN "run" ELSE "digest"]
      BY <2>2 DEF DigestBefore
    <3>2. pc[b] = "digest" /\ cmd' = cmd /\ file' = file
      BY <2>2 DEF DigestBefore
    <3>3. CASE todo[b] \ {p} = {}
      BY <3>1, <3>3 DEF DigestsPrecede
    <3>4. CASE todo[b] \ {p} # {}
      <4>1. todo'[b] = todo[b] \ {p}
        BY <3>1, <3>4
      <4>2. p \in Paths /\ before'[b] = [before[b] EXCEPT ![p] = file[p]]
        BY <3>1
      <4>3. \A q \in Paths : before'[b][q] = IF q = p THEN file[p] ELSE before[b][q]
        BY <1>0, <4>2 DEF Texts
      <4>4. file[p] \in Contents
        BY <1>0, <4>2 DEF Texts
      <4> QED
        BY <1>0, <3>2, <4>1, <4>3, <4>4, PrecedesOrder DEF DigestsPrecede
    <3> QED
      BY <3>3, <3>4
  <2>3. CASE Unlocked(b) /\ ~DigestBefore(b)
    <3>1. pc'[b] # "digest"
      BY <2>3 DEF Unlocked, HashWitness, RunRead, RunSucceeds, RunFails, DigestAfter,
                  StoreRefused, Return
    <3> QED
      BY <3>1 DEF DigestsPrecede
  <2>4. CASE RecheckGone(b) \/ RecheckStale(b)
    BY <2>4 DEF RecheckGone, RecheckStale, Recheck, DigestsPrecede
  <2>5. CASE RecheckHit(b) \/ StoreKept(b)
    BY <2>5 DEF RecheckHit, Recheck, StoreKept, DigestsPrecede
  <2> QED
    BY <1>4, <2>1, <2>2, <2>3, <2>4, <2>5 DEF Step, Lookup, Locking
<1> QED
  BY <1>1, <1>2, <1>3, <1>4 DEF Next

LEMMA RunStep ==
  ASSUME EchoInv, [Next]_vars, NEW b \in Agents
  PROVE  RunIsBracketed(b)'
<1> USE DEF EchoInv
<1>0. /\ Reads[cmd[b]] \subseteq Paths /\ before[b] \in Texts /\ text[b] \in Texts
      /\ after[b] \in Texts /\ file \in Texts /\ past \subseteq Texts
  BY EchoAssumption DEF TypeOK
<1>1. CASE UNCHANGED vars
  BY <1>1 DEF vars, local, history, RunIsBracketed
<1>2. ASSUME NEW p \in Paths, Rewrite(p) PROVE RunIsBracketed(b)'
  <2>1. file' \in Texts /\ \A q \in Paths : Precedes(file[q], file'[q])
    BY <1>2, RewriteMoves
  <2>2. UNCHANGED <<pc, cmd, todo, before, text, after>> /\ past \subseteq past'
    BY <1>2 DEF Rewrite, local
  <2>3. ASSUME NEW q \in Reads[cmd[b]], NEW v \in Contents, Precedes(v, file[q])
        PROVE  Precedes(v, file'[q])
    <3>1. file[q] \in Contents /\ file'[q] \in Contents
      BY <1>0, <2>1 DEF Texts
    <3> QED
      BY <1>0, <2>1, <2>3, <3>1, PrecedesOrder
  <2>4. \A q \in Reads[cmd[b]] : text[b][q] \in Contents /\ after[b][q] \in Contents
    BY <1>0 DEF Texts
  <2>5. SUFFICES ASSUME pc[b] \in {"run", "redigest", "store"} PROVE RunIsBracketed(b)'
    BY <2>2 DEF RunIsBracketed
  <2>6. PICK f \in past : \A q \in Reads[cmd[b]] :
          /\ Precedes(before[b][q], f[q])
          /\ ~(pc[b] = "run" /\ q \in todo[b]) =>
               Precedes(f[q], text[b][q]) /\ Precedes(text[b][q], file[q])
          /\ (pc[b] = "store" \/ (pc[b] = "redigest" /\ q \notin todo[b])) =>
               Precedes(text[b][q], after[b][q]) /\ Precedes(after[b][q], file[q])
    BY <2>5 DEF RunIsBracketed
  <2>7. f \in past'
    BY <2>2
  <2> QED
    BY <2>2, <2>3, <2>4, <2>6, <2>7 DEF RunIsBracketed
<1>3. ASSUME NEW a \in Agents, Step(a), a # b PROVE RunIsBracketed(b)'
  <2>1. UNCHANGED <<file, past, pc[b], cmd[b], todo[b], before[b], text[b], after[b]>>
    BY <1>3, StepIsLocal, StepKeepsDisk
  <2> QED
    BY <2>1 DEF RunIsBracketed
<1>4. ASSUME Step(b) PROVE RunIsBracketed(b)'
  <2> USE DEF TypeOK, Go, Visit
  <2>0. file' = file /\ past' = past
    BY <1>4, StepKeepsDisk
  <2>1. ASSUME NEW c \in Commands, LookupRefused(b, c) PROVE RunIsBracketed(b)'
    <3>1. cmd'[b] = c /\ Reads[c] = {}
      BY <2>1 DEF LookupRefused, Ask
    <3> QED
      BY <2>0, <3>1 DEF RunIsBracketed, DiskMovesForward
  <2>2. ASSUME NEW c \in Commands, LookupMiss(b, c) \/ LookupExpired(b, c) \/ LookupHave(b, c)
        PROVE  RunIsBracketed(b)'
    BY <2>2 DEF LookupMiss, LookupExpired, LookupHave, Ask, RunIsBracketed
  <2>3. CASE HashWitness(b)
    BY <2>3 DEF HashWitness, RunIsBracketed
  <2>4. CASE DigestBefore(b)
    <3>1. PICK p \in todo[b] :
            LET left == todo[b] \ {p}
            IN  /\ before' = [before EXCEPT ![b][p] = file[p]]
                /\ todo' = [todo EXCEPT ![b] = IF left = {} THEN Reads[cmd[b]] ELSE left]
                /\ pc' = [pc EXCEPT ![b] = IF left = {} THEN "run" ELSE "digest"]
      BY <2>4 DEF DigestBefore
    <3>2. pc[b] = "digest" /\ cmd' = cmd
      BY <2>4 DEF DigestBefore
    <3>3. CASE todo[b] \ {p} # {}
      BY <3>1, <3>3 DEF RunIsBracketed
    <3>4. CASE todo[b] \ {p} = {}
      <4>1. pc'[b] = "run" /\ todo'[b] = Reads[cmd[b]]
        BY <3>1, <3>4
      <4>2. p \in Paths /\ \A q \in Paths : before'[b][q] = IF q = p THEN file[p] ELSE before[b][q]
        BY <1>0, <3>1 DEF Texts
      <4>3. file[p] \in Contents
        BY <1>0, <4>2 DEF Texts
      <4>4. \A q \in Reads[cmd[b]] : Precedes(before'[b][q], file[q])
        BY <1>0, <3>2, <3>4, <4>2, <4>3, PrecedesOrder DEF DigestsPrecede
      <4> QED
        BY <2>0, <3>2, <4>1, <4>4 DEF RunIsBracketed, DiskMovesForward
    <3> QED
      BY <3>3, <3>4
  <2>5. CASE RunRead(b)
    <3>1. PICK p \in todo[b] : /\ text' = [text EXCEPT ![b][p] = file[p]]
                               /\ todo' = [todo EXCEPT ![b] = todo[b] \ {p}]
      BY <2>5 DEF RunRead
    <3>2. pc[b] = "run" /\ UNCHANGED <<pc, cmd, before, after>>
      BY <2>5 DEF RunRead
    <3>3. PICK f \in past : \A q \in Reads[cmd[b]] :
            /\ Precedes(before[b][q], f[q])
            /\ q \notin todo[b] => Precedes(f[q], text[b][q]) /\ Precedes(text[b][q], file[q])
      BY <3>2 DEF RunIsBracketed
    <3>4. p \in Paths /\ \A q \in Paths : text'[b][q] = IF q = p THEN file[p] ELSE text[b][q]
      BY <1>0, <3>1 DEF Texts
    <3>5. Precedes(f[p], file[p]) /\ Precedes(file[p], file[p])
      BY <1>0, <3>4, PrecedesOrder DEF DiskMovesForward, Texts
    <3>6. \A q \in Reads[cmd[b]] : q \notin todo'[b] =>
            Precedes(f[q], text'[b][q]) /\ Precedes(text'[b][q], file[q])
      BY <1>0, <3>1, <3>3, <3>4, <3>5
    <3> QED
      BY <2>0, <3>2, <3>3, <3>6 DEF RunIsBracketed
  <2>6. CASE RunSucceeds(b)
    <3>1. /\ pc[b] = "run" /\ todo[b] = {} /\ pc'[b] \in {"done", "redigest"}
          /\ todo'[b] = Reads[cmd[b]] /\ UNCHANGED <<cmd, before, text, after>>
      BY <2>6 DEF RunSucceeds
    <3> QED
      BY <2>0, <3>1 DEF RunIsBracketed
  <2>7. CASE DigestAfter(b)
    <3>1. PICK p \in todo[b] :
            LET left == todo[b] \ {p}
            IN  /\ after' = [after EXCEPT ![b][p] = file[p]]
                /\ todo' = [todo EXCEPT ![b] = left]
                /\ pc' = [pc EXCEPT ![b] = IF left = {} THEN "store" ELSE "redigest"]
      BY <2>7 DEF DigestAfter
    <3>2. pc[b] = "redigest" /\ UNCHANGED <<cmd, before, text>>
      BY <2>7 DEF DigestAfter
    <3>3. PICK f \in past : \A q \in Reads[cmd[b]] :
            /\ Precedes(before[b][q], f[q])
            /\ Precedes(f[q], text[b][q]) /\ Precedes(text[b][q], file[q])
            /\ q \notin todo[b] =>
                 Precedes(text[b][q], after[b][q]) /\ Precedes(after[b][q], file[q])
      BY <3>2 DEF RunIsBracketed
    <3>4. p \in Paths /\ \A q \in Paths : after'[b][q] = IF q = p THEN file[p] ELSE after[b][q]
      BY <1>0, <3>1 DEF Texts
    <3>5. Precedes(file[p], file[p])
      BY <1>0, <3>4, PrecedesOrder DEF Texts
    <3>6. /\ todo'[b] = todo[b] \ {p} /\ pc'[b] \in {"store", "redigest"}
          /\ pc'[b] = "store" => todo'[b] = {}
      BY <3>1
    <3>7. \A q \in Reads[cmd[b]] : q \notin todo'[b] =>
            Precedes(text[b][q], after'[b][q]) /\ Precedes(after'[b][q], file[q])
      BY <1>0, <3>3, <3>4, <3>5, <3>6
    <3> QED
      BY <2>0, <3>2, <3>3, <3>6, <3>7 DEF RunIsBracketed
  <2>8. CASE RunFails(b) \/ StoreRefused(b) \/ Return(b)
    BY <2>8 DEF RunFails, StoreRefused, Return, RunIsBracketed
  <2>9. CASE Locking(b)
    BY <2>9 DEF Locking, RecheckGone, RecheckStale, RecheckHit, Recheck, StoreKept, RunIsBracketed
  <2> QED
    BY <1>4, <2>1, <2>2, <2>3, <2>4, <2>5, <2>6, <2>7, <2>8, <2>9 DEF Step, Lookup, Unlocked
<1> QED
  BY <1>1, <1>2, <1>3, <1>4 DEF Next

LEMMA FlagsStep ==
  ASSUME EchoInv, [Next]_vars, NEW b \in Agents
  PROVE  (changed'[b] => pc'[b] = "recheck") /\ (hit'[b] => pc'[b] = "done")
<1> USE DEF EchoInv, TypeOK
<1>1. CASE UNCHANGED vars
  BY <1>1 DEF vars, local, history
<1>2. ASSUME NEW p \in Paths, Rewrite(p) PROVE UNCHANGED <<pc, changed, hit>>
  BY <1>2 DEF Rewrite, local
<1>3. ASSUME NEW a \in Agents, Step(a), a # b PROVE UNCHANGED <<pc[b], changed[b], hit[b]>>
  BY <1>3, StepIsLocal
<1>4. ASSUME Step(b)
      PROVE  (changed'[b] => pc'[b] = "recheck") /\ (hit'[b] => pc'[b] = "done")
  <2> USE DEF Go, Visit, local, history
  <2>1. ASSUME NEW c \in Commands,
               LookupRefused(b, c) \/ LookupMiss(b, c) \/ LookupExpired(b, c) \/ LookupHave(b, c)
        PROVE  pc[b] = "ready" /\ changed' = changed /\ hit' = hit
    BY <2>1 DEF LookupRefused, LookupMiss, LookupExpired, LookupHave, Ask
  <2>2. CASE HashWitness(b)
    BY <2>2 DEF HashWitness
  <2>3. CASE Return(b)
    BY <2>3 DEF Return
  <2>4. CASE Unlocked(b) /\ ~HashWitness(b) /\ ~Return(b)
    <3>1. pc[b] \notin {"recheck", "done"} /\ changed' = changed /\ hit' = hit
      BY <2>4 DEF Unlocked, DigestBefore, RunRead, RunSucceeds, RunFails, DigestAfter, StoreRefused
    <3> QED
      BY <3>1
  <2>5. CASE RecheckGone(b) \/ RecheckStale(b) \/ RecheckHit(b)
    BY <2>5 DEF RecheckGone, RecheckStale, RecheckHit, Recheck
  <2>6. CASE StoreKept(b)
    BY <2>6 DEF StoreKept
  <2> QED
    BY <1>4, <2>1, <2>2, <2>3, <2>4, <2>5, <2>6 DEF Step, Lookup, Locking
<1> QED
  BY <1>1, <1>2, <1>3, <1>4 DEF Next

\* A hit serves the entry whose witnesses were hashed, unless another was stored.
LEMMA HitStep == EchoInv /\ [Next]_vars => HitIsCurrent'
<1> SUFFICES ASSUME EchoInv, [Next]_vars, NEW b \in Agents, hit'[b], ~replaced'[b]
             PROVE  \E f \in since'[b] : Says(text'[b], cmd'[b], f)
  BY DEF HitIsCurrent
<1> USE DEF EchoInv
<1>1. CASE UNCHANGED vars
  BY <1>1 DEF vars, local, history, HitIsCurrent
<1>2. ASSUME NEW p \in Paths, Rewrite(p)
      PROVE  \E f \in since'[b] : Says(text'[b], cmd'[b], f)
  <2>1. UNCHANGED <<text, cmd, hit, replaced>> /\ since[b] \subseteq since'[b]
    BY <1>2 DEF Rewrite, local, TypeOK
  <2> QED
    BY <2>1 DEF HitIsCurrent
<1>3. ASSUME NEW a \in Agents, Step(a), a # b
      PROVE  \E f \in since'[b] : Says(text'[b], cmd'[b], f)
  <2>1. UNCHANGED <<text[b], cmd[b], hit[b], since[b]>>
    BY <1>3, StepIsLocal
  <2>2. pc[b] = "done"
    BY <2>1
  <2>3. replaced'[b] = replaced[b]
    <3>1. CASE StoreKept(a)
      BY <2>2, <3>1 DEF StoreKept, TypeOK
    <3>2. CASE ~StoreKept(a)
      <4>1. CASE Return(a)
        BY <1>3, <4>1 DEF Return, TypeOK
      <4>2. CASE ~Return(a)
        <5>1. CASE Unlocked(a)
          BY <4>2, <5>1 DEF Unlocked, HashWitness, DigestBefore, RunRead, RunSucceeds,
                            RunFails, DigestAfter, StoreRefused, history
        <5>2. CASE Locking(a)
          BY <3>2, <5>2 DEF Locking, RecheckGone, RecheckStale, RecheckHit, Recheck
        <5>3. CASE Lookup(a)
          BY <5>3 DEF Lookup, LookupRefused, LookupMiss, LookupExpired, LookupHave, Ask
        <5> QED
          BY <1>3, <5>1, <5>2, <5>3 DEF Step
      <4> QED
        BY <4>1, <4>2
    <3> QED
      BY <3>1, <3>2
  <2> QED
    BY <2>1, <2>3 DEF HitIsCurrent
<1>4. ASSUME Step(b)
      PROVE  \E f \in since'[b] : Says(text'[b], cmd'[b], f)
  <2>1. CASE RecheckHit(b)
    <3>1. /\ pc[b] = "recheck" /\ ~changed[b] /\ Has(cache, cmd[b])
          /\ cmd' = cmd /\ since' = since /\ replaced' = replaced
          /\ text'[b] = cache.entries[cmd[b]].text
      BY <2>1 DEF RecheckHit, Recheck, Go, TypeOK
    <3>2. WitnessesSeen(b) /\ EntryIsTheOneHashed(b) /\ todo[b] = {}
      BY <3>1 DEF HashingAgrees
    <3>3. PICK f \in since[b] : \A p \in Reads[cmd[b]] : stored[b][p] = f[p]
      BY <3>1, <3>2 DEF WitnessesSeen
    <3>4. Says(text'[b], cmd[b], f)
      BY <3>1, <3>2, <3>3 DEF EntryIsTheOneHashed, Says
    <3> QED
      BY <3>1, <3>4
  <2>2. CASE ~RecheckHit(b)
    <3>1. pc'[b] = "done"
      BY FlagsStep
    <3>2. pc[b] # "done"
      BY <1>4, <2>2, <3>1
      DEF Step, Lookup, LookupRefused, LookupMiss, LookupExpired, LookupHave, Ask, Go,
          Unlocked, HashWitness, DigestBefore, RunRead, RunSucceeds, RunFails, DigestAfter,
          StoreRefused, Return, Locking, RecheckGone, RecheckStale, Recheck, StoreKept, TypeOK
    <3>3. hit' = hit
      BY <1>4, <2>2, <3>1
      DEF Step, Lookup, LookupRefused, LookupMiss, LookupExpired, LookupHave, Ask, Go,
          Unlocked, HashWitness, DigestBefore, RunRead, RunSucceeds, RunFails, DigestAfter,
          StoreRefused, Return, Locking, RecheckGone, RecheckStale, Recheck, StoreKept,
          TypeOK, history
    <3> QED
      BY <3>2, <3>3
  <2> QED
    BY <2>1, <2>2
<1> QED
  BY <1>1, <1>2, <1>3, <1>4 DEF Next

\* The moments of every lookup, run and store are in order: a first digest precedes the
\* command, which precedes the second digest (echo.go 264-432). The inductive invariant.
THEOREM EchoInvariant == Spec => []EchoInv
<1>1. EchoInv /\ [Next]_vars => EchoInv'
  <2> SUFFICES ASSUME EchoInv, [Next]_vars PROVE EchoInv'
    OBVIOUS
  <2>1. TypeOK'
    BY StepTyped DEF EchoInv
  <2>2. DiskMovesForward' /\ EntryIsSnapshot' /\ HitIsCurrent'
    BY DiskStep, SnapshotStep, HitStep
  <2>3. ASSUME NEW b \in Agents
        PROVE  HashingAgrees(b)' /\ DigestsPrecede(b)' /\ RunIsBracketed(b)'
    BY HashingStep, DigestStep, RunStep
  <2>4. ASSUME NEW b \in Agents
        PROVE  (changed'[b] => pc'[b] = "recheck") /\ (hit'[b] => pc'[b] = "done")
    BY FlagsStep
  <2> QED
    BY <2>1, <2>2, <2>3, <2>4 DEF EchoInv
<1> QED
  BY <1>1, InitInv, PTL DEF Spec

-----------------------------------------------------------------------------
(***************************************************************************)
(* Theorems                                                                *)
(***************************************************************************)

\* Every text in the cache is what its files said, all at once, and its witnesses
\* are of that same moment (store, echo.go 364-406), whatever the agents, the files
\* and the order of their steps.
THEOREM EntriesAreSnapshots == Spec => []EntryIsSnapshot
<1>1. EchoInv => EntryIsSnapshot
  BY DEF EchoInv
<1> QED
  BY <1>1, EchoInvariant, PTL

\* A hit nobody overtook with a store serves what its files held, all at once, at a
\* moment of the call (lookup, echo.go 292-325).
THEOREM HitsAreCurrent == Spec => []HitIsCurrent
<1>1. EchoInv => HitIsCurrent
  BY DEF EchoInv
<1> QED
  BY <1>1, EchoInvariant, PTL

\* A stale drop nobody overtook with a store drops a text the disk contradicts
\* (lookup, echo.go 316-320).
THEOREM StaleDropsAreEarned == Spec => StaleDropIsEarned
<1> DEFINE Earned == \A a \in Agents : RecheckStale(a) /\ ~replaced[a] =>
                       ~Says(cache.entries[cmd[a]].text, cmd[a], file)
<1>1. EchoInv => Earned
  <2> SUFFICES ASSUME EchoInv, NEW a \in Agents, RecheckStale(a), ~replaced[a]
               PROVE  ~Says(cache.entries[cmd[a]].text, cmd[a], file)
    OBVIOUS
  <2>1. pc[a] = "recheck" /\ changed[a] /\ Has(cache, cmd[a])
    BY DEF RecheckStale, Recheck, Go
  <2>2. ChangeIsReal(a) /\ EntryIsTheOneHashed(a)
    BY <2>1 DEF EchoInv, HashingAgrees
  <2>3. PICK p \in Reads[cmd[a]] : <<stored[a][p], file[p]>> \in Rewrites
    BY <2>1, <2>2 DEF ChangeIsReal
  <2>4. cmd[a] \in Commands /\ Reads[cmd[a]] \subseteq Paths
    BY EchoAssumption DEF EchoInv, TypeOK
  <2>5. stored[a][p] # file[p]
    BY <2>3, <2>4, ForwardOnly DEF EchoInv, TypeOK, Texts
  <2>6. cache.entries[cmd[a]].text[p] = stored[a][p]
    BY <2>1, <2>2, <2>3 DEF EntryIsTheOneHashed, Says
  <2> QED
    BY <2>5, <2>6 DEF Says
<1>2. Earned => [Earned]_vars
  OBVIOUS
<1> QED
  BY <1>1, <1>2, EchoInvariant, PTL DEF StaleDropIsEarned
=============================================================================
