----------------------------- MODULE TurnProofs -----------------------------
(***************************************************************************)
(* What a conversation guarantees for any replies, limits and budgets.     *)
(***************************************************************************)
EXTENDS Turn, TLAPS, WellFoundedInduction, FiniteSetTheorems

\* Induction on the naturals, over a set: the library states it over an operator.
LEMMA ByInduction ==
  ASSUME NEW S, 0 \in S, \A n \in Nat : n \in S => n + 1 \in S
  PROVE  Nat \subseteq S
<1> SUFFICES ASSUME Nat \ S # {} PROVE FALSE
  OBVIOUS
<1> DEFINE R == OpToRel(<, Nat)
<1>1. IsWellFoundedOn(R, Nat)
  BY NatLessThanWellFounded
<1>2. \A x, y \in Nat : x < y => <<x, y>> \in R
  BY DEF OpToRel
<1> HIDE DEF R
<1>3. PICK x \in Nat \ S : \A y \in Nat \ S : ~ (<<y, x>> \in R)
  BY <1>1, WFMin
<1>4. x # 0 /\ x - 1 \in Nat /\ x - 1 < x /\ (x - 1) + 1 = x
  OBVIOUS
<1>5. <<x - 1, x>> \in R
  BY <1>2, <1>4, Zenon
<1>6. x - 1 \in S
  BY <1>3, <1>4, <1>5, Zenon
<1> QED
  BY <1>3, <1>4, <1>6

\* A set of naturals has a least element, and a bounded one a greatest.
LEMMA GreatestExists ==
  ASSUME NEW m \in Nat, NEW F \in SUBSET (0 .. m), F # {}
  PROVE  \E n \in F : \A x \in F : x <= n
<1> SUFFICES ASSUME \A n \in F : \E x \in F : ~(x <= n) PROVE FALSE
  OBVIOUS
<1> DEFINE I == {j \in Nat : \A x \in F : x + j <= m}
<1>1. 0 \in I
  OBVIOUS
<1>2. ASSUME NEW j \in Nat, j \in I PROVE j + 1 \in I
  <2>1. ASSUME NEW x \in F PROVE x + j < m
    <3>1. PICK y \in F : ~(y <= x)
      OBVIOUS
    <3>2. y + j <= m
      BY <1>2
    <3> QED
      BY <3>1, <3>2
  <2> QED
    BY <2>1
<1> HIDE DEF I
<1>3. m + 1 \in I
  BY <1>1, <1>2, ByInduction
<1>4. PICK x \in F : x + (m + 1) <= m
  BY <1>3 DEF I
<1> QED
  BY <1>4

\* f starts with a and goes on as G says.
Recurs(f, a, G) == f[0] = a /\ \A n \in Nat : f[n + 1] = G[<<n, f[n]>>]

\* A function defined by recursion on the naturals is there.
LEMMA RecursionExists ==
  ASSUME NEW R, NEW a, NEW G, a \in R, \A n \in Nat, x \in R : G[<<n, x>>] \in R
  PROVE  \E f : f \in [Nat -> R] /\ Recurs(f, a, G)
<1> DEFINE Upto(n, f) == /\ f \in [0 .. n -> R] /\ f[0] = a
                         /\ \A m \in 0 .. n - 1 : f[m + 1] = G[<<m, f[m]>>]
           I == {n \in Nat : \E f : Upto(n, f)}
           Same == {n \in Nat : \A f, g : \A k, l \in Nat :
                      Upto(k, f) /\ Upto(l, g) /\ n <= k /\ n <= l => f[n] = g[n]}
<1>1. 0 \in I
  <2>1. Upto(0, [m \in 0 .. 0 |-> a])
    OBVIOUS
  <2> QED
    BY <2>1
<1>2. ASSUME NEW n \in Nat, n \in I PROVE n + 1 \in I
  <2>1. PICK f : Upto(n, f)
    BY <1>2
  <2> DEFINE g == [m \in 0 .. n + 1 |-> IF m = n + 1 THEN G[<<n, f[n]>>] ELSE f[m]]
  <2>2. n \in Nat /\ f[n] \in R /\ G[<<n, f[n]>>] \in R
    BY <1>2, <2>1
  <2>3. g \in [0 .. n + 1 -> R] /\ g[0] = a
    BY <2>1, <2>2
  <2>4. ASSUME NEW m \in 0 .. n PROVE g[m + 1] = G[<<m, g[m]>>]
    <3>1. g[m] = f[m] /\ (m # n => g[m + 1] = f[m + 1]) /\ (m = n => g[m + 1] = G[<<n, f[n]>>])
      BY <2>2
    <3> HIDE DEF g
    <3>2. m # n => m \in 0 .. n - 1
      BY <2>2
    <3>3. CASE m = n
      BY <3>1, <3>3, <2>2
    <3>4. CASE m # n
      <4>1. f[m + 1] = G[<<m, f[m]>>]
        BY <2>1, <3>2, <3>4
      <4> QED
        BY <3>1, <3>4, <4>1
    <3> QED
      BY <3>3, <3>4
  <2> HIDE DEF g
  <2>5. (n + 1) - 1 = n
    BY <2>2
  <2>6. Upto(n + 1, g)
    BY <2>3, <2>4, <2>5
  <2> HIDE DEF Upto
  <2> QED
    BY <2>2, <2>6
<1>3. 0 \in Same
  OBVIOUS
<1>4. ASSUME NEW n \in Nat, n \in Same PROVE n + 1 \in Same
  <2> SUFFICES ASSUME NEW f, NEW g, NEW k \in Nat, NEW l \in Nat, Upto(k, f), Upto(l, g),
                      n + 1 <= k, n + 1 <= l
               PROVE  f[n + 1] = g[n + 1]
    BY <1>4
  <2>1. f[n] = g[n]
    <3>1. n <= k /\ n <= l
      BY <1>4
    <3> HIDE DEF Upto
    <3> QED
      BY <1>4, <3>1
  <2>2. n \in 0 .. k - 1 /\ n \in 0 .. l - 1
    BY <1>4
  <2> QED
    BY <2>1, <2>2
<1> DEFINE h == [n \in Nat |-> (CHOOSE f : Upto(n, f))[n]]
<1> HIDE DEF I, Same, Upto
<1>5. Nat \subseteq I /\ Nat \subseteq Same
  BY <1>1, <1>2, <1>3, <1>4, ByInduction
<1>6. \A n \in Nat : Upto(n, CHOOSE f : Upto(n, f))
  BY <1>5 DEF I
<1>7. \A n \in Nat : \A f : Upto(n, f) => \A m \in 0 .. n : f[m] = h[m]
  BY <1>5, <1>6 DEF Same
<1>8. ASSUME NEW n \in Nat PROVE h[n] \in R /\ h[n + 1] = G[<<n, h[n]>>]
  <2>0. n + 1 \in Nat
    BY <1>8
  <2>1. PICK f : Upto(n + 1, f)
    BY <1>6, <2>0
  <2>2. f[n] = h[n] /\ f[n + 1] = h[n + 1]
    BY <1>7, <1>8, <2>0, <2>1
  <2>3. f[n] \in R /\ f[n + 1] = G[<<n, f[n]>>]
    BY <1>8, <2>1 DEF Upto
  <2> QED
    BY <2>2, <2>3
<1>9. h[0] = a
  BY <1>6 DEF Upto
<1>10. h \in [Nat -> R]
  BY <1>8
<1> HIDE DEF h
<1> QED
  BY <1>8, <1>9, <1>10 DEF Recurs

LEMMA LeastExists ==
  ASSUME NEW F \in SUBSET Nat, F # {}
  PROVE  Min(F) \in F /\ \A x \in F : Min(F) <= x
<1> SUFFICES \E n \in F : \A x \in F : n <= x
  BY DEF Min
<1> SUFFICES ASSUME \A n \in F : \E x \in F : ~(n <= x) PROVE FALSE
  OBVIOUS
<1> DEFINE I == {j \in Nat : \A x \in F : j <= x}
<1>1. 0 \in I
  OBVIOUS
<1>2. ASSUME NEW j \in Nat, j \in I PROVE j + 1 \in I
  <2>1. \A x \in F : j <= x /\ x # j
    BY <1>2
  <2> QED
    BY <2>1
<1> HIDE DEF I
<1>3. PICK x \in F : x \in Nat
  OBVIOUS
<1>4. x + 1 \in I
  BY <1>1, <1>2, ByInduction
<1> QED
  BY <1>3, <1>4 DEF I

\* The greatest, as the community modules choose it.
LEMMA GreatestChosen ==
  ASSUME NEW m \in Nat, NEW F \in SUBSET (0 .. m), F # {}
  PROVE  Max(F) \in F /\ \A x \in F : x <= Max(F)
<1>1. PICK n \in F : \A x \in F : x <= n
  BY GreatestExists
<1>2. \E y \in F : \A x \in F : y >= x
  BY <1>1
<1>3. Max(F) \in F /\ \A x \in F : Max(F) >= x
  BY <1>2 DEF Max
<1> QED
  BY <1>3

-----------------------------------------------------------------------------
(***************************************************************************)
(* The names of tool calls                                                 *)
(***************************************************************************)

SeenSets == {T \in SUBSET Id : IsFiniteSet(T)}

\* No name of last resort has a number the count of names has not reached.
Numbered(seen) == \A k \in Nat : <<"call_dup", <<k>>>> \in seen => k <= Cardinality(seen)

\* The names seen are finitely many.
LEMMA CountIsNatural ==
  ASSUME NEW seen \in SeenSets
  PROVE  Cardinality(seen) \in Nat
BY FS_CardinalityType DEF SeenSets

LEMMA LastResortIsId ==
  ASSUME NEW n \in Nat
  PROVE  <<"call_dup", <<n>>>> \in Id /\ <<"call", <<n>>>> \in Id
<1>1. <<n>> \in Seq(Nat)
  OBVIOUS
<1> QED
  BY <1>1, TurnAssumption DEF Id

\* An id with a suffix is an id, and two suffixes make two.
LEMMA SuffixIsId ==
  ASSUME NEW id \in Id, NEW m \in Nat, NEW n \in Nat
  PROVE  /\ <<id[1], Append(id[2], n)>> \in Id
         /\ Append(id[2], m) = Append(id[2], n) => m = n
<1>1. id[1] \in Stems /\ id[2] \in Seq(Nat)
  BY DEF Id
<1>2. Append(id[2], m) \in Seq(Nat) /\ Append(id[2], n) \in Seq(Nat)
  BY <1>1
<1>3. Len(id[2]) \in Nat /\ Append(id[2], m)[Len(id[2]) + 1] = m
      /\ Append(id[2], n)[Len(id[2]) + 1] = n
  BY <1>1
<1> QED
  BY <1>1, <1>2, <1>3 DEF Id

\* Among as many suffixes as there are names and one more, one is free.
LEMMA SuffixIsFree ==
  ASSUME NEW seen \in SeenSets, NEW id \in Id, id \notin LongIds
  PROVE  Free(id, seen) # {}
<1> SUFFICES ASSUME Free(id, seen) = {} PROVE FALSE
  OBVIOUS
<1> DEFINE D == 2 .. Cardinality(seen) + 2
           f == [n \in D |-> <<id[1], Append(id[2], n)>>]
<1>1. Cardinality(seen) \in Nat /\ IsFiniteSet(seen)
  BY CountIsNatural DEF SeenSets
<1>2. IsFiniteSet(D) /\ Cardinality(seen) < Cardinality(D)
  BY <1>1, FS_Interval
<1>3. f \in [D -> seen]
  BY DEF Free, Candidate
<1>4. \A m, n \in D : f[m] = f[n] => Append(id[2], m) = Append(id[2], n)
  OBVIOUS
<1>5. \A m \in D : m \in Nat
  BY <1>1
<1> HIDE DEF D, f
<1>6. PICK m \in D, n \in D : m # n /\ f[m] = f[n]
  BY <1>1, <1>2, <1>3, FS_PigeonHole
<1> QED
  BY <1>4, <1>5, <1>6, SuffixIsId

\* Whatever is asked for, a name is made.
LEMMA CandidateIsId ==
  ASSUME NEW seen \in SeenSets, NEW id \in Id, NEW n \in Nat
  PROVE  Candidate(id, n, seen) \in Id
<1>1. Cardinality(seen) + 1 \in Nat
  BY CountIsNatural
<1> QED
  BY <1>1, LastResortIsId, SuffixIsId DEF Candidate

LEMMA GivenIsId ==
  ASSUME NEW seen \in SeenSets, NEW raw \in Id
  PROVE  (IF raw = NoId THEN <<"call", <<Cardinality(seen) + 1>>>> ELSE raw) \in Id
<1>1. Cardinality(seen) + 1 \in Nat
  BY CountIsNatural
<1> QED
  BY <1>1, LastResortIsId

\* The loop takes the first candidate that is free.
LEMMA FirstFree ==
  ASSUME NEW seen \in SeenSets, NEW id \in Id, Free(id, seen) # {}
  PROVE  /\ Min(Free(id, seen)) \in Nat
         /\ Candidate(id, Min(Free(id, seen)), seen) \in Id \ seen
<1>1. Free(id, seen) \subseteq Nat
  BY CountIsNatural DEF Free
<1>2. Min(Free(id, seen)) \in Free(id, seen)
  BY <1>1, LeastExists
<1>3. Min(Free(id, seen)) \in Nat
  BY <1>1, <1>2
<1> QED
  BY <1>2, <1>3, CandidateIsId DEF Free

LEMMA NamedIsId ==
  ASSUME NEW seen \in SeenSets, NEW raw \in Id
  PROVE  Named(raw, seen) \in Id
<1> DEFINE id == IF raw = NoId THEN <<"call", <<Cardinality(seen) + 1>>>> ELSE raw
<1>1. id \in Id
  BY GivenIsId
<1> HIDE DEF id
<1>2. Cardinality(seen) + 1 \in Nat
  BY CountIsNatural
<1>3. CASE id \in LongIds
  BY <1>1, <1>2, <1>3, LastResortIsId DEF Named, Candidate, id
<1>4. CASE id \notin LongIds
  <2>1. Candidate(id, Min(Free(id, seen)), seen) \in Id
    BY <1>1, <1>4, SuffixIsFree, FirstFree
  <2> QED
    BY <1>1, <2>1 DEF Named, id
<1> QED
  BY <1>3, <1>4

\* Where every name of last resort is numbered, the next one is free.
LEMMA NameIsFree ==
  ASSUME NEW seen \in SeenSets, Numbered(seen), NEW id \in Id
  PROVE  Free(id, seen) # {}
<1>1. CASE id \in LongIds
  <2>1. Cardinality(seen) \in Nat
    BY CountIsNatural
  <2>2. <<"call_dup", <<Cardinality(seen) + 1>>>> \notin seen
    BY <2>1 DEF Numbered
  <2>3. 2 \in 2 .. Cardinality(seen) + 2 /\ Candidate(id, 2, seen) \notin seen
    BY <1>1, <2>1, <2>2 DEF Candidate
  <2> QED
    BY <2>3 DEF Free
<1> QED
  BY <1>1, SuffixIsFree

\* What uniqueIDs makes of one id is not a name of last resort, but the next of them.
LEMMA NamedIsFresh ==
  ASSUME NEW seen \in SeenSets, Numbered(seen), NEW raw \in Id, raw[1] # "call_dup"
  PROVE  /\ Named(raw, seen) \in Id \ seen
         /\ seen \cup {Named(raw, seen)} \in SeenSets
         /\ Cardinality(seen \cup {Named(raw, seen)}) = Cardinality(seen) + 1
         /\ Numbered(seen \cup {Named(raw, seen)})
<1> DEFINE id == IF raw = NoId THEN <<"call", <<Cardinality(seen) + 1>>>> ELSE raw
           new == Named(raw, seen)
<1>1. id \in Id /\ id[1] # "call_dup" /\ Cardinality(seen) \in Nat
  BY GivenIsId, CountIsNatural
<1> HIDE DEF id
<1>2. Candidate(id, Min(Free(id, seen)), seen) \in Id \ seen
  BY <1>1, NameIsFree, FirstFree
<1>3. new \in Id \ seen
  BY <1>1, <1>2 DEF Named, id
<1>4. \A k \in Nat : new = <<"call_dup", <<k>>>> => k = Cardinality(seen) + 1
  <2> SUFFICES ASSUME NEW k \in Nat, new = <<"call_dup", <<k>>>> PROVE k = Cardinality(seen) + 1
    OBVIOUS
  <2>1. new[1] = "call_dup" /\ new[2] = <<k>>
    OBVIOUS
  <2>2. new = id \/ new = Candidate(id, Min(Free(id, seen)), seen)
    BY DEF Named, id
  <2> HIDE DEF new
  <2>3. new = <<"call_dup", <<Cardinality(seen) + 1>>>>
    BY <1>1, <2>1, <2>2 DEF Candidate
  <2>4. <<k>> = <<Cardinality(seen) + 1>>
    BY <2>1, <2>3
  <2> QED
    BY <2>4
<1> HIDE DEF new
<1>5. IsFiniteSet(seen \cup {new}) /\ Cardinality(seen \cup {new}) = Cardinality(seen) + 1
  BY <1>3, FS_AddElement DEF SeenSets
<1>6. seen \cup {new} \in SeenSets
  BY <1>3, <1>5 DEF SeenSets
<1>7. Numbered(seen \cup {new})
  BY <1>1, <1>4, <1>5 DEF Numbered
<1> QED
  BY <1>3, <1>5, <1>6, <1>7 DEF new

\* after[i] is what has been seen after the first i calls.
Accumulates(after, calls, seen) ==
  after = [i \in 0 .. Len(calls) |->
             IF i = 0 THEN seen ELSE after[i - 1] \cup {Named(calls[i], after[i - 1])}]

LEMMA SeenWithName ==
  ASSUME NEW seen \in SeenSets, NEW raw \in Id
  PROVE  seen \cup {Named(raw, seen)} \in SeenSets
<1>1. Named(raw, seen) \in Id
  BY NamedIsId
<1>2. IsFiniteSet(seen \cup {Named(raw, seen)})
  BY FS_AddElement DEF SeenSets
<1> QED
  BY <1>1, <1>2 DEF SeenSets

\* So is what uniqueIDs has seen after each call of a reply.
LEMMA AccumulationExists ==
  ASSUME NEW calls \in Seq(Id), NEW seen \in SeenSets
  PROVE  \E after : Accumulates(after, calls, seen)
<1> DEFINE G == [p \in Nat \X SeenSets |->
                   IF p[1] < Len(calls) THEN p[2] \cup {Named(calls[p[1] + 1], p[2])} ELSE p[2]]
<1>1. ASSUME NEW n \in Nat, NEW T \in SeenSets PROVE G[<<n, T>>] \in SeenSets
  <2>1. CASE n < Len(calls)
    <3>1. calls[n + 1] \in Id
      BY <1>1, <2>1
    <3> QED
      BY <1>1, <2>1, <3>1, SeenWithName
  <2> QED
    BY <1>1, <2>1
<1>2. \A n \in Nat, T \in SeenSets :
        n < Len(calls) => G[<<n, T>>] = T \cup {Named(calls[n + 1], T)}
  OBVIOUS
<1> HIDE DEF G
<1>3. PICK f : f \in [Nat -> SeenSets] /\ Recurs(f, seen, G)
  BY <1>1, RecursionExists
<1> DEFINE after == [i \in 0 .. Len(calls) |-> f[i]]
<1>4. ASSUME NEW i \in 0 .. Len(calls)
      PROVE  after[i] = IF i = 0 THEN seen ELSE after[i - 1] \cup {Named(calls[i], after[i - 1])}
  <2>1. CASE i = 0
    BY <1>3, <2>1 DEF Recurs
  <2>2. CASE i # 0
    <3>1. i - 1 \in Nat /\ i - 1 < Len(calls) /\ (i - 1) + 1 = i /\ i - 1 \in 0 .. Len(calls)
      BY <1>4, <2>2
    <3>2. f[i] = f[i - 1] \cup {Named(calls[i], f[i - 1])}
      <4>1. f[i - 1] \in SeenSets
        BY <1>3, <3>1
      <4>2. f[i] = G[<<i - 1, f[i - 1]>>]
        BY <1>3, <3>1 DEF Recurs
      <4> QED
        BY <1>2, <3>1, <4>1, <4>2
    <3> QED
      BY <1>4, <2>2, <3>1, <3>2
  <2> QED
    BY <2>1, <2>2
<1>5. Accumulates(after, calls, seen)
  <2>1. after = [i \in 0 .. Len(calls) |-> after[i]]
    OBVIOUS
  <2> HIDE DEF after
  <2> QED
    BY <1>4, <2>1 DEF Accumulates
<1> QED
  BY <1>5

\* uniqueIDs, by what it has seen after each call (toolcall.go 446-481).
LEMMA UniqueUnfolds ==
  ASSUME NEW calls \in Seq(Id), NEW seen \in SeenSets
  PROVE  \E after : /\ Accumulates(after, calls, seen)
                    /\ UniqueIDs(calls, seen) =
                         [ids  |-> [i \in 1 .. Len(calls) |-> Named(calls[i], after[i - 1])],
                          seen |-> after[Len(calls)]]
<1> DEFINE after == CHOOSE after : Accumulates(after, calls, seen)
<1>1. Accumulates(after, calls, seen)
  BY AccumulationExists
<1>2. UniqueIDs(calls, seen) =
        [ids  |-> [i \in 1 .. Len(calls) |-> Named(calls[i], after[i - 1])],
         seen |-> after[Len(calls)]]
  BY DEF UniqueIDs, Accumulates
<1> QED
  BY <1>1, <1>2

LEMMA StepByStep ==
  ASSUME NEW calls \in Seq(Id), NEW seen \in SeenSets, NEW after, Accumulates(after, calls, seen)
  PROVE  /\ after[0] = seen
         /\ \A n \in Nat : n < Len(calls) =>
              calls[n + 1] \in Id /\ after[n + 1] = after[n] \cup {Named(calls[n + 1], after[n])}
         /\ \A n \in 0 .. Len(calls) : after[n] \in SeenSets
<1> DEFINE I == {n \in Nat : n <= Len(calls) => after[n] \in SeenSets}
<1>1. Len(calls) \in Nat
  OBVIOUS
<1>2. \A i \in 0 .. Len(calls) :
        after[i] = IF i = 0 THEN seen ELSE after[i - 1] \cup {Named(calls[i], after[i - 1])}
  BY DEF Accumulates
<1>3. ASSUME NEW n \in Nat, n < Len(calls)
      PROVE  calls[n + 1] \in Id /\ after[n + 1] = after[n] \cup {Named(calls[n + 1], after[n])}
  <2>1. n + 1 \in 0 .. Len(calls) /\ n + 1 # 0 /\ (n + 1) - 1 = n
    BY <1>1, <1>3
  <2>2. calls[n + 1] \in Id
    BY <1>3
  <2> QED
    BY <1>2, <2>1, <2>2
<1>4. after[0] = seen
  <2>1. 0 \in 0 .. Len(calls)
    BY <1>1
  <2> QED
    BY <1>2, <2>1
<1>5. 0 \in I
  BY <1>4
<1>6. ASSUME NEW n \in Nat, n \in I PROVE n + 1 \in I
  <2> SUFFICES ASSUME n + 1 <= Len(calls) PROVE after[n + 1] \in SeenSets
    BY <1>6
  <2>1. n < Len(calls) /\ after[n] \in SeenSets
    BY <1>1, <1>6
  <2>2. calls[n + 1] \in Id /\ after[n + 1] = after[n] \cup {Named(calls[n + 1], after[n])}
    BY <1>3, <1>6, <2>1
  <2> QED
    BY <2>1, <2>2, SeenWithName
<1> HIDE DEF I
<1>7. Nat \subseteq I
  BY <1>5, <1>6, ByInduction
<1>8. \A n \in 0 .. Len(calls) : after[n] \in SeenSets
  BY <1>1, <1>7 DEF I
<1> QED
  BY <1>3, <1>4, <1>8

\* What a reply's ids become.
LEMMA UniqueIsTyped ==
  ASSUME NEW calls \in Seq(Id), NEW seen \in SeenSets, NEW u, u = UniqueIDs(calls, seen)
  PROVE  u.ids \in Seq(Id) /\ Len(u.ids) = Len(calls) /\ u.seen \in SeenSets
<1>1. PICK after : /\ Accumulates(after, calls, seen)
                   /\ u = [ids  |-> [i \in 1 .. Len(calls) |-> Named(calls[i], after[i - 1])],
                           seen |-> after[Len(calls)]]
  BY UniqueUnfolds
<1>2. Len(calls) \in Nat /\ \A n \in 0 .. Len(calls) : after[n] \in SeenSets
  BY <1>1, StepByStep
<1>3. ASSUME NEW i \in 1 .. Len(calls) PROVE Named(calls[i], after[i - 1]) \in Id
  <2>1. i - 1 \in 0 .. Len(calls) /\ calls[i] \in Id
    BY <1>2, <1>3
  <2> QED
    BY <1>2, <2>1, NamedIsId
<1> QED
  BY <1>1, <1>2, <1>3

\* Where every name of last resort is numbered and none is sent, no two calls get one id,
\* nor any an id that was seen; and it stays so.
LEMMA UniqueIsFresh ==
  ASSUME NEW calls \in Seq(Id), \A i \in 1 .. Len(calls) : calls[i][1] # "call_dup",
         NEW seen \in SeenSets, Numbered(seen), NEW u, u = UniqueIDs(calls, seen)
  PROVE  /\ Numbered(u.seen) /\ seen \subseteq u.seen
         /\ \A i \in 1 .. Len(calls) : u.ids[i] \in u.seen \ seen
         /\ \A i, j \in 1 .. Len(calls) : u.ids[i] = u.ids[j] => i = j
<1>1. PICK after : /\ Accumulates(after, calls, seen)
                   /\ u = [ids  |-> [i \in 1 .. Len(calls) |-> Named(calls[i], after[i - 1])],
                           seen |-> after[Len(calls)]]
  BY UniqueUnfolds
<1>2. /\ Len(calls) \in Nat /\ after[0] = seen
      /\ \A n \in Nat : n < Len(calls) =>
           calls[n + 1] \in Id /\ after[n + 1] = after[n] \cup {Named(calls[n + 1], after[n])}
      /\ \A n \in 0 .. Len(calls) : after[n] \in SeenSets
  BY <1>1, StepByStep
<1> DEFINE N(n) == Numbered(after[n])
           I == {n \in Nat : n <= Len(calls) =>
                   N(n) /\ \A m \in Nat : m <= n => after[m] \subseteq after[n]}
<1>3. 0 \in I
  BY <1>2
<1>4. ASSUME NEW n \in Nat, n < Len(calls), N(n)
      PROVE  /\ N(n + 1) /\ after[n] \subseteq after[n + 1]
             /\ Named(calls[n + 1], after[n]) \in after[n + 1] \ after[n]
  <2>1. n \in 0 .. Len(calls) /\ n + 1 \in 1 .. Len(calls)
    BY <1>2, <1>4
  <2>2. after[n] \in SeenSets /\ calls[n + 1] \in Id /\ calls[n + 1][1] # "call_dup"
    BY <1>2, <1>4, <2>1
  <2>3. after[n + 1] = after[n] \cup {Named(calls[n + 1], after[n])}
    BY <1>2, <1>4
  <2>4. Named(calls[n + 1], after[n]) \notin after[n]
        /\ Numbered(after[n] \cup {Named(calls[n + 1], after[n])})
    BY <1>4, <2>2, NamedIsFresh
  <2> QED
    BY <2>3, <2>4
<1>5. ASSUME NEW n \in Nat, n \in I PROVE n + 1 \in I
  <2> SUFFICES ASSUME n + 1 <= Len(calls)
               PROVE  N(n + 1) /\ \A m \in Nat : m <= n + 1 => after[m] \subseteq after[n + 1]
    BY <1>5
  <2>1. n < Len(calls) /\ N(n) /\ \A m \in Nat : m <= n => after[m] \subseteq after[n]
    BY <1>2, <1>5
  <2>2. N(n + 1) /\ after[n] \subseteq after[n + 1]
    BY <1>4, <1>5, <2>1
  <2>3. \A m \in Nat : m <= n + 1 => m <= n \/ m = n + 1
    BY <1>5
  <2> HIDE DEF N
  <2> QED
    BY <2>1, <2>2, <2>3
<1> HIDE DEF I
<1>6. Nat \subseteq I
  BY <1>3, <1>5, ByInduction
<1>7. \A n \in Nat : n <= Len(calls) => N(n) /\ \A m \in Nat : m <= n => after[m] \subseteq after[n]
  BY <1>6 DEF I
<1> HIDE DEF N
<1>8. ASSUME NEW i \in 1 .. Len(calls)
      PROVE  /\ i - 1 \in Nat /\ u.ids[i] \in after[i] \ after[i - 1]
             /\ after[i] \subseteq u.seen /\ seen \subseteq after[i - 1]
  <2>1. i \in Nat /\ i - 1 \in Nat /\ i - 1 < Len(calls) /\ (i - 1) + 1 = i /\ i <= Len(calls)
        /\ 0 <= i - 1
    BY <1>2, <1>8
  <2>2. u.ids[i] = Named(calls[i], after[i - 1]) /\ u.seen = after[Len(calls)]
    BY <1>1, <1>8
  <2>3. N(i - 1)
    BY <1>2, <1>7, <2>1
  <2>4. Named(calls[i], after[i - 1]) \in after[i] \ after[i - 1]
    BY <1>4, <2>1, <2>3
  <2>5. after[i] \subseteq after[Len(calls)] /\ after[0] \subseteq after[i - 1]
    BY <1>2, <1>7, <2>1
  <2> QED
    BY <1>2, <2>1, <2>2, <2>4, <2>5
<1>9. ASSUME NEW i \in 1 .. Len(calls), NEW j \in 1 .. Len(calls), i < j
      PROVE  u.ids[i] # u.ids[j]
  <2>1. i \in Nat /\ j - 1 \in Nat /\ j - 1 <= Len(calls) /\ i <= j - 1
    BY <1>2, <1>9
  <2>2. after[i] \subseteq after[j - 1]
    BY <1>7, <2>1
  <2> QED
    BY <1>8, <1>9, <2>2
<1>10. \A i, j \in 1 .. Len(calls) : u.ids[i] = u.ids[j] => i = j
  <2>1. \A i, j \in 1 .. Len(calls) : i < j \/ j < i \/ i = j
    BY <1>2
  <2> QED
    BY <1>9, <2>1
<1>11. Numbered(u.seen) /\ seen \subseteq u.seen
  BY <1>1, <1>2, <1>7 DEF N
<1> QED
  BY <1>8, <1>10, <1>11

-----------------------------------------------------------------------------
(***************************************************************************)
(* The compactor                                                           *)
(***************************************************************************)

\* t[i] is what a request would hold of the messages from i on.
Tokens(t, ms) ==
  t = [i \in 1 .. Len(ms) + 1 |-> IF i > Len(ms) THEN Base ELSE ms[i].size + t[i + 1]]

LEMMA SizesAreNatural ==
  ASSUME NEW ms \in Seq(Messages), NEW i \in 1 .. Len(ms)
  PROVE  ms[i] \in Messages /\ ms[i].size \in Nat /\ ms[i].size > 0
<1>1. ms[i] \in Messages
  OBVIOUS
<1> QED
  BY <1>1 DEF Messages

\* The recursive sum over the messages is there: it goes from the last one backward.
LEMMA TokensExist ==
  ASSUME NEW ms \in Seq(Messages)
  PROVE  \E t : Tokens(t, ms)
<1> DEFINE L == Len(ms)
           G == [p \in Nat \X Nat |-> IF p[1] < L THEN ms[L - p[1]].size + p[2] ELSE p[2]]
<1>1. L \in Nat /\ Base \in Nat
  <2>1. Base \in Nat
    BY TurnAssumption
  <2> QED
    BY <2>1
<1>2. ASSUME NEW n \in Nat, NEW x \in Nat
      PROVE  /\ G[<<n, x>>] \in Nat
             /\ n < L => G[<<n, x>>] = ms[L - n].size + x
  <2>1. CASE n < L
    <3>1. L - n \in 1 .. Len(ms)
      BY <1>1, <1>2, <2>1
    <3>2. ms[L - n].size \in Nat
      BY <3>1, SizesAreNatural
    <3> HIDE DEF L
    <3> QED
      BY <1>2, <2>1, <3>2
  <2> HIDE DEF L
  <2> QED
    BY <1>2, <2>1
<1> HIDE DEF G
<1>3. PICK f : f \in [Nat -> Nat] /\ Recurs(f, Base, G)
  BY <1>1, <1>2, RecursionExists
<1> DEFINE t == [i \in 1 .. L + 1 |-> f[L + 1 - i]]
<1>4. ASSUME NEW i \in 1 .. L + 1
      PROVE  t[i] = IF i > L THEN Base ELSE ms[i].size + t[i + 1]
  <2>1. CASE i > L
    <3>1. L + 1 - i = 0
      BY <1>1, <1>4, <2>1
    <3> HIDE DEF L
    <3> QED
      BY <1>3, <1>4, <2>1, <3>1 DEF Recurs
  <2>2. CASE ~(i > L)
    <3>1. /\ L - i \in Nat /\ L - i < L /\ (L - i) + 1 = L + 1 - i /\ L - (L - i) = i
          /\ i + 1 \in 1 .. L + 1 /\ L + 1 - (i + 1) = L - i
      BY <1>1, <1>4, <2>2
    <3> HIDE DEF L
    <3>2. f[(L - i) + 1] = G[<<L - i, f[L - i]>>] /\ f[L - i] \in Nat
      BY <1>3, <3>1 DEF Recurs
    <3>3. f[L + 1 - i] = ms[i].size + f[L - i]
      BY <1>2, <3>1, <3>2
    <3> QED
      BY <1>4, <2>2, <3>1, <3>3
  <2> QED
    BY <2>1, <2>2
<1>5. t = [i \in 1 .. L + 1 |-> t[i]]
  OBVIOUS
<1> HIDE DEF t
<1> QED
  BY <1>4, <1>5 DEF Tokens

\* A later message starts a smaller request.
LEMMA TokensFall ==
  ASSUME NEW ms \in Seq(Messages), NEW t, t = TokensFrom(ms)
  PROVE  /\ \A i \in 1 .. Len(ms) + 1 : t[i] \in Nat
         /\ \A i \in 1 .. Len(ms) : t[i] > 0
         /\ \A i, j \in 1 .. Len(ms) + 1 : i <= j => t[j] <= t[i]
<1> DEFINE L == Len(ms)
<1>1. L \in Nat /\ Base \in Nat
  <2>1. Base \in Nat
    BY TurnAssumption
  <2> QED
    BY <2>1
<1>2. Tokens(t, ms)
  <2>1. t = CHOOSE x : Tokens(x, ms)
    BY DEF TokensFrom, Tokens
  <2> QED
    BY <2>1, TokensExist
<1>3. t[L + 1] = Base /\ \A i \in 1 .. L : t[i] = ms[i].size + t[i + 1]
  <2>1. \A i \in 1 .. L + 1 : t[i] = IF i > L THEN Base ELSE ms[i].size + t[i + 1]
    BY <1>2 DEF Tokens
  <2>2. L + 1 \in 1 .. L + 1 /\ L + 1 > L /\ \A i \in 1 .. L : i \in 1 .. L + 1 /\ ~(i > L)
    BY <1>1
  <2> HIDE DEF L
  <2> QED
    BY <2>1, <2>2
<1>4. \A i \in 1 .. L : ms[i].size \in Nat /\ ms[i].size > 0
  BY SizesAreNatural
<1> HIDE DEF L
<1> DEFINE I == {n \in Nat : n <= L => /\ t[L + 1 - n] \in Nat
                                       /\ n > 0 => t[L + 1 - n] > 0
                                       /\ \A j \in L + 1 - n .. L + 1 : t[j] \in Nat /\ t[j] <= t[L + 1 - n]}
<1>5. 0 \in I
  BY <1>1, <1>3
<1>6. ASSUME NEW n \in Nat, n \in I PROVE n + 1 \in I
  <2> SUFFICES ASSUME n + 1 <= L
               PROVE  /\ t[L + 1 - (n + 1)] \in Nat /\ t[L + 1 - (n + 1)] > 0
                      /\ \A j \in L + 1 - (n + 1) .. L + 1 : t[j] \in Nat /\ t[j] <= t[L + 1 - (n + 1)]
    BY <1>6
  <2>1. PICK i \in 1 .. L : i = L - n
    BY <1>1, <1>6
  <2>2. L + 1 - (n + 1) = i /\ L + 1 - n = i + 1 /\ n <= L
    BY <1>1, <1>6, <2>1
  <2>3. t[i + 1] \in Nat /\ \A j \in i + 1 .. L + 1 : t[j] \in Nat /\ t[j] <= t[i + 1]
    BY <1>6, <2>2
  <2>4. t[i] = ms[i].size + t[i + 1] /\ ms[i].size \in Nat /\ ms[i].size > 0
    BY <1>3, <1>4
  <2>5. t[i] \in Nat /\ t[i] > 0 /\ t[i + 1] <= t[i]
    BY <2>3, <2>4
  <2>6. \A j \in i .. L + 1 : t[j] \in Nat /\ t[j] <= t[i]
    <3> SUFFICES ASSUME NEW j \in i .. L + 1 PROVE t[j] \in Nat /\ t[j] <= t[i]
      OBVIOUS
    <3>1. CASE j = i
      BY <2>5, <3>1
    <3>2. CASE j # i
      <4>1. j \in i + 1 .. L + 1 /\ \A k \in i + 1 .. L + 1 : k = L + 1 \/ k \in 1 .. L
        BY <1>1, <2>1, <3>2
      <4>2. t[j] \in Nat /\ t[j] <= t[i + 1]
        BY <2>3, <4>1
      <4> QED
        BY <2>3, <2>4, <4>2
    <3> QED
      BY <3>1, <3>2
  <2> QED
    BY <2>2, <2>5, <2>6
<1> HIDE DEF I
<1>7. Nat \subseteq I
  BY <1>5, <1>6, ByInduction
<1>8. ASSUME NEW i \in 1 .. L + 1
      PROVE  t[i] \in Nat /\ (i <= L => t[i] > 0) /\ \A j \in 1 .. L + 1 : i <= j => t[j] <= t[i]
  <2>1. PICK n \in Nat : n = L + 1 - i
    BY <1>1, <1>8
  <2>2. L + 1 - n = i /\ n <= L /\ (i <= L => n > 0)
    BY <1>1, <1>8, <2>1
  <2>3. t[i] \in Nat /\ (n > 0 => t[i] > 0) /\ \A j \in i .. L + 1 : t[j] <= t[i]
    BY <1>7, <2>2 DEF I
  <2>4. \A j \in 1 .. L + 1 : i <= j => j \in i .. L + 1
    BY <1>1, <1>8
  <2> QED
    BY <2>2, <2>3, <2>4
<1>9. \A i \in 1 .. L : i \in 1 .. L + 1 /\ i <= L
  BY <1>1
<1> QED
  BY <1>8, <1>9 DEF L

\* The walk backward stops where the messages no longer fit.
LEMMA WantIsTheEdge ==
  ASSUME NEW ms \in Seq(Messages)
  PROVE  /\ Want(ms) \in 1 .. Len(ms) + 1
         /\ \A i \in 1 .. Len(ms) : i >= Want(ms) <=> TokensFrom(ms)[i] <= Keep
<1> DEFINE t == TokensFrom(ms)
           over == {i \in 1 .. Len(ms) : t[i] > Keep}
           F == {0} \cup over
<1>1. Len(ms) \in Nat
  OBVIOUS
<1>2. Keep \in Nat
  BY TurnAssumption
<1>3. /\ \A i \in 1 .. Len(ms) + 1 : t[i] \in Nat
      /\ \A i, j \in 1 .. Len(ms) + 1 : i <= j => t[j] <= t[i]
  BY TokensFall
<1>4. Want(ms) = Max(F) + 1
  BY DEF Want
<1> HIDE DEF t
<1>5. F \in SUBSET (0 .. Len(ms)) /\ F # {}
  BY <1>1
<1>6. Max(F) \in F /\ \A i \in F : i <= Max(F)
  BY <1>1, <1>5, GreatestChosen
<1>7. Max(F) \in 0 .. Len(ms) /\ (Max(F) = 0 \/ t[Max(F)] > Keep)
  BY <1>5, <1>6
<1> DEFINE top == Max(F)
<1>8. \A i \in 1 .. Len(ms) : t[i] > Keep => i <= top
  BY <1>6
<1> HIDE DEF F, top
<1>9. Want(ms) = top + 1 /\ top \in 0 .. Len(ms) /\ (top = 0 \/ t[top] > Keep)
  BY <1>4, <1>7 DEF top
<1>10. ASSUME NEW i \in 1 .. Len(ms) PROVE i >= Want(ms) <=> t[i] <= Keep
  <2>1. t[i] \in Nat /\ i \in Nat /\ i \in 1 .. Len(ms) + 1
    BY <1>1, <1>3, <1>10
  <2>2. CASE i > top
    <3>1. ~(t[i] > Keep)
      BY <1>8, <1>9, <1>10, <2>1, <2>2
    <3> QED
      BY <1>2, <1>9, <2>1, <2>2, <3>1
  <2>3. CASE ~(i > top)
    <3>1. top # 0 /\ top \in 1 .. Len(ms) + 1 /\ i <= top
      BY <1>1, <1>9, <1>10, <2>1, <2>3
    <3>2. t[top] <= t[i] /\ t[top] \in Nat /\ t[top] > Keep
      BY <1>3, <1>9, <2>1, <3>1
    <3> QED
      BY <1>2, <1>9, <2>1, <3>1, <3>2
  <2> QED
    BY <2>2, <2>3
<1> QED
  BY <1>1, <1>9, <1>10 DEF t

\* Where a compaction may start: after the first message, before a question.
LEMMA LegalCuts ==
  ASSUME NEW ms \in Seq(Messages)
  PROVE  /\ Legal(ms, Want(ms)) \subseteq 2 .. Len(ms)
         /\ \A i \in Legal(ms, Want(ms)) : CanCutBefore(ms, i)
         /\ SafeCut(ms, Want(ms)) \in Nat
         /\ SafeCut(ms, Want(ms)) # 0 => SafeCut(ms, Want(ms)) \in Legal(ms, Want(ms))
         /\ \A i \in Legal(ms, Want(ms)) :
              SafeCut(ms, Want(ms)) # 0 /\ SafeCut(ms, Want(ms)) <= i
<1> DEFINE F == Legal(ms, Want(ms))
<1>1. Want(ms) \in Nat /\ Len(ms) \in Nat
  BY WantIsTheEdge
<1>2. F \subseteq 2 .. Len(ms) /\ \A i \in F : CanCutBefore(ms, i)
  BY <1>1 DEF Legal, CanCutBefore
<1>3. SafeCut(ms, Want(ms)) = IF F = {} THEN 0 ELSE Min(F)
  BY DEF SafeCut
<1> HIDE DEF F
<1>4. F \in SUBSET Nat
  BY <1>1, <1>2
<1>5. F # {} => Min(F) \in F /\ \A i \in F : Min(F) <= i
  BY <1>4, LeastExists
<1>6. F # {} => Min(F) \in Nat /\ Min(F) # 0
  <2> SUFFICES ASSUME F # {} PROVE Min(F) \in Nat /\ Min(F) # 0
    OBVIOUS
  <2>1. PICK m : m = Min(F)
    OBVIOUS
  <2>2. m \in 2 .. Len(ms)
    BY <1>2, <1>5, <2>1
  <2>3. m \in Nat /\ m # 0
    BY <1>1, <2>2
  <2> QED
    BY <2>1, <2>3
<1> QED
  BY <1>2, <1>3, <1>5, <1>6 DEF F

LEMMA PlanIsLegal ==
  ASSUME NEW ms \in Seq(Messages)
  PROVE  /\ Plan(ms) \in Nat
         /\ Plan(ms) > 0 => Plan(ms) \in 2 .. Len(ms) /\ CanCutBefore(ms, Plan(ms))
<1>1. Plan(ms) = 0 \/ Plan(ms) = SafeCut(ms, Want(ms))
  BY DEF Plan
<1> QED
  BY <1>1, LegalCuts

\* The plan is the first cut that fits, and leaves more than the newest message.
LEMMA PlanIsTight ==
  ASSUME NEW ms \in Seq(Messages), Len(ms) >= 4
  PROVE  LET fits == {i \in 2 .. Len(ms) - 1 : CanCutBefore(ms, i) /\ TokensFrom(ms)[i] <= Keep}
         IN  Plan(ms) = IF fits = {} THEN 0 ELSE Min(fits)
<1> DEFINE L == Len(ms)
           t == TokensFrom(ms)
           want == Want(ms)
           cut == SafeCut(ms, want)
           fits == {i \in 2 .. L - 1 : CanCutBefore(ms, i) /\ t[i] <= Keep}
<1>1. L \in Nat /\ L >= 4
  OBVIOUS
<1>2. want \in 1 .. L + 1 /\ \A i \in 1 .. L : i >= want <=> t[i] <= Keep
  BY WantIsTheEdge
<1>3. Plan(ms) = IF L < 4 \/ Keep <= 0 \/ want >= L \/ cut >= L THEN 0 ELSE cut
  BY DEF Plan
<1>4. Keep \in Nat
  BY TurnAssumption
<1>5. \A i \in 1 .. L : t[i] > 0
  BY TokensFall
<1>6. \A i \in 1 .. L + 1 : t[i] \in Nat
  BY TokensFall
<1>7. cut \in Nat /\ (cut # 0 => cut \in Legal(ms, want))
      /\ \A i \in Legal(ms, want) : i \in 2 .. L /\ CanCutBefore(ms, i) /\ cut # 0 /\ cut <= i
  BY LegalCuts
<1>8. fits \subseteq {i \in Legal(ms, want) : i < L}
  <2> SUFFICES ASSUME NEW i \in fits PROVE i \in Legal(ms, want) /\ i < L
    OBVIOUS
  <2>1. i \in 2 .. L - 1 /\ CanCutBefore(ms, i) /\ t[i] <= Keep
    OBVIOUS
  <2> HIDE DEF fits, t, want, cut
  <2>2. i \in 1 .. L /\ i < L /\ i \in Nat
    BY <1>1, <2>1
  <2>3. i >= want
    BY <1>2, <2>1, <2>2
  <2>4. i \in want .. L
    BY <1>1, <1>2, <2>2, <2>3
  <2> QED
    BY <2>1, <2>2, <2>4 DEF Legal
<1>9. ASSUME NEW i \in Legal(ms, want), i < L PROVE i \in fits
  <2> HIDE DEF t, want, cut
  <2>1. i \in want .. L /\ i \in 2 .. L /\ CanCutBefore(ms, i)
    BY <1>7, <1>9 DEF Legal
  <2>2. i \in 1 .. L /\ i >= want /\ i \in 2 .. L - 1
    BY <1>1, <1>2, <1>9, <2>1
  <2> QED
    BY <1>2, <2>1, <2>2
<1>10. fits \in SUBSET Nat
  BY <1>1
<1>11. fits # {} => Min(fits) \in fits /\ \A i \in fits : Min(fits) <= i
  BY <1>10, LeastExists
<1>12. \A i \in fits : i \in Nat /\ i \in 1 .. L /\ t[i] <= Keep
  BY <1>1
<1> HIDE DEF fits, cut, t, want, L
<1>13. CASE Keep <= 0 \/ want >= L \/ cut >= L
  <2>1. fits = {}
    <3> SUFFICES ASSUME NEW i \in fits PROVE FALSE
      OBVIOUS
    <3>1. i \in Legal(ms, want) /\ i < L /\ i \in Nat /\ i \in 1 .. L /\ t[i] <= Keep
      BY <1>8, <1>12
    <3>2. cut <= i /\ t[i] > 0 /\ i >= want
      BY <1>2, <1>5, <1>7, <3>1
    <3>3. t[i] \in Nat
      BY <1>1, <1>6, <3>1
    <3> QED
      BY <1>1, <1>2, <1>4, <1>7, <1>13, <3>1, <3>2, <3>3
  <2> QED
    BY <1>3, <1>13, <2>1 DEF fits, t, L
<1>14. CASE ~(Keep <= 0 \/ want >= L \/ cut >= L)
  <2>1. Plan(ms) = cut
    BY <1>1, <1>3, <1>14
  <2>2. CASE cut = 0
    <3>1. fits = {}
      BY <1>7, <1>8, <2>2
    <3> QED
      BY <2>1, <2>2, <3>1 DEF fits, t, L
  <2>3. CASE cut # 0
    <3>1. cut \in fits
      BY <1>1, <1>7, <1>9, <1>14, <2>3
    <3>2. cut <= Min(fits) /\ Min(fits) <= cut /\ Min(fits) \in Nat
      BY <1>7, <1>8, <1>11, <1>12, <3>1
    <3>3. cut = Min(fits)
      BY <1>7, <3>2
    <3> QED
      BY <2>1, <3>1, <3>3 DEF fits, t, L
  <2> QED
    BY <2>2, <2>3
<1> QED
  BY <1>13, <1>14

-----------------------------------------------------------------------------
(***************************************************************************)
(* Types, the turn limit and the compaction that was decided               *)
(***************************************************************************)

\* What the loop relies on besides types: a call is made, compacted for or answered only
\* within the turn limit, dispatch has a message to answer, and a compaction has its plan.
LoopInv ==
  /\ TypeOK
  /\ phase \in {"compacting", "calling", "tools"} => turn <= MaxTurns
  /\ phase = "tools" => msgs # <<>>
  /\ phase = "compacting" => Plan(msgs) > 0

LEMMA MessageTypes ==
  /\ UserText \in Messages
  /\ \A calls \in Seq(Id), e \in BOOLEAN : Assistant(calls, e) \in Messages
  /\ \A calls \in Seq(Id), size \in Nat \ {0} : Results(calls, size) \in Messages
<1>1. <<>> \in Seq(Id)
  OBVIOUS
<1> QED
  BY <1>1 DEF Messages, Message, UserText, Assistant, Results

\* What a compaction makes of the messages: the summary, and the kept ones in order.
LEMMA CompactedIs ==
  ASSUME NEW ms \in Seq(Messages), Plan(ms) > 0, NEW cut, cut = Plan(ms),
         NEW out, out = Compacted(ms, cut)
  PROVE  /\ cut \in 2 .. Len(ms) /\ CanCutBefore(ms, cut)
         /\ out \in Seq(Messages) /\ Len(out) = Len(ms) - cut + 2
         /\ out[1] = UserText
         /\ \A i \in 2 .. Len(out) : cut + i - 2 \in 1 .. Len(ms) /\ out[i] = ms[cut + i - 2]
<1>1. cut \in 2 .. Len(ms) /\ CanCutBefore(ms, cut) /\ Len(ms) \in Nat
  BY PlanIsLegal
<1> DEFINE rest == SubSeq(ms, cut, Len(ms))
<1>2. rest \in Seq(Messages) /\ Len(rest) = Len(ms) - cut + 1
      /\ \A i \in 1 .. Len(rest) : rest[i] = ms[cut + i - 1]
  <2>1. rest = [i \in 1 .. Len(ms) - cut + 1 |-> ms[cut + i - 1]]
    BY <1>1
  <2>2. Len(ms) - cut + 1 \in Nat /\ \A i \in 1 .. Len(ms) - cut + 1 : ms[cut + i - 1] \in Messages
    BY <1>1
  <2> HIDE DEF rest
  <2> QED
    BY <2>1, <2>2
<1>3. out = <<UserText>> \o rest
  BY DEF Compacted
<1> HIDE DEF rest
<1>4. out \in Seq(Messages) /\ Len(out) = 1 + Len(rest) /\ out[1] = UserText
      /\ \A i \in 2 .. Len(out) : out[i] = rest[i - 1]
  <2>1. <<UserText>> \in Seq(Messages) /\ Len(<<UserText>>) = 1
    BY MessageTypes
  <2> QED
    BY <1>2, <1>3, <2>1
<1>5. ASSUME NEW i \in 2 .. Len(out)
      PROVE  cut + i - 2 \in 1 .. Len(ms) /\ out[i] = ms[cut + i - 2]
  <2>1. i - 1 \in 1 .. Len(rest) /\ cut + (i - 1) - 1 = cut + i - 2
        /\ cut + i - 2 \in 1 .. Len(ms)
    BY SMTT(30), <1>1, <1>2, <1>4, <1>5
  <2>2. rest[i - 1] = ms[cut + (i - 1) - 1]
    BY <1>2, <2>1
  <2> QED
    BY <1>4, <1>5, <2>1, <2>2
<1> QED
  BY <1>1, <1>2, <1>4, <1>5

LEMMA RepliesTyped ==
  ASSUME NEW r \in Replies, TypeOK, NEW u, u = UniqueIDs(r.calls, seenIDs)
  PROVE  /\ r.calls \in Seq(Id) /\ seenIDs \in SeenSets
         /\ u.ids \in Seq(Id) /\ Len(u.ids) = Len(r.calls)
         /\ u.seen \in SUBSET Id /\ IsFiniteSet(u.seen)
<1>1. r.calls \in Seq(Id)
  BY TurnAssumption
<1>2. seenIDs \in SeenSets
  BY DEF TypeOK, SeenSets
<1> QED
  BY <1>1, <1>2, UniqueIsTyped DEF SeenSets

LEMMA LastIsMessage ==
  ASSUME NEW ms \in Seq(Messages), ms # <<>>
  PROVE  Len(ms) \in Nat /\ Len(ms) > 0 /\ Last(ms) = ms[Len(ms)] /\ Last(ms) \in Messages
         /\ Last(ms).calls \in Seq(Id)
<1>1. Len(ms) \in Nat /\ Len(ms) > 0 /\ ms[Len(ms)] \in Messages
  OBVIOUS
<1> QED
  BY <1>1 DEF Last, Messages

LEMMA InitLoop == Init => LoopInv
<1> SUFFICES ASSUME Init PROVE LoopInv
  OBVIOUS
<1>1. msgs = <<>> /\ <<>> \in Seq(Messages)
  BY DEF Init
<1>2. 0 \in 0 .. MaxTurns + 1
  <2>1. MaxTurns \in Nat
    BY TurnAssumption
  <2> QED
    BY <2>1
<1>3. IsFiniteSet({})
  BY FS_EmptySet
<1>4. TypeOK
  BY <1>1, <1>2, <1>3 DEF Init, TypeOK, Phases
<1> QED
  BY <1>4 DEF Init, LoopInv

\* One case for each action.
LEMMA StepLoop == LoopInv /\ [Next]_vars => LoopInv'
<1> SUFFICES ASSUME LoopInv, [Next]_vars PROVE LoopInv'
  OBVIOUS
<1>1. /\ msgs \in Seq(Messages) /\ phase \in Phases /\ turn \in 0 .. MaxTurns + 1
      /\ cutStreak \in Nat /\ seenIDs \in SUBSET Id /\ IsFiniteSet(seenIDs)
      /\ interrupted \in BOOLEAN
      /\ phase \in {"compacting", "calling", "tools"} => turn <= MaxTurns
      /\ phase = "tools" => msgs # <<>>
      /\ phase = "compacting" => Plan(msgs) > 0
  BY DEF LoopInv, TypeOK
<1>2. MaxTurns \in Nat /\ MaxTurns > 0
  <2>1. MaxTurns \in Nat \ {0}
    BY TurnAssumption
  <2> QED
    BY <2>1
<1>0. /\ 0 \in 0 .. MaxTurns + 1 /\ 0 \in Nat /\ cutStreak + 1 \in Nat
      /\ turn <= MaxTurns => turn + 1 \in 0 .. MaxTurns + 1
      /\ Return => phase' = "prompt" /\ turn' = 0 /\ interrupted' \in BOOLEAN
  <2>1. /\ 0 \in 0 .. MaxTurns + 1 /\ 0 \in Nat /\ cutStreak + 1 \in Nat
        /\ turn <= MaxTurns => turn + 1 \in 0 .. MaxTurns + 1
    BY <1>1, <1>2
  <2>2. Return => phase' = "prompt" /\ turn' = 0 /\ interrupted' \in BOOLEAN
    BY DEF Return
  <2> QED
    BY <2>1, <2>2
<1>3. ResultSizes \subseteq Nat \ {0}
  BY TurnAssumption
<1>4. \A m \in Messages : Append(msgs, m) \in Seq(Messages)
  BY <1>1
<1>5. CASE Submit
  <2>1. msgs' \in Seq(Messages)
    BY <1>4, <1>5, MessageTypes DEF Submit
  <2> QED
    BY <1>1, <1>2, <1>5, <2>1 DEF Submit, LoopInv, TypeOK, Phases
<1>6. CASE Stopped \/ CallFails \/ EmptyReply
  <2>1. phase' = "prompt" /\ turn' = 0 /\ interrupted' = FALSE
        /\ UNCHANGED <<msgs, cutStreak, seenIDs>>
    BY <1>6 DEF Stopped, CallFails, EmptyReply, Return
  <2> QED
    BY <1>0, <1>1, <2>1 DEF LoopInv, TypeOK, Phases
<1>7. CASE CallModel \/ StartCompaction
  <2>1. turn <= MaxTurns
    BY <1>1, <1>2, <1>7 DEF CallModel, StartCompaction, Goes, OverLimit
  <2>2. CASE CallModel
    BY <1>1, <2>1, <2>2 DEF CallModel, LoopInv, TypeOK, Phases
  <2>3. CASE StartCompaction
    <3>1. Plan(msgs)' > 0
      BY <2>3 DEF StartCompaction
    <3> QED
      BY <1>1, <2>1, <2>3, <3>1 DEF StartCompaction, LoopInv, TypeOK, Phases
  <2> QED
    BY <1>7, <2>2, <2>3
<1>8. CASE Compact
  <2>1. msgs' \in Seq(Messages)
    BY <1>1, <1>8, CompactedIs DEF Compact
  <2> QED
    BY <1>1, <1>8, <2>1 DEF Compact, LoopInv, TypeOK, Phases
<1>9. CASE FinalReply \/ CutOffReply \/ CallsReply
  <2> DEFINE Kept(u, e) ==
        /\ phase = "calling" /\ seenIDs' = u.seen
        /\ \/ msgs' = Append(msgs, Assistant(u.ids, e)) /\ Return /\ UNCHANGED cutStreak
           \/ /\ msgs' = msgs \o <<Assistant(u.ids, FALSE), Results(u.ids, 1)>>
              /\ phase' = "top" /\ turn' = turn + 1 /\ UNCHANGED <<cutStreak, interrupted>>
           \/ /\ msgs' = Append(msgs, Assistant(u.ids, FALSE)) /\ phase' = "tools"
              /\ UNCHANGED <<turn, cutStreak, interrupted>>
  <2>0. PICK r \in Replies : Kept(UniqueIDs(r.calls, seenIDs), EndsByReason(r))
    BY <1>9 DEF FinalReply, CutOffReply, CallsReply
  <2>1. PICK u, e : /\ u = UniqueIDs(r.calls, seenIDs) /\ e = EndsByReason(r)
                    /\ Kept(u, e)
    BY <2>0
  <2>2. u.ids \in Seq(Id) /\ u.seen \in SUBSET Id /\ IsFiniteSet(u.seen)
    BY <2>1, RepliesTyped DEF LoopInv
  <2>3. /\ Assistant(u.ids, e) \in Messages /\ Assistant(u.ids, FALSE) \in Messages
        /\ Results(u.ids, 1) \in Messages
    <3>1. e \in BOOLEAN /\ FALSE \in BOOLEAN /\ 1 \in Nat \ {0}
      BY <2>1 DEF EndsByReason
    <3> QED
      BY <2>2, <3>1, MessageTypes
  <2>4. /\ Append(msgs, Assistant(u.ids, e)) \in Seq(Messages)
        /\ Append(msgs, Assistant(u.ids, FALSE)) \in Seq(Messages)
        /\ Append(msgs, Assistant(u.ids, FALSE)) # <<>>
        /\ msgs \o <<Assistant(u.ids, FALSE), Results(u.ids, 1)>> \in Seq(Messages)
    <3>1. \A m \in Messages : Append(msgs, m) \in Seq(Messages) /\ Append(msgs, m) # <<>>
      BY <1>1
    <3>2. \A m, n \in Messages : msgs \o <<m, n>> \in Seq(Messages)
      BY <1>1
    <3> QED
      BY <2>3, <3>1, <3>2
  <2> QED
    <3>1. msgs' \in Seq(Messages) /\ seenIDs' \in SUBSET Id /\ IsFiniteSet(seenIDs')
      BY <2>1, <2>2, <2>4
    <3>2. /\ phase' \in {"prompt", "top", "tools"} /\ turn' \in 0 .. MaxTurns + 1
          /\ cutStreak' \in Nat /\ interrupted' \in BOOLEAN
          /\ phase' = "tools" => turn' <= MaxTurns /\ msgs' # <<>>
      <4>1. turn <= MaxTurns
        BY <1>1, <2>1
      <4> QED
        BY <1>0, <1>1, <2>1, <2>4, <4>1
    <3> QED
      BY <3>1, <3>2 DEF LoopInv, TypeOK, Phases
<1>10. CASE Aborted \/ SomeRan \/ AllCut
  <2>1. PICK size \in Nat \ {0} : Dispatched(size)
    BY <1>3, <1>10 DEF Aborted, SomeRan, AllCut
  <2>2. phase = "tools" /\ seenIDs' = seenIDs /\ msgs' \in Seq(Messages)
    <3>1. phase = "tools" /\ seenIDs' = seenIDs
          /\ msgs' = Append(msgs, Results(Last(msgs).calls, size))
      BY <2>1 DEF Dispatched
    <3>2. Last(msgs).calls \in Seq(Id)
      BY <1>1, <3>1, LastIsMessage
    <3> QED
      BY <1>4, <3>1, <3>2, MessageTypes
  <2>3. /\ phase' \in {"prompt", "top"} /\ turn' \in 0 .. MaxTurns + 1
        /\ cutStreak' \in Nat /\ interrupted' \in BOOLEAN
    <3>1. turn <= MaxTurns /\ turn \in Nat
      BY <1>1, <1>2, <2>2
    <3>2. CASE Aborted
      BY <1>0, <1>1, <3>2 DEF Aborted
    <3>3. CASE SomeRan
      BY <1>0, <1>1, <3>1, <3>3 DEF SomeRan
    <3>4. CASE AllCut
      BY <1>0, <1>1, <3>1, <3>4 DEF AllCut
    <3> QED
      BY <1>10, <3>2, <3>3, <3>4
  <2> QED
    BY <1>1, <2>2, <2>3 DEF LoopInv, TypeOK, Phases
<1>11. CASE Interrupt
  BY <1>1, <1>11 DEF Interrupt, LoopInv, TypeOK
<1>12. CASE CompactCommand \/ NewCommand
  <2>1. msgs' \in Seq(Messages)
    <3>1. <<>> \in Seq(Messages)
      OBVIOUS
    <3> QED
      BY <1>1, <1>12, <3>1, CompactedIs DEF CompactCommand, NewCommand
  <2> QED
    BY <1>1, <1>12, <2>1 DEF CompactCommand, NewCommand, LoopInv, TypeOK
<1>13. CASE UNCHANGED vars
  BY <1>1, <1>13 DEF vars, LoopInv, TypeOK
<1> QED
  BY <1>5, <1>6, <1>7, <1>8, <1>9, <1>10, <1>11, <1>12, <1>13 DEF Next, Loop

\* Every reachable state is well typed, for any replies, limits and budgets: the history is a
\* sequence of messages of positive size, the counter never passes the turn limit by more
\* than one (runTurn, main.go 895-1089), and the names seen are finitely many ids.
THEOREM TurnTyped == Spec => [](TypeOK /\ LoopInv)
<1>1. LoopInv => TypeOK /\ LoopInv
  BY DEF LoopInv
<1> QED
  BY <1>1, InitLoop, StepLoop, PTL DEF Spec

LEMMA LoopRunsDown ==
  ASSUME LoopInv, Loop
  PROVE  phase' = "prompt" \/ (StepsLeft' \in Nat /\ StepsLeft' < StepsLeft)
<1>1. /\ turn \in Nat /\ turn <= MaxTurns + 1 /\ MaxTurns \in Nat
      /\ phase \in {"compacting", "calling", "tools"} => turn <= MaxTurns
  <2>1. MaxTurns \in Nat
    BY TurnAssumption
  <2>2. turn \in 0 .. MaxTurns + 1 /\ (phase \in {"compacting", "calling", "tools"} => turn <= MaxTurns)
    BY DEF LoopInv, TypeOK
  <2> QED
    BY <2>1, <2>2
<1>2. CASE Stopped \/ CallFails \/ EmptyReply \/ FinalReply \/ Aborted
  BY <1>2 DEF Stopped, CallFails, EmptyReply, FinalReply, Aborted, Return
<1>3. CASE CallModel \/ StartCompaction
  <2>1. phase = "top" /\ phase' \in {"calling", "compacting"} /\ turn' = turn /\ turn <= MaxTurns
    BY <1>1, <1>3 DEF CallModel, StartCompaction, Goes, OverLimit
  <2> QED
    BY <1>1, <2>1 DEF StepsLeft
<1>4. CASE Compact
  <2>1. phase = "compacting" /\ phase' = "calling" /\ turn' = turn
    BY <1>4 DEF Compact
  <2> QED
    BY <1>1, <2>1 DEF StepsLeft
<1>5. CASE CallsReply
  <2>1. phase = "calling" /\ phase' = "tools" /\ turn' = turn
    BY <1>5 DEF CallsReply
  <2> QED
    BY <1>1, <2>1 DEF StepsLeft
<1>6. CASE CutOffReply \/ SomeRan \/ AllCut
  <2>1. /\ phase \in {"calling", "tools"}
        /\ phase' = "prompt" \/ (phase' = "top" /\ turn' = turn + 1)
    BY <1>6 DEF CutOffReply, SomeRan, AllCut, Dispatched, Return
  <2> QED
    BY <1>1, <2>1 DEF StepsLeft
<1> QED
  BY <1>2, <1>3, <1>4, <1>5, <1>6 DEF Loop

\* A turn only runs down: at most 4 * (MaxTurns + 1) steps of the loop, whatever is compacted,
\* cut off or refused on the way (runTurn, main.go 895-1089).  It is the half of TurnEnds that does
\* not rest on fairness.
THEOREM TurnsRunDown == Spec => TurnRunsDown
<1>1. LoopInv /\ [Next]_vars =>
        [Loop => phase' = "prompt" \/ (StepsLeft' \in Nat /\ StepsLeft' < StepsLeft)]_vars
  BY LoopRunsDown
<1>2. Spec => []LoopInv
  BY InitLoop, StepLoop, PTL DEF Spec
<1> QED
  BY <1>1, <1>2, PTL DEF Spec, TurnRunsDown

\* In every reachable conversation the compactor keeps as much as fits in its budget from a
\* legal cut on, and compacts nothing when no cut fits, whatever the sizes of the messages:
\* the backward walk, the floor and the forward search of plan and safeCut meet
\* (compact.go 166-183, 279-326).
THEOREM PlansAreTightest == Spec => []PlanIsTightest
<1>1. TypeOK /\ LoopInv => PlanIsTightest
  <2> SUFFICES ASSUME TypeOK, Len(msgs) >= 4 PROVE PlanIsTightest
    BY DEF PlanIsTightest
  <2>1. msgs \in Seq(Messages)
    BY DEF TypeOK
  <2> QED
    BY <2>1, PlanIsTight DEF PlanIsTightest
<1> QED
  BY <1>1, TurnTyped, PTL

-----------------------------------------------------------------------------
(***************************************************************************)
(* What a step does to the history                                         *)
(***************************************************************************)

Untouched == msgs' = msgs /\ seenIDs' = seenIDs /\ (phase' = "tools" <=> phase = "tools")

Cleared == msgs' = <<>> /\ seenIDs' = seenIDs /\ phase' # "tools"

Prompted == msgs' = Append(msgs, UserText) /\ seenIDs' = seenIDs
            /\ phase # "tools" /\ phase' # "tools"

Shortened == Plan(msgs) > 0 /\ msgs' = Compacted(msgs, Plan(msgs)) /\ seenIDs' = seenIDs
             /\ phase # "tools" /\ phase' # "tools"

\* The calls of a reply join the history; they are answered at once, or by dispatch, or
\* there are none, or the reply ends the turn with them.
Replied(r, u) ==
  /\ phase = "calling" /\ seenIDs' = u.seen
  /\ \/ /\ msgs' = Append(msgs, Assistant(u.ids, EndsByReason(r)))
        /\ phase' # "tools" /\ Ends(r)
     \/ msgs' = msgs \o <<Assistant(u.ids, FALSE), Results(u.ids, 1)>> /\ phase' # "tools"
     \/ msgs' = Append(msgs, Assistant(u.ids, FALSE)) /\ phase' = "tools"

Answers(size) ==
  /\ phase = "tools" /\ phase' # "tools" /\ seenIDs' = seenIDs
  /\ msgs' = Append(msgs, Results(Last(msgs).calls, size))

\* Six things can happen to the history.
LEMMA HistoryMoves ==
  ASSUME [Next]_vars, LoopInv
  PROVE  \/ Untouched \/ Cleared \/ Prompted \/ Shortened
         \/ \E r \in Replies : Replied(r, UniqueIDs(r.calls, seenIDs))
         \/ \E size \in Nat \ {0} : Answers(size)
<1>1. CASE Submit \/ NewCommand
  BY <1>1 DEF Submit, NewCommand, Prompted, Cleared
<1>2. CASE Stopped \/ CallFails \/ EmptyReply \/ CallModel \/ StartCompaction
  BY <1>2 DEF Stopped, CallFails, EmptyReply, CallModel, StartCompaction, Goes, Return, Untouched
<1>3. CASE Interrupt \/ UNCHANGED vars
  BY <1>3 DEF Interrupt, vars, Untouched
<1>4. CASE Compact \/ CompactCommand
  BY <1>4 DEF Compact, CompactCommand, LoopInv, Shortened, Untouched
<1>5. CASE FinalReply \/ CutOffReply \/ CallsReply
  BY <1>5 DEF FinalReply, CutOffReply, CallsReply, Return, Replied
<1>6. CASE Aborted \/ SomeRan \/ AllCut
  <2>1. ResultSizes \subseteq Nat \ {0}
    BY TurnAssumption
  <2>2. 1 \in Nat \ {0}
    OBVIOUS
  <2> QED
    BY <1>6, <2>1, <2>2 DEF Aborted, SomeRan, AllCut, Dispatched, Return, Answers
<1> QED
  BY <1>1, <1>2, <1>3, <1>4, <1>5, <1>6 DEF Next, Loop

-----------------------------------------------------------------------------
(***************************************************************************)
(* Calls and their results                                                 *)
(***************************************************************************)

\* Each result follows its call.
Asked(ms) ==
  \A i \in 1 .. Len(ms) : ms[i].results # <<>> => i > 1 /\ ms[i - 1].calls = ms[i].results

\* Each call of the first n messages is followed by its result, or its message ended the
\* turn for its stop reason.
Answered(ms, n) ==
  \A i \in 1 .. n :
    ms[i].calls # <<>> /\ ~ms[i].ended => i < Len(ms) /\ ms[i + 1].results = ms[i].calls

\* While dispatch works, the calls of the last message are open, and no others.
PairInv == Asked(msgs) /\ Answered(msgs, IF phase = "tools" THEN Len(msgs) - 1 ELSE Len(msgs))

LEMMA Appended ==
  ASSUME NEW S, NEW s \in Seq(S), NEW m \in S, NEW out, out = Append(s, m)
  PROVE  /\ out \in Seq(S) /\ Len(s) \in Nat /\ Len(out) = Len(s) + 1
         /\ out[Len(s) + 1] = m /\ \A i \in 1 .. Len(s) : out[i] = s[i]
OBVIOUS

\* A message without results joins a history: its calls are open.
LEMMA CallsJoin ==
  ASSUME NEW ms \in Seq(Messages), NEW m \in Messages, m.results = <<>>,
         Asked(ms), Answered(ms, Len(ms)), NEW out, out = Append(ms, m)
  PROVE  /\ out \in Seq(Messages) /\ Asked(out) /\ Answered(out, Len(out) - 1)
         /\ m.calls = <<>> \/ m.ended => Answered(out, Len(out))
<1>1. /\ out \in Seq(Messages) /\ Len(ms) \in Nat /\ Len(out) = Len(ms) + 1
      /\ out[Len(ms) + 1] = m /\ \A i \in 1 .. Len(ms) : out[i] = ms[i]
  BY Appended
<1>2. \A i \in 1 .. Len(out) : i = Len(ms) + 1 \/ i \in 1 .. Len(ms)
  BY <1>1
<1>3. Asked(out)
  <2> SUFFICES ASSUME NEW i \in 1 .. Len(out), out[i].results # <<>>
               PROVE  i > 1 /\ out[i - 1].calls = out[i].results
    BY DEF Asked
  <2>1. i \in 1 .. Len(ms) /\ out[i] = ms[i]
    BY <1>1, <1>2
  <2>2. i > 1 /\ ms[i - 1].calls = ms[i].results
    BY <2>1 DEF Asked
  <2>3. i - 1 \in 1 .. Len(ms)
    BY <1>1, <2>1, <2>2
  <2> QED
    BY <1>1, <2>1, <2>2, <2>3
<1>4. \A i \in 1 .. Len(ms) : out[i].calls # <<>> /\ ~out[i].ended =>
        i < Len(out) /\ out[i + 1].results = out[i].calls
  <2> SUFFICES ASSUME NEW i \in 1 .. Len(ms), out[i].calls # <<>>, ~out[i].ended
               PROVE  i < Len(out) /\ out[i + 1].results = out[i].calls
    OBVIOUS
  <2>1. out[i] = ms[i] /\ i < Len(ms) /\ ms[i + 1].results = ms[i].calls
    BY <1>1 DEF Answered
  <2>2. i + 1 \in 1 .. Len(ms)
    BY <1>1, <2>1
  <2> QED
    BY <1>1, <2>1, <2>2
<1>5. Len(out) - 1 = Len(ms)
  BY <1>1
<1> QED
  BY <1>1, <1>2, <1>3, <1>4, <1>5 DEF Answered

\* The results of the open calls join it: nothing is open.
LEMMA ResultsJoin ==
  ASSUME NEW ms \in Seq(Messages), ms # <<>>, NEW m \in Messages, m.calls = <<>>,
         m.results = ms[Len(ms)].calls,
         Asked(ms), Answered(ms, Len(ms) - 1), NEW out, out = Append(ms, m)
  PROVE  Asked(out) /\ Answered(out, Len(out))
<1>1. /\ out \in Seq(Messages) /\ Len(ms) \in Nat /\ Len(out) = Len(ms) + 1
      /\ out[Len(ms) + 1] = m /\ \A i \in 1 .. Len(ms) : out[i] = ms[i]
  BY Appended
<1>2. Len(ms) > 0 /\ Len(ms) \in 1 .. Len(ms)
  BY <1>1
<1>3. \A i \in 1 .. Len(out) : i = Len(ms) + 1 \/ i = Len(ms) \/ i \in 1 .. Len(ms) - 1
  BY <1>1
<1>4. Asked(out)
  <2> SUFFICES ASSUME NEW i \in 1 .. Len(out), out[i].results # <<>>
               PROVE  i > 1 /\ out[i - 1].calls = out[i].results
    BY DEF Asked
  <2>1. CASE i = Len(ms) + 1
    <3>1. i > 1 /\ i - 1 = Len(ms)
      BY <1>1, <1>2, <2>1
    <3> QED
      BY <1>1, <1>2, <2>1, <3>1
  <2>2. CASE i \in 1 .. Len(ms)
    <3>1. i > 1 /\ ms[i - 1].calls = ms[i].results
      BY <1>1, <2>2 DEF Asked
    <3>2. i - 1 \in 1 .. Len(ms)
      BY <1>1, <2>2, <3>1
    <3> QED
      BY <1>1, <2>2, <3>1, <3>2
  <2> QED
    BY <1>1, <1>3, <2>1, <2>2
<1>5. Answered(out, Len(out))
  <2> SUFFICES ASSUME NEW i \in 1 .. Len(out), out[i].calls # <<>>, ~out[i].ended
               PROVE  i < Len(out) /\ out[i + 1].results = out[i].calls
    BY DEF Answered
  <2>1. i # Len(ms) + 1
    BY <1>1
  <2>2. CASE i = Len(ms)
    BY <1>1, <1>2, <2>2
  <2>3. CASE i \in 1 .. Len(ms) - 1
    <3>1. i \in 1 .. Len(ms) /\ i + 1 \in 1 .. Len(ms) /\ i < Len(out)
      BY <1>1, <2>3
    <3>2. ms[i + 1].results = ms[i].calls
      BY <1>1, <2>3, <3>1 DEF Answered
    <3> QED
      BY <1>1, <3>1, <3>2
  <2> QED
    BY <1>3, <2>1, <2>2, <2>3
<1> QED
  BY <1>4, <1>5

\* A cut before a question separates no call from its result.
LEMMA CutKeepsPairs ==
  ASSUME NEW ms \in Seq(Messages), Plan(ms) > 0, Asked(ms), Answered(ms, Len(ms)),
         NEW out, out = Compacted(ms, Plan(ms))
  PROVE  Asked(out) /\ Answered(out, Len(out))
<1> DEFINE cut == Plan(ms)
<1>1. /\ cut \in 2 .. Len(ms) /\ CanCutBefore(ms, cut)
      /\ out \in Seq(Messages) /\ Len(out) = Len(ms) - cut + 2
      /\ out[1] = UserText
      /\ \A i \in 2 .. Len(out) : cut + i - 2 \in 1 .. Len(ms) /\ out[i] = ms[cut + i - 2]
  BY CompactedIs
<1>2. ms[cut].results = <<>> /\ Len(ms) \in Nat
  BY <1>1 DEF CanCutBefore
<1>3. UserText.calls = <<>> /\ UserText.results = <<>>
  BY DEF UserText, Message
<1> HIDE DEF cut
<1>4. \A i \in 1 .. Len(out) : i = 1 \/ i \in 2 .. Len(out)
  BY <1>1, <1>2
<1>5. Asked(out)
  <2> SUFFICES ASSUME NEW i \in 1 .. Len(out), out[i].results # <<>>
               PROVE  i > 1 /\ out[i - 1].calls = out[i].results
    BY DEF Asked
  <2>1. i \in 2 .. Len(out) /\ out[i] = ms[cut + i - 2] /\ cut + i - 2 \in 1 .. Len(ms)
    BY <1>1, <1>3, <1>4
  <2>2. ms[(cut + i - 2) - 1].calls = ms[cut + i - 2].results
    BY <2>1 DEF Asked
  <2>3. i # 2
    BY <1>1, <1>2, <2>1
  <2>4. i - 1 \in 2 .. Len(out) /\ cut + (i - 1) - 2 = (cut + i - 2) - 1 /\ i > 1
    BY <1>1, <1>2, <2>1, <2>3
  <2>5. out[i - 1] = ms[(cut + i - 2) - 1]
    BY <1>1, <2>4
  <2> QED
    BY <2>1, <2>2, <2>4, <2>5
<1>6. Answered(out, Len(out))
  <2> SUFFICES ASSUME NEW i \in 1 .. Len(out), out[i].calls # <<>>, ~out[i].ended
               PROVE  i < Len(out) /\ out[i + 1].results = out[i].calls
    BY DEF Answered
  <2>1. i \in 2 .. Len(out) /\ out[i] = ms[cut + i - 2] /\ cut + i - 2 \in 1 .. Len(ms)
    BY <1>1, <1>3, <1>4
  <2>2. cut + i - 2 < Len(ms) /\ ms[(cut + i - 2) + 1].results = ms[cut + i - 2].calls
    BY <2>1 DEF Answered
  <2>3. i < Len(out) /\ i + 1 \in 2 .. Len(out) /\ cut + (i + 1) - 2 = (cut + i - 2) + 1
    BY <1>1, <1>2, <2>1, <2>2
  <2>4. out[i + 1] = ms[(cut + i - 2) + 1]
    BY <1>1, <2>3
  <2> QED
    BY <2>1, <2>2, <2>3, <2>4
<1> QED
  BY <1>5, <1>6

\* One case for each thing that can happen to the history.
LEMMA StepPairs ==
  ASSUME LoopInv, PairInv, [Next]_vars
  PROVE  PairInv'
<1>1. msgs \in Seq(Messages) /\ (phase = "tools" => msgs # <<>>)
  BY DEF LoopInv, TypeOK
<1>2. CASE Untouched
  BY <1>2 DEF Untouched, PairInv, Asked, Answered
<1>3. CASE Cleared
  <2>1. Len(<<>>) = 0
    OBVIOUS
  <2> QED
    BY <1>3, <2>1 DEF Cleared, PairInv, Asked, Answered
<1>4. CASE Prompted
  <2>1. UserText \in Messages /\ UserText.calls = <<>> /\ UserText.results = <<>>
    BY MessageTypes DEF UserText, Message
  <2>2. Asked(msgs) /\ Answered(msgs, Len(msgs)) /\ msgs' = Append(msgs, UserText)
        /\ phase' # "tools"
    BY <1>4 DEF Prompted, PairInv
  <2>3. Asked(msgs') /\ Answered(msgs', Len(msgs'))
    BY <1>1, <2>1, <2>2, CallsJoin
  <2> QED
    BY <2>2, <2>3 DEF PairInv, Asked, Answered
<1>5. CASE Shortened
  <2>1. Asked(msgs) /\ Answered(msgs, Len(msgs)) /\ msgs' = Compacted(msgs, Plan(msgs))
        /\ Plan(msgs) > 0 /\ phase' # "tools"
    BY <1>5 DEF Shortened, PairInv
  <2>2. Asked(msgs') /\ Answered(msgs', Len(msgs'))
    BY <1>1, <2>1, CutKeepsPairs
  <2> QED
    BY <2>1, <2>2 DEF PairInv, Asked, Answered
<1>6. ASSUME NEW r \in Replies, NEW u, u = UniqueIDs(r.calls, seenIDs), Replied(r, u)
      PROVE  PairInv'
  <2> DEFINE a == Assistant(u.ids, FALSE)
             z == Assistant(u.ids, EndsByReason(r))
             b == Results(u.ids, 1)
  <2>1. u.ids \in Seq(Id) /\ Len(u.ids) = Len(r.calls) /\ r.calls \in Seq(Id)
    BY <1>6, RepliesTyped DEF LoopInv
  <2>2. /\ a \in Messages /\ a.results = <<>> /\ a.calls = u.ids
        /\ z \in Messages /\ z.results = <<>> /\ z.calls = u.ids /\ z.ended = EndsByReason(r)
        /\ b \in Messages /\ b.calls = <<>> /\ b.results = u.ids
    <3>1. EndsByReason(r) \in BOOLEAN /\ FALSE \in BOOLEAN /\ 1 \in Nat \ {0}
      BY DEF EndsByReason
    <3>2. a \in Messages /\ z \in Messages /\ b \in Messages
      BY <2>1, <3>1, MessageTypes
    <3> QED
      BY <3>2 DEF Assistant, Results, Message
  <2>3. Asked(msgs) /\ Answered(msgs, Len(msgs))
    BY <1>6 DEF Replied, PairInv
  <2>8. EndsByReason(r) \/ r.calls # <<>> \/ u.ids = <<>>
    BY <2>1
  <2>9. \/ msgs' = Append(msgs, z) /\ phase' # "tools" /\ Ends(r)
        \/ msgs' = msgs \o <<a, b>> /\ phase' # "tools"
        \/ msgs' = Append(msgs, a) /\ phase' = "tools"
    BY <1>6 DEF Replied
  <2> HIDE DEF a, z, b
  <2>4. /\ Append(msgs, a) \in Seq(Messages) /\ Asked(Append(msgs, a))
        /\ Answered(Append(msgs, a), Len(Append(msgs, a)) - 1)
    BY <1>1, <2>2, <2>3, CallsJoin
  <2>5. CASE msgs' = Append(msgs, z) /\ phase' # "tools" /\ Ends(r)
    <3>1. z.calls = <<>> \/ z.ended
      BY <2>2, <2>5, <2>8 DEF Ends
    <3>2. Asked(Append(msgs, z)) /\ Answered(Append(msgs, z), Len(Append(msgs, z)))
      BY <1>1, <2>2, <2>3, <3>1, CallsJoin
    <3> QED
      BY <2>5, <3>2 DEF PairInv, Asked, Answered
  <2>6. CASE msgs' = msgs \o <<a, b>> /\ phase' # "tools"
    <3>1. msgs' = Append(Append(msgs, a), b)
      BY <1>1, <2>2, <2>6
    <3>2. Append(msgs, a) # <<>> /\ Append(msgs, a)[Len(Append(msgs, a))] = a
      BY <1>1, <2>2
    <3>3. Asked(msgs') /\ Answered(msgs', Len(msgs'))
      BY <2>2, <2>4, <3>1, <3>2, ResultsJoin
    <3> QED
      BY <2>6, <3>3 DEF PairInv, Asked, Answered
  <2>7. CASE msgs' = Append(msgs, a) /\ phase' = "tools"
    BY <2>4, <2>7 DEF PairInv, Asked, Answered
  <2> QED
    BY <2>5, <2>6, <2>7, <2>9
<1>7. ASSUME NEW size \in Nat \ {0}, Answers(size) PROVE PairInv'
  <2> DEFINE b == Results(Last(msgs).calls, size)
  <2>1. msgs # <<>> /\ Asked(msgs) /\ Answered(msgs, Len(msgs) - 1)
        /\ msgs' = Append(msgs, b) /\ phase' # "tools"
    BY <1>1, <1>7 DEF Answers, PairInv
  <2>2. Last(msgs) = msgs[Len(msgs)] /\ Last(msgs).calls \in Seq(Id)
    BY <1>1, <2>1, LastIsMessage
  <2>3. b \in Messages /\ b.calls = <<>> /\ b.results = msgs[Len(msgs)].calls
    BY <1>7, <2>2, MessageTypes DEF Results, Message
  <2> HIDE DEF b
  <2>4. Asked(msgs') /\ Answered(msgs', Len(msgs'))
    BY <1>1, <2>1, <2>3, ResultsJoin
  <2> QED
    BY <2>1, <2>4 DEF PairInv, Asked, Answered
<1> QED
  BY <1>2, <1>3, <1>4, <1>5, <1>6, <1>7, HistoryMoves

\* Whatever the providers reply, every request pairs calls and results, through compactions,
\* aborts and replies cut off; the one call without a result is that of a message whose stop
\* reason ended its turn (main.go 895-1089, compact.go 154-183).
THEOREM EveryCallIsAnswered == Spec => []CallsAreAnswered
<1> DEFINE Inv == LoopInv /\ PairInv
<1>1. Init => Inv
  <2>1. Len(<<>>) = 0
    OBVIOUS
  <2>2. Init => PairInv
    BY <2>1 DEF Init, PairInv, Asked, Answered
  <2> QED
    BY <2>2, InitLoop
<1>2. Inv /\ [Next]_vars => Inv'
  BY StepLoop, StepPairs
<1>3. Inv => CallsAreAnswered
  BY DEF PairInv, Asked, Answered, CallsAreAnswered
<1> QED
  BY <1>1, <1>2, <1>3, PTL DEF Spec

-----------------------------------------------------------------------------
(***************************************************************************)
(* Ids                                                                     *)
(***************************************************************************)

\* The calls of a history have ids that were seen, each its own.
Known(ms, seen) == \A i \in 1 .. Len(ms) : \A k \in DOMAIN ms[i].calls : ms[i].calls[k] \in seen

Distinct(ms) ==
  \A i, j \in 1 .. Len(ms) : \A k \in DOMAIN ms[i].calls, l \in DOMAIN ms[j].calls :
    ms[i].calls[k] = ms[j].calls[l] => i = j /\ k = l

IdsInv == Numbered(seenIDs) /\ Known(msgs, seenIDs) /\ Distinct(msgs)

\* A message whose ids are new, and each its own, joins a history.
LEMMA IdsJoin ==
  ASSUME NEW ms \in Seq(Messages), NEW m \in Messages, NEW seen, NEW more, seen \subseteq more,
         Known(ms, seen), Distinct(ms), NEW out, out = Append(ms, m),
         \A k \in DOMAIN m.calls : m.calls[k] \in more \ seen,
         \A k, l \in DOMAIN m.calls : m.calls[k] = m.calls[l] => k = l
  PROVE  out \in Seq(Messages) /\ Known(out, more) /\ Distinct(out)
<1>1. /\ out \in Seq(Messages) /\ Len(ms) \in Nat /\ Len(out) = Len(ms) + 1
      /\ out[Len(ms) + 1] = m /\ \A i \in 1 .. Len(ms) : out[i] = ms[i]
  BY Appended
<1>2. \A i \in 1 .. Len(out) : (i = Len(ms) + 1 /\ out[i] = m) \/ (i \in 1 .. Len(ms) /\ out[i] = ms[i])
  BY <1>1
<1>3. Known(out, more)
  BY <1>2 DEF Known
<1>4. ASSUME NEW i \in 1 .. Len(out), NEW j \in 1 .. Len(out),
             NEW k \in DOMAIN out[i].calls, NEW l \in DOMAIN out[j].calls,
             out[i].calls[k] = out[j].calls[l]
      PROVE  i = j /\ k = l
  <2>1. CASE i \in 1 .. Len(ms) /\ out[i] = ms[i] /\ j \in 1 .. Len(ms) /\ out[j] = ms[j]
    BY <1>4, <2>1 DEF Distinct
  <2>2. CASE i = Len(ms) + 1 /\ out[i] = m /\ j = Len(ms) + 1 /\ out[j] = m
    BY <1>4, <2>2
  <2>3. CASE i \in 1 .. Len(ms) /\ out[i] = ms[i] /\ j = Len(ms) + 1 /\ out[j] = m
    BY <1>4, <2>3 DEF Known
  <2>4. CASE i = Len(ms) + 1 /\ out[i] = m /\ j \in 1 .. Len(ms) /\ out[j] = ms[j]
    BY <1>4, <2>4 DEF Known
  <2> QED
    BY <1>2, <2>1, <2>2, <2>3, <2>4
<1> QED
  BY <1>1, <1>3, <1>4 DEF Distinct

\* A compaction renames nothing and repeats nothing.
LEMMA IdsOfShortened ==
  ASSUME NEW ms \in Seq(Messages), Plan(ms) > 0, NEW seen, Known(ms, seen), Distinct(ms),
         NEW out, out = Compacted(ms, Plan(ms))
  PROVE  Known(out, seen) /\ Distinct(out)
<1> DEFINE cut == Plan(ms)
<1>1. /\ cut \in 2 .. Len(ms) /\ out \in Seq(Messages) /\ out[1] = UserText
      /\ \A i \in 2 .. Len(out) : cut + i - 2 \in 1 .. Len(ms) /\ out[i] = ms[cut + i - 2]
  BY SMTT(30), CompactedIs
<1>2. DOMAIN out[1].calls = {}
  BY <1>1 DEF UserText, Message
<1> HIDE DEF cut
<1>3. Len(out) \in Nat /\ Len(ms) \in Nat /\ cut \in Nat
  BY <1>1
<1>4. \A i \in 1 .. Len(out) : i = 1 \/ i \in 2 .. Len(out)
  BY <1>3
<1>5. Known(out, seen)
  <2>1. ASSUME NEW i \in 2 .. Len(out), NEW k \in DOMAIN out[i].calls
        PROVE  out[i].calls[k] \in seen
    BY <1>1, <2>1 DEF Known
  <2>2. ASSUME NEW i \in 1 .. Len(out) PROVE \A k \in DOMAIN out[i].calls : out[i].calls[k] \in seen
    <3>1. CASE i = 1
      BY <1>2, <3>1
    <3>2. CASE i \in 2 .. Len(out)
      BY <2>1, <3>2
    <3> QED
      BY <1>4, <3>1, <3>2
  <2> QED
    BY <2>2 DEF Known
<1>6. ASSUME NEW i \in 1 .. Len(out), NEW j \in 1 .. Len(out),
             NEW k \in DOMAIN out[i].calls, NEW l \in DOMAIN out[j].calls,
             out[i].calls[k] = out[j].calls[l]
      PROVE  i = j /\ k = l
  <2>1. i \in 2 .. Len(out) /\ j \in 2 .. Len(out)
    BY <1>2, <1>4, <1>6
  <2> DEFINE p == cut + i - 2
             q == cut + j - 2
  <2>2. p \in 1 .. Len(ms) /\ out[i] = ms[p] /\ q \in 1 .. Len(ms) /\ out[j] = ms[q]
    BY <1>1, <2>1
  <2> HIDE DEF p, q
  <2>3. k \in DOMAIN ms[p].calls /\ l \in DOMAIN ms[q].calls /\ ms[p].calls[k] = ms[q].calls[l]
    BY <1>6, <2>2
  <2>4. p = q /\ k = l
    BY <2>2, <2>3 DEF Distinct
  <2>5. i = j
    BY <1>3, <2>1, <2>4 DEF p, q
  <2> QED
    BY <2>4, <2>5
<1> QED
  BY <1>5, <1>6 DEF Distinct

\* Only a reply brings new ids.
LEMMA StepIds ==
  ASSUME NoIdOfLastResort, LoopInv, IdsInv, [Next]_vars
  PROVE  IdsInv'
<1>1. msgs \in Seq(Messages) /\ seenIDs \in SUBSET Id
  BY DEF LoopInv, TypeOK
<1>2. Numbered(seenIDs) /\ Known(msgs, seenIDs) /\ Distinct(msgs)
  BY DEF IdsInv
<1>3. CASE Untouched
  BY <1>2, <1>3 DEF Untouched, IdsInv, Numbered, Known, Distinct
<1>4. CASE Cleared
  <2>1. Len(<<>>) = 0
    OBVIOUS
  <2> QED
    BY <1>2, <1>4, <2>1 DEF Cleared, IdsInv, Numbered, Known, Distinct
<1>5. CASE Prompted
  <2>1. UserText \in Messages /\ DOMAIN UserText.calls = {}
    BY MessageTypes DEF UserText, Message
  <2>2. Known(msgs', seenIDs) /\ Distinct(msgs')
    BY <1>1, <1>2, <1>5, <2>1, IdsJoin DEF Prompted
  <2> QED
    BY <1>2, <1>5, <2>2 DEF Prompted, IdsInv, Numbered, Known, Distinct
<1>6. CASE Shortened
  <2>1. Known(msgs', seenIDs) /\ Distinct(msgs')
    BY <1>1, <1>2, <1>6, IdsOfShortened DEF Shortened
  <2> QED
    BY <1>2, <1>6, <2>1 DEF Shortened, IdsInv, Numbered, Known, Distinct
<1>7. ASSUME NEW r \in Replies, NEW u, u = UniqueIDs(r.calls, seenIDs), Replied(r, u)
      PROVE  IdsInv'
  <2> DEFINE a == Assistant(u.ids, FALSE)
             z == Assistant(u.ids, EndsByReason(r))
             b == Results(u.ids, 1)
  <2>1. u.ids \in Seq(Id) /\ Len(u.ids) = Len(r.calls) /\ r.calls \in Seq(Id)
        /\ seenIDs \in SeenSets
    BY <1>7, RepliesTyped DEF LoopInv
  <2>2. /\ a \in Messages /\ a.calls = u.ids /\ z \in Messages /\ z.calls = u.ids
        /\ b \in Messages /\ DOMAIN b.calls = {}
    <3>1. EndsByReason(r) \in BOOLEAN /\ FALSE \in BOOLEAN /\ 1 \in Nat \ {0}
      BY DEF EndsByReason
    <3>2. a \in Messages /\ z \in Messages /\ b \in Messages
      BY <2>1, <3>1, MessageTypes
    <3> QED
      BY <3>2 DEF Assistant, Results, Message
  <2>3. \A i \in 1 .. Len(r.calls) : r.calls[i][1] # "call_dup"
    BY DEF NoIdOfLastResort
  <2>4. /\ Numbered(u.seen) /\ seenIDs \subseteq u.seen
        /\ \A i \in 1 .. Len(r.calls) : u.ids[i] \in u.seen \ seenIDs
        /\ \A i, j \in 1 .. Len(r.calls) : u.ids[i] = u.ids[j] => i = j
    BY <1>2, <1>7, <2>1, <2>3, UniqueIsFresh
  <2>5. DOMAIN u.ids = 1 .. Len(r.calls)
    BY <2>1
  <2> HIDE DEF a, z, b
  <2>6. /\ Append(msgs, a) \in Seq(Messages)
        /\ Known(Append(msgs, a), u.seen) /\ Distinct(Append(msgs, a))
        /\ Known(Append(msgs, z), u.seen) /\ Distinct(Append(msgs, z))
    <3>1. ASSUME NEW m \in Messages, m.calls = u.ids, NEW out, out = Append(msgs, m)
          PROVE  out \in Seq(Messages) /\ Known(out, u.seen) /\ Distinct(out)
      <4>1. /\ \A k \in DOMAIN m.calls : m.calls[k] \in u.seen \ seenIDs
            /\ \A k, l \in DOMAIN m.calls : m.calls[k] = m.calls[l] => k = l
        BY <2>4, <2>5, <3>1
      <4>2. msgs \in Seq(Messages) /\ Known(msgs, seenIDs) /\ Distinct(msgs)
            /\ seenIDs \subseteq u.seen
        BY <1>1, <1>2, <2>4
      <4> QED
        BY <3>1, <4>1, <4>2, IdsJoin
    <3> QED
      BY <2>2, <3>1
  <2>7. Known(Append(Append(msgs, a), b), u.seen) /\ Distinct(Append(Append(msgs, a), b))
    BY <2>2, <2>6, IdsJoin
  <2>8. msgs \o <<a, b>> = Append(Append(msgs, a), b)
    BY <1>1, <2>2
  <2>9. /\ seenIDs' = u.seen
        /\ msgs' \in {Append(msgs, a), Append(msgs, z), Append(Append(msgs, a), b)}
    BY <1>7, <2>8 DEF Replied, a, z, b
  <2>10. Known(msgs', u.seen) /\ Distinct(msgs')
    BY <2>6, <2>7, <2>9
  <2> QED
    BY <2>4, <2>9, <2>10 DEF IdsInv, Numbered, Known, Distinct
<1>8. ASSUME NEW size \in Nat \ {0}, Answers(size) PROVE IdsInv'
  <2> DEFINE b == Results(Last(msgs).calls, size)
  <2>1. msgs # <<>> /\ msgs' = Append(msgs, b) /\ seenIDs' = seenIDs
    BY <1>8 DEF Answers, LoopInv
  <2>2. Last(msgs).calls \in Seq(Id)
    BY <1>1, <2>1, LastIsMessage
  <2>3. b \in Messages /\ DOMAIN b.calls = {}
    BY <1>8, <2>2, MessageTypes DEF Results, Message
  <2> HIDE DEF b
  <2>4. Known(msgs', seenIDs) /\ Distinct(msgs')
    BY <1>1, <1>2, <2>1, <2>3, IdsJoin
  <2> QED
    BY <1>2, <2>1, <2>4 DEF IdsInv, Numbered, Known, Distinct
<1> QED
  BY <1>3, <1>4, <1>5, <1>6, <1>7, <1>8, HistoryMoves

\* If no provider sends an id of the form call_dup_N, the ids of the history were all seen,
\* each is one call's, and no fallback name has a number that is still to come: the inductive
\* invariant of uniqueIDs (toolcall.go 446-481).
THEOREM IdsInvariant ==
  ASSUME NoIdOfLastResort
  PROVE  Spec => [](LoopInv /\ IdsInv)
<1> DEFINE Inv == LoopInv /\ IdsInv
<1>1. Init => Inv
  <2>1. Len(<<>>) = 0
    OBVIOUS
  <2>2. Init => IdsInv
    BY <2>1 DEF Init, IdsInv, Numbered, Known, Distinct
  <2> QED
    BY <2>2, InitLoop
<1>2. Inv /\ [Next]_vars => Inv'
  BY StepLoop, StepIds
<1> QED
  BY <1>1, <1>2, PTL DEF Spec

\* Under that hypothesis no id names two calls of the history, whatever else the providers
\* reuse, omit or imitate, however often it is compacted or started over.
THEOREM NoIdTwice ==
  ASSUME NoIdOfLastResort
  PROVE  Spec => []IdsAreUnique
<1>1. LoopInv /\ IdsInv => IdsAreUnique
  BY DEF IdsInv, Distinct, IdsAreUnique
<1> QED
  BY <1>1, IdsInvariant, PTL

\* And under it the search for a free name always ends, for an id too long for a suffix too
\* (toolcall.go 463-478).
THEOREM EveryNameIsFound ==
  ASSUME NoIdOfLastResort
  PROVE  Spec => []NamesEnd
<1>1. LoopInv /\ IdsInv => NamesEnd
  <2> SUFFICES ASSUME LoopInv, IdsInv, NEW id \in seenIDs PROVE Free(id, seenIDs) # {}
    BY DEF NamesEnd
  <2>1. seenIDs \in SeenSets /\ id \in Id
    BY DEF LoopInv, TypeOK, SeenSets
  <2> QED
    BY <2>1, NameIsFree DEF IdsInv
<1> QED
  BY <1>1, IdsInvariant, PTL
=============================================================================
