-------------------------------- MODULE Sums --------------------------------
(***************************************************************************)
(* The sum of the community modules, SumFunctionOnSet, folds over a finite *)
(* set in an order it does not tell.  This module shows that it has the    *)
(* properties of a sum: any element may be taken out first, a value may    *)
(* change, come or go, and a sequence may be added up from its start.      *)
(* The induction theorems of the library have an operator as a parameter,  *)
(* which cannot be instantiated here; NatRange has a set instead.          *)
(***************************************************************************)
EXTENDS Integers, FiniteSets, FiniteSetsExt, Functions, FiniteSetTheorems, WellFoundedInduction, TLAPS

-----------------------------------------------------------------------------
\* Induction: T is {n \in Nat : P(n)} where it is used.
LEMMA NatRange ==
    ASSUME NEW T, 0 \in T, \A n \in Nat : n \in T => n + 1 \in T
    PROVE  Nat \subseteq T
<1> DEFINE R == OpToRel(<, Nat)
           Out == {n \in Nat : n \notin T}
<1> SUFFICES ASSUME Out # {} PROVE FALSE
  OBVIOUS
<1>1. IsWellFoundedOn(R, Nat)
  BY NatLessThanWellFounded
<1>2. \A x, y \in Nat : y < x => <<y, x>> \in R
  BY DEF OpToRel
<1> HIDE DEF R
<1>3. PICK x \in Out : \A y \in Out : ~(<<y, x>> \in R)
  BY <1>1, WFMin
<1>4. x # 0 /\ x \in Nat /\ x \notin T
  BY <1>3
<1>5. x - 1 \in Nat /\ x - 1 < x /\ x - 1 + 1 = x
  BY <1>4
<1>6. x - 1 \notin T
  BY <1>4, <1>5
<1> QED BY <1>2, <1>3, <1>4, <1>5, <1>6

LEMMA HasMin ==
    ASSUME NEW s \in SUBSET Nat, s # {}
    PROVE  Min(s) \in s /\ \A y \in s : Min(s) <= y
<1> DEFINE T == {m \in Nat : \A k \in Nat : k <= m => k \notin s}
<1> SUFFICES ASSUME ~\E x \in s : \A y \in s : x <= y PROVE FALSE
  BY DEF Min
<1>1. 0 \in T
  BY DEF T
<1>2. ASSUME NEW m \in Nat, m \in T PROVE m + 1 \in T
  <2>1. \A k \in Nat : k <= m + 1 => k <= m \/ k = m + 1
    OBVIOUS
  <2>2. \A y \in s : m + 1 <= y
    BY <1>2
  <2> QED BY <1>2, <2>1, <2>2
<1> HIDE DEF T
<1>3. Nat \subseteq T
  BY <1>1, <1>2, NatRange
<1>4. \A m \in Nat : m \notin s
  BY <1>3 DEF T
<1> QED BY <1>4

LEMMA HasMax ==
    ASSUME NEW n \in Nat, NEW s \in SUBSET (1..n), s # {}
    PROVE  Max(s) \in s /\ \A y \in s : Max(s) >= y
<1> DEFINE T == {m \in Nat : \A t \in SUBSET (1..m) : t # {} => \E x \in t : \A y \in t : x >= y}
<1>1. 0 \in T
  <2>1. 1..0 = {}
    OBVIOUS
  <2>2. \A t \in SUBSET (1..0) : t = {}
    BY <2>1
  <2> QED BY <2>2
<1>2. ASSUME NEW m \in Nat, m \in T PROVE m + 1 \in T
  <2> SUFFICES ASSUME NEW t \in SUBSET (1..m + 1), t # {}
               PROVE  \E x \in t : \A y \in t : x >= y
    OBVIOUS
  <2>1. CASE m + 1 \in t
    BY <2>1
  <2>2. CASE m + 1 \notin t
    <3>1. t \in SUBSET (1..m)
      BY <2>2
    <3> QED BY <1>2, <3>1
  <2> QED BY <2>1, <2>2
<1> HIDE DEF T
<1>3. n \in T
  BY <1>1, <1>2, NatRange
<1>4. \E x \in s : \A y \in s : x >= y
  BY <1>3 DEF T
<1> QED BY <1>4 DEF Max

\* The recursive function the sum is folded with, see MapThenFoldSet of Folds.
Some(S) == CHOOSE x \in S : TRUE
Adding(f, it, s) == IF s = {} THEN 0 ELSE f[Some(s)] + it[s \ {Some(s)}]
IsAdder(f, S, it) == it = [s \in SUBSET S |-> Adding(f, it, s)]

LEMMA SumIsAdder ==
    \A f, S : SumFunctionOnSet(f, S) = (CHOOSE it : IsAdder(f, S, it))[S]
  BY DEF SumFunctionOnSet, FoldFunctionOnSet, MapThenFoldSet, IsAdder, Adding, Some

LEMMA SomeElement == \A S : S # {} => Some(S) \in S
  BY DEF Some

LEMMA FewerElements ==
    ASSUME NEW S, IsFiniteSet(S), NEW x \in S
    PROVE  IsFiniteSet(S \ {x}) /\ Cardinality(S) \in Nat /\ Cardinality(S \ {x}) \in Nat
           /\ Cardinality(S) = Cardinality(S \ {x}) + 1
  BY FS_RemoveElement, FS_CardinalityType

\* The recursion has a solution: one is built for sets of at most n elements.
LEMMA AdderExists ==
    ASSUME NEW f, NEW D, IsFiniteSet(D)
    PROVE  \E it : IsAdder(f, D, it)
<1> DEFINE Upto(g, n) == \A s \in SUBSET D : Cardinality(s) <= n => g[s] = Adding(f, g, s)
           T == {n \in Nat : \E g : Upto(g, n)}
<1>0. \A s \in SUBSET D : IsFiniteSet(s) /\ Cardinality(s) \in Nat
  BY FS_Subset, FS_CardinalityType
<1>1. 0 \in T
  <2> DEFINE g == [s \in SUBSET D |-> 0]
  <2>1. ASSUME NEW s \in SUBSET D, Cardinality(s) <= 0 PROVE g[s] = Adding(f, g, s)
    <3>1. s = {}
      BY <1>0, <2>1, FS_EmptySet
    <3> QED BY <3>1 DEF Adding
  <2> HIDE DEF g
  <2>2. Upto(g, 0)
    BY <2>1
  <2> QED BY <2>2
<1>2. ASSUME NEW n \in Nat, n \in T PROVE n + 1 \in T
  <2>1. PICK g : Upto(g, n)
    BY <1>2
  <2> DEFINE h == [s \in SUBSET D |-> IF Cardinality(s) = n + 1 THEN Adding(f, g, s) ELSE g[s]]
  <2>2. ASSUME NEW s \in SUBSET D, Cardinality(s) <= n + 1 PROVE h[s] = Adding(f, h, s)
    <3>1. CASE s = {}
      <4>1. h[s] = g[s] /\ g[s] = Adding(f, g, s)
        BY <2>1, <3>1, FS_EmptySet
      <4> QED BY <3>1, <4>1 DEF Adding
    <3>2. CASE s # {}
      <4> DEFINE r == s \ {Some(s)}
      <4>1. r \in SUBSET D /\ Cardinality(r) \in Nat /\ Cardinality(s) = Cardinality(r) + 1
        BY <1>0, <3>2, SomeElement, FewerElements
      <4>2. Cardinality(r) <= n /\ Cardinality(r) # n + 1
        BY <2>2, <4>1
      <4>3. h[r] = g[r]
        BY <4>1, <4>2
      <4>4. Adding(f, h, s) = Adding(f, g, s)
        BY <4>3 DEF Adding
      <4>5. CASE Cardinality(s) = n + 1
        BY <4>4, <4>5
      <4>6. CASE Cardinality(s) # n + 1
        <5>1. Cardinality(s) <= n
          BY <2>2, <4>1, <4>6
        <5> QED BY <2>1, <4>4, <4>6, <5>1
      <4> QED BY <4>5, <4>6
    <3> QED BY <3>1, <3>2
  <2> HIDE DEF h
  <2>3. Upto(h, n + 1)
    BY <2>2
  <2> QED BY <2>3
<1> HIDE DEF T
<1>3. Cardinality(D) \in T
  BY <1>0, <1>1, <1>2, NatRange
<1> USE DEF T
<1>4. PICK g : Upto(g, Cardinality(D))
  BY <1>3
<1> DEFINE it == [s \in SUBSET D |-> g[s]]
<1>5. ASSUME NEW s \in SUBSET D PROVE it[s] = Adding(f, it, s)
  <2>1. Cardinality(s) <= Cardinality(D)
    BY FS_Subset
  <2>2. g[s] = Adding(f, g, s)
    BY <1>4, <2>1
  <2>3. s # {} => it[s \ {Some(s)}] = g[s \ {Some(s)}]
    OBVIOUS
  <2> QED BY <2>2, <2>3 DEF Adding
<1>6. it = [s \in SUBSET D |-> it[s]]
  OBVIOUS
<1> HIDE DEF it
<1>7. it = [s \in SUBSET D |-> Adding(f, it, s)]
  BY <1>5, <1>6
<1> QED BY <1>7 DEF IsAdder

\* Solutions for equal values agree.
LEMMA AddersAgree ==
    ASSUME NEW f, NEW g, NEW S, NEW a, NEW b, IsFiniteSet(S), \A x \in S : f[x] = g[x],
           \A s \in SUBSET S : a[s] = Adding(f, a, s) /\ b[s] = Adding(g, b, s)
    PROVE  a[S] = b[S]
<1> DEFINE T == {n \in Nat : \A s \in SUBSET S : Cardinality(s) = n => a[s] = b[s]}
<1>0. \A s \in SUBSET S : IsFiniteSet(s) /\ Cardinality(s) \in Nat
  BY FS_Subset, FS_CardinalityType
<1>1. 0 \in T
  <2>1. \A s \in SUBSET S : Cardinality(s) = 0 => s = {}
    BY <1>0, FS_EmptySet
  <2> QED BY <2>1 DEF Adding
<1>2. ASSUME NEW n \in Nat, n \in T PROVE n + 1 \in T
  <2>1. ASSUME NEW s \in SUBSET S, Cardinality(s) = n + 1 PROVE a[s] = b[s]
    <3>1. s # {}
      BY <2>1, FS_EmptySet
    <3> DEFINE r == s \ {Some(s)}
    <3>2. r \in SUBSET S /\ Cardinality(r) = n
      BY <1>0, <2>1, <3>1, SomeElement, FewerElements
    <3>3. a[r] = b[r]
      BY <1>2, <3>2
    <3>4. f[Some(s)] = g[Some(s)]
      BY <3>1, SomeElement
    <3> QED BY <3>1, <3>3, <3>4 DEF Adding
  <2> QED BY <2>1
<1> HIDE DEF T
<1>3. Cardinality(S) \in T
  BY <1>0, <1>1, <1>2, NatRange
<1> QED BY <1>3 DEF T

\* One function adds up every subset of a finite set.
AddsUp(f, S, it) == \A s \in SUBSET S : it[s] = Adding(f, it, s) /\ SumFunctionOnSet(f, s) = it[s]

LEMMA AdderOf ==
    ASSUME NEW f, NEW S, IsFiniteSet(S)
    PROVE  \E it : AddsUp(f, S, it)
<1> DEFINE chosen(s) == CHOOSE it : IsAdder(f, s, it)
<1>1. \A s \in SUBSET S : IsFiniteSet(s) /\ IsAdder(f, s, chosen(s))
  BY FS_Subset, AdderExists
<1> HIDE DEF chosen
<1>2. \A s \in SUBSET S : \A t \in SUBSET s : chosen(s)[t] = Adding(f, chosen(s), t)
  BY <1>1 DEF IsAdder
<1>3. ASSUME NEW s \in SUBSET S PROVE chosen(s)[s] = chosen(S)[s]
  <2> DEFINE a == chosen(s)
             b == chosen(S)
  <2>1. IsFiniteSet(s) /\ \A t \in SUBSET s : a[t] = Adding(f, a, t) /\ b[t] = Adding(f, b, t)
    BY <1>1, <1>2
  <2> HIDE DEF a, b
  <2>2. a[s] = b[s]
    BY <2>1, AddersAgree
  <2> QED BY <2>2 DEF a, b
<1>4. \A s : SumFunctionOnSet(f, s) = chosen(s)[s]
  BY SumIsAdder DEF chosen
<1>5. S \in SUBSET S
  OBVIOUS
<1> QED BY <1>2, <1>3, <1>4, <1>5 DEF AddsUp

LEMMA SumOnEmpty == \A f : SumFunctionOnSet(f, {}) = 0
<1> TAKE f
<1>1. PICK it : AddsUp(f, {}, it)
  BY AdderOf, FS_EmptySet
<1> QED BY <1>1 DEF AddsUp, Adding

LEMMA SumOnSome ==
    ASSUME NEW f, NEW S, IsFiniteSet(S), S # {}
    PROVE  SumFunctionOnSet(f, S) = f[Some(S)] + SumFunctionOnSet(f, S \ {Some(S)})
<1>1. PICK it : AddsUp(f, S, it)
  BY AdderOf
<1> QED BY <1>1 DEF AddsUp, Adding

LEMMA SumOnSame ==
    ASSUME NEW f, NEW g, NEW S, IsFiniteSet(S), \A x \in S : f[x] = g[x]
    PROVE  SumFunctionOnSet(f, S) = SumFunctionOnSet(g, S)
<1>1. PICK a : AddsUp(f, S, a)
  BY AdderOf
<1>2. PICK b : AddsUp(g, S, b)
  BY AdderOf
<1>3. a[S] = b[S]
  BY <1>1, <1>2, AddersAgree DEF AddsUp
<1> QED BY <1>1, <1>2, <1>3 DEF AddsUp

\* Any element may be taken out first.
LEMMA SumOnAny ==
    ASSUME NEW f, NEW D, IsFiniteSet(D), \A x \in D : f[x] \in Int
    PROVE  /\ SumFunctionOnSet(f, D) \in Int
           /\ \A x \in D : SumFunctionOnSet(f, D \ {x}) \in Int /\ SumFunctionOnSet(f, D) = f[x] + SumFunctionOnSet(f, D \ {x})
<1> DEFINE Fine(S) == /\ SumFunctionOnSet(f, S) \in Int
                      /\ \A x \in S : SumFunctionOnSet(f, S \ {x}) \in Int /\ SumFunctionOnSet(f, S) = f[x] + SumFunctionOnSet(f, S \ {x})
           T == {n \in Nat : \A S \in SUBSET D : Cardinality(S) = n => Fine(S)}
<1>0. \A s \in SUBSET D : IsFiniteSet(s) /\ Cardinality(s) \in Nat
  BY FS_Subset, FS_CardinalityType
<1>1. 0 \in T
  <2>1. \A s \in SUBSET D : Cardinality(s) = 0 => s = {}
    BY <1>0, FS_EmptySet
  <2>2. Fine({})
    BY SumOnEmpty
  <2> QED BY <2>1, <2>2
<1>2. ASSUME NEW n \in Nat, n \in T PROVE n + 1 \in T
  <2>1. ASSUME NEW S \in SUBSET D, Cardinality(S) = n + 1 PROVE Fine(S)
    <3>1. S # {} /\ IsFiniteSet(S)
      BY <1>0, <2>1, FS_EmptySet
    <3>2. PICK p \in S : SumFunctionOnSet(f, S) = f[p] + SumFunctionOnSet(f, S \ {p})
      BY <3>1, SumOnSome, SomeElement
    <3>3. \A x \in S : S \ {x} \in SUBSET D /\ Cardinality(S \ {x}) = n
      BY <2>1, <3>1, FewerElements
    <3>4. \A x \in S : Fine(S \ {x})
      BY <1>2, <3>3
    <3>5. f[p] \in Int /\ SumFunctionOnSet(f, S) \in Int
      BY <3>2, <3>4
    <3>6. ASSUME NEW x \in S PROVE SumFunctionOnSet(f, S) = f[x] + SumFunctionOnSet(f, S \ {x})
      <4>1. CASE x = p
        BY <3>2, <4>1
      <4>2. CASE x # p
        <5>1. x \in S \ {p} /\ p \in S \ {x} /\ (S \ {p}) \ {x} = (S \ {x}) \ {p}
          BY <3>2, <4>2
        <5>2. SumFunctionOnSet(f, S \ {p}) = f[x] + SumFunctionOnSet(f, (S \ {p}) \ {x})
          BY <3>2, <3>4, <5>1
        <5>3. /\ SumFunctionOnSet(f, S \ {x}) = f[p] + SumFunctionOnSet(f, (S \ {x}) \ {p})
              /\ SumFunctionOnSet(f, (S \ {x}) \ {p}) \in Int
          BY <3>4, <5>1
        <5>4. f[x] \in Int
          OBVIOUS
        <5> DEFINE rest == SumFunctionOnSet(f, (S \ {x}) \ {p})
        <5>5. rest \in Int /\ SumFunctionOnSet(f, S) = f[p] + (f[x] + rest) /\ SumFunctionOnSet(f, S \ {x}) = f[p] + rest
          BY <3>2, <5>1, <5>2, <5>3
        <5> HIDE DEF rest
        <5> QED BY <3>5, <5>4, <5>5
      <4> QED BY <4>1, <4>2
    <3> QED BY <3>4, <3>5, <3>6
  <2> QED BY <2>1
<1> HIDE DEF T
<1>3. Cardinality(D) \in T /\ D \in SUBSET D
  BY <1>0, <1>1, <1>2, NatRange
<1> QED BY <1>3 DEF T

LEMMA SumType ==
    ASSUME NEW f, IsFiniteSet(DOMAIN f), \A x \in DOMAIN f : f[x] \in Int
    PROVE  SumFunction(f) \in Int
  BY SumOnAny DEF SumFunction

\* One value changes.
LEMMA SumUpdate ==
    ASSUME NEW f, IsFiniteSet(DOMAIN f), \A x \in DOMAIN f : f[x] \in Int,
           NEW x \in DOMAIN f, NEW v \in Int
    PROVE  SumFunction([f EXCEPT ![x] = v]) = SumFunction(f) - f[x] + v
<1> DEFINE D == DOMAIN f
<1>1. PICK g : g = [f EXCEPT ![x] = v]
  OBVIOUS
<1>2. DOMAIN g = D /\ g[x] = v /\ \A y \in D \ {x} : g[y] = f[y]
  BY <1>1
<1>3. IsFiniteSet(D \ {x}) /\ \A y \in D : g[y] \in Int
  BY <1>2, FS_RemoveElement
<1>4. /\ SumFunctionOnSet(f, D) = f[x] + SumFunctionOnSet(f, D \ {x}) /\ SumFunctionOnSet(f, D \ {x}) \in Int
      /\ SumFunctionOnSet(g, D) = v + SumFunctionOnSet(g, D \ {x})
  BY <1>2, <1>3, SumOnAny
<1>5. SumFunctionOnSet(g, D \ {x}) = SumFunctionOnSet(f, D \ {x})
  BY <1>2, <1>3, SumOnSame
<1>6. SumFunction(g) = SumFunctionOnSet(g, D) /\ SumFunction(f) = SumFunctionOnSet(f, D) /\ f[x] \in Int
  BY <1>2 DEF SumFunction
<1>7. SumFunction(g) = SumFunction(f) - f[x] + v
  BY <1>4, <1>5, <1>6
<1> QED BY <1>1, <1>7

\* A zero comes in, or a value goes.
LEMMA SumGrow ==
    ASSUME NEW f, NEW g, NEW x, x \notin DOMAIN f, DOMAIN g = DOMAIN f \union {x},
           IsFiniteSet(DOMAIN f), \A y \in DOMAIN f : f[y] \in Int /\ g[y] = f[y], g[x] \in Int
    PROVE  SumFunction(g) = SumFunction(f) + g[x]
<1> DEFINE D == DOMAIN f
<1>1. IsFiniteSet(D \union {x}) /\ (D \union {x}) \ {x} = D
  BY FS_AddElement
<1>2. SumFunctionOnSet(g, D \union {x}) = g[x] + SumFunctionOnSet(g, D) /\ SumFunctionOnSet(g, D) \in Int
  BY <1>1, SumOnAny
<1>3. SumFunctionOnSet(g, D) = SumFunctionOnSet(f, D)
  BY SumOnSame
<1>4. SumFunction(g) = SumFunctionOnSet(g, D \union {x}) /\ SumFunction(f) = SumFunctionOnSet(f, D)
  BY DEF SumFunction
<1> QED BY <1>2, <1>3, <1>4

LEMMA SumOnZero ==
    ASSUME NEW f, NEW S, IsFiniteSet(S), \A x \in S : f[x] = 0
    PROVE  SumFunctionOnSet(f, S) = 0
<1>1. PICK a : AddsUp(f, S, a)
  BY AdderOf
<1> DEFINE b == [s \in SUBSET S |-> 0]
<1>2. \A s \in SUBSET S : b[s] = Adding(f, b, s)
  BY SomeElement DEF Adding
<1>3. b[S] = 0
  OBVIOUS
<1> HIDE DEF b
<1>4. a[S] = b[S]
  BY <1>1, <1>2, AddersAgree DEF AddsUp
<1> QED BY <1>1, <1>3, <1>4 DEF AddsUp

LEMMA SumOnInterval ==
    ASSUME NEW f, NEW n \in Nat, \A i \in 1..n : f[i] \in Int
    PROVE  /\ SumFunctionOnSet(f, 1..n) \in Int
           /\ n > 0 => SumFunctionOnSet(f, 1..n) = f[n] + SumFunctionOnSet(f, 1..(n - 1)) /\ SumFunctionOnSet(f, 1..(n - 1)) \in Int
<1>1. PICK D : D = 1..n
  OBVIOUS
<1>2. IsFiniteSet(D) /\ \A i \in D : f[i] \in Int
  BY <1>1, FS_Interval
<1>3. n > 0 => n \in D /\ D \ {n} = 1..(n - 1)
  BY <1>1
<1>4. /\ SumFunctionOnSet(f, D) \in Int
      /\ \A x \in D : SumFunctionOnSet(f, D \ {x}) \in Int /\ SumFunctionOnSet(f, D) = f[x] + SumFunctionOnSet(f, D \ {x})
  BY <1>2, SumOnAny
<1> QED BY <1>1, <1>3, <1>4

\* The sum of the first n of m values.
First(f, n) == SumFunctionOnSet(f, 1..n)

LEMMA FirstNone == \A f : First(f, 0) = 0
<1>1. 1..0 = {}
  OBVIOUS
<1> QED BY <1>1, SumOnEmpty DEF First

LEMMA FirstNext ==
    ASSUME NEW f, NEW m \in Nat, \A i \in 1..m : f[i] \in Int
    PROVE  \A n \in Nat : n < m => /\ First(f, n) \in Int /\ First(f, n + 1) \in Int
                                   /\ First(f, n + 1) = f[n + 1] + First(f, n)
<1> SUFFICES ASSUME NEW n \in Nat, n < m
             PROVE  /\ First(f, n) \in Int /\ First(f, n + 1) \in Int
                    /\ First(f, n + 1) = f[n + 1] + First(f, n)
  OBVIOUS
<1>1. PICK k \in Nat : k = n + 1
  OBVIOUS
<1>2. k > 0 /\ k - 1 = n /\ \A i \in 1..k : f[i] \in Int
  BY <1>1
<1>3. SumFunctionOnSet(f, 1..k) \in Int /\ SumFunctionOnSet(f, 1..k) = f[k] + SumFunctionOnSet(f, 1..(k - 1)) /\ SumFunctionOnSet(f, 1..(k - 1)) \in Int
  BY <1>2, SumOnInterval
<1>4. First(f, k) \in Int /\ First(f, k) = f[k] + First(f, n) /\ First(f, n) \in Int
  BY <1>2, <1>3 DEF First
<1> QED BY <1>1, <1>4
=============================================================================
