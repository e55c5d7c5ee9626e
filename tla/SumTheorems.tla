------------------------------ MODULE SumTheorems ------------------------------
(***************************************************************************)
(* Sums over finite sets, by induction: SumFunctionOnSet(f, S) of the      *)
(* Functions module adds f[x] for every x \in S in some order, which its   *)
(* definition chooses.  The lemmas say what it is without that order.      *)
(*                                                                         *)
(* An induction is the search for a least counterexample: a non-empty set  *)
(* of naturals has a least element, so a set of finite sets has a smallest.*)
(***************************************************************************)
EXTENDS Integers, FiniteSets, Functions, FiniteSetTheorems, WellFoundedInduction, TLAPS

\* A non-empty set of naturals has a least element.
LEMMA LeastNatural ==
  ASSUME NEW T \in SUBSET Nat, T # {}
  PROVE  \E n \in T : \A m \in T : n <= m
<1> DEFINE R == OpToRel(<, Nat)
<1>1. IsWellFoundedOn(R, Nat)
  BY NatLessThanWellFounded
<1>2. \A m, n \in Nat : m < n => <<m, n>> \in R
  BY DEF OpToRel
<1> HIDE DEF R
<1>3. PICK n \in T : \A m \in T : ~(<<m, n>> \in R)
  BY <1>1, WFMin
<1>4. ASSUME NEW m \in T PROVE n <= m
  <2>1. m \in Nat /\ n \in Nat /\ ~(m < n)
    BY <1>2, <1>3
  <2> QED BY <2>1
<1> QED BY <1>4

\* A non-empty set of subsets of a finite set has a smallest one.
LEMMA SmallestSet ==
  ASSUME NEW S, IsFiniteSet(S), NEW T \in SUBSET SUBSET S, T # {}
  PROVE  \E t \in T : \A u \in T : u \subseteq t => u = t
<1> DEFINE N == {Cardinality(t) : t \in T}
<1>1. \A t \in T : IsFiniteSet(t) /\ Cardinality(t) \in Nat
  BY FS_Subset, FS_CardinalityType
<1>2. N \in SUBSET Nat /\ N # {}
  BY <1>1
<1>3. PICK t \in T : \A u \in T : Cardinality(t) <= Cardinality(u)
  <2> HIDE DEF N
  <2>1. PICK n \in N : \A m \in N : n <= m
    BY <1>2, LeastNatural
  <2> QED BY <2>1 DEF N
<1>4. ASSUME NEW u \in T, u \subseteq t PROVE u = t
  <2>1. Cardinality(u) <= Cardinality(t) /\ (u # t => Cardinality(u) < Cardinality(t))
    BY <1>1, <1>4, FS_Subset
  <2> QED BY <1>1, <1>3, <2>1
<1> QED BY <1>4

(***************************************************************************)
(* The recursive function that SumFunctionOnSet is.                        *)
(***************************************************************************)
Picked(s) == CHOOSE x \in s : TRUE
Adds(f, iter, s) == IF s = {} THEN 0 ELSE f[Picked(s)] + iter[s \ {Picked(s)}]
Sums(f, iter, D) == iter = [s \in D |-> Adds(f, iter, s)]
SumsAll(f, iter, S) == Sums(f, iter, SUBSET S)

\* It exists, on the subsets of at most n elements and then on all of them.
LEMMA SumsExist ==
  ASSUME NEW f, NEW S, IsFiniteSet(S)
  PROVE  \E iter : SumsAll(f, iter, S)
<1> DEFINE G(n) == {s \in SUBSET S : Cardinality(s) <= n}
           E(n) == \E iter : Sums(f, iter, G(n))
<1>1. \A s \in SUBSET S : IsFiniteSet(s) /\ Cardinality(s) \in Nat
  BY FS_Subset, FS_CardinalityType
<1>2. E(0)
  <2>1. G(0) = {{}}
    BY <1>1, FS_EmptySet
  <2> DEFINE iter == [s \in {{}} |-> 0]
  <2>2. Sums(f, iter, G(0))
    BY <2>1 DEF Sums, Adds
  <2> QED BY <2>2
<1>3. ASSUME NEW n \in Nat, E(n) PROVE E(n + 1)
  <2>1. PICK iter : Sums(f, iter, G(n))
    BY <1>3
  <2> DEFINE next == [s \in G(n + 1) |-> Adds(f, iter, s)]
  <2>2. ASSUME NEW s \in G(n + 1), s # {} PROVE s \ {Picked(s)} \in G(n)
    <3>1. Picked(s) \in s /\ IsFiniteSet(s) /\ Cardinality(s) \in Nat
      BY <1>1, <2>2 DEF Picked
    <3>2. Cardinality(s \ {Picked(s)}) = Cardinality(s) - 1
      BY <3>1, FS_RemoveElement
    <3> QED BY <3>1, <3>2
  <2>3. G(n) \subseteq G(n + 1)
    BY <1>1
  <2>4. \A s \in G(n) : next[s] = iter[s]
    BY <2>1, <2>3 DEF Sums
  <2> HIDE DEF G
  <2>5. \A s \in G(n + 1) : Adds(f, iter, s) = Adds(f, next, s)
    BY <2>2, <2>4 DEF Adds
  <2>6. Sums(f, next, G(n + 1))
    BY <2>5 DEF Sums
  <2> HIDE DEF next
  <2> QED BY <2>6
<1> HIDE DEF E
<1>4. \A n \in Nat : E(n)
  <2> DEFINE T == {n \in Nat : ~E(n)}
  <2> SUFFICES ASSUME T # {} PROVE FALSE
    OBVIOUS
  <2>1. PICK n \in T : \A m \in T : n <= m
    BY LeastNatural
  <2>2. n \in Nat \ {0}
    BY <1>2
  <2>3. n - 1 \in Nat /\ E(n - 1) /\ (n - 1) + 1 = n
    BY <2>1, <2>2
  <2> QED BY <1>3, <2>3
<1> DEFINE k == Cardinality(S)
<1>5. k \in Nat /\ G(k) = SUBSET S
  BY FS_Subset, FS_CardinalityType
<1> QED BY <1>4, <1>5 DEF E, SumsAll

\* The function of a set, and of one of its subsets, agree on what both sum.
LEMMA SumsAgree ==
  ASSUME NEW f, NEW S, IsFiniteSet(S), NEW T \in SUBSET S, NEW iter, SumsAll(f, iter, S),
         NEW other, SumsAll(f, other, T)
  PROVE  iter[T] = other[T]
<1> DEFINE D == {s \in SUBSET T : iter[s] # other[s]}
<1> SUFFICES ASSUME D # {} PROVE FALSE
  OBVIOUS
<1>1. IsFiniteSet(T)
  BY FS_Subset
<1>2. PICK s \in D : \A u \in D : u \subseteq s => u = s
  <2>1. D \in SUBSET SUBSET T
    OBVIOUS
  <2> HIDE DEF D
  <2> QED BY <1>1, <2>1, SmallestSet
<1>3. iter[s] = Adds(f, iter, s) /\ other[s] = Adds(f, other, s)
  BY DEF SumsAll, Sums
<1>4. s # {} /\ Picked(s) \in s
  BY <1>3 DEF Adds, Picked
<1>5. iter[s \ {Picked(s)}] = other[s \ {Picked(s)}]
  BY <1>2, <1>4
<1> QED BY <1>3, <1>5 DEF Adds

\* SumFunctionOnSet without the recursive function.
LEMMA SumIs ==
  ASSUME NEW f, NEW S, IsFiniteSet(S), NEW iter, SumsAll(f, iter, S)
  PROVE  SumFunctionOnSet(f, S) = iter[S]
<1> DEFINE own == CHOOSE h : SumsAll(f, h, S)
<1>1. SumsAll(f, own, S)
  OBVIOUS
<1>2. SumFunctionOnSet(f, S) = own[S]
  BY DEF SumFunctionOnSet, FoldFunctionOnSet, MapThenFoldSet, SumsAll, Sums, Adds, Picked
<1> HIDE DEF own
<1>3. own[S] = iter[S]
  <2>1. S \in SUBSET S
    OBVIOUS
  <2> QED BY <1>1, <2>1, SumsAgree
<1> QED BY <1>2, <1>3

\* An empty sum; and a sum is what it chooses first and the rest.
LEMMA SumEmpty == ASSUME NEW f PROVE SumFunctionOnSet(f, {}) = 0
<1>1. IsFiniteSet({})
  BY FS_EmptySet
<1>2. PICK iter : SumsAll(f, iter, {})
  BY <1>1, SumsExist
<1>3. iter[{}] = 0
  BY <1>2 DEF SumsAll, Sums, Adds
<1> QED BY <1>1, <1>2, <1>3, SumIs

\* A sum is what it chooses first and the rest.
LEMMA SumFirst ==
  ASSUME NEW f, NEW S, IsFiniteSet(S), S # {}
  PROVE  /\ Picked(S) \in S
         /\ SumFunctionOnSet(f, S) = f[Picked(S)] + SumFunctionOnSet(f, S \ {Picked(S)})
<1> DEFINE T == S \ {Picked(S)}
<1>1. Picked(S) \in S /\ T \in SUBSET S /\ IsFiniteSet(T)
  BY FS_Subset DEF Picked
<1>2. PICK iter : SumsAll(f, iter, S)
  BY SumsExist
<1>3. PICK other : SumsAll(f, other, T)
  BY <1>1, SumsExist
<1> HIDE DEF T
<1>4. iter[T] = other[T]
  BY <1>1, <1>2, <1>3, SumsAgree
<1>5. iter[S] = f[Picked(S)] + iter[T]
  BY <1>2 DEF SumsAll, Sums, Adds, T
<1>6. SumFunctionOnSet(f, S) = iter[S] /\ SumFunctionOnSet(f, T) = other[T]
  BY <1>1, <1>2, <1>3, SumIs
<1> QED BY <1>1, <1>4, <1>5, <1>6 DEF T

(***************************************************************************)
(* What a sum of naturals is, whatever the order.                          *)
(***************************************************************************)
LEMMA SumType ==
  ASSUME NEW f, NEW S, IsFiniteSet(S), \A x \in S : f[x] \in Nat
  PROVE  SumFunctionOnSet(f, S) \in Nat
<1> DEFINE D == {s \in SUBSET S : SumFunctionOnSet(f, s) \notin Nat}
<1>1. D = {}
  <2> SUFFICES ASSUME D # {} PROVE FALSE
    OBVIOUS
  <2>1. PICK s \in D : \A u \in D : u \subseteq s => u = s
    <3>1. D \in SUBSET SUBSET S
      OBVIOUS
    <3> HIDE DEF D
    <3> QED BY <3>1, SmallestSet
  <2>2. s # {} /\ IsFiniteSet(s)
    <3>1. s \in SUBSET S /\ s # {}
      BY SumEmpty
    <3> QED BY <3>1, FS_Subset
  <2>3. Picked(s) \in s /\ SumFunctionOnSet(f, s) = f[Picked(s)] + SumFunctionOnSet(f, s \ {Picked(s)})
    BY <2>2, SumFirst
  <2>4. SumFunctionOnSet(f, s \ {Picked(s)}) \in Nat
    BY <2>1, <2>3
  <2> QED BY <2>3, <2>4
<1> QED BY <1>1

\* Picked element can be taken out first.
LEMMA SumRemove ==
  ASSUME NEW f, NEW S, IsFiniteSet(S), \A x \in S : f[x] \in Nat, NEW y \in S
  PROVE  SumFunctionOnSet(f, S) = f[y] + SumFunctionOnSet(f, S \ {y})
<1> DEFINE Sum(s) == SumFunctionOnSet(f, s)
           D == {s \in SUBSET S : \E x \in s : Sum(s) # f[x] + Sum(s \ {x})}
<1>1. D = {}
  <2> SUFFICES ASSUME D # {} PROVE FALSE
    OBVIOUS
  <2>1. PICK s \in D : \A u \in D : u \subseteq s => u = s
    <3>1. D \in SUBSET SUBSET S
      OBVIOUS
    <3> HIDE DEF D
    <3> QED BY <3>1, SmallestSet
  <2>2. PICK x \in s : Sum(s) # f[x] + Sum(s \ {x})
    OBVIOUS
  <2> DEFINE c == Picked(s)
             rest == s \ {c, x}
  <2>3. c \in s /\ Sum(s) = f[c] + Sum(s \ {c})
    BY <2>2, SumFirst, FS_Subset
  <2>4. c # x
    BY <2>2, <2>3
  <2>5. s \ {c} \notin D /\ s \ {x} \notin D /\ s \in SUBSET S
    BY <2>1, <2>2, <2>3
  <2> HIDE DEF c
  <2>6. Sum(s \ {c}) = f[x] + Sum((s \ {c}) \ {x}) /\ Sum(s \ {x}) = f[c] + Sum((s \ {x}) \ {c})
    BY <2>2, <2>3, <2>4, <2>5
  <2>7. (s \ {c}) \ {x} = rest /\ (s \ {x}) \ {c} = rest /\ rest \in SUBSET S
    BY <2>5
  <2>8. Sum(rest) \in Nat /\ f[x] \in Nat /\ f[c] \in Nat
    <3>1. IsFiniteSet(rest) /\ \A z \in rest : f[z] \in Nat
      BY <2>7, FS_Subset
    <3> QED BY <2>2, <2>3, <2>5, <3>1, SumType
  <2>9. Sum(s) = f[c] + (f[x] + Sum(rest)) /\ Sum(s \ {x}) = f[c] + Sum(rest)
    BY <2>3, <2>6, <2>7
  <2> HIDE DEF rest, Sum
  <2> QED BY <2>2, <2>8, <2>9
<1> QED BY <1>1

\* One more element adds its value.
LEMMA SumAdd ==
  ASSUME NEW f, NEW S, IsFiniteSet(S), NEW y, y \notin S, \A x \in S \cup {y} : f[x] \in Nat
  PROVE  SumFunctionOnSet(f, S \cup {y}) = f[y] + SumFunctionOnSet(f, S)
<1>1. (S \cup {y}) \ {y} = S /\ IsFiniteSet(S \cup {y})
  BY FS_AddElement
<1> QED BY <1>1, SumRemove

\* Only the values on the set count.
LEMMA SumSame ==
  ASSUME NEW f, NEW g, NEW S, IsFiniteSet(S), \A x \in S : f[x] = g[x]
  PROVE  SumFunctionOnSet(f, S) = SumFunctionOnSet(g, S)
<1> DEFINE D == {s \in SUBSET S : SumFunctionOnSet(f, s) # SumFunctionOnSet(g, s)}
<1>1. D = {}
  <2> SUFFICES ASSUME D # {} PROVE FALSE
    OBVIOUS
  <2>1. PICK s \in D : \A u \in D : u \subseteq s => u = s
    <3>1. D \in SUBSET SUBSET S
      OBVIOUS
    <3> HIDE DEF D
    <3> QED BY <3>1, SmallestSet
  <2>2. s # {} /\ IsFiniteSet(s)
    <3>1. s \in SUBSET S /\ s # {}
      BY SumEmpty
    <3> QED BY <3>1, FS_Subset
  <2>3. /\ Picked(s) \in s /\ SumFunctionOnSet(f, s) = f[Picked(s)] + SumFunctionOnSet(f, s \ {Picked(s)})
        /\ SumFunctionOnSet(g, s) = g[Picked(s)] + SumFunctionOnSet(g, s \ {Picked(s)})
    BY <2>2, SumFirst
  <2>4. SumFunctionOnSet(f, s \ {Picked(s)}) = SumFunctionOnSet(g, s \ {Picked(s)})
    BY <2>1, <2>3
  <2> QED BY <2>3, <2>4
<1> QED BY <1>1

\* One value changes.
LEMMA SumChange ==
  ASSUME NEW f, NEW g, NEW S, IsFiniteSet(S), NEW y \in S,
         \A x \in S : f[x] \in Nat /\ g[x] \in Nat, \A x \in S : x = y \/ f[x] = g[x]
  PROVE  SumFunctionOnSet(g, S) + f[y] = SumFunctionOnSet(f, S) + g[y]
<1>1. IsFiniteSet(S \ {y})
  BY FS_RemoveElement
<1>2. SumFunctionOnSet(f, S \ {y}) = SumFunctionOnSet(g, S \ {y})
  BY <1>1, SumSame
<1>3. SumFunctionOnSet(f, S \ {y}) \in Nat
  BY <1>1, SumType
<1>4. /\ SumFunctionOnSet(f, S) = f[y] + SumFunctionOnSet(f, S \ {y})
      /\ SumFunctionOnSet(g, S) = g[y] + SumFunctionOnSet(g, S \ {y})
  BY SumRemove
<1> QED BY <1>2, <1>3, <1>4

\* A sum splits at any part of the set.
LEMMA SumSplit ==
  ASSUME NEW f, NEW S, IsFiniteSet(S), \A x \in S : f[x] \in Nat, NEW T, T \subseteq S
  PROVE  SumFunctionOnSet(f, S) = SumFunctionOnSet(f, T) + SumFunctionOnSet(f, S \ T)
<1> DEFINE Sum(s) == SumFunctionOnSet(f, s)
           D == {t \in SUBSET S : Sum(S) # Sum(t) + Sum(S \ t)}
<1>1. D = {}
  <2> SUFFICES ASSUME D # {} PROVE FALSE
    OBVIOUS
  <2>1. PICK t \in D : \A u \in D : u \subseteq t => u = t
    <3>1. D \in SUBSET SUBSET S
      OBVIOUS
    <3> HIDE DEF D
    <3> QED BY <3>1, SmallestSet
  <2>2. t # {}
    <3>1. S \ {} = S /\ Sum({}) = 0 /\ Sum(S) \in Nat
      BY SumEmpty, SumType
    <3> QED BY <3>1
  <2>3. PICK x : x \in t
    BY <2>2
  <2> DEFINE less == t \ {x}
             rest == S \ t
  <2>4. less \notin D /\ less \in SUBSET S /\ x \in S \ less
    BY <2>1, <2>3
  <2>5. IsFiniteSet(t) /\ IsFiniteSet(S \ less) /\ (S \ less) \ {x} = rest
    BY <2>3, FS_Subset
  <2>6. Sum(S) = Sum(less) + Sum(S \ less)
    BY <2>4
  <2>7. Sum(t) = f[x] + Sum(less)
    BY <2>3, <2>5, SumRemove
  <2>8. Sum(S \ less) = f[x] + Sum(rest)
    <3>1. \A z \in S \ less : f[z] \in Nat
      OBVIOUS
    <3> HIDE DEF less, rest
    <3>2. Sum(S \ less) = f[x] + Sum((S \ less) \ {x})
      BY <2>4, <2>5, <3>1, SumRemove
    <3> QED BY <2>5, <3>2
  <2>9. Sum(less) \in Nat /\ Sum(rest) \in Nat /\ f[x] \in Nat
    <3>1. IsFiniteSet(less) /\ IsFiniteSet(rest)
      BY FS_Subset
    <3> QED BY <2>3, <3>1, SumType
  <2>10. Sum(S) # Sum(t) + Sum(rest)
    OBVIOUS
  <2> HIDE DEF Sum, less, rest, D
  <2> QED BY <2>6, <2>7, <2>8, <2>9, <2>10
<1>2. Sum(S) = Sum(T) + Sum(S \ T)
  BY <1>1
<1> QED BY <1>2
=============================================================================
