-------------------------------- MODULE Sums --------------------------------
(***************************************************************************)
(* Sums over finite sets: what SumFunctionOnSet, which the models add      *)
(* amounts, powers and units with, returns for every finite set.  The      *)
(* induction principles are stated with sets, so that a property is shown  *)
(* of all numbers, or of all subsets, by showing that those that have it   *)
(* form a closed set.                                                      *)
(***************************************************************************)
EXTENDS Integers, FiniteSets, Functions, FiniteSetTheorems, WellFoundedInduction, TLAPS

\* A set of natural numbers that is not empty has a least member.
LEMMA LeastMember ==
    ASSUME NEW T \in SUBSET Nat, T # {}
    PROVE  \E m \in T : \A k \in T : m <= k
<1> DEFINE R == {ss \in Nat \X Nat : ss[1] < ss[2]}
<1>1. IsWellFoundedOn(R, Nat)
  BY NatLessThanWellFounded, Zenon DEF OpToRel
<1> HIDE DEF R
<1>2. PICK m \in T : \A k \in T : ~ (<<k, m>> \in R)
  BY <1>1, WFMin
<1>3. ASSUME NEW k \in T PROVE m <= k
  <2>1. ~ (<<k, m>> \in R)
    BY <1>2
  <2> QED
    BY <2>1 DEF R
<1> QED
  BY <1>3

\* Induction over the natural numbers.
LEMMA Induction ==
    ASSUME NEW G, 0 \in G, \A n \in Nat : n \in G => n + 1 \in G
    PROVE  \A n \in Nat : n \in G
<1> DEFINE T == {n \in Nat : n \notin G}
<1> SUFFICES T = {}
  OBVIOUS
<1> SUFFICES ASSUME T # {} PROVE FALSE
  OBVIOUS
<1>1. PICK m \in T : \A k \in T : m <= k
  BY LeastMember
<1>2. m # 0 /\ m \in Nat /\ m - 1 \in Nat
  BY <1>1
<1>3. m - 1 \in G
  BY <1>1, <1>2
<1> QED
  BY <1>1, <1>2, <1>3

\* Induction over the subsets of a finite set, by adding one element at a time.
LEMMA SubsetInduction ==
    ASSUME NEW S, IsFiniteSet(S), NEW G, {} \in G,
           \A T \in SUBSET S : \A x \in S \ T : T \in G => T \cup {x} \in G
    PROVE  S \in G
<1> DEFINE H == {n \in Nat : \A T \in SUBSET S : Cardinality(T) = n => T \in G}
<1>0. \A T \in SUBSET S : IsFiniteSet(T) /\ Cardinality(T) \in Nat
  BY FS_Subset, FS_CardinalityType
<1>1. 0 \in H
  BY <1>0, FS_EmptySet
<1>2. ASSUME NEW n \in Nat, n \in H PROVE n + 1 \in H
  <2> SUFFICES ASSUME NEW T \in SUBSET S, Cardinality(T) = n + 1 PROVE T \in G
    OBVIOUS
  <2>1. PICK x : x \in T
    <3>1. Cardinality({}) = 0
      BY FS_EmptySet
    <3> QED BY <3>1
  <2>2. Cardinality(T \ {x}) = n
    <3>1. Cardinality(T \ {x}) = IF x \in T THEN Cardinality(T) - 1 ELSE Cardinality(T)
      BY <1>0, FS_RemoveElement
    <3> QED BY <2>1, <3>1
  <2>3. T \ {x} \in G
    BY <1>2, <2>2
  <2>4. (T \ {x}) \cup {x} = T
    BY <2>1
  <2> QED
    BY <2>1, <2>3, <2>4
<1> HIDE DEF H
<1>3. \A n \in Nat : n \in H
  BY <1>1, <1>2, Induction
<1> QED
  BY <1>0, <1>3 DEF H

-----------------------------------------------------------------------------
(* The fold behind SumFunctionOnSet is well defined.                       *)

Pick(s) == CHOOSE x \in s : TRUE

\* g adds up f, element after element, on every set of D.
AddsUp(g, f, D) ==
    g = [s \in D |-> IF s = {} THEN 0 ELSE f[Pick(s)] + g[s \ {Pick(s)}]]

AddsUpOn(g, f, S) == AddsUp(g, f, SUBSET S)

\* The element Pick takes is one of the set.
LEMMA PickIn == ASSUME NEW s, s # {} PROVE Pick(s) \in s
BY DEF Pick

\* SumFunctionOnSet unfolded.
LEMMA SumIs ==
    ASSUME NEW f, NEW S
    PROVE  SumFunctionOnSet(f, S) = (CHOOSE g : AddsUpOn(g, f, S))[S]
BY DEF SumFunctionOnSet, FoldFunctionOnSet, MapThenFoldSet, Pick, AddsUp, AddsUpOn

\* There is a function that adds up f on the subsets of a finite set.
LEMMA AddsUpExists ==
    ASSUME NEW f, NEW S, IsFiniteSet(S)
    PROVE  \E g : AddsUpOn(g, f, S)
<1> DEFINE Level(n) == {s \in SUBSET S : Cardinality(s) <= n}
           H == {n \in Nat : \E g : AddsUp(g, f, Level(n))}
<1>0. \A T \in SUBSET S : IsFiniteSet(T) /\ Cardinality(T) \in Nat /\ Cardinality(T) <= Cardinality(S)
  BY FS_Subset, FS_CardinalityType
<1>1. 0 \in H
  <2> DEFINE g == [s \in Level(0) |-> 0]
  <2>1. \A s \in Level(0) : s = {}
    BY <1>0, FS_EmptySet
  <2>2. AddsUp(g, f, Level(0))
    BY <2>1 DEF AddsUp
  <2> QED
    BY <2>2
<1>2. ASSUME NEW n \in Nat, n \in H PROVE n + 1 \in H
  <2>1. PICK g : AddsUp(g, f, Level(n))
    BY <1>2
  <2> DEFINE h == [s \in Level(n + 1) |-> IF s = {} THEN 0 ELSE f[Pick(s)] + g[s \ {Pick(s)}]]
  <2>2. \A s \in Level(n) : s \in Level(n + 1) /\ h[s] = g[s]
    <3> TAKE s \in Level(n)
    <3>1. s \in Level(n + 1)
      BY <1>0
    <3>2. g[s] = IF s = {} THEN 0 ELSE f[Pick(s)] + g[s \ {Pick(s)}]
      <4> HIDE DEF Level
      <4> QED BY <2>1 DEF AddsUp
    <3> QED BY <3>1, <3>2
  <2>3. \A s \in Level(n + 1) : s # {} => s \ {Pick(s)} \in Level(n)
    BY <1>0, FS_RemoveElement, PickIn
  <2> HIDE DEF Level
  <2>4. AddsUp(h, f, Level(n + 1))
    <3>1. \A s \in Level(n + 1) : h[s] = IF s = {} THEN 0 ELSE f[Pick(s)] + h[s \ {Pick(s)}]
      BY <2>2, <2>3
    <3>2. DOMAIN h = Level(n + 1) /\ h = [s \in Level(n + 1) |-> h[s]]
      OBVIOUS
    <3> HIDE DEF h
    <3>3. h = [s \in Level(n + 1) |-> IF s = {} THEN 0 ELSE f[Pick(s)] + h[s \ {Pick(s)}]]
      BY <3>1, <3>2
    <3> QED BY <3>3 DEF AddsUp
  <2> QED
    BY <2>4
<1> HIDE DEF H
<1>3. Cardinality(S) \in H
  BY <1>0, <1>1, <1>2, Induction
<1>4. Level(Cardinality(S)) = SUBSET S
  BY <1>0
<1> QED
  BY <1>3, <1>4 DEF H, AddsUpOn

\* Two functions that add up f agree where both are defined.
LEMMA AddsUpUnique ==
    \A f, S, A, g, h : IsFiniteSet(S) /\ A \in SUBSET S /\ AddsUpOn(g, f, S) /\ AddsUpOn(h, f, A)
        => g[A] = h[A]
<1> SUFFICES ASSUME NEW f, NEW S, NEW A \in SUBSET S, NEW g, NEW h,
                    IsFiniteSet(S), AddsUpOn(g, f, S), AddsUpOn(h, f, A)
             PROVE  g[A] = h[A]
  OBVIOUS
<1> DEFINE H == {n \in Nat : \A s \in SUBSET A : Cardinality(s) = n => g[s] = h[s]}
<1>0. \A s \in SUBSET A : s \in SUBSET S /\ IsFiniteSet(s) /\ Cardinality(s) \in Nat
  BY FS_Subset, FS_CardinalityType
<1>a. \A s \in SUBSET S : g[s] = IF s = {} THEN 0 ELSE f[Pick(s)] + g[s \ {Pick(s)}]
  BY DEF AddsUp, AddsUpOn
<1>b. \A s \in SUBSET A : h[s] = IF s = {} THEN 0 ELSE f[Pick(s)] + h[s \ {Pick(s)}]
  BY DEF AddsUp, AddsUpOn
<1>1. 0 \in H
  BY <1>0, <1>a, <1>b, FS_EmptySet
<1>2. ASSUME NEW n \in Nat, n \in H PROVE n + 1 \in H
  <2> SUFFICES ASSUME NEW s \in SUBSET A, Cardinality(s) = n + 1 PROVE g[s] = h[s]
    OBVIOUS
  <2>1. s # {} /\ Pick(s) \in s
    BY FS_EmptySet, PickIn
  <2>2. s \ {Pick(s)} \in SUBSET A /\ Cardinality(s \ {Pick(s)}) = n
    <3>1. Cardinality(s \ {Pick(s)})
            = IF Pick(s) \in s THEN Cardinality(s) - 1 ELSE Cardinality(s)
      BY <1>0, FS_RemoveElement
    <3> QED BY <2>1, <3>1
  <2>3. g[s \ {Pick(s)}] = h[s \ {Pick(s)}]
    BY <1>2, <2>2
  <2> QED
    BY <1>0, <1>a, <1>b, <2>1, <2>3
<1> HIDE DEF H
<1>3. Cardinality(A) \in H
  BY <1>0, <1>1, <1>2, Induction
<1> QED
  BY <1>3 DEF H

\* The sum over the empty set is zero, and the sum over another set is the picked
\* element's value and the sum over the rest.
LEMMA SumPick ==
    ASSUME NEW f, NEW S, IsFiniteSet(S)
    PROVE  SumFunctionOnSet(f, S) =
             IF S = {} THEN 0 ELSE f[Pick(S)] + SumFunctionOnSet(f, S \ {Pick(S)})
<1>0. PICK A : A = S \ {Pick(S)}
  OBVIOUS
<1>1. PICK g : AddsUpOn(g, f, S) /\ SumFunctionOnSet(f, S) = g[S]
  BY AddsUpExists, SumIs
<1>2. IsFiniteSet(A) /\ A \in SUBSET S
  BY <1>0, FS_RemoveElement
<1>3. PICK h : AddsUpOn(h, f, A) /\ SumFunctionOnSet(f, A) = h[A]
  BY <1>2, AddsUpExists, SumIs
<1>4. g[A] = h[A]
  <2>1. IsFiniteSet(S) /\ A \in SUBSET S /\ AddsUpOn(g, f, S) /\ AddsUpOn(h, f, A)
    BY <1>1, <1>2, <1>3
  <2>2. IsFiniteSet(S) /\ A \in SUBSET S /\ AddsUpOn(g, f, S) /\ AddsUpOn(h, f, A) => g[A] = h[A]
    BY AddsUpUnique
  <2> QED
    BY <2>1, <2>2, Zenon
<1>5. g[S] = IF S = {} THEN 0 ELSE f[Pick(S)] + g[A]
  BY <1>0, <1>1 DEF AddsUp, AddsUpOn
<1> QED
  BY <1>1, <1>3, <1>4, <1>5, <1>0

-----------------------------------------------------------------------------
(* The laws of sums.                                                       *)

\* The subsets of a finite set are finite, and one element less is one less.
LEMMA OneLess ==
    ASSUME NEW S, IsFiniteSet(S)
    PROVE  \A T \in SUBSET S : /\ IsFiniteSet(T) /\ Cardinality(T) \in Nat
                               /\ Cardinality(T) = 0 <=> T = {}
                               /\ \A x \in T : Cardinality(T \ {x}) = Cardinality(T) - 1
<1> TAKE T \in SUBSET S
<1>1. IsFiniteSet(T)
  BY FS_Subset
<1>2. Cardinality(T) \in Nat /\ (Cardinality(T) = 0 <=> T = {})
  BY <1>1, FS_CardinalityType, FS_EmptySet
<1>3. ASSUME NEW x \in T PROVE Cardinality(T \ {x}) = Cardinality(T) - 1
  BY <1>1, FS_RemoveElement
<1> QED
  BY <1>1, <1>2, <1>3

\* A sum over the empty set is zero.
LEMMA SumEmpty == ASSUME NEW f PROVE SumFunctionOnSet(f, {}) = 0
BY SumPick, FS_EmptySet

\* A sum of integers is an integer.
LEMMA SumInt ==
    ASSUME NEW f, NEW S, IsFiniteSet(S), \A x \in S : f[x] \in Int
    PROVE  SumFunctionOnSet(f, S) \in Int
<1> DEFINE H == {n \in Nat : \A T \in SUBSET S :
                    Cardinality(T) = n => SumFunctionOnSet(f, T) \in Int}
<1>1. 0 \in H
  BY OneLess, SumEmpty
<1>2. ASSUME NEW n \in Nat, n \in H PROVE n + 1 \in H
  <2> SUFFICES ASSUME NEW T \in SUBSET S, Cardinality(T) = n + 1
               PROVE  SumFunctionOnSet(f, T) \in Int
    OBVIOUS
  <2>1. IsFiniteSet(T) /\ T # {}
    BY OneLess
  <2>2. Pick(T) \in T /\ f[Pick(T)] \in Int
    BY <2>1, PickIn
  <2>3. T \ {Pick(T)} \in SUBSET S /\ Cardinality(T \ {Pick(T)}) = n
    BY <2>2, OneLess
  <2>4. SumFunctionOnSet(f, T \ {Pick(T)}) \in Int
    BY <1>2, <2>3
  <2> QED
    BY <2>1, <2>2, <2>4, SumPick
<1> HIDE DEF H
<1>3. Cardinality(S) \in H
  BY <1>1, <1>2, Induction, OneLess
<1> QED
  BY <1>3 DEF H

\* The order does not matter: any element may be taken out first.
LEMMA SumRemove ==
    ASSUME NEW f, NEW S, IsFiniteSet(S), \A x \in S : f[x] \in Int, NEW x \in S
    PROVE  SumFunctionOnSet(f, S) = f[x] + SumFunctionOnSet(f, S \ {x})
<1> DEFINE Out(T) == \A y \in T : SumFunctionOnSet(f, T) = f[y] + SumFunctionOnSet(f, T \ {y})
           H == {n \in Nat : \A T \in SUBSET S : Cardinality(T) = n => Out(T)}
<1>0. \A T \in SUBSET S : SumFunctionOnSet(f, T) \in Int
  BY SumInt, OneLess
<1>1. 0 \in H
  BY OneLess
<1>2. ASSUME NEW n \in Nat, n \in H PROVE n + 1 \in H
  <2> SUFFICES ASSUME NEW T \in SUBSET S, Cardinality(T) = n + 1, NEW y \in T
               PROVE  SumFunctionOnSet(f, T) = f[y] + SumFunctionOnSet(f, T \ {y})
    OBVIOUS
  <2>0. PICK p : p = Pick(T)
    OBVIOUS
  <2>1. IsFiniteSet(T) /\ p \in T
    BY <2>0, OneLess, PickIn
  <2>2. SumFunctionOnSet(f, T) = f[p] + SumFunctionOnSet(f, T \ {p})
    BY <2>0, <2>1, SumPick
  <2>3. CASE y = p
    BY <2>2, <2>3
  <2>4. CASE y # p
    <3>1. /\ T \ {p} \in SUBSET S /\ Cardinality(T \ {p}) = n /\ y \in T \ {p}
          /\ T \ {y} \in SUBSET S /\ Cardinality(T \ {y}) = n /\ p \in T \ {y}
      BY <2>1, <2>4, OneLess
    <3>2. Out(T \ {p}) /\ Out(T \ {y})
      <4> HIDE DEF Out
      <4> QED BY <1>2, <3>1
    <3>3. (T \ {p}) \ {y} = (T \ {y}) \ {p}
      OBVIOUS
    <3>4. /\ SumFunctionOnSet(f, T \ {p}) = f[y] + SumFunctionOnSet(f, (T \ {p}) \ {y})
          /\ SumFunctionOnSet(f, T \ {y}) = f[p] + SumFunctionOnSet(f, (T \ {p}) \ {y})
      BY <3>1, <3>2, <3>3, Zenon
    <3>5. SumFunctionOnSet(f, (T \ {p}) \ {y}) \in Int /\ f[p] \in Int /\ f[y] \in Int
      BY <1>0, <2>1
    <3> QED
      BY <2>2, <3>4, <3>5
  <2> QED
    BY <2>3, <2>4
<1> HIDE DEF H
<1>3. Cardinality(S) \in H
  BY <1>1, <1>2, Induction, OneLess
<1> QED
  BY <1>3 DEF H

\* One element more.
LEMMA SumAdd ==
    ASSUME NEW f, NEW S, IsFiniteSet(S), NEW x, x \notin S,
           \A y \in S : f[y] \in Int, f[x] \in Int
    PROVE  SumFunctionOnSet(f, S \cup {x}) = SumFunctionOnSet(f, S) + f[x]
<1>1. IsFiniteSet(S \cup {x}) /\ (S \cup {x}) \ {x} = S
  BY FS_AddElement
<1>2. SumFunctionOnSet(f, S) \in Int
  BY SumInt
<1>3. SumFunctionOnSet(f, S \cup {x}) = f[x] + SumFunctionOnSet(f, (S \cup {x}) \ {x})
  BY <1>1, SumRemove
<1>4. SumFunctionOnSet(f, S \cup {x}) = f[x] + SumFunctionOnSet(f, S)
  BY <1>1, <1>3, Zenon
<1> QED
  BY <1>2, <1>4

\* Functions that agree on the set have the same sum.
LEMMA SumCong ==
    ASSUME NEW f, NEW g, NEW S, IsFiniteSet(S), \A x \in S : f[x] \in Int /\ g[x] = f[x]
    PROVE  SumFunctionOnSet(g, S) = SumFunctionOnSet(f, S)
<1> DEFINE G == {T \in SUBSET S : SumFunctionOnSet(g, T) = SumFunctionOnSet(f, T)}
<1>1. {} \in G
  BY SumEmpty
<1>2. ASSUME NEW T \in SUBSET S, NEW x \in S \ T, T \in G PROVE T \cup {x} \in G
  BY <1>2, SumAdd, OneLess
<1> HIDE DEF G
<1>3. S \in G
  BY <1>1, <1>2, SubsetInduction
<1> QED
  BY <1>3 DEF G

\* One value changed.
LEMMA SumUpdate ==
    ASSUME NEW f, NEW g, NEW S, IsFiniteSet(S), NEW x \in S,
           \A y \in S : f[y] \in Int, g[x] \in Int, \A y \in S \ {x} : g[y] = f[y]
    PROVE  SumFunctionOnSet(g, S) = SumFunctionOnSet(f, S) - f[x] + g[x]
<1>1. IsFiniteSet(S \ {x})
  BY FS_RemoveElement
<1>2. SumFunctionOnSet(f, S \ {x}) \in Int
  BY <1>1, SumInt
<1>3. SumFunctionOnSet(g, S \ {x}) = SumFunctionOnSet(f, S \ {x})
  BY <1>1, SumCong
<1>4. SumFunctionOnSet(f, S) = f[x] + SumFunctionOnSet(f, S \ {x})
  BY SumRemove
<1>5. SumFunctionOnSet(g, S) = g[x] + SumFunctionOnSet(g, S \ {x})
  BY SumRemove
<1> QED
  BY <1>2, <1>3, <1>4, <1>5

\* A sum of natural numbers is one, and larger functions have larger sums.
LEMMA SumMono ==
    ASSUME NEW f, NEW g, NEW S, IsFiniteSet(S),
           \A x \in S : f[x] \in Int /\ g[x] \in Int /\ f[x] <= g[x]
    PROVE  SumFunctionOnSet(f, S) <= SumFunctionOnSet(g, S)
<1> DEFINE G == {T \in SUBSET S : SumFunctionOnSet(f, T) <= SumFunctionOnSet(g, T)}
<1>1. {} \in G
  BY SumEmpty
<1>2. ASSUME NEW T \in SUBSET S, NEW x \in S \ T, T \in G PROVE T \cup {x} \in G
  <2>1. /\ SumFunctionOnSet(f, T \cup {x}) = SumFunctionOnSet(f, T) + f[x]
        /\ SumFunctionOnSet(g, T \cup {x}) = SumFunctionOnSet(g, T) + g[x]
    BY SumAdd, OneLess
  <2>2. SumFunctionOnSet(f, T) \in Int /\ SumFunctionOnSet(g, T) \in Int
    BY SumInt, OneLess
  <2> QED
    BY <1>2, <2>1, <2>2
<1> HIDE DEF G
<1>3. S \in G
  BY <1>1, <1>2, SubsetInduction
<1> QED
  BY <1>3 DEF G

\* Zeros add up to zero.
LEMMA SumZero ==
    ASSUME NEW f, NEW S, IsFiniteSet(S), \A x \in S : f[x] = 0
    PROVE  SumFunctionOnSet(f, S) = 0
<1> DEFINE G == {T \in SUBSET S : SumFunctionOnSet(f, T) = 0}
<1>1. {} \in G
  BY SumEmpty
<1>2. ASSUME NEW T \in SUBSET S, NEW x \in S \ T, T \in G PROVE T \cup {x} \in G
  BY <1>2, SumAdd, OneLess
<1> HIDE DEF G
<1>3. S \in G
  BY <1>1, <1>2, SubsetInduction
<1> QED
  BY <1>3 DEF G

\* A sum of natural numbers is a natural number.
LEMMA SumNat ==
    ASSUME NEW f, NEW S, IsFiniteSet(S), \A x \in S : f[x] \in Nat
    PROVE  SumFunctionOnSet(f, S) \in Nat
<1> DEFINE z == [x \in S |-> 0]
<1>1. SumFunctionOnSet(z, S) = 0
  BY SumZero
<1>2. SumFunctionOnSet(z, S) <= SumFunctionOnSet(f, S)
  BY SumMono
<1>3. SumFunctionOnSet(f, S) \in Int
  BY SumInt
<1> QED
  BY <1>1, <1>2, <1>3

\* The sum of two functions adds their sums.
LEMMA SumPlus ==
    ASSUME NEW f, NEW g, NEW h, NEW S, IsFiniteSet(S),
           \A x \in S : f[x] \in Int /\ g[x] \in Int /\ h[x] = f[x] + g[x]
    PROVE  SumFunctionOnSet(h, S) = SumFunctionOnSet(f, S) + SumFunctionOnSet(g, S)
<1> DEFINE G == {T \in SUBSET S :
                   SumFunctionOnSet(h, T) = SumFunctionOnSet(f, T) + SumFunctionOnSet(g, T)}
<1>1. {} \in G
  BY SumEmpty
<1>2. ASSUME NEW T \in SUBSET S, NEW x \in S \ T, T \in G PROVE T \cup {x} \in G
  <2>1. /\ SumFunctionOnSet(f, T \cup {x}) = SumFunctionOnSet(f, T) + f[x]
        /\ SumFunctionOnSet(g, T \cup {x}) = SumFunctionOnSet(g, T) + g[x]
        /\ SumFunctionOnSet(h, T \cup {x}) = SumFunctionOnSet(h, T) + h[x]
    BY SumAdd, OneLess
  <2>2. SumFunctionOnSet(f, T) \in Int /\ SumFunctionOnSet(g, T) \in Int
    BY SumInt, OneLess
  <2> QED
    BY <1>2, <2>1, <2>2
<1> HIDE DEF G
<1>3. S \in G
  BY <1>1, <1>2, SubsetInduction
<1> QED
  BY <1>3 DEF G

\* Two sets without a common element.
LEMMA SumDisjoint ==
    ASSUME NEW f, NEW S, NEW U, IsFiniteSet(S), IsFiniteSet(U), S \cap U = {},
           \A x \in S \cup U : f[x] \in Int
    PROVE  SumFunctionOnSet(f, S \cup U) = SumFunctionOnSet(f, S) + SumFunctionOnSet(f, U)
<1> DEFINE G == {T \in SUBSET S :
                   SumFunctionOnSet(f, T \cup U) = SumFunctionOnSet(f, T) + SumFunctionOnSet(f, U)}
<1>0. SumFunctionOnSet(f, U) \in Int
  BY SumInt
<1>1. {} \in G
  <2>1. {} \cup U = U
    OBVIOUS
  <2> QED BY <1>0, <2>1, SumEmpty
<1>2. ASSUME NEW T \in SUBSET S, NEW x \in S \ T, T \in G PROVE T \cup {x} \in G
  <2>1. IsFiniteSet(T \cup U) /\ IsFiniteSet(T) /\ x \notin T \cup U
    BY OneLess, FS_Union
  <2>2. /\ SumFunctionOnSet(f, T \cup {x}) = SumFunctionOnSet(f, T) + f[x]
        /\ SumFunctionOnSet(f, (T \cup U) \cup {x}) = SumFunctionOnSet(f, T \cup U) + f[x]
    BY <2>1, SumAdd
  <2>3. (T \cup U) \cup {x} = (T \cup {x}) \cup U
    OBVIOUS
  <2>4. SumFunctionOnSet(f, T) \in Int
    BY <2>1, SumInt
  <2> QED
    <3>1. SumFunctionOnSet(f, (T \cup {x}) \cup U) = SumFunctionOnSet(f, T \cup U) + f[x]
      BY <2>2, <2>3, Zenon
    <3>2. f[x] \in Int
      OBVIOUS
    <3> QED
      BY <1>0, <1>2, <2>2, <2>4, <3>1, <3>2
<1> HIDE DEF G
<1>3. S \in G
  BY <1>1, <1>2, SubsetInduction
<1> QED
  BY <1>3 DEF G

\* A part of the natural numbers in a sum is at most the sum.
LEMMA SumPart ==
    ASSUME NEW f, NEW S, IsFiniteSet(S), \A x \in S : f[x] \in Nat, NEW T \in SUBSET S
    PROVE  SumFunctionOnSet(f, T) <= SumFunctionOnSet(f, S)
<1>1. IsFiniteSet(T) /\ IsFiniteSet(S \ T)
  BY FS_Subset
<1>2. SumFunctionOnSet(f, T) \in Nat /\ SumFunctionOnSet(f, S \ T) \in Nat
  BY <1>1, SumNat
<1>3. T \cup (S \ T) = S /\ T \cap (S \ T) = {}
  OBVIOUS
<1>4. SumFunctionOnSet(f, T \cup (S \ T)) = SumFunctionOnSet(f, T) + SumFunctionOnSet(f, S \ T)
  BY <1>1, <1>3, SumDisjoint
<1>5. SumFunctionOnSet(f, S) = SumFunctionOnSet(f, T) + SumFunctionOnSet(f, S \ T)
  BY <1>3, <1>4, Zenon
<1> QED
  BY <1>2, <1>5

\* b renames the elements of S one to one to those of R, and g holds for the new
\* name what f holds for the old one.
Renames(b, f, S, g, R) ==
    /\ \A x \in S : f[x] \in Int /\ g[b[x]] = f[x]
    /\ \A x, y \in S : b[x] = b[y] => x = y
    /\ \A z : z \in R <=> \E x \in S : z = b[x]

\* Renaming the elements leaves the sum as it is.
LEMMA SumRename ==
    ASSUME NEW b, NEW f, NEW S, NEW g, NEW R, IsFiniteSet(S), Renames(b, f, S, g, R)
    PROVE  SumFunctionOnSet(g, R) = SumFunctionOnSet(f, S)
<1> USE DEF Renames
<1> DEFINE Image(T) == {b[x] : x \in T}
           G == {T \in SUBSET S : /\ IsFiniteSet(Image(T))
                                  /\ SumFunctionOnSet(g, Image(T)) = SumFunctionOnSet(f, T)}
<1>1. {} \in G
  <2>1. Image({}) = {}
    OBVIOUS
  <2>2. SumFunctionOnSet(g, Image({})) = 0 /\ IsFiniteSet(Image({}))
    <3> HIDE DEF Image
    <3> QED BY <2>1, SumEmpty, FS_EmptySet
  <2>3. SumFunctionOnSet(f, {}) = 0
    BY SumEmpty
  <2> QED
    BY <2>2, <2>3
<1>2. ASSUME NEW T \in SUBSET S, NEW x \in S \ T, T \in G PROVE T \cup {x} \in G
  <2>1. Image(T \cup {x}) = Image(T) \cup {b[x]}
    OBVIOUS
  <2>2. b[x] \notin Image(T) /\ \A y \in Image(T) : g[y] \in Int
    OBVIOUS
  <2>3. g[b[x]] = f[x] /\ f[x] \in Int /\ \A y \in T : f[y] \in Int
    OBVIOUS
  <2>4. IsFiniteSet(T) /\ IsFiniteSet(Image(T))
    BY <1>2, OneLess
  <2>5. SumFunctionOnSet(f, T \cup {x}) = SumFunctionOnSet(f, T) + f[x]
    BY <2>3, <2>4, SumAdd
  <2>6. SumFunctionOnSet(g, Image(T)) = SumFunctionOnSet(f, T)
    BY <1>2
  <2> HIDE DEF Image
  <2>7. /\ SumFunctionOnSet(g, Image(T) \cup {b[x]}) = SumFunctionOnSet(g, Image(T)) + g[b[x]]
        /\ IsFiniteSet(Image(T) \cup {b[x]})
    BY <2>2, <2>3, <2>4, SumAdd, FS_AddElement
  <2>8. /\ SumFunctionOnSet(g, Image(T \cup {x})) = SumFunctionOnSet(g, Image(T)) + g[b[x]]
        /\ IsFiniteSet(Image(T \cup {x}))
    BY <2>1, <2>7, Zenon
  <2>9. SumFunctionOnSet(g, Image(T \cup {x})) = SumFunctionOnSet(f, T \cup {x})
    BY <2>3, <2>5, <2>6, <2>8
  <2> QED
    BY <2>8, <2>9
<1> HIDE DEF G
<1>3. S \in G
  BY <1>1, <1>2, SubsetInduction
<1>4. R = Image(S)
  OBVIOUS
<1> HIDE DEF Image
<1>5. SumFunctionOnSet(g, Image(S)) = SumFunctionOnSet(f, S)
  BY <1>3 DEF G
<1> QED
  BY <1>4, <1>5, Zenon

\* The image of a finite set is finite.
LEMMA FiniteImage ==
    ASSUME NEW S, IsFiniteSet(S), NEW f
    PROVE  IsFiniteSet({f[x] : x \in S})
<1> DEFINE Image(T) == {f[x] : x \in T}
           G == {T \in SUBSET S : IsFiniteSet(Image(T))}
<1>1. {} \in G
  <2>1. Image({}) = {}
    OBVIOUS
  <2>2. IsFiniteSet(Image({}))
    BY <2>1, FS_EmptySet, Zenon
  <2> QED BY <2>2
<1>2. ASSUME NEW T \in SUBSET S, NEW x \in S \ T, T \in G PROVE T \cup {x} \in G
  <2>1. Image(T \cup {x}) = Image(T) \cup {f[x]}
    OBVIOUS
  <2>2. IsFiniteSet(Image(T))
    BY <1>2
  <2> HIDE DEF Image
  <2>3. IsFiniteSet(Image(T) \cup {f[x]})
    BY <2>2, FS_AddElement
  <2>4. IsFiniteSet(Image(T \cup {x}))
    BY <2>1, <2>3, Zenon
  <2> QED BY <2>4
<1> HIDE DEF G
<1>3. S \in G
  BY <1>1, <1>2, SubsetInduction
<1> QED
  BY <1>3 DEF G

\* k puts every element of S in a class of C, and h holds the sum over each class.
Classes(k, f, S, h, C) ==
    /\ \A x \in S : f[x] \in Int /\ k[x] \in C
    /\ \A c \in C : h[c] = SumFunctionOnSet(f, {x \in S : k[x] = c})

\* Adding up class by class.
LEMMA SumByClass ==
    ASSUME NEW f, NEW h, NEW k, NEW S, NEW C, IsFiniteSet(S), IsFiniteSet(C), Classes(k, f, S, h, C)
    PROVE  SumFunctionOnSet(h, C) = SumFunctionOnSet(f, S)
<1>0. /\ \A x \in S : f[x] \in Int /\ k[x] \in C
      /\ \A c \in C : h[c] = SumFunctionOnSet(f, {x \in S : k[x] = c})
  BY DEF Classes
<1> DEFINE In(D) == {x \in S : k[x] \in D}
           G == {D \in SUBSET C : SumFunctionOnSet(h, D) = SumFunctionOnSet(f, In(D))}
<1>1. {} \in G
  <2>1. In({}) = {}
    OBVIOUS
  <2>2. SumFunctionOnSet(f, In({})) = 0
    <3> HIDE DEF In
    <3> QED BY <2>1, SumEmpty
  <2> QED
    BY <2>2, SumEmpty
<1>2. ASSUME NEW D \in SUBSET C, NEW c \in C \ D, D \in G PROVE D \cup {c} \in G
  <2> DEFINE Fibre == {x \in S : k[x] = c}
  <2>1. In(D \cup {c}) = In(D) \cup Fibre /\ In(D) \cap Fibre = {}
    OBVIOUS
  <2>2. IsFiniteSet(In(D)) /\ IsFiniteSet(Fibre) /\ IsFiniteSet(D)
    BY OneLess
  <2>3. /\ \A x \in In(D) \cup Fibre : f[x] \in Int
        /\ SumFunctionOnSet(f, In(D)) = SumFunctionOnSet(h, D)
        /\ h[c] = SumFunctionOnSet(f, Fibre)
    BY <1>0, <1>2
  <2>4. ASSUME NEW d \in D PROVE h[d] \in Int
    <3>1. PICK F : F = {x \in S : k[x] = d}
      OBVIOUS
    <3>2. F \in SUBSET S /\ h[d] = SumFunctionOnSet(f, F)
      BY <1>0, <3>1
    <3>3. IsFiniteSet(F) /\ \A x \in F : f[x] \in Int
      BY <1>0, <3>2, OneLess
    <3> QED BY <3>2, <3>3, SumInt
  <2> HIDE DEF In, Fibre
  <2>5. SumFunctionOnSet(f, In(D) \cup Fibre) = SumFunctionOnSet(f, In(D)) + SumFunctionOnSet(f, Fibre)
    BY <2>1, <2>2, <2>3, SumDisjoint
  <2>6. SumFunctionOnSet(f, Fibre) \in Int
    BY <2>2, <2>3, SumInt
  <2>7. SumFunctionOnSet(h, D \cup {c}) = SumFunctionOnSet(h, D) + h[c]
    BY <2>2, <2>3, <2>4, <2>6, SumAdd
  <2>8. SumFunctionOnSet(h, D \cup {c}) = SumFunctionOnSet(f, In(D \cup {c}))
    <3>1. SumFunctionOnSet(h, D \cup {c}) = SumFunctionOnSet(f, In(D) \cup Fibre)
      BY <2>3, <2>5, <2>7
    <3> QED BY <2>1, <3>1, Zenon
  <2> QED
    BY <2>8
<1>3. S = In(C)
  BY <1>0
<1> HIDE DEF G, In
<1>4. C \in G
  BY <1>1, <1>2, SubsetInduction
<1>5. SumFunctionOnSet(h, C) = SumFunctionOnSet(f, In(C))
  BY <1>4 DEF G
<1> QED
  BY <1>3, <1>5, Zenon
=============================================================================
