------------------------------ MODULE DataLemmas ------------------------------
(***************************************************************************)
(* What the proofs need of data of any size: induction over numbers and    *)
(* over the subsets of a finite set, stated with sets instead of operators *)
(* so that the lemmas can be cited; sums over a finite set; and the order  *)
(* in which a finite set is listed.                                        *)
(***************************************************************************)
EXTENDS Integers, Sequences, FiniteSetsExt, FiniteSetTheorems, FunctionTheorems, WellFoundedInduction, TLAPS

(***************************************************************************)
(* Induction.                                                              *)
(***************************************************************************)
\* A set of numbers that has 0, and with n also n + 1, has them all.
LEMMA InductionOverNat ==
    ASSUME NEW T \in SUBSET Nat, 0 \in T, \A n \in T : n + 1 \in T
    PROVE  T = Nat
<1> SUFFICES ASSUME Nat \ T # {} PROVE FALSE
  OBVIOUS
<1>1. PICK x \in Nat \ T : \A y \in Nat \ T : ~(<<y, x>> \in OpToRel(<, Nat))
  BY NatLessThanWellFounded, WFMin
<1>2. x # 0 /\ x - 1 \in Nat /\ x - 1 < x
  OBVIOUS
<1>3. <<x - 1, x>> \in OpToRel(<, Nat)
  BY <1>2 DEF OpToRel
<1>4. x - 1 \in Nat \ T
  BY <1>2
<1>. QED  BY <1>1, <1>3, <1>4, Zenon

\* A family of subsets of a finite set that has the empty set, and a set
\* whenever it has what is left of it without any of its members, has them all.
LEMMA InductionOverSubsets ==
    ASSUME NEW S, IsFiniteSet(S), NEW F \in SUBSET SUBSET S,
           {} \in F,
           \A s \in SUBSET S : s # {} /\ (\A x \in s : s \ {x} \in F) => s \in F
    PROVE  F = SUBSET S
<1> DEFINE T == {n \in Nat : \A s \in SUBSET S : Cardinality(s) = n => s \in F}
<1>1. \A s \in SUBSET S : IsFiniteSet(s) /\ Cardinality(s) \in Nat
  BY FS_Subset, FS_CardinalityType
<1>2. 0 \in T
  BY <1>1, FS_EmptySet
<1>3. ASSUME NEW n \in T PROVE n + 1 \in T
  <2> SUFFICES ASSUME NEW s \in SUBSET S, Cardinality(s) = n + 1 PROVE s \in F
    BY <1>3
  <2>1. IsFiniteSet(s) /\ s # {}
    BY <1>1, <1>3, FS_EmptySet
  <2>2. ASSUME NEW x \in s PROVE s \ {x} \in F
    <3>1. Cardinality(s \ {x}) = Cardinality(s) - 1
      BY <2>1, FS_RemoveElement
    <3>2. n \in Nat /\ s \ {x} \in SUBSET S
      BY <1>3
    <3>3. Cardinality(s \ {x}) = n
      BY <3>1, <3>2
    <3>. QED  BY <1>3, <3>2, <3>3
  <2>. QED  BY <2>1, <2>2
<1> HIDE DEF T
<1>4. T = Nat
  BY <1>2, <1>3, InductionOverNat DEF T
<1>. QED  BY <1>1, <1>4 DEF T

\* Of finitely many, one is the greatest.
LEMMA GreatestOf ==
    ASSUME NEW S, IsFiniteSet(S), S # {}, NEW f, \A x \in S : f[x] \in Int
    PROVE  \E x \in S : \A y \in S : f[y] <= f[x]
<1> DEFINE F == {s \in SUBSET S : s # {} => \E x \in s : \A y \in s : f[y] <= f[x]}
<1>1. {} \in F
  OBVIOUS
<1>2. ASSUME NEW s \in SUBSET S, s # {}, \A x \in s : s \ {x} \in F PROVE s \in F
  <2>1. PICK z \in s : TRUE
    BY <1>2
  <2>2. CASE s = {z}
    BY <2>1, <2>2
  <2>3. CASE s # {z}
    <3>1. s \ {z} # {}
      BY <2>1, <2>3
    <3>2. PICK x \in s \ {z} : \A y \in s \ {z} : f[y] <= f[x]
      BY <1>2, <2>1, <3>1
    <3>3. f[x] \in Int /\ f[z] \in Int /\ \A y \in s : f[y] \in Int
      BY <2>1, <3>2
    <3>4. CASE f[z] <= f[x]
      BY <3>2, <3>3, <3>4
    <3>5. CASE ~(f[z] <= f[x])
      <4>1. \A y \in s : f[y] <= f[z]
        BY <3>2, <3>3, <3>5
      <4>. QED  BY <2>1, <4>1
    <3>. QED  BY <3>4, <3>5
  <2>. QED  BY <2>2, <2>3
<1>3. F \in SUBSET SUBSET S
  OBVIOUS
<1> HIDE DEF F
<1>4. F = SUBSET S
  BY <1>1, <1>2, <1>3, InductionOverSubsets
<1>. QED  BY <1>4 DEF F

(***************************************************************************)
(* Sums over a finite set.  MapThenSumSet adds up recursively, taking out  *)
(* one member after another; IsSum says that a function holds the sums of  *)
(* f over the subsets of S so computed.                                    *)
(***************************************************************************)
AnyOf(s) == CHOOSE x \in s : TRUE

SumOn(D, it, f) == [s \in D |-> IF s = {} THEN 0 ELSE f[AnyOf(s)] + it[s \ {AnyOf(s)}]]
IsSum(it, f, S) == it = SumOn(SUBSET S, it, f)

\* The recursion is well founded.
LEMMA SumExists ==
    ASSUME NEW S, IsFiniteSet(S), NEW f
    PROVE  \E it : IsSum(it, f, S)
<1> DEFINE Small(n) == {s \in SUBSET S : Cardinality(s) <= n}
           T == {n \in Nat : \E it : it = SumOn(Small(n), it, f)}
<1>1. \A s \in SUBSET S : IsFiniteSet(s) /\ Cardinality(s) \in Nat /\ Cardinality(s) <= Cardinality(S)
  BY FS_Subset, FS_CardinalityType
<1>2. \A s \in SUBSET S : s # {} => AnyOf(s) \in s
  BY DEF AnyOf
<1>3. 0 \in T
  <2>1. Small(0) = {{}}
    BY <1>1, FS_EmptySet
  <2>2. [s \in {{}} |-> 0] = SumOn(Small(0), [s \in {{}} |-> 0], f)
    BY <2>1 DEF SumOn
  <2>. QED  BY <2>2
<1>4. ASSUME NEW n \in T PROVE n + 1 \in T
  <2>1. PICK it : it = SumOn(Small(n), it, f)
    BY <1>4
  <2> DEFINE next == SumOn(Small(n + 1), it, f)
  <2>2. ASSUME NEW s \in Small(n + 1), s # {} PROVE s \ {AnyOf(s)} \in Small(n)
    <3>1. AnyOf(s) \in s /\ IsFiniteSet(s) /\ Cardinality(s) <= n + 1 /\ s \in SUBSET S
      BY <1>1, <1>2, <2>2
    <3>2. Cardinality(s \ {AnyOf(s)}) = Cardinality(s) - 1
      BY <3>1, FS_RemoveElement
    <3>. QED  BY <1>1, <1>4, <3>1, <3>2
  <2>3. Small(n) \subseteq Small(n + 1)
    BY <1>1, <1>4
  <2>4. \A u \in Small(n) : next[u] = it[u]
    <3> HIDE DEF Small
    <3>. QED  BY <2>1, <2>3 DEF SumOn
  <2>5. next = SumOn(Small(n + 1), next, f)
    <3> HIDE DEF Small
    <3>. QED  BY <2>2, <2>4 DEF SumOn
  <2>6. \E g : g = SumOn(Small(n + 1), g, f)
    <3> HIDE DEF next, Small
    <3>. QED  BY <2>5
  <2> HIDE DEF Small
  <2>. QED  BY <1>4, <2>6
<1> HIDE DEF T
<1>5. T = Nat
  BY <1>3, <1>4, InductionOverNat DEF T
<1>6. Cardinality(S) \in Nat /\ Small(Cardinality(S)) = SUBSET S
  BY <1>1, FS_CardinalityType
<1> HIDE DEF Small
<1>. QED  BY <1>5, <1>6 DEF T, IsSum

\* One step of the recursion.
LEMMA SumStep ==
    ASSUME NEW S, NEW f, NEW it, IsSum(it, f, S), NEW s \in SUBSET S
    PROVE  /\ s = {} => it[s] = 0
           /\ s # {} => AnyOf(s) \in s /\ it[s] = f[AnyOf(s)] + it[s \ {AnyOf(s)}]
BY DEF IsSum, SumOn, AnyOf

LEMMA SumSteps ==
    ASSUME NEW S, NEW f, NEW it, IsSum(it, f, S)
    PROVE  /\ it[{}] = 0
           /\ \A s \in SUBSET S : s # {} => AnyOf(s) \in s /\ it[s] = f[AnyOf(s)] + it[s \ {AnyOf(s)}]
<1>1. it[{}] = 0
  BY SumStep
<1>2. ASSUME NEW s \in SUBSET S, s # {}
      PROVE  AnyOf(s) \in s /\ it[s] = f[AnyOf(s)] + it[s \ {AnyOf(s)}]
  BY <1>2, SumStep
<1>. QED  BY <1>1, <1>2

LEMMA SumIsUnique ==
    ASSUME NEW S, IsFiniteSet(S), NEW f, NEW it, NEW jt, IsSum(it, f, S), IsSum(jt, f, S)
    PROVE  it[S] = jt[S]
<1> DEFINE F == {s \in SUBSET S : it[s] = jt[s]}
<1>1. {} \in F
  <2>1. {} \in SUBSET S
    OBVIOUS
  <2>2. it[{}] = 0
    BY <2>1, SumStep
  <2>3. jt[{}] = 0
    BY <2>1, SumStep
  <2>. QED  BY <2>2, <2>3
<1>2. ASSUME NEW s \in SUBSET S, s # {}, \A x \in s : s \ {x} \in F PROVE s \in F
  <2>1. AnyOf(s) \in s /\ it[s] = f[AnyOf(s)] + it[s \ {AnyOf(s)}] /\ jt[s] = f[AnyOf(s)] + jt[s \ {AnyOf(s)}]
    BY <1>2, SumStep
  <2>. QED  BY <1>2, <2>1
<1>3. F \in SUBSET SUBSET S
  OBVIOUS
<1> HIDE DEF F
<1>4. F = SUBSET S
  BY <1>1, <1>2, <1>3, InductionOverSubsets
<1>. QED  BY <1>4 DEF F

LEMMA SumHasType ==
    ASSUME NEW S, IsFiniteSet(S), NEW f, NEW it, IsSum(it, f, S),
           NEW N \in {Nat, Int}, \A x \in S : f[x] \in N
    PROVE  it[S] \in N
<1> DEFINE F == {s \in SUBSET S : it[s] \in N}
<1>1. {} \in F
  BY SumStep
<1>2. ASSUME NEW s \in SUBSET S, s # {}, \A x \in s : s \ {x} \in F PROVE s \in F
  <2>1. AnyOf(s) \in s /\ it[s] = f[AnyOf(s)] + it[s \ {AnyOf(s)}]
    BY <1>2, SumStep
  <2>2. f[AnyOf(s)] \in N /\ it[s \ {AnyOf(s)}] \in N
    BY <1>2, <2>1
  <2>. QED  BY <2>1, <2>2
<1>3. F \in SUBSET SUBSET S
  OBVIOUS
<1> HIDE DEF F
<1>4. F = SUBSET S
  BY <1>1, <1>2, <1>3, InductionOverSubsets
<1>. QED  BY <1>4 DEF F

\* What is summed may be changed at one place.
LEMMA SumChanges ==
    ASSUME NEW S, IsFiniteSet(S), NEW f, NEW g, NEW it, NEW jt, IsSum(it, f, S), IsSum(jt, g, S),
           NEW r \in S, NEW d \in Int, \A x \in S : f[x] \in Int,
           \A x \in S : g[x] = IF x = r THEN f[x] + d ELSE f[x]
    PROVE  jt[S] = it[S] + d
<1> DEFINE F == {s \in SUBSET S : it[s] \in Int /\ jt[s] = it[s] + (IF r \in s THEN d ELSE 0)}
<1>5. it[{}] = 0 /\ \A s \in SUBSET S : s # {} => AnyOf(s) \in s /\ it[s] = f[AnyOf(s)] + it[s \ {AnyOf(s)}]
  BY SumSteps
<1>6. jt[{}] = 0 /\ \A s \in SUBSET S : s # {} => AnyOf(s) \in s /\ jt[s] = g[AnyOf(s)] + jt[s \ {AnyOf(s)}]
  BY SumSteps
<1>1. {} \in F
  BY <1>5, <1>6
<1>2. ASSUME NEW s \in SUBSET S, s # {}, \A x \in s : s \ {x} \in F PROVE s \in F
  <2> DEFINE y == AnyOf(s)
             rest == s \ {y}
  <2>1. y \in s /\ it[s] = f[y] + it[rest] /\ jt[s] = g[y] + jt[rest]
    BY <1>2, <1>5, <1>6
  <2>2. it[rest] \in Int /\ jt[rest] = it[rest] + (IF r \in rest THEN d ELSE 0)
    BY <1>2, <2>1
  <2>3. f[y] \in Int /\ g[y] = (IF y = r THEN f[y] + d ELSE f[y])
    BY <2>1
  <2>4. r \in rest <=> (r \in s /\ y # r)
    BY <2>1
  <2> HIDE DEF y, rest
  <2>. QED  BY <2>1, <2>2, <2>3, <2>4
<1>3. F \in SUBSET SUBSET S
  OBVIOUS
<1> HIDE DEF F
<1>4. F = SUBSET S
  BY <1>1, <1>2, <1>3, InductionOverSubsets
<1>. QED  BY <1>4 DEF F

LEMMA SumOfNothing ==
    ASSUME NEW S, IsFiniteSet(S), NEW f, NEW it, IsSum(it, f, S), \A x \in S : f[x] = 0
    PROVE  it[S] = 0
<1> DEFINE F == {s \in SUBSET S : it[s] = 0}
<1>1. {} \in F
  BY SumStep
<1>2. ASSUME NEW s \in SUBSET S, s # {}, \A x \in s : s \ {x} \in F PROVE s \in F
  <2>1. AnyOf(s) \in s /\ it[s] = f[AnyOf(s)] + it[s \ {AnyOf(s)}]
    BY <1>2, SumStep
  <2>2. f[AnyOf(s)] = 0 /\ it[s \ {AnyOf(s)}] = 0
    BY <1>2, <2>1
  <2>. QED  BY <2>1, <2>2
<1>3. F \in SUBSET SUBSET S
  OBVIOUS
<1> HIDE DEF F
<1>4. F = SUBSET S
  BY <1>1, <1>2, <1>3, InductionOverSubsets
<1>. QED  BY <1>4 DEF F

(***************************************************************************)
(* The same of MapThenSumSet.  A sum of another operator than application  *)
(* is brought to this form by SumIsUnique where it is used.                *)
(***************************************************************************)
SumOf(f, S) == MapThenSumSet(LAMBDA x : f[x], S)

LEMMA SumOfIsSum ==
    ASSUME NEW S, IsFiniteSet(S), NEW f
    PROVE  \E it : IsSum(it, f, S) /\ SumOf(f, S) = it[S]
<1>1. \E it : IsSum(it, f, S)
  BY SumExists
<1>. QED  BY <1>1 DEF IsSum, SumOn, AnyOf, SumOf, MapThenSumSet, MapThenFoldSet

LEMMA SumOfHasType ==
    ASSUME NEW S, IsFiniteSet(S), NEW f, NEW N \in {Nat, Int}, \A x \in S : f[x] \in N
    PROVE  SumOf(f, S) \in N
BY SumOfIsSum, SumHasType

LEMMA SumOfChanges ==
    ASSUME NEW S, IsFiniteSet(S), NEW f, NEW g,
           NEW r \in S, NEW d \in Int, \A x \in S : f[x] \in Int,
           \A x \in S : g[x] = IF x = r THEN f[x] + d ELSE f[x]
    PROVE  SumOf(g, S) = SumOf(f, S) + d
<1>1. PICK it : IsSum(it, f, S) /\ SumOf(f, S) = it[S]
  BY SumOfIsSum
<1>2. PICK jt : IsSum(jt, g, S) /\ SumOf(g, S) = jt[S]
  BY SumOfIsSum
<1>3. jt[S] = it[S] + d
  BY <1>1, <1>2, SumChanges
<1>. QED  BY <1>1, <1>2, <1>3

LEMMA SumOfZeros ==
    ASSUME NEW S, IsFiniteSet(S), NEW f, \A x \in S : f[x] = 0
    PROVE  SumOf(f, S) = 0
BY SumOfIsSum, SumOfNothing

LEMMA SumOfOne ==
    ASSUME NEW f, NEW x, f[x] \in Int
    PROVE  SumOf(f, {x}) = f[x]
<1> DEFINE zero == [y \in {x} |-> 0]
<1>1. IsFiniteSet({x})
  BY FS_Singleton
<1>2. SumOf(zero, {x}) = 0
  BY <1>1, SumOfZeros
<1>3. SumOf(f, {x}) = SumOf(zero, {x}) + f[x]
  <2>1. /\ \A y \in {x} : zero[y] \in Int
        /\ \A y \in {x} : f[y] = IF y = x THEN zero[y] + f[x] ELSE zero[y]
    OBVIOUS
  <2> HIDE DEF zero
  <2>. QED  BY <1>1, <2>1, SumOfChanges
<1>. QED  BY <1>2, <1>3

(***************************************************************************)
(* The members of a finite set in order.  Before[p] are those that come    *)
(* before p; how many they are is p's place.                               *)
(***************************************************************************)
IsOrder(Before, S) ==
    /\ Before \in [S -> SUBSET S]
    /\ \A p \in S : p \notin Before[p]
    /\ \A p, q \in S : p \in Before[q] => Before[p] \subseteq Before[q]
    /\ \A p, q \in S : p # q => p \in Before[q] \/ q \in Before[p]

PlacesIn(Before, S) == [p \in S |-> Cardinality(Before[p])]

LEMMA PlaceOf ==
    ASSUME NEW S, IsFiniteSet(S), NEW Before, IsOrder(Before, S), NEW p \in S
    PROVE  /\ IsFiniteSet(Before[p]) /\ Cardinality(Before[p]) \in 0 .. Cardinality(S) - 1
           /\ \A q \in S : q \in Before[p] => Cardinality(Before[q]) < Cardinality(Before[p])
<1>1. Cardinality(S) \in Nat
  BY FS_CardinalityType
<1>2. Before[p] \in SUBSET S /\ Before[p] # S
  BY DEF IsOrder
<1>3. IsFiniteSet(Before[p]) /\ Cardinality(Before[p]) <= Cardinality(S) /\ Cardinality(Before[p]) \in Nat
      /\ Cardinality(Before[p]) # Cardinality(S)
  BY <1>2, FS_Subset, FS_CardinalityType
<1>4. ASSUME NEW q \in S, q \in Before[p] PROVE Cardinality(Before[q]) < Cardinality(Before[p])
  <2>1. Before[q] \in SUBSET Before[p] /\ Before[q] # Before[p]
    BY <1>4 DEF IsOrder
  <2>2. Cardinality(Before[q]) <= Cardinality(Before[p]) /\ Cardinality(Before[q]) # Cardinality(Before[p])
        /\ IsFiniteSet(Before[q])
    BY <1>3, <2>1, FS_Subset
  <2>3. Cardinality(Before[q]) \in Nat
    BY <2>2, FS_CardinalityType
  <2>. QED  BY <1>3, <2>2, <2>3
<1>. QED  BY <1>1, <1>3, <1>4

LEMMA PlacesAreDistinct ==
    ASSUME NEW S, IsFiniteSet(S), NEW Before, IsOrder(Before, S),
           NEW p \in S, NEW q \in S, Cardinality(Before[p]) = Cardinality(Before[q])
    PROVE  p = q
<1>1. Cardinality(Before[p]) \in Nat /\ Cardinality(Before[q]) \in Nat
  BY PlaceOf, FS_CardinalityType
<1>2. ~(p \in Before[q]) /\ ~(q \in Before[p])
  BY <1>1, PlaceOf
<1>. QED  BY <1>2 DEF IsOrder

\* Every place up to the size of the set is taken, by one member.
LEMMA PlacesAreTaken ==
    ASSUME NEW S, IsFiniteSet(S), NEW Before, IsOrder(Before, S)
    PROVE  /\ \A p \in S : Cardinality(Before[p]) \in 0 .. Cardinality(S) - 1
           /\ \A i \in 0 .. Cardinality(S) - 1 : \E p \in S : Cardinality(Before[p]) = i
<1> DEFINE n == Cardinality(S)
           f == PlacesIn(Before, S)
<1>1. n \in Nat
  BY FS_CardinalityType
<1>2. \A p \in S : Cardinality(Before[p]) \in 0 .. n - 1
  BY PlaceOf
<1>3. f \in [S -> 0 .. n - 1] /\ \A p \in S : f[p] = Cardinality(Before[p])
  <2> HIDE DEF n
  <2>. QED  BY <1>2 DEF PlacesIn
<1>4. \A p, q \in S : f[p] = f[q] => p = q
  <2> HIDE DEF f
  <2>. QED  BY <1>3, PlacesAreDistinct
<1>5. f \in Injection(S, 0 .. n - 1)
  <2> HIDE DEF f, n
  <2>. QED  BY <1>3, <1>4, Fun_IsInj
<1>6. IsFiniteSet(0 .. n - 1) /\ Cardinality(0 .. n - 1) = n
  <2>1. 0 \in Int /\ n - 1 \in Int /\ (0 <= n - 1 <=> n # 0) /\ (n - 1) - 0 + 1 = n
    <3> HIDE DEF n
    <3>. QED  BY <1>1
  <2>2. IsFiniteSet(0 .. n - 1) /\ Cardinality(0 .. n - 1) = IF 0 > n - 1 THEN 0 ELSE (n - 1) - 0 + 1
    <3> HIDE DEF n
    <3>. QED  BY <2>1, FS_Interval
  <2> HIDE DEF n
  <2>. QED  BY <1>1, <2>1, <2>2
<1>7. f \in Surjection(S, 0 .. n - 1)
  <2> HIDE DEF f
  <2>. QED  BY <1>5, <1>6, FS_Injection
<1> HIDE DEF f, n
<1>8. \A i \in 0 .. n - 1 : \E p \in S : f[p] = i
  BY <1>7 DEF Surjection
<1>9. \A i \in 0 .. n - 1 : \E p \in S : Cardinality(Before[p]) = i
  BY <1>3, <1>8
<1>. QED  BY <1>2, <1>9 DEF n

\* So the members can be listed by their places.
IsListing(list, Before, S) ==
    /\ list = [i \in 1 .. Cardinality(S) |-> list[i]]
    /\ \A i \in 1 .. Cardinality(S) :
          (\E p \in S : Cardinality(Before[p]) = i - 1) => list[i] \in S /\ Cardinality(Before[list[i]]) = i - 1

\* What Ordering's OrderedBy makes is a listing.
LEMMA ListedByChoice ==
    ASSUME NEW S, NEW Before, NEW list,
           list = [i \in 1 .. Cardinality(S) |-> CHOOSE p \in S : Cardinality(Before[p]) = i - 1]
    PROVE  IsListing(list, Before, S)
<1> DEFINE g(i) == CHOOSE p \in S : Cardinality(Before[p]) = i - 1
<1>1. \A i : (\E p \in S : Cardinality(Before[p]) = i - 1) => g(i) \in S /\ Cardinality(Before[g(i)]) = i - 1
  OBVIOUS
<1>2. list = [i \in 1 .. Cardinality(S) |-> g(i)]
  OBVIOUS
<1> HIDE DEF g
<1>3. \A i \in 1 .. Cardinality(S) : list[i] = g(i)
  BY <1>2
<1>4. list = [i \in 1 .. Cardinality(S) |-> list[i]]
  BY <1>2, <1>3
<1>. QED  BY <1>1, <1>3, <1>4 DEF IsListing

LEMMA ListedInOrder ==
    ASSUME NEW S, IsFiniteSet(S), NEW Before, IsOrder(Before, S), NEW list, IsListing(list, Before, S)
    PROVE  /\ list \in Seq(S) /\ Len(list) = Cardinality(S)
           /\ \A i \in 1 .. Len(list) : list[i] \in S /\ Cardinality(Before[list[i]]) = i - 1
           /\ \A p \in S : Cardinality(Before[p]) + 1 \in 1 .. Len(list) /\ list[Cardinality(Before[p]) + 1] = p
<1>1. Cardinality(S) \in Nat
  BY FS_CardinalityType
<1>2. ASSUME NEW i \in 1 .. Cardinality(S)
      PROVE  list[i] \in S /\ Cardinality(Before[list[i]]) = i - 1
  <2>1. i - 1 \in 0 .. Cardinality(S) - 1
    BY <1>1
  <2>2. \E p \in S : Cardinality(Before[p]) = i - 1
    BY <2>1, PlacesAreTaken
  <2>. QED  BY <2>2 DEF IsListing
<1>3. list \in [1 .. Cardinality(S) -> S]
  BY <1>2 DEF IsListing
<1>4. list \in Seq(S) /\ Len(list) = Cardinality(S)
  BY <1>1, <1>3
<1>5. ASSUME NEW p \in S
      PROVE  Cardinality(Before[p]) + 1 \in 1 .. Cardinality(S) /\ list[Cardinality(Before[p]) + 1] = p
  <2> DEFINE i == Cardinality(Before[p]) + 1
  <2>1. i \in 1 .. Cardinality(S) /\ i - 1 = Cardinality(Before[p])
    BY <1>1, PlaceOf
  <2>2. list[i] \in S /\ Cardinality(Before[list[i]]) = Cardinality(Before[p])
    <3> HIDE DEF i
    <3>. QED  BY <1>2, <2>1
  <2>3. list[i] = p
    BY <2>2, PlacesAreDistinct
  <2>. QED  BY <2>1, <2>3
<1>. QED  BY <1>2, <1>4, <1>5

\* Of a set of n members, k have fewer than k before them.
LEMMA FirstInOrder ==
    ASSUME NEW S, IsFiniteSet(S), NEW Before, IsOrder(Before, S), NEW k \in Nat, Cardinality(S) >= k
    PROVE  Cardinality({p \in S : Cardinality(Before[p]) < k}) = k
<1> DEFINE first == {p \in S : Cardinality(Before[p]) < k}
           g == [p \in first |-> Cardinality(Before[p])]
<1>1. Cardinality(S) \in Nat
  BY FS_CardinalityType
<1>2. \A p \in S : Cardinality(Before[p]) \in 0 .. Cardinality(S) - 1
  BY PlacesAreTaken
<1>3. IsFiniteSet(first)
  <2>1. first \in SUBSET S
    OBVIOUS
  <2> HIDE DEF first
  <2>. QED  BY <2>1, FS_Subset
<1>4. ASSUME NEW i \in 0 .. k - 1 PROVE \E p \in first : g[p] = i
  <2>1. i \in 0 .. Cardinality(S) - 1
    BY <1>1
  <2>2. PICK p \in S : Cardinality(Before[p]) = i
    BY <2>1, PlacesAreTaken
  <2>3. p \in first /\ g[p] = i
    BY <2>2
  <2>. QED  BY <2>3
<1>5. g \in [first -> 0 .. k - 1]
  BY <1>1, <1>2
<1>6. \A p, q \in first : g[p] = g[q] => p = q
  BY PlacesAreDistinct
<1> HIDE DEF first, g
<1>7. g \in Bijection(first, 0 .. k - 1)
  BY <1>4, <1>5, <1>6, Fun_IsBij
<1>8. Cardinality(0 .. k - 1) = Cardinality(first)
  BY <1>3, <1>7, FS_Bijection DEF ExistsBijection
<1>9. Cardinality(0 .. k - 1) = k
  <2>1. 0 \in Int /\ k - 1 \in Int
    OBVIOUS
  <2>2. Cardinality(0 .. k - 1) = IF 0 > k - 1 THEN 0 ELSE (k - 1) - 0 + 1
    BY <2>1, FS_Interval
  <2>. QED  BY <2>2
<1>. QED  BY <1>8, <1>9 DEF first
=============================================================================
