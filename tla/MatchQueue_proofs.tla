-------------------------- MODULE MatchQueue_proofs --------------------------
(***************************************************************************)
(* Proofs about the matchmaking queue, for any players, ratings, lobby     *)
(* sizes, capacities, buffers and numbers of joins: its types, that one    *)
(* join leads to at most one match, and that a connected player is kept.   *)
(*                                                                         *)
(* The first part counts occurrences in sequences.                         *)
(***************************************************************************)
EXTENDS MatchQueue, FunctionTheorems, FiniteSetTheorems, SequenceTheorems, TLAPS

-----------------------------------------------------------------------------
(***************************************************************************)
(* Counting.                                                               *)
(***************************************************************************)
LEMMA SizeIsNat ==
    ASSUME NEW S, IsFiniteSet(S)
    PROVE  Cardinality(S) \in Nat /\ (Cardinality(S) > 0 <=> S # {})
  BY FS_CardinalityType, FS_EmptySet

\* Two sets are as large if a function takes one to the other, one to one.
LEMMA SameSize ==
    ASSUME NEW S, NEW T, IsFiniteSet(S), NEW f \in [S -> T],
           \A a, b \in S : f[a] = f[b] => a = b,
           \A t \in T : \E s \in S : f[s] = t
    PROVE  IsFiniteSet(T) /\ Cardinality(T) = Cardinality(S)
<1>1. f \in Bijection(S, T)
  BY Fun_IsBij
<1>. QED  BY <1>1, FS_Bijection DEF ExistsBijection

LEMMA AtMost ==
    ASSUME NEW S, NEW T, IsFiniteSet(T), NEW f \in [S -> T],
           \A a, b \in S : f[a] = f[b] => a = b
    PROVE  IsFiniteSet(S) /\ Cardinality(S) <= Cardinality(T)
<1>1. f \in Injection(S, T)
  BY Fun_IsInj
<1>. QED  BY <1>1, FS_Injection

LEMMA DisjointSizes ==
    ASSUME NEW S, IsFiniteSet(S), NEW T, IsFiniteSet(T), S \cap T = {}
    PROVE  IsFiniteSet(S \cup T) /\ Cardinality(S \cup T) = Cardinality(S) + Cardinality(T)
  BY FS_Union, FS_EmptySet, FS_CardinalityType

\* The places of p in a sequence.
LEMMA AtIsFinite ==
    ASSUME NEW s \in Seq(Player), NEW p
    PROVE  /\ At(p, s) \subseteq 1 .. Len(s)
           /\ IsFiniteSet(At(p, s))
           /\ Times(p, s) \in Nat
           /\ Times(p, s) > 0 <=> At(p, s) # {}
<1>1. Len(s) \in Nat /\ DOMAIN s = 1 .. Len(s)
  BY LenProperties
<1>2. IsFiniteSet(1 .. Len(s))
  BY <1>1, FS_Interval
<1>3. At(p, s) \subseteq 1 .. Len(s)
  BY <1>1 DEF At
<1>4. IsFiniteSet(At(p, s))
  BY <1>2, <1>3, FS_Subset
<1>. QED  BY <1>3, <1>4, SizeIsNat DEF Times

LEMMA TimesInRange ==
    ASSUME NEW s \in Seq(Player), NEW p
    PROVE  Times(p, s) > 0 <=> p \in Range(s)
<1>1. At(p, s) # {} <=> p \in Range(s)
  BY RangeEquality, LenProperties DEF At
<1>. QED  BY <1>1, AtIsFinite

LEMMA TimesOfEmpty == \A p : Times(p, <<>>) = 0 /\ At(p, <<>>) = {}
  BY FS_EmptySet DEF Times, At

LEMMA TimesOfOne ==
    ASSUME NEW q \in Player, NEW p
    PROVE  <<q>> \in Seq(Player) /\ Times(p, <<q>>) = IF p = q THEN 1 ELSE 0
<1>1. <<q>> \in Seq(Player) /\ DOMAIN <<q>> = {1} /\ <<q>>[1] = q
  OBVIOUS
<1>2. CASE p = q
  <2>1. At(p, <<q>>) = {1}
    BY <1>1, <1>2 DEF At
  <2>. QED  BY <1>1, <1>2, <2>1, FS_Singleton DEF Times
<1>3. CASE p # q
  <2>1. At(p, <<q>>) = {}
    BY <1>1, <1>3 DEF At
  <2>. QED  BY <1>1, <1>3, <2>1, FS_EmptySet DEF Times
<1>. QED  BY <1>2, <1>3

LEMMA TimesOfConcat ==
    ASSUME NEW s \in Seq(Player), NEW t \in Seq(Player), NEW p
    PROVE  s \o t \in Seq(Player) /\ Times(p, s \o t) = Times(p, s) + Times(p, t)
<1> DEFINE Moved == {i + Len(s) : i \in At(p, t)}
           f == [i \in At(p, t) |-> i + Len(s)]
<1>1. /\ s \o t \in Seq(Player) /\ Len(s \o t) = Len(s) + Len(t)
      /\ \A i \in 1 .. Len(s) + Len(t) : (s \o t)[i] = IF i <= Len(s) THEN s[i] ELSE t[i - Len(s)]
  BY ConcatProperties
<1>2. Len(s) \in Nat /\ Len(t) \in Nat /\ DOMAIN s = 1 .. Len(s) /\ DOMAIN t = 1 .. Len(t)
      /\ DOMAIN (s \o t) = 1 .. Len(s) + Len(t)
  BY <1>1, LenProperties
<1>3. At(p, t) \subseteq 1 .. Len(t) /\ At(p, s) \subseteq 1 .. Len(s)
  BY AtIsFinite
<1>4. f \in [At(p, t) -> Moved]
  OBVIOUS
<1>5. \A a, b \in At(p, t) : f[a] = f[b] => a = b
  BY <1>2, <1>3
<1>6. \A m \in Moved : \E a \in At(p, t) : f[a] = m
  OBVIOUS
<1>7. IsFiniteSet(Moved) /\ Cardinality(Moved) = Times(p, t)
  BY <1>4, <1>5, <1>6, AtIsFinite, SameSize DEF Times
<1>8. At(p, s \o t) = At(p, s) \cup Moved
  <2>1. ASSUME NEW i \in At(p, s \o t) PROVE i \in At(p, s) \cup Moved
    <3>1. i \in 1 .. Len(s) + Len(t) /\ (s \o t)[i] = p
      BY <1>2 DEF At
    <3>2. CASE i <= Len(s)
      BY <3>1, <3>2, <1>1, <1>2 DEF At
    <3>3. CASE ~(i <= Len(s))
      <4>1. i - Len(s) \in 1 .. Len(t) /\ t[i - Len(s)] = p
        BY <3>1, <3>3, <1>1, <1>2
      <4>2. i - Len(s) \in At(p, t) /\ i = (i - Len(s)) + Len(s)
        BY <4>1, <3>1, <1>2 DEF At
      <4>. QED  BY <4>2
    <3>. QED  BY <3>2, <3>3
  <2>2. ASSUME NEW i \in At(p, s) PROVE i \in At(p, s \o t)
    BY <1>1, <1>2 DEF At
  <2>3. ASSUME NEW i \in At(p, t) PROVE i + Len(s) \in At(p, s \o t)
    <3>1. i \in 1 .. Len(t) /\ t[i] = p
      BY <1>2 DEF At
    <3>2. i + Len(s) \in 1 .. Len(s) + Len(t) /\ ~(i + Len(s) <= Len(s)) /\ (i + Len(s)) - Len(s) = i
      BY <3>1, <1>2
    <3>3. (s \o t)[i + Len(s)] = p
      BY <3>1, <3>2, <1>1
    <3>. QED  BY <3>2, <3>3, <1>2 DEF At
  <2>. QED  BY <2>1, <2>2, <2>3
<1>9. At(p, s) \cap Moved = {}
  BY <1>2, <1>3
<1>. QED  BY <1>1, <1>7, <1>8, <1>9, AtIsFinite, DisjointSizes DEF Times

LEMMA TimesOfAppend ==
    ASSUME NEW s \in Seq(Player), NEW q \in Player, NEW p
    PROVE  /\ Append(s, q) \in Seq(Player)
           /\ Times(p, Append(s, q)) = Times(p, s) + (IF p = q THEN 1 ELSE 0)
<1>1. Append(s, q) = s \o <<q>>
  BY AppendIsConcat
<1>2. <<q>> \in Seq(Player) /\ Times(p, <<q>>) = IF p = q THEN 1 ELSE 0
  BY TimesOfOne
<1>3. s \o <<q>> \in Seq(Player) /\ Times(p, s \o <<q>>) = Times(p, s) + Times(p, <<q>>)
  BY <1>2, TimesOfConcat
<1>. QED  BY <1>1, <1>2, <1>3

LEMMA TimesOfParts ==
    ASSUME NEW s \in Seq(Player), NEW k \in 0 .. Len(s), NEW p
    PROVE  /\ SubSeq(s, 1, k) \in Seq(Player) /\ Len(SubSeq(s, 1, k)) = k
           /\ SubSeq(s, k + 1, Len(s)) \in Seq(Player)
           /\ Times(p, s) = Times(p, SubSeq(s, 1, k)) + Times(p, SubSeq(s, k + 1, Len(s)))
<1>1. Len(s) \in Nat /\ \A i \in 1 .. Len(s) : s[i] \in Player
  BY LenProperties, ElementOfSeq
<1>2. SubSeq(s, 1, k) \in Seq(Player) /\ Len(SubSeq(s, 1, k)) = k
  BY <1>1, SubSeqProperties
<1>3. SubSeq(s, k + 1, Len(s)) \in Seq(Player)
  BY <1>1, SubSeqProperties
<1>4. SubSeq(s, 1, k) \o SubSeq(s, k + 1, Len(s)) = s
  <2>1. 1 \in 1 .. Len(s) + 1 /\ k \in 1 - 1 .. Len(s) /\ Len(s) \in k .. Len(s)
    BY <1>1
  <2>2. SubSeq(s, 1, k) \o SubSeq(s, k + 1, Len(s)) = SubSeq(s, 1, Len(s))
    BY <2>1, ConcatAdjacentSubSeq
  <2>. QED  BY <2>2, SubSeqFull
<1> DEFINE u == SubSeq(s, 1, k)
           v == SubSeq(s, k + 1, Len(s))
<1>5. Times(p, u \o v) = Times(p, u) + Times(p, v)
  BY <1>2, <1>3, TimesOfConcat
<1>. QED  BY <1>2, <1>3, <1>4, <1>5

-----------------------------------------------------------------------------
(***************************************************************************)
(* Ranks: how many elements of a set of places come up to a place.         *)
(***************************************************************************)
Rank(I, i) == Cardinality({j \in I : j <= i})

LEMMA RankIsCount ==
    ASSUME NEW n \in Nat, NEW I \in SUBSET (1 .. n)
    PROVE  /\ IsFiniteSet(I) /\ Cardinality(I) \in Nat
           /\ \A i \in I : Rank(I, i) \in 1 .. Cardinality(I)
           /\ \A i, j \in I : i < j => Rank(I, i) < Rank(I, j)
<1>1. IsFiniteSet(I) /\ Cardinality(I) \in Nat
  <2>1. IsFiniteSet(1 .. n)
    BY FS_Interval
  <2>2. IsFiniteSet(I)
    BY <2>1, FS_Subset
  <2>. QED  BY <2>2, SizeIsNat
<1>2. ASSUME NEW i \in I PROVE Rank(I, i) \in 1 .. Cardinality(I)
  <2> DEFINE U == {j \in I : j <= i}
  <2>1. U \subseteq I /\ i \in U
    OBVIOUS
  <2>2. IsFiniteSet(U) /\ Cardinality(U) <= Cardinality(I)
    BY <2>1, <1>1, FS_Subset
  <2>3. Cardinality(U) \in Nat /\ Cardinality(U) > 0
    BY <2>1, <2>2, SizeIsNat
  <2>. QED  BY <2>2, <2>3, <1>1 DEF Rank
<1>3. ASSUME NEW i \in I, NEW j \in I, i < j PROVE Rank(I, i) < Rank(I, j)
  <2> DEFINE U == {m \in I : m <= i}
             V == {m \in I : m <= j}
  <2>1. I \subseteq Int /\ i \in Int /\ j \in Int
    OBVIOUS
  <2>2. U \subseteq V /\ j \in V /\ j \notin U /\ V \subseteq I
    <3>1. ASSUME NEW m \in I, m <= i PROVE m <= j
      BY <1>3, <2>1, <3>1
    <3>2. ~(j <= i)
      BY <1>3, <2>1
    <3>3. j <= j
      BY <2>1
    <3>4. U \subseteq V
      BY <3>1
    <3>5. j \in V /\ V \subseteq I
      BY <3>3
    <3>6. j \notin U
      BY <3>2
    <3>. QED  BY <3>4, <3>5, <3>6
  <2>3. IsFiniteSet(V)
    BY <2>2, <1>1, FS_Subset
  <2>4. IsFiniteSet(U) /\ Cardinality(U) <= Cardinality(V) /\ Cardinality(U) # Cardinality(V)
    BY <2>2, <2>3, FS_Subset
  <2>5. Cardinality(U) \in Nat /\ Cardinality(V) \in Nat
    BY <2>3, <2>4, SizeIsNat
  <2>. QED  BY <2>4, <2>5 DEF Rank
<1>. QED  BY <1>1, <1>2, <1>3

\* Every rank is taken, by the element that Nth chooses.
LEMMA NthHasRank ==
    ASSUME NEW n \in Nat, NEW I \in SUBSET (1 .. n)
    PROVE  /\ \A k \in 1 .. Cardinality(I) : Nth(I, k) \in I /\ Rank(I, Nth(I, k)) = k
           /\ \A i \in I : Nth(I, Rank(I, i)) = i
<1> DEFINE K == 1 .. Cardinality(I)
           f == [i \in I |-> Rank(I, i)]
<1>1. IsFiniteSet(I) /\ Cardinality(I) \in Nat
  BY RankIsCount
<1>9. IsFiniteSet(K) /\ Cardinality(K) = Cardinality(I)
  BY <1>1, FS_Interval
<1>2. f \in [I -> K]
  BY RankIsCount
<1>3. \A i, j \in I : Rank(I, i) = Rank(I, j) => i = j
  <2> SUFFICES ASSUME NEW i \in I, NEW j \in I, Rank(I, i) = Rank(I, j) PROVE i = j
    OBVIOUS
  <2>1. i = j \/ i < j \/ j < i
    OBVIOUS
  <2>2. Rank(I, i) \in 1 .. Cardinality(I)
    BY RankIsCount
  <2>3. /\ i < j => Rank(I, i) < Rank(I, j)
        /\ j < i => Rank(I, j) < Rank(I, i)
    BY RankIsCount
  <2>. QED  BY <1>1, <2>1, <2>2, <2>3
<1>4. f \in Injection(I, K)
  BY <1>2, <1>3, Fun_IsInj
<1>5. f \in Surjection(I, K)
  BY <1>1, <1>9, <1>4, FS_Injection
<1>6. \A k \in K : \E i \in I : f[i] = k
  BY <1>5 DEF Surjection
<1>7. \A k \in K : Nth(I, k) \in I /\ Rank(I, Nth(I, k)) = k
  BY <1>6 DEF Nth, Rank
<1>8. \A i \in I : Nth(I, Rank(I, i)) = i
  BY <1>3, <1>7, RankIsCount
<1>. QED  BY <1>7, <1>8

\* As many have a rank above h as there are elements more than h.
LEMMA RankedAbove ==
    ASSUME NEW n \in Nat, NEW I \in SUBSET (1 .. n), NEW h \in Nat
    PROVE  Cardinality({i \in I : Rank(I, i) > h}) =
             IF Cardinality(I) > h THEN Cardinality(I) - h ELSE 0
<1> DEFINE U == {i \in I : Rank(I, i) > h}
           K == h + 1 .. Cardinality(I)
           f == [k \in K |-> Nth(I, k)]
<1>1. Cardinality(I) \in Nat
  BY RankIsCount
<1>2. IsFiniteSet(K) /\ Cardinality(K) = IF Cardinality(I) > h THEN Cardinality(I) - h ELSE 0
  <2>1. h + 1 \in Int /\ Cardinality(I) \in Int
    BY <1>1
  <2>2. IsFiniteSet(K) /\ Cardinality(K) = IF h + 1 > Cardinality(I) THEN 0 ELSE Cardinality(I) - (h + 1) + 1
    BY <2>1, FS_Interval
  <2>. QED  BY <1>1, <2>2
<1>3. \A k \in K : k \in 1 .. Cardinality(I) /\ k > h
  BY <1>1
<1>4. f \in [K -> U]
  BY <1>3, NthHasRank
<1>5. \A a, b \in K : f[a] = f[b] => a = b
  <2> SUFFICES ASSUME NEW a \in K, NEW b \in K, Nth(I, a) = Nth(I, b) PROVE a = b
    OBVIOUS
  <2>1. Rank(I, Nth(I, a)) = a /\ Rank(I, Nth(I, b)) = b
    BY <1>3, NthHasRank
  <2>. QED  BY <2>1
<1>6. \A i \in U : \E k \in K : f[k] = i
  <2>1. ASSUME NEW i \in U PROVE Rank(I, i) \in K /\ Nth(I, Rank(I, i)) = i
    <3>1. i \in I /\ Rank(I, i) > h /\ Rank(I, i) \in 1 .. Cardinality(I)
      BY RankIsCount
    <3>2. Nth(I, Rank(I, i)) = i
      BY NthHasRank
    <3>. QED  BY <1>1, <3>1, <3>2
  <2>. QED  BY <2>1
<1>7. Cardinality(U) = Cardinality(K)
  BY <1>2, <1>4, <1>5, <1>6, SameSize
<1>. QED  BY <1>2, <1>7

-----------------------------------------------------------------------------
(***************************************************************************)
(* What RemoveAll leaves.                                                  *)
(***************************************************************************)
LEMMA RankInSequence ==
    ASSUME NEW s \in Seq(Player), NEW i \in 1 .. Len(s), NEW p
    PROVE  Times(p, SubSeq(s, 1, i)) = Rank(At(p, s), i)
<1>1. Len(s) \in Nat /\ DOMAIN s = 1 .. Len(s) /\ \A j \in 1 .. Len(s) : s[j] \in Player
  BY LenProperties, ElementOfSeq
<1>2. /\ SubSeq(s, 1, i) \in Seq(Player) /\ Len(SubSeq(s, 1, i)) = i
      /\ \A j \in 1 .. i : SubSeq(s, 1, i)[j] = s[j]
  BY <1>1, SubSeqProperties
<1>3. DOMAIN SubSeq(s, 1, i) = 1 .. i
  BY <1>2, LenProperties
<1>4. At(p, SubSeq(s, 1, i)) = {j \in At(p, s) : j <= i}
  BY <1>1, <1>2, <1>3 DEF At
<1>. QED  BY <1>4 DEF Times, Rank

LEMMA RemoveAllIsSeq ==
    ASSUME NEW s \in Seq(Player), NEW ps
    PROVE  /\ Staying(s, ps) \in SUBSET (1 .. Len(s)) /\ Len(s) \in Nat
           /\ RemoveAll(s, ps) \in Seq(Player)
           /\ DOMAIN RemoveAll(s, ps) = 1 .. Cardinality(Staying(s, ps))
<1> DEFINE I == Staying(s, ps)
           c == Cardinality(I)
<1>1. Len(s) \in Nat /\ DOMAIN s = 1 .. Len(s) /\ \A j \in 1 .. Len(s) : s[j] \in Player
  BY LenProperties, ElementOfSeq
<1>2. I \in SUBSET (1 .. Len(s))
  BY <1>1 DEF Staying
<1>3. c \in Nat
  BY <1>1, <1>2, RankIsCount
<1>4. \A k \in 1 .. c : s[Nth(I, k)] \in Player
  BY <1>1, <1>2, NthHasRank
<1>5. RemoveAll(s, ps) = [k \in 1 .. c |-> s[Nth(I, k)]]
  BY DEF RemoveAll
<1>6. RemoveAll(s, ps) \in [1 .. c -> Player]
  BY <1>4, <1>5
<1>7. RemoveAll(s, ps) \in Seq(Player)
  BY <1>3, <1>6, SeqDef
<1>. QED  BY <1>1, <1>2, <1>5, <1>7

LEMMA TimesOfRemoved ==
    ASSUME NEW s \in Seq(Player), NEW ps \in Seq(Player), NEW p
    PROVE  Times(p, RemoveAll(s, ps)) =
             IF Times(p, s) > Times(p, ps) THEN Times(p, s) - Times(p, ps) ELSE 0
<1> DEFINE I == Staying(s, ps)
           r == RemoveAll(s, ps)
           A == At(p, s)
           h == Times(p, ps)
           U == {i \in A : Rank(A, i) > h}
           f == [k \in At(p, r) |-> Nth(I, k)]
<1>1. /\ I \in SUBSET (1 .. Len(s)) /\ Len(s) \in Nat /\ r \in Seq(Player)
      /\ DOMAIN r = 1 .. Cardinality(I)
  BY RemoveAllIsSeq
<1>2. \A k \in 1 .. Cardinality(I) : r[k] = s[Nth(I, k)]
  BY DEF RemoveAll
<1>3. A \in SUBSET (1 .. Len(s)) /\ h \in Nat /\ DOMAIN s = 1 .. Len(s)
  BY AtIsFinite, LenProperties
<1>4. U = {i \in I : s[i] = p}
  <2>1. \A i \in A : s[i] = p /\ Times(s[i], SubSeq(s, 1, i)) = Rank(A, i)
    BY <1>3, RankInSequence DEF At
  <2>. QED  BY <2>1, <1>3 DEF Staying, At
<1>5. f \in [At(p, r) -> U]
  BY <1>1, <1>2, <1>4, NthHasRank DEF At
<1>6. \A a, b \in At(p, r) : f[a] = f[b] => a = b
  <2> SUFFICES ASSUME NEW a \in At(p, r), NEW b \in At(p, r), Nth(I, a) = Nth(I, b) PROVE a = b
    OBVIOUS
  <2>1. a \in 1 .. Cardinality(I) /\ b \in 1 .. Cardinality(I)
    BY <1>1 DEF At
  <2>2. Rank(I, Nth(I, a)) = a /\ Rank(I, Nth(I, b)) = b
    BY <1>1, <2>1, NthHasRank
  <2>. QED  BY <2>2
<1>7. \A i \in U : \E k \in At(p, r) : f[k] = i
  <2>1. ASSUME NEW i \in U PROVE Rank(I, i) \in At(p, r) /\ Nth(I, Rank(I, i)) = i
    BY <1>1, <1>2, <1>4, RankIsCount, NthHasRank DEF At
  <2>. QED  BY <2>1
<1>8. Cardinality(U) = Times(p, r)
  BY <1>1, <1>5, <1>6, <1>7, AtIsFinite, SameSize DEF Times
<1>9. Cardinality(U) = IF Cardinality(A) > h THEN Cardinality(A) - h ELSE 0
  BY <1>1, <1>3, RankedAbove
<1>. QED  BY <1>8, <1>9 DEF Times

-----------------------------------------------------------------------------
(***************************************************************************)
(* Types.                                                                  *)
(***************************************************************************)
\* The steps of a rating worker that has read the queue and not removed.
Reading == {"times", "rate", "remove"}
Sweeping == {"list", "check", "expel"}

Tasks ==
    {Idle}
    \cup [at : Steps, hand : Seq(Player), paired : BOOLEAN]
    \cup [at : {"rate"}, hand : Seq(Player), tiers : [Player -> -1 .. 2], paired : BOOLEAN]
    \cup [at : Sweeping, hand : Seq(Player)]

\* Besides the types: whoever is about to be added has joins left, only
\* rating pairs by removing, and there is somebody to expel.
RedisTypes ==
    /\ queue \in Seq(Player)
    /\ alive \subseteq Player
    /\ waited \in [Player -> -1 .. 2]

ClientTypes ==
    /\ conn \in [Player -> {"off", "joining", "adding", "on"}]
    /\ subscribed \subseteq Player
    /\ note \in [Player -> {"none", "heard", "missed"}]
    /\ joins \in [Player -> 0 .. MaxJoins] /\ seats \in [Player -> Nat]
    /\ \A p \in Player : conn[p] \in {"joining", "adding"} => joins[p] < MaxJoins

TaskTypes ==
    /\ worker \in [Worker -> Tasks]
    /\ \A w \in Worker : /\ worker[w].at \in Reading => Strategy = "rating"
                         /\ worker[w].at = "expel" => worker[w].hand # <<>>

ChannelTypes ==
    /\ pairingCh \in [Worker -> 0 .. Buffer] /\ gcCh \in [Worker -> 0 .. Buffer]
    /\ recent \in [Worker -> SUBSET {"pairing", "gc"}]
    /\ playing \in Nat /\ cooled \in Nat

QueueTypes == RedisTypes /\ displaced \subseteq Player /\ ClientTypes /\ TaskTypes /\ ChannelTypes

LEMMA Numbers == LobbySize \in Nat \ {0} /\ Buffer \in Nat \ {0} /\ Capacity \in Nat /\ MaxJoins \in Nat
  BY QueueAssumption

LEMMA InTasks ==
    ASSUME NEW hand \in Seq(Player)
    PROVE  /\ Idle \in Tasks
           /\ \A s \in Steps, b \in BOOLEAN : Pairing(s, hand, b) \in Tasks
           /\ \A tiers \in [Player -> -1 .. 2], b \in BOOLEAN : Timed(hand, tiers, b) \in Tasks
           /\ \A s \in Sweeping : Cleaning(s, hand) \in Tasks
  BY DEF Tasks, Pairing, Timed, Cleaning

LEMMA TaskParts ==
    ASSUME NEW t \in Tasks
    PROVE  /\ t.at \in Steps \cup {"rate"} => t.hand \in Seq(Player) /\ t.paired \in BOOLEAN
           /\ t.at = "rate" => t.tiers \in [Player -> -1 .. 2]
           /\ t.at \in Sweeping => t.hand \in Seq(Player)
           /\ t = Idle \/ t.at \in Steps \cup {"rate"} \/ t.at \in Sweeping
  BY DEF Tasks, Idle, Steps, Sweeping

LEMMA EmptyInSeq == <<>> \in Seq(Player) /\ \A p \in Player : <<p>> \in Seq(Player) /\ Range(<<p>>) = {p}
<1>1. ASSUME NEW p \in Player PROVE <<p>> \in Seq(Player) /\ Range(<<p>>) = {p}
  <2>1. DOMAIN <<p>> = {1} /\ <<p>>[1] = p /\ <<p>> \in Seq(Player)
    OBVIOUS
  <2>. QED  BY <2>1 DEF Range
<1>. QED  BY <1>1

LEMMA TypesInit == Init => QueueTypes
<1> SUFFICES ASSUME Init PROVE QueueTypes
  OBVIOUS
<1>1. Idle \in Tasks /\ Idle.at = "idle" /\ queue \in Seq(Player)
  BY InTasks, EmptyInSeq DEF Init, Idle
<1>2. 1 \in 0 .. Buffer /\ 0 \in 0 .. MaxJoins
  BY Numbers
<1>. QED  BY <1>1, <1>2 DEF Init, QueueTypes, RedisTypes, ClientTypes, TaskTypes, ChannelTypes, Unknown,
             Reading

\* SetToSeq puts the places of a group in some order.
LEMMA OrderOfPlaces ==
    ASSUME NEW S, IsFiniteSet(S)
    PROVE  /\ SetToSeq(S) \in [1 .. Cardinality(S) -> S]
           /\ \A i, j \in 1 .. Cardinality(S) : SetToSeq(S)[i] = SetToSeq(S)[j] => i = j
<1>1. ExistsBijection(1 .. Cardinality(S), S)
  BY FS_CardinalityType
<1>2. \E f \in [1 .. Cardinality(S) -> S] : IsInjective(f)
  BY <1>1 DEF ExistsBijection, Bijection, Injection
<1>3. SetToSeq(S) \in [1 .. Cardinality(S) -> S] /\ IsInjective(SetToSeq(S))
  BY <1>2 DEF SetToSeq
<1>. QED  BY <1>3 DEF IsInjective

\* Where in the list the members of a group stand: each at a place of his own.
Place(seed, rest) == [i \in 1 .. LobbySize |-> IF i = 1 THEN seed ELSE SetToSeq(rest)[i - 1]]

LEMMA GroupIsOfList ==
    ASSUME NEW ids \in Seq(Player), NEW tiers, NEW seed \in Seeds(ids, tiers), NEW rest \in Closest(ids, seed)
    PROVE  /\ Group(ids, seed, rest) \in Seq(Player) /\ DOMAIN Group(ids, seed, rest) = 1 .. LobbySize
           /\ Place(seed, rest) \in [1 .. LobbySize -> 1 .. Len(ids)]
           /\ \A i, j \in 1 .. LobbySize : Place(seed, rest)[i] = Place(seed, rest)[j] => i = j
           /\ \A i \in 1 .. LobbySize : Group(ids, seed, rest)[i] = ids[Place(seed, rest)[i]]
<1> DEFINE n == LobbySize - 1
           f == SetToSeq(rest)
           g == [i \in 1 .. n |-> ids[f[i]]]
<1>1. Len(ids) \in Nat /\ n \in Nat /\ LobbySize \in Nat
  BY Numbers, LenProperties
<1>2. seed \in 1 .. Len(ids)
  BY DEF Seeds, Position
<1>3. rest \subseteq (1 .. Len(ids)) \ {seed} /\ Cardinality(rest) = n
  BY DEF Closest, kSubset, Position
<1>4. IsFiniteSet(rest)
  <2>1. IsFiniteSet(1 .. Len(ids))
    BY <1>1, FS_Interval
  <2>. QED  BY <1>3, <2>1, FS_Subset
<1>5. f \in [1 .. n -> rest] /\ \A i, j \in 1 .. n : f[i] = f[j] => i = j
  BY <1>3, <1>4, OrderOfPlaces
<1>6. \A i \in 1 .. Len(ids) : ids[i] \in Player
  BY ElementOfSeq
<1>7. g \in Seq(Player) /\ Len(g) = n
  <2>1. g \in [1 .. n -> Player]
    BY <1>3, <1>5, <1>6
  <2>. QED  BY <1>1, <2>1, SeqDef, LenProperties
<1>8. <<ids[seed]>> \in Seq(Player) /\ Len(<<ids[seed]>>) = 1 /\ <<ids[seed]>>[1] = ids[seed]
  BY <1>2, <1>6
<1>9. /\ Group(ids, seed, rest) \in Seq(Player) /\ Len(Group(ids, seed, rest)) = 1 + n
      /\ \A i \in 1 .. 1 + n : Group(ids, seed, rest)[i] = IF i <= 1 THEN ids[seed] ELSE g[i - 1]
  <2> DEFINE h == <<ids[seed]>> \o g
  <2>1. /\ h \in Seq(Player) /\ Len(h) = 1 + n
        /\ \A i \in 1 .. 1 + n : h[i] = IF i <= 1 THEN <<ids[seed]>>[i] ELSE g[i - 1]
    <3> HIDE DEF g
    <3> DEFINE a == <<ids[seed]>>
    <3>1. a \in Seq(Player) /\ Len(a) = 1
      BY <1>8
    <3> HIDE DEF a
    <3>2. /\ a \o g \in Seq(Player) /\ Len(a \o g) = Len(a) + Len(g)
          /\ \A i \in 1 .. Len(a) + Len(g) : (a \o g)[i] = IF i <= Len(a) THEN a[i] ELSE g[i - Len(a)]
      BY <1>7, <3>1, ConcatProperties
    <3>3. h = a \o g
      BY DEF a
    <3>4. \A i : a[i] = <<ids[seed]>>[i]
      BY DEF a
    <3> HIDE DEF h
    <3>. QED  BY <1>7, <3>1, <3>2, <3>3, <3>4
  <2>2. h = Group(ids, seed, rest)
    BY DEF Group
  <2>3. \A i \in 1 .. 1 + n : i <= 1 => i = 1
    BY <1>1
  <2> HIDE DEF h
  <2>. QED  BY <1>8, <2>1, <2>2, <2>3
<1>10. DOMAIN Group(ids, seed, rest) = 1 .. LobbySize
  BY <1>1, <1>9, LenProperties
<1>11. \A i \in 1 .. LobbySize : i # 1 => i - 1 \in 1 .. n
  BY <1>1
<1>12. Place(seed, rest) \in [1 .. LobbySize -> 1 .. Len(ids)]
  BY <1>2, <1>3, <1>5, <1>11 DEF Place
<1>13. ASSUME NEW i \in 1 .. LobbySize, NEW j \in 1 .. LobbySize, Place(seed, rest)[i] = Place(seed, rest)[j]
       PROVE  i = j
  <2>1. CASE i = 1 \/ j = 1
    BY <1>3, <1>5, <1>11, <1>13, <2>1 DEF Place
  <2>2. CASE i # 1 /\ j # 1
    <3>1. f[i - 1] = f[j - 1] /\ i - 1 \in 1 .. n /\ j - 1 \in 1 .. n
      BY <1>11, <1>13, <2>2 DEF Place
    <3>. QED  BY <1>5, <3>1
  <2>. QED  BY <2>1, <2>2
<1>14. ASSUME NEW i \in 1 .. LobbySize PROVE Group(ids, seed, rest)[i] = ids[Place(seed, rest)[i]]
  <2>1. CASE i = 1
    <3>1. 1 \in 1 .. 1 + n /\ 1 <= 1
      BY <1>1
    <3>2. Group(ids, seed, rest)[1] = ids[seed]
      BY <1>9, <3>1
    <3>. QED  BY <2>1, <3>2 DEF Place
  <2>2. CASE i # 1
    <3>1. i - 1 \in 1 .. n /\ i \in 1 .. 1 + n /\ ~(i <= 1)
      BY <1>1, <2>2
    <3>2. Group(ids, seed, rest)[i] = g[i - 1] /\ g[i - 1] = ids[f[i - 1]]
      BY <1>9, <3>1
    <3>. QED  BY <2>2, <3>2 DEF Place
  <2>. QED  BY <2>1, <2>2
<1>. QED  BY <1>9, <1>10, <1>12, <1>13, <1>14

(***************************************************************************)
(* What the steps are made of.                                             *)
(***************************************************************************)
LEMMA BecomeTypes ==
    ASSUME QueueTypes, NEW w \in Worker, NEW t \in Tasks, Become(w, t),
           t.at \in Reading => Strategy = "rating", t.at = "expel" => t.hand # <<>>
    PROVE  TaskTypes'
  BY DEF QueueTypes, TaskTypes, Become

LEMMA PublishTypes ==
    ASSUME NEW ch \in [Worker -> 0 .. Buffer]
    PROVE  Publish(ch) \in [Worker -> 0 .. Buffer]
  BY Numbers DEF Publish

LEMMA TaskOf ==
    ASSUME QueueTypes, NEW w \in Worker
    PROVE  /\ worker[w] \in Tasks
           /\ worker[w].at \in Steps \cup {"rate"} => worker[w].hand \in Seq(Player) /\ worker[w].paired \in BOOLEAN
           /\ worker[w].at \in Sweeping => worker[w].hand \in Seq(Player)
  BY TaskParts DEF QueueTypes, TaskTypes

\* A worker that ends its pass, or goes on with a hand.
LEMMA IdleTypes ==
    ASSUME QueueTypes, NEW w \in Worker, Become(w, Idle)
    PROVE  TaskTypes'
<1>1. Idle \in Tasks /\ Idle.at = "idle"
  BY InTasks, EmptyInSeq DEF Idle
<1>. QED  BY <1>1, BecomeTypes DEF Reading

LEMMA FinishTypes ==
    ASSUME QueueTypes, NEW w \in Worker, Finish(w)
    PROVE  TaskTypes' /\ gcCh' \in [Worker -> 0 .. Buffer]
<1>1. TaskTypes'
  BY IdleTypes DEF Finish
<1>2. gcCh' \in [Worker -> 0 .. Buffer]
  BY PublishTypes DEF Finish, QueueTypes, ChannelTypes
<1>. QED  BY <1>1, <1>2

LEMMA GoOnTypes ==
    ASSUME QueueTypes, NEW w \in Worker, worker[w].at \in Steps \cup {"rate"},
           NEW s \in Steps, NEW hand \in Seq(Player), GoOn(w, s, hand),
           s \in Reading => Strategy = "rating"
    PROVE  TaskTypes' /\ gcCh' \in [Worker -> 0 .. Buffer]
<1> DEFINE t == Pairing(s, hand, worker[w].paired)
<1>1. worker[w].paired \in BOOLEAN
  BY TaskOf
<1>2. t \in Tasks /\ t.at = s
  BY <1>1, InTasks DEF Pairing
<1>3. s # "expel"
  BY DEF Steps
<1>4. Become(w, t) /\ gcCh' = gcCh
  BY DEF GoOn
<1>5. TaskTypes'
  <2> HIDE DEF t
  <2>. QED  BY <1>2, <1>3, <1>4, BecomeTypes
<1>. QED  BY <1>4, <1>5 DEF QueueTypes, ChannelTypes

LEMMA CleaningTypes ==
    ASSUME QueueTypes, NEW w \in Worker, NEW s \in Sweeping, NEW hand \in Seq(Player),
           Become(w, Cleaning(s, hand)), s = "expel" => hand # <<>>
    PROVE  TaskTypes'
<1>1. Cleaning(s, hand) \in Tasks
  BY InTasks
<1>2. Cleaning(s, hand).at = s /\ Cleaning(s, hand).hand = hand /\ s \notin Reading
  BY DEF Cleaning, Sweeping, Reading
<1>. QED  BY <1>1, <1>2, BecomeTypes

LEMMA WaitingForgotten ==
    ASSUME QueueTypes, NEW ps
    PROVE  Forget(ps) \in [Player -> -1 .. 2]
  BY DEF QueueTypes, RedisTypes, Forget, Unknown

\* What is removed from the queue, and what is put back.
LEMMA RemoveTypes ==
    ASSUME QueueTypes, NEW ps, RemoveFromQueue(ps)
    PROVE  RedisTypes'
<1>1. RemoveAll(queue, ps) \in Seq(Player)
  BY RemoveAllIsSeq DEF QueueTypes, RedisTypes
<1>. QED  BY <1>1, WaitingForgotten DEF RemoveFromQueue, QueueTypes, RedisTypes

LEMMA PushTypes ==
    ASSUME QueueTypes, NEW ps \in Seq(Player), PushPlayersToQueue(ps)
    PROVE  RedisTypes'
<1>1. queue \o ps \in Seq(Player)
  BY ConcatProperties DEF QueueTypes, RedisTypes
<1>. QED  BY <1>1 DEF PushPlayersToQueue, QueueTypes, RedisTypes

\* Who is displaced.
LEMMA Displaced ==
    ASSUME QueueTypes, NEW ps \in Seq(Player), Displace(ps)
    PROVE  /\ displaced' \subseteq Player /\ displaced \subseteq displaced'
           /\ \A p \in Range(ps) : conn[p] = "on" => p \in displaced'
<1>1. Range(ps) \subseteq Player
  BY RangeEquality, ElementOfSeq, LenProperties
<1>. QED  BY <1>1 DEF Displace, QueueTypes

LEMMA PushBackTypes ==
    ASSUME QueueTypes, NEW ps \in Seq(Player), PushBack(ps)
    PROVE  RedisTypes' /\ displaced' \subseteq Player
<1>1. CASE PushPlayersToQueue(ps) /\ UNCHANGED displaced
  BY <1>1, PushTypes DEF QueueTypes
<1>2. CASE Displace(ps) /\ UNCHANGED redis
  BY <1>2, Displaced DEF QueueTypes, RedisTypes, redis
<1>. QED  BY <1>1, <1>2 DEF PushBack

LEMMA PopTypes ==
    ASSUME QueueTypes
    PROVE  /\ Popped \in Seq(Player) /\ Len(Popped) \in Nat
           /\ LeftAfterPop \in Seq(Player)
           /\ \A p : Times(p, queue) = Times(p, Popped) + Times(p, LeftAfterPop)
<1> DEFINE k == IF Len(queue) < LobbySize THEN Len(queue) ELSE LobbySize
<1>1. queue \in Seq(Player) /\ Len(queue) \in Nat
  BY LenProperties DEF QueueTypes, RedisTypes
<1>2. k \in 0 .. Len(queue)
  BY <1>1, Numbers
<1>3. Popped = SubSeq(queue, 1, k)
  BY DEF Popped
<1> HIDE DEF k
<1>4. Len(Popped) = k
  BY <1>1, <1>2, <1>3, TimesOfParts
<1>5. LeftAfterPop = SubSeq(queue, k + 1, Len(queue))
  BY <1>4 DEF LeftAfterPop
<1>6. Popped \in Seq(Player) /\ LeftAfterPop \in Seq(Player)
  BY <1>1, <1>2, <1>3, <1>5, TimesOfParts
<1>7. \A p : Times(p, queue) = Times(p, Popped) + Times(p, LeftAfterPop)
  BY <1>1, <1>2, <1>3, <1>5, TimesOfParts
<1>. QED  BY <1>1, <1>2, <1>4, <1>6, <1>7

LEMMA CloseTypes ==
    ASSUME QueueTypes, NEW p \in Player, Close(p), UNCHANGED note, seats' \in [Player -> Nat],
           joins' \in [Player -> 0 .. MaxJoins], \A q \in Player \ {p} : joins'[q] = joins[q]
    PROVE  ClientTypes' /\ displaced' \subseteq Player
  BY DEF QueueTypes, ClientTypes, Close

LEMMA CloseOnlyTypes ==
    ASSUME QueueTypes, NEW p \in Player, Close(p), UNCHANGED <<note, counts>>
    PROVE  ClientTypes' /\ displaced' \subseteq Player
  BY CloseTypes DEF QueueTypes, ClientTypes, counts

LEMMA EnqueueTypes ==
    ASSUME QueueTypes, NEW p \in Player, conn[p] = "adding", Enqueue(p)
    PROVE  /\ RedisTypes' /\ joins' \in [Player -> 0 .. MaxJoins]
           /\ \A q \in Player \ {p} : joins'[q] = joins[q]
<1>1. Append(queue, p) \in Seq(Player)
  BY TimesOfAppend DEF QueueTypes, RedisTypes
<1>2. joins[p] + 1 \in 0 .. MaxJoins
  BY Numbers DEF QueueTypes, ClientTypes
<1>. QED  BY <1>1, <1>2 DEF Enqueue, QueueTypes, RedisTypes, ClientTypes

LEMMA WakeTypes ==
    ASSUME QueueTypes, WakeWorkers
    PROVE  pairingCh' \in [Worker -> 0 .. Buffer]
  BY PublishTypes DEF WakeWorkers, QueueTypes, ChannelTypes

LEMMA NoteTypes ==
    ASSUME QueueTypes, NEW ps, PublishMatchReady(ps), UNCHANGED <<conn, subscribed, joins>>, seats' \in [Player -> Nat]
    PROVE  ClientTypes'
<1>1. note' \in [Player -> {"none", "heard", "missed"}]
  BY DEF PublishMatchReady, QueueTypes, ClientTypes
<1>. QED  BY <1>1 DEF QueueTypes, ClientTypes

\* What a step of a pass leaves alone.
LEMMA PassKeeps ==
    ASSUME QueueTypes, UNCHANGED <<client, counts>>
    PROVE  ClientTypes'
  BY DEF QueueTypes, ClientTypes, client, counts

LEMMA ChannelsKept ==
    ASSUME QueueTypes, gcCh' \in [Worker -> 0 .. Buffer], UNCHANGED <<pairingCh, recent, slots>>
    PROVE  ChannelTypes'
  BY DEF QueueTypes, ChannelTypes, slots

(***************************************************************************)
(* Types are kept.                                                         *)
(***************************************************************************)
LEMMA ConnectionTypes ==
    ASSUME QueueTypes, NEW p \in Player, Connection(p)
    PROVE  QueueTypes'
<1> USE DEF QueueTypes
<1>1. CASE Connect(p)
  BY <1>1 DEF Connect, RedisTypes, ClientTypes, TaskTypes, ChannelTypes, redis, client, counts, loop, slots
<1>2. CASE Subscribe(p)
  BY <1>2 DEF Subscribe, RedisTypes, ClientTypes, TaskTypes, ChannelTypes, redis, client, counts, loop, slots
<1>3. CASE LookUp(p)
  <2>1. ClientTypes' /\ displaced' \subseteq Player
    <3>1. CASE conn[p] = "joining" /\ conn' = [conn EXCEPT ![p] = "adding"] /\ UNCHANGED <<subscribed, displaced>>
      BY <1>3, <3>1 DEF LookUp, ClientTypes, counts
    <3>2. CASE Close(p)
      BY <1>3, <3>2, CloseOnlyTypes DEF LookUp
    <3>. QED  BY <1>3, <3>1, <3>2 DEF LookUp
  <2>. QED  BY <1>3, <2>1 DEF LookUp, RedisTypes, TaskTypes, ChannelTypes, redis, loop, slots
<1>4. CASE AddPlayerToQueue(p)
  <2>1. /\ RedisTypes' /\ joins' \in [Player -> 0 .. MaxJoins]
        /\ \A q \in Player \ {p} : joins'[q] = joins[q]
    BY <1>4, EnqueueTypes DEF AddPlayerToQueue
  <2>2. pairingCh' \in [Worker -> 0 .. Buffer]
    BY <1>4, WakeTypes DEF AddPlayerToQueue
  <2>3. ClientTypes'
    BY <1>4, <2>1 DEF AddPlayerToQueue, ClientTypes
  <2>. QED  BY <1>4, <2>1, <2>2, <2>3 DEF AddPlayerToQueue, TaskTypes, ChannelTypes, slots
<1>5. CASE Disconnect(p)
  <2>1. RedisTypes'
    <3>1. CASE RemoveFromQueue(<<p>>)
      BY <3>1, RemoveTypes
    <3>2. CASE UNCHANGED redis
      BY <3>2 DEF redis, RedisTypes
    <3>. QED  BY <1>5, <3>1, <3>2 DEF Disconnect
  <2>2. ClientTypes' /\ displaced' \subseteq Player
    BY <1>5, CloseOnlyTypes DEF Disconnect
  <2>. QED  BY <1>5, <2>1, <2>2 DEF Disconnect, TaskTypes, ChannelTypes, loop, slots
<1>6. CASE Drop(p)
  <2>1. ClientTypes' /\ displaced' \subseteq Player
    BY <1>6, CloseOnlyTypes DEF Drop
  <2>. QED  BY <1>6, <2>1 DEF Drop, RedisTypes, TaskTypes, ChannelTypes, redis, loop, slots
<1>7. CASE Hear(p)
  <2>1. ClientTypes' /\ displaced' \subseteq Player
    BY <1>7, CloseOnlyTypes DEF Hear
  <2>. QED  BY <1>7, <2>1 DEF Hear, RedisTypes, TaskTypes, ChannelTypes, redis, loop, slots
<1>8. CASE ExpireKey(p)
  BY <1>8 DEF ExpireKey, RedisTypes, ClientTypes, TaskTypes, ChannelTypes, client, counts, loop, slots
<1>9. CASE Wait(p)
  BY <1>9 DEF Wait, RedisTypes, ClientTypes, TaskTypes, ChannelTypes, client, counts, loop, slots
<1>10. CASE AddPlayerFails(p)
  <2>1. /\ RedisTypes' /\ joins' \in [Player -> 0 .. MaxJoins]
        /\ \A q \in Player \ {p} : joins'[q] = joins[q]
        /\ pairingCh' \in [Worker -> 0 .. Buffer]
    <3>1. CASE Enqueue(p) /\ WakeWorkers
      BY <1>10, <3>1, EnqueueTypes, WakeTypes DEF AddPlayerFails
    <3>2. CASE UNCHANGED <<redis, joins, pairingCh>>
      BY <3>2 DEF RedisTypes, ClientTypes, ChannelTypes, redis
    <3>. QED  BY <1>10, <3>1, <3>2 DEF AddPlayerFails
  <2>2. seats' \in [Player -> Nat] /\ UNCHANGED note
    BY <1>10 DEF AddPlayerFails, ClientTypes
  <2>3. ClientTypes' /\ displaced' \subseteq Player
    BY <1>10, <2>1, <2>2, CloseTypes DEF AddPlayerFails
  <2>. QED  BY <1>10, <2>1, <2>3 DEF AddPlayerFails, TaskTypes, ChannelTypes, slots
<1>. QED  BY <1>1, <1>2, <1>3, <1>4, <1>5, <1>6, <1>7, <1>8, <1>9, <1>10 DEF Connection

PairingStep(w) ==
    \/ BeginPairing(w)
    \/ GameQueueSize(w) \/ PopPlayersFromQueue(w) \/ PopFails(w) \/ ReturnPlayers(w)
    \/ ReadQueue(w) \/ QueueJoinTimes(w) \/ FormGroup(w)
    \/ RemovePlayersFromQueue(w) \/ RemovalFails(w)
    \/ MatchStarts(w) \/ MatchFails(w)
SweepStep(w) == BeginGC(w) \/ AllPlayersInQueue(w) \/ CheckPlayer(w) \/ RemovePlayerFromQueue(w)

LEMMA PairingTypes ==
    ASSUME QueueTypes, NEW w \in Worker, PairingStep(w)
    PROVE  QueueTypes'
<1>1. CASE BeginPairing(w)
  <2>1. pairingCh' \in [Worker -> 0 .. Buffer]
    BY <1>1, Numbers DEF BeginPairing, QueueTypes, ChannelTypes
  <2>2. TaskTypes' /\ recent' \in [Worker -> SUBSET {"pairing", "gc"}]
    <3>1. TaskTypes'
      <4>1. CASE UNCHANGED worker
        BY <4>1 DEF QueueTypes, TaskTypes
      <4>2. CASE Become(w, Pairing("look", <<>>, FALSE))
        <5>1. Pairing("look", <<>>, FALSE) \in Tasks /\ Pairing("look", <<>>, FALSE).at = "look"
          BY EmptyInSeq, InTasks DEF Steps, Pairing
        <5>. QED  BY <4>2, <5>1, BecomeTypes DEF Reading
      <4>. QED  BY <1>1, <4>1, <4>2 DEF BeginPairing
    <3>2. CASE UNCHANGED recent
      BY <3>1, <3>2 DEF QueueTypes, ChannelTypes
    <3>3. CASE recent' = [recent EXCEPT ![w] = @ \cup ({"pairing"} \cap Throttled)]
      BY <3>1, <3>3 DEF QueueTypes, ChannelTypes
    <3>. QED  BY <1>1, <3>2, <3>3 DEF BeginPairing
  <2>. QED  BY <1>1, <2>1, <2>2, PassKeeps
         DEF BeginPairing, QueueTypes, RedisTypes, ChannelTypes, redis, slots
<1>2. CASE GameQueueSize(w)
  <2>1. worker[w].at \in Steps \cup {"rate"} /\ "pop" \in Steps /\ "pop" \notin Reading
    BY <1>2 DEF GameQueueSize, Steps, Reading
  <2>2. TaskTypes' /\ gcCh' \in [Worker -> 0 .. Buffer]
    BY <1>2, <2>1, EmptyInSeq, FinishTypes, GoOnTypes DEF GameQueueSize
  <2>. QED  BY <1>2, <2>2, PassKeeps, ChannelsKept DEF GameQueueSize, QueueTypes, RedisTypes, redis
<1>3. CASE PopPlayersFromQueue(w)
  <2>1. worker[w].at \in Steps \cup {"rate"} /\ {"return", "start"} \subseteq Steps \ Reading
    BY <1>3 DEF PopPlayersFromQueue, Steps, Reading
  <2>2. TaskTypes' /\ gcCh' \in [Worker -> 0 .. Buffer]
    <3>1. CASE GoOn(w, "return", Popped)
      BY <2>1, <3>1, PopTypes, GoOnTypes
    <3>2. CASE GoOn(w, "start", Popped)
      BY <2>1, <3>2, PopTypes, GoOnTypes
    <3>. QED  BY <1>3, <3>1, <3>2 DEF PopPlayersFromQueue
  <2>3. RedisTypes'
    BY <1>3, PopTypes, WaitingForgotten DEF PopPlayersFromQueue, QueueTypes, RedisTypes
  <2>. QED  BY <1>3, <2>2, <2>3, PassKeeps, ChannelsKept DEF PopPlayersFromQueue, QueueTypes
<1>4. CASE PopFails(w)
  <2>1. TaskTypes' /\ gcCh' \in [Worker -> 0 .. Buffer]
    BY <1>4, FinishTypes DEF PopFails
  <2>2. RedisTypes' /\ displaced' \subseteq Player
    <3>1. CASE UNCHANGED <<queue, displaced>>
      BY <1>4, <3>1 DEF PopFails, QueueTypes, RedisTypes
    <3>2. CASE queue' = LeftAfterPop /\ Displace(Popped)
      BY <1>4, <3>2, PopTypes, Displaced DEF PopFails, QueueTypes, RedisTypes
    <3>. QED  BY <1>4, <3>1, <3>2 DEF PopFails
  <2>. QED  BY <1>4, <2>1, <2>2, PassKeeps, ChannelsKept DEF PopFails, QueueTypes
<1>5. CASE ReturnPlayers(w)
  <2>1. worker[w].hand \in Seq(Player)
    BY <1>5, TaskOf DEF ReturnPlayers, Steps
  <2>2. RedisTypes' /\ displaced' \subseteq Player
    BY <1>5, <2>1, PushBackTypes DEF ReturnPlayers
  <2>3. TaskTypes' /\ gcCh' \in [Worker -> 0 .. Buffer]
    BY <1>5, FinishTypes DEF ReturnPlayers
  <2>. QED  BY <1>5, <2>2, <2>3, PassKeeps, ChannelsKept DEF ReturnPlayers, QueueTypes
<1>6. CASE ReadQueue(w)
  <2>1. worker[w].at \in Steps \cup {"rate"} /\ "times" \in Steps /\ Strategy = "rating"
    BY <1>6 DEF ReadQueue, Steps
  <2>2. queue \in Seq(Player)
    BY DEF QueueTypes, RedisTypes
  <2>3. TaskTypes' /\ gcCh' \in [Worker -> 0 .. Buffer]
    BY <1>6, <2>1, <2>2, FinishTypes, GoOnTypes DEF ReadQueue
  <2>. QED  BY <1>6, <2>3, PassKeeps, ChannelsKept DEF ReadQueue, QueueTypes, RedisTypes, redis
<1>7. CASE QueueJoinTimes(w)
  <2>1. TaskTypes' /\ gcCh' \in [Worker -> 0 .. Buffer]
    <3>1. CASE Finish(w)
      BY <3>1, FinishTypes
    <3>2. CASE Become(w, Timed(worker[w].hand, waited, worker[w].paired)) /\ UNCHANGED gcCh
      <4> DEFINE t == Timed(worker[w].hand, waited, worker[w].paired)
      <4>1. /\ worker[w].hand \in Seq(Player) /\ worker[w].paired \in BOOLEAN
            /\ waited \in [Player -> -1 .. 2] /\ Strategy = "rating"
        BY <1>7, TaskOf DEF QueueJoinTimes, Steps, Reading, QueueTypes, RedisTypes, TaskTypes
      <4>2. t \in Tasks
        BY <4>1, InTasks
      <4>3. t.at = "rate" /\ Become(w, t)
        BY <3>2 DEF Timed
      <4> HIDE DEF t
      <4>4. TaskTypes'
        BY <4>1, <4>2, <4>3, BecomeTypes
      <4>. QED  BY <3>2, <4>4 DEF QueueTypes, ChannelTypes
    <3>. QED  BY <1>7, <3>1, <3>2 DEF QueueJoinTimes
  <2>. QED  BY <1>7, <2>1, PassKeeps, ChannelsKept DEF QueueJoinTimes, QueueTypes, RedisTypes, redis
<1>8. CASE FormGroup(w)
  <2>1. /\ worker[w].at \in Steps \cup {"rate"} /\ "remove" \in Steps
        /\ Strategy = "rating" /\ worker[w].hand \in Seq(Player)
    BY <1>8, TaskOf DEF FormGroup, Steps, Reading, QueueTypes, TaskTypes
  <2>2. TaskTypes' /\ gcCh' \in [Worker -> 0 .. Buffer]
    <3>1. CASE Finish(w)
      BY <3>1, FinishTypes
    <3>2. ASSUME NEW seed \in Seeds(worker[w].hand, worker[w].tiers), NEW rest \in Closest(worker[w].hand, seed),
                 GoOn(w, "remove", Group(worker[w].hand, seed, rest))
          PROVE  TaskTypes' /\ gcCh' \in [Worker -> 0 .. Buffer]
      <4>1. Group(worker[w].hand, seed, rest) \in Seq(Player)
        BY <2>1, GroupIsOfList
      <4>. QED  BY <2>1, <3>2, <4>1, GoOnTypes
    <3>. QED  BY <1>8, <3>1, <3>2 DEF FormGroup
  <2>. QED  BY <1>8, <2>2, PassKeeps, ChannelsKept DEF FormGroup, QueueTypes, RedisTypes, redis
<1>9. CASE RemovePlayersFromQueue(w)
  <2>1. worker[w].at \in Steps \cup {"rate"} /\ "start" \in Steps /\ "start" \notin Reading
    BY <1>9 DEF RemovePlayersFromQueue, Steps, Reading
  <2>2. RedisTypes'
    BY <1>9, RemoveTypes DEF RemovePlayersFromQueue
  <2>3. TaskTypes' /\ gcCh' \in [Worker -> 0 .. Buffer]
    BY <1>9, <2>1, TaskOf, GoOnTypes DEF RemovePlayersFromQueue
  <2>. QED  BY <1>9, <2>2, <2>3, PassKeeps, ChannelsKept DEF RemovePlayersFromQueue, QueueTypes
<1>10. CASE RemovalFails(w)
  <2>1. worker[w].hand \in Seq(Player)
    BY <1>10, TaskOf DEF RemovalFails, Steps
  <2>2. RedisTypes' /\ displaced' \subseteq Player
    <3>1. CASE RemoveFromQueue(worker[w].hand) /\ Displace(worker[w].hand)
      BY <2>1, <3>1, RemoveTypes, Displaced
    <3>2. CASE UNCHANGED <<redis, displaced>>
      BY <3>2 DEF QueueTypes, RedisTypes, redis
    <3>. QED  BY <1>10, <3>1, <3>2 DEF RemovalFails
  <2>3. TaskTypes' /\ gcCh' \in [Worker -> 0 .. Buffer]
    BY <1>10, FinishTypes DEF RemovalFails
  <2>. QED  BY <1>10, <2>2, <2>3, PassKeeps, ChannelsKept DEF RemovalFails, QueueTypes
<1>11. CASE MatchStarts(w)
  <2>1. worker[w].at \in Steps
    BY <1>11 DEF MatchStarts, Steps
  <2>2. Pairing("look", <<>>, TRUE) \in Tasks /\ Pairing("look", <<>>, TRUE).at = "look"
    BY EmptyInSeq, InTasks DEF Steps, Pairing
  <2>3. TaskTypes'
    BY <1>11, <2>2, BecomeTypes DEF MatchStarts, Reading
  <2>4. seats' \in [Player -> Nat]
    <3>1. \A p \in Player : Times(p, worker[w].hand) \in Nat /\ seats[p] \in Nat
      BY <2>1, TaskOf, AtIsFinite DEF QueueTypes, ClientTypes
    <3>. QED  BY <1>11, <3>1 DEF MatchStarts
  <2>5. ClientTypes'
    BY <1>11, <2>4, NoteTypes DEF MatchStarts
  <2>6. playing + 1 \in Nat
    BY DEF QueueTypes, ChannelTypes
  <2>. QED  BY <1>11, <2>3, <2>5, <2>6 DEF MatchStarts, QueueTypes, RedisTypes, ChannelTypes, redis
<1>12. CASE MatchFails(w)
  <2>1. worker[w].at \in Steps \cup {"rate"} /\ "look" \in Steps /\ "look" \notin Reading
    BY <1>12 DEF MatchFails, Steps, Reading
  <2>2. TaskTypes' /\ gcCh' \in [Worker -> 0 .. Buffer]
    BY <1>12, <2>1, EmptyInSeq, GoOnTypes DEF MatchFails
  <2>3. RedisTypes' /\ ClientTypes' /\ displaced' \subseteq Player
    <3>1. CASE PushBack(worker[w].hand) /\ UNCHANGED note
      <4>1. RedisTypes' /\ displaced' \subseteq Player
        BY <2>1, <3>1, TaskOf, PushBackTypes
      <4>. QED  BY <1>12, <3>1, <4>1 DEF MatchFails, QueueTypes, ClientTypes, counts
    <3>2. CASE PublishMatchReady(worker[w].hand) /\ UNCHANGED <<redis, displaced>>
      <4>1. seats' \in [Player -> Nat]
        BY <1>12 DEF MatchFails, QueueTypes, ClientTypes, counts
      <4>2. ClientTypes'
        BY <1>12, <3>2, <4>1, NoteTypes DEF MatchFails, counts
      <4>. QED  BY <3>2, <4>2 DEF QueueTypes, RedisTypes, redis
    <3>. QED  BY <1>12, <3>1, <3>2 DEF MatchFails
  <2>. QED  BY <1>12, <2>2, <2>3, ChannelsKept DEF MatchFails, QueueTypes
<1>. QED  BY <1>1, <1>2, <1>3, <1>4, <1>5, <1>6, <1>7, <1>8, <1>9, <1>10, <1>11, <1>12 DEF PairingStep

LEMMA SweepTypes ==
    ASSUME QueueTypes, NEW w \in Worker, SweepStep(w)
    PROVE  QueueTypes'
<1>1. CASE BeginGC(w)
  <2>1. gcCh' \in [Worker -> 0 .. Buffer]
    BY <1>1, Numbers DEF BeginGC, QueueTypes, ChannelTypes
  <2>2. TaskTypes' /\ recent' \in [Worker -> SUBSET {"pairing", "gc"}] /\ cooled' \in Nat
    <3>1. CASE UNCHANGED <<worker, recent, cooled>>
      BY <3>1 DEF QueueTypes, TaskTypes, ChannelTypes
    <3>2. CASE /\ recent' = [recent EXCEPT ![w] = @ \cup ({"gc"} \cap Throttled)]
               /\ cooled' = 0
               /\ Become(w, Cleaning("list", <<>>))
      <4>1. TaskTypes'
        BY <3>2, EmptyInSeq, CleaningTypes DEF Sweeping
      <4>. QED  BY <3>2, <4>1 DEF QueueTypes, ChannelTypes
    <3>. QED  BY <1>1, <3>1, <3>2 DEF BeginGC
  <2>. QED  BY <1>1, <2>1, <2>2, PassKeeps DEF BeginGC, QueueTypes, RedisTypes, ChannelTypes, redis
<1>2. CASE AllPlayersInQueue(w)
  <2>1. TaskTypes'
    BY <1>2, CleaningTypes, IdleTypes DEF AllPlayersInQueue, QueueTypes, RedisTypes, Sweeping
  <2>. QED  BY <1>2, <2>1, PassKeeps, ChannelsKept
         DEF AllPlayersInQueue, QueueTypes, RedisTypes, ChannelTypes, redis, slots
<1>3. CASE CheckPlayer(w)
  <2> DEFINE hand == worker[w].hand
  <2>1. hand \in Seq(Player)
    BY <1>3, TaskOf DEF CheckPlayer, Sweeping
  <2>2. TaskTypes'
    <3>1. CASE Become(w, Idle)
      BY <3>1, IdleTypes
    <3>2. CASE hand # <<>> /\ Become(w, Cleaning("check", Tail(hand)))
      <4>1. Tail(hand) \in Seq(Player)
        BY <2>1, <3>2, HeadTailProperties
      <4>. QED  BY <3>2, <4>1, CleaningTypes DEF Sweeping
    <3>3. CASE hand # <<>> /\ Become(w, Cleaning("expel", hand))
      BY <2>1, <3>3, CleaningTypes DEF Sweeping
    <3>. QED  BY <1>3, <3>1, <3>2, <3>3 DEF CheckPlayer
  <2>. QED  BY <1>3, <2>2, PassKeeps DEF CheckPlayer, QueueTypes, RedisTypes, ChannelTypes, redis, slots
<1>4. CASE RemovePlayerFromQueue(w)
  <2> DEFINE hand == worker[w].hand
  <2>1. hand \in Seq(Player) /\ hand # <<>>
    BY <1>4, TaskOf DEF RemovePlayerFromQueue, QueueTypes, TaskTypes, Sweeping
  <2>2. Tail(hand) \in Seq(Player) /\ Head(hand) \in Player
    BY <2>1, HeadTailProperties
  <2>3. TaskTypes'
    BY <1>4, <2>2, CleaningTypes DEF RemovePlayerFromQueue, Sweeping
  <2>4. RedisTypes' /\ displaced' \subseteq Player
    <3>1. CASE /\ RemoveFromQueue(<<Head(hand)>>)
               /\ Displace(<<Head(hand)>>) \/ UNCHANGED displaced
      <4>1. <<Head(hand)>> \in Seq(Player)
        BY <2>2, EmptyInSeq
      <4>. QED  BY <3>1, <4>1, RemoveTypes, Displaced DEF QueueTypes
    <3>2. CASE UNCHANGED <<redis, displaced>>
      BY <3>2 DEF redis, QueueTypes, RedisTypes
    <3>. QED  BY <1>4, <3>1, <3>2 DEF RemovePlayerFromQueue
  <2>. QED  BY <1>4, <2>3, <2>4, PassKeeps DEF RemovePlayerFromQueue, QueueTypes, ChannelTypes, slots
<1>. QED  BY <1>1, <1>2, <1>3, <1>4 DEF SweepStep

LEMMA InHandIsSeq ==
    ASSUME QueueTypes, NEW w \in Worker
    PROVE  InHand(w) \in Seq(Player)
  BY TaskOf, EmptyInSeq DEF InHand, Steps

LEMMA StopTypes ==
    ASSUME QueueTypes, NEW w \in Worker, StopWorker(w)
    PROVE  QueueTypes'
<1>1. TaskTypes'
  BY IdleTypes DEF StopWorker
<1>2. displaced' \subseteq Player
  BY InHandIsSeq, Displaced DEF StopWorker
<1>3. /\ [pairingCh EXCEPT ![w] = 0] \in [Worker -> 0 .. Buffer]
      /\ [gcCh EXCEPT ![w] = 0] \in [Worker -> 0 .. Buffer]
  BY Numbers DEF QueueTypes, ChannelTypes
<1>4. pairingCh' \in [Worker -> 0 .. Buffer] /\ gcCh' \in [Worker -> 0 .. Buffer]
  BY <1>3, PublishTypes DEF StopWorker
<1>. QED  BY <1>1, <1>2, <1>4, PassKeeps DEF StopWorker, QueueTypes, RedisTypes, ChannelTypes, redis, slots

LEMMA TypesStep == QueueTypes /\ [Next]_vars => QueueTypes'
<1> SUFFICES ASSUME QueueTypes, [Next]_vars PROVE QueueTypes'
  OBVIOUS
<1>1. ASSUME NEW p \in Player, Connection(p) PROVE QueueTypes'
  BY <1>1, ConnectionTypes
<1>2. ASSUME NEW w \in Worker, BeginPairing(w) \/ BeginGC(w) \/ Pass(w) PROVE QueueTypes'
  BY <1>2, PairingTypes, SweepTypes DEF Pass, PairingStep, SweepStep
<1>3. ASSUME NEW w \in Worker, IntervalElapses(w) PROVE QueueTypes'
  BY <1>3 DEF IntervalElapses, QueueTypes, RedisTypes, ClientTypes, TaskTypes, ChannelTypes,
           redis, client, counts, slots
<1>4. CASE MatchCools
  BY <1>4 DEF MatchCools, QueueTypes, RedisTypes, ClientTypes, TaskTypes, ChannelTypes,
           redis, client, counts, loop
<1>5. CASE UNCHANGED vars
  BY <1>5 DEF vars, QueueTypes, RedisTypes, ClientTypes, TaskTypes, ChannelTypes,
           redis, client, counts, loop, slots
<1>6. ASSUME NEW w \in Worker, StopWorker(w) PROVE QueueTypes'
  BY <1>6, StopTypes
<1>. QED  BY <1>1, <1>2, <1>3, <1>4, <1>5, <1>6 DEF Next

\* Every variable has its type, for any players and workers, either strategy,
\* any number of joins and any faults: among them that a channel never holds
\* more than Buffer triggers, a hand is a sequence of players and nobody is
\* added to the queue more than MaxJoins times though looking up and adding are
\* two steps.
THEOREM QueueTypesAlways == Spec => []TypeOK
<1>1. QueueTypes => TypeOK
  <2> SUFFICES ASSUME QueueTypes PROVE TypeOK
    OBVIOUS
  <2>1. ASSUME NEW w \in Worker
        PROVE  \/ worker[w] = Idle
               \/ worker[w].at \in Steps /\ worker[w].hand \in Seq(Player) /\ worker[w].paired \in BOOLEAN
               \/ /\ worker[w].at = "rate" /\ worker[w].hand \in Seq(Player) /\ worker[w].paired \in BOOLEAN
                  /\ worker[w].tiers \in [Player -> -1 .. 2]
               \/ worker[w].at \in Sweeping /\ worker[w].hand \in Seq(Player)
    BY TaskOf, TaskParts
  <2>. QED  BY <2>1 DEF QueueTypes, RedisTypes, ClientTypes, TaskTypes, ChannelTypes, TypeOK, Sweeping
<1>. QED  BY <1>1, TypesInit, TypesStep, PTL DEF Spec

(***************************************************************************)
(* The places a player has in the hands of the workers.                    *)
(***************************************************************************)
HandOf(t) == IF t.at \in {"return", "start"} THEN t.hand ELSE <<>>

LEMMA HandIsSeq ==
    ASSUME NEW t \in Tasks
    PROVE  HandOf(t) \in Seq(Player)
  BY TaskParts, EmptyInSeq DEF HandOf, Steps

LEMMA TimesTagged ==
    ASSUME NEW w, NEW S, IsFiniteSet(S)
    PROVE  IsFiniteSet({w} \X S) /\ Cardinality({w} \X S) = Cardinality(S)
<1> DEFINE f == [i \in S |-> <<w, i>>]
<1>1. f \in [S -> {w} \X S] /\ \A a, b \in S : f[a] = f[b] => a = b
  OBVIOUS
<1>2. \A x \in {w} \X S : \E i \in S : f[i] = x
  OBVIOUS
<1> HIDE DEF f
<1>. QED  BY <1>1, <1>2, SameSize

\* When one worker turns to something else, the others keep what they have.
LEMMA HandMoves ==
    ASSUME QueueTypes, NEW w \in Worker, NEW t \in Tasks, Become(w, t),
           NEW p \in Player, IsFiniteSet(HandPlaces(p))
    PROVE  /\ IsFiniteSet(HandPlaces(p)')
           /\ Cardinality(HandPlaces(p)) \in Nat /\ Cardinality(HandPlaces(p)') \in Nat
           /\ Times(p, HandOf(worker[w])) \in Nat /\ Times(p, HandOf(t)) \in Nat
           /\ Times(p, HandOf(worker[w])) <= Cardinality(HandPlaces(p))
           /\ Cardinality(HandPlaces(p)') + Times(p, HandOf(worker[w]))
                = Cardinality(HandPlaces(p)) + Times(p, HandOf(t))
<1> DEFINE Others == UNION {{v} \X At(p, HandOf(worker[v])) : v \in Worker \ {w}}
           Mine(u) == {w} \X At(p, HandOf(u))
<1>1. worker[w] \in Tasks
  BY TaskOf
<1>2. worker'[w] = t /\ \A v \in Worker \ {w} : worker'[v] = worker[v]
  BY DEF Become, QueueTypes, TaskTypes
<1>3. HandPlaces(p) = Others \cup Mine(worker[w])
  BY DEF HandPlaces, InHand, HandOf
<1>4. HandPlaces(p)' = Others \cup Mine(t)
  <2>1. HandPlaces(p)' = UNION {{v} \X At(p, HandOf(worker'[v])) : v \in Worker}
    BY DEF HandPlaces, InHand, HandOf, At
  <2>2. {{v} \X At(p, HandOf(worker'[v])) : v \in Worker}
          = {{v} \X At(p, HandOf(worker[v])) : v \in Worker \ {w}} \cup {Mine(t)}
    BY <1>2
  <2>. QED  BY <2>1, <2>2
<1>5. ASSUME NEW u \in Tasks
      PROVE  /\ IsFiniteSet(Mine(u)) /\ Cardinality(Mine(u)) = Times(p, HandOf(u))
             /\ Times(p, HandOf(u)) \in Nat
             /\ Others \cap Mine(u) = {}
  <2>1. IsFiniteSet(At(p, HandOf(u))) /\ Times(p, HandOf(u)) \in Nat
    BY HandIsSeq, AtIsFinite
  <2>2. Others \cap Mine(u) = {}
    OBVIOUS
  <2>. QED  BY <2>1, <2>2, TimesTagged DEF Times
<1>6. IsFiniteSet(Others)
  <2>1. Others \subseteq HandPlaces(p)
    BY <1>3
  <2>. QED  BY <2>1, FS_Subset
<1> HIDE DEF Others, Mine
<1>7. ASSUME NEW u \in Tasks
      PROVE  /\ IsFiniteSet(Others \cup Mine(u))
             /\ Cardinality(Others \cup Mine(u)) = Cardinality(Others) + Times(p, HandOf(u))
  BY <1>5, <1>6, DisjointSizes
<1>8. Cardinality(Others) \in Nat
  BY <1>6, FS_CardinalityType
<1>9. /\ IsFiniteSet(HandPlaces(p)')
      /\ Cardinality(HandPlaces(p)) = Cardinality(Others) + Times(p, HandOf(worker[w]))
      /\ Cardinality(HandPlaces(p)') = Cardinality(Others) + Times(p, HandOf(t))
  BY <1>1, <1>3, <1>4, <1>7
<1>10. Times(p, HandOf(worker[w])) \in Nat /\ Times(p, HandOf(t)) \in Nat
  BY <1>1, <1>5
<1>. QED  BY <1>8, <1>9, <1>10

LEMMA HandsStay ==
    ASSUME UNCHANGED worker, NEW p
    PROVE  HandPlaces(p)' = HandPlaces(p)
  BY DEF HandPlaces, InHand, At

LEMMA Counted ==
    ASSUME QueueTypes, NEW p \in Player, IsFiniteSet(HandPlaces(p))
    PROVE  /\ Times(p, queue) \in Nat /\ Cardinality(HandPlaces(p)) \in Nat
           /\ Places(p) = Times(p, queue) + Cardinality(HandPlaces(p))
           /\ seats[p] \in Nat /\ joins[p] \in Nat
<1>1. Times(p, queue) \in Nat
  BY AtIsFinite DEF QueueTypes, RedisTypes
<1>2. Cardinality(HandPlaces(p)) \in Nat
  BY FS_CardinalityType
<1>3. seats[p] \in Nat /\ joins[p] \in Nat
  BY Numbers DEF QueueTypes, ClientTypes
<1>. QED  BY <1>1, <1>2, <1>3 DEF Places

LEMMA HandsInit ==
    ASSUME Init, NEW p
    PROVE  HandPlaces(p) = {} /\ IsFiniteSet(HandPlaces(p)) /\ Places(p) = 0
<1>1. \A w \in Worker : InHand(w) = <<>>
  BY DEF Init, Idle, InHand
<1>2. HandPlaces(p) = {}
  BY <1>1, TimesOfEmpty DEF HandPlaces
<1>3. Times(p, queue) = 0
  BY TimesOfEmpty DEF Init
<1>. QED  BY <1>2, <1>3, FS_EmptySet DEF Places

\* What one worker holds before and after a step.
LEMMA HandsOfSteps ==
    /\ HandOf(Idle) = <<>>
    /\ \A hand, b : \A s \in {"look", "pop", "times", "remove"} : HandOf(Pairing(s, hand, b)) = <<>>
    /\ \A hand, b : \A s \in {"return", "start"} : HandOf(Pairing(s, hand, b)) = hand
    /\ \A hand, tiers, b : HandOf(Timed(hand, tiers, b)) = <<>>
    /\ \A hand : \A s \in Sweeping : HandOf(Cleaning(s, hand)) = <<>>
  BY DEF HandOf, Idle, Pairing, Timed, Cleaning, Sweeping

(***************************************************************************)
(* One join leads to one match.                                            *)
(***************************************************************************)
\* Between its look at the queue and its removal a rating worker has a list,
\* then a group of it, that is still in the queue, or was: no member is then in
\* more matches and hands, this list counted, than he joined.
GroupsAreOwed ==
    \A w \in Worker : worker[w].at \in Reading =>
        \A p \in Player :
            seats[p] + Times(p, worker[w].hand) + Cardinality(HandPlaces(p)) <= joins[p]

Booked ==
    /\ \A p \in Player : IsFiniteSet(HandPlaces(p))
    /\ NoDoubleBooking
    /\ GroupsAreOwed

\* Two workers that pair by rating may read the same group: the queue is
\* theirs one at a time only if there is one.
OneReader == Strategy = "rating" => \A v, w \in Worker : v = w

LEMMA NoOtherReader ==
    ASSUME QueueTypes', OneReader, NEW w \in Worker, worker'[w].at \notin Reading
    PROVE  GroupsAreOwed'
  BY DEF OneReader, QueueTypes, TaskTypes, GroupsAreOwed

LEMMA BookedInit == Init => Booked
<1> SUFFICES ASSUME Init PROVE Booked
  OBVIOUS
<1>1. \A p \in Player : IsFiniteSet(HandPlaces(p)) /\ Places(p) = 0
  BY HandsInit
<1>2. NoDoubleBooking
  BY <1>1 DEF NoDoubleBooking, Init
<1>3. GroupsAreOwed
  BY DEF GroupsAreOwed, Init, Idle, Reading
<1>. QED  BY <1>1, <1>2, <1>3 DEF Booked

\* A step of a worker that takes from the queue what it adds to its hand, or
\* from its hand what it adds to the queue or to the matches, or less.
LEMMA Balanced ==
    ASSUME QueueTypes, QueueTypes', Booked, OneReader, UNCHANGED joins,
           NEW w \in Worker, NEW t \in Tasks, Become(w, t), t.at \notin Reading,
           \A p \in Player : seats'[p] + Times(p, queue') + Times(p, HandOf(t))
                               <= seats[p] + Times(p, queue) + Times(p, HandOf(worker[w]))
    PROVE  Booked'
<1>1. \A p \in Player : IsFiniteSet(HandPlaces(p)')
  BY HandMoves DEF Booked
<1>2. ASSUME NEW p \in Player PROVE seats'[p] + Places(p)' <= joins'[p]
  <2>1. IsFiniteSet(HandPlaces(p)) /\ seats[p] + Places(p) <= joins[p]
    BY DEF Booked, NoDoubleBooking
  <2>2. /\ Cardinality(HandPlaces(p)) \in Nat /\ Cardinality(HandPlaces(p)') \in Nat
        /\ Times(p, HandOf(worker[w])) \in Nat /\ Times(p, HandOf(t)) \in Nat
        /\ Cardinality(HandPlaces(p)') + Times(p, HandOf(worker[w]))
             = Cardinality(HandPlaces(p)) + Times(p, HandOf(t))
    BY <2>1, HandMoves
  <2>3. /\ Times(p, queue) \in Nat /\ seats[p] \in Nat /\ joins[p] \in Nat
        /\ Places(p) = Times(p, queue) + Cardinality(HandPlaces(p))
    BY <2>1, Counted
  <2>4. Times(p, queue') \in Nat /\ seats'[p] \in Nat
    BY AtIsFinite DEF QueueTypes, RedisTypes, ClientTypes
  <2>5. Places(p)' = Times(p, queue') + Cardinality(HandPlaces(p)')
    BY DEF Places, Times, At
  <2>6. joins'[p] = joins[p]
    OBVIOUS
  <2>. QED  BY <2>1, <2>2, <2>3, <2>4, <2>5, <2>6
<1>3. GroupsAreOwed'
  <2>1. worker'[w] = t
    BY DEF Become, QueueTypes, TaskTypes
  <2>. QED  BY <2>1, NoOtherReader
<1>. QED  BY <1>1, <1>2, <1>3 DEF Booked, NoDoubleBooking

\* A step of a connection: whoever comes to the queue has joined once more.
LEMMA Joined ==
    ASSUME QueueTypes, QueueTypes', Booked, UNCHANGED <<worker, seats>>,
           \A p \in Player : /\ joins[p] <= joins'[p]
                             /\ Times(p, queue') + joins[p] <= Times(p, queue) + joins'[p]
    PROVE  Booked'
<1>1. ASSUME NEW p \in Player
      PROVE  /\ IsFiniteSet(HandPlaces(p)) /\ HandPlaces(p)' = HandPlaces(p)
             /\ Cardinality(HandPlaces(p)) \in Nat
             /\ Times(p, queue) \in Nat /\ Times(p, queue') \in Nat
             /\ Places(p) = Times(p, queue) + Cardinality(HandPlaces(p))
             /\ Places(p)' = Times(p, queue') + Cardinality(HandPlaces(p))
             /\ seats[p] \in Nat /\ seats'[p] = seats[p] /\ joins[p] \in Nat /\ joins'[p] \in Nat
  <2>1. IsFiniteSet(HandPlaces(p)) /\ HandPlaces(p)' = HandPlaces(p)
    BY HandsStay DEF Booked
  <2>2. /\ Times(p, queue) \in Nat /\ Cardinality(HandPlaces(p)) \in Nat
        /\ Places(p) = Times(p, queue) + Cardinality(HandPlaces(p))
        /\ seats[p] \in Nat /\ joins[p] \in Nat
    BY <2>1, Counted
  <2>3. Times(p, queue') \in Nat /\ joins'[p] \in Nat
    BY AtIsFinite, Numbers DEF QueueTypes, RedisTypes, ClientTypes
  <2>4. Places(p)' = Times(p, queue') + Cardinality(HandPlaces(p)')
    BY DEF Places, Times, At
  <2>. QED  BY <2>1, <2>2, <2>3, <2>4
<1>2. NoDoubleBooking'
  <2>1. ASSUME NEW p \in Player PROVE seats'[p] + Places(p)' <= joins'[p]
    <3>1. seats[p] + Places(p) <= joins[p]
      BY DEF Booked, NoDoubleBooking
    <3>. QED  BY <1>1, <3>1
  <2>. QED  BY <2>1 DEF NoDoubleBooking
<1>3. GroupsAreOwed'
  <2>1. ASSUME NEW w \in Worker, worker'[w].at \in Reading, NEW p \in Player
        PROVE  seats'[p] + Times(p, worker'[w].hand) + Cardinality(HandPlaces(p)') <= joins'[p]
    <3>1. worker'[w] = worker[w]
      OBVIOUS
    <3>2. seats[p] + Times(p, worker[w].hand) + Cardinality(HandPlaces(p)) <= joins[p]
      BY <2>1, <3>1 DEF Booked, GroupsAreOwed
    <3>3. worker[w].hand \in Seq(Player)
      BY <2>1, <3>1, TaskOf DEF Steps, Reading
    <3>4. Times(p, worker[w].hand) \in Nat
      BY <3>3, AtIsFinite
    <3>. QED  BY <1>1, <3>1, <3>2, <3>4
  <2>. QED  BY <2>1 DEF GroupsAreOwed, Times, At
<1>. QED  BY <1>1, <1>2, <1>3 DEF Booked

\* The group a worker forms is no more of a player than the list has.
LEMMA GroupWithinList ==
    ASSUME NEW ids \in Seq(Player), NEW tiers, NEW seed \in Seeds(ids, tiers), NEW rest \in Closest(ids, seed),
           NEW p
    PROVE  Times(p, Group(ids, seed, rest)) <= Times(p, ids)
<1> DEFINE G == Group(ids, seed, rest)
           P == Place(seed, rest)
           S == At(p, G)
           T == At(p, ids)
           f == [i \in S |-> P[i]]
<1>1. /\ DOMAIN G = 1 .. LobbySize
      /\ P \in [1 .. LobbySize -> 1 .. Len(ids)]
      /\ \A i, j \in 1 .. LobbySize : P[i] = P[j] => i = j
      /\ \A i \in 1 .. LobbySize : G[i] = ids[P[i]]
  BY GroupIsOfList
<1>2. IsFiniteSet(T) /\ DOMAIN ids = 1 .. Len(ids)
  BY AtIsFinite, LenProperties
<1> HIDE DEF G, P
<1>3. S \subseteq 1 .. LobbySize /\ \A i \in S : P[i] \in T
  BY <1>1, <1>2 DEF At
<1>4. f \in [S -> T] /\ \A i, j \in S : f[i] = f[j] => i = j
  BY <1>1, <1>3
<1> HIDE DEF S, T, f
<1>5. Cardinality(S) <= Cardinality(T)
  BY <1>2, <1>4, AtMost
<1>. QED  BY <1>5 DEF S, T, G, Times

LEMMA RemovedIsLess ==
    ASSUME QueueTypes, NEW ps \in Seq(Player), RemoveFromQueue(ps), NEW p \in Player
    PROVE  /\ Times(p, queue) \in Nat /\ Times(p, ps) \in Nat /\ Times(p, queue') \in Nat
           /\ Times(p, queue') <= Times(p, queue)
           /\ Times(p, queue') + Times(p, ps) <= Times(p, queue) \/ Times(p, queue') = 0
           /\ Times(p, ps) = 0 => Times(p, queue') = Times(p, queue)
<1>1. queue \in Seq(Player)
  BY DEF QueueTypes, RedisTypes
<1>2. Times(p, queue) \in Nat /\ Times(p, ps) \in Nat
  BY <1>1, AtIsFinite
<1>3. Times(p, queue') = IF Times(p, queue) > Times(p, ps) THEN Times(p, queue) - Times(p, ps) ELSE 0
  BY <1>1, TimesOfRemoved DEF RemoveFromQueue
<1>. QED  BY <1>2, <1>3

LEMMA PushedIsMore ==
    ASSUME QueueTypes, NEW ps \in Seq(Player), PushPlayersToQueue(ps), NEW p \in Player
    PROVE  Times(p, queue') = Times(p, queue) + Times(p, ps)
  BY TimesOfConcat DEF QueueTypes, RedisTypes, PushPlayersToQueue

LEMMA PushedBack ==
    ASSUME QueueTypes, NEW ps \in Seq(Player), PushBack(ps), NEW p \in Player
    PROVE  /\ Times(p, queue') \in Nat /\ Times(p, queue) \in Nat /\ Times(p, ps) \in Nat
           /\ Times(p, queue') <= Times(p, queue) + Times(p, ps)
           /\ Times(p, queue') # Times(p, queue) + Times(p, ps) =>
                 (conn[p] = "on" => p \in displaced') /\ Times(p, queue') = Times(p, queue)
           /\ displaced \subseteq displaced'
           /\ UNCHANGED alive
<1>1. Times(p, queue) \in Nat /\ Times(p, ps) \in Nat
  BY AtIsFinite DEF QueueTypes, RedisTypes
<1>2. CASE PushPlayersToQueue(ps) /\ UNCHANGED displaced
  <2>1. Times(p, queue') = Times(p, queue) + Times(p, ps)
    BY <1>2, PushedIsMore
  <2>2. UNCHANGED <<alive, displaced>>
    BY <1>2 DEF PushPlayersToQueue
  <2>. QED  BY <1>1, <2>1, <2>2
<1>3. CASE Displace(ps) /\ UNCHANGED redis
  <2>1. queue' = queue /\ alive' = alive
    BY <1>3 DEF redis
  <2>2. Times(p, ps) > 0 => p \in Range(ps)
    BY TimesInRange
  <2>3. displaced \subseteq displaced' /\ \A q \in Range(ps) : conn[q] = "on" => q \in displaced'
    BY <1>3, Displaced
  <2>. QED  BY <1>1, <2>1, <2>2, <2>3
<1>. QED  BY <1>2, <1>3 DEF PushBack

LEMMA ConnectionBooks ==
    ASSUME QueueTypes, QueueTypes', Booked, NEW p \in Player, Connection(p)
    PROVE  Booked'
<1>0. \A q \in Player : joins[q] \in Nat /\ Times(q, queue) \in Nat
  BY Counted DEF Booked
<1>1. CASE UNCHANGED <<queue, counts, worker>>
  BY <1>0, <1>1, Joined DEF counts
<1>2. CASE Enqueue(p) /\ UNCHANGED <<seats, worker>>
  <2>1. \A q \in Player : /\ Times(q, queue') = Times(q, queue) + (IF q = p THEN 1 ELSE 0)
                          /\ joins'[q] = joins[q] + (IF q = p THEN 1 ELSE 0)
    BY <1>0, <1>2, TimesOfAppend DEF Enqueue, QueueTypes, RedisTypes, ClientTypes
  <2>2. \A q \in Player : /\ joins[q] <= joins'[q]
                          /\ Times(q, queue') + joins[q] <= Times(q, queue) + joins'[q]
    BY <1>0, <2>1
  <2>. QED  BY <1>2, <2>2, Joined
<1>3. CASE Disconnect(p) /\ RemoveFromQueue(<<p>>)
  <2>1. \A q \in Player : Times(q, queue') <= Times(q, queue) /\ Times(q, queue') \in Nat
    BY <1>3, EmptyInSeq, RemovedIsLess
  <2>2. UNCHANGED <<worker, seats, joins>>
    BY <1>3 DEF Disconnect, counts, loop
  <2>3. \A q \in Player : /\ joins[q] <= joins'[q]
                          /\ Times(q, queue') + joins[q] <= Times(q, queue) + joins'[q]
    BY <1>0, <2>1, <2>2
  <2>. QED  BY <2>2, <2>3, Joined
<1>4. CASE AddPlayerFails(p)
  BY <1>1, <1>2, <1>4 DEF AddPlayerFails, redis, counts
<1>. QED  BY <1>1, <1>2, <1>3, <1>4 DEF Connection, Connect, Subscribe, LookUp, AddPlayerToQueue,
             Disconnect, Drop, Hear, ExpireKey, Wait, redis, counts, loop

\* A worker that ends its pass drops its hand, what it did not put back.
LEMMA DroppedBooks ==
    ASSUME QueueTypes, QueueTypes', Booked, OneReader, NEW w \in Worker, Become(w, Idle), UNCHANGED counts,
           \A p \in Player : Times(p, queue') <= Times(p, queue) + Times(p, HandOf(worker[w]))
    PROVE  Booked'
<1>1. Idle \in Tasks /\ Idle.at \notin Reading /\ HandOf(Idle) = <<>>
  BY InTasks, EmptyInSeq DEF Idle, HandOf, Reading
<1>2. \A p \in Player : seats'[p] + Times(p, queue') + Times(p, HandOf(Idle))
                           <= seats[p] + Times(p, queue) + Times(p, HandOf(worker[w]))
  <2> SUFFICES ASSUME NEW p \in Player
               PROVE  seats'[p] + Times(p, queue') + Times(p, <<>>)
                        <= seats[p] + Times(p, queue) + Times(p, HandOf(worker[w]))
    BY <1>1
  <2>1. /\ Times(p, queue) \in Nat /\ Times(p, queue') \in Nat /\ Times(p, <<>>) = 0
        /\ seats[p] \in Nat /\ seats'[p] = seats[p]
    BY TimesOfEmpty, Counted, AtIsFinite DEF counts, Booked, QueueTypes, RedisTypes
  <2>2. Times(p, HandOf(worker[w])) \in Nat
    BY TaskOf, HandIsSeq, AtIsFinite
  <2>. QED  BY <2>1, <2>2
<1>. QED  BY <1>1, <1>2, Balanced DEF counts

LEMMA FinishBooks ==
    ASSUME QueueTypes, QueueTypes', Booked, OneReader, NEW w \in Worker,
           Finish(w), UNCHANGED <<queue, counts>>
    PROVE  Booked'
<1>1. ASSUME NEW p \in Player PROVE Times(p, queue') <= Times(p, queue) + Times(p, HandOf(worker[w]))
  <2>1. Times(p, queue) \in Nat /\ Times(p, HandOf(worker[w])) \in Nat
    BY TaskOf, HandIsSeq, AtIsFinite DEF QueueTypes, RedisTypes
  <2>. QED  BY <2>1
<1>. QED  BY <1>1, DroppedBooks DEF Finish

\* A worker goes on with a hand it took from the queue or held.
LEMMA GoOnBooks ==
    ASSUME QueueTypes, QueueTypes', Booked, OneReader, NEW w \in Worker, worker[w].at \in Steps,
           NEW s \in Steps, s \notin Reading, NEW hand \in Seq(Player), GoOn(w, s, hand), UNCHANGED counts,
           \A p \in Player : Times(p, queue') + Times(p, HandOf(Pairing(s, hand, TRUE)))
                               <= Times(p, queue) + Times(p, HandOf(worker[w]))
    PROVE  Booked'
<1> DEFINE t == Pairing(s, hand, worker[w].paired)
<1>1. worker[w].paired \in BOOLEAN
  BY TaskOf
<1>2. t \in Tasks /\ t.at \notin Reading /\ Become(w, t)
  BY <1>1, InTasks DEF Pairing, GoOn
<1>3. HandOf(t) = HandOf(Pairing(s, hand, TRUE))
  BY DEF HandOf, Pairing
<1> HIDE DEF t
<1>4. \A p \in Player : seats'[p] + Times(p, queue') + Times(p, HandOf(t))
                          <= seats[p] + Times(p, queue) + Times(p, HandOf(worker[w]))
  <2> SUFFICES ASSUME NEW p \in Player
               PROVE  seats'[p] + Times(p, queue') + Times(p, HandOf(t))
                        <= seats[p] + Times(p, queue) + Times(p, HandOf(worker[w]))
    OBVIOUS
  <2>1. /\ Times(p, queue) \in Nat /\ Times(p, queue') \in Nat
        /\ seats[p] \in Nat /\ seats'[p] = seats[p]
    BY Counted, AtIsFinite DEF counts, Booked, QueueTypes, RedisTypes
  <2>2. Times(p, HandOf(worker[w])) \in Nat /\ Times(p, HandOf(t)) \in Nat
    BY <1>2, TaskOf, HandIsSeq, AtIsFinite
  <2>3. Times(p, queue') + Times(p, HandOf(t)) <= Times(p, queue) + Times(p, HandOf(worker[w]))
    BY <1>3
  <2>. QED  BY <2>1, <2>2, <2>3
<1>. QED  BY <1>2, <1>4, Balanced DEF counts

\* A rating worker turns to a list that is owed: part of the queue, or of the
\* list it had.
LEMMA OwedBooks ==
    ASSUME QueueTypes, QueueTypes', Booked, OneReader, Strategy = "rating", UNCHANGED <<queue, counts>>,
           NEW w \in Worker, HandOf(worker[w]) = <<>>,
           NEW t \in Tasks, Become(w, t), HandOf(t) = <<>>, t.hand \in Seq(Player),
           \A p \in Player :
              seats[p] + Times(p, t.hand) + Cardinality(HandPlaces(p)) <= joins[p]
    PROVE  Booked'
<1>1. worker'[w] = t
  BY DEF Become, QueueTypes, TaskTypes
<1>2. ASSUME NEW p \in Player
      PROVE  /\ IsFiniteSet(HandPlaces(p)') /\ seats'[p] + Places(p)' <= joins'[p]
             /\ seats'[p] + Times(p, t.hand) + Cardinality(HandPlaces(p)') <= joins'[p]
  <2>1. IsFiniteSet(HandPlaces(p)) /\ seats[p] + Places(p) <= joins[p]
    BY DEF Booked, NoDoubleBooking
  <2>2. Times(p, <<>>) = 0 /\ Cardinality(HandPlaces(p)) \in Nat /\ Cardinality(HandPlaces(p)') \in Nat
    BY <2>1, HandMoves, TimesOfEmpty
  <2>3. IsFiniteSet(HandPlaces(p)') /\ Cardinality(HandPlaces(p)') = Cardinality(HandPlaces(p))
    BY <2>1, <2>2, HandMoves
  <2>4. /\ Places(p) = Times(p, queue) + Cardinality(HandPlaces(p))
        /\ Places(p)' = Times(p, queue') + Cardinality(HandPlaces(p)')
    BY DEF Places, Times, At
  <2>5. seats'[p] = seats[p] /\ joins'[p] = joins[p] /\ Times(p, queue') = Times(p, queue)
    BY DEF counts
  <2>6. seats[p] + Times(p, t.hand) + Cardinality(HandPlaces(p)) <= joins[p]
    OBVIOUS
  <2>. QED  BY <2>1, <2>3, <2>4, <2>5, <2>6
<1>3. ASSUME NEW v \in Worker, NEW p \in Player
      PROVE  seats'[p] + Times(p, worker'[v].hand) + Cardinality(HandPlaces(p)') <= joins'[p]
  <2>1. v = w
    BY DEF OneReader
  <2>. QED  BY <1>1, <1>2, <2>1
<1>. QED  BY <1>2, <1>3 DEF Booked, NoDoubleBooking, GroupsAreOwed, Times, At

LEMMA PairingBooks ==
    ASSUME QueueTypes, QueueTypes', Booked, OneReader, NEW w \in Worker, PairingStep(w)
    PROVE  Booked'
<1>1. \A p \in Player : /\ Times(p, queue) \in Nat /\ Times(p, queue') \in Nat
                        /\ seats[p] \in Nat /\ Times(p, <<>>) = 0
                        /\ joins[p] \in Nat /\ Cardinality(HandPlaces(p)) \in Nat
  <2>1. \A p \in Player : Times(p, queue') \in Nat
    BY AtIsFinite DEF QueueTypes, RedisTypes
  <2>. QED  BY <2>1, TimesOfEmpty, Counted DEF Booked
<1>2. CASE BeginPairing(w)
  <2>1. CASE UNCHANGED worker
    BY <1>1, <1>2, <2>1, Joined DEF BeginPairing, redis, counts
  <2>2. CASE Become(w, Pairing("look", <<>>, FALSE))
    <3> DEFINE t == Pairing("look", <<>>, FALSE)
    <3>1. t \in Tasks /\ t.at \notin Reading /\ HandOf(t) = <<>> /\ HandOf(worker[w]) = <<>>
      BY <1>2, InTasks, EmptyInSeq, HandsOfSteps DEF BeginPairing, Steps, Pairing, Reading
    <3>2. Become(w, t) /\ UNCHANGED <<queue, joins, seats>>
      BY <1>2, <2>2 DEF BeginPairing, redis, counts
    <3> HIDE DEF t
    <3>3. \A p \in Player : seats'[p] + Times(p, queue') + Times(p, HandOf(t))
                               <= seats[p] + Times(p, queue) + Times(p, HandOf(worker[w]))
      BY <1>1, <3>1, <3>2
    <3>. QED  BY <3>1, <3>2, <3>3, Balanced
  <2>. QED  BY <1>2, <2>1, <2>2 DEF BeginPairing
<1>3. CASE GameQueueSize(w)
  <2>1. worker[w].at \in Steps /\ UNCHANGED <<queue, counts>> /\ HandOf(worker[w]) = <<>>
    BY <1>3 DEF GameQueueSize, redis, Steps, HandOf
  <2>2. CASE GoOn(w, "pop", <<>>)
    <3>1. HandOf(Pairing("pop", <<>>, TRUE)) = <<>> /\ "pop" \in Steps /\ "pop" \notin Reading
      BY HandsOfSteps DEF Steps, Reading
    <3>2. \A p \in Player : Times(p, queue') + Times(p, <<>>) <= Times(p, queue) + Times(p, <<>>)
      BY <1>1, <2>1
    <3>. QED  BY <2>1, <2>2, <3>1, <3>2, EmptyInSeq, GoOnBooks
  <2>. QED  BY <1>3, <2>1, <2>2, FinishBooks DEF GameQueueSize
<1>4. CASE PopPlayersFromQueue(w)
  <2>1. worker[w].at \in Steps /\ UNCHANGED counts /\ HandOf(worker[w]) = <<>>
    BY <1>4 DEF PopPlayersFromQueue, Steps, HandOf
  <2>2. PICK s \in {"return", "start"} : GoOn(w, s, Popped)
    BY <1>4 DEF PopPlayersFromQueue
  <2>3. HandOf(Pairing(s, Popped, TRUE)) = Popped /\ s \in Steps /\ s \notin Reading
    BY HandsOfSteps DEF Steps, Reading
  <2>4. Popped \in Seq(Player) /\ queue' = LeftAfterPop
    BY <1>4, PopTypes DEF PopPlayersFromQueue
  <2>5. ASSUME NEW p \in Player PROVE Times(p, queue') + Times(p, Popped) <= Times(p, queue) + Times(p, <<>>)
    <3>1. Times(p, queue) = Times(p, Popped) + Times(p, queue') /\ Times(p, Popped) \in Nat
      BY <2>4, PopTypes, AtIsFinite
    <3>. QED  BY <1>1, <3>1
  <2>. QED  BY <2>1, <2>2, <2>3, <2>4, <2>5, GoOnBooks
<1>5. CASE PopFails(w)
  <2>1. /\ Become(w, Idle) /\ UNCHANGED counts /\ HandOf(worker[w]) = <<>>
        /\ queue' = queue \/ queue' = LeftAfterPop
    BY <1>5 DEF PopFails, Finish, HandOf
  <2>2. ASSUME NEW p \in Player PROVE Times(p, queue') <= Times(p, queue) + Times(p, <<>>)
    <3>1. Times(p, queue) = Times(p, Popped) + Times(p, LeftAfterPop) /\ Times(p, Popped) \in Nat
      BY PopTypes, AtIsFinite
    <3>. QED  BY <1>1, <2>1, <3>1
  <2>. QED  BY <2>1, <2>2, DroppedBooks
<1>6. CASE ReturnPlayers(w)
  <2>1. /\ HandOf(worker[w]) = worker[w].hand /\ worker[w].hand \in Seq(Player) /\ UNCHANGED counts
        /\ Become(w, Idle)
    BY <1>6, TaskOf DEF ReturnPlayers, Steps, HandOf, Finish
  <2>2. \A p \in Player : Times(p, queue') <= Times(p, queue) + Times(p, worker[w].hand)
    BY <1>6, <2>1, PushedBack DEF ReturnPlayers
  <2>. QED  BY <2>1, <2>2, DroppedBooks
<1>7. CASE MatchStarts(w)
  <2> DEFINE t == Pairing("look", <<>>, TRUE)
  <2>1. /\ worker[w].at \in Steps /\ HandOf(worker[w]) = worker[w].hand
        /\ worker[w].hand \in Seq(Player) /\ UNCHANGED <<queue, joins>>
    BY <1>7, TaskOf DEF MatchStarts, Steps, HandOf, redis
  <2>2. t \in Tasks /\ t.at \notin Reading /\ HandOf(t) = <<>> /\ Become(w, t)
    BY <1>7, InTasks, EmptyInSeq, HandsOfSteps DEF MatchStarts, Steps, Pairing, Reading
  <2> HIDE DEF t
  <2>3. \A p \in Player : seats'[p] = seats[p] + Times(p, worker[w].hand)
                          /\ Times(p, worker[w].hand) \in Nat
    BY <1>7, <2>1, AtIsFinite DEF MatchStarts
  <2>4. \A p \in Player : seats'[p] + Times(p, queue') + Times(p, HandOf(t))
                             <= seats[p] + Times(p, queue) + Times(p, HandOf(worker[w]))
    BY <1>1, <2>1, <2>2, <2>3
  <2>. QED  BY <2>1, <2>2, <2>4, Balanced
<1>8. CASE MatchFails(w)
  <2>1. /\ worker[w].at \in Steps /\ HandOf(worker[w]) = worker[w].hand
        /\ worker[w].hand \in Seq(Player) /\ UNCHANGED counts
        /\ HandOf(Pairing("look", <<>>, TRUE)) = <<>> /\ "look" \in Steps /\ "look" \notin Reading
        /\ GoOn(w, "look", <<>>)
    BY <1>8, TaskOf, HandsOfSteps DEF MatchFails, Steps, HandOf, counts, Reading
  <2>2. ASSUME NEW p \in Player
        PROVE  Times(p, queue') + Times(p, <<>>) <= Times(p, queue) + Times(p, worker[w].hand)
    <3>1. Times(p, worker[w].hand) \in Nat
      BY <2>1, AtIsFinite
    <3>2. CASE PushBack(worker[w].hand)
      BY <1>1, <2>1, <3>1, <3>2, PushedBack
    <3>3. CASE UNCHANGED redis
      BY <1>1, <3>1, <3>3 DEF redis
    <3>. QED  BY <1>8, <3>2, <3>3 DEF MatchFails
  <2>. QED  BY <2>1, <2>2, EmptyInSeq, GoOnBooks
<1>9. CASE ReadQueue(w)
  <2>1. worker[w].at \in Steps /\ UNCHANGED <<queue, counts>> /\ HandOf(worker[w]) = <<>> /\ Strategy = "rating"
    BY <1>9 DEF ReadQueue, redis, Steps, HandOf
  <2>2. CASE GoOn(w, "times", queue)
    <3> DEFINE t == Pairing("times", queue, worker[w].paired)
    <3>1. queue \in Seq(Player) /\ worker[w].paired \in BOOLEAN
      BY <2>1, TaskOf DEF QueueTypes, RedisTypes
    <3>2. t \in Tasks /\ HandOf(t) = <<>> /\ t.hand = queue /\ Become(w, t)
      BY <2>2, <3>1, InTasks, HandsOfSteps DEF Steps, GoOn, Pairing
    <3> HIDE DEF t
    <3>3. ASSUME NEW p \in Player PROVE seats[p] + Times(p, t.hand) + Cardinality(HandPlaces(p)) <= joins[p]
      <4>1. seats[p] + Places(p) <= joins[p]
        BY DEF Booked, NoDoubleBooking
      <4>. QED  BY <1>1, <3>2, <4>1 DEF Places
    <3>. QED  BY <2>1, <3>1, <3>2, <3>3, OwedBooks
  <2>. QED  BY <1>9, <2>1, <2>2, FinishBooks DEF ReadQueue
<1>10. CASE QueueJoinTimes(w)
  <2>1. /\ worker[w].at \in Steps /\ worker[w].at \in Reading /\ UNCHANGED <<queue, counts>>
        /\ HandOf(worker[w]) = <<>> /\ Strategy = "rating"
    BY <1>10 DEF QueueJoinTimes, redis, Steps, HandOf, Reading, QueueTypes, TaskTypes
  <2>2. CASE Become(w, Timed(worker[w].hand, waited, worker[w].paired))
    <3> DEFINE t == Timed(worker[w].hand, waited, worker[w].paired)
    <3>1. worker[w].hand \in Seq(Player) /\ worker[w].paired \in BOOLEAN /\ waited \in [Player -> -1 .. 2]
      BY <2>1, TaskOf DEF QueueTypes, RedisTypes
    <3>2. t \in Tasks
      BY <3>1, InTasks
    <3>3. HandOf(t) = <<>> /\ t.hand = worker[w].hand /\ Become(w, t)
      BY <2>2, HandsOfSteps DEF Timed
    <3> HIDE DEF t
    <3>4. \A p \in Player : seats[p] + Times(p, t.hand) + Cardinality(HandPlaces(p)) <= joins[p]
      BY <2>1, <3>3 DEF Booked, GroupsAreOwed
    <3>. QED  BY <2>1, <3>1, <3>2, <3>3, <3>4, OwedBooks
  <2>. QED  BY <1>10, <2>1, <2>2, FinishBooks DEF QueueJoinTimes
<1>11. CASE FormGroup(w)
  <2> DEFINE ids == worker[w].hand
  <2>1. /\ worker[w].at \in Reading /\ UNCHANGED <<queue, counts>>
        /\ HandOf(worker[w]) = <<>> /\ Strategy = "rating"
        /\ ids \in Seq(Player) /\ worker[w].paired \in BOOLEAN
    BY <1>11, TaskOf DEF FormGroup, redis, HandOf, Reading, QueueTypes, TaskTypes
  <2>2. ASSUME NEW seed \in Seeds(ids, worker[w].tiers), NEW rest \in Closest(ids, seed),
               GoOn(w, "remove", Group(ids, seed, rest))
        PROVE  Booked'
    <3> DEFINE G == Group(ids, seed, rest)
               t == Pairing("remove", G, worker[w].paired)
    <3>1. G \in Seq(Player) /\ \A p \in Player : Times(p, G) <= Times(p, ids) /\ Times(p, G) \in Nat
      BY <2>1, GroupIsOfList, GroupWithinList, AtIsFinite
    <3> HIDE DEF G
    <3>2. t \in Tasks /\ HandOf(t) = <<>> /\ t.hand = G /\ Become(w, t)
      BY <2>1, <2>2, <3>1, InTasks, HandsOfSteps DEF Steps, GoOn, Pairing, G
    <3> HIDE DEF t
    <3>3. ASSUME NEW p \in Player PROVE seats[p] + Times(p, t.hand) + Cardinality(HandPlaces(p)) <= joins[p]
      <4>1. seats[p] + Times(p, ids) + Cardinality(HandPlaces(p)) <= joins[p]
        BY <2>1 DEF Booked, GroupsAreOwed
      <4>2. Times(p, ids) \in Nat
        BY <2>1, AtIsFinite
      <4>. QED  BY <1>1, <3>1, <3>2, <4>1, <4>2
    <3>. QED  BY <2>1, <3>1, <3>2, <3>3, OwedBooks
  <2>. QED  BY <1>11, <2>1, <2>2, FinishBooks DEF FormGroup
<1>12. CASE RemovePlayersFromQueue(w)
  <2> DEFINE hand == worker[w].hand
             t == Pairing("start", hand, worker[w].paired)
  <2>1. /\ worker[w].at = "remove" /\ worker[w].at \in Steps /\ HandOf(worker[w]) = <<>> /\ UNCHANGED counts
        /\ worker[w].at \in Reading
    BY <1>12 DEF RemovePlayersFromQueue, Steps, HandOf, Reading
  <2>2. hand \in Seq(Player) /\ worker[w].paired \in BOOLEAN
    BY <2>1, TaskOf
  <2>3. t \in Tasks /\ HandOf(t) = hand /\ t.at = "start" /\ Become(w, t)
    <3> HIDE DEF hand
    <3>. QED  BY <1>12, <2>2, InTasks, HandsOfSteps DEF RemovePlayersFromQueue, Steps, GoOn, Pairing, hand
  <2>4. RemoveFromQueue(hand)
    BY <1>12 DEF RemovePlayersFromQueue
  <2> HIDE DEF t, hand
  <2>5. ASSUME NEW p \in Player
        PROVE  IsFiniteSet(HandPlaces(p)') /\ seats'[p] + Places(p)' <= joins'[p]
    <3>1. IsFiniteSet(HandPlaces(p)) /\ seats[p] + Places(p) <= joins[p]
      BY DEF Booked, NoDoubleBooking
    <3>2. seats[p] + Times(p, hand) + Cardinality(HandPlaces(p)) <= joins[p]
      BY <2>1 DEF Booked, GroupsAreOwed, hand
    <3>3. /\ IsFiniteSet(HandPlaces(p)')
          /\ Cardinality(HandPlaces(p)') = Cardinality(HandPlaces(p)) + Times(p, hand)
      <4>1. Cardinality(HandPlaces(p)') \in Nat /\ Times(p, hand) \in Nat
        BY <2>3, <3>1, HandMoves
      <4>. QED  BY <1>1, <2>1, <2>3, <3>1, <4>1, HandMoves
    <3>4. /\ Times(p, hand) \in Nat
          /\ Times(p, queue') + Times(p, hand) <= Times(p, queue) \/ Times(p, queue') = 0
      BY <2>2, <2>4, RemovedIsLess
    <3>5. /\ Places(p) = Times(p, queue) + Cardinality(HandPlaces(p))
          /\ Places(p)' = Times(p, queue') + Cardinality(HandPlaces(p)')
      BY DEF Places, Times, At
    <3>6. seats'[p] = seats[p] /\ joins'[p] = joins[p]
      BY <2>1 DEF counts
    <3>. QED  BY <1>1, <3>1, <3>2, <3>3, <3>4, <3>5, <3>6
  <2>6. worker'[w] = t
    BY <2>3 DEF Become, QueueTypes, TaskTypes
  <2>7. GroupsAreOwed'
    BY <2>3, <2>6, NoOtherReader DEF Reading
  <2>. QED  BY <2>5, <2>7 DEF Booked, NoDoubleBooking
<1>13. CASE RemovalFails(w)
  <2>1. /\ HandOf(worker[w]) = <<>> /\ UNCHANGED counts /\ Become(w, Idle)
        /\ worker[w].hand \in Seq(Player)
        /\ RemoveFromQueue(worker[w].hand) \/ queue' = queue
    BY <1>13, TaskOf DEF RemovalFails, HandOf, Finish, Steps, redis
  <2>2. ASSUME NEW p \in Player PROVE Times(p, queue') <= Times(p, queue) + Times(p, <<>>)
    <3>1. RemoveFromQueue(worker[w].hand) => Times(p, queue') <= Times(p, queue)
      BY <2>1, RemovedIsLess
    <3>. QED  BY <1>1, <2>1, <3>1
  <2>. QED  BY <2>1, <2>2, DroppedBooks
<1>. QED  BY <1>2, <1>3, <1>4, <1>5, <1>6, <1>7, <1>8, <1>9, <1>10, <1>11, <1>12, <1>13 DEF PairingStep

\* What a step of the sweep turns to, and what it takes from the queue.
LEMMA SweepParts ==
    ASSUME QueueTypes, NEW w \in Worker,
           AllPlayersInQueue(w) \/ CheckPlayer(w) \/ RemovePlayerFromQueue(w)
    PROVE  /\ worker[w].at \in Sweeping /\ UNCHANGED <<client, counts>>
           /\ \E t \in Tasks : Become(w, t) /\ t.at \in Sweeping \cup {"idle"}
           /\ \/ UNCHANGED <<redis, displaced>>
              \/ /\ RemovePlayerFromQueue(w) /\ Head(worker[w].hand) \in Player
                 /\ RemoveFromQueue(<<Head(worker[w].hand)>>)
<1>1. \A s \in Sweeping, hand \in Seq(Player) :
         Cleaning(s, hand) \in Tasks /\ Cleaning(s, hand).at = s
  BY InTasks DEF Cleaning
<1>2. Idle \in Tasks /\ Idle.at = "idle"
  BY InTasks, EmptyInSeq DEF Idle
<1>3. CASE AllPlayersInQueue(w)
  <2>1. queue \in Seq(Player)
    BY DEF QueueTypes, RedisTypes
  <2>. QED  BY <1>1, <1>2, <1>3, <2>1 DEF AllPlayersInQueue, Sweeping
<1>4. CASE CheckPlayer(w)
  <2> DEFINE hand == worker[w].hand
  <2>1. hand \in Seq(Player)
    BY <1>4, TaskOf DEF CheckPlayer, Sweeping
  <2>2. \E t \in Tasks : Become(w, t) /\ t.at \in Sweeping \cup {"idle"}
    <3>1. CASE hand = <<>>
      BY <1>2, <1>4, <3>1 DEF CheckPlayer
    <3>2. CASE hand # <<>>
      <4>1. Tail(hand) \in Seq(Player)
        BY <2>1, <3>2, HeadTailProperties
      <4>2. Become(w, Cleaning("check", Tail(hand))) \/ Become(w, Cleaning("expel", hand))
        BY <1>4, <3>2 DEF CheckPlayer
      <4>. QED  BY <1>1, <2>1, <4>1, <4>2 DEF Sweeping
    <3>. QED  BY <3>1, <3>2
  <2>. QED  BY <1>4, <2>2 DEF CheckPlayer, Sweeping
<1>5. CASE RemovePlayerFromQueue(w)
  <2> DEFINE hand == worker[w].hand
  <2>1. hand \in Seq(Player) /\ hand # <<>>
    BY <1>5, TaskOf DEF RemovePlayerFromQueue, QueueTypes, TaskTypes, Sweeping
  <2>2. Tail(hand) \in Seq(Player) /\ Head(hand) \in Player
    BY <2>1, HeadTailProperties
  <2>3. Become(w, Cleaning("check", Tail(hand)))
    BY <1>5 DEF RemovePlayerFromQueue
  <2>. QED  BY <1>1, <1>5, <2>2, <2>3 DEF RemovePlayerFromQueue, Sweeping
<1>. QED  BY <1>3, <1>4, <1>5

LEMMA BeginGCParts ==
    ASSUME QueueTypes, NEW w \in Worker, BeginGC(w)
    PROVE  /\ UNCHANGED <<redis, client, displaced, counts>> /\ worker[w].at = "idle"
           /\ \/ UNCHANGED worker
              \/ \E t \in Tasks : Become(w, t) /\ t.at \in Sweeping \cup {"idle"}
<1>1. Cleaning("list", <<>>) \in Tasks /\ Cleaning("list", <<>>).at = "list"
  BY InTasks, EmptyInSeq DEF Cleaning, Sweeping
<1>. QED  BY <1>1 DEF BeginGC, Sweeping, Idle

LEMMA SweepBooks ==
    ASSUME QueueTypes, QueueTypes', Booked, OneReader, NEW w \in Worker, SweepStep(w)
    PROVE  Booked'
<1>1. \A p \in Player : /\ Times(p, queue) \in Nat /\ Times(p, queue') \in Nat
                        /\ seats[p] \in Nat /\ Times(p, <<>>) = 0 /\ joins[p] \in Nat
  <2>1. \A p \in Player : Times(p, queue') \in Nat
    BY AtIsFinite DEF QueueTypes, RedisTypes
  <2>. QED  BY <2>1, TimesOfEmpty, Counted DEF Booked
<1>2. ASSUME worker[w].at \in Sweeping \cup {"idle"}, UNCHANGED counts,
             NEW t \in Tasks, t.at \in Sweeping \cup {"idle"}, Become(w, t),
             \A p \in Player : Times(p, queue') <= Times(p, queue)
      PROVE  Booked'
  <2>1. t.at \notin Reading /\ HandOf(t) = <<>> /\ HandOf(worker[w]) = <<>>
    BY <1>2 DEF HandOf, Sweeping, Reading
  <2>2. \A p \in Player : seats'[p] + Times(p, queue') + Times(p, HandOf(t))
                             <= seats[p] + Times(p, queue) + Times(p, HandOf(worker[w]))
    BY <1>1, <1>2, <2>1 DEF counts
  <2>. QED  BY <1>2, <2>1, <2>2, Balanced DEF counts
<1>3. CASE BeginGC(w)
  <2>1. UNCHANGED <<queue, counts>>
    BY <1>3 DEF BeginGC, redis
  <2>2. CASE UNCHANGED worker
    BY <1>1, <2>1, <2>2, Joined DEF counts
  <2>. QED  BY <1>1, <1>2, <1>3, <2>1, <2>2, BeginGCParts
<1>4. CASE AllPlayersInQueue(w) \/ CheckPlayer(w) \/ RemovePlayerFromQueue(w)
  <2>1. \A p \in Player : Times(p, queue') <= Times(p, queue)
    <3>1. CASE UNCHANGED redis
      BY <1>1, <3>1 DEF redis
    <3>2. CASE Head(worker[w].hand) \in Player /\ RemoveFromQueue(<<Head(worker[w].hand)>>)
      <4>1. <<Head(worker[w].hand)>> \in Seq(Player)
        BY <3>2, EmptyInSeq
      <4>. QED  BY <3>2, <4>1, RemovedIsLess
    <3>. QED  BY <1>4, <3>1, <3>2, SweepParts
  <2>. QED  BY <1>2, <1>4, <2>1, SweepParts
<1>. QED  BY <1>3, <1>4 DEF SweepStep

LEMMA StopBooks ==
    ASSUME QueueTypes, QueueTypes', Booked, OneReader, NEW w \in Worker, StopWorker(w)
    PROVE  Booked'
<1>1. UNCHANGED <<queue, counts>> /\ Become(w, Idle)
  BY DEF StopWorker, redis
<1>2. ASSUME NEW p \in Player PROVE Times(p, queue') <= Times(p, queue) + Times(p, HandOf(worker[w]))
  <2>1. Times(p, queue) \in Nat /\ Times(p, HandOf(worker[w])) \in Nat
    BY TaskOf, HandIsSeq, AtIsFinite DEF QueueTypes, RedisTypes
  <2>. QED  BY <1>1, <2>1
<1>. QED  BY <1>1, <1>2, DroppedBooks

LEMMA BookedStep ==
    ASSUME QueueTypes, QueueTypes', Booked, OneReader, [Next]_vars
    PROVE  Booked'
<1>1. ASSUME NEW p \in Player, Connection(p) PROVE Booked'
  BY <1>1, ConnectionBooks
<1>2. ASSUME NEW w \in Worker, BeginPairing(w) \/ BeginGC(w) \/ Pass(w) PROVE Booked'
  BY <1>2, PairingBooks, SweepBooks DEF Pass, PairingStep, SweepStep
<1>3. CASE UNCHANGED <<queue, counts, worker>>
  <2>1. \A p \in Player : joins[p] \in Nat /\ Times(p, queue) \in Nat
    BY Counted DEF Booked
  <2>. QED  BY <1>3, <2>1, Joined DEF counts
<1>4. ASSUME NEW w \in Worker, StopWorker(w) PROVE Booked'
  BY <1>4, StopBooks
<1>. QED  BY <1>1, <1>2, <1>3, <1>4 DEF Next, IntervalElapses, MatchCools, vars, redis, loop

\* Joining once leads to at most one match: with first-in-first-out pairing,
\* any number of workers, joins and players, and with rating pairing and one
\* worker, a player is never in more matches, hands and places of the queue
\* together than the times he joined, whatever pushes back, sweeps,
\* disconnects, stopping workers and failing commands do in between.
THEOREM OneMatchPerJoin ==
    ASSUME OneReader
    PROVE  Spec => []NoDoubleBooking
<1>1. Init => QueueTypes /\ Booked
  BY TypesInit, BookedInit
<1>2. QueueTypes /\ Booked /\ [Next]_vars => (QueueTypes /\ Booked)'
  BY TypesStep, BookedStep
<1>3. QueueTypes /\ Booked => NoDoubleBooking
  BY DEF Booked
<1>. QED  BY <1>1, <1>2, <1>3, PTL DEF Spec

(***************************************************************************)
(* Who is connected is kept.                                               *)
(***************************************************************************)
\* Besides the property itself: whom nothing displaced has his key, so that no
\* sweep takes him, unless it displaces him.
Kept ==
    /\ \A p \in Player : IsFiniteSet(HandPlaces(p))
    /\ \A p \in Player : conn[p] = "on" /\ p \notin displaced => p \in alive
    /\ KeptWhileConnected

LEMMA KeptInit == Init => Kept
  BY HandsInit DEF Init, Kept, KeptWhileConnected

\* A step of a worker: whom it does not displace keeps his places, between the
\* queue and the worker's hand, or is told.
LEMMA KeptByWorker ==
    ASSUME QueueTypes, QueueTypes', Kept, NEW w \in Worker, NEW t \in Tasks, Become(w, t),
           UNCHANGED conn, displaced \subseteq displaced',
           \A p \in Player : conn[p] = "on" /\ p \notin displaced' =>
              /\ p \in alive => p \in alive'
              /\ note'[p] = "none" =>
                    /\ note[p] = "none"
                    /\ Times(p, queue) + Times(p, HandOf(worker[w])) <= Times(p, queue') + Times(p, HandOf(t))
    PROVE  Kept'
<1>1. \A p \in Player : IsFiniteSet(HandPlaces(p)')
  BY HandMoves DEF Kept
<1>2. \A p \in Player : conn'[p] = "on" /\ p \notin displaced' => p \in alive'
  BY DEF Kept
<1>3. ASSUME NEW p \in Player, conn'[p] = "on", note'[p] = "none", p \notin displaced'
      PROVE  Places(p)' > 0
  <2>1. /\ IsFiniteSet(HandPlaces(p)) /\ Places(p) > 0
        /\ Times(p, queue) + Times(p, HandOf(worker[w])) <= Times(p, queue') + Times(p, HandOf(t))
    BY <1>3 DEF Kept, KeptWhileConnected
  <2>2. /\ Cardinality(HandPlaces(p)) \in Nat /\ Cardinality(HandPlaces(p)') \in Nat
        /\ Times(p, HandOf(worker[w])) \in Nat /\ Times(p, HandOf(t)) \in Nat
        /\ Cardinality(HandPlaces(p)') + Times(p, HandOf(worker[w]))
             = Cardinality(HandPlaces(p)) + Times(p, HandOf(t))
    BY <2>1, HandMoves
  <2>3. Times(p, queue) \in Nat /\ Times(p, queue') \in Nat
    BY AtIsFinite DEF QueueTypes, RedisTypes
  <2>4. /\ Places(p) = Times(p, queue) + Cardinality(HandPlaces(p))
        /\ Places(p)' = Times(p, queue') + Cardinality(HandPlaces(p)')
    BY DEF Places, Times, At
  <2>. QED  BY <2>1, <2>2, <2>3, <2>4
<1>. QED  BY <1>1, <1>2, <1>3 DEF Kept, KeptWhileConnected

\* A step of a connection: who is connected after it is in the queue, or was
\* connected and loses no place.
LEMMA KeptByConnection ==
    ASSUME QueueTypes, QueueTypes', Kept, UNCHANGED worker,
           \A p \in Player : conn'[p] = "on" /\ p \notin displaced' =>
              \/ p \in alive' /\ Times(p, queue') > 0
              \/ /\ conn[p] = "on" /\ p \notin displaced /\ note'[p] = note[p]
                 /\ p \in alive => p \in alive'
                 /\ Times(p, queue') = Times(p, queue)
    PROVE  Kept'
<1>1. \A p \in Player : HandPlaces(p)' = HandPlaces(p) /\ IsFiniteSet(HandPlaces(p))
  BY HandsStay DEF Kept
<1>2. \A p \in Player : conn'[p] = "on" /\ p \notin displaced' => p \in alive'
  BY DEF Kept
<1>3. ASSUME NEW p \in Player, conn'[p] = "on", note'[p] = "none", p \notin displaced'
      PROVE  Places(p)' > 0
  <2>1. Times(p, queue) \in Nat /\ Times(p, queue') \in Nat /\ Cardinality(HandPlaces(p)) \in Nat
    BY <1>1, FS_CardinalityType, AtIsFinite DEF QueueTypes, RedisTypes
  <2>2. /\ Places(p) = Times(p, queue) + Cardinality(HandPlaces(p))
        /\ Places(p)' = Times(p, queue') + Cardinality(HandPlaces(p))
    BY <1>1 DEF Places, Times, At
  <2>3. Times(p, queue') > 0 \/ (Times(p, queue') = Times(p, queue) /\ Places(p) > 0)
    BY <1>3 DEF Kept, KeptWhileConnected
  <2>. QED  BY <2>1, <2>2, <2>3
<1>. QED  BY <1>1, <1>2, <1>3 DEF Kept, KeptWhileConnected

LEMMA ConnectionKeeps ==
    ASSUME QueueTypes, QueueTypes', Kept, NEW p \in Player, Connection(p)
    PROVE  Kept'
<1> DEFINE Same(q) == /\ conn[q] = "on" /\ q \notin displaced /\ note'[q] = note[q]
                      /\ q \in alive => q \in alive'
                      /\ Times(q, queue') = Times(q, queue)
<1>1. \A q \in Player : Times(q, queue) \in Nat
  BY AtIsFinite DEF QueueTypes, RedisTypes
<1>2. conn \in [Player -> {"off", "joining", "adding", "on"}] /\ note \in [Player -> {"none", "heard", "missed"}]
  BY DEF QueueTypes, ClientTypes
<1>3. ASSUME Close(p), UNCHANGED <<note, worker>>,
             \A q \in Player \ {p} : (q \in alive => q \in alive') /\ Times(q, queue') = Times(q, queue)
      PROVE  Kept'
  <2>1. \A q \in Player : conn'[q] = "on" /\ q \notin displaced' => q # p /\ Same(q)
    BY <1>2, <1>3 DEF Close
  <2>. QED  BY <1>3, <2>1, KeptByConnection
<1>4. ASSUME NEW q \in Player \ {p}, Enqueue(p)
      PROVE  (q \in alive => q \in alive') /\ Times(q, queue') = Times(q, queue)
  BY <1>1, <1>4, TimesOfAppend DEF Enqueue, QueueTypes, RedisTypes
<1>5. CASE Connect(p)
  <2>1. \A q \in Player : conn'[q] = "on" /\ q \notin displaced' => Same(q)
    BY <1>2, <1>5 DEF Connect, redis
  <2>. QED  BY <1>5, <2>1, KeptByConnection DEF Connect, loop
<1>6. CASE Subscribe(p) \/ Wait(p)
  <2>1. \A q \in Player : conn'[q] = "on" /\ q \notin displaced' => Same(q)
    BY <1>6 DEF Subscribe, Wait, redis, client
  <2>. QED  BY <1>6, <2>1, KeptByConnection DEF Subscribe, Wait, loop
<1>7. CASE LookUp(p)
  <2>1. CASE Close(p)
    BY <1>3, <1>7, <2>1 DEF LookUp, redis, loop
  <2>2. CASE conn' = [conn EXCEPT ![p] = "adding"] /\ UNCHANGED displaced
    <3>1. \A q \in Player : conn'[q] = "on" /\ q \notin displaced' => Same(q)
      BY <1>2, <1>7, <2>2 DEF LookUp, redis
    <3>. QED  BY <1>7, <3>1, KeptByConnection DEF LookUp, loop
  <2>. QED  BY <1>7, <2>1, <2>2 DEF LookUp
<1>8. CASE AddPlayerToQueue(p)
  <2>1. p \in alive' /\ Times(p, queue') > 0
    BY <1>1, <1>8, TimesOfAppend DEF AddPlayerToQueue, Enqueue, QueueTypes, RedisTypes
  <2>2. \A q \in Player \ {p} : conn'[q] = "on" /\ q \notin displaced' => Same(q)
    BY <1>2, <1>4, <1>8 DEF AddPlayerToQueue
  <2>. QED  BY <1>8, <2>1, <2>2, KeptByConnection DEF AddPlayerToQueue
<1>9. CASE AddPlayerFails(p)
  <2>1. \A q \in Player \ {p} : (q \in alive => q \in alive') /\ Times(q, queue') = Times(q, queue)
    BY <1>4, <1>9 DEF AddPlayerFails, redis
  <2>. QED  BY <1>3, <1>9, <2>1 DEF AddPlayerFails
<1>10. CASE Disconnect(p)
  <2>1. ASSUME NEW q \in Player \ {p} PROVE (q \in alive => q \in alive') /\ Times(q, queue') = Times(q, queue)
    <3>1. CASE RemoveFromQueue(<<p>>)
      <4>1. <<p>> \in Seq(Player) /\ Range(<<p>>) = {p} /\ Times(q, <<p>>) = 0
        BY EmptyInSeq, TimesOfOne
      <4>. QED  BY <3>1, <4>1, RemovedIsLess DEF RemoveFromQueue
    <3>2. CASE UNCHANGED redis
      BY <3>2 DEF redis
    <3>. QED  BY <1>10, <3>1, <3>2 DEF Disconnect
  <2>. QED  BY <1>3, <1>10, <2>1 DEF Disconnect, loop
<1>11. CASE Drop(p) \/ Hear(p)
  BY <1>3, <1>11 DEF Drop, Hear, redis, loop
<1>12. CASE ExpireKey(p)
  <2>1. \A q \in Player : conn'[q] = "on" /\ q \notin displaced' => Same(q)
    BY <1>12 DEF ExpireKey, client
  <2>. QED  BY <1>12, <2>1, KeptByConnection DEF ExpireKey, loop
<1>. QED  BY <1>5, <1>6, <1>7, <1>8, <1>9, <1>10, <1>11, <1>12 DEF Connection

\* A worker that pops keeps nobody from the queue but who is in its hand.
LEMMA PairingKeeps ==
    ASSUME QueueTypes, QueueTypes', Kept, Strategy = "random", NEW w \in Worker, PairingStep(w)
    PROVE  Kept'
<1>1. \A p \in Player : Times(p, queue) \in Nat /\ Times(p, <<>>) = 0
  BY TimesOfEmpty, AtIsFinite DEF QueueTypes, RedisTypes
<1>2. Idle \in Tasks /\ HandOf(Idle) = <<>>
  BY InTasks, EmptyInSeq, HandsOfSteps
<1>3. ASSUME NEW t \in Tasks, Become(w, t), HandOf(t) = <<>>, HandOf(worker[w]) = <<>>,
             UNCHANGED <<redis, client, displaced>>
      PROVE  Kept'
  BY <1>1, <1>3, KeptByWorker DEF redis, client
<1>4. ASSUME NEW s \in Steps, NEW hand \in Seq(Player), GoOn(w, s, hand), worker[w].at \in Steps
      PROVE  \E t \in Tasks : Become(w, t) /\ HandOf(t) = HandOf(Pairing(s, hand, TRUE))
  <2> DEFINE t == Pairing(s, hand, worker[w].paired)
  <2>1. worker[w].paired \in BOOLEAN
    BY <1>4, TaskOf
  <2>2. t \in Tasks /\ Become(w, t) /\ HandOf(t) = HandOf(Pairing(s, hand, TRUE))
    BY <1>4, <2>1, InTasks DEF GoOn, HandOf, Pairing
  <2>. QED  BY <2>2
<1>5. CASE BeginPairing(w)
  <2>1. UNCHANGED <<redis, client, displaced>>
    BY <1>5 DEF BeginPairing
  <2>2. CASE UNCHANGED worker
    <3>1. \A q \in Player : conn'[q] = conn[q] /\ note'[q] = note[q] /\ Times(q, queue') = Times(q, queue)
      BY <2>1 DEF redis, client
    <3>. QED  BY <2>1, <2>2, <3>1, KeptByConnection DEF redis
  <2>3. CASE Become(w, Pairing("look", <<>>, FALSE))
    <3>1. Pairing("look", <<>>, FALSE) \in Tasks /\ HandOf(Pairing("look", <<>>, FALSE)) = <<>>
      BY InTasks, EmptyInSeq, HandsOfSteps DEF Steps
    <3>2. HandOf(worker[w]) = <<>>
      BY <1>2, <1>5 DEF BeginPairing
    <3>. QED  BY <1>3, <2>1, <2>3, <3>1, <3>2
  <2>. QED  BY <1>5, <2>2, <2>3 DEF BeginPairing
<1>6. CASE GameQueueSize(w)
  <2>1. worker[w].at \in Steps /\ HandOf(worker[w]) = <<>> /\ UNCHANGED <<redis, client, displaced>>
    BY <1>6 DEF GameQueueSize, Steps, HandOf
  <2>2. CASE GoOn(w, "pop", <<>>)
    <3>1. HandOf(Pairing("pop", <<>>, TRUE)) = <<>> /\ "pop" \in Steps
      BY HandsOfSteps DEF Steps
    <3>2. PICK t \in Tasks : Become(w, t) /\ HandOf(t) = <<>>
      BY <1>4, <2>1, <2>2, <3>1, EmptyInSeq
    <3>. QED  BY <1>3, <2>1, <3>2
  <2>. QED  BY <1>2, <1>3, <1>6, <2>1, <2>2 DEF GameQueueSize, Finish
<1>7. CASE PopPlayersFromQueue(w)
  <2>1. worker[w].at \in Steps /\ HandOf(worker[w]) = <<>> /\ UNCHANGED <<alive, client, displaced>>
    BY <1>7 DEF PopPlayersFromQueue, Steps, HandOf
  <2>2. PICK s \in {"return", "start"} : GoOn(w, s, Popped)
    BY <1>7 DEF PopPlayersFromQueue
  <2>3. HandOf(Pairing(s, Popped, TRUE)) = Popped /\ s \in Steps /\ Popped \in Seq(Player)
    BY HandsOfSteps, PopTypes DEF Steps
  <2>4. PICK t \in Tasks : Become(w, t) /\ HandOf(t) = Popped
    BY <1>4, <2>1, <2>2, <2>3
  <2>5. ASSUME NEW p \in Player PROVE Times(p, queue) + Times(p, <<>>) <= Times(p, queue') + Times(p, Popped)
    <3>1. queue' = LeftAfterPop
      BY <1>7 DEF PopPlayersFromQueue
    <3>2. Times(p, queue) = Times(p, Popped) + Times(p, queue') /\ Times(p, Popped) \in Nat /\ Times(p, queue') \in Nat
      BY <3>1, <2>3, PopTypes, AtIsFinite
    <3>. QED  BY <1>1, <3>2
  <2>. QED  BY <2>1, <2>4, <2>5, KeptByWorker DEF client
<1>8. CASE PopFails(w)
  <2>1. Become(w, Idle) /\ HandOf(worker[w]) = <<>> /\ UNCHANGED <<alive, client>>
    BY <1>8 DEF PopFails, Finish, HandOf
  <2>2. CASE UNCHANGED <<queue, displaced>>
    BY <1>1, <1>2, <2>1, <2>2, KeptByWorker DEF client
  <2>3. CASE queue' = LeftAfterPop /\ Displace(Popped)
    <3>1. Popped \in Seq(Player)
      BY PopTypes
    <3>2. displaced \subseteq displaced' /\ \A p \in Range(Popped) : conn[p] = "on" => p \in displaced'
      BY <2>3, <3>1, Displaced
    <3>3. ASSUME NEW p \in Player, conn[p] = "on", p \notin displaced'
          PROVE  Times(p, queue) + Times(p, <<>>) <= Times(p, queue') + Times(p, <<>>)
      <4>1. ~(Times(p, Popped) > 0) /\ Times(p, Popped) \in Nat
        BY <3>1, <3>2, <3>3, TimesInRange, AtIsFinite
      <4>2. Times(p, queue) = Times(p, Popped) + Times(p, queue') /\ Times(p, queue') \in Nat
        BY <2>3, PopTypes, AtIsFinite
      <4>. QED  BY <1>1, <4>1, <4>2
    <3>. QED  BY <1>2, <2>1, <3>2, <3>3, KeptByWorker DEF client
  <2>. QED  BY <1>8, <2>2, <2>3 DEF PopFails
<1>9. CASE ReturnPlayers(w)
  <2>1. /\ Become(w, Idle) /\ HandOf(worker[w]) = worker[w].hand /\ worker[w].hand \in Seq(Player)
        /\ UNCHANGED client /\ PushBack(worker[w].hand)
    BY <1>9, TaskOf DEF ReturnPlayers, Finish, HandOf, Steps
  <2>2. UNCHANGED alive /\ displaced \subseteq displaced'
    BY <2>1 DEF PushBack, PushPlayersToQueue, Displace, redis
  <2>3. ASSUME NEW p \in Player, conn[p] = "on", p \notin displaced'
        PROVE  Times(p, queue) + Times(p, worker[w].hand) <= Times(p, queue') + Times(p, <<>>)
    BY <1>1, <2>1, <2>3, PushedBack
  <2>. QED  BY <1>2, <2>1, <2>2, <2>3, KeptByWorker DEF client
<1>10. CASE MatchStarts(w)
  <2>1. /\ HandOf(worker[w]) = worker[w].hand /\ worker[w].hand \in Seq(Player)
        /\ UNCHANGED <<redis, conn, displaced>> /\ PublishMatchReady(worker[w].hand)
        /\ Become(w, Pairing("look", <<>>, TRUE))
    BY <1>10, TaskOf DEF MatchStarts, HandOf, Steps
  <2>2. Pairing("look", <<>>, TRUE) \in Tasks /\ HandOf(Pairing("look", <<>>, TRUE)) = <<>>
    BY InTasks, EmptyInSeq, HandsOfSteps DEF Steps
  <2>3. ASSUME NEW p \in Player, conn[p] = "on", note'[p] = "none"
        PROVE  /\ note[p] = "none"
               /\ Times(p, queue) + Times(p, worker[w].hand) <= Times(p, queue') + Times(p, <<>>)
    <3>1. p \notin Range(worker[w].hand) /\ note[p] = "none"
      BY <2>1, <2>3 DEF PublishMatchReady
    <3>2. ~(Times(p, worker[w].hand) > 0) /\ Times(p, worker[w].hand) \in Nat
      BY <2>1, <3>1, TimesInRange, AtIsFinite
    <3>. QED  BY <1>1, <2>1, <3>1, <3>2 DEF redis
  <2>. QED  BY <2>1, <2>2, <2>3, KeptByWorker DEF redis
<1>11. CASE MatchFails(w)
  <2>1. /\ HandOf(worker[w]) = worker[w].hand /\ worker[w].hand \in Seq(Player) /\ worker[w].at \in Steps
        /\ UNCHANGED conn /\ GoOn(w, "look", <<>>) /\ "look" \in Steps
    BY <1>11, TaskOf DEF MatchFails, HandOf, Steps
  <2>0. HandOf(Pairing("look", <<>>, TRUE)) = <<>>
    BY HandsOfSteps
  <2>2. PICK t \in Tasks : Become(w, t) /\ HandOf(t) = <<>>
    BY <1>4, <2>0, <2>1, EmptyInSeq
  <2>3. CASE PushBack(worker[w].hand) /\ UNCHANGED note
    <3>1. UNCHANGED alive /\ displaced \subseteq displaced'
      BY <2>3 DEF PushBack, PushPlayersToQueue, Displace, redis
    <3>2. ASSUME NEW p \in Player, conn[p] = "on", p \notin displaced'
          PROVE  Times(p, queue) + Times(p, worker[w].hand) <= Times(p, queue') + Times(p, <<>>)
      BY <1>1, <2>1, <2>3, <3>2, PushedBack
    <3>. QED  BY <2>1, <2>2, <2>3, <3>1, <3>2, KeptByWorker
  <2>4. CASE PublishMatchReady(worker[w].hand) /\ UNCHANGED <<redis, displaced>>
    <3>1. ASSUME NEW p \in Player, conn[p] = "on", note'[p] = "none"
          PROVE  /\ note[p] = "none"
                 /\ Times(p, queue) + Times(p, worker[w].hand) <= Times(p, queue') + Times(p, <<>>)
      <4>1. p \notin Range(worker[w].hand) /\ note[p] = "none"
        BY <2>4, <3>1 DEF PublishMatchReady
      <4>2. ~(Times(p, worker[w].hand) > 0) /\ Times(p, worker[w].hand) \in Nat
        BY <2>1, <4>1, TimesInRange, AtIsFinite
      <4>. QED  BY <1>1, <2>4, <4>1, <4>2 DEF redis
    <3>. QED  BY <2>1, <2>2, <2>4, <3>1, KeptByWorker DEF redis
  <2>. QED  BY <1>11, <2>3, <2>4 DEF MatchFails
<1>12. ~(worker[w].at \in Reading) /\ ~ReadQueue(w)
  BY DEF QueueTypes, TaskTypes, ReadQueue
<1>. QED  BY <1>5, <1>6, <1>7, <1>8, <1>9, <1>10, <1>11, <1>12
       DEF PairingStep, QueueJoinTimes, FormGroup, RemovePlayersFromQueue, RemovalFails, Reading

LEMMA SweepKeeps ==
    ASSUME QueueTypes, QueueTypes', Kept, NEW w \in Worker, SweepStep(w)
    PROVE  Kept'
<1>1. \A p \in Player : Times(p, queue) \in Nat /\ Times(p, <<>>) = 0
  BY TimesOfEmpty, AtIsFinite DEF QueueTypes, RedisTypes
<1>2. ASSUME NEW t \in Tasks, Become(w, t), t.at \in Sweeping \cup {"idle"},
             worker[w].at \in Sweeping \cup {"idle"}, UNCHANGED <<redis, client, displaced>>
      PROVE  Kept'
  <2>1. HandOf(t) = <<>> /\ HandOf(worker[w]) = <<>>
    BY <1>2 DEF HandOf, Sweeping
  <2>. QED  BY <1>1, <1>2, <2>1, KeptByWorker DEF redis, client
<1>3. CASE BeginGC(w)
  <2>1. CASE UNCHANGED worker
    <3>1. UNCHANGED <<redis, client, displaced>>
      BY <1>3 DEF BeginGC
    <3>2. \A q \in Player : conn'[q] = conn[q] /\ note'[q] = note[q] /\ Times(q, queue') = Times(q, queue)
      BY <3>1 DEF redis, client
    <3>. QED  BY <2>1, <3>1, <3>2, KeptByConnection DEF redis
  <2>. QED  BY <1>2, <1>3, <2>1, BeginGCParts
<1>4. CASE AllPlayersInQueue(w) \/ CheckPlayer(w) \/ RemovePlayerFromQueue(w)
  <2>1. PICK t \in Tasks : Become(w, t) /\ t.at \in Sweeping \cup {"idle"}
    BY <1>4, SweepParts
  <2>2. worker[w].at \in Sweeping /\ UNCHANGED client
    BY <1>4, SweepParts
  <2>3. CASE UNCHANGED <<redis, displaced>>
    BY <1>2, <2>1, <2>2, <2>3
  <2>4. CASE /\ RemovePlayerFromQueue(w) /\ Head(worker[w].hand) \in Player
             /\ RemoveFromQueue(<<Head(worker[w].hand)>>) /\ ~UNCHANGED <<redis, displaced>>
    <3> DEFINE e == Head(worker[w].hand)
    <3>1. e \in Player /\ RemoveFromQueue(<<e>>) /\ <<e>> \in Seq(Player) /\ Range(<<e>>) = {e}
      BY <2>4, EmptyInSeq
    <3>2. IF e \in alive THEN Displace(<<e>>) ELSE UNCHANGED displaced
      BY <2>4 DEF RemovePlayerFromQueue
    <3>3. HandOf(t) = <<>> /\ HandOf(worker[w]) = <<>>
      BY <2>1, <2>2 DEF HandOf, Sweeping
    <3> HIDE DEF e
    <3>4. displaced \subseteq displaced' /\ (e \in alive /\ conn[e] = "on" => e \in displaced')
      BY <3>1, <3>2 DEF Displace
    <3>5. \A p \in Player : conn[p] = "on" /\ p \notin displaced' => p # e
      BY <3>4 DEF Kept
    <3>6. ASSUME NEW p \in Player, p # e
          PROVE  /\ p \in alive => p \in alive'
                 /\ Times(p, queue) + Times(p, <<>>) <= Times(p, queue') + Times(p, <<>>)
      <4>1. Times(p, <<e>>) = 0
        BY <3>1, <3>6, TimesOfOne
      <4>2. Times(p, queue') = Times(p, queue)
        BY <3>1, <4>1, RemovedIsLess
      <4>. QED  BY <1>1, <3>1, <3>6, <4>2 DEF RemoveFromQueue
    <3>. QED  BY <2>1, <2>2, <3>3, <3>4, <3>5, <3>6, KeptByWorker DEF client
  <2>. QED  BY <1>4, <2>3, <2>4, SweepParts
<1>. QED  BY <1>3, <1>4 DEF SweepStep

\* Whom a stopping worker has in hand is displaced.
LEMMA StopKeeps ==
    ASSUME QueueTypes, QueueTypes', Kept, NEW w \in Worker, StopWorker(w)
    PROVE  Kept'
<1>1. Idle \in Tasks /\ HandOf(Idle) = <<>> /\ InHand(w) \in Seq(Player) /\ HandOf(worker[w]) = InHand(w)
  BY InTasks, EmptyInSeq, HandsOfSteps, InHandIsSeq DEF HandOf, InHand
<1>2. Become(w, Idle) /\ UNCHANGED <<redis, client>> /\ Displace(InHand(w))
  BY DEF StopWorker
<1>3. displaced \subseteq displaced' /\ \A p \in Range(InHand(w)) : conn[p] = "on" => p \in displaced'
  BY <1>1, <1>2, Displaced
<1>4. ASSUME NEW p \in Player, conn[p] = "on", p \notin displaced'
      PROVE  Times(p, queue) + Times(p, InHand(w)) <= Times(p, queue') + Times(p, <<>>)
  <2>1. ~(Times(p, InHand(w)) > 0) /\ Times(p, InHand(w)) \in Nat
    BY <1>1, <1>3, <1>4, TimesInRange, AtIsFinite
  <2>2. Times(p, queue) \in Nat /\ queue' = queue /\ Times(p, <<>>) = 0
    BY <1>2, TimesOfEmpty, AtIsFinite DEF QueueTypes, RedisTypes, redis
  <2>. QED  BY <2>1, <2>2
<1>. QED  BY <1>1, <1>2, <1>3, <1>4, KeptByWorker DEF redis, client

LEMMA KeptStep ==
    ASSUME QueueTypes, QueueTypes', Kept, Strategy = "random", [Next]_vars
    PROVE  Kept'
<1>1. ASSUME NEW p \in Player, Connection(p) PROVE Kept'
  BY <1>1, ConnectionKeeps
<1>2. ASSUME NEW w \in Worker, BeginPairing(w) \/ BeginGC(w) \/ Pass(w) PROVE Kept'
  BY <1>2, PairingKeeps, SweepKeeps DEF Pass, PairingStep, SweepStep
<1>3. CASE UNCHANGED <<redis, client, displaced, worker>>
  <2>1. \A q \in Player : conn'[q] = conn[q] /\ note'[q] = note[q] /\ Times(q, queue') = Times(q, queue)
    BY <1>3 DEF redis, client
  <2>. QED  BY <1>3, <2>1, KeptByConnection DEF redis
<1>4. ASSUME NEW w \in Worker, StopWorker(w) PROVE Kept'
  BY <1>4, StopKeeps
<1>. QED  BY <1>1, <1>2, <1>3, <1>4 DEF Next, IntervalElapses, MatchCools, vars, loop

\* With first-in-first-out pairing and any number of workers, players and
\* joins, a connected player who was sent no message is in the queue or in a
\* worker's hand, although workers pop, push back and sweep, machines stop and
\* commands fail: whom no fault took out himself, and no sweep that had checked
\* him before he joined again, is kept.
THEOREM ConnectedAreKept ==
    ASSUME Strategy = "random"
    PROVE  Spec => []KeptWhileConnected
<1>1. Init => QueueTypes /\ Kept
  BY TypesInit, KeptInit
<1>2. QueueTypes /\ Kept /\ [Next]_vars => (QueueTypes /\ Kept)'
  BY TypesStep, KeptStep
<1>3. QueueTypes /\ Kept => KeptWhileConnected
  BY DEF Kept
<1>. QED  BY <1>1, <1>2, <1>3, PTL DEF Spec
=============================================================================
