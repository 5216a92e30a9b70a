--------------------------- MODULE Progress_proofs ---------------------------
(***************************************************************************)
(* Proofs about two of the components of MCProgress, the game server and   *)
(* the rating transactions, and about the four of them side by side; the   *)
(* spectator stream and the certificate have modules of their own.         *)
(***************************************************************************)
EXTENDS MCProgress, Spectate_proofs, WildcardTLS_proofs, DataLemmas

(***************************************************************************)
(* The game server.                                                        *)
(***************************************************************************)
ReporterSteps == {"none", "play", "report", "replay", "close", "done"}

\* The group is complete once, so that there is one reporter; where it stands
\* says what has been sent and closed.
OneReporter ==
    /\ GameServerTypeOK
    /\ \A i \in Reporter \ {1} : reporter[i] = "none"
    /\ reporter[1] = "none" <=> joined # Token
    /\ posts = IF reporter[1] \in {"none", "play", "report"} THEN 0 ELSE 1
    /\ shutdown <=> reporter[1] = "done"
    /\ process # "panicked"
    /\ process \in {"draining", "exited"} => shutdown

LEMMA FirstReporter == 1 \in Reporter
BY GameServerAssumption DEF Reporter

LEMMA OneReporterInit == GameServerInit => OneReporter
<1> SUFFICES ASSUME GameServerInit PROVE OneReporter
  OBVIOUS
<1>1. GameServerTypeOK
  <2>1. posts \in 0 .. MaxReporters
    BY GameServerAssumption DEF GameServerInit
  <2>. QED  BY <2>1 DEF GameServerInit, GameServerTypeOK
<1>. QED  BY <1>1, FirstReporter, GameServerAssumption DEF GameServerInit, OneReporter

\* The last to join starts the first reporter, and there is no other.
LEMMA JoinStartsOne ==
    ASSUME OneReporter, NEW t \in Token, AddPlayer(t), UNCHANGED <<shutdown, listener, process, posts>>
    PROVE  OneReporter'
<1> USE FirstReporter
<1>1. CASE UNCHANGED <<joined, reporter>>
  BY <1>1 DEF OneReporter, GameServerTypeOK
<1>2. CASE t \notin joined /\ joined' = joined \cup {t}
  <2>1. joined # Token /\ reporter[1] = "none"
    BY <1>2 DEF OneReporter
  <2>2. joined' \in SUBSET Token /\ IsFiniteSet(Token) /\ IsFiniteSet(joined')
    BY <1>2, GameServerAssumption, FS_Subset DEF OneReporter, GameServerTypeOK
  <2>3. Cardinality(joined') >= Cardinality(Token) <=> joined' = Token
    <3>1. Cardinality(joined') <= Cardinality(Token) /\ (Cardinality(joined') = Cardinality(Token) => joined' = Token)
      BY <2>2, FS_Subset
    <3>2. Cardinality(joined') \in Nat /\ Cardinality(Token) \in Nat
      BY <2>2, FS_CardinalityType
    <3>. QED  BY <3>1, <3>2
  <2>4. CASE joined' = Token
    <3>1. {j \in Reporter : reporter[j] # "none"} = {}
      BY <2>1 DEF OneReporter
    <3>2. StartReporter
      BY <1>2, <2>3, <2>4 DEF AddPlayer, AlreadyJoined
    <3>3. reporter' = [reporter EXCEPT ![1] = "play"]
      <4>1. PICK i \in Reporter : /\ i = Cardinality({j \in Reporter : reporter[j] # "none"}) + 1
                                  /\ reporter' = [reporter EXCEPT ![i] = "play"]
        BY <3>2 DEF StartReporter
      <4>2. Cardinality({j \in Reporter : reporter[j] # "none"}) = 0
        BY <3>1, FS_EmptySet
      <4>3. i = 1
        BY <4>1, <4>2
      <4>. QED  BY <4>1, <4>3
    <3>. QED  BY <2>1, <2>2, <2>4, <3>3 DEF OneReporter, GameServerTypeOK
  <2>5. CASE joined' # Token
    <3>1. UNCHANGED reporter
      BY <1>2, <2>3, <2>5 DEF AddPlayer, AlreadyJoined
    <3>. QED  BY <2>1, <2>2, <2>5, <3>1 DEF OneReporter, GameServerTypeOK
  <2>. QED  BY <2>4, <2>5
<1>. QED  BY <1>1, <1>2 DEF AddPlayer, AlreadyJoined

LEMMA OneReporterStep == OneReporter /\ [GameServerNext]_gameServerVars => OneReporter'
<1> SUFFICES ASSUME OneReporter, [GameServerNext]_gameServerVars PROVE OneReporter'
  OBVIOUS
<1> USE FirstReporter
<1>1. ASSUME NEW t \in Token, HandleHTTPJoin(t) \/ HandleTCPConnection(t) PROVE OneReporter'
  BY <1>1, JoinStartsOne DEF HandleHTTPJoin, HandleTCPConnection
<1>2. ASSUME NEW i \in Reporter, UploadArtifact(i) PROVE OneReporter'
  BY <1>2 DEF UploadArtifact, Goes, OneReporter, GameServerTypeOK
<1>3. ASSUME NEW i \in Reporter, ReportResult(i) PROVE OneReporter'
  <2>1. i = 1 /\ posts = 0 /\ posts' = 1 /\ UNCHANGED <<joined, shutdown, listener, process>>
    BY <1>3 DEF ReportResult, Goes, OneReporter
  <2>2. PICK to \in {"replay", "close"} : reporter' = [reporter EXCEPT ![i] = to]
    BY <1>3 DEF ReportResult, Goes
  <2>3. reporter[1] = "report"
    BY <1>3, <2>1 DEF ReportResult, Goes
  <2>4. posts' \in 0 .. MaxReporters
    BY <2>1, GameServerAssumption
  <2>. QED  BY <2>1, <2>2, <2>3, <2>4 DEF OneReporter, GameServerTypeOK
<1>4. ASSUME NEW i \in Reporter, CloseShutdownChan(i) PROVE OneReporter'
  BY <1>4 DEF CloseShutdownChan, Goes, OneReporter, GameServerTypeOK
<1>5. CASE CloseListener
  BY <1>5 DEF CloseListener, OneReporter, GameServerTypeOK
<1>6. CASE Main
  BY <1>6 DEF Main, OneReporter, GameServerTypeOK
<1>7. CASE StopsContainer
  BY <1>7 DEF StopsContainer, OneReporter, GameServerTypeOK
<1>8. CASE UNCHANGED gameServerVars
  BY <1>8 DEF gameServerVars, OneReporter, GameServerTypeOK
<1>. QED
  BY <1>1, <1>2, <1>3, <1>4, <1>5, <1>6, <1>7, <1>8 DEF GameServerNext, Reports

\* What OneResultThenExit promises in the end holds at every moment as far as
\* it goes: a result is sent at most once, and not before all have joined; the
\* channel is never closed twice; the process exits by itself only afterwards.
ReportsOnce ==
    /\ posts <= 1
    /\ posts = 1 => joined = Token
    /\ process # "panicked"
    /\ process = "exited" => posts = 1

\* However the players join, again and again, by HTTP and by TCP, reportResult
\* runs once (game-server/main.go): ReportsOnce is an invariant.
THEOREM ResultIsReportedOnce == GameServerSpec => [](GameServerTypeOK /\ ReportsOnce)
<1>1. OneReporter => GameServerTypeOK /\ ReportsOnce
  BY FirstReporter DEF OneReporter, ReportsOnce
<1>. QED  BY <1>1, OneReporterInit, OneReporterStep, PTL DEF GameServerSpec

(***************************************************************************)
(* The rating transactions.                                                *)
(***************************************************************************)
Transactions ==
    [step: {"none", "insert", "lock", "save", "ended"}, players: Seq(Rated), winners: SUBSET Rated,
     next: Nat, read: [Rated -> Int]]

\* A transaction under way is at one of its players, who are all different.
RatingTypes ==
    /\ rating \in [Rated -> Int \cup {NoRating}]
    /\ holder \in [Rated -> SUBSET Report]
    /\ elo \in [Report -> Transactions]
    /\ lookup \subseteq Rated
    /\ applied \in [Report -> [Rated -> Int]]
    /\ \A r \in Report :
          /\ \A i, j \in 1 .. Len(elo[r].players) : elo[r].players[i] = elo[r].players[j] => i = j
          /\ elo[r].step = "none" => elo[r].next = 1
          /\ elo[r].step \in {"insert", "lock"} => elo[r].next \in 1 .. Len(elo[r].players)
          /\ elo[r].step = "save" => Len(elo[r].players) # 0

\* A row has one holder, and who has read it holds it and has read what it is.
Worth == [p \in Rated |-> IF rating[p] = NoRating THEN DefaultRating ELSE rating[p]]
HasRead(t, i) == t.step = "save" \/ (t.step = "lock" /\ i < t.next)
ReadsAreCurrent ==
    /\ \A p \in Rated : \A r \in holder[p] : holder[p] = {r}
    /\ \A r \in Report : \A i \in 1 .. Len(elo[r].players) :
          HasRead(elo[r], i) =>
              /\ r \in holder[elo[r].players[i]]
              /\ elo[r].read[elo[r].players[i]] = Worth[elo[r].players[i]]

\* What reports have added up to; one that has not ended has added nothing.
Added(p) == SumOf([r \in Report |-> applied[r][p]], Report)
AllExplained ==
    /\ \A r \in Report : elo[r].step # "ended" => applied[r] = NoDeltas
    /\ \A p \in Rated : Worth[p] = DefaultRating + Added(p)
    /\ \A r \in Report : Len(elo[r].players) = 2 => SumOf(applied[r], Rated) = 0

LEMMA FinitelyRated == IsFiniteSet(Report) /\ IsFiniteSet(Rated)
BY RatingsAssumption

LEMMA NoDeltasType == NoDeltas \in [Rated -> Int] /\ \A p \in Rated : NoDeltas[p] = 0
BY DEF NoDeltas

LEMMA RatingsInitial == RatingsInit => RatingTypes /\ ReadsAreCurrent /\ AllExplained
<1> SUFFICES ASSUME RatingsInit PROVE RatingTypes /\ ReadsAreCurrent /\ AllExplained
  OBVIOUS
<1> USE NoDeltasType DEF RatingsInit
<1>1. \A r \in Report : /\ elo[r].players = <<>> /\ elo[r].step = "none" /\ elo[r].next = 1
                        /\ Len(elo[r].players) = 0
  OBVIOUS
<1>2. RatingTypes
  <2>1. elo \in [Report -> Transactions]
    <3>1. [step |-> "none", players |-> <<>>, winners |-> {}, next |-> 1, read |-> NoDeltas] \in Transactions
      BY DEF Transactions
    <3>. QED  BY <3>1
  <2>2. applied \in [Report -> [Rated -> Int]]
    OBVIOUS
  <2>3. /\ rating \in [Rated -> Int \cup {NoRating}]
        /\ holder \in [Rated -> SUBSET Report]
        /\ lookup \subseteq Rated
    OBVIOUS
  <2> HIDE DEF RatingsInit
  <2>. QED  BY <1>1, <2>1, <2>2, <2>3 DEF RatingTypes
<1>3. ReadsAreCurrent
  BY <1>1 DEF ReadsAreCurrent, HasRead
<1>4. ASSUME NEW p \in Rated PROVE Worth[p] = DefaultRating + Added(p)
  <2> DEFINE zeros == [r \in Report |-> applied[r][p]]
  <2>1. \A r \in Report : zeros[r] = 0
    OBVIOUS
  <2> HIDE DEF zeros
  <2>2. SumOf(zeros, Report) = 0
    BY <2>1, SumOfZeros, FinitelyRated
  <2>3. Added(p) = 0
    BY <2>2 DEF Added, zeros
  <2>4. Worth[p] = DefaultRating
    BY DEF Worth
  <2>. QED  BY <2>3, <2>4, RatingsAssumption
<1>5. \A r \in Report : applied[r] = NoDeltas /\ Len(elo[r].players) # 2
  <2>1. \A r \in Report : applied[r] = NoDeltas
    OBVIOUS
  <2> HIDE DEF RatingsInit
  <2>. QED  BY <1>1, <2>1
<1>. QED  BY <1>2, <1>3, <1>4, <1>5 DEF AllExplained

(***************************************************************************)
(* The arithmetic.                                                         *)
(***************************************************************************)
LEMMA RoundedIsInt ==
    ASSUME NEW a \in Int, NEW b \in Nat \ {0}
    PROVE  Rounded(a, b) \in Int
<1>1. 2 * b \in Nat \ {0} /\ b - 2 * a \in Int /\ 2 * a + b \in Int
  OBVIOUS
<1>2. (b - 2 * a) \div (2 * b) \in Int /\ (2 * a + b) \div (2 * b) \in Int
  BY <1>1
<1>. QED  BY <1>2 DEF Rounded

\* Halves go away from zero on both sides.
LEMMA RoundedIsOdd ==
    ASSUME NEW a \in Int, NEW b \in Nat \ {0}
    PROVE  Rounded(-a, b) = -Rounded(a, b)
<1> DEFINE d(n) == n \div (2 * b)
<1>1. d(b) = 0
  <2> DEFINE c == 2 * b
  <2>1. c \in Nat \ {0} /\ 0 <= b /\ b < c
    OBVIOUS
  <2> HIDE DEF c
  <2>2. b \div c = 0
    BY <2>1
  <2>. QED  BY <2>2 DEF c
<1>2. d(b - 2 * a) \in Int /\ d(b + 2 * a) \in Int
  <2>1. 2 * b \in Nat \ {0} /\ b - 2 * a \in Int /\ b + 2 * a \in Int
    OBVIOUS
  <2>. QED  BY <2>1
<1>3. 2 * a + b = b + 2 * a /\ b - 2 * (-a) = b + 2 * a /\ 2 * (-a) + b = b - 2 * a
  OBVIOUS
<1>4. /\ Rounded(a, b) = IF a < 0 THEN -d(b - 2 * a) ELSE d(b + 2 * a)
      /\ Rounded(-a, b) = IF -a < 0 THEN -d(b + 2 * a) ELSE d(b - 2 * a)
  BY <1>3 DEF Rounded
<1>5. a = 0 => b - 2 * a = b /\ b + 2 * a = b
  OBVIOUS
<1> HIDE DEF d
<1>6. a = 0 \/ a < 0 \/ -a < 0
  OBVIOUS
<1>. QED  BY <1>1, <1>2, <1>4, <1>5, <1>6

\* The players of a report are listed once each.
LEMMA SortedLists ==
    ASSUME NEW players
    PROVE  /\ Sorted(players) \in Seq(Rated)
           /\ \A i, j \in 1 .. Len(Sorted(players)) : i < j => Sorted(players)[i] < Sorted(players)[j]
           /\ \A i, j \in 1 .. Len(Sorted(players)) : Sorted(players)[i] = Sorted(players)[j] => i = j
<1> DEFINE S == ToSet(players) \cap Rated
           Before == [p \in S |-> {q \in S : q < p}]
           list == Sorted(players)
<1>1. IsFiniteSet(S) /\ S \subseteq Rated /\ S \subseteq Nat
  <2>1. S \in SUBSET Rated
    OBVIOUS
  <2>. QED  BY <2>1, RatingsAssumption, FS_Subset
<1>2. IsOrder(Before, S)
  <2> HIDE DEF S
  <2>1. Before \in [S -> SUBSET S] /\ \A p, q \in S : q \in Before[p] <=> q < p
    OBVIOUS
  <2>2. ASSUME NEW p \in S, NEW q \in S, p \in Before[q], NEW x \in Before[p] PROVE x \in Before[q]
    <3>1. x \in S /\ x < p /\ p < q
      BY <2>1, <2>2
    <3>2. x \in Nat /\ p \in Nat /\ q \in Nat
      BY <1>1, <3>1
    <3>3. x < q
      BY <3>1, <3>2
    <3>. QED  BY <2>1, <3>1, <3>3
  <2>3. \A p, q \in S : ~(p < p) /\ (p # q => p < q \/ q < p)
    BY <1>1
  <2> HIDE DEF Before
  <2>. QED  BY <2>1, <2>2, <2>3 DEF IsOrder
<1>3. IsListing(list, Before, S)
  <2>1. \A p \in S : Before[p] = {q \in S : q < p}
    OBVIOUS
  <2>2. list = [i \in 1 .. Cardinality(S) |-> CHOOSE p \in S : Cardinality({q \in S : q < p}) = i - 1]
    BY DEF Sorted, OrderedBy
  <2> HIDE DEF S, Before, list
  <2> DEFINE g(i) == CHOOSE p \in S : Cardinality({q \in S : q < p}) = i - 1
             h(i) == CHOOSE p \in S : Cardinality(Before[p]) = i - 1
  <2>3. \A i : g(i) = h(i)
    BY <2>1
  <2>4. list = [i \in 1 .. Cardinality(S) |-> g(i)]
    BY <2>2
  <2>5. list = [i \in 1 .. Cardinality(S) |-> h(i)]
    <3> HIDE DEF g, h
    <3>. QED  BY <2>3, <2>4
  <2>. QED  BY <2>5, ListedByChoice
<1>7. \A p, q \in S : q < p => q \in Before[p]
  OBVIOUS
<1> HIDE DEF S, Before, list
<1>4. /\ list \in Seq(S) /\ Len(list) = Cardinality(S)
      /\ \A i \in 1 .. Len(list) : list[i] \in S /\ Cardinality(Before[list[i]]) = i - 1
  BY <1>1, <1>2, <1>3, ListedInOrder
<1>5. list \in Seq(Rated)
  <2>1. Len(list) \in Nat /\ list \in [1 .. Len(list) -> S]
    BY <1>4
  <2>2. list \in [1 .. Len(list) -> Rated]
    BY <1>1, <2>1
  <2>. QED  BY <2>1, <2>2
<1>6. ASSUME NEW i \in 1 .. Len(list), NEW j \in 1 .. Len(list), list[i] = list[j] PROVE i = j
  BY <1>4, <1>6
<1>8. ASSUME NEW i \in 1 .. Len(list), NEW j \in 1 .. Len(list), i < j PROVE list[i] < list[j]
  <2>1. list[i] \in S /\ list[j] \in S /\ list[i] # list[j]
    BY <1>4, <1>6, <1>8
  <2>2. list[i] \in Nat /\ list[j] \in Nat
    BY <1>1, <2>1
  <2>3. ASSUME list[j] < list[i] PROVE FALSE
    <3>1. list[j] \in Before[list[i]]
      BY <1>7, <2>1, <2>3
    <3>2. Cardinality(Before[list[j]]) < Cardinality(Before[list[i]])
      BY <1>1, <1>2, <2>1, <3>1, PlaceOf
    <3>3. Cardinality(Before[list[j]]) = j - 1 /\ Cardinality(Before[list[i]]) = i - 1
      BY <1>4
    <3>. QED  BY <1>8, <3>2, <3>3
  <2>. QED  BY <2>1, <2>2, <2>3
<1>. QED  BY <1>5, <1>6, <1>8 DEF list

\* The opponents of a player are summed up.
LEMMA TotalIsSum ==
    ASSUME NEW t, NEW p, IsFiniteSet(ToSet(t.players))
    PROVE  LET S == ToSet(t.players) \ {p}
           IN  \E it : IsSum(it, [j \in S |-> Surplus(t, p, j)], S) /\ Total(t, p) = it[S]
<1> DEFINE S == ToSet(t.players) \ {p}
           f == [j \in S |-> Surplus(t, p, j)]
<1>1. IsFiniteSet(S)
  <2>1. S \in SUBSET ToSet(t.players)
    OBVIOUS
  <2>. QED  BY <2>1, FS_Subset
<1>2. \E it : IsSum(it, f, S) /\ Total(t, p) = it[S]
  <2>1. PICK it : IsSum(it, f, S)
    BY <1>1, SumExists
  <2>2. \A jt : IsSum(jt, f, S) <=>
                jt = [s \in SUBSET S |-> IF s = {} THEN 0 ELSE Surplus(t, p, AnyOf(s)) + jt[s \ {AnyOf(s)}]]
    <3>1. \A s \in SUBSET S : s # {} => f[AnyOf(s)] = Surplus(t, p, AnyOf(s))
      BY DEF AnyOf
    <3> HIDE DEF f
    <3>. QED  BY <3>1 DEF IsSum, SumOn
  <2> HIDE DEF f
  <2>3. \E jt : jt = [s \in SUBSET S |-> IF s = {} THEN 0 ELSE Surplus(t, p, AnyOf(s)) + jt[s \ {AnyOf(s)}]]
    BY <2>1, <2>2
  <2>4. \E jt : /\ jt = [s \in SUBSET S |->
                           IF s = {} THEN 0 ELSE Surplus(t, p, AnyOf(s)) + jt[s \ {AnyOf(s)}]]
                /\ Total(t, p) = jt[S]
    BY <2>3 DEF AnyOf, Total, MapThenSumSet, MapThenFoldSet
  <2>. QED  BY <2>2, <2>4
<1>. QED  BY <1>2

LEMMA ScoreIsInt == \A won, other \in BOOLEAN : Score(won, other) \in Int /\ Score(won, other) + Score(other, won) = Unit
<1>1. Unit \in Nat /\ Unit \div 2 \in Int /\ Unit \div 2 + Unit \div 2 = Unit
  BY RatingsAssumption
<1>. QED  BY <1>1 DEF Score

LEMMA SurplusIsInt ==
    ASSUME ExpectIsFair(Int), NEW t \in Transactions, NEW p \in Rated, NEW j \in Rated
    PROVE  Surplus(t, p, j) \in Int /\ Surplus(t, p, j) = -Surplus(t, j, p)
<1> DEFINE d == t.read[j] - t.read[p]
           e == t.read[p] - t.read[j]
           a == p \in t.winners
           b == j \in t.winners
<1>1. d \in Int /\ e \in Int /\ e = -d
  BY DEF Transactions
<1>2. Expect(d) \in Int /\ Expect(e) \in Int /\ Expect(d) + Expect(e) = Unit
  <2> HIDE DEF d, e
  <2>. QED  BY <1>1 DEF ExpectIsFair
<1>3. Score(a, b) \in Int /\ Score(b, a) \in Int /\ Score(a, b) + Score(b, a) = Unit
  <2>1. a \in BOOLEAN /\ b \in BOOLEAN
    OBVIOUS
  <2> HIDE DEF a, b
  <2>. QED  BY <2>1, ScoreIsInt
<1>4. Surplus(t, p, j) = Score(a, b) - Expect(d) /\ Surplus(t, j, p) = Score(b, a) - Expect(e)
  BY DEF Surplus
<1> HIDE DEF a, b, d, e
<1>. QED  BY <1>2, <1>3, <1>4, RatingsAssumption

LEMMA PlayersOf ==
    ASSUME NEW t \in Transactions
    PROVE  ToSet(t.players) \subseteq Rated /\ IsFiniteSet(ToSet(t.players))
<1>1. ToSet(t.players) \in SUBSET Rated
  BY DEF ToSet, Transactions
<1>. QED  BY <1>1, FS_Subset, RatingsAssumption

LEMMA TotalIsInt ==
    ASSUME ExpectIsFair(Int), NEW t \in Transactions, NEW p \in Rated
    PROVE  Total(t, p) \in Int
<1> DEFINE S == ToSet(t.players) \ {p}
           f == [j \in S |-> Surplus(t, p, j)]
<1>1. IsFiniteSet(S) /\ S \subseteq Rated
  <2>1. S \in SUBSET ToSet(t.players)
    OBVIOUS
  <2>. QED  BY <2>1, FS_Subset, PlayersOf
<1>2. PICK it : IsSum(it, f, S) /\ Total(t, p) = it[S]
  BY TotalIsSum, PlayersOf
<1>3. \A j \in S : f[j] \in Int
  BY <1>1, SurplusIsInt
<1> HIDE DEF f, S
<1>. QED  BY <1>1, <1>2, <1>3, SumHasType

LEMMA DeltaIsInt ==
    ASSUME ExpectIsFair(Int), NEW t \in Transactions, NEW p \in Rated, Len(t.players) # 0
    PROVE  Delta(t, p) \in Int
<1>1. Total(t, p) \in Int /\ KFactor \in Int /\ Unit \in Nat \ {0} /\ Len(t.players) \in Nat \ {0}
  <2>1. t.players \in Seq(Rated)
    BY DEF Transactions
  <2>2. Len(t.players) \in Nat \ {0}
    BY <2>1
  <2>3. Total(t, p) \in Int
    BY TotalIsInt
  <2>. QED  BY <2>2, <2>3, RatingsAssumption
<1>2. 2 * KFactor * Total(t, p) \in Int /\ Len(t.players) * Unit \in Nat \ {0}
  BY <1>1
<1>. QED  BY <1>2, RoundedIsInt DEF Delta

\* Of two, one gains what the other loses.
LEMMA DeltasOfTwo ==
    ASSUME ExpectIsFair(Int), NEW t \in Transactions, NEW p \in Rated, NEW q \in Rated, p # q,
           Len(t.players) = 2, ToSet(t.players) = {p, q}
    PROVE  Delta(t, q) = -Delta(t, p)
<1>1. ASSUME NEW x \in Rated, NEW y \in Rated, ToSet(t.players) \ {x} = {y}
      PROVE  Total(t, x) = Surplus(t, x, y)
  <2> DEFINE f == [j \in {y} |-> Surplus(t, x, j)]
  <2>1. PICK it : IsSum(it, f, {y}) /\ Total(t, x) = it[{y}]
    <3>1. IsFiniteSet(ToSet(t.players))
      BY PlayersOf
    <3>2. LET S == ToSet(t.players) \ {x}
          IN  \E it : IsSum(it, [j \in S |-> Surplus(t, x, j)], S) /\ Total(t, x) = it[S]
      BY <3>1, TotalIsSum
    <3>. QED  BY <1>1, <3>2
  <2>2. f[y] = Surplus(t, x, y) /\ Surplus(t, x, y) \in Int
    BY SurplusIsInt
  <2> HIDE DEF f
  <2>3. PICK jt : IsSum(jt, f, {y}) /\ SumOf(f, {y}) = jt[{y}]
    BY SumOfIsSum, FS_Singleton
  <2>4. it[{y}] = jt[{y}]
    <3>1. IsFiniteSet({y})
      BY FS_Singleton
    <3>. QED  BY <2>1, <2>3, <3>1, SumIsUnique
  <2>5. SumOf(f, {y}) = f[y]
    BY <2>2, SumOfOne
  <2>. QED  BY <2>1, <2>2, <2>3, <2>4, <2>5
<1>2. Total(t, p) = Surplus(t, p, q)
  BY <1>1
<1>3. Total(t, q) = Surplus(t, q, p)
  BY <1>1
<1>4. Total(t, p) \in Int /\ Total(t, q) \in Int /\ Total(t, q) = -Total(t, p)
  BY <1>2, <1>3, SurplusIsInt, TotalIsInt
<1>5. KFactor \in Int /\ Unit \in Nat \ {0}
  BY RatingsAssumption
<1>6. /\ 2 * KFactor * Total(t, p) \in Int /\ Len(t.players) * Unit \in Nat \ {0}
      /\ 2 * KFactor * Total(t, q) = -(2 * KFactor * Total(t, p))
  <2>1. \A k, x \in Int : 2 * k * (-x) = -(2 * k * x) /\ 2 * k * x \in Int
    OBVIOUS
  <2>. QED  BY <1>4, <1>5, <2>1
<1>. QED  BY <1>6, RoundedIsOdd DEF Delta

(***************************************************************************)
(* The steps of a transaction.                                             *)
(***************************************************************************)
LEMMA CurrentPlayer ==
    ASSUME RatingTypes, NEW r \in Report, elo[r].step \in {"insert", "lock"}
    PROVE  /\ Current(r) \in Rated
           /\ elo[r] \in Transactions /\ MovesOn(r) \in Transactions
           /\ MovesOn(r).players = elo[r].players /\ MovesOn(r).read = elo[r].read
           /\ Len(elo[r].players) \in Nat \ {0}
           /\ MovesOn(r).step \in {"insert", "lock"} => MovesOn(r).next \in 1 .. Len(elo[r].players)
           /\ elo[r].step = "insert" => MovesOn(r).step = "insert" \/ (MovesOn(r).step = "lock" /\ MovesOn(r).next = 1)
           /\ elo[r].step = "lock" =>
                 \/ MovesOn(r).step = "lock" /\ MovesOn(r).next = elo[r].next + 1
                 \/ MovesOn(r).step = "save" /\ elo[r].next = Len(elo[r].players)
<1> DEFINE t == elo[r]
           u == MovesOn(r)
           n == Len(elo[r].players)
<1>1. t \in Transactions /\ t.next \in 1 .. n
  BY DEF RatingTypes
<1>2. t.players \in Seq(Rated) /\ n \in Nat
  BY <1>1 DEF Transactions
<1>3. Current(r) \in Rated
  BY <1>1, <1>2 DEF Current
<1>4. n \in Nat \ {0} /\ t.next \in Nat
  BY <1>1, <1>2
<1>5. CASE t.next < n
  <2>1. u = [t EXCEPT !.next = @ + 1]
    BY <1>5 DEF MovesOn
  <2>2. t.next + 1 \in 1 .. n
    BY <1>4, <1>5
  <2>3. u \in Transactions /\ u.next = t.next + 1 /\ u.step = t.step /\ u.players = t.players /\ u.read = t.read
    <3>1. t.next + 1 \in Nat
      BY <1>4
    <3> HIDE DEF t, u, n
    <3>. QED  BY <1>1, <2>1, <3>1 DEF Transactions
  <2> HIDE DEF t, u, n
  <2>4. t.step \in {"insert", "lock"}
    BY DEF t
  <2>. QED  BY <1>1, <1>3, <1>4, <2>2, <2>3, <2>4 DEF t, u, n
<1>6. CASE ~(t.next < n)
  <2>1. u = [t EXCEPT !.next = 1, !.step = IF @ = "insert" THEN "lock" ELSE "save"]
    BY <1>6 DEF MovesOn
  <2>2. t.next = n
    BY <1>1, <1>4, <1>6
  <2>3. /\ u \in Transactions /\ u.next = 1 /\ u.players = t.players /\ u.read = t.read
        /\ u.step = IF t.step = "insert" THEN "lock" ELSE "save"
    <3> HIDE DEF t, u, n
    <3>. QED  BY <1>1, <2>1 DEF Transactions
  <2>4. 1 \in 1 .. n
    BY <1>4
  <2> HIDE DEF t, u, n
  <2>5. t.step \in {"insert", "lock"}
    BY DEF t
  <2>. QED  BY <1>1, <1>3, <1>4, <2>2, <2>3, <2>4, <2>5 DEF t, u, n
<1>. QED  BY <1>5, <1>6

\* A report that has not ended may still list other players.
LEMMA StaysExplained ==
    ASSUME RatingTypes, AllExplained, UNCHANGED applied, UNCHANGED Worth,
           \A q \in Report : \/ elo'[q].players = elo[q].players
                             \/ elo[q].step # "ended",
           \A q \in Report : elo'[q].step # "ended" => elo[q].step # "ended"
    PROVE  AllExplained'
<1>1. \A q \in Report : elo'[q].step # "ended" => applied'[q] = NoDeltas
  BY DEF AllExplained
<1>2. ASSUME NEW p \in Rated PROVE Worth'[p] = DefaultRating + Added(p)'
  <2>1. Added(p)' = Added(p)
    BY DEF Added
  <2>. QED  BY <2>1 DEF AllExplained
<1>3. ASSUME NEW q \in Report, Len(elo'[q].players) = 2 PROVE SumOf(applied'[q], Rated) = 0
  <2>1. CASE elo'[q].players = elo[q].players
    BY <1>3, <2>1 DEF AllExplained
  <2>2. CASE elo[q].step # "ended"
    <3>1. \A p \in Rated : applied[q][p] = 0
      BY <2>2, NoDeltasType DEF AllExplained
    <3>2. SumOf(applied[q], Rated) = 0
      BY <3>1, SumOfZeros, FinitelyRated
    <3>. QED  BY <3>2
  <2>. QED  BY <2>1, <2>2
<1>. QED  BY <1>1, <1>2, <1>3 DEF AllExplained

LEMMA WorthType ==
    ASSUME RatingTypes
    PROVE  Worth \in [Rated -> Int]
<1>1. DefaultRating \in Int
  BY RatingsAssumption
<1>2. rating \in [Rated -> Int \cup {NoRating}]
  BY DEF RatingTypes
<1>. QED  BY <1>1, <1>2 DEF Worth

LEMMA MatchEndedStep ==
    ASSUME RatingTypes, ReadsAreCurrent, AllExplained, NEW r \in Report, NEW players, NEW winners,
           MatchEnded(r, players, winners)
    PROVE  RatingTypes' /\ ReadsAreCurrent' /\ AllExplained'
<1> DEFINE list == Sorted(players)
           t == [elo[r] EXCEPT !.step = IF Len(list) < 2 THEN "ended" ELSE "insert",
                               !.players = list, !.winners = winners \cap Rated]
<1>1. /\ elo[r].step = "none" /\ elo' = [elo EXCEPT ![r] = t]
      /\ UNCHANGED <<rating, holder, lookup, applied>>
  BY DEF MatchEnded
<1>2. list \in Seq(Rated) /\ \A i, j \in 1 .. Len(list) : list[i] = list[j] => i = j
  BY SortedLists
<1>3. elo[r] \in Transactions /\ elo[r].next = 1
  BY <1>1 DEF RatingTypes
<1>4. /\ t \in Transactions /\ t.players = list /\ t.next = 1 /\ t.step = (IF Len(list) < 2 THEN "ended" ELSE "insert")
  <2> HIDE DEF list
  <2>. QED  BY <1>2, <1>3 DEF Transactions
<1>5. Len(list) \in Nat
  <2> HIDE DEF list
  <2>. QED  BY <1>2
<1> HIDE DEF t, list
<1>6. elo \in [Report -> Transactions]
  BY DEF RatingTypes
<1>7. elo'[r] = t /\ \A q \in Report : q # r => elo'[q] = elo[q]
  BY <1>1, <1>6
<1>8. RatingTypes'
  <2>1. elo' \in [Report -> Transactions]
    BY <1>1, <1>4, <1>6
  <2>2. t.step \in {"insert", "lock"} => t.next \in 1 .. Len(list)
    BY <1>4, <1>5
  <2>3. t.step # "save" /\ t.step # "none"
    BY <1>4
  <2>. QED  BY <1>1, <1>2, <1>4, <1>7, <2>1, <2>2, <2>3 DEF RatingTypes
<1>9. ReadsAreCurrent'
  <2>1. \A i : ~HasRead(t, i)
    BY <1>4 DEF HasRead
  <2>2. UNCHANGED Worth
    BY <1>1 DEF Worth
  <2>. QED  BY <1>1, <1>7, <2>1, <2>2 DEF ReadsAreCurrent
<1>10. AllExplained'
  <2>1. UNCHANGED Worth
    BY <1>1 DEF Worth
  <2>2. \A q \in Report : q # r => elo'[q] = elo[q]
    BY <1>7
  <2>. QED  BY <1>1, <2>1, <2>2, StaysExplained
<1>. QED  BY <1>8, <1>9, <1>10

LEMMA InsertRowStep ==
    ASSUME RatingTypes, ReadsAreCurrent, AllExplained, NEW r \in Report, InsertRow(r)
    PROVE  RatingTypes' /\ ReadsAreCurrent' /\ AllExplained'
<1> DEFINE p == Current(r)
           t == MovesOn(r)
<1>1. /\ elo[r].step = "insert" /\ elo' = [elo EXCEPT ![r] = t]
      /\ rating[p] # NoRating \/ holder[p] = {}
      /\ holder' = IF rating[p] # NoRating THEN holder ELSE [holder EXCEPT ![p] = {r}]
      /\ UNCHANGED <<rating, lookup, applied>>
  BY DEF InsertRow, MayInsert
<1>2. /\ p \in Rated /\ t \in Transactions /\ t.players = elo[r].players
      /\ Len(elo[r].players) \in Nat \ {0}
      /\ t.step \in {"insert", "lock"} => t.next \in 1 .. Len(elo[r].players)
      /\ t.step = "insert" \/ (t.step = "lock" /\ t.next = 1)
  BY <1>1, CurrentPlayer
<1> HIDE DEF t, p
<1>3. elo \in [Report -> Transactions] /\ holder \in [Rated -> SUBSET Report]
  BY DEF RatingTypes
<1>4. elo'[r] = t /\ \A q \in Report : q # r => elo'[q] = elo[q]
  BY <1>1, <1>3
<1>5. holder' \in [Rated -> SUBSET Report] /\ \A x \in Rated : holder[x] # {} => holder'[x] = holder[x]
  BY <1>1, <1>2, <1>3
<1>6. RatingTypes'
  <2>1. elo' \in [Report -> Transactions]
    BY <1>1, <1>2, <1>3
  <2>. QED  BY <1>1, <1>2, <1>4, <1>5, <2>1 DEF RatingTypes
<1>7. UNCHANGED Worth
  BY <1>1 DEF Worth
<1>8. ReadsAreCurrent'
  <2>1. \A i \in 1 .. Len(elo[r].players) : ~HasRead(t, i)
    BY <1>2 DEF HasRead
  <2>2. \A x \in Rated : \A q \in holder'[x] : holder'[x] = {q}
    BY <1>1, <1>2, <1>3 DEF ReadsAreCurrent
  <2>3. ASSUME NEW q \in Report, NEW i \in 1 .. Len(elo'[q].players), HasRead(elo'[q], i)
        PROVE  /\ q \in holder'[elo'[q].players[i]]
               /\ elo'[q].read[elo'[q].players[i]] = Worth'[elo'[q].players[i]]
    <3>1. q # r
      BY <1>2, <1>4, <2>1, <2>3
    <3>2. /\ q \in holder[elo[q].players[i]]
          /\ elo[q].read[elo[q].players[i]] = Worth[elo[q].players[i]]
      BY <1>4, <2>3, <3>1 DEF ReadsAreCurrent
    <3>3. elo[q].players \in Seq(Rated)
      BY <1>3 DEF Transactions
    <3>4. elo[q].players[i] \in Rated
      BY <1>4, <3>1, <3>3, <2>3
    <3>. QED  BY <1>4, <1>5, <1>7, <3>1, <3>2, <3>4
  <2>. QED  BY <2>2, <2>3 DEF ReadsAreCurrent
<1>9. AllExplained'
  BY <1>1, <1>2, <1>4, <1>7, StaysExplained
<1>. QED  BY <1>6, <1>8, <1>9

LEMMA LockRowStep ==
    ASSUME RatingTypes, ReadsAreCurrent, AllExplained, NEW r \in Report, LockRow(r)
    PROVE  RatingTypes' /\ ReadsAreCurrent' /\ AllExplained'
<1> DEFINE p == Current(r)
           u == MovesOn(r)
           t == [u EXCEPT !.read[p] = Worth[p]]
           list == elo[r].players
           n == elo[r].next
<1>1. /\ elo[r].step = "lock" /\ elo' = [elo EXCEPT ![r] = t]
      /\ holder[p] \subseteq {r}
      /\ holder' = [holder EXCEPT ![p] = @ \cup {r}]
      /\ UNCHANGED <<rating, lookup, applied>>
  <2>1. elo[r].step = "lock"
    BY DEF LockRow
  <2>2. p \in Rated
    BY <2>1, CurrentPlayer
  <2>3. Worth[p] = IF rating[p] = NoRating THEN DefaultRating ELSE rating[p]
    <3> HIDE DEF p
    <3>. QED  BY <2>2 DEF Worth
  <2>. QED  BY <2>1, <2>3 DEF LockRow, MayLock
<1>2. /\ p \in Rated /\ u \in Transactions /\ u.players = list /\ u.read = elo[r].read
      /\ Len(list) \in Nat \ {0}
      /\ u.step \in {"insert", "lock"} => u.next \in 1 .. Len(list)
      /\ \/ u.step = "lock" /\ u.next = n + 1
         \/ u.step = "save" /\ n = Len(list)
  BY <1>1, CurrentPlayer
<1>3. list \in Seq(Rated) /\ n \in 1 .. Len(list) /\ p = list[n]
  BY <1>1 DEF RatingTypes, Current, Transactions
<1>4. Worth[p] \in Int
  BY <1>2, WorthType
<1>5. elo \in [Report -> Transactions] /\ holder \in [Rated -> SUBSET Report]
  BY DEF RatingTypes
<1> HIDE DEF p, u, list, n
<1>6. /\ t \in Transactions /\ t.players = list /\ t.next = u.next /\ t.step = u.step
      /\ t.read[p] = Worth[p] /\ \A x \in Rated : x # p => t.read[x] = u.read[x]
  <2> HIDE DEF t
  <2>1. t = [u EXCEPT !.read[p] = Worth[p]]
    BY DEF t
  <2>2. u.read \in [Rated -> Int]
    BY <1>2 DEF Transactions
  <2>. QED  BY <1>2, <1>4, <2>1, <2>2 DEF Transactions
<1> HIDE DEF t
<1>7. elo'[r] = t /\ \A q \in Report : q # r => elo'[q] = elo[q]
  BY <1>1, <1>5
<1>8. /\ holder' \in [Rated -> SUBSET Report] /\ holder'[p] = {r}
      /\ \A x \in Rated : x # p => holder'[x] = holder[x]
  BY <1>1, <1>2, <1>5
<1>9. RatingTypes'
  <2>1. elo' \in [Report -> Transactions]
    BY <1>1, <1>5, <1>6
  <2>2. t.step # "none" /\ elo[r].players = t.players
    BY <1>2, <1>6 DEF list
  <2>. QED  BY <1>1, <1>2, <1>6, <1>7, <1>8, <2>1, <2>2 DEF RatingTypes
<1>10. UNCHANGED Worth
  BY <1>1 DEF Worth
<1>11. ReadsAreCurrent'
  <2>1. \A x \in Rated : \A q \in holder'[x] : holder'[x] = {q}
    BY <1>8 DEF ReadsAreCurrent
  <2>2. ASSUME NEW i \in 1 .. Len(list), HasRead(t, i)
        PROVE  r \in holder'[list[i]] /\ t.read[list[i]] = Worth'[list[i]]
    <3>1. list[i] \in Rated
      BY <1>3
    <3>2. CASE i = n
      BY <1>3, <1>6, <1>8, <1>10, <3>2
    <3>3. CASE i # n
      <4>1. list[i] # p
        BY <1>3, <3>3 DEF RatingTypes, list
      <4>2. i < n
        BY <1>2, <1>3, <1>6, <2>2, <3>3 DEF HasRead
      <4>3. HasRead(elo[r], i)
        BY <1>1, <4>2 DEF HasRead, n
      <4>4. r \in holder[list[i]] /\ elo[r].read[list[i]] = Worth[list[i]]
        BY <4>3 DEF ReadsAreCurrent, list
      <4>. QED  BY <1>2, <1>6, <1>8, <1>10, <3>1, <4>1, <4>4
    <3>. QED  BY <3>2, <3>3
  <2>3. ASSUME NEW q \in Report, NEW i \in 1 .. Len(elo'[q].players), HasRead(elo'[q], i)
        PROVE  /\ q \in holder'[elo'[q].players[i]]
               /\ elo'[q].read[elo'[q].players[i]] = Worth'[elo'[q].players[i]]
    <3>1. CASE q = r
      BY <1>6, <1>7, <2>2, <2>3, <3>1
    <3>2. CASE q # r
      <4>1. /\ q \in holder[elo[q].players[i]]
            /\ elo[q].read[elo[q].players[i]] = Worth[elo[q].players[i]]
        BY <1>7, <2>3, <3>2 DEF ReadsAreCurrent
      <4>2. elo[q].players \in Seq(Rated)
        BY <1>5 DEF Transactions
      <4>3. elo[q].players[i] \in Rated
        BY <1>7, <3>2, <4>2, <2>3
      <4>4. elo[q].players[i] # p
        BY <1>1, <3>2, <4>1
      <4>. QED  BY <1>7, <1>8, <1>10, <3>2, <4>1, <4>3, <4>4
    <3>. QED  BY <3>1, <3>2
  <2>. QED  BY <2>1, <2>3 DEF ReadsAreCurrent
<1>12. AllExplained'
  <2>1. t.players = elo[r].players
    BY <1>6 DEF list
  <2>. QED  BY <1>1, <1>7, <1>10, <2>1, StaysExplained
<1>. QED  BY <1>9, <1>11, <1>12

\* A transaction that ends lets go of its rows, and of nobody else's.
LEMMA EndsStep ==
    ASSUME RatingTypes, ReadsAreCurrent, NEW r \in Report, Ends(r)
    PROVE  /\ elo' \in [Report -> Transactions] /\ holder' \in [Rated -> SUBSET Report]
           /\ elo'[r].step = "ended" /\ elo'[r].players = elo[r].players
           /\ \A q \in Report : q # r => elo'[q] = elo[q]
           /\ \A p \in Rated : \A q \in holder'[p] : holder'[p] = {q}
           /\ \A p \in Rated : \A q \in holder[p] : q # r => q \in holder'[p]
<1> DEFINE t == [elo[r] EXCEPT !.step = "ended", !.winners = {}, !.next = 1, !.read = NoDeltas]
<1>1. elo' = [elo EXCEPT ![r] = t] /\ holder' = [p \in Rated |-> holder[p] \ {r}]
  BY DEF Ends
<1>2. elo \in [Report -> Transactions] /\ holder \in [Rated -> SUBSET Report]
  BY DEF RatingTypes
<1>3. t \in Transactions /\ t.step = "ended" /\ t.players = elo[r].players
  <2>1. elo[r] \in Transactions
    BY <1>2
  <2>. QED  BY <2>1, NoDeltasType DEF Transactions
<1> HIDE DEF t
<1>4. \A p \in Rated : \A q \in holder'[p] : holder'[p] = {q}
  BY <1>1 DEF ReadsAreCurrent
<1>. QED  BY <1>1, <1>2, <1>3, <1>4

\* What two players of a match win and lose adds up to nothing.
LEMMA DeltasAddUp ==
    ASSUME ExpectIsFair(Int), NEW t \in Transactions, Len(t.players) = 2, t.players[1] # t.players[2]
    PROVE  SumOf(Deltas(t), Rated) = 0
<1> DEFINE a == t.players[1]
           b == t.players[2]
           d == Delta(t, a)
           one == [p \in Rated |-> IF p = a THEN d ELSE 0]
           both == Deltas(t)
<1>1. t.players \in Seq(Rated)
  BY DEF Transactions
<1>2. a \in Rated /\ b \in Rated /\ ToSet(t.players) = {a, b}
  BY <1>1 DEF ToSet
<1>3. d \in Int /\ Delta(t, b) = -d
  <2>1. Delta(t, b) = -Delta(t, a)
    <3> HIDE DEF a, b
    <3>1. a # b
      BY DEF a, b
    <3>. QED  BY <1>2, <3>1, DeltasOfTwo
  <2>2. Delta(t, a) \in Int
    <3> HIDE DEF a
    <3>. QED  BY <1>2, DeltaIsInt
  <2>. QED  BY <2>1, <2>2
<1>4. \A p \in Rated : both[p] = IF p = a THEN d ELSE IF p = b THEN -d ELSE 0
  BY <1>2, <1>3 DEF Deltas
<1>5. a # b
  OBVIOUS
<1> HIDE DEF a, b, d, both
<1>6. SumOf(NoDeltas, Rated) = 0
  BY NoDeltasType, SumOfZeros, FinitelyRated
<1>7. SumOf(one, Rated) = SumOf(NoDeltas, Rated) + d
  <2>1. /\ \A p \in Rated : NoDeltas[p] \in Int
        /\ \A p \in Rated : one[p] = IF p = a THEN NoDeltas[p] + d ELSE NoDeltas[p]
    BY <1>3, NoDeltasType
  <2> HIDE DEF one
  <2>. QED  BY <1>2, <1>3, <2>1, SumOfChanges, FinitelyRated
<1>8. SumOf(both, Rated) = SumOf(one, Rated) + -d
  <2>1. /\ \A p \in Rated : one[p] \in Int
        /\ \A p \in Rated : both[p] = IF p = b THEN one[p] + -d ELSE one[p]
    BY <1>3, <1>4, <1>5
  <2>2. -d \in Int
    BY <1>3
  <2> HIDE DEF one
  <2>. QED  BY <1>2, <2>1, <2>2, SumOfChanges, FinitelyRated
<1> HIDE DEF one
<1>. QED  BY <1>3, <1>6, <1>7, <1>8 DEF both

LEMMA SaveAndCommitStep ==
    ASSUME ExpectIsFair(Int), RatingTypes, ReadsAreCurrent, AllExplained, NEW r \in Report, SaveAndCommit(r)
    PROVE  RatingTypes' /\ ReadsAreCurrent' /\ AllExplained'
<1> DEFINE t == elo[r]
           P == ToSet(t.players)
           D == Deltas(t)
<1>1. /\ t.step = "save" /\ Ends(r)
      /\ rating' = [p \in Rated |-> IF p \in P THEN t.read[p] + Delta(t, p) ELSE rating[p]]
      /\ applied' = [applied EXCEPT ![r] = D]
      /\ UNCHANGED lookup
  BY DEF SaveAndCommit
<1>2. t \in Transactions /\ Len(t.players) # 0
  BY <1>1 DEF RatingTypes
<1>3. P \subseteq Rated
  BY <1>2, PlayersOf
<1>4. \A p \in P : Delta(t, p) \in Int /\ t.read[p] \in Int
  <2>1. \A p \in Rated : t.read[p] \in Int
    BY <1>2 DEF Transactions
  <2> HIDE DEF t, P
  <2>. QED  BY <1>2, <1>3, <2>1, DeltaIsInt
<1>5. \A p \in Rated : D[p] = (IF p \in P THEN Delta(t, p) ELSE 0) /\ D[p] \in Int
  BY <1>4 DEF Deltas
<1>6. D \in [Rated -> Int]
  BY <1>4 DEF Deltas
<1>7. \A p \in P : r \in holder[p] /\ t.read[p] = Worth[p]
  <2> SUFFICES ASSUME NEW p \in P PROVE r \in holder[p] /\ t.read[p] = Worth[p]
    OBVIOUS
  <2>1. PICK k \in DOMAIN t.players : p = t.players[k]
    BY DEF ToSet
  <2>2. t.players \in Seq(Rated)
    BY <1>2 DEF Transactions
  <2>3. k \in 1 .. Len(t.players)
    BY <2>2
  <2>4. HasRead(t, k)
    BY <1>1 DEF HasRead
  <2>. QED  BY <2>1, <2>3, <2>4 DEF ReadsAreCurrent
<1>8. /\ elo' \in [Report -> Transactions] /\ holder' \in [Rated -> SUBSET Report]
      /\ elo'[r].step = "ended" /\ elo'[r].players = elo[r].players
      /\ \A q \in Report : q # r => elo'[q] = elo[q]
      /\ \A p \in Rated : \A q \in holder'[p] : holder'[p] = {q}
      /\ \A p \in Rated : \A q \in holder[p] : q # r => q \in holder'[p]
  BY <1>1, EndsStep
<1>9. applied \in [Report -> [Rated -> Int]] /\ rating \in [Rated -> Int \cup {NoRating}]
  BY DEF RatingTypes
<1>10. DefaultRating \in Int /\ NoRating \notin Int
  BY RatingsAssumption
<1> HIDE DEF P, D
<1>11. RatingTypes'
  <2>1. rating' \in [Rated -> Int \cup {NoRating}]
    <3>1. \A p \in P : t.read[p] + Delta(t, p) \in Int
      BY <1>4
    <3>. QED  BY <1>1, <1>9, <3>1
  <2>2. applied' \in [Report -> [Rated -> Int]]
    BY <1>1, <1>6, <1>9
  <2>3. ASSUME NEW q \in Report
        PROVE  /\ \A i, j \in 1 .. Len(elo'[q].players) : elo'[q].players[i] = elo'[q].players[j] => i = j
               /\ elo'[q].step = "none" => elo'[q].next = 1
               /\ elo'[q].step \in {"insert", "lock"} => elo'[q].next \in 1 .. Len(elo'[q].players)
               /\ elo'[q].step = "save" => Len(elo'[q].players) # 0
    <3>1. CASE q = r
      <4>1. elo'[q].step = "ended" /\ elo'[q].players = elo[q].players
        BY <1>8, <3>1
      <4>. QED  BY <4>1 DEF RatingTypes
    <3>2. CASE q # r
      <4>1. elo'[q] = elo[q]
        BY <1>8, <3>2
      <4>. QED  BY <4>1 DEF RatingTypes
    <3>. QED  BY <3>1, <3>2
  <2>4. lookup' \subseteq Rated
    BY <1>1 DEF RatingTypes
  <2>. QED  BY <1>8, <2>1, <2>2, <2>3, <2>4 DEF RatingTypes
<1>12. \A p \in Rated : Worth'[p] = Worth[p] + D[p]
  <2> SUFFICES ASSUME NEW p \in Rated PROVE Worth'[p] = Worth[p] + D[p]
    OBVIOUS
  <2>1. Worth'[p] = IF rating'[p] = NoRating THEN DefaultRating ELSE rating'[p]
    BY DEF Worth
  <2>2. CASE p \in P
    <3>1. rating'[p] = t.read[p] + Delta(t, p)
      BY <1>1, <2>2
    <3>2. rating'[p] \in Int
      BY <1>4, <2>2, <3>1
    <3>3. rating'[p] # NoRating
      BY <1>10, <3>2
    <3>. QED  BY <1>5, <1>7, <2>1, <2>2, <3>1, <3>3
  <2>3. CASE p \notin P
    <3>1. rating'[p] = rating[p] /\ D[p] = 0
      BY <1>1, <1>5, <2>3
    <3>2. Worth'[p] = Worth[p]
      BY <2>1, <3>1 DEF Worth
    <3>3. Worth[p] \in Int
      BY WorthType
    <3>. QED  BY <3>1, <3>2, <3>3
  <2>. QED  BY <2>2, <2>3
<1>13. ReadsAreCurrent'
  <2>1. ASSUME NEW q \in Report, NEW i \in 1 .. Len(elo'[q].players), HasRead(elo'[q], i)
        PROVE  /\ q \in holder'[elo'[q].players[i]]
               /\ elo'[q].read[elo'[q].players[i]] = Worth'[elo'[q].players[i]]
    <3>1. q # r
      BY <1>8, <2>1 DEF HasRead
    <3>2. elo'[q] = elo[q]
      BY <1>8, <3>1
    <3> DEFINE x == elo[q].players[i]
    <3>3. q \in holder[x] /\ elo[q].read[x] = Worth[x]
      BY <2>1, <3>2 DEF ReadsAreCurrent
    <3>4. x \in Rated
      <4>1. elo[q] \in Transactions
        BY DEF RatingTypes
      <4>2. elo[q].players \in Seq(Rated)
        BY <4>1 DEF Transactions
      <4>. QED  BY <2>1, <3>2, <4>2
    <3>5. x \notin P
      <4> SUFFICES ASSUME x \in P PROVE FALSE
        OBVIOUS
      <4>1. r \in holder[x]
        BY <1>7
      <4>. QED  BY <3>1, <3>3, <3>4, <4>1 DEF ReadsAreCurrent
    <3>6. Worth'[x] = Worth[x]
      <4>1. D[x] = 0 /\ Worth[x] \in Int
        BY <1>5, <3>4, <3>5, WorthType
      <4>2. Worth'[x] = Worth[x] + D[x]
        BY <1>12, <3>4
      <4> HIDE DEF x
      <4>. QED  BY <4>1, <4>2
    <3>7. q \in holder'[x]
      BY <1>8, <3>1, <3>3, <3>4
    <3>. QED  BY <3>2, <3>3, <3>6, <3>7
  <2>. QED  BY <1>8, <2>1 DEF ReadsAreCurrent
<1>14. AllExplained'
  <2>1. applied[r] = NoDeltas /\ applied'[r] = D /\ \A q \in Report : q # r => applied'[q] = applied[q]
    BY <1>1, <1>9 DEF AllExplained
  <2>2. \A q \in Report : elo'[q].step # "ended" => applied'[q] = NoDeltas
    BY <1>8, <2>1 DEF AllExplained
  <2>3. ASSUME NEW p \in Rated PROVE Worth'[p] = DefaultRating + Added(p)'
    <3> DEFINE f == [q \in Report |-> applied[q][p]]
               g == [q \in Report |-> applied'[q][p]]
    <3>1. \A q \in Report : f[q] \in Int
      BY <1>9
    <3>2. \A q \in Report : g[q] = IF q = r THEN f[q] + D[p] ELSE f[q]
      BY <1>5, <2>1, NoDeltasType
    <3>3. SumOf(f, Report) = Added(p) /\ SumOf(g, Report) = Added(p)'
      BY DEF Added
    <3> HIDE DEF f, g
    <3>4. SumOf(g, Report) = SumOf(f, Report) + D[p]
      BY <1>5, <3>1, <3>2, SumOfChanges, FinitelyRated
    <3>5. SumOf(f, Report) \in Int
      BY <3>1, SumOfHasType, FinitelyRated
    <3>6. Worth[p] = DefaultRating + SumOf(f, Report)
      BY <3>3 DEF AllExplained
    <3>7. Worth'[p] = Worth[p] + D[p] /\ D[p] \in Int
      BY <1>5, <1>12
    <3>. QED  BY <1>10, <3>3, <3>4, <3>5, <3>6, <3>7
  <2>4. ASSUME NEW q \in Report, Len(elo'[q].players) = 2 PROVE SumOf(applied'[q], Rated) = 0
    <3>1. CASE q # r
      BY <1>8, <2>1, <2>4, <3>1 DEF AllExplained
    <3>2. CASE q = r
      <4>1. Len(t.players) = 2
        BY <1>8, <2>4, <3>2
      <4>2. t.players[1] # t.players[2]
        <5>1. \A i, j \in 1 .. Len(t.players) : t.players[i] = t.players[j] => i = j
          BY DEF RatingTypes
        <5> HIDE DEF t
        <5>2. 1 \in 1 .. Len(t.players) /\ 2 \in 1 .. Len(t.players)
          BY <4>1
        <5>. QED  BY <5>1, <5>2
      <4>3. SumOf(D, Rated) = 0
        BY <1>2, <4>1, <4>2, DeltasAddUp DEF D
      <4>. QED  BY <2>1, <3>2, <4>3
    <3>. QED  BY <3>1, <3>2
  <2>. QED  BY <2>2, <2>3, <2>4 DEF AllExplained
<1>. QED  BY <1>11, <1>13, <1>14

LEMMA RollBackStep ==
    ASSUME RatingTypes, ReadsAreCurrent, AllExplained, NEW r \in Report, RollBack(r)
    PROVE  RatingTypes' /\ ReadsAreCurrent' /\ AllExplained'
<1>1. /\ elo[r].step \in {"insert", "lock", "save"} /\ Ends(r)
      /\ UNCHANGED <<rating, lookup, applied>>
  BY DEF RollBack, UnderWay
<1>2. /\ elo' \in [Report -> Transactions] /\ holder' \in [Rated -> SUBSET Report]
      /\ elo'[r].step = "ended" /\ elo'[r].players = elo[r].players
      /\ \A q \in Report : q # r => elo'[q] = elo[q]
      /\ \A p \in Rated : \A q \in holder'[p] : holder'[p] = {q}
      /\ \A p \in Rated : \A q \in holder[p] : q # r => q \in holder'[p]
  BY <1>1, EndsStep
<1>3. RatingTypes'
  <2>1. ASSUME NEW q \in Report
        PROVE  /\ \A i, j \in 1 .. Len(elo'[q].players) : elo'[q].players[i] = elo'[q].players[j] => i = j
               /\ elo'[q].step = "none" => elo'[q].next = 1
               /\ elo'[q].step \in {"insert", "lock"} => elo'[q].next \in 1 .. Len(elo'[q].players)
               /\ elo'[q].step = "save" => Len(elo'[q].players) # 0
    <3>1. CASE q = r
      <4>1. elo'[q].step = "ended" /\ elo'[q].players = elo[q].players
        BY <1>2, <3>1
      <4>. QED  BY <4>1 DEF RatingTypes
    <3>2. CASE q # r
      <4>1. elo'[q] = elo[q]
        BY <1>2, <3>2
      <4>. QED  BY <4>1 DEF RatingTypes
    <3>. QED  BY <3>1, <3>2
  <2>2. /\ rating' \in [Rated -> Int \cup {NoRating}] /\ lookup' \subseteq Rated
        /\ applied' \in [Report -> [Rated -> Int]]
    BY <1>1 DEF RatingTypes
  <2>. QED  BY <1>2, <2>1, <2>2 DEF RatingTypes
<1>4. UNCHANGED Worth
  BY <1>1 DEF Worth
<1>5. ReadsAreCurrent'
  <2>1. ASSUME NEW q \in Report, NEW i \in 1 .. Len(elo'[q].players), HasRead(elo'[q], i)
        PROVE  /\ q \in holder'[elo'[q].players[i]]
               /\ elo'[q].read[elo'[q].players[i]] = Worth'[elo'[q].players[i]]
    <3>1. q # r
      BY <1>2, <2>1 DEF HasRead
    <3>2. elo'[q] = elo[q]
      BY <1>2, <3>1
    <3>3. q \in holder[elo[q].players[i]] /\ elo[q].read[elo[q].players[i]] = Worth[elo[q].players[i]]
      BY <2>1, <3>2 DEF ReadsAreCurrent
    <3>4. elo[q].players[i] \in Rated
      <4>1. elo[q] \in Transactions
        BY DEF RatingTypes
      <4>2. elo[q].players \in Seq(Rated)
        BY <4>1 DEF Transactions
      <4>. QED  BY <2>1, <3>2, <4>2
    <3>. QED  BY <1>2, <1>4, <3>1, <3>2, <3>3, <3>4
  <2>. QED  BY <1>2, <2>1 DEF ReadsAreCurrent
<1>6. AllExplained'
  <2>1. \A q \in Report : elo'[q].players = elo[q].players
    BY <1>2
  <2>2. \A q \in Report : elo'[q].step # "ended" => elo[q].step # "ended"
    BY <1>2
  <2>. QED  BY <1>1, <1>4, <2>1, <2>2, StaysExplained
<1>. QED  BY <1>3, <1>5, <1>6

\* Whoever looks at a rating may create it, at what it is worth.
LEMMA LooksStep ==
    ASSUME RatingTypes, ReadsAreCurrent, AllExplained, NEW p \in Rated, LookUp(p) \/ CreateRating(p)
    PROVE  RatingTypes' /\ ReadsAreCurrent' /\ AllExplained'
<1>1. UNCHANGED <<holder, elo, applied>>
  BY DEF LookUp, CreateRating
<1>2. lookup' \subseteq Rated
  BY DEF LookUp, CreateRating, RatingTypes
<1>3. rating' = rating \/ rating' = [rating EXCEPT ![p] = CreateUnlessThere(p)]
  BY DEF LookUp, CreateRating
<1>4. DefaultRating \in Int /\ NoRating \notin Int
  BY RatingsAssumption
<1>5. rating \in [Rated -> Int \cup {NoRating}]
  BY DEF RatingTypes
<1>6. rating' \in [Rated -> Int \cup {NoRating}]
  BY <1>3, <1>4, <1>5 DEF CreateUnlessThere
<1>7. UNCHANGED Worth
  BY <1>3, <1>4, <1>5 DEF Worth, CreateUnlessThere
<1>8. RatingTypes'
  BY <1>1, <1>2, <1>6 DEF RatingTypes
<1>9. ReadsAreCurrent'
  BY <1>1, <1>7 DEF ReadsAreCurrent
<1>10. AllExplained'
  BY <1>1, <1>7, StaysExplained
<1>. QED  BY <1>8, <1>9, <1>10

LEMMA RatingsStep ==
    ASSUME ExpectIsFair(Int), RatingTypes, ReadsAreCurrent, AllExplained, [RatingsNext]_ratingVars
    PROVE  RatingTypes' /\ ReadsAreCurrent' /\ AllExplained'
<1>1. ASSUME NEW r \in Report, NEW players \in LineUp, NEW winners \in SUBSET ToSet(players),
             MatchEnded(r, players, winners)
      PROVE  RatingTypes' /\ ReadsAreCurrent' /\ AllExplained'
  BY <1>1, MatchEndedStep
<1>2. ASSUME NEW r \in Report, InsertRow(r) PROVE RatingTypes' /\ ReadsAreCurrent' /\ AllExplained'
  BY <1>2, InsertRowStep
<1>3. ASSUME NEW r \in Report, LockRow(r) PROVE RatingTypes' /\ ReadsAreCurrent' /\ AllExplained'
  BY <1>3, LockRowStep
<1>4. ASSUME NEW r \in Report, SaveAndCommit(r) PROVE RatingTypes' /\ ReadsAreCurrent' /\ AllExplained'
  BY <1>4, SaveAndCommitStep
<1>5. ASSUME NEW r \in Report, RollBack(r) PROVE RatingTypes' /\ ReadsAreCurrent' /\ AllExplained'
  BY <1>5, RollBackStep
<1>6. ASSUME NEW p \in Rated, LookUp(p) \/ CreateRating(p)
      PROVE  RatingTypes' /\ ReadsAreCurrent' /\ AllExplained'
  BY <1>6, LooksStep
<1>7. CASE UNCHANGED ratingVars
  <2>1. UNCHANGED <<rating, holder, elo, lookup, applied>>
    BY <1>7 DEF ratingVars
  <2>2. UNCHANGED Worth
    BY <2>1 DEF Worth
  <2>3. AllExplained'
    BY <2>1, <2>2, StaysExplained
  <2>. QED  BY <2>1, <2>2, <2>3 DEF RatingTypes, ReadsAreCurrent
<1>. QED  BY <1>1, <1>2, <1>3, <1>4, <1>5, <1>6, <1>7 DEF RatingsNext, Transaction

\* The sum that RatingsExplained speaks of.
LEMMA AddedIsTheSum ==
    ASSUME NEW p
    PROVE  MapThenSumSet(LAMBDA r : applied[r][p], Report) = Added(p)
<1> DEFINE f == [r \in Report |-> applied[r][p]]
           sum == MapThenSumSet(LAMBDA r : applied[r][p], Report)
<1>1. PICK it : IsSum(it, f, Report)
  BY SumExists, FinitelyRated
<1>2. \A jt : IsSum(jt, f, Report) <=>
              jt = [s \in SUBSET Report |-> IF s = {} THEN 0 ELSE applied[AnyOf(s)][p] + jt[s \ {AnyOf(s)}]]
  <2>1. \A s \in SUBSET Report : s # {} => f[AnyOf(s)] = applied[AnyOf(s)][p]
    BY DEF AnyOf
  <2> HIDE DEF f
  <2>. QED  BY <2>1 DEF IsSum, SumOn
<1> HIDE DEF f
<1>3. \E jt : jt = [s \in SUBSET Report |-> IF s = {} THEN 0 ELSE applied[AnyOf(s)][p] + jt[s \ {AnyOf(s)}]]
  BY <1>1, <1>2
<1>4. \E jt : /\ jt = [s \in SUBSET Report |->
                         IF s = {} THEN 0 ELSE applied[AnyOf(s)][p] + jt[s \ {AnyOf(s)}]]
              /\ sum = jt[Report]
  BY <1>3 DEF AnyOf, MapThenSumSet, MapThenFoldSet
<1> HIDE DEF sum
<1>5. PICK jt : IsSum(jt, f, Report) /\ sum = jt[Report]
  BY <1>2, <1>4
<1>6. PICK kt : IsSum(kt, f, Report) /\ SumOf(f, Report) = kt[Report]
  BY SumOfIsSum, FinitelyRated
<1>7. jt[Report] = kt[Report]
  BY <1>5, <1>6, SumIsUnique, FinitelyRated
<1>8. SumOf(f, Report) = Added(p)
  BY DEF f, Added
<1>. QED  BY <1>5, <1>6, <1>7, <1>8 DEF sum

LEMMA AllExplainedShows == RatingTypes /\ AllExplained => RatingsAddUp
<1> SUFFICES ASSUME RatingTypes, AllExplained PROVE RatingsAddUp
  OBVIOUS
<1>1. RatingsExplained
  <2> SUFFICES ASSUME NEW p \in Rated, rating[p] # NoRating
               PROVE  rating[p] = DefaultRating + MapThenSumSet(LAMBDA r : applied[r][p], Report)
    BY DEF RatingsExplained
  <2>1. Worth[p] = rating[p]
    BY DEF Worth
  <2>2. rating[p] = DefaultRating + Added(p)
    BY <2>1 DEF AllExplained
  <2>. QED  BY <2>2, AddedIsTheSum
<1>2. TwoPlayersTrade
  BY DEF AllExplained, SumOf, TwoPlayersTrade
<1>. QED  BY <1>1, <1>2 DEF RatingsAddUp

LEMMA RatingTypesShow == RatingTypes => RatingsTypeOK
BY DEF RatingTypes, Transactions, RatingsTypeOK

\* Reports of matches that share players, players who create their rows, and
\* transactions rolled back at any point (elo.go, rating.go): rows and
\* transactions have their types.
THEOREM RatingsTypes ==
    ASSUME ExpectIsFair(Int)
    PROVE  RatingsSpec => []RatingsTypeOK
<1>1. RatingTypes /\ ReadsAreCurrent /\ AllExplained => RatingsTypeOK
  BY RatingTypesShow
<1>2. RatingTypes /\ ReadsAreCurrent /\ AllExplained /\ [RatingsNext]_ratingVars
        => (RatingTypes /\ ReadsAreCurrent /\ AllExplained)'
  BY RatingsStep
<1>. QED  BY <1>1, <1>2, RatingsInitial, PTL DEF RatingsSpec

\* No update of a rating is lost, and a match of two moves points from one
\* player to the other, however reports that share players interleave: for any
\* number of players and reports, any ratings and any fair expectation.
THEOREM NoUpdateIsLost ==
    ASSUME ExpectIsFair(Int)
    PROVE  RatingsSpec => []RatingsAddUp
<1>1. RatingTypes /\ ReadsAreCurrent /\ AllExplained => RatingsAddUp
  BY AllExplainedShows
<1>2. RatingTypes /\ ReadsAreCurrent /\ AllExplained /\ [RatingsNext]_ratingVars
        => (RatingTypes /\ ReadsAreCurrent /\ AllExplained)'
  BY RatingsStep
<1>. QED  BY <1>1, <1>2, RatingsInitial, PTL DEF RatingsSpec

(***************************************************************************)
(* Why reports cannot wait for each other in a circle.  Rows are taken in  *)
(* the order of the players' IDs: what a report waits for lies behind all  *)
(* that it holds.  Only the rows it has inserted may lie further on, and   *)
(* nobody who has come to lock a row waits for one that is being inserted: *)
(* he has inserted it himself, or found it committed.                      *)
(***************************************************************************)
Passed(t, i) == t.step \in {"lock", "save"} \/ (t.step = "insert" /\ i < t.next)
TakesInOrder(r) ==
    /\ \A i, j \in 1 .. Len(elo[r].players) : i < j => elo[r].players[i] < elo[r].players[j]
    /\ \A x \in Rated : r \in holder[x] =>
          \E i \in 1 .. Len(elo[r].players) :
              /\ x = elo[r].players[i]
              /\ \/ elo[r].step = "insert" /\ i < elo[r].next /\ rating[x] = NoRating
                 \/ elo[r].step = "lock" /\ (i < elo[r].next \/ rating[x] = NoRating)
                 \/ elo[r].step = "save"
    /\ \A i \in 1 .. Len(elo[r].players) :
          Passed(elo[r], i) => rating[elo[r].players[i]] # NoRating \/ r \in holder[elo[r].players[i]]
RowsInOrder == \A r \in Report : TakesInOrder(r)

LEMMA InOrderInit == RatingsInit => RowsInOrder
<1> SUFFICES ASSUME RatingsInit, NEW r \in Report PROVE TakesInOrder(r)
  BY DEF RowsInOrder
<1>1. elo[r].players = <<>> /\ elo[r].step = "none" /\ \A x \in Rated : holder[x] = {}
  BY DEF RatingsInit
<1>2. Len(elo[r].players) = 0
  BY <1>1
<1>. QED  BY <1>1, <1>2 DEF TakesInOrder, Passed

LEMMA PlayersAreRated ==
    ASSUME RatingTypes, NEW r \in Report, NEW i \in 1 .. Len(elo[r].players)
    PROVE  elo[r].players[i] \in Rated
<1>1. elo[r] \in Transactions
  BY DEF RatingTypes
<1>2. elo[r].players \in Seq(Rated)
  BY <1>1 DEF Transactions
<1>. QED  BY <1>2

\* A report that does not move keeps its order if nobody touches its rows.
LEMMA OthersKeepOrder ==
    ASSUME RatingTypes, NEW q \in Report, TakesInOrder(q), elo'[q] = elo[q],
           \A x \in Rated : q \in holder'[x] <=> q \in holder[x],
           \A x \in Rated : rating[x] # NoRating => rating'[x] # NoRating,
           \A x \in Rated : q \in holder[x] /\ rating[x] = NoRating => rating'[x] = NoRating
    PROVE  TakesInOrder(q)'
<1>1. \A i \in 1 .. Len(elo[q].players) : elo[q].players[i] \in Rated
  BY PlayersAreRated
<1>. QED  BY <1>1 DEF TakesInOrder, Passed

LEMMA MatchEndedInOrder ==
    ASSUME RatingTypes, RowsInOrder, NEW r \in Report, NEW players, NEW winners, MatchEnded(r, players, winners)
    PROVE  RowsInOrder'
<1> DEFINE list == Sorted(players)
           t == [elo[r] EXCEPT !.step = IF Len(list) < 2 THEN "ended" ELSE "insert",
                               !.players = list, !.winners = winners \cap Rated]
<1>1. /\ elo[r].step = "none" /\ elo' = [elo EXCEPT ![r] = t]
      /\ UNCHANGED <<rating, holder, lookup, applied>>
  BY DEF MatchEnded
<1>2. \A i, j \in 1 .. Len(list) : i < j => list[i] < list[j]
  BY SortedLists
<1>3. elo[r] \in Transactions /\ elo[r].next = 1 /\ elo \in [Report -> Transactions]
  BY <1>1 DEF RatingTypes
<1>4. t.players = list /\ t.next = 1 /\ t.step \in {"ended", "insert"}
  <2> HIDE DEF list
  <2>. QED  BY <1>3 DEF Transactions
<1> HIDE DEF t, list
<1>5. elo'[r] = t /\ \A q \in Report : q # r => elo'[q] = elo[q]
  BY <1>1, <1>3
<1>6. \A x \in Rated : r \notin holder[x]
  BY <1>1 DEF RowsInOrder, TakesInOrder
<1>7. TakesInOrder(r)'
  <2>1. \A i \in 1 .. Len(list) : ~Passed(t, i)
    BY <1>4 DEF Passed
  <2>. QED  BY <1>1, <1>2, <1>4, <1>5, <1>6, <2>1 DEF TakesInOrder
<1>8. ASSUME NEW q \in Report, q # r PROVE TakesInOrder(q)'
  BY <1>1, <1>5, <1>8, OthersKeepOrder DEF RowsInOrder
<1>. QED  BY <1>7, <1>8 DEF RowsInOrder

LEMMA InsertMovesOn ==
    ASSUME RatingTypes, NEW r \in Report, elo[r].step = "insert"
    PROVE  /\ Current(r) \in Rated /\ MovesOn(r).players = elo[r].players
           /\ \/ MovesOn(r).step = "insert" /\ MovesOn(r).next = elo[r].next + 1
              \/ /\ MovesOn(r).step = "lock" /\ MovesOn(r).next = 1
                 /\ elo[r].next = Len(elo[r].players)
<1> DEFINE t == elo[r]
<1>1. t \in Transactions /\ t.next \in 1 .. Len(t.players) /\ Len(t.players) \in Nat
  BY CurrentPlayer DEF RatingTypes
<1>2. Current(r) \in Rated /\ MovesOn(r).players = t.players
  BY CurrentPlayer
<1>3. CASE t.next < Len(t.players)
  <2>1. MovesOn(r) = [t EXCEPT !.next = @ + 1]
    BY <1>3 DEF MovesOn
  <2>2. [t EXCEPT !.next = @ + 1].step = t.step /\ [t EXCEPT !.next = @ + 1].next = t.next + 1
    <3> HIDE DEF t
    <3>. QED  BY <1>1 DEF Transactions
  <2>. QED  BY <1>2, <2>1, <2>2
<1>4. CASE ~(t.next < Len(t.players))
  <2>1. MovesOn(r) = [t EXCEPT !.next = 1, !.step = "lock"]
    BY <1>4 DEF MovesOn
  <2>2. [t EXCEPT !.next = 1, !.step = "lock"].step = "lock" /\ [t EXCEPT !.next = 1, !.step = "lock"].next = 1
    <3> HIDE DEF t
    <3>. QED  BY <1>1 DEF Transactions
  <2>3. t.next = Len(t.players)
    BY <1>1, <1>4
  <2>. QED  BY <1>2, <2>1, <2>2, <2>3
<1>. QED  BY <1>3, <1>4

LEMMA InsertRowInOrder ==
    ASSUME RatingTypes, RowsInOrder, NEW r \in Report, InsertRow(r)
    PROVE  RowsInOrder'
<1> DEFINE p == Current(r)
           t == MovesOn(r)
           list == elo[r].players
           n == elo[r].next
<1>1. /\ elo[r].step = "insert" /\ elo' = [elo EXCEPT ![r] = t]
      /\ rating[p] # NoRating \/ holder[p] = {}
      /\ holder' = IF rating[p] # NoRating THEN holder ELSE [holder EXCEPT ![p] = {r}]
      /\ UNCHANGED <<rating, lookup, applied>>
  BY DEF InsertRow, MayInsert
<1>2. /\ p \in Rated /\ t.players = list
      /\ \/ t.step = "insert" /\ t.next = n + 1
         \/ t.step = "lock" /\ t.next = 1 /\ n = Len(list)
  BY <1>1, InsertMovesOn
<1>3. n \in 1 .. Len(list) /\ p = list[n] /\ Len(list) \in Nat
  BY <1>1, CurrentPlayer DEF RatingTypes, Current
<1>4. elo \in [Report -> Transactions] /\ holder \in [Rated -> SUBSET Report]
  BY DEF RatingTypes
<1>5. \A i \in 1 .. Len(list) : list[i] \in Rated
  BY PlayersAreRated
<1>6. /\ \A i, j \in 1 .. Len(list) : i < j => list[i] < list[j]
      /\ \A x \in Rated : r \in holder[x] =>
            \E i \in 1 .. Len(list) : x = list[i] /\ i < n /\ rating[x] = NoRating
      /\ \A i \in 1 .. Len(list) : i < n => rating[list[i]] # NoRating \/ r \in holder[list[i]]
  BY <1>1 DEF RowsInOrder, TakesInOrder, Passed
<1> HIDE DEF p, t, list, n
<1>7. elo'[r] = t /\ \A q \in Report : q # r => elo'[q] = elo[q]
  BY <1>1, <1>4
<1>8. /\ rating[p] = NoRating => r \in holder'[p]
      /\ \A x \in Rated : r \in holder[x] => r \in holder'[x]
      /\ \A x \in Rated : r \in holder'[x] => r \in holder[x] \/ (x = p /\ rating[p] = NoRating)
  BY <1>1, <1>2, <1>4
<1>9. TakesInOrder(r)'
  <2>1. ASSUME NEW x \in Rated, r \in holder'[x]
        PROVE  \E i \in 1 .. Len(list) :
                  /\ x = list[i]
                  /\ \/ t.step = "insert" /\ i < t.next /\ rating[x] = NoRating
                     \/ t.step = "lock" /\ (i < t.next \/ rating[x] = NoRating)
    <3>1. PICK i \in 1 .. Len(list) : x = list[i] /\ i <= n /\ rating[x] = NoRating
      BY <1>3, <1>6, <1>8, <2>1
    <3>2. i < n + 1
      BY <1>3, <3>1
    <3>. QED  BY <1>2, <3>1, <3>2
  <2>2. ASSUME NEW i \in 1 .. Len(list), Passed(t, i)
        PROVE  rating[list[i]] # NoRating \/ r \in holder'[list[i]]
    <3>1. i < n \/ i = n
      BY <1>2, <1>3, <2>2 DEF Passed
    <3>. QED  BY <1>3, <1>5, <1>6, <1>8, <3>1
  <2>. QED  BY <1>1, <1>2, <1>6, <1>7, <2>1, <2>2 DEF TakesInOrder
<1>10. ASSUME NEW q \in Report, q # r PROVE TakesInOrder(q)'
  <2>1. \A x \in Rated : q \in holder'[x] <=> q \in holder[x]
    BY <1>1, <1>2, <1>4, <1>10
  <2>2. TakesInOrder(q) /\ UNCHANGED rating /\ elo'[q] = elo[q]
    BY <1>1, <1>7, <1>10 DEF RowsInOrder
  <2>. QED  BY <2>1, <2>2, OthersKeepOrder
<1>. QED  BY <1>9, <1>10 DEF RowsInOrder

LEMMA LockRowInOrder ==
    ASSUME RatingTypes, RowsInOrder, NEW r \in Report, LockRow(r)
    PROVE  RowsInOrder'
<1> DEFINE p == Current(r)
           u == MovesOn(r)
           list == elo[r].players
           n == elo[r].next
<1>1. /\ elo[r].step = "lock"
      /\ \E found : elo' = [elo EXCEPT ![r] = [u EXCEPT !.read[p] = found]]
      /\ holder' = [holder EXCEPT ![p] = @ \cup {r}]
      /\ UNCHANGED <<rating, lookup, applied>>
  BY DEF LockRow
<1>2. /\ p \in Rated /\ u.players = list /\ u \in Transactions
      /\ \/ u.step = "lock" /\ u.next = n + 1
         \/ u.step = "save" /\ n = Len(list)
  BY <1>1, CurrentPlayer
<1>3. n \in 1 .. Len(list) /\ p = list[n] /\ Len(list) \in Nat
  BY <1>1, CurrentPlayer DEF RatingTypes, Current
<1>4. elo \in [Report -> Transactions] /\ holder \in [Rated -> SUBSET Report]
  BY DEF RatingTypes
<1>5. \A i \in 1 .. Len(list) : list[i] \in Rated
  BY PlayersAreRated
<1>6. /\ \A i, j \in 1 .. Len(list) : i < j => list[i] < list[j]
      /\ \A x \in Rated : r \in holder[x] =>
            \E i \in 1 .. Len(list) : x = list[i] /\ (i < n \/ rating[x] = NoRating)
      /\ \A i \in 1 .. Len(list) : rating[list[i]] # NoRating \/ r \in holder[list[i]]
  BY <1>1 DEF RowsInOrder, TakesInOrder, Passed
<1> HIDE DEF p, u, list, n
<1>7. PICK t : /\ elo'[r] = t /\ t.players = u.players /\ t.step = u.step /\ t.next = u.next
               /\ \A q \in Report : q # r => elo'[q] = elo[q]
  <2>1. PICK found : elo' = [elo EXCEPT ![r] = [u EXCEPT !.read[p] = found]]
    BY <1>1
  <2> DEFINE t == [u EXCEPT !.read[p] = found]
  <2>2. t.players = u.players /\ t.step = u.step /\ t.next = u.next
    BY <1>2 DEF Transactions
  <2> HIDE DEF t
  <2>3. elo'[r] = t /\ \A q \in Report : q # r => elo'[q] = elo[q]
    BY <1>4, <2>1 DEF t
  <2>. QED  BY <2>2, <2>3
<1>8. /\ \A x \in Rated : r \in holder[x] => r \in holder'[x]
      /\ \A x \in Rated : r \in holder'[x] => r \in holder[x] \/ x = p
  BY <1>1, <1>2, <1>4
<1>9. TakesInOrder(r)'
  <2>1. ASSUME NEW x \in Rated, r \in holder'[x]
        PROVE  \E i \in 1 .. Len(list) :
                  /\ x = list[i]
                  /\ \/ t.step = "lock" /\ (i < t.next \/ rating[x] = NoRating)
                     \/ t.step = "save"
    <3>1. PICK i \in 1 .. Len(list) : x = list[i] /\ (i <= n \/ rating[x] = NoRating)
      BY <1>3, <1>6, <1>8, <2>1
    <3>2. i <= n => i < n + 1
      BY <1>3
    <3>. QED  BY <1>2, <1>7, <3>1, <3>2
  <2>2. \A i \in 1 .. Len(list) : rating[list[i]] # NoRating \/ r \in holder'[list[i]]
    BY <1>5, <1>6, <1>8
  <2>. QED  BY <1>1, <1>2, <1>6, <1>7, <2>1, <2>2 DEF TakesInOrder
<1>10. ASSUME NEW q \in Report, q # r PROVE TakesInOrder(q)'
  <2>1. \A x \in Rated : q \in holder'[x] <=> q \in holder[x]
    BY <1>1, <1>2, <1>4, <1>10
  <2>2. TakesInOrder(q) /\ UNCHANGED rating /\ elo'[q] = elo[q]
    BY <1>1, <1>7, <1>10 DEF RowsInOrder
  <2>. QED  BY <2>1, <2>2, OthersKeepOrder
<1>. QED  BY <1>9, <1>10 DEF RowsInOrder

\* What a report that ends leaves behind.
LEMMA EndsInOrder ==
    ASSUME RatingTypes, ReadsAreCurrent, RowsInOrder, NEW r \in Report, Ends(r),
           \A x \in Rated : rating[x] # NoRating => rating'[x] # NoRating,
           \A x \in Rated : rating'[x] # rating[x] => r \in holder[x]
    PROVE  RowsInOrder'
<1>1. /\ elo'[r].step = "ended" /\ elo'[r].players = elo[r].players
      /\ \A q \in Report : q # r => elo'[q] = elo[q]
  BY EndsStep
<1>2. holder' = [p \in Rated |-> holder[p] \ {r}]
  BY DEF Ends
<1>3. TakesInOrder(r)'
  <2>1. \A i, j \in 1 .. Len(elo[r].players) : i < j => elo[r].players[i] < elo[r].players[j]
    BY DEF RowsInOrder, TakesInOrder
  <2>2. \A x \in Rated : r \notin holder'[x]
    BY <1>2
  <2>3. \A i : ~Passed(elo'[r], i)
    BY <1>1 DEF Passed
  <2>. QED  BY <1>1, <2>1, <2>2, <2>3 DEF TakesInOrder
<1>4. ASSUME NEW q \in Report, q # r PROVE TakesInOrder(q)'
  <2>1. \A x \in Rated : q \in holder'[x] <=> q \in holder[x]
    BY <1>2, <1>4
  <2>2. \A x \in Rated : q \in holder[x] /\ rating[x] = NoRating => rating'[x] = NoRating
    BY <1>4 DEF ReadsAreCurrent
  <2>3. TakesInOrder(q) /\ elo'[q] = elo[q]
    BY <1>1, <1>4 DEF RowsInOrder
  <2>. QED  BY <2>1, <2>2, <2>3, OthersKeepOrder
<1>. QED  BY <1>3, <1>4 DEF RowsInOrder

LEMMA SaveInOrder ==
    ASSUME RatingTypes, RatingTypes', ReadsAreCurrent, RowsInOrder, NEW r \in Report,
           ExpectIsFair(Int), SaveAndCommit(r)
    PROVE  RowsInOrder'
<1>1. /\ elo[r].step = "save" /\ Ends(r)
      /\ rating' = [p \in Rated |-> IF p \in ToSet(elo[r].players)
                                    THEN elo[r].read[p] + Delta(elo[r], p) ELSE rating[p]]
  BY DEF SaveAndCommit
<1>2. elo[r] \in Transactions /\ Len(elo[r].players) # 0
  BY <1>1 DEF RatingTypes
<1>3. NoRating \notin Int
  BY RatingsAssumption
<1>4. ASSUME NEW x \in Rated, x \in ToSet(elo[r].players) PROVE rating'[x] # NoRating /\ r \in holder[x]
  <2>1. Delta(elo[r], x) \in Int /\ elo[r].read[x] \in Int
    BY <1>2, DeltaIsInt DEF Transactions
  <2>2. PICK k \in DOMAIN elo[r].players : x = elo[r].players[k]
    BY <1>4 DEF ToSet
  <2>3. elo[r].players \in Seq(Rated)
    BY <1>2 DEF Transactions
  <2>4. k \in 1 .. Len(elo[r].players)
    BY <2>3
  <2>5. r \in holder[x]
    BY <1>1, <2>2, <2>4 DEF ReadsAreCurrent, HasRead
  <2>6. rating'[x] = elo[r].read[x] + Delta(elo[r], x)
    BY <1>1, <1>4
  <2>. QED  BY <1>3, <2>1, <2>5, <2>6
<1>5. \A x \in Rated : x \notin ToSet(elo[r].players) => rating'[x] = rating[x]
  BY <1>1
<1>. QED  BY <1>1, <1>4, <1>5, EndsInOrder

LEMMA InOrderStep ==
    ASSUME ExpectIsFair(Int), RatingTypes, RatingTypes', ReadsAreCurrent, RowsInOrder, [RatingsNext]_ratingVars
    PROVE  RowsInOrder'
<1>1. ASSUME NEW r \in Report, NEW players \in LineUp, NEW winners \in SUBSET ToSet(players),
             MatchEnded(r, players, winners)
      PROVE  RowsInOrder'
  BY <1>1, MatchEndedInOrder
<1>2. ASSUME NEW r \in Report, InsertRow(r) PROVE RowsInOrder'
  BY <1>2, InsertRowInOrder
<1>3. ASSUME NEW r \in Report, LockRow(r) PROVE RowsInOrder'
  BY <1>3, LockRowInOrder
<1>4. ASSUME NEW r \in Report, SaveAndCommit(r) PROVE RowsInOrder'
  BY <1>4, SaveInOrder
<1>5. ASSUME NEW r \in Report, RollBack(r) PROVE RowsInOrder'
  BY <1>5, EndsInOrder DEF RollBack
<1>6. ASSUME NEW p \in Rated, LookUp(p) \/ CreateRating(p) PROVE RowsInOrder'
  <2>1. UNCHANGED <<holder, elo>>
    BY <1>6 DEF LookUp, CreateRating
  <2>2. /\ \A x \in Rated : rating[x] # NoRating => rating'[x] # NoRating
        /\ \A x \in Rated : rating'[x] # rating[x] => holder[x] = {}
    <3>1. rating \in [Rated -> Int \cup {NoRating}]
      BY DEF RatingTypes
    <3>. QED  BY <1>6, <3>1 DEF LookUp, CreateRating, CreateUnlessThere, MayInsert
  <2>. QED  BY <2>1, <2>2, OthersKeepOrder DEF RowsInOrder
<1>7. CASE UNCHANGED ratingVars
  BY <1>7, OthersKeepOrder DEF ratingVars, RowsInOrder
<1>. QED  BY <1>1, <1>2, <1>3, <1>4, <1>5, <1>6, <1>7 DEF RatingsNext, Transaction

\* Whoever waits for a row stands before one who holds it and stands further on,
\* or who waits for nobody.
LEMMA WaitsForOneFurtherOn ==
    ASSUME RatingTypes, ReadsAreCurrent, RowsInOrder, NEW r \in Report, UnderWay(r), Waits(r)
    PROVE  \E q \in Report :
              /\ UnderWay(q)
              /\ Waits(q) => \/ elo[r].step = "insert" /\ elo[q].step = "lock"
                             \/ elo[r].step = elo[q].step /\ Current(q) > Current(r)
<1> DEFINE p == Current(r)
<1>1. elo[r].step \in {"insert", "lock"}
  BY DEF Waits
<1>2. p \in Rated
  BY <1>1, CurrentPlayer
<1>3. /\ elo[r].step = "insert" => rating[p] = NoRating /\ holder[p] # {}
      /\ elo[r].step = "lock" => ~(holder[p] \subseteq {r})
  BY DEF Waits, MayInsert, MayLock
<1>4. holder[p] \subseteq Report
  BY <1>2 DEF RatingTypes
<1>5. PICK q \in Report : q \in holder[p] /\ (elo[r].step = "lock" => q # r)
  BY <1>1, <1>3, <1>4
<1>6. PICK i \in 1 .. Len(elo[q].players) :
               /\ p = elo[q].players[i]
               /\ \/ elo[q].step = "insert" /\ i < elo[q].next /\ rating[p] = NoRating
                  \/ elo[q].step = "lock" /\ (i < elo[q].next \/ rating[p] = NoRating)
                  \/ elo[q].step = "save"
  BY <1>2, <1>5 DEF RowsInOrder, TakesInOrder
<1>7. UnderWay(q)
  BY <1>6 DEF UnderWay
<1>8. elo[r].step = "lock" => rating[p] # NoRating
  <2> SUFFICES ASSUME elo[r].step = "lock" PROVE rating[p] # NoRating
    OBVIOUS
  <2>1. elo[r].next \in 1 .. Len(elo[r].players) /\ p = elo[r].players[elo[r].next]
    BY DEF RatingTypes, Current
  <2>2. rating[p] # NoRating \/ r \in holder[p]
    BY <2>1 DEF RowsInOrder, TakesInOrder, Passed
  <2>3. r \notin holder[p]
    BY <1>2, <1>5 DEF ReadsAreCurrent
  <2>. QED  BY <2>2, <2>3
<1>9. ASSUME Waits(q), ~(elo[r].step = "insert" /\ elo[q].step = "lock")
      PROVE  Current(q) > p /\ elo[r].step = elo[q].step
  <2>1. elo[q].step \in {"insert", "lock"}
    BY <1>9 DEF Waits
  <2>2. elo[q].next \in 1 .. Len(elo[q].players) /\ Current(q) = elo[q].players[elo[q].next]
    BY <2>1 DEF RatingTypes, Current
  <2>3. elo[r].step = elo[q].step
    BY <1>1, <1>6, <1>8, <1>9, <2>1
  <2>4. i < elo[q].next
    BY <1>1, <1>6, <1>8, <2>1, <2>3
  <2>5. p < Current(q)
    BY <1>6, <2>2, <2>4 DEF RowsInOrder, TakesInOrder
  <2>6. p \in Nat /\ Current(q) \in Nat
    BY <1>2, <2>1, CurrentPlayer, RatingsAssumption
  <2>. QED  BY <2>3, <2>5, <2>6
<1>. QED  BY <1>7, <1>9

LEMMA InOrderShows == RatingTypes /\ ReadsAreCurrent /\ RowsInOrder => SomebodyGoesOn
<1> SUFFICES ASSUME RatingTypes, ReadsAreCurrent, RowsInOrder,
                    NEW someone \in Report, UnderWay(someone),
                    \A r \in Report : UnderWay(r) => Waits(r)
             PROVE  FALSE
  BY DEF SomebodyGoesOn
<1> DEFINE at == [r \in Report |-> Current(r)]
           Locking == {r \in Report : elo[r].step = "lock"}
           Inserting == {r \in Report : elo[r].step = "insert"}
<1>1. \A r \in Report : UnderWay(r) <=> r \in Locking \/ r \in Inserting
  BY DEF UnderWay, Waits
<1>2. \A r \in Report : UnderWay(r) => at[r] \in Int
  <2>1. \A r \in Report : UnderWay(r) => Current(r) \in Rated
    BY <1>1, CurrentPlayer
  <2>2. Rated \subseteq Int
    BY RatingsAssumption
  <2>. QED  BY <2>1, <2>2
<1>3. \A r \in Report : UnderWay(r) =>
         \E q \in Report : /\ UnderWay(q)
                           /\ \/ r \in Inserting /\ q \in Locking
                              \/ elo[r].step = elo[q].step /\ at[q] > at[r]
  BY WaitsForOneFurtherOn
<1>4. ASSUME NEW Q \in {Locking, Inserting}, Q # {}
      PROVE  \E r \in Q : \A q \in Q : at[q] <= at[r]
  <2>1. Q \in SUBSET Report
    OBVIOUS
  <2>2. \A r \in Q : at[r] \in Int
    BY <1>1, <1>2
  <2> HIDE DEF at, Locking, Inserting
  <2>3. IsFiniteSet(Q)
    BY <2>1, FinitelyRated, FS_Subset
  <2>. QED  BY <1>4, <2>2, <2>3, GreatestOf
<1> HIDE DEF at
<1>5. CASE Locking # {}
  <2>1. PICK r \in Locking : \A q \in Locking : at[q] <= at[r]
    BY <1>4, <1>5
  <2>2. PICK q \in Report : UnderWay(q) /\ elo[q].step = "lock" /\ at[q] > at[r]
    BY <1>1, <1>3
  <2>3. at[q] <= at[r] /\ at[q] \in Int /\ at[r] \in Int
    BY <1>1, <1>2, <2>1, <2>2
  <2>. QED  BY <2>2, <2>3
<1>6. CASE Locking = {}
  <2>1. someone \in Inserting
    BY <1>1, <1>6
  <2>2. PICK r \in Inserting : \A q \in Inserting : at[q] <= at[r]
    BY <1>4, <2>1
  <2>3. PICK q \in Report : UnderWay(q) /\ elo[q].step = "insert" /\ at[q] > at[r]
    BY <1>1, <1>3, <1>6
  <2>4. at[q] <= at[r] /\ at[q] \in Int /\ at[r] \in Int
    BY <1>1, <1>2, <2>2, <2>3
  <2>. QED  BY <2>3, <2>4
<1>. QED  BY <1>5, <1>6

\* Matches that share players cannot deadlock (elo.go:14-15), however many
\* players they have and share: while any report is under way, the statement of
\* one of them waits for nobody.
THEOREM ReportsCannotDeadlock ==
    ASSUME ExpectIsFair(Int)
    PROVE  RatingsSpec => []SomebodyGoesOn
<1> DEFINE Inv == RatingTypes /\ ReadsAreCurrent /\ AllExplained /\ RowsInOrder
<1>1. RatingsInit => Inv
  BY RatingsInitial, InOrderInit
<1>2. Inv /\ [RatingsNext]_ratingVars => Inv'
  BY RatingsStep, InOrderStep
<1>3. Inv => SomebodyGoesOn
  BY InOrderShows
<1>. QED  BY <1>1, <1>2, <1>3, PTL DEF RatingsSpec

(***************************************************************************)
(* The four components side by side: a behaviour of all is one of each.    *)
(***************************************************************************)
LEMMA SideBySide == Spec => SpectateSpec /\ TLSSpec /\ RatingsSpec /\ GameServerSpec
<1>1. Init => SpectateInit /\ TLSInit /\ RatingsInit /\ GameServerInit
  BY DEF Init
<1>2. ASSUME [Next]_<<part, spectateVars, tlsVars, ratingVars, gameServerVars>>
      PROVE  /\ [SpectateNext]_spectateVars
             /\ [TLSNext]_tlsVars
             /\ [RatingsNext]_ratingVars
             /\ [GameServerNext]_gameServerVars
  BY <1>2 DEF Next
<1>. QED
  BY <1>1, <1>2, PTL DEF Spec, SpectateSpec, TLSSpec, RatingsSpec, GameServerSpec

\* Spectators, the certificate, the ratings and the game server, one beside
\* another as the service runs them: the state of each keeps its types.
THEOREM ProgressTypes ==
    ASSUME ExpectIsFair(Int)
    PROVE  Spec => []TypeOK
<1>1. SpectateTypeOK /\ TLSTypeOK /\ RatingsTypeOK /\ GameServerTypeOK => TypeOK
  BY DEF TypeOK
<1>2. RatingsSpec => []RatingsTypeOK
  BY RatingsTypes
<1>. QED  BY <1>1, <1>2, SideBySide, SpectateTypes, CertificateTypes, ResultIsReportedOnce, PTL
=============================================================================
