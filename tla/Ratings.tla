------------------------------- MODULE Ratings -------------------------------
(***************************************************************************)
(* The ratings of one queue: reports of matches that share players apply   *)
(* ApplyClassicElo in transactions of their own, beside players who look   *)
(* at their rating and so create it.  PostgreSQL at READ COMMITTED: a row  *)
(* that a transaction has inserted or locked makes others wait, and a row  *)
(* locked FOR UPDATE is read as last committed.                            *)
(***************************************************************************)
EXTENDS Integers, Sequences, FiniteSetsExt, SequencesExt, Ordering

CONSTANTS
    Report,         \* reports of matches, each of another match
    Rated,          \* registered players, as numbers: the order of their IDs
    GuestPlayer,    \* guests
    LineUp,         \* the orders in which GetMatch may list a match's players
    DefaultRating,
    KFactor,
    Unit,           \* scores are counted in units: a win is Unit of them
    Expect(_),      \* the expected score against an opponent so many points ahead
    NoRating

\* What one is expected to score the other is not.
ExpectIsFair(differences) ==
    \A d \in differences : Expect(d) \in Int /\ Expect(d) + Expect(-d) = Unit

ASSUME RatingsAssumption ==
    /\ IsFiniteSet(Report)
    /\ Rated \subseteq Nat /\ IsFiniteSet(Rated)
    /\ Rated \cap GuestPlayer = {}
    /\ LineUp \subseteq Seq(Rated \cup GuestPlayer)
    /\ DefaultRating \in Int /\ NoRating \notin Int
    /\ KFactor \in Nat
    /\ Unit \in Nat \ {0} /\ Unit % 2 = 0
    /\ ExpectIsFair(-3 * KFactor .. 3 * KFactor)

VARIABLES
    rating,     \* rating[p]: the committed row of p, or NoRating
    holder,     \* holder[p]: the reports whose transaction holds p's row
    elo,        \* elo[r]: the transaction of report r
    lookup,     \* players whose GetRating has found no row
    applied     \* history: applied[r][p], what report r's commit added for p

ratingVars == <<rating, holder, elo, lookup, applied>>

NoDeltas == [p \in Rated |-> 0]

RatingsInit ==
    /\ rating = [p \in Rated |-> NoRating]
    /\ holder = [p \in Rated |-> {}]
    /\ elo = [r \in Report |-> [step |-> "none", players |-> <<>>, winners |-> {}, next |-> 1,
                                read |-> NoDeltas]]
    /\ lookup = {}
    /\ applied = [r \in Report |-> NoDeltas]

(***************************************************************************)
(* The arithmetic.                                                         *)
(***************************************************************************)
Score(won, other) ==
    CASE won /\ ~other -> Unit
      [] ~won /\ other -> 0
      [] OTHER -> Unit \div 2

\* math.Round: halves go away from zero.
Rounded(a, b) == IF a < 0 THEN -((b - 2 * a) \div (2 * b)) ELSE (2 * a + b) \div (2 * b)

\* The sum of K * 2 / N * (S - E) over the opponents of player p.
Surplus(t, p, j) == Score(p \in t.winners, j \in t.winners) - Expect(t.read[j] - t.read[p])
Total(t, p) == MapThenSumSet(LAMBDA j : Surplus(t, p, j), ToSet(t.players) \ {p})
Delta(t, p) == Rounded(2 * KFactor * Total(t, p), Len(t.players) * Unit)

Deltas(t) == [p \in Rated |-> IF p \in ToSet(t.players) THEN Delta(t, p) ELSE 0]

(***************************************************************************)
(* ApplyClassicElo.                                                        *)
(***************************************************************************)
\* Those of the players who are no guests, ordered by their IDs.
InOrderGiven(players) == SelectSeq(players, LAMBDA p : p \in Rated)
Sorted(players) == OrderedBy(ToSet(players) \cap Rated, <)

\* MatchEnded has inserted the result, in the same transaction.
MatchEnded(r, players, winners) ==
    LET nonGuests == Sorted(players)
    IN  /\ elo[r].step = "none"
        /\ elo' = [elo EXCEPT ![r].step = IF Len(nonGuests) < 2 THEN "ended" ELSE "insert",
                              ![r].players = nonGuests,
                              ![r].winners = winners \cap Rated]
        /\ UNCHANGED <<rating, holder, lookup, applied>>

Current(r) == elo[r].players[elo[r].next]
MovesOn(r) ==
    IF elo[r].next < Len(elo[r].players) THEN [elo[r] EXCEPT !.next = @ + 1]
    ELSE [elo[r] EXCEPT !.next = 1, !.step = IF @ = "insert" THEN "lock" ELSE "save"]

\* ON CONFLICT DO NOTHING leaves an existing row alone and unlocked, and waits
\* for one that another transaction is inserting.
MayInsert(p) == rating[p] # NoRating \/ holder[p] = {}
InsertRow(r) ==
    LET p == Current(r)
    IN  /\ elo[r].step = "insert"
        /\ MayInsert(p)
        /\ holder' = IF rating[p] # NoRating THEN holder ELSE [holder EXCEPT ![p] = {r}]
        /\ elo' = [elo EXCEPT ![r] = MovesOn(r)]
        /\ UNCHANGED <<rating, lookup, applied>>

LockedByAnyone(r, p) == TRUE
MayLock(r, p) == holder[p] \subseteq {r}
LockRow(r) ==
    LET p == Current(r)
        found == IF rating[p] = NoRating THEN DefaultRating ELSE rating[p]
    IN  /\ elo[r].step = "lock"
        /\ MayLock(r, p)
        /\ holder' = [holder EXCEPT ![p] = @ \cup {r}]
        /\ elo' = [elo EXCEPT ![r] = [MovesOn(r) EXCEPT !.read[p] = found]]
        /\ UNCHANGED <<rating, lookup, applied>>

Ends(r) ==
    /\ elo' = [elo EXCEPT ![r].step = "ended", ![r].winners = {}, ![r].next = 1, ![r].read = NoDeltas]
    /\ holder' = [p \in Rated |-> holder[p] \ {r}]

\* The rows are saved, and the commit shows them.
SaveAndCommit(r) ==
    LET t == elo[r]
    IN  /\ t.step = "save"
        /\ rating' = [p \in Rated |-> IF p \in ToSet(t.players) THEN t.read[p] + Delta(t, p) ELSE rating[p]]
        /\ applied' = [applied EXCEPT ![r] = Deltas(t)]
        /\ Ends(r)
        /\ UNCHANGED lookup

\* An error, or a machine that stops, rolls the transaction back.
UnderWay(r) == elo[r].step \in {"insert", "lock", "save"}
RollBack(r) ==
    /\ UnderWay(r)
    /\ Ends(r)
    /\ UNCHANGED <<rating, lookup, applied>>

(***************************************************************************)
(* GetRating looks, and creates what it did not find.  A row that somebody *)
(* has created since is a duplicate key: the answer is 404.                *)
(***************************************************************************)
LookUp(p) ==
    /\ p \notin lookup
    /\ rating[p] = NoRating
    /\ lookup' = lookup \cup {p}
    /\ UNCHANGED <<rating, holder, elo, applied>>

CreateUnlessThere(p) == IF rating[p] = NoRating THEN DefaultRating ELSE rating[p]
CreateRating(p) ==
    /\ p \in lookup
    /\ MayInsert(p)
    /\ rating' = [rating EXCEPT ![p] = CreateUnlessThere(p)]
    /\ lookup' = lookup \ {p}
    /\ UNCHANGED <<holder, elo, applied>>

Transaction(r) == InsertRow(r) \/ LockRow(r) \/ SaveAndCommit(r)

RatingsNext ==
    \/ \E r \in Report :
        \/ \E players \in LineUp : \E winners \in SUBSET ToSet(players) : MatchEnded(r, players, winners)
        \/ Transaction(r)
        \/ RollBack(r)
    \/ \E p \in Rated : LookUp(p) \/ CreateRating(p)

RatingsSpec == RatingsInit /\ [][RatingsNext]_ratingVars

\* A statement that waits for nobody is carried out.
RatingsFairness == \A r \in Report : WF_ratingVars(Transaction(r))

-----------------------------------------------------------------------------
RatingsTypeOK ==
    /\ rating \in [Rated -> Int \cup {NoRating}]
    /\ holder \in [Rated -> SUBSET Report]
    /\ \A r \in Report :
        /\ elo[r].step \in {"none", "insert", "lock", "save", "ended"}
        /\ elo[r].players \in Seq(Rated)
        /\ elo[r].winners \subseteq Rated
        /\ elo[r].next \in Nat
        /\ elo[r].read \in [Rated -> Int]
    /\ lookup \subseteq Rated
    /\ applied \in [Report -> [Rated -> Int]]

\* No update is lost: a rating is where it started plus what every report that
\* committed has added, although each wrote a value computed from what it had
\* read before (elo.go:50-89).
RatingsExplained ==
    \A p \in Rated : rating[p] # NoRating =>
        rating[p] = DefaultRating + MapThenSumSet(LAMBDA r : applied[r][p], Report)

\* A match of two moves points from one player to the other and makes none
\* (elo.go:23-25): through ties, rounding and unequal ratings.
TwoPlayersTrade ==
    \A r \in Report : Len(elo[r].players) = 2 =>
        MapThenSumSet(LAMBDA p : applied[r][p], Rated) = 0

\* No point is lost, and none is made but by rounding among three or more.
RatingsAddUp == RatingsExplained /\ TwoPlayersTrade

\* Its next statement waits for the end of another transaction.
Waits(r) ==
    \/ elo[r].step = "insert" /\ ~MayInsert(Current(r))
    \/ elo[r].step = "lock" /\ ~MayLock(r, Current(r))

\* Matches that share players cannot deadlock (elo.go:14-15): while reports are
\* under way, there is one whose statement waits for no other.
SomebodyGoesOn ==
    (\E r \in Report : UnderWay(r)) => \E r \in Report : UnderWay(r) /\ ~Waits(r)

\* So every report that has begun ends, even if nothing rolls it back.
ReportsEnd == \A r \in Report : elo[r].step = "insert" ~> elo[r].step = "ended"

=============================================================================
