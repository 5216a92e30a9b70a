----------------------------- MODULE ResultPages -----------------------------
(***************************************************************************)
(* A client walks through a paginated listing, of match results or of a    *)
(* queue's leaderboard, while matches end, teardowns change the rows of    *)
(* results and ratings move.  Results are numbered in the order of         *)
(* created_at, players in the order of their IDs.  A listing without ORDER *)
(* BY comes in the order in which the database keeps the rows, and an      *)
(* UPDATE moves a row.                                                     *)
(***************************************************************************)
EXTENDS Naturals, Sequences, FiniteSetsExt, SequencesExt, Ordering

CONSTANTS
    MaxResults, \* results that ever are, and players of the leaderboard
    PageSize,
    Listing,    \* the listings that are walked: "artifacts" (GET /user/artifacts),
                \* "all" (/results), "game" (/game/{gameID}/results), "guest" and
                \* "user" (/user/results), "leaderboard"
    Hidden      \* results the caller may not see: of others, in a private game

ASSUME PagesAssumption ==
    /\ MaxResults \in Nat
    /\ PageSize \in Nat \ {0}
    /\ Listing \subseteq {"artifacts", "all", "game", "guest", "user", "leaderboard"}
    /\ Hidden \subseteq 1 .. MaxResults

VARIABLES
    stored,     \* match_results, in the order of the database
    attached,   \* results whose artifacts column is not empty
    points,     \* points[p]: the rating of player p
    walk        \* the client: what it lists, its next page, what it was shown,
                \* what the listing held when it began, and (history) whether
                \* the table was written since

pageVars == <<stored, attached, points, walk>>

ResultID == 1 .. MaxResults
Points == {0, 1}

PagesInit ==
    /\ stored = <<>>
    /\ attached = {}
    /\ points = [p \in ResultID |-> 0]
    /\ walk \in [of: Listing, at: {"start"}, page: {0}, shown: {{}}, began: {{}}, written: {FALSE}]

Written == walk' = [walk EXCEPT !.written = TRUE]

\* Phase A: a new row, with the artifacts there are.
InsertResult(artifacts) ==
    /\ walk.of # "leaderboard"
    /\ Len(stored) < MaxResults
    /\ \E i \in 1 .. Len(stored) + 1 : stored' = InsertAt(stored, i, Len(stored) + 1)
    /\ attached' = attached \cup (IF artifacts THEN {Len(stored) + 1} ELSE {})
    /\ Written
    /\ UNCHANGED points

\* Phase B: the artifacts that teardown has read; nil leaves the column alone.
UpdateResult(r, artifacts) ==
    /\ walk.of # "leaderboard"
    /\ \E i, at \in 1 .. Len(stored) : stored[at] = r /\ stored' = InsertAt(RemoveAt(stored, at), i, r)
    /\ attached' = attached \cup (IF artifacts THEN {r} ELSE {})
    /\ Written
    /\ UNCHANGED points

RatingMoves(p) ==
    /\ walk.of = "leaderboard"
    /\ \E n \in Points : points' = [points EXCEPT ![p] = n]
    /\ Written
    /\ UNCHANGED <<stored, attached>>

(***************************************************************************)
(* The listings.                                                           *)
(***************************************************************************)
\* The results with artifacts are filtered in Go and then cut into pages.
NewestFirst == OrderedBy(attached, >)

\* The condition for registered users has one parameter for two placeholders
\* and a column that does not exist: the statement fails, its error is dropped.
ResultsOfPlayer == IF walk.of = "guest" THEN stored ELSE <<>>

\* rating DESC, player_id ASC
Ranked(p, q) == points[p] > points[q] \/ (points[p] = points[q] /\ p < q)
Leaderboard == OrderedBy(ResultID, Ranked)

ListedRows ==
    CASE walk.of = "artifacts" -> NewestFirst
      [] walk.of \in {"all", "game"} -> stored
      [] walk.of \in {"guest", "user"} -> ResultsOfPlayer
      [] walk.of = "leaderboard" -> Leaderboard

\* The listing of a game leaves out of each page what the caller may not see.
CanUserSeeMatchResult(r) == walk.of # "game" \/ r \notin Hidden
Shown(rows) == {r \in ToSet(rows) : CanUserSeeMatchResult(r)}

\* What a listing is to show in the end: a user's own results are all of them.
ToList == Shown(IF walk.of = "user" THEN stored ELSE ListedRows)

BeginWalk ==
    /\ walk.at = "start"
    /\ walk' = [walk EXCEPT !.at = "page", !.began = ToList, !.written = FALSE]
    /\ UNCHANGED <<stored, attached, points>>

\* A page of the filtered slice is the last if it exhausts it; one that the
\* database has cut, if it is not full.
CutShort(offset) == offset + PageSize + 1 >= Len(ListedRows)
LastPage(offset) ==
    IF walk.of = "artifacts" THEN offset + PageSize >= Len(ListedRows)
    ELSE offset + PageSize > Len(ListedRows)

ListPage ==
    LET offset == walk.page * PageSize
        page == SubSeq(ListedRows, offset + 1, Min({offset + PageSize, Len(ListedRows)}))
    IN  /\ walk.at = "page"
        /\ walk' = [walk EXCEPT !.at = IF LastPage(offset) THEN "done" ELSE @,
                                !.page = @ + 1,
                                !.shown = @ \cup Shown(page)]
        /\ UNCHANGED <<stored, attached, points>>

PagesNext ==
    \/ \E artifacts \in BOOLEAN :
        \/ InsertResult(artifacts)
        \/ \E r \in ResultID : UpdateResult(r, artifacts)
    \/ \E p \in ResultID : RatingMoves(p)
    \/ BeginWalk
    \/ ListPage

PagesSpec == PagesInit /\ [][PagesNext]_pageVars

-----------------------------------------------------------------------------
PagesTypeOK ==
    /\ stored \in Seq(ResultID)
    /\ attached \subseteq ToSet(stored)
    /\ points \in [ResultID -> Points]
    /\ walk \in [of: Listing, at: {"start", "page", "done"}, page: Nat, shown: SUBSET ResultID,
                 began: SUBSET ResultID, written: BOOLEAN]

\* Whoever follows nextPage to the end has been shown everything that was
\* listed when it began: in the listing of artifacts whatever ends and is torn
\* down meanwhile (entries may shift, matchResult.go:217-220, but only towards
\* later pages), in the others while their table is not written ("so pages
\* don't reshuffle on equal ratings", rating.go:46-47).
WalkMissesNothing ==
    walk.at = "done" /\ (walk.of = "artifacts" \/ ~walk.written) => walk.began \subseteq walk.shown

=============================================================================
