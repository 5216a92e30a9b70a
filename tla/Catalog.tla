------------------------------- MODULE Catalog -------------------------------
(***************************************************************************)
(* One game and its matchmaking queues: their creation, update and         *)
(* deletion by requests of the owner that overlap, and the matches and     *)
(* results whose foreign keys hold them in place.  Requests of others are  *)
(* answered before they read anything that matters here, and so are those  *)
(* with an invalid strategy.                                               *)
(*                                                                         *)
(* Queues are numbered in the order of their created_at, so that the       *)
(* default queue is the least one.  A row stands for its name; its other   *)
(* columns are written with it, by a Save of the whole row.  A field that  *)
(* a request leaves out is NoRow in the request.                           *)
(***************************************************************************)
EXTENDS Naturals

CONSTANTS
    Editor,     \* requests of the owner that may be under way at once
    QueueName,
    DefaultQueueName,
    MaxQueues,  \* how many queues are ever created
    NoRow

ASSUME CatalogAssumption ==
    /\ MaxQueues \in Nat \ {0}
    /\ NoRow \notin QueueName
    /\ DefaultQueueName \in QueueName

VARIABLES
    gameRow,    \* whether the game's row exists
    queueRow,   \* queueRow[q]: the name in the row of queue q, or NoRow
    stamped,    \* how many queues were given a created_at
    edit,       \* edit[r]: what request r does next, to which queue, and the
                \* rows it has read
    running,    \* queues with a row in matches
    results     \* whether a row in match_results names the game

VARIABLES       \* history
    deleted,    \* a deletion of the game was acknowledged
    overlapped  \* two deletions of different queues were between their count
                \* and their DELETE at the same time

catalogVars == <<gameRow, queueRow, stamped, edit, running, results, deleted, overlapped>>

QueueID == 1 .. MaxQueues
NoRows == [q \in QueueID |-> NoRow]
Resting == [op |-> "none", queue |-> 0, rows |-> NoRows]

Stored(rows) == {q \in QueueID : rows[q] # NoRow}
\* ORDER BY created_at ASC, id ASC: the first is the default queue.
DefaultQueue(rows) == CHOOSE q \in Stored(rows) : \A p \in Stored(rows) : q <= p

\* The queue a player joins who names none, and one who names queue q; 0 if
\* there is no such queue.
ResolveQueue(rows, q) ==
    IF q = 0 THEN IF Stored(rows) = {} THEN 0 ELSE DefaultQueue(rows)
    ELSE IF rows[q] = NoRow THEN 0 ELSE q

\* The unique index on (game_id, name).
NameFree(rows, q, name) == \A p \in QueueID \ {q} : rows[p] # name

CatalogInit ==
    /\ gameRow = FALSE
    /\ queueRow = NoRows
    /\ stamped = 0
    /\ edit = [r \in Editor |-> Resting]
    /\ running = {}
    /\ results = FALSE
    /\ deleted = FALSE
    /\ overlapped = FALSE

Begins(r, op, q, rows) == edit' = [edit EXCEPT ![r] = [op |-> op, queue |-> q, rows |-> rows]]
Answers(r) == edit' = [edit EXCEPT ![r] = Resting]

\* What a new row, and a changed one, has for a field that was left out.
ApplyQueueDefaults(asked) == IF asked = NoRow THEN DefaultQueueName ELSE asked
ApplyQueueUpdate(read, asked) == IF asked = NoRow THEN read ELSE asked

\* The game and its primary queue are inserted in one transaction; the request
\* has no name for the queue.
InsertGame ==
    /\ gameRow' = TRUE
    /\ stamped' = 1
    /\ queueRow' = [queueRow EXCEPT ![1] = ApplyQueueDefaults(NoRow)]

CreateGame ==
    /\ stamped = 0
    /\ InsertGame
    /\ UNCHANGED <<edit, running, results, deleted>>

(***************************************************************************)
(* Queues.  requireGameOwner and the handlers' own lookups can only refuse *)
(* what the last read before the write refuses too.                        *)
(***************************************************************************)
QueueFromParams(r) ==
    /\ edit[r].op = "none"
    /\ gameRow
    /\ stamped < MaxQueues
    /\ stamped' = stamped + 1
    /\ Begins(r, "create", stamped', NoRows)
    /\ UNCHANGED <<gameRow, queueRow, running, results, deleted>>

\* A taken name answers 409, a game that is gone violates the foreign key.
Save(q, name) ==
    queueRow' = IF gameRow /\ NameFree(queueRow, q, name)
                THEN [queueRow EXCEPT ![q] = name] ELSE queueRow

CreateGameQueue(r, asked) ==
    LET q == edit[r].queue
    IN  /\ edit[r].op = "create"
        /\ Save(q, ApplyQueueDefaults(asked))
        /\ Answers(r)
        /\ UNCHANGED <<gameRow, stamped, running, results, deleted>>

ReadQueue(r, q) ==
    /\ edit[r].op = "none"
    /\ queueRow[q] # NoRow
    /\ Begins(r, "update", q, [NoRows EXCEPT ![q] = queueRow[q]])
    /\ UNCHANGED <<gameRow, queueRow, stamped, running, results, deleted>>

\* Save writes every column, asked for or as it was read, and inserts the row
\* again if it has gone.
UpdateGameQueue(r, asked) ==
    LET q == edit[r].queue
    IN  /\ edit[r].op = "update"
        /\ Save(q, ApplyQueueUpdate(edit[r].rows[q], asked))
        /\ Answers(r)
        /\ UNCHANGED <<gameRow, stamped, running, results, deleted>>

\* count <= 1 answers ErrLastQueue.
AnotherAnyway(q) == TRUE
AnotherQueue(q) == \E p \in Stored(queueRow) : p # q
CountQueues(r, q) ==
    /\ edit[r].op = "none"
    /\ queueRow[q] # NoRow
    /\ AnotherQueue(q)
    /\ Begins(r, "delete", q, NoRows)
    /\ UNCHANGED <<gameRow, queueRow, stamped, running, results, deleted>>

\* A running match keeps its queue: the DELETE then fails.
Unreferenced(q) == FALSE
Referenced(q) == q \in running
DeleteGameQueue(r) ==
    LET q == edit[r].queue
    IN  /\ edit[r].op = "delete"
        /\ queueRow' = IF Referenced(q) THEN queueRow ELSE [queueRow EXCEPT ![q] = NoRow]
        /\ Answers(r)
        /\ UNCHANGED <<gameRow, stamped, running, results, deleted>>

(***************************************************************************)
(* The game.                                                               *)
(***************************************************************************)
GetGame(r) ==
    /\ edit[r].op = "none"
    /\ gameRow
    /\ Begins(r, "updateGame", 0, queueRow)
    /\ UNCHANGED <<gameRow, queueRow, stamped, running, results, deleted>>

\* Save(game) also saves the queues that were loaded with it: those that have
\* gone are inserted again, the others stay as they are.
WithLoaded(loaded) == [q \in QueueID |-> IF queueRow[q] = NoRow THEN loaded[q] ELSE queueRow[q]]
Unique(rows) == \A q \in Stored(rows) : NameFree(rows, q, rows[q])

\* Only when no row was updated, and nothing failed, does Save insert the game.
\* The loaded queues come before that, and need the game.
LoadedIgnored(loaded) == FALSE
LoadedNeedGame(loaded) == ~gameRow /\ Stored(loaded) # {}
SaveFails(loaded) == LoadedNeedGame(loaded) \/ ~Unique(WithLoaded(loaded))

\* The legacy queue fields, of which the name is none, go to the default queue
\* that was loaded, with the rest of its row as it was read.
ToDefaultQueue(loaded, rows) ==
    [rows EXCEPT ![DefaultQueue(loaded)] = ApplyQueueUpdate(loaded[DefaultQueue(loaded)], NoRow)]

UpdateGame(r, flat) ==
    LET loaded == edit[r].rows
        rows == IF flat THEN ToDefaultQueue(loaded, WithLoaded(loaded)) ELSE WithLoaded(loaded)
        fails == SaveFails(loaded) \/ (flat /\ (Stored(loaded) = {} \/ ~Unique(rows)))
    IN  /\ edit[r].op = "updateGame"
        /\ gameRow' = (gameRow \/ ~fails)
        /\ queueRow' = IF fails THEN queueRow ELSE rows
        /\ Answers(r)
        /\ UNCHANGED <<stamped, running, results, deleted>>

\* The queues go with the game; matches and results keep it from going.
CascadeDelete ==
    /\ running = {}
    /\ ~results
    /\ gameRow' = FALSE
    /\ queueRow' = NoRows

DeleteGame ==
    /\ gameRow
    /\ CascadeDelete
    /\ deleted' = TRUE
    /\ UNCHANGED <<stamped, edit, running, results>>

\* A match of players who joined a queue, by its ID or as the default one;
\* MatchEnded inserts its result, and the teardown deletes it.
MatchRuns(asked) ==
    /\ ResolveQueue(queueRow, asked) # 0
    /\ running' = running \cup {ResolveQueue(queueRow, asked)}
    /\ UNCHANGED <<gameRow, queueRow, stamped, edit, results, deleted>>

MatchIsOver(q) ==
    /\ q \in running
    /\ running' = running \ {q}
    /\ results' = TRUE
    /\ UNCHANGED <<gameRow, queueRow, stamped, edit, deleted>>

Overlap ==
    \E r, s \in Editor :
        /\ edit[r].op = "delete"
        /\ edit[s].op = "delete"
        /\ edit[r].queue # edit[s].queue

CatalogStep ==
    \/ CreateGame
    \/ \E r \in Editor :
        \/ QueueFromParams(r)
        \/ \E asked \in QueueName \cup {NoRow} : CreateGameQueue(r, asked) \/ UpdateGameQueue(r, asked)
        \/ \E q \in QueueID : ReadQueue(r, q) \/ CountQueues(r, q)
        \/ DeleteGameQueue(r)
        \/ GetGame(r)
        \/ \E flat \in BOOLEAN : UpdateGame(r, flat)
    \/ DeleteGame
    \/ \E asked \in 0 .. MaxQueues : MatchRuns(asked)
    \/ \E q \in QueueID : MatchIsOver(q)

CatalogNext == CatalogStep /\ overlapped' = (overlapped \/ Overlap')

CatalogSpec == CatalogInit /\ [][CatalogNext]_catalogVars

-----------------------------------------------------------------------------
Rows == [QueueID -> QueueName \cup {NoRow}]

CatalogTypeOK ==
    /\ gameRow \in BOOLEAN
    /\ queueRow \in Rows
    /\ stamped \in 0 .. MaxQueues
    /\ edit \in [Editor -> [op: {"none", "create", "update", "delete", "updateGame"},
                            queue: 0 .. MaxQueues, rows: Rows]]
    /\ running \subseteq Stored(queueRow)
    /\ results \in BOOLEAN
    /\ deleted \in BOOLEAN
    /\ overlapped \in BOOLEAN

\* A game always has a queue for /match/join to default to (game_queue.go:13),
\* whatever requests overlap, unless two of them count the queues before either
\* deletes its own.
KeepsAQueue == gameRow /\ ~overlapped => ResolveQueue(queueRow, 0) # 0

\* A deleted game does not come back, although an update that loaded it before
\* saves it after, and Save inserts a row that has gone: the queues it loaded
\* are saved first and fail for want of the game.
GameStaysDeleted == deleted /\ ~overlapped => ~gameRow

=============================================================================
