----------------------------- MODULE GameServer -----------------------------
(***************************************************************************)
(* The example game server: the process in a match's container.  Players   *)
(* join by HTTP or TCP with their tokens, the last of them starts a        *)
(* goroutine that plays the game, uploads a preview, reports the result    *)
(* and uploads a replay, and then closes the channel on which main and the *)
(* TCP listener wait.  Nothing else ends the process: a player who never   *)
(* joins leaves it to the platform's timeout.                              *)
(*                                                                         *)
(* Tokens are a map's keys, so that one handed over twice is one, and a    *)
(* token of nobody is turned away before it changes anything.              *)
(***************************************************************************)
EXTENDS Naturals, FiniteSets

CONSTANTS
    Token,          \* expectedTokens
    MaxReporters    \* calls of reportResult the model has room for

ASSUME GameServerAssumption ==
    /\ Token # {}
    /\ IsFiniteSet(Token)
    /\ MaxReporters \in Nat \ {0}

VARIABLES
    joined,     \* joinedTokens
    reporter,   \* reporter[i]: what the i-th reportResult does next, or "none"
    shutdown,   \* whether shutdownChan is closed
    listener,   \* whether the TCP listener is open
    process     \* main: "serving", "draining" (in http.Server.Shutdown) and
                \* "exited"; or the end of the process, "panicked" or "killed"

VARIABLE posts  \* history: how many times a result was sent

gameServerVars == <<joined, reporter, shutdown, listener, process, posts>>

Reporter == 1 .. MaxReporters
Alive == process \in {"serving", "draining"}

GameServerInit ==
    /\ joined = {}
    /\ reporter = [i \in Reporter |-> "none"]
    /\ shutdown = FALSE
    /\ listener = TRUE
    /\ process = "serving"
    /\ posts = 0

\* go gs.reportResult()
StartReporter ==
    \E i \in Reporter :
        /\ i = Cardinality({j \in Reporter : reporter[j] # "none"}) + 1
        /\ reporter' = [reporter EXCEPT ![i] = "play"]

\* Under the mutex: whoever completes the group starts the game.
NeverJoined(t) == FALSE
AlreadyJoined(t) == t \in joined
AddPlayer(t) ==
    \/ AlreadyJoined(t) /\ UNCHANGED <<joined, reporter>>
    \/ /\ ~AlreadyJoined(t)
       /\ joined' = joined \cup {t}
       /\ IF Cardinality(joined') >= Cardinality(Token) THEN StartReporter ELSE UNCHANGED reporter

HandleHTTPJoin(t) ==
    /\ process = "serving"
    /\ AddPlayer(t)
    /\ UNCHANGED <<shutdown, listener, process, posts>>

HandleTCPConnection(t) ==
    /\ Alive
    /\ listener
    /\ AddPlayer(t)
    /\ UNCHANGED <<shutdown, listener, process, posts>>

(***************************************************************************)
(* reportResult.  The uploads are best effort; an error of the report ends *)
(* it without a second attempt, and any status counts as an answer.        *)
(***************************************************************************)
Goes(i, from, to) ==
    /\ Alive
    /\ reporter[i] = from
    /\ reporter' = [reporter EXCEPT ![i] = to]

UploadArtifact(i) ==
    /\ Goes(i, "play", "report") \/ Goes(i, "replay", "close")
    /\ UNCHANGED <<joined, shutdown, listener, process, posts>>

ReportResult(i) ==
    /\ \E answered \in BOOLEAN : Goes(i, "report", IF answered THEN "replay" ELSE "close")
    /\ posts' = posts + 1
    /\ UNCHANGED <<joined, shutdown, listener, process>>

\* Closing a channel a second time panics.
CloseShutdownChan(i) ==
    /\ Goes(i, "close", "done")
    /\ shutdown' = TRUE
    /\ process' = IF shutdown THEN "panicked" ELSE process
    /\ UNCHANGED <<joined, listener, posts>>

(***************************************************************************)
(* The two servers.  Nobody waits for the TCP one.                         *)
(***************************************************************************)
CloseListener ==
    /\ Alive
    /\ shutdown
    /\ listener
    /\ listener' = FALSE
    /\ UNCHANGED <<joined, reporter, shutdown, process, posts>>

Main ==
    /\ \/ process = "serving" /\ shutdown /\ process' = "draining"
       \/ process = "draining" /\ process' = "exited"
    /\ UNCHANGED <<joined, reporter, shutdown, listener, posts>>

\* The platform stops the container: the match timed out, or was torn down.
StopsContainer ==
    /\ Alive
    /\ process' = "killed"
    /\ UNCHANGED <<joined, reporter, shutdown, listener, posts>>

Reports(i) == UploadArtifact(i) \/ ReportResult(i) \/ CloseShutdownChan(i)

GameServerNext ==
    \/ \E t \in Token : HandleHTTPJoin(t) \/ HandleTCPConnection(t)
    \/ \E i \in Reporter : Reports(i)
    \/ CloseListener
    \/ Main
    \/ StopsContainer

\* Goroutines run, and a request to the platform ends, with an answer or an
\* error (http.DefaultClient sets no timeout of its own: this is assumed of TCP).
GameServerFairness ==
    /\ \A i \in Reporter : WF_gameServerVars(Reports(i))
    /\ WF_gameServerVars(Main)

GameServerSpec == GameServerInit /\ [][GameServerNext]_gameServerVars /\ GameServerFairness

-----------------------------------------------------------------------------
GameServerTypeOK ==
    /\ joined \subseteq Token
    /\ reporter \in [Reporter -> {"none", "play", "report", "replay", "close", "done"}]
    /\ shutdown \in BOOLEAN
    /\ listener \in BOOLEAN
    /\ process \in {"serving", "draining", "exited", "panicked", "killed"}
    /\ posts \in 0 .. MaxReporters

\* Once every player has joined, whoever else joins again, the result is sent
\* once and the process exits by itself, with no panic, unless it is stopped.
OneResultThenExit ==
    joined = Token ~> process = "killed" \/ (process = "exited" /\ posts = 1)

=============================================================================
