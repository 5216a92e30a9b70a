------------------------------- MODULE Lobby --------------------------------
(***************************************************************************)
(* One lobby: the WebSocket sessions of its host and of those who join it, *)
(* its Redis keys, the host's commands, the worker's sweep of abandoned    *)
(* lobbies, and the matchmaking queue that /start falls back to when the   *)
(* pool of hosts is full.                                                  *)
(*                                                                         *)
(* Each Redis command, pipeline or script, and the call of StartMatch, is  *)
(* a step; Redis itself does not fail.  A lobby has a fresh id, so lobbies *)
(* share nothing.  A player has one session at a time, and the host only   *)
(* his own.  Passwords, tags and chat change no state and are left out; so *)
(* is the index, whose entry comes and goes with the record.               *)
(*                                                                         *)
(* An operator that no action uses, just before the one it resembles, is a *)
(* broken variant: substituting it shows that the properties notice.       *)
(***************************************************************************)
EXTENDS Naturals, FiniteSets

CONSTANTS
    Player,
    Host,       \* the player who hosts
    MaxPlayers  \* the queue's LobbySize

ASSUME LobbyAssumption ==
    /\ Host \in Player
    /\ MaxPlayers \in Nat \ {0}

VARIABLES
    record,     \* lobby_<id> and its entry in the index exist
    members,    \* the hash lobby_players_<id>
    alive,      \* players with a key lobby_player_ttl_<id>_<player>
    session,    \* session[p]: how far HostLobby or JoinLobby is for p
    heard,      \* players with a message in their kick or match subscription: either
                \* ends the session
    command,    \* the host's command under way and the players in its hand
    sweep,      \* CleanupExpiredLobbies, with its local variables
    queued,     \* players with a place, or several, in the matchmaking queue
    hosted,     \* the lobby was created
    died,       \* players whose last session died without its cleanup
    early       \* whether somebody joined before the host was added

redis == <<record, members, alive>>
vars == <<redis, session, heard, command, sweep, queued, hosted, died, early>>

NoCommand == [at |-> "none", who |-> {}]
NoSweep == [at |-> "idle", todo |-> {}, hostAlive |-> FALSE, dead |-> {}]

Init ==
    /\ record = FALSE
    /\ members = {}
    /\ alive = {}
    /\ session = [p \in Player |-> "out"]
    /\ heard = {}
    /\ command = NoCommand
    /\ sweep = NoSweep
    /\ queued = {}
    /\ hosted = FALSE
    /\ died = {}
    /\ early = FALSE

Enter(p, s) == session' = [session EXCEPT ![p] = s]

ForgetKeyOnly(p) ==
    /\ alive' = alive \ {p}
    /\ UNCHANGED <<record, members>>
RemoveLobbyPlayer(p) ==
    /\ members' = members \ {p}
    /\ alive' = alive \ {p}
    /\ UNCHANGED record

\* The TTL keys are left to expire.
DeleteLobby ==
    /\ record' = FALSE
    /\ members' = {}
    /\ UNCHANGED alive

\* Only a session whose subscriptions are in place hears.
Hears(ps) == heard' = heard \cup {p \in ps : session[p] = "on"}

(***************************************************************************)
(* A session: in, on, and out again.                                       *)
(***************************************************************************)
CreateLobby ==
    /\ session[Host] = "out"
    /\ ~hosted
    /\ hosted' = TRUE
    /\ record' = TRUE
    /\ Enter(Host, "found")
    /\ UNCHANGED <<members, alive, heard, command, sweep, queued, died, early>>

\* The host is added whoever is there.
AddLobbyPlayer ==
    /\ session[Host] = "found"
    /\ early' = (members # {})
    /\ members' = members \cup {Host}
    /\ alive' = alive \cup {Host}
    /\ Enter(Host, "added")
    /\ UNCHANGED <<record, heard, command, sweep, queued, hosted, died>>

GetLobby(p) ==
    /\ p # Host
    /\ session[p] = "out"
    /\ record
    /\ Enter(p, "found")
    /\ UNCHANGED <<redis, heard, command, sweep, queued, hosted, died, early>>

FullPastCap == Cardinality(members) > MaxPlayers
Full == Cardinality(members) >= MaxPlayers

\* The script looks at the players' hash only: the lobby may be gone by now.
AddLobbyPlayerWithCap(p) ==
    /\ p # Host
    /\ session[p] = "found"
    /\ \/ Full /\ Enter(p, "out") /\ UNCHANGED <<members, alive, died>>
       \/ /\ ~Full
          /\ members' = members \cup {p}
          /\ alive' = alive \cup {p}
          /\ died' = died \ {p}
          /\ Enter(p, "added")
    /\ UNCHANGED <<record, heard, command, sweep, queued, hosted, early>>

openLobbySubs(p) ==
    /\ session[p] = "added"
    /\ Enter(p, "on")
    /\ UNCHANGED <<redis, heard, command, sweep, queued, hosted, died, early>>

\* The host's commands run inside the host's own loop.
ListensAlways(p) == session[p] = "on"
Listening(p) == session[p] = "on" /\ (p = Host => command = NoCommand)

\* runLobbySession ends on a kick or a match_ready message, ...
HearAndLeave(p) ==
    /\ Listening(p)
    /\ p \in heard
    /\ Enter(p, "leaving")
    /\ heard' = heard \ {p}
    /\ UNCHANGED <<redis, command, sweep, queued, hosted, died, early>>

\* ... or on /disconnect, a lost connection or an orderly shutdown.
Leave(p) ==
    /\ Listening(p)
    /\ Enter(p, "leaving")
    /\ heard' = heard \ {p}
    /\ UNCHANGED <<redis, command, sweep, queued, hosted, died, early>>

CleanUp(p) ==
    /\ session[p] = "leaving"
    /\ RemoveLobbyPlayer(p)
    /\ Enter(p, IF p = Host THEN "closing" ELSE "out")
    /\ UNCHANGED <<heard, command, sweep, queued, hosted, died, early>>

CloseLobby ==
    /\ session[Host] = "closing"
    /\ DeleteLobby
    /\ Enter(Host, "out")
    /\ UNCHANGED <<heard, command, sweep, queued, hosted, died, early>>

(***************************************************************************)
(* The host's commands.                                                    *)
(***************************************************************************)
Order(at, who) == command' = [at |-> at, who |-> who]

\* /disconnect <name>: found by name, told, removed.
FindLobbyPlayerByName(p) ==
    /\ Listening(Host)
    /\ p \in members \ {Host}
    /\ Order("kick", {p})
    /\ UNCHANGED <<redis, session, heard, sweep, queued, hosted, died, early>>

PublishLobbyKick(p) ==
    /\ command = [at |-> "kick", who |-> {p}]
    /\ Hears({p})
    /\ Order("evict", {p})
    /\ UNCHANGED <<redis, session, sweep, queued, hosted, died, early>>

Evict(p) ==
    /\ command = [at |-> "evict", who |-> {p}]
    /\ RemoveLobbyPlayer(p)
    /\ command' = NoCommand
    /\ UNCHANGED <<session, heard, sweep, queued, hosted, died, early>>

\* /start: the members are read, started together, and the lobby deleted.
LobbyPlayers ==
    /\ Listening(Host)
    /\ Order("start", members)
    /\ UNCHANGED <<redis, session, heard, sweep, queued, hosted, died, early>>

MatchStarts ==
    /\ command.at = "start"
    /\ Hears(command.who)
    /\ Order("close", {})
    /\ UNCHANGED <<redis, session, sweep, queued, hosted, died, early>>

\* At capacity the players are pushed into the matchmaking queue; after any
\* other failure they are told, which ends their sessions.
AtCapacity ==
    /\ command.at = "start"
    /\ queued' = queued \cup command.who
    /\ command' = NoCommand
    /\ UNCHANGED <<redis, session, heard, sweep, hosted, died, early>>

MatchFails ==
    /\ command.at = "start"
    /\ Hears(command.who)
    /\ command' = NoCommand
    /\ UNCHANGED <<redis, session, sweep, queued, hosted, died, early>>

CloseStarted ==
    /\ command.at = "close"
    /\ DeleteLobby
    /\ command' = NoCommand
    /\ UNCHANGED <<session, heard, sweep, queued, hosted, died, early>>

\* A worker takes p out of the matchmaking queue: it is paired, its match
\* fails, or its liveness key is found missing.
Dequeue(p) ==
    /\ p \in queued
    /\ queued' \in {queued, queued \ {p}}
    /\ Hears({p}) \/ UNCHANGED heard
    /\ UNCHANGED <<redis, session, command, sweep, hosted, died, early>>

(***************************************************************************)
(* CleanupExpiredLobbies.                                                  *)
(***************************************************************************)
LobbiesForGame ==
    /\ sweep.at = "idle"
    /\ record
    /\ sweep' = [sweep EXCEPT !.at = "list"]
    /\ UNCHANGED <<redis, session, heard, command, queued, hosted, died, early>>

ListPlayers ==
    /\ sweep.at = "list"
    /\ sweep' = [sweep EXCEPT !.at = "check", !.todo = members]
    /\ UNCHANGED <<redis, session, heard, command, queued, hosted, died, early>>

IsLobbyPlayerAlive(p) ==
    /\ sweep.at = "check"
    /\ p \in sweep.todo
    /\ sweep' = IF p \in alive
                THEN [sweep EXCEPT !.todo = @ \ {p}, !.hostAlive = @ \/ p = Host]
                ELSE [sweep EXCEPT !.todo = @ \ {p}, !.at = "remove", !.dead = {p}]
    /\ UNCHANGED <<redis, session, heard, command, queued, hosted, died, early>>

RemoveExpired(p) ==
    /\ sweep.at = "remove"
    /\ sweep.dead = {p}
    /\ RemoveLobbyPlayer(p)
    /\ sweep' = [sweep EXCEPT !.at = "check", !.dead = {}]
    /\ UNCHANGED <<session, heard, command, queued, hosted, died, early>>

DeleteStale ==
    /\ sweep.at = "check"
    /\ sweep.todo = {}
    /\ \/ sweep.hostAlive /\ UNCHANGED redis
       \/ ~sweep.hostAlive /\ DeleteLobby
    /\ sweep' = NoSweep
    /\ UNCHANGED <<session, heard, command, queued, hosted, died, early>>

(***************************************************************************)
(* The surroundings.                                                       *)
(***************************************************************************)
\* A session refreshes its key; once it is over, the key expires.
ExpireKey(p) ==
    /\ p \in alive
    /\ session[p] = "out"
    /\ alive' = alive \ {p}
    /\ UNCHANGED <<record, members, session, heard, command, sweep, queued, hosted, died, early>>

\* The machine that serves p's session dies, in the middle of a command of the
\* host's, too.
Crash(p) ==
    /\ session[p] # "out"
    /\ Enter(p, "out")
    /\ heard' = heard \ {p}
    /\ died' = died \cup {p}
    /\ command' = IF p = Host THEN NoCommand ELSE command
    /\ UNCHANGED <<redis, sweep, queued, hosted, early>>

HostLobby == CreateLobby \/ AddLobbyPlayer \/ CloseLobby
JoinLobby(p) == GetLobby(p) \/ AddLobbyPlayerWithCap(p)
runLobbySession(p) == openLobbySubs(p) \/ HearAndLeave(p) \/ CleanUp(p)

runHostCommand ==
    \/ LobbyPlayers \/ MatchStarts \/ AtCapacity \/ MatchFails \/ CloseStarted
    \/ \E p \in Player : FindLobbyPlayerByName(p) \/ PublishLobbyKick(p) \/ Evict(p)

CleanupExpiredLobbies ==
    \/ LobbiesForGame \/ ListPlayers \/ DeleteStale
    \/ \E p \in Player : IsLobbyPlayerAlive(p) \/ RemoveExpired(p)

Next ==
    \/ HostLobby \/ runHostCommand \/ CleanupExpiredLobbies
    \/ \E p \in Player :
          JoinLobby(p) \/ runLobbySession(p) \/ Leave(p) \/ Dequeue(p) \/ ExpireKey(p) \/ Crash(p)

Spec == Init /\ [][Next]_vars

(***************************************************************************)
(* Fairness: sessions and commands that have begun go on, keys expire and  *)
(* the worker's sweeps keep coming.  Nobody has to join, start or leave.   *)
(***************************************************************************)
Fairness ==
    /\ \A p \in Player :
          WF_vars(AddLobbyPlayerWithCap(p)) /\ WF_vars(runLobbySession(p)) /\ WF_vars(ExpireKey(p))
    /\ WF_vars(AddLobbyPlayer) /\ WF_vars(CloseLobby)
    /\ WF_vars(command # NoCommand /\ runHostCommand)
    /\ WF_vars(CleanupExpiredLobbies)

FairSpec == Spec /\ Fairness

-----------------------------------------------------------------------------
\* Every variable has its type, and a command runs inside its host's session.
TypeOK ==
    /\ record \in BOOLEAN
    /\ members \subseteq Player /\ alive \subseteq Player
    /\ session \in [Player -> {"out", "found", "added", "on", "leaving", "closing"}]
    /\ heard \subseteq Player
    /\ command \in [at: {"none", "kick", "evict", "start", "close"}, who: SUBSET Player]
    /\ sweep \in [at: {"idle", "list", "check", "remove"}, todo: SUBSET Player,
                  hostAlive: BOOLEAN, dead: SUBSET Player]
    /\ queued \subseteq Player
    /\ hosted \in BOOLEAN
    /\ died \subseteq Player
    /\ early \in BOOLEAN
    /\ command # NoCommand => session[Host] = "on"

\* "Lobby capacity is enforced atomically, so two players racing on the last
\* slot can't both succeed": however many join at once, leave, die, are kicked
\* or swept, there are never more members than slots.  The one exception is
\* the host, who is added without a gate and is not player 1 if somebody found
\* the record before.
CapacityRespected ==
    Cardinality(members \ IF early THEN {Host} ELSE {}) <= MaxPlayers

\* Nothing is left behind: whoever is in the hash has a session that will take
\* him out again, or died; and the record has a host, or one who died.
\* Deletions by /start, by the host's departure and by the sweep, late joins
\* and kicks may come in any order.
NothingLeftBehind ==
    /\ \A p \in members : session[p] # "out" \/ p \in died
    /\ record => session[Host] # "out" \/ Host \in died

\* "Host leaves: ... the lobby is torn down - every other connection receives
\* that frame too and the WS will close shortly after": once HostLobby has
\* returned (a host whose machine died never does), who is on goes out.
LeavesWithHost ==
    \A p \in Player :
        hosted /\ session[Host] = "out" /\ Host \notin died /\ session[p] = "on" ~> session[p] = "out"
=============================================================================
