---------------------------- MODULE Services_proofs ----------------------------
(***************************************************************************)
(* Proofs about the components of MCServices: a lobby, the artifacts of a  *)
(* match, a game and its queues, a walk through a listing, and the five    *)
(* of them side by side; the certificate has a module of its own.          *)
(***************************************************************************)
EXTENDS MCServices, WildcardTLS_proofs, DataLemmas

(***************************************************************************)
(* A lobby, for any set of players and any number of slots.  The types, the *)
(* capacity and the traces are proved apart: none of them needs another but *)
(* the types.                                                              *)
(***************************************************************************)
\* Whoever is in the hash is between his entry and his clean-up, or died: one
\* who has only found the lobby, and may be turned away, is not enough.
EntryHasOwner ==
    \A p \in members : session[p] \in {"added", "on", "leaving"} \/ p \in died

RecordHasOwner == record => session[Host] # "out" \/ Host \in died

SafeCapacity == IsFiniteSet(members) /\ CapacityRespected

-----------------------------------------------------------------------------
\* A step only shrinks the hash, or one player enters it.
LEMMA MembersChange ==
    ASSUME TypeOK, Next
    PROVE  \/ members' \subseteq members /\ UNCHANGED early
           \/ AddLobbyPlayer
           \/ \E p \in Player \ {Host} :
                 ~Full /\ members' = members \cup {p} /\ UNCHANGED early
<1> USE DEF redis, RemoveLobbyPlayer, DeleteLobby, Hears, Enter, Order
<1>1. CASE HostLobby
  BY <1>1 DEF HostLobby, CreateLobby, CloseLobby
<1>2. CASE runHostCommand
  BY <1>2 DEF runHostCommand, LobbyPlayers, MatchStarts, AtCapacity, MatchFails, CloseStarted,
     FindLobbyPlayerByName, PublishLobbyKick, Evict
<1>3. CASE CleanupExpiredLobbies
  BY <1>3 DEF CleanupExpiredLobbies, LobbiesForGame, ListPlayers, DeleteStale, IsLobbyPlayerAlive,
     RemoveExpired
<1>4. ASSUME NEW p \in Player, JoinLobby(p)
      PROVE  \/ members' \subseteq members /\ UNCHANGED early
             \/ p # Host /\ ~Full /\ members' = members \cup {p} /\ UNCHANGED early
  BY <1>4 DEF JoinLobby, GetLobby, AddLobbyPlayerWithCap
<1>5. ASSUME NEW p \in Player,
             runLobbySession(p) \/ Leave(p) \/ Dequeue(p) \/ ExpireKey(p) \/ Crash(p)
      PROVE  members' \subseteq members /\ UNCHANGED early
  BY <1>5 DEF runLobbySession, openLobbySubs, HearAndLeave, CleanUp, Leave, Dequeue, ExpireKey, Crash
<1>. QED  BY <1>1, <1>2, <1>3, <1>4, <1>5 DEF Next

-----------------------------------------------------------------------------
\* Types: one step per part of Next.
LEMMA TypeInit == Init => TypeOK
<1> SUFFICES ASSUME Init PROVE TypeOK
  OBVIOUS
<1>1. NoCommand \in [at: {"none", "kick", "evict", "start", "close"}, who: SUBSET Player]
  BY DEF NoCommand
<1>2. NoSweep \in [at: {"idle", "list", "check", "remove"}, todo: SUBSET Player,
                   hostAlive: BOOLEAN, dead: SUBSET Player]
  BY DEF NoSweep
<1>3. session \in [Player -> {"out", "found", "added", "on", "leaving", "closing"}]
  BY DEF Init
<1>. QED  BY <1>1, <1>2, <1>3 DEF Init, TypeOK

LEMMA TypeStep == TypeOK /\ [Next]_vars => TypeOK'
<1> SUFFICES ASSUME TypeOK, [Next]_vars PROVE TypeOK'
  OBVIOUS
<1> USE LobbyAssumption DEF TypeOK, redis, RemoveLobbyPlayer, DeleteLobby, Hears, Enter, Order,
    NoCommand, NoSweep
<1>1. CASE HostLobby
  <2>1. CASE CreateLobby      BY <2>1 DEF CreateLobby
  <2>2. CASE AddLobbyPlayer   BY <2>2 DEF AddLobbyPlayer
  <2>3. CASE CloseLobby       BY <2>3 DEF CloseLobby
  <2>. QED  BY <1>1, <2>1, <2>2, <2>3 DEF HostLobby
<1>2. CASE runHostCommand
  <2>1. CASE LobbyPlayers     BY <2>1 DEF LobbyPlayers, Listening
  <2>2. CASE MatchStarts      BY <2>2 DEF MatchStarts
  <2>3. CASE AtCapacity       BY <2>3 DEF AtCapacity
  <2>4. CASE MatchFails       BY <2>4 DEF MatchFails
  <2>5. CASE CloseStarted     BY <2>5 DEF CloseStarted
  <2>6. ASSUME NEW p \in Player, FindLobbyPlayerByName(p) PROVE TypeOK'
    BY <2>6 DEF FindLobbyPlayerByName, Listening
  <2>7. ASSUME NEW p \in Player, PublishLobbyKick(p) PROVE TypeOK'
    BY <2>7 DEF PublishLobbyKick
  <2>8. ASSUME NEW p \in Player, Evict(p) PROVE TypeOK'
    BY <2>8 DEF Evict
  <2>. QED  BY <1>2, <2>1, <2>2, <2>3, <2>4, <2>5, <2>6, <2>7, <2>8 DEF runHostCommand
<1>3. CASE CleanupExpiredLobbies
  <2>1. CASE LobbiesForGame   BY <2>1 DEF LobbiesForGame
  <2>2. CASE ListPlayers      BY <2>2 DEF ListPlayers
  <2>3. CASE DeleteStale      BY <2>3 DEF DeleteStale
  <2>4. ASSUME NEW p \in Player, IsLobbyPlayerAlive(p) PROVE TypeOK'
    BY <2>4 DEF IsLobbyPlayerAlive
  <2>5. ASSUME NEW p \in Player, RemoveExpired(p) PROVE TypeOK'
    BY <2>5 DEF RemoveExpired
  <2>. QED  BY <1>3, <2>1, <2>2, <2>3, <2>4, <2>5 DEF CleanupExpiredLobbies
<1>4. ASSUME NEW p \in Player, JoinLobby(p) PROVE TypeOK'
  <2>1. CASE GetLobby(p)               BY <2>1 DEF GetLobby
  <2>2. CASE AddLobbyPlayerWithCap(p)  BY <2>2 DEF AddLobbyPlayerWithCap
  <2>. QED  BY <1>4, <2>1, <2>2 DEF JoinLobby
<1>5. ASSUME NEW p \in Player, runLobbySession(p) PROVE TypeOK'
  <2>1. CASE openLobbySubs(p)  BY <2>1 DEF openLobbySubs
  <2>2. CASE HearAndLeave(p)   BY <2>2 DEF HearAndLeave, Listening
  <2>3. CASE CleanUp(p)        BY <2>3 DEF CleanUp
  <2>. QED  BY <1>5, <2>1, <2>2, <2>3 DEF runLobbySession
<1>6. ASSUME NEW p \in Player, Leave(p) PROVE TypeOK'
  BY <1>6 DEF Leave, Listening
<1>7. ASSUME NEW p \in Player, Dequeue(p) PROVE TypeOK'
  BY <1>7 DEF Dequeue
<1>8. ASSUME NEW p \in Player, ExpireKey(p) PROVE TypeOK'
  BY <1>8 DEF ExpireKey
<1>9. ASSUME NEW p \in Player, Crash(p) PROVE TypeOK'
  BY <1>9 DEF Crash
<1>10. CASE UNCHANGED vars
  BY <1>10 DEF vars
<1>. QED  BY <1>1, <1>2, <1>3, <1>4, <1>5, <1>6, <1>7, <1>8, <1>9, <1>10 DEF Next

\* Every variable of the lobby keeps its type, and a command of the host's runs
\* inside his session.
THEOREM LobbyTypes == Spec => []TypeOK
  BY TypeInit, TypeStep, PTL DEF Spec

-----------------------------------------------------------------------------
\* Capacity.  A set that loses members stays within the limit.
LEMMA FewerFit ==
    ASSUME NEW S, NEW T, IsFiniteSet(S), T \subseteq S, Cardinality(S) <= MaxPlayers
    PROVE  IsFiniteSet(T) /\ Cardinality(T) <= MaxPlayers
<1>1. IsFiniteSet(T) /\ Cardinality(T) <= Cardinality(S)
  BY FS_Subset
<1>2. Cardinality(S) \in Nat /\ Cardinality(T) \in Nat
  BY <1>1, FS_CardinalityType
<1>. QED  BY <1>1, <1>2, LobbyAssumption

LEMMA CapacityStep == TypeOK /\ SafeCapacity /\ [Next]_vars => SafeCapacity'
<1> SUFFICES ASSUME TypeOK, SafeCapacity, [Next]_vars PROVE SafeCapacity'
  OBVIOUS
<1>. DEFINE Late == IF early THEN {Host} ELSE {}
<1>0. /\ IsFiniteSet(members) /\ Cardinality(members \ Late) <= MaxPlayers
      /\ Cardinality(members) \in Nat /\ MaxPlayers \in Nat \ {0} /\ Host \in Player
  BY FS_CardinalityType, LobbyAssumption DEF SafeCapacity, CapacityRespected
<1>1. CASE members' \subseteq members /\ UNCHANGED early
  <2>1. IsFiniteSet(members \ Late) /\ IsFiniteSet(members')
    BY <1>0, <1>1, FS_Subset
  <2>2. members' \ Late' \subseteq members \ Late
    BY <1>1
  <2>3. Cardinality(members' \ Late') <= MaxPlayers
    BY <1>0, <2>1, <2>2, FewerFit
  <2>. QED  BY <2>1, <2>3 DEF SafeCapacity, CapacityRespected
<1>2. CASE AddLobbyPlayer
  <2>1. early' = (members # {}) /\ members' = members \cup {Host}
    BY <1>2 DEF AddLobbyPlayer
  <2>2. IsFiniteSet(members')
    BY <1>0, <2>1, FS_AddElement
  <2>3. CASE members = {}
    <3>1. members' \ Late' = {Host}
      BY <2>1, <2>3
    <3>2. Cardinality({Host}) = 1
      BY FS_Singleton
    <3>. QED  BY <1>0, <2>2, <3>1, <3>2 DEF SafeCapacity, CapacityRespected
  <2>4. CASE members # {}
    <3>1. members' \ Late' \subseteq members \ Late
      BY <2>1, <2>4
    <3>2. IsFiniteSet(members \ Late)
      BY <1>0, FS_Subset
    <3>3. Cardinality(members' \ Late') <= MaxPlayers
      BY <1>0, <3>1, <3>2, FewerFit
    <3>. QED  BY <2>2, <3>3 DEF SafeCapacity, CapacityRespected
  <2>. QED  BY <2>3, <2>4
<1>3. ASSUME NEW p \in Player \ {Host},
             ~Full, members' = members \cup {p}, UNCHANGED early
      PROVE  SafeCapacity'
  <2>1. Cardinality(members) < MaxPlayers
    BY <1>0, <1>3 DEF Full
  <2>2. IsFiniteSet(members') /\ Cardinality(members') <= Cardinality(members) + 1
    BY <1>0, <1>3, FS_AddElement
  <2>3. Cardinality(members') \in Nat
    BY <2>2, FS_CardinalityType
  <2>4. Cardinality(members') <= MaxPlayers
    BY <1>0, <2>1, <2>2, <2>3
  <2>5. Cardinality(members' \ Late') <= MaxPlayers
    BY <2>2, <2>4, FewerFit
  <2>. QED  BY <2>2, <2>5 DEF SafeCapacity, CapacityRespected
<1>4. CASE UNCHANGED vars
  BY <1>4, <1>1 DEF vars, redis
<1>. QED  BY <1>1, <1>2, <1>3, <1>4, MembersChange

\* The lobby is never overfull, except by a host who was added after somebody
\* had joined: the script that compares and adds in one step is enough, whatever
\* kicks, sweeps, deletions and departures run between the other commands.
THEOREM CapacityIsRespected == Spec => []CapacityRespected
<1>1. Init => SafeCapacity
  BY FS_EmptySet, LobbyAssumption DEF Init, SafeCapacity, CapacityRespected
<1>2. SafeCapacity => CapacityRespected
  BY DEF SafeCapacity
<1>. QED  BY <1>1, <1>2, CapacityStep, LobbyTypes, PTL DEF Spec

-----------------------------------------------------------------------------
\* Traces.  The two halves of NothingLeftBehind are inductive once the first says
\* how far the session has come.
Traces == EntryHasOwner /\ RecordHasOwner

LEMMA TracesStep == TypeOK /\ Traces /\ [Next]_vars => Traces'
<1> SUFFICES ASSUME TypeOK, Traces, [Next]_vars PROVE Traces'
  OBVIOUS
<1> USE LobbyAssumption DEF TypeOK, Traces, EntryHasOwner, RecordHasOwner, redis, Enter,
    RemoveLobbyPlayer, DeleteLobby
<1>1. CASE HostLobby
  <2>1. CASE CreateLobby      BY <2>1 DEF CreateLobby
  <2>2. CASE AddLobbyPlayer   BY <2>2 DEF AddLobbyPlayer
  <2>3. CASE CloseLobby       BY <2>3 DEF CloseLobby
  <2>. QED  BY <1>1, <2>1, <2>2, <2>3 DEF HostLobby
<1>2. ASSUME members' \subseteq members, record' \in {record, FALSE}, UNCHANGED <<session, died>>
      PROVE  Traces'
  <2>1. CASE record' = record
    BY <1>2, <2>1
  <2>2. CASE record' = FALSE
    BY <1>2, <2>2
  <2>. QED  BY <1>2, <2>1, <2>2
<1>3. CASE runHostCommand
  <2>1. members' \subseteq members /\ record' \in {record, FALSE} /\ UNCHANGED <<session, died>>
    BY <1>3 DEF runHostCommand, LobbyPlayers, MatchStarts, AtCapacity, MatchFails, CloseStarted,
       FindLobbyPlayerByName, PublishLobbyKick, Evict
  <2>. QED  BY <1>2, <2>1
<1>4. CASE CleanupExpiredLobbies
  <2>1. members' \subseteq members /\ record' \in {record, FALSE} /\ UNCHANGED <<session, died>>
    BY <1>4 DEF CleanupExpiredLobbies, LobbiesForGame, ListPlayers, DeleteStale, IsLobbyPlayerAlive,
       RemoveExpired
  <2>. QED  BY <1>2, <2>1
<1>5. ASSUME NEW p \in Player, JoinLobby(p) PROVE Traces'
  <2>1. CASE GetLobby(p)
    BY <2>1 DEF GetLobby
  <2>2. CASE AddLobbyPlayerWithCap(p)
    BY <2>2 DEF AddLobbyPlayerWithCap
  <2>. QED  BY <1>5, <2>1, <2>2 DEF JoinLobby
<1>6. ASSUME NEW p \in Player, runLobbySession(p) PROVE Traces'
  <2>1. CASE openLobbySubs(p)  BY <2>1 DEF openLobbySubs
  <2>2. CASE HearAndLeave(p)   BY <2>2 DEF HearAndLeave, Listening
  <2>3. CASE CleanUp(p)        BY <2>3 DEF CleanUp
  <2>. QED  BY <1>6, <2>1, <2>2, <2>3 DEF runLobbySession
<1>7. ASSUME NEW p \in Player, Leave(p) PROVE Traces'
  BY <1>7 DEF Leave, Listening
<1>8. ASSUME NEW p \in Player, Dequeue(p) \/ ExpireKey(p) PROVE Traces'
  <2>1. UNCHANGED <<members, record, session, died>>
    BY <1>8 DEF Dequeue, ExpireKey
  <2>. QED  BY <1>2, <2>1
<1>9. ASSUME NEW p \in Player, Crash(p) PROVE Traces'
  BY <1>9 DEF Crash
<1>10. CASE UNCHANGED vars
  BY <1>2, <1>10 DEF vars
<1>. QED  BY <1>1, <1>3, <1>4, <1>5, <1>6, <1>7, <1>8, <1>9, <1>10 DEF Next

\* Whoever is in the hash, and the record itself, have a session that will take
\* them out, or one that died: no order of deletions, late joins, kicks and
\* sweeps strands an entry whose session ended in order.
THEOREM NothingIsLeftBehind == Spec => []NothingLeftBehind
<1>1. Init => Traces
  BY DEF Init, Traces, EntryHasOwner, RecordHasOwner
<1>2. TypeOK /\ Traces => NothingLeftBehind
  BY LobbyAssumption DEF TypeOK, Traces, EntryHasOwner, RecordHasOwner, NothingLeftBehind
<1>. QED  BY <1>1, <1>2, TracesStep, LobbyTypes, PTL DEF Spec

(***************************************************************************)
(* The artifacts of one match, for any requests, names, cap and faults.    *)
(***************************************************************************)
UploadStep == {"idle", "cap", "put", "read", "write", "ok", "refused"}
Upload == [step: UploadStep, name: Name, read: Index, givenUp: BOOLEAN]
Held == {n \in Name : object[n] # Nobody}

\* What the listings are made from never names more than is stored, and neither
\* does any copy of it that is in somebody's hands; one who is past his PUT has
\* stored an object under his own name.
CopiesHeld ==
    /\ Listed(index) \subseteq Held
    /\ \A u \in Request : Listed(upload[u].read) \subseteq Held
    /\ \A u \in Request : upload[u].step \in {"read", "write"} => upload[u].name \in Held
    /\ teardown.names \subseteq Held
    /\ final.names \subseteq Held

\* A key is known only of logs that were stored.
LogsHeld == (teardown.logs => logObject) /\ (final.logs => logObject)

\* A result has names only when the teardown is complete.
NamesAtTheEnd == final.names # {} => row = "deleted"

ArtifactInv == ArtifactTypeOK /\ CopiesHeld /\ LogsHeld /\ NamesAtTheEnd

-----------------------------------------------------------------------------
\* The empty index.
LEMMA NoIndexType == NoIndex \in Index /\ Listed(NoIndex) = {}
  BY DEF NoIndex, Index, Listed

\* Types, in the initial state.
LEMMA ArtifactTypeInit == ArtifactInit => ArtifactTypeOK
<1> SUFFICES ASSUME ArtifactInit PROVE ArtifactTypeOK
  OBVIOUS
<1>1. upload \in [Request -> Upload]
  BY NoIndexType DEF ArtifactInit, Upload, UploadStep
<1>2. teardown \in [step: {"idle", "logs", "index", "stop", "finalize", "done"}, names: SUBSET Name,
                    known: BOOLEAN, logs: BOOLEAN]
  BY DEF ArtifactInit
<1>3. final \in [names: SUBSET Name, logs: BOOLEAN]
  BY DEF ArtifactInit
<1>. QED  BY <1>1, <1>2, <1>3, NoIndexType DEF ArtifactInit, ArtifactTypeOK, Upload, UploadStep

Hangup(u, s) == [upload EXCEPT ![u].givenUp = TRUE, ![u].step = s]

\* A request's record keeps its type when its fields change, and so does the
\* teardown's.
LEMMA UploadUpdates ==
    ASSUME ArtifactTypeOK, NEW u \in Request, NEW s \in UploadStep, NEW ix \in Index
    PROVE  /\ [upload EXCEPT ![u].step = s] \in [Request -> Upload]
           /\ [upload EXCEPT ![u].step = s, ![u].read = ix] \in [Request -> Upload]
           /\ Hangup(u, s) \in [Request -> Upload]
<1>1. upload \in [Request -> Upload]
  BY DEF ArtifactTypeOK, Upload, UploadStep
<1>2. upload[u] \in Upload
  BY <1>1
<1>3. /\ [upload[u] EXCEPT !.step = s] \in Upload
      /\ [upload[u] EXCEPT !.step = s, !.read = ix] \in Upload
      /\ [upload[u] EXCEPT !.givenUp = TRUE, !.step = s] \in Upload
  BY <1>2 DEF Upload
<1>. QED  BY <1>1, <1>3 DEF Hangup

\* The steps of a request.
LEMMA UploadTypes ==
    ASSUME ArtifactTypeOK, NEW u \in Request,
           \/ UploadMatchArtifact(u) \/ CheckArtifactCap(u) \/ PutArtifactObject(u) \/ ReadArtifactIndex(u)
           \/ WriteArtifactIndex(u) \/ GiveUp(u) \/ RequestFails(u)
    PROVE  /\ upload' \in [Request -> Upload] /\ object' \in Index /\ index' \in Index
           /\ garbled' \in BOOLEAN /\ disturbed' \subseteq Request
           /\ UNCHANGED matchVars
<1> USE DEF matchVars, bucket
<1>1. /\ {"cap", "put", "read", "write", "ok", "refused"} \subseteq UploadStep
      /\ index \in Index
      /\ object \in Index
      /\ upload[u].read \in Index
      /\ upload[u].name \in Name
      /\ upload[u].step \in UploadStep
      /\ garbled \in BOOLEAN /\ disturbed \subseteq Request /\ Beside(u) \subseteq Request
  BY DEF UploadStep, ArtifactTypeOK, Beside, Pending
<1>2. CASE UploadMatchArtifact(u)
  <2>1. PICK s \in UploadStep : upload' = [upload EXCEPT ![u].step = s]
    BY <1>1, <1>2 DEF UploadMatchArtifact, To
  <2>2. UNCHANGED <<matchVars, bucket>> /\ disturbed' \subseteq Request
    BY <1>1, <1>2 DEF UploadMatchArtifact
  <2>. QED  BY <1>1, <2>1, <2>2, UploadUpdates
<1>3. CASE CheckArtifactCap(u)
  BY <1>1, <1>3, UploadUpdates DEF CheckArtifactCap, To
<1>4. CASE PutArtifactObject(u)
  <2>1. object' \in Index /\ index' \in Index
    BY <1>1, <1>4, NoIndexType DEF PutArtifactObject, ObjectPut, Index
  <2>2. PICK s \in UploadStep : upload' = [upload EXCEPT ![u].step = s]
    BY <1>1, <1>4 DEF PutArtifactObject, To, Then
  <2>. QED  BY <1>1, <1>4, <2>1, <2>2, UploadUpdates DEF PutArtifactObject
<1>5. CASE ReadArtifactIndex(u)
  BY <1>1, <1>5, UploadUpdates DEF ReadArtifactIndex, IndexRead
<1>6. CASE WriteArtifactIndex(u)
  <2>1. index' \in Index
    BY <1>1, <1>6 DEF WriteArtifactIndex, Index
  <2>2. PICK s \in UploadStep : upload' = [upload EXCEPT ![u].step = s, ![u].read = NoIndex]
    BY <1>1, <1>6 DEF WriteArtifactIndex, Then
  <2>. QED  BY <1>1, <1>6, <2>1, <2>2, UploadUpdates, NoIndexType DEF WriteArtifactIndex
<1>7. CASE GiveUp(u)
  <2>1. PICK s \in UploadStep : upload' = Hangup(u, s)
    <3> DEFINE t == IF upload[u].step \in {"cap", "read"} THEN "refused" ELSE upload[u].step
    <3>1. t \in UploadStep
      BY <1>1
    <3>2. upload' = Hangup(u, t)
      BY <1>7 DEF GiveUp, Hangup
    <3>. HIDE DEF t
    <3>. QED  BY <3>1, <3>2
  <2>2. UNCHANGED <<matchVars, bucket, disturbed>>
    BY <1>7 DEF GiveUp
  <2>3. upload' \in [Request -> Upload]
    BY <2>1, UploadUpdates, NoIndexType
  <2>. QED  BY <1>1, <2>2, <2>3
<1>8. CASE RequestFails(u)
  BY <1>1, <1>8, UploadUpdates, NoIndexType DEF RequestFails
<1>. QED  BY <1>2, <1>3, <1>4, <1>5, <1>6, <1>7, <1>8

\* The steps of the teardown, and the report before it.
LEMMA TeardownTypes ==
    ASSUME ArtifactTypeOK,
           ResultReported \/ ClaimCooled \/ SaveMatchLogs \/ ReadFinalIndex \/ StopGameContainer \/ FinalizeResult
    PROVE  ArtifactTypeOK'
<1> DEFINE Teardown == [step: {"idle", "logs", "index", "stop", "finalize", "done"}, names: SUBSET Name,
                        known: BOOLEAN, logs: BOOLEAN]
<1>1. /\ teardown \in Teardown
      /\ final \in [names: SUBSET Name, logs: BOOLEAN]
      /\ row \in {"started", "cooldown", "deleted"} /\ container \in BOOLEAN /\ prompt \subseteq Request
      /\ logObject \in BOOLEAN
      /\ Listed(index) \subseteq Name
  BY DEF ArtifactTypeOK, Listed
<1>2. /\ teardown' \in Teardown
      /\ final' \in [names: SUBSET Name, logs: BOOLEAN]
      /\ row' \in {"started", "cooldown", "deleted"} /\ container' \in BOOLEAN /\ prompt' \subseteq Request
      /\ logObject' \in BOOLEAN
  <2>1. CASE ResultReported
    BY <1>1, <2>1 DEF ResultReported
  <2>2. CASE ClaimCooled
    BY <1>1, <2>2 DEF ClaimCooled, Acknowledged
  <2>3. CASE SaveMatchLogs
    <3>1. PICK read \in BOOLEAN, fails \in BOOLEAN :
            /\ teardown' = [teardown EXCEPT !.step = "index", !.logs = read /\ ~fails]
            /\ IF read THEN UploadLogs(~fails) ELSE UNCHANGED logObject
      BY <1>1, <2>3 DEF SaveMatchLogs, ContainerLogs
    <3>2. teardown' \in Teardown
      <4>1. (read /\ ~fails) \in BOOLEAN
        OBVIOUS
      <4>. HIDE <3>1
      <4>2. \A b \in BOOLEAN : [teardown EXCEPT !.step = "index", !.logs = b] \in Teardown
        BY <1>1
      <4>. QED  BY <3>1, <4>1, <4>2, Zenon
    <3>3. logObject' \in BOOLEAN
      BY <1>1, <3>1 DEF UploadLogs
    <3>. QED  BY <1>1, <2>3, <3>2, <3>3 DEF SaveMatchLogs
  <2>4. CASE ReadFinalIndex
    <3>1. /\ [teardown EXCEPT !.step = "stop", !.names = Listed(index), !.known = TRUE] \in Teardown
          /\ [teardown EXCEPT !.step = "stop"] \in Teardown
      BY <1>1
    <3>. QED  BY <1>1, <2>4, <3>1, Zenon DEF ReadFinalIndex
  <2>5. CASE StopGameContainer
    <3>1. \A s \in {"idle", "finalize"} : [teardown EXCEPT !.step = s] \in Teardown
      BY <1>1
    <3>2. teardown' \in Teardown
      BY <2>5, <3>1 DEF StopGameContainer
    <3>. QED  BY <1>1, <2>5, <3>2 DEF StopGameContainer
  <2>6. CASE FinalizeResult
    <3>1. [teardown EXCEPT !.step = "done"] \in Teardown
      BY <1>1
    <3>2. FinalNames \subseteq Name
      BY <1>1 DEF FinalNames
    <3>3. (teardown.logs \/ final.logs) \in BOOLEAN
      OBVIOUS
    <3>4. final' \in [names: SUBSET Name, logs: BOOLEAN]
      <4>1. \A b \in BOOLEAN : [names |-> FinalNames, logs |-> b] \in [names: SUBSET Name, logs: BOOLEAN]
        BY <3>2
      <4>. QED  BY <2>6, <3>3, <4>1, Zenon DEF FinalizeResult
    <3>. QED  BY <1>1, <2>6, <3>1, <3>4 DEF FinalizeResult
  <2>. QED  BY <2>1, <2>2, <2>3, <2>4, <2>5, <2>6
<1>3. UNCHANGED <<upload, object, index, garbled, disturbed>>
  BY DEF ResultReported, ClaimCooled, SaveMatchLogs, ReadFinalIndex, StopGameContainer, FinalizeResult, bucket
<1>. QED  BY <1>2, <1>3 DEF ArtifactTypeOK

\* Each action keeps the types.
LEMMA ArtifactTypeStep == ArtifactTypeOK /\ [ArtifactNext]_artifactVars => ArtifactTypeOK'
<1> SUFFICES ASSUME ArtifactTypeOK, [ArtifactNext]_artifactVars PROVE ArtifactTypeOK'
  OBVIOUS
<1>1. CASE UNCHANGED artifactVars
  BY <1>1 DEF artifactVars, matchVars, bucket, ArtifactTypeOK
<1>2. ASSUME NEW u \in Request,
             \/ UploadMatchArtifact(u) \/ CheckArtifactCap(u) \/ PutArtifactObject(u) \/ ReadArtifactIndex(u)
             \/ WriteArtifactIndex(u) \/ GiveUp(u) \/ RequestFails(u)
      PROVE  ArtifactTypeOK'
  BY <1>2, UploadTypes DEF ArtifactTypeOK, matchVars, Upload, UploadStep
<1>. QED  BY <1>1, <1>2, TeardownTypes DEF ArtifactNext

-----------------------------------------------------------------------------
\* An object is replaced, never removed, and the copies are taken from what is
\* held: one step per action that writes the bucket or takes a copy.
LEMMA HeldGrows ==
    ASSUME ArtifactTypeOK, [ArtifactNext]_artifactVars
    PROVE  Held \subseteq Held'
<1>1. \A u \in Request : ObjectPut(u) \in Index /\ \A n \in Name : object[n] # Nobody => ObjectPut(u)[n] # Nobody
  BY ArtifactAssumption DEF ObjectPut, Index, ArtifactTypeOK
<1>. QED
  BY <1>1 DEF ArtifactNext, artifactVars, matchVars, bucket, UploadMatchArtifact, CheckArtifactCap,
     PutArtifactObject, ReadArtifactIndex, WriteArtifactIndex, GiveUp, RequestFails, ResultReported,
     ClaimCooled, SaveMatchLogs, ReadFinalIndex, StopGameContainer, FinalizeResult, Held

\* What is listed, read or handed over is stored.
LEMMA CopiesStep ==
    ASSUME ArtifactTypeOK, CopiesHeld, [ArtifactNext]_artifactVars
    PROVE  CopiesHeld'
<1> USE HeldGrows DEF CopiesHeld
<1>1. CASE UNCHANGED artifactVars
  BY <1>1 DEF artifactVars, matchVars, bucket, Listed, Held
<1>2. ASSUME NEW u \in Request,
             \/ UploadMatchArtifact(u) \/ CheckArtifactCap(u) \/ PutArtifactObject(u) \/ ReadArtifactIndex(u)
             \/ WriteArtifactIndex(u) \/ GiveUp(u) \/ RequestFails(u)
      PROVE  CopiesHeld'
  <2> USE DEF To, Then, matchVars, bucket, Listed, Held
  <2>1. CASE UploadMatchArtifact(u)  BY <2>1 DEF UploadMatchArtifact, ArtifactTypeOK
  <2>2. CASE CheckArtifactCap(u)     BY <2>2 DEF CheckArtifactCap, ArtifactTypeOK
  <2>3. CASE PutArtifactObject(u)
    <3>1. object'[upload[u].name] # Nobody /\ upload[u].name \in Name
      BY <2>3, ArtifactAssumption DEF PutArtifactObject, ObjectPut, ArtifactTypeOK, Index
    <3>2. Listed(index)' \subseteq Held
      BY <2>3, NoIndexType DEF PutArtifactObject
    <3>3. /\ \A w \in Request : upload'[w].name = upload[w].name /\ upload'[w].read = upload[w].read
          /\ \A w \in Request : w # u => upload'[w].step = upload[w].step
          /\ UNCHANGED matchVars
      BY <2>3 DEF PutArtifactObject, ArtifactTypeOK
    <3>. QED  BY <3>1, <3>2, <3>3
  <2>4. CASE ReadArtifactIndex(u)    BY <2>4 DEF ReadArtifactIndex, IndexRead, ArtifactTypeOK
  <2>5. CASE WriteArtifactIndex(u)
    BY <2>5, NoIndexType DEF WriteArtifactIndex, ArtifactTypeOK, Index
  <2>6. CASE GiveUp(u)               BY <2>6 DEF GiveUp, ArtifactTypeOK
  <2>7. CASE RequestFails(u)         BY <2>7, NoIndexType DEF RequestFails, ArtifactTypeOK
  <2>. QED  BY <1>2, <2>1, <2>2, <2>3, <2>4, <2>5, <2>6, <2>7
<1>3. ASSUME UNCHANGED <<upload, bucket>>, teardown'.names \subseteq Held, final'.names \subseteq Held
      PROVE  CopiesHeld'
  BY <1>3 DEF bucket, Listed, Held
<1>4. CASE ResultReported
  BY <1>3, <1>4 DEF ResultReported
<1>5. CASE ClaimCooled
  BY <1>3, <1>5 DEF ClaimCooled
<1>6. CASE SaveMatchLogs
  <2>1. teardown'.names = teardown.names
    BY <1>6 DEF SaveMatchLogs, ArtifactTypeOK
  <2>. QED  BY <1>3, <1>6, <2>1 DEF SaveMatchLogs
<1>7. CASE ReadFinalIndex
  <2>1. teardown'.names \in {teardown.names, Listed(index)}
    BY <1>7 DEF ReadFinalIndex, ArtifactTypeOK
  <2>. QED  BY <1>3, <1>7, <2>1 DEF ReadFinalIndex
<1>8. CASE StopGameContainer
  <2>1. PICK s \in {"idle", "finalize"} : teardown' = [teardown EXCEPT !.step = s]
    BY <1>8 DEF StopGameContainer
  <2>2. teardown'.names = teardown.names
    BY <2>1 DEF ArtifactTypeOK
  <2>. QED  BY <1>3, <1>8, <2>2 DEF StopGameContainer
<1>9. CASE FinalizeResult
  <2>1. teardown'.names = teardown.names /\ final'.names \in {teardown.names, final.names}
    BY <1>9 DEF FinalizeResult, FinalNames, ArtifactTypeOK
  <2>. QED  BY <1>3, <1>9, <2>1 DEF FinalizeResult
<1>. QED  BY <1>1, <1>2, <1>4, <1>5, <1>6, <1>7, <1>8, <1>9 DEF ArtifactNext

\* The logs' object outlives every attempt, and its key is taken only from an
\* upload that succeeded.
LEMMA LogsStep ==
    ASSUME ArtifactTypeOK, LogsHeld, NamesAtTheEnd, [ArtifactNext]_artifactVars
    PROVE  LogsHeld' /\ NamesAtTheEnd'
<1> USE DEF LogsHeld, NamesAtTheEnd
<1>1. CASE UNCHANGED matchVars
  BY <1>1 DEF matchVars
<1>2. CASE ResultReported
  BY <1>2 DEF ResultReported
<1>3. CASE ClaimCooled
  BY <1>3 DEF ClaimCooled
<1>4. CASE SaveMatchLogs
  <2>1. PICK read \in BOOLEAN, fails \in BOOLEAN :
           /\ teardown' = [teardown EXCEPT !.step = "index", !.logs = read /\ ~fails]
           /\ IF read THEN UploadLogs(~fails) ELSE UNCHANGED logObject
    BY <1>4 DEF SaveMatchLogs, ContainerLogs, ArtifactTypeOK
  <2>2. teardown'.logs => read /\ ~fails
    BY <2>1 DEF ArtifactTypeOK
  <2>3. logObject => logObject'
    BY <2>1 DEF UploadLogs
  <2>4. read /\ ~fails => logObject'
    BY <2>1 DEF UploadLogs
  <2>. QED  BY <1>4, <2>2, <2>3, <2>4 DEF SaveMatchLogs
<1>5. CASE ReadFinalIndex
  BY <1>5 DEF ReadFinalIndex, ArtifactTypeOK
<1>6. CASE StopGameContainer
  BY <1>6 DEF StopGameContainer, ArtifactTypeOK
<1>7. CASE FinalizeResult
  <2>1. final'.logs => teardown.logs \/ final.logs
    BY <1>7 DEF FinalizeResult
  <2>2. teardown'.logs => teardown.logs
    BY <1>7 DEF FinalizeResult, ArtifactTypeOK
  <2>. QED  BY <1>7, <2>1, <2>2 DEF FinalizeResult
<1>8. ASSUME NEW u \in Request,
             \/ UploadMatchArtifact(u) \/ CheckArtifactCap(u) \/ PutArtifactObject(u) \/ ReadArtifactIndex(u)
             \/ WriteArtifactIndex(u) \/ GiveUp(u) \/ RequestFails(u)
      PROVE  UNCHANGED matchVars
  BY <1>8 DEF UploadMatchArtifact, CheckArtifactCap, PutArtifactObject, ReadArtifactIndex, WriteArtifactIndex,
     GiveUp, RequestFails
<1>. QED  BY <1>1, <1>2, <1>3, <1>4, <1>5, <1>6, <1>7, <1>8 DEF ArtifactNext, artifactVars

-----------------------------------------------------------------------------
\* Requests that are under way at the same time are disturbed.
Lone == \A u, w \in Pending : u = w \/ (u \in disturbed /\ w \in disturbed)

\* What u wrote is there, and in every copy of the index that will be written
\* back; who has the bytes under its name replaced comes to the index later.
Stands(u) ==
    LET n == upload[u].name
        Has(ix) == ix[n] # Nobody /\ (object[n] = u => ix[n] = u)
    IN  /\ Has(index)
        /\ \A w \in Request : upload[w].step = "write" => Has(upload[w].read)
        /\ \A w \in Request : upload[w].step \in {"read", "write"} /\ upload[w].name = n => object[n] # u
AcknowledgedStand == \A u \in Acknowledged \ disturbed : Stands(u)

\* Until somebody is disturbed, who was granted room still has it, and who read
\* the index has it as it is.
InHand(u) ==
    /\ upload[u].step = "write" => upload[u].read = index
    /\ upload[u].step \in {"put", "read", "write"} => FitsCap(u)
Capped == IsFiniteSet(Listed(index)) /\ Cardinality(Listed(index)) <= MaxArtifacts
RoomKept == disturbed = {} => Capped /\ \A u \in Request : InHand(u)

KeptInv == Lone /\ AcknowledgedStand /\ RoomKept

\* What the teardown knows: its list has whatever was acknowledged before the
\* claim, and the result took it over.
PromptNamed(names) == \A u \in prompt \ disturbed : upload[u].name \in names
PromptKnown ==
    /\ prompt \subseteq Acknowledged
    /\ row = "deleted" => teardown.step = "done"
    /\ teardown.known => PromptNamed(teardown.names)
    /\ teardown.known /\ row = "deleted" => PromptNamed(final.names)

\* A step of the upload u.
Proceeds(u) ==
    \/ UploadMatchArtifact(u) \/ CheckArtifactCap(u) \/ PutArtifactObject(u) \/ ReadArtifactIndex(u)
    \/ WriteArtifactIndex(u) \/ GiveUp(u) \/ RequestFails(u)

\* What an upload's step leaves as it was.
LEMMA OthersStay ==
    ASSUME ArtifactTypeOK, NEW u \in Request, Proceeds(u)
    PROVE  /\ \A w \in Request : w # u => upload'[w] = upload[w]
           /\ upload'[u].name = upload[u].name
           /\ upload[u].step \notin {"ok", "refused"}
           /\ upload[u].step # "idle" \/ UploadMatchArtifact(u)
           /\ disturbed \subseteq disturbed'
           /\ UNCHANGED matchVars
<1>1. upload \in [Request -> Upload] /\ upload[u] \in Upload
  BY DEF ArtifactTypeOK, Upload, UploadStep
<1> USE DEF bucket
<1>2. CASE UploadMatchArtifact(u)  BY <1>1, <1>2 DEF UploadMatchArtifact, To, Upload
<1>3. CASE CheckArtifactCap(u)     BY <1>1, <1>3 DEF CheckArtifactCap, To, Upload
<1>4. CASE PutArtifactObject(u)    BY <1>1, <1>4 DEF PutArtifactObject, To, Upload
<1>5. CASE ReadArtifactIndex(u)    BY <1>1, <1>5 DEF ReadArtifactIndex, Upload
<1>6. CASE WriteArtifactIndex(u)   BY <1>1, <1>6 DEF WriteArtifactIndex, Upload
<1>7. CASE RequestFails(u)         BY <1>1, <1>7 DEF RequestFails, Upload, Answered
<1>8. CASE GiveUp(u)
  <2> DEFINE t == IF upload[u].step \in {"cap", "read"} THEN "refused" ELSE upload[u].step
  <2>1. upload' = Hangup(u, t) /\ ~Answered(u) /\ UNCHANGED <<matchVars, disturbed>>
    BY <1>8 DEF GiveUp, Hangup
  <2>. HIDE DEF t
  <2>2. upload'[u] = [upload[u] EXCEPT !.givenUp = TRUE, !.step = t]
    BY <1>1, <2>1 DEF Hangup
  <2>3. \A w \in Request : w # u => upload'[w] = upload[w]
    BY <1>1, <2>1 DEF Hangup
  <2>4. upload'[u].name = upload[u].name
    BY <1>1, <2>2 DEF Upload
  <2>. QED  BY <2>1, <2>3, <2>4 DEF Answered
<1>. QED  BY <1>2, <1>3, <1>4, <1>5, <1>6, <1>7, <1>8 DEF Proceeds

\* Of the steps that write nothing to the bucket, reading the index is the only
\* one that brings an upload nearer to writing it.
LEMMA Quiet ==
    ASSUME ArtifactTypeOK, NEW u \in Request,
           UploadMatchArtifact(u) \/ CheckArtifactCap(u) \/ GiveUp(u) \/ RequestFails(u)
    PROVE  /\ UNCHANGED bucket
           /\ upload'[u].step # "ok"
           /\ upload'[u].step \in {"read", "write"} =>
                upload'[u].step = upload[u].step /\ upload'[u].read = upload[u].read
           /\ upload'[u].step = "put" => upload[u].step = "put" \/ (CheckArtifactCap(u) /\ FitsCap(u))
<1>1. upload \in [Request -> Upload] /\ upload[u] \in Upload
  BY DEF ArtifactTypeOK, Upload, UploadStep
<1>2. CASE UploadMatchArtifact(u)  BY <1>1, <1>2 DEF UploadMatchArtifact, To, Upload
<1>3. CASE CheckArtifactCap(u)     BY <1>1, <1>3 DEF CheckArtifactCap, To, Upload
<1>4. CASE RequestFails(u)         BY <1>1, <1>4 DEF RequestFails, Upload
<1>5. CASE GiveUp(u)
  <2> DEFINE t == IF upload[u].step \in {"cap", "read"} THEN "refused" ELSE upload[u].step
  <2>1. /\ upload' = Hangup(u, t) /\ ~Answered(u) /\ UNCHANGED bucket
        /\ t # "ok" /\ t # "read" /\ (t \in {"put", "write"} => t = upload[u].step)
    BY <1>5 DEF GiveUp, Hangup, Answered
  <2>. HIDE DEF t
  <2>2. upload'[u] = [upload[u] EXCEPT !.givenUp = TRUE, !.step = t]
    BY <1>1, <2>1 DEF Hangup
  <2>3. upload'[u].step = t /\ upload'[u].read = upload[u].read
    BY <1>1, <2>2 DEF Upload
  <2>. QED  BY <2>1, <2>3
<1>. QED  BY <1>2, <1>3, <1>4, <1>5

\* Who begins beside others is disturbed with them.
LEMMA LoneStep ==
    ASSUME ArtifactTypeOK, Lone, NEW u \in Request, Proceeds(u)
    PROVE  Lone'
<1> SUFFICES ASSUME NEW a \in Pending', NEW b \in Pending', a # b
             PROVE  a \in disturbed' /\ b \in disturbed'
  BY DEF Lone
<1>1. /\ \A w \in Request : w # u => upload'[w] = upload[w]
      /\ upload[u].step \notin {"ok", "refused"}
      /\ upload[u].step # "idle" \/ UploadMatchArtifact(u)
      /\ disturbed \subseteq disturbed'
  BY OthersStay
<1>2. \A w \in Request : w # u => (w \in Pending' <=> w \in Pending)
  BY <1>1 DEF Pending, Answered
<1>3. CASE a \in Pending /\ b \in Pending
  BY <1>1, <1>3 DEF Lone
<1>4. CASE ~(a \in Pending /\ b \in Pending)
  <2>1. u \in {a, b} /\ u \notin Pending
    BY <1>2, <1>4 DEF Pending
  <2>2. upload[u].step = "idle"
    BY <1>1, <2>1 DEF Pending, Answered
  <2>3. upload'[u].step # "refused"
    BY <2>1 DEF Pending, Answered
  <2>4. disturbed' = disturbed \cup Beside(u)
    <3>1. upload \in [Request -> Upload]
      BY DEF ArtifactTypeOK, Upload, UploadStep
    <3>. QED  BY <1>1, <2>2, <2>3, <3>1 DEF UploadMatchArtifact, To, Upload
  <2>5. a \in Pending \/ b \in Pending
    BY <1>2, <2>1 DEF Pending
  <2>6. {a, b} \subseteq Beside(u)
    BY <1>2, <2>1, <2>5 DEF Beside, Pending
  <2>. QED  BY <2>4, <2>6
<1>. QED  BY <1>3, <1>4

\* What was acknowledged stands, whatever another upload does next.
LEMMA StandsStep ==
    ASSUME ArtifactTypeOK, Lone, AcknowledgedStand, NEW u \in Request, Proceeds(u)
    PROVE  AcknowledgedStand'
<1> SUFFICES ASSUME NEW a \in Acknowledged', a \notin disturbed'
             PROVE  Stands(a)'
  BY DEF AcknowledgedStand
<1>1. /\ \A w \in Request : w # u => upload'[w] = upload[w]
      /\ upload'[u].name = upload[u].name
      /\ upload[u].step \notin {"ok", "refused"}
      /\ a \notin disturbed
  BY OthersStay
<1>2. /\ upload \in [Request -> Upload] /\ upload[u] \in Upload /\ upload[u].name \in Name
      /\ upload[u].read \in Index /\ object \in Index /\ index \in Index /\ u # Nobody
      /\ a \in Request /\ upload[a].name \in Name
  BY ArtifactAssumption DEF ArtifactTypeOK, Upload, UploadStep, Acknowledged
<1>. DEFINE n == upload[a].name
<1>3. CASE a = u
  <2>1. WriteArtifactIndex(u) /\ upload'[u].step = "ok"
    <3>1. upload'[u].step = "ok"
      BY <1>3 DEF Acknowledged
    <3>2. ~PutArtifactObject(u) /\ ~ReadArtifactIndex(u)
      BY <1>2, <3>1 DEF PutArtifactObject, ReadArtifactIndex, To, Then, Upload
    <3>. QED  BY <3>1, <3>2, Quiet DEF Proceeds
  <2>2. index' = [upload[u].read EXCEPT ![n] = u] /\ upload[u].step = "write"
    BY <1>3, <2>1 DEF WriteArtifactIndex
  <2>3. index'[n] = u
    BY <1>2, <2>2 DEF Index
  <2>4. \A w \in Request : upload'[w].step \notin {"read", "write"}
    <3>1. u \in Pending
      BY <2>2 DEF Pending, Answered
    <3>2. \A w \in Request : w # u => w \notin Pending
      BY <1>1, <1>3, <3>1 DEF Lone
    <3>. QED  BY <1>1, <2>1, <3>2 DEF Pending, Answered
  <2>. QED  BY <1>1, <1>2, <1>3, <2>3, <2>4 DEF Stands
<1>4. CASE a # u
  <2>1. Stands(a) /\ upload'[a] = upload[a] /\ upload[a].step = "ok"
    BY <1>1, <1>4 DEF AcknowledgedStand, Acknowledged
  <2>2. CASE UploadMatchArtifact(u) \/ CheckArtifactCap(u) \/ GiveUp(u) \/ RequestFails(u)
    <3>1. /\ UNCHANGED <<object, index>>
          /\ upload'[u].step \in {"read", "write"} =>
                upload'[u].step = upload[u].step /\ upload'[u].read = upload[u].read
      BY <2>2, Quiet DEF bucket
    <3>. QED  BY <1>1, <2>1, <3>1 DEF Stands
  <2>3. CASE PutArtifactObject(u)
    <3>1. /\ object' = [object EXCEPT ![upload[u].name] = u] /\ index' = index
          /\ upload'[u].step # "write"
      <4>1. upload[u].name # IndexName
        BY <1>2, <2>1, <2>3 DEF PutArtifactObject
      <4>2. upload'[u].step \in {"read", "refused"}
        BY <1>2, <2>3 DEF PutArtifactObject, To, Then, Upload
      <4>. QED  BY <2>3, <4>1, <4>2 DEF PutArtifactObject, ObjectPut
    <3>2. /\ object'[n] = a => object[n] = a
          /\ upload[u].name = n => object'[n] # a
      BY <1>2, <1>4, <3>1 DEF Index
    <3>. QED  BY <1>1, <2>1, <3>1, <3>2 DEF Stands
  <2>4. CASE ReadArtifactIndex(u)
    <3>1. /\ UNCHANGED <<object, index>> /\ upload[u].step = "read"
          /\ upload'[u].step = "write" /\ upload'[u].read = index
      BY <1>2, <2>4 DEF ReadArtifactIndex, IndexRead, Upload, bucket
    <3>. QED  BY <1>1, <2>1, <3>1 DEF Stands
  <2>5. CASE WriteArtifactIndex(u)
    <3>1. /\ index' = [upload[u].read EXCEPT ![upload[u].name] = u] /\ object' = object
          /\ upload[u].step = "write" /\ upload'[u].step \in {"ok", "refused"}
      BY <1>2, <2>5 DEF WriteArtifactIndex, Then, Upload
    <3>2. CASE upload[u].name = n
      <4>1. index'[n] = u /\ object[n] # a
        BY <1>2, <2>1, <3>1, <3>2 DEF Stands, Index
      <4>. QED  BY <1>1, <1>2, <2>1, <3>1, <4>1 DEF Stands
    <3>3. CASE upload[u].name # n
      <4>1. index'[n] = upload[u].read[n]
        BY <1>2, <3>1, <3>3 DEF Index
      <4>. QED  BY <1>1, <2>1, <3>1, <4>1 DEF Stands
    <3>. QED  BY <3>2, <3>3
  <2>. QED  BY <2>2, <2>3, <2>4, <2>5 DEF Proceeds
<1>. QED  BY <1>3, <1>4

\* The cap holds until somebody is disturbed.
LEMMA RoomStep ==
    ASSUME ArtifactTypeOK, Lone, RoomKept, NEW u \in Request, Proceeds(u)
    PROVE  RoomKept'
<1> SUFFICES ASSUME disturbed' = {}
             PROVE  Capped' /\ \A w \in Request : InHand(w)'
  BY DEF RoomKept
<1>1. /\ \A w \in Request : w # u => upload'[w] = upload[w]
      /\ upload'[u].name = upload[u].name
      /\ upload[u].step \notin {"ok", "refused"}
      /\ upload[u].step # "idle" \/ UploadMatchArtifact(u)
      /\ disturbed = {}
  BY OthersStay
<1>2. /\ upload \in [Request -> Upload] /\ upload[u] \in Upload /\ upload[u].name \in Name
      /\ object \in Index /\ index \in Index /\ u # Nobody
  BY ArtifactAssumption DEF ArtifactTypeOK, Upload, UploadStep
<1>3. Capped /\ \A w \in Request : InHand(w)
  BY <1>1 DEF RoomKept
<1>. DEFINE n == upload[u].name
<1>4. CASE UploadMatchArtifact(u) \/ CheckArtifactCap(u) \/ GiveUp(u) \/ RequestFails(u)
  <2>1. /\ index' = index
        /\ upload'[u].step \in {"read", "write"} =>
              upload'[u].step = upload[u].step /\ upload'[u].read = upload[u].read
        /\ upload'[u].step = "put" => upload[u].step = "put" \/ FitsCap(u)
    BY <1>4, Quiet DEF bucket
  <2>2. Capped'
    BY <1>3, <2>1 DEF Capped, Listed
  <2>3. \A w \in Request : FitsCap(w) => FitsCap(w)'
    BY <1>1, <2>1 DEF FitsCap, Listed
  <2>4. \A w \in Request : InHand(w)'
    BY <1>1, <1>3, <2>1, <2>3 DEF InHand
  <2>. QED  BY <2>2, <2>4
\* Every other request is idle or answered.
<1>5. ASSUME ~(UploadMatchArtifact(u) \/ CheckArtifactCap(u) \/ GiveUp(u) \/ RequestFails(u)), InHand(u)'
      PROVE  \A w \in Request : InHand(w)'
  <2>1. u \in Pending
    BY <1>1, <1>5 DEF Pending, Answered
  <2>2. \A w \in Request : w # u => w \notin Pending
    BY <1>1, <2>1 DEF Lone
  <2>3. \A w \in Request : w # u => upload'[w].step \notin {"put", "read", "write"}
    BY <1>1, <2>2 DEF Pending, Answered
  <2>. QED  BY <1>5, <2>3 DEF InHand
<1>6. CASE PutArtifactObject(u)
  <2>1. /\ index' = index /\ upload'[u].step \in {"read", "refused"} /\ upload[u].step = "put"
    <3>1. upload[u].name # IndexName
      BY <1>6 DEF PutArtifactObject
    <3>. QED  BY <1>2, <1>6, <3>1 DEF PutArtifactObject, To, Then, Upload
  <2>2. Capped'
    BY <1>3, <2>1 DEF Capped, Listed
  <2>3. FitsCap(u)'
    BY <1>1, <1>3, <2>1 DEF InHand, FitsCap, Listed
  <2>4. InHand(u)'
    BY <2>1, <2>3 DEF InHand
  <2>. QED  BY <1>4, <1>5, <2>2, <2>4
<1>7. CASE ReadArtifactIndex(u)
  <2>1. /\ index' = index /\ upload[u].step = "read"
        /\ upload'[u].step = "write" /\ upload'[u].read = index
    BY <1>2, <1>7 DEF ReadArtifactIndex, IndexRead, Upload, bucket
  <2>2. Capped'
    BY <1>3, <2>1 DEF Capped, Listed
  <2>3. FitsCap(u)'
    BY <1>1, <1>3, <2>1 DEF InHand, FitsCap, Listed
  <2>4. InHand(u)'
    BY <2>1, <2>3 DEF InHand
  <2>. QED  BY <1>4, <1>5, <2>2, <2>4
<1>8. CASE WriteArtifactIndex(u)
  <2>1. /\ index' = [index EXCEPT ![n] = u] /\ FitsCap(u)
        /\ upload[u].step = "write" /\ upload'[u].step \in {"ok", "refused"}
    BY <1>2, <1>3, <1>8 DEF WriteArtifactIndex, Then, Upload, InHand
  <2>2. index'[n] = u /\ \A m \in Name : m # n => index'[m] = index[m]
    BY <1>2, <2>1 DEF Index
  <2>3. Listed(index)' = Listed(index) \cup {n}
    BY <1>2, <2>2 DEF Listed
  <2>4. InHand(u)'
    BY <2>1 DEF InHand
  <2>5. Capped'
    <3>1. IsFiniteSet(Listed(index)) /\ Cardinality(Listed(index)) \in Nat
      BY <1>3, FS_CardinalityType DEF Capped
    <3>2. n \in Listed(index) \/ Cardinality(Listed(index)) < MaxArtifacts
      BY <1>2, <2>1 DEF FitsCap, Listed
    <3> DEFINE L == Listed(index)
    <3>3. /\ IsFiniteSet(L \cup {n})
          /\ Cardinality(L \cup {n}) = IF n \in L THEN Cardinality(L) ELSE Cardinality(L) + 1
      BY <3>1, FS_AddElement
    <3>4. Cardinality(L \cup {n}) <= MaxArtifacts
      <4>1. Cardinality(L) <= MaxArtifacts
        BY <1>3 DEF Capped
      <4>. HIDE DEF L
      <4>. QED  BY <3>1, <3>2, <3>3, <4>1, ArtifactAssumption DEF L
    <3>. QED  BY <2>3, <3>3, <3>4 DEF Capped
  <2>. QED  BY <1>4, <1>5, <2>4, <2>5
<1>. QED  BY <1>4, <1>6, <1>7, <1>8 DEF Proceeds

\* The steps of the match leave the uploads and the bucket alone.
EndOfMatch ==
    ResultReported \/ ClaimCooled \/ SaveMatchLogs \/ ReadFinalIndex \/ StopGameContainer \/ FinalizeResult

LEMMA UploadsUntouched == EndOfMatch \/ UNCHANGED artifactVars => UNCHANGED <<upload, bucket, disturbed>>
  BY DEF EndOfMatch, ResultReported, ClaimCooled, SaveMatchLogs, ReadFinalIndex, StopGameContainer,
     FinalizeResult, artifactVars, matchVars, bucket

\* A step is one of an upload, or one of the match.
LEMMA UploadOrEnd ==
    ASSUME [ArtifactNext]_artifactVars
    PROVE  (\E u \in Request : Proceeds(u)) \/ EndOfMatch \/ UNCHANGED artifactVars
  BY DEF ArtifactNext, Proceeds, EndOfMatch

\* What is kept stays kept.
LEMMA KeptStep ==
    ASSUME ArtifactTypeOK, KeptInv, [ArtifactNext]_artifactVars
    PROVE  KeptInv'
<1>1. CASE UNCHANGED <<upload, bucket, disturbed>>
  BY <1>1 DEF bucket, KeptInv, Lone, Pending, Answered, AcknowledgedStand, Acknowledged, Stands, RoomKept, InHand,
     FitsCap, Listed, Capped
<1>2. ASSUME NEW u \in Request, Proceeds(u)
      PROVE  KeptInv'
  BY <1>2, LoneStep, StandsStep, RoomStep DEF KeptInv
<1>. QED  BY <1>1, <1>2, UploadOrEnd, UploadsUntouched

\* The teardown's list keeps what was acknowledged before the claim: it is read
\* from the index, which lists it, and the claim takes it anew.
LEMMA PromptStep ==
    ASSUME ArtifactTypeOK, KeptInv, PromptKnown, [ArtifactNext]_artifactVars
    PROVE  PromptKnown'
<1>1. ASSUME NEW u \in Request, Proceeds(u)
      PROVE  PromptKnown'
  <2>1. /\ \A w \in Request : w # u => upload'[w] = upload[w]
        /\ upload'[u].name = upload[u].name
        /\ upload[u].step # "ok"
        /\ disturbed \subseteq disturbed'
        /\ UNCHANGED matchVars
    BY <1>1, OthersStay
  <2>2. Acknowledged \subseteq Acknowledged'
    BY <2>1 DEF Acknowledged
  <2>3. \A w \in prompt : upload'[w].name = upload[w].name
    BY <2>1 DEF ArtifactTypeOK
  <2>. QED  BY <2>1, <2>2, <2>3 DEF PromptKnown, PromptNamed, matchVars
<1>2. ASSUME UNCHANGED <<upload, bucket, disturbed>>, UNCHANGED <<prompt, row, final>>,
             teardown' = teardown \/ (row # "deleted" /\ teardown'.known = teardown.known
                                      /\ teardown'.names = teardown.names)
      PROVE  PromptKnown'
  BY <1>2 DEF PromptKnown, PromptNamed, Acknowledged
<1>3. CASE UNCHANGED artifactVars
  BY <1>2, <1>3, UploadsUntouched DEF artifactVars, matchVars
<1>4. ASSUME EndOfMatch
      PROVE  UNCHANGED <<upload, bucket, disturbed>> /\ Acknowledged' = Acknowledged
  BY <1>4, UploadsUntouched DEF Acknowledged
<1>5. CASE ResultReported
  <2>1. UNCHANGED <<teardown, prompt, final>> /\ row' = "cooldown"
    BY <1>5 DEF ResultReported
  <2>. QED  BY <1>4, <1>5, <2>1 DEF EndOfMatch, PromptKnown, PromptNamed
<1>6. CASE ClaimCooled
  <2>1. ~teardown'.known /\ prompt' = Acknowledged /\ row' = "cooldown"
    BY <1>6 DEF ClaimCooled
  <2>. QED  BY <1>4, <1>6, <2>1 DEF EndOfMatch, PromptKnown
<1>7. CASE SaveMatchLogs
  <2>1. PICK b : teardown' = [teardown EXCEPT !.step = "index", !.logs = b]
    BY <1>7 DEF SaveMatchLogs
  <2>2. teardown'.known = teardown.known /\ teardown'.names = teardown.names
    BY <2>1 DEF ArtifactTypeOK
  <2>3. row # "deleted" /\ UNCHANGED <<prompt, row, final>>
    BY <1>7 DEF SaveMatchLogs, PromptKnown
  <2>. QED  BY <1>2, <1>4, <1>7, <2>2, <2>3 DEF EndOfMatch
<1>8. CASE ReadFinalIndex
  <2>1. row # "deleted" /\ UNCHANGED <<prompt, row, final>>
    BY <1>8 DEF ReadFinalIndex, PromptKnown
  <2>2. CASE teardown' = [teardown EXCEPT !.step = "stop"]
    <3>1. teardown'.known = teardown.known /\ teardown'.names = teardown.names
      BY <2>2 DEF ArtifactTypeOK
    <3>. QED  BY <1>2, <1>4, <1>8, <2>1, <3>1 DEF EndOfMatch
  <2>3. CASE teardown' = [teardown EXCEPT !.step = "stop", !.names = Listed(index), !.known = TRUE]
    <3>1. teardown'.names = Listed(index)
      BY <2>3 DEF ArtifactTypeOK
    <3>2. PromptNamed(Listed(index))
      BY DEF KeptInv, AcknowledgedStand, Stands, Acknowledged, ArtifactTypeOK, Listed, PromptKnown, PromptNamed
    <3>3. PromptNamed(teardown.names)'
      BY <1>4, <1>8, <2>1, <3>1, <3>2 DEF EndOfMatch, PromptNamed
    <3>. QED  BY <1>4, <1>8, <2>1, <3>3 DEF EndOfMatch, PromptKnown
  <2>. QED  BY <1>8, <2>2, <2>3 DEF ReadFinalIndex
<1>9. CASE StopGameContainer
  <2>1. PICK s \in {"idle", "finalize"} : teardown' = [teardown EXCEPT !.step = s]
    BY <1>9 DEF StopGameContainer
  <2>2. teardown'.known = teardown.known /\ teardown'.names = teardown.names
    BY <2>1 DEF ArtifactTypeOK
  <2>3. row # "deleted" /\ UNCHANGED <<prompt, row, final>>
    BY <1>9 DEF StopGameContainer, PromptKnown
  <2>. QED  BY <1>2, <1>4, <1>9, <2>2, <2>3 DEF EndOfMatch
<1>10. CASE FinalizeResult
  <2>1. /\ teardown'.known = teardown.known /\ teardown'.names = teardown.names /\ teardown'.step = "done"
        /\ prompt' = prompt /\ final'.names = FinalNames
    BY <1>10 DEF FinalizeResult, ArtifactTypeOK
  <2>2. teardown.known => final'.names = teardown.names
    BY <2>1 DEF FinalNames
  <2>. QED  BY <1>4, <1>10, <2>1, <2>2 DEF EndOfMatch, PromptKnown, PromptNamed
<1>. QED  BY <1>1, <1>3, <1>5, <1>6, <1>7, <1>8, <1>9, <1>10, UploadOrEnd DEF EndOfMatch

-----------------------------------------------------------------------------
\* The inductive invariant holds in every reachable state.
THEOREM ArtifactInvariance == ArtifactSpec => []ArtifactInv
<1>1. ArtifactInit => ArtifactInv
  <2> SUFFICES ASSUME ArtifactInit PROVE ArtifactInv
    OBVIOUS
  <2>1. CopiesHeld
    BY NoIndexType DEF ArtifactInit, CopiesHeld
  <2>2. LogsHeld /\ NamesAtTheEnd
    BY DEF ArtifactInit, LogsHeld, NamesAtTheEnd
  <2>. QED  BY <2>1, <2>2, ArtifactTypeInit DEF ArtifactInv
<1>2. ArtifactInv /\ [ArtifactNext]_artifactVars => ArtifactInv'
  BY ArtifactTypeStep, CopiesStep, LogsStep DEF ArtifactInv
<1>. QED  BY <1>1, <1>2, PTL DEF ArtifactSpec

\* Every artifact that a listing or a result names, and every logs whose key a
\* result has, can be downloaded (aws.go:248-275 writes the index after the
\* object and extends what it read): for any number of uploads, given up,
\* repeated, carried out late or overtaken by attempts at the teardown.
THEOREM WhatIsListedIsThere == ArtifactSpec => []ListedDownloadable
<1>1. ArtifactInv => ListedDownloadable
  <2> SUFFICES ASSUME ArtifactInv PROVE ListedDownloadable
    OBVIOUS
  <2> USE DEF ArtifactInv, ArtifactTypeOK
  <2>1. \A n \in ListMatchArtifacts : DownloadMatchArtifact(n)
    BY DEF ListMatchArtifacts, DownloadMatchArtifact, CopiesHeld, Held
  <2>2. \A n \in ListUserArtifacts \cup final.names : DownloadMatchArtifact(n)
    BY DEF ListUserArtifacts, DownloadMatchArtifact, CopiesHeld, Held, NamesAtTheEnd, HasResult
  <2>3. final.logs => GetMatchLogs
    BY DEF GetMatchLogs, LogsHeld
  <2>. QED  BY <2>1, <2>2, <2>3 DEF ListedDownloadable
<1>. QED  BY <1>1, ArtifactInvariance, PTL

\* The bucket is in order, and the teardown's list complete, in every reachable
\* state.
THEOREM OrderInvariance == ArtifactSpec => [](KeptInv /\ PromptKnown)
<1>1. ArtifactInit => KeptInv /\ PromptKnown
  <2> SUFFICES ASSUME ArtifactInit PROVE KeptInv /\ PromptKnown
    OBVIOUS
  <2>1. \A u \in Request : upload[u].step = "idle"
    BY DEF ArtifactInit
  <2>2. Acknowledged = {} /\ Pending = {} /\ \A u \in Request : InHand(u)
    BY <2>1 DEF Acknowledged, Pending, Answered, InHand
  <2>3. Capped
    BY NoIndexType, FS_EmptySet, ArtifactAssumption DEF ArtifactInit, Capped
  <2>4. PromptKnown
    BY DEF ArtifactInit, PromptKnown
  <2>. QED  BY <2>2, <2>3, <2>4 DEF KeptInv, Lone, AcknowledgedStand, RoomKept
<1>2. ArtifactTypeOK /\ KeptInv /\ PromptKnown /\ [ArtifactNext]_artifactVars => (KeptInv /\ PromptKnown)'
  BY KeptStep, PromptStep
<1>3. ArtifactInv => ArtifactTypeOK
  BY DEF ArtifactInv
<1>. QED  BY <1>1, <1>2, <1>3, ArtifactInvariance, PTL DEF ArtifactSpec

\* An acknowledged upload that none overlapped, and that no upload under the
\* index's own name came after, stays in the index, with its own bytes until a
\* later one replaces them (aws.go:281-284), however many follow it, are given up
\* or are carried out late; and the index has no more names than the cap
\* (artifact.go checks it against an index it reads before the one it extends)
\* until two uploads overlap or one replaces it.
THEOREM AcknowledgedIsKept == ArtifactSpec => []UploadsKept
<1>1. ArtifactInv /\ KeptInv => UploadsKept
  <2> SUFFICES ASSUME ArtifactInv, KeptInv
               PROVE  UploadsKept
    OBVIOUS
  <2>1. \A u \in Acknowledged : upload[u].name \in Name
    BY DEF Acknowledged, ArtifactInv, ArtifactTypeOK
  <2>2. AcknowledgedIsListed
    BY <2>1 DEF KeptInv, AcknowledgedStand, Stands, AcknowledgedIsListed, Listed
  <2>3. CapKept
    BY DEF KeptInv, RoomKept, Capped, CapKept
  <2>. QED  BY <2>2, <2>3 DEF UploadsKept
<1>. QED  BY <1>1, ArtifactInvariance, OrderInvariance, PTL

\* What was acknowledged before the sweep claimed the match, and neither
\* overlapped nor wiped out with the index, is in the list of its result when the
\* match is gone, if the index could be read (reportResults.go:122-124), however
\* often the claim is reverted and whatever is uploaded meanwhile.
THEOREM PromptIsInResult == ArtifactSpec => []PromptInResult
<1>1. PromptKnown => PromptInResult
  BY DEF PromptKnown, PromptNamed, PromptInResult
<1>. QED  BY <1>1, OrderInvariance, PTL

(***************************************************************************)
(* A game and its queues, for any number of requests that overlap, names,  *)
(* queues and matches.                                                     *)
(***************************************************************************)
\* A request that writes rows back has read a stored one; nothing is under way
\* before there is a game.
ReadWhatWasThere ==
    /\ \A r \in Editor : edit[r].op = "update" => edit[r].rows[edit[r].queue] # NoRow /\ edit[r].queue # 0
    /\ gameRow \/ deleted => stamped # 0
    /\ stamped = 0 => Stored(queueRow) = {} /\ \A r \in Editor : edit[r].op = "none"

\* Without an overlap the queues that are being deleted are one queue, and the
\* game has another: that is what the count found, and nothing else removes one.
AnotherIsLeft ==
    /\ Overlap => overlapped
    /\ ~overlapped /\ gameRow =>
        /\ Stored(queueRow) # {}
        /\ \A r \in Editor : edit[r].op = "delete" => AnotherQueue(edit[r].queue)

\* An update of the game has loaded at least one queue, without which Save could
\* insert the game again.
LoadedQueues == ~overlapped => \A r \in Editor : edit[r].op = "updateGame" => Stored(edit[r].rows) # {}

CatalogInv == CatalogTypeOK /\ ReadWhatWasThere /\ AnotherIsLeft /\ LoadedQueues /\ GameStaysDeleted

-----------------------------------------------------------------------------
\* The default queue of some rows is one of them.
LEMMA DefaultQueueStored ==
    ASSUME NEW rows, Stored(rows) # {}
    PROVE  DefaultQueue(rows) \in Stored(rows)
<1>1. Stored(rows) \subseteq Nat
  BY CatalogAssumption DEF Stored, QueueID
<1>2. PICK q \in Stored(rows) : \A p \in Stored(rows) : <<p, q>> \notin OpToRel(<, Nat)
  BY <1>1, WFMin, NatLessThanWellFounded, Zenon
<1>3. \A p \in Stored(rows) : ~(p < q)
  BY <1>1, <1>2, Zenon DEF OpToRel
<1>4. \A p \in Stored(rows) : q <= p
  BY <1>1, <1>3
<1>. QED  BY <1>4 DEF DefaultQueue

\* A Save never removes a row, and keeps the rows' type.
LEMMA SaveGrows ==
    ASSUME CatalogTypeOK, NEW q \in QueueID, NEW name \in QueueName, Save(q, name)
    PROVE  queueRow' \in Rows /\ Stored(queueRow) \subseteq Stored(queueRow')
  BY CatalogAssumption DEF Save, Rows, Stored, CatalogTypeOK

\* Nor does an update of the game.
LEMMA LoadedGrow ==
    ASSUME CatalogTypeOK, NEW loaded \in Rows
    PROVE  /\ WithLoaded(loaded) \in Rows
           /\ Stored(queueRow) \subseteq Stored(WithLoaded(loaded))
           /\ Stored(loaded) # {} =>
                /\ ToDefaultQueue(loaded, WithLoaded(loaded)) \in Rows
                /\ Stored(queueRow) \subseteq Stored(ToDefaultQueue(loaded, WithLoaded(loaded)))
<1>1. /\ WithLoaded(loaded) \in Rows
      /\ Stored(queueRow) \subseteq Stored(WithLoaded(loaded))
  BY DEF WithLoaded, Rows, Stored, CatalogTypeOK
<1>2. ASSUME Stored(loaded) # {}
      PROVE  /\ ToDefaultQueue(loaded, WithLoaded(loaded)) \in Rows
             /\ Stored(queueRow) \subseteq Stored(ToDefaultQueue(loaded, WithLoaded(loaded)))
  <2>1. DefaultQueue(loaded) \in QueueID /\ loaded[DefaultQueue(loaded)] # NoRow
    BY <1>2, DefaultQueueStored DEF Stored
  <2>. QED  BY <1>1, <2>1 DEF ToDefaultQueue, ApplyQueueUpdate, Rows, Stored
<1>. QED  BY <1>1, <1>2

-----------------------------------------------------------------------------
\* The rows of a request that has read nothing.
LEMMA NoRowsType == NoRows \in Rows /\ Stored(NoRows) = {}
  BY DEF NoRows, Rows, Stored

\* Types, and with them the foreign key: a queue of a running match is stored.
LEMMA CatalogTypeStep ==
    ASSUME CatalogInv, CatalogStep, overlapped' = (overlapped \/ Overlap')
    PROVE  CatalogTypeOK'
<1>. CatalogTypeOK
  BY DEF CatalogInv
<1> USE CatalogAssumption, NoRowsType DEF CatalogTypeOK
<1>1. overlapped' \in BOOLEAN
  OBVIOUS
<1>2. CASE CreateGame
  BY <1>1, <1>2 DEF CreateGame, InsertGame, ApplyQueueDefaults, Rows, Stored, QueueID
<1>3. ASSUME NEW r \in Editor, QueueFromParams(r)
      PROVE  CatalogTypeOK'
  <2>1. stamped' \in 0 .. MaxQueues
    BY <1>3 DEF QueueFromParams
  <2>. QED  BY <1>1, <1>3, <2>1 DEF QueueFromParams, Begins
<1>4. ASSUME NEW r \in Editor, NEW asked \in QueueName \cup {NoRow}, CreateGameQueue(r, asked)
      PROVE  CatalogTypeOK'
  <2>1. Stored(queueRow) \subseteq Stored(queueRow') /\ queueRow' \in Rows
    BY <1>4 DEF CreateGameQueue, Save, ApplyQueueDefaults, Rows, Stored
  <2>. QED  BY <1>1, <1>4, <2>1 DEF CreateGameQueue, Answers, Resting
<1>5. ASSUME NEW r \in Editor, NEW asked \in QueueName \cup {NoRow}, UpdateGameQueue(r, asked)
      PROVE  CatalogTypeOK'
  <2>1. edit[r].queue \in QueueID /\ edit[r].rows[edit[r].queue] \in QueueName
    BY <1>5 DEF UpdateGameQueue, CatalogInv, ReadWhatWasThere, QueueID, Rows
  <2>2. Stored(queueRow) \subseteq Stored(queueRow') /\ queueRow' \in Rows
    BY <1>5, <2>1, SaveGrows DEF UpdateGameQueue, ApplyQueueUpdate
  <2>. QED  BY <1>1, <1>5, <2>2 DEF UpdateGameQueue, Answers, Resting
<1>6. ASSUME NEW r \in Editor, NEW q \in QueueID, ReadQueue(r, q) \/ CountQueues(r, q)
      PROVE  CatalogTypeOK'
  <2>1. [NoRows EXCEPT ![q] = queueRow[q]] \in Rows
    BY DEF Rows
  <2>. QED  BY <1>1, <1>6, <2>1 DEF ReadQueue, CountQueues, Begins, QueueID
<1>7. ASSUME NEW r \in Editor, DeleteGameQueue(r)
      PROVE  CatalogTypeOK'
  <2>1. queueRow' \in Rows /\ running \subseteq Stored(queueRow')
    BY <1>7 DEF DeleteGameQueue, Referenced, Rows, Stored
  <2>2. edit' = [edit EXCEPT ![r] = Resting] /\ UNCHANGED <<gameRow, stamped, running, results, deleted>>
    BY <1>7 DEF DeleteGameQueue, Answers
  <2>. QED  BY <1>1, <2>1, <2>2 DEF Resting
<1>8. ASSUME NEW r \in Editor, GetGame(r)
      PROVE  CatalogTypeOK'
  BY <1>1, <1>8 DEF GetGame, Begins
<1>9. ASSUME NEW r \in Editor, NEW flat \in BOOLEAN, UpdateGame(r, flat)
      PROVE  CatalogTypeOK'
  <2>1. edit[r].rows \in Rows
    OBVIOUS
  <2>2. gameRow' \in BOOLEAN /\ queueRow' \in Rows /\ Stored(queueRow) \subseteq Stored(queueRow')
    BY <1>9, <2>1, LoadedGrow DEF UpdateGame
  <2>. QED  BY <1>1, <1>9, <2>2 DEF UpdateGame, Answers, Resting
<1>10. CASE DeleteGame
  BY <1>1, <1>10 DEF DeleteGame, CascadeDelete
<1>11. ASSUME NEW asked \in 0 .. MaxQueues, MatchRuns(asked)
       PROVE  CatalogTypeOK'
  <2>1. ResolveQueue(queueRow, asked) \in Stored(queueRow)
    BY <1>11, DefaultQueueStored DEF MatchRuns, ResolveQueue, Stored, QueueID
  <2>. QED  BY <1>1, <1>11, <2>1 DEF MatchRuns
<1>12. ASSUME NEW q \in QueueID, MatchIsOver(q)
       PROVE  CatalogTypeOK'
  BY <1>1, <1>12 DEF MatchIsOver
<1>. QED  BY <1>2, <1>3, <1>4, <1>5, <1>6, <1>7, <1>8, <1>9, <1>10, <1>11, <1>12 DEF CatalogStep

\* What each action does to the rows and to the requests under way, as far as
\* the rest of the invariant looks at it: rows go only by the two deletions, the
\* game comes only by its creation, or by an update that had loaded no queue.
LEMMA RowsChange ==
    ASSUME CatalogInv, CatalogStep
    PROVE  \/ Stored(queueRow) \subseteq Stored(queueRow')
           \/ DeleteGame
           \/ \E r \in Editor : DeleteGameQueue(r)
<1>. CatalogTypeOK
  BY DEF CatalogInv
<1>1. ASSUME NEW r \in Editor, NEW asked \in QueueName \cup {NoRow}, CreateGameQueue(r, asked)
      PROVE  Stored(queueRow) \subseteq Stored(queueRow')
  BY <1>1, CatalogAssumption DEF CreateGameQueue, Save, ApplyQueueDefaults, Stored, CatalogTypeOK, Rows
<1>2. ASSUME NEW r \in Editor, NEW asked \in QueueName \cup {NoRow}, UpdateGameQueue(r, asked)
      PROVE  Stored(queueRow) \subseteq Stored(queueRow')
  <2>1. edit[r].queue \in QueueID /\ edit[r].rows[edit[r].queue] \in QueueName
    BY <1>2, CatalogAssumption DEF UpdateGameQueue, CatalogInv, ReadWhatWasThere, QueueID, Rows, CatalogTypeOK
  <2>. QED  BY <1>2, <2>1, SaveGrows DEF UpdateGameQueue, ApplyQueueUpdate
<1>3. ASSUME NEW r \in Editor, NEW flat \in BOOLEAN, UpdateGame(r, flat)
      PROVE  Stored(queueRow) \subseteq Stored(queueRow')
  <2>1. edit[r].rows \in Rows
    BY DEF CatalogTypeOK
  <2>. QED  BY <1>3, <2>1, LoadedGrow DEF UpdateGame
<1>4. CASE CreateGame
  BY <1>4, CatalogAssumption DEF CreateGame, InsertGame, ApplyQueueDefaults, Stored, CatalogTypeOK, Rows
<1>. QED
  BY <1>1, <1>2, <1>3, <1>4 DEF CatalogStep, QueueFromParams, ReadQueue, CountQueues, GetGame, MatchRuns, MatchIsOver

\* While no two deletions have overlapped, only its creation brings the game.
LEMMA GameChanges ==
    ASSUME CatalogInv, CatalogStep, ~overlapped
    PROVE  gameRow' => gameRow \/ CreateGame
<1>. CatalogTypeOK
  BY DEF CatalogInv
<1>1. ASSUME NEW r \in Editor, NEW flat \in BOOLEAN, UpdateGame(r, flat)
      PROVE  gameRow' => gameRow
  BY <1>1 DEF UpdateGame, SaveFails, LoadedNeedGame, CatalogInv, LoadedQueues
<1>. QED
  BY <1>1 DEF CatalogStep, QueueFromParams, CreateGameQueue, UpdateGameQueue, ReadQueue, CountQueues, DeleteGameQueue,
     GetGame, DeleteGame, CascadeDelete, MatchRuns, MatchIsOver

\* A request that begins has read the rows as they are.
LEMMA RequestsChange ==
    ASSUME CatalogInv, CatalogStep, NEW r \in Editor, edit'[r] # edit[r]
    PROVE  \/ edit'[r].op \in {"none", "create"}
           \/ \E q \in QueueID :
                /\ queueRow[q] # NoRow
                /\ edit'[r].op = "update" /\ edit'[r].queue = q /\ edit'[r].rows[q] # NoRow
           \/ \E q \in QueueID :
                /\ queueRow[q] # NoRow
                /\ AnotherQueue(q)
                /\ edit'[r].op = "delete" /\ edit'[r].queue = q
                /\ UNCHANGED <<gameRow, queueRow>>
           \/ edit'[r].op = "updateGame" /\ edit'[r].rows = queueRow /\ gameRow
<1>. CatalogTypeOK
  BY DEF CatalogInv
<1>1. ASSUME NEW s \in Editor, NEW q \in QueueID, ReadQueue(s, q), edit'[r] # edit[r]
      PROVE  /\ queueRow[q] # NoRow
             /\ edit'[r].op = "update" /\ edit'[r].queue = q /\ edit'[r].rows[q] # NoRow
  BY <1>1 DEF ReadQueue, Begins, CatalogTypeOK, NoRows
<1>2. ASSUME NEW s \in Editor, NEW q \in QueueID, CountQueues(s, q), edit'[r] # edit[r]
      PROVE  /\ queueRow[q] # NoRow
             /\ AnotherQueue(q)
             /\ edit'[r].op = "delete" /\ edit'[r].queue = q
             /\ UNCHANGED <<gameRow, queueRow>>
  BY <1>2 DEF CountQueues, Begins, CatalogTypeOK
<1>3. ASSUME NEW s \in Editor, GetGame(s), edit'[r] # edit[r]
      PROVE  edit'[r].op = "updateGame" /\ edit'[r].rows = queueRow /\ gameRow
  BY <1>3 DEF GetGame, Begins, CatalogTypeOK
<1>4. ASSUME NEW s \in Editor, edit'[r] # edit[r],
             \/ QueueFromParams(s)
             \/ \E asked \in QueueName \cup {NoRow} : CreateGameQueue(s, asked) \/ UpdateGameQueue(s, asked)
             \/ DeleteGameQueue(s)
             \/ \E flat \in BOOLEAN : UpdateGame(s, flat)
      PROVE  edit'[r].op \in {"none", "create"}
  <2>1. \/ edit' = [edit EXCEPT ![s] = Resting]
        \/ edit' = [edit EXCEPT ![s] = [op |-> "create", queue |-> stamped', rows |-> NoRows]]
    BY <1>4 DEF QueueFromParams, CreateGameQueue, UpdateGameQueue, DeleteGameQueue, UpdateGame, Begins, Answers
  <2>. QED  BY <1>4, <2>1 DEF CatalogTypeOK, Resting
<1>. QED
  BY <1>1, <1>2, <1>3, <1>4 DEF CatalogStep, CreateGame, DeleteGame, MatchRuns, MatchIsOver

\* stamped never returns to 0, and is not 0 once the game is there.
LEMMA StampedChanges ==
    ASSUME CatalogInv, CatalogStep
    PROVE  /\ stamped' = 0 => stamped = 0 /\ UNCHANGED <<gameRow, queueRow, edit, deleted>>
           /\ deleted' => deleted \/ gameRow
           /\ stamped = 0 => UNCHANGED <<gameRow, queueRow, edit, deleted>> \/ CreateGame
<1>. CatalogTypeOK
  BY DEF CatalogInv
<1>1. CASE CreateGame
  BY <1>1 DEF CreateGame, InsertGame
<1>2. CASE stamped = 0 /\ ~CreateGame
  <2>1. ~gameRow /\ Stored(queueRow) = {} /\ \A r \in Editor : edit[r].op = "none"
    BY <1>2 DEF CatalogInv, ReadWhatWasThere
  <2>2. \A q \in QueueID : queueRow[q] = NoRow
    BY <2>1 DEF Stored
  <2>3. ASSUME NEW r \in Editor
        PROVE  /\ \A asked \in QueueName \cup {NoRow} : ~CreateGameQueue(r, asked) /\ ~UpdateGameQueue(r, asked)
               /\ \A flat \in BOOLEAN : ~UpdateGame(r, flat)
               /\ ~DeleteGameQueue(r)
    BY <2>1 DEF CreateGameQueue, UpdateGameQueue, DeleteGameQueue, UpdateGame
  <2>4. ASSUME NEW r \in Editor
        PROVE  /\ \A q \in QueueID : ~ReadQueue(r, q) /\ ~CountQueues(r, q)
               /\ ~QueueFromParams(r) /\ ~GetGame(r)
    BY <2>1, <2>2 DEF ReadQueue, CountQueues, QueueFromParams, GetGame
  <2>5. \/ \E asked \in 0 .. MaxQueues : MatchRuns(asked)
        \/ \E q \in QueueID : MatchIsOver(q)
    BY <1>2, <2>1, <2>3, <2>4 DEF CatalogStep, DeleteGame
  <2>6. UNCHANGED <<gameRow, queueRow, edit, deleted>> /\ stamped' = stamped
    BY <2>5 DEF MatchRuns, MatchIsOver
  <2>. QED  BY <1>2, <2>6
<1>3. CASE stamped # 0 /\ ~CreateGame
  <2>1. stamped' = stamped \/ stamped' = stamped + 1
    BY <1>3 DEF CatalogStep, QueueFromParams, CreateGameQueue, UpdateGameQueue, ReadQueue, CountQueues,
       DeleteGameQueue, GetGame, UpdateGame, DeleteGame, MatchRuns, MatchIsOver
  <2>2. deleted' => deleted \/ gameRow
    BY <1>3 DEF CatalogStep, QueueFromParams, CreateGameQueue, UpdateGameQueue, ReadQueue, CountQueues,
       DeleteGameQueue, GetGame, UpdateGame, DeleteGame, MatchRuns, MatchIsOver
  <2>. QED  BY <1>3, <2>1, <2>2 DEF CatalogTypeOK
<1>. QED  BY <1>1, <1>2, <1>3

\* What requests have read stays true of them.
LEMMA ReadStep ==
    ASSUME CatalogInv, CatalogStep, CatalogTypeOK'
    PROVE  ReadWhatWasThere'
<1>1. ASSUME NEW r \in Editor, edit'[r].op = "update"
      PROVE  edit'[r].rows[edit'[r].queue] # NoRow /\ edit'[r].queue # 0
  <2>1. CASE edit'[r] = edit[r]
    BY <1>1, <2>1 DEF CatalogInv, ReadWhatWasThere
  <2>2. CASE edit'[r] # edit[r]
    BY <1>1, <2>2, RequestsChange, CatalogAssumption DEF QueueID
  <2>. QED  BY <2>1, <2>2
<1>2. gameRow' \/ deleted' => stamped' # 0
  <2>1. CASE stamped' = 0
    BY <2>1, StampedChanges DEF CatalogInv, ReadWhatWasThere
  <2>. QED  BY <2>1
<1>3. ASSUME stamped' = 0
      PROVE  Stored(queueRow)' = {} /\ \A r \in Editor : edit'[r].op = "none"
  BY <1>3, StampedChanges DEF CatalogInv, ReadWhatWasThere, Stored
<1>. QED  BY <1>1, <1>2, <1>3 DEF ReadWhatWasThere

\* The game and the queues it is left with.
LEMMA AnotherStep ==
    ASSUME CatalogInv, CatalogStep, CatalogTypeOK', overlapped' = (overlapped \/ Overlap')
    PROVE  AnotherIsLeft'
<1>. CatalogTypeOK
  BY DEF CatalogInv
<1>1. Overlap' => overlapped'
  OBVIOUS
<1>2. ASSUME ~overlapped', gameRow'
      PROVE  /\ Stored(queueRow') # {}
             /\ \A r \in Editor : edit'[r].op = "delete" => \E p \in Stored(queueRow') : p # edit'[r].queue
  <2>1. ~overlapped
    BY <1>2
  <2>2. CASE CreateGame
    <3>1. queueRow'[1] # NoRow /\ 1 \in QueueID
      BY <2>2, CatalogAssumption DEF CreateGame, InsertGame, ApplyQueueDefaults, CatalogTypeOK, Rows, QueueID
    <3>2. \A r \in Editor : edit'[r].op = "none"
      BY <2>2 DEF CreateGame, CatalogInv, ReadWhatWasThere
    <3>. QED  BY <3>1, <3>2 DEF Stored
  <2>3. CASE ~CreateGame
    <3>1. gameRow
      BY <1>2, <2>1, <2>3, GameChanges
    <3>2. /\ Stored(queueRow) # {}
          /\ \A r \in Editor : edit[r].op = "delete" => \E p \in Stored(queueRow) : p # edit[r].queue
      BY <2>1, <3>1 DEF CatalogInv, AnotherIsLeft, AnotherQueue
    <3>3. CASE Stored(queueRow) \subseteq Stored(queueRow')
      <4>1. ASSUME NEW r \in Editor, edit'[r].op = "delete"
            PROVE  \E p \in Stored(queueRow) : p # edit'[r].queue
        <5>1. CASE edit'[r] = edit[r]
          BY <3>2, <4>1, <5>1
        <5>2. CASE edit'[r] # edit[r]
          BY <4>1, <5>2, RequestsChange DEF AnotherQueue
        <5>. QED  BY <5>1, <5>2
      <4>. QED  BY <3>2, <3>3, <4>1
    <3>4. CASE DeleteGame
      BY <1>2, <3>4 DEF DeleteGame, CascadeDelete
    <3>5. ASSUME NEW r \in Editor, DeleteGameQueue(r)
          PROVE  /\ Stored(queueRow') # {}
                 /\ \A s \in Editor : edit'[s].op = "delete" => \E p \in Stored(queueRow') : p # edit'[s].queue
      <4>1. PICK p \in Stored(queueRow) : p # edit[r].queue
        BY <3>2, <3>5 DEF DeleteGameQueue
      <4>2. p \in Stored(queueRow')
        BY <3>5, <4>1 DEF DeleteGameQueue, Stored, CatalogTypeOK, Rows
      <4>3. edit' = [edit EXCEPT ![r] = Resting] /\ edit[r].op = "delete"
        BY <3>5 DEF DeleteGameQueue, Answers
      <4>4. ASSUME NEW s \in Editor, edit'[s].op = "delete"
            PROVE  edit'[s].queue = edit[r].queue
        <5>1. edit'[s] = edit[s]
          BY <4>3, <4>4 DEF CatalogTypeOK, Resting
        <5>2. ~Overlap
          BY <2>1 DEF CatalogInv, AnotherIsLeft
        <5>. QED  BY <4>3, <4>4, <5>1, <5>2 DEF Overlap
      <4>. QED  BY <4>1, <4>2, <4>4
    <3>. QED  BY <3>3, <3>4, <3>5, RowsChange
  <2>. QED  BY <2>2, <2>3
<1>. QED  BY <1>1, <1>2 DEF AnotherIsLeft, AnotherQueue, Stored

\* An update of the game loads a queue; a deleted game stays away.
LEMMA GameStep ==
    ASSUME CatalogInv, CatalogStep, overlapped' = (overlapped \/ Overlap')
    PROVE  LoadedQueues' /\ GameStaysDeleted'
<1>1. LoadedQueues'
  <2>1. SUFFICES ASSUME ~overlapped', NEW r \in Editor, edit'[r].op = "updateGame"
                 PROVE  Stored(edit'[r].rows) # {}
    BY DEF LoadedQueues, Stored
  <2>2. ~overlapped
    BY <2>1
  <2>3. CASE edit'[r] = edit[r]
    BY <2>1, <2>2, <2>3 DEF CatalogInv, LoadedQueues
  <2>4. CASE edit'[r] # edit[r]
    <3>1. edit'[r].rows = queueRow /\ gameRow
      BY <2>1, <2>4, RequestsChange
    <3>. QED  BY <2>2, <3>1 DEF CatalogInv, AnotherIsLeft
  <2>. QED  BY <2>3, <2>4
<1>2. GameStaysDeleted'
  <2>1. SUFFICES ASSUME deleted', ~overlapped'
                 PROVE  ~gameRow'
    BY DEF GameStaysDeleted
  <2>2. ~overlapped
    BY <2>1
  <2>3. CASE DeleteGame
    BY <2>3 DEF DeleteGame, CascadeDelete
  <2>4. CASE ~DeleteGame
    <3>1. deleted
      BY <2>1, <2>4 DEF CatalogStep, CreateGame, QueueFromParams, CreateGameQueue, UpdateGameQueue, ReadQueue,
         CountQueues, DeleteGameQueue, GetGame, UpdateGame, MatchRuns, MatchIsOver
    <3>2. ~gameRow /\ stamped # 0
      BY <2>2, <3>1 DEF CatalogInv, GameStaysDeleted, ReadWhatWasThere
    <3>. QED  BY <2>2, <3>2, GameChanges DEF CreateGame
  <2>. QED  BY <2>3, <2>4
<1>. QED  BY <1>1, <1>2

-----------------------------------------------------------------------------
\* CatalogInv is an inductive invariant: whatever requests overlap, rows that
\* are written back were read, and the count of the queues still holds when its
\* deletion runs, until two deletions overlap.
THEOREM CatalogInvariance == CatalogSpec => []CatalogInv
<1>1. CatalogInit => CatalogInv
  <2>. SUFFICES ASSUME CatalogInit
                PROVE  CatalogInv
    OBVIOUS
  <2>1. Resting \in [op: {"none", "create", "update", "delete", "updateGame"}, queue: 0 .. MaxQueues, rows: Rows]
    BY NoRowsType, CatalogAssumption DEF Resting
  <2>2. CatalogTypeOK
    <3>1. edit \in [Editor -> [op: {"none", "create", "update", "delete", "updateGame"}, queue: 0 .. MaxQueues, rows: Rows]]
      BY <2>1, Zenon DEF CatalogInit
    <3>2. stamped \in 0 .. MaxQueues
      BY CatalogAssumption DEF CatalogInit
    <3>. QED  BY <3>1, <3>2, NoRowsType DEF CatalogInit, CatalogTypeOK
  <2>3. \A r \in Editor : edit[r].op = "none"
    BY DEF CatalogInit, Resting
  <2>4. Stored(queueRow) = {} /\ stamped = 0 /\ ~gameRow /\ ~deleted
    BY NoRowsType DEF CatalogInit
  <2>. QED
    BY <2>2, <2>3, <2>4 DEF CatalogInv, ReadWhatWasThere, AnotherIsLeft, LoadedQueues, GameStaysDeleted, Overlap
<1>2. CatalogInv /\ [CatalogNext]_catalogVars => CatalogInv'
  <2>1. ASSUME CatalogInv, CatalogNext
        PROVE  CatalogInv'
    BY <2>1, CatalogTypeStep, ReadStep, AnotherStep, GameStep DEF CatalogNext, CatalogInv
  <2>2. ASSUME CatalogInv, UNCHANGED catalogVars
        PROVE  CatalogInv'
    BY <2>2 DEF catalogVars, CatalogInv, CatalogTypeOK, ReadWhatWasThere, AnotherIsLeft, LoadedQueues,
       GameStaysDeleted, Overlap, AnotherQueue, Stored
  <2>. QED  BY <2>1, <2>2
<1>. QED  BY <1>1, <1>2, PTL DEF CatalogSpec

\* A game always has a queue for /match/join to default to, unless two deletions
\* count the queues before either deletes its own.
THEOREM GameKeepsAQueue == CatalogSpec => []KeepsAQueue
<1>1. CatalogInv => KeepsAQueue
  <2>. SUFFICES ASSUME CatalogInv, gameRow, ~overlapped
                PROVE  ResolveQueue(queueRow, 0) # 0
    BY DEF KeepsAQueue
  <2>1. Stored(queueRow) # {}
    BY DEF CatalogInv, AnotherIsLeft
  <2>2. DefaultQueue(queueRow) \in QueueID
    BY <2>1, DefaultQueueStored DEF Stored
  <2>. QED  BY <2>1, <2>2, CatalogAssumption DEF ResolveQueue, QueueID
<1>. QED  BY <1>1, CatalogInvariance, PTL

\* An update of a game that was deleted meanwhile does not bring it back.
THEOREM GameStaysGone == CatalogSpec => []GameStaysDeleted
<1>1. CatalogInv => GameStaysDeleted
  BY DEF CatalogInv
<1>. QED  BY <1>1, CatalogInvariance, PTL

(***************************************************************************)
(* A walk through a listing.                                               *)
(***************************************************************************)
LEMMA Joined ==
    ASSUME NEW S, NEW a \in Seq(S), NEW b \in Seq(S)
    PROVE  /\ a \o b \in Seq(S) /\ Len(a \o b) = Len(a) + Len(b)
           /\ \A k \in 1 .. Len(a) : (a \o b)[k] = a[k]
           /\ \A k \in 1 .. Len(b) : (a \o b)[Len(a) + k] = b[k]
OBVIOUS

LEMMA InsertKeeps ==
    ASSUME NEW S, NEW s \in Seq(S), NEW e \in S, NEW i \in 1 .. Len(s) + 1
    PROVE  InsertAt(s, i, e) \in Seq(S) /\ ToSet(InsertAt(s, i, e)) = ToSet(s) \cup {e}
<1> DEFINE a == SubSeq(s, 1, i - 1)
           b == SubSeq(s, i, Len(s))
           t == InsertAt(s, i, e)
<1>1. a \in Seq(S) /\ Len(a) = i - 1 /\ \A k \in 1 .. i - 1 : a[k] = s[k]
  OBVIOUS
<1>2. b \in Seq(S) /\ Len(b) = Len(s) - i + 1 /\ \A k \in 1 .. Len(s) - i + 1 : b[k] = s[i + k - 1]
  OBVIOUS
<1>3. t = (a \o <<e>>) \o b
  BY DEF InsertAt
<1> HIDE DEF a, b, t
<1> DEFINE c == a \o <<e>>
<1>4. /\ c \in Seq(S) /\ Len(c) = i /\ c[i] = e
      /\ \A k \in 1 .. i - 1 : c[k] = s[k]
  BY <1>1
<1> HIDE DEF c
<1>10. /\ c \o b \in Seq(S) /\ Len(c \o b) = Len(c) + Len(b)
       /\ \A k \in 1 .. Len(c) : (c \o b)[k] = c[k]
       /\ \A k \in 1 .. Len(b) : (c \o b)[Len(c) + k] = b[k]
  BY <1>2, <1>4, Joined
<1>5. t \in Seq(S) /\ Len(t) = Len(s) + 1
  BY <1>2, <1>3, <1>4, <1>10 DEF c
<1>6. \A k \in 1 .. Len(s) + 1 : t[k] = IF k < i THEN s[k] ELSE IF k = i THEN e ELSE s[k - 1]
  <2> SUFFICES ASSUME NEW k \in 1 .. Len(s) + 1
               PROVE  t[k] = IF k < i THEN s[k] ELSE IF k = i THEN e ELSE s[k - 1]
    OBVIOUS
  <2>1. CASE k < i
    <3>1. k \in 1 .. i - 1 /\ k \in 1 .. i
      BY <2>1
    <3>2. t[k] = c[k] /\ c[k] = s[k]
      BY <1>3, <1>4, <1>10, <3>1 DEF c
    <3>. QED  BY <2>1, <3>2
  <2>2. CASE k = i
    <3>1. k \in 1 .. i /\ ~(k < i)
      BY <2>2
    <3>2. t[k] = c[k] /\ c[k] = e
      BY <1>3, <1>4, <1>10, <2>2, <3>1 DEF c
    <3>. QED  BY <2>2, <3>1, <3>2
  <2>3. CASE k > i
    <3>2. k - i \in 1 .. Len(s) - i + 1 /\ i + (k - i) - 1 = k - 1 /\ i + (k - i) = k
      BY <2>3
    <3>1. t[k] = b[k - i]
      BY <1>2, <1>3, <1>4, <1>10, <3>2 DEF c
    <3>. QED  BY <1>2, <2>3, <3>1, <3>2
  <2>. QED  BY <2>1, <2>2, <2>3
<1>7. ToSet(t) = ToSet(s) \cup {e}
  <2>1. ASSUME NEW x \in ToSet(t) PROVE x \in ToSet(s) \cup {e}
    <3>1. PICK k \in 1 .. Len(s) + 1 : x = t[k]
      BY <1>5, <2>1 DEF ToSet
    <3>. QED  BY <1>6, <3>1 DEF ToSet
  <2>2. e \in ToSet(t)
    <3>1. i \in 1 .. Len(s) + 1 /\ t[i] = e
      BY <1>6
    <3>. QED  BY <1>5, <3>1 DEF ToSet
  <2>3. ASSUME NEW x \in ToSet(s) PROVE x \in ToSet(t)
    <3>1. PICK k \in 1 .. Len(s) : x = s[k]
      BY <2>3 DEF ToSet
    <3>2. CASE k < i
      <4>1. k \in 1 .. Len(s) + 1 /\ t[k] = x
        BY <1>6, <3>1, <3>2
      <4>. QED  BY <1>5, <4>1 DEF ToSet
    <3>3. CASE ~(k < i)
      <4>1. k + 1 \in 1 .. Len(s) + 1 /\ ~(k + 1 < i) /\ k + 1 # i /\ (k + 1) - 1 = k
        BY <3>3
      <4>2. t[k + 1] = x
        BY <1>6, <3>1, <4>1
      <4>. QED  BY <1>5, <4>1, <4>2 DEF ToSet
    <3>. QED  BY <3>2, <3>3
  <2>. QED  BY <2>1, <2>2, <2>3
<1>. QED  BY <1>5, <1>7 DEF t

LEMMA RemoveKeeps ==
    ASSUME NEW S, NEW s \in Seq(S), NEW i \in 1 .. Len(s)
    PROVE  /\ RemoveAt(s, i) \in Seq(S) /\ Len(RemoveAt(s, i)) = Len(s) - 1
           /\ ToSet(s) = ToSet(RemoveAt(s, i)) \cup {s[i]}
<1> DEFINE a == SubSeq(s, 1, i - 1)
           b == SubSeq(s, i + 1, Len(s))
           t == RemoveAt(s, i)
<1>1. a \in Seq(S) /\ Len(a) = i - 1 /\ \A k \in 1 .. i - 1 : a[k] = s[k]
  OBVIOUS
<1>2. b \in Seq(S) /\ Len(b) = Len(s) - i /\ \A k \in 1 .. Len(s) - i : b[k] = s[i + k]
  OBVIOUS
<1>3. t = a \o b
  BY DEF RemoveAt
<1> HIDE DEF a, b, t
<1>10. /\ a \o b \in Seq(S) /\ Len(a \o b) = Len(a) + Len(b)
       /\ \A k \in 1 .. Len(a) : (a \o b)[k] = a[k]
       /\ \A k \in 1 .. Len(b) : (a \o b)[Len(a) + k] = b[k]
  <2>1. a \in Seq(S) /\ b \in Seq(S)
    BY <1>1, <1>2
  <2>. QED  BY <2>1, Joined
<1>4. t \in Seq(S) /\ Len(t) = Len(s) - 1
  BY <1>1, <1>2, <1>3, <1>10
<1>5. \A k \in 1 .. Len(s) - 1 : t[k] = IF k < i THEN s[k] ELSE s[k + 1]
  <2> SUFFICES ASSUME NEW k \in 1 .. Len(s) - 1 PROVE t[k] = IF k < i THEN s[k] ELSE s[k + 1]
    OBVIOUS
  <2>1. CASE k < i
    <3>1. k \in 1 .. i - 1
      BY <2>1
    <3>2. t[k] = a[k]
      BY <1>1, <1>3, <1>10, <3>1
    <3>. QED  BY <1>1, <2>1, <3>1, <3>2
  <2>2. CASE ~(k < i)
    <3>2. k - i + 1 \in 1 .. Len(s) - i /\ i + (k - i + 1) = k + 1 /\ (i - 1) + (k - i + 1) = k
      BY <2>2
    <3>3. k - i + 1 \in 1 .. Len(b) /\ Len(a) + (k - i + 1) = k
      BY <1>1, <1>2, <3>2
    <3>4. (a \o b)[Len(a) + (k - i + 1)] = b[k - i + 1]
      BY <1>10, <3>3
    <3>1. t[k] = b[k - i + 1]
      BY <1>3, <3>3, <3>4
    <3>. QED  BY <1>2, <2>2, <3>1, <3>2
  <2>. QED  BY <2>1, <2>2
<1>6. ToSet(s) = ToSet(t) \cup {s[i]}
  <2>1. ASSUME NEW x \in ToSet(t) PROVE x \in ToSet(s)
    <3>1. PICK k \in 1 .. Len(s) - 1 : x = t[k]
      BY <1>4, <2>1 DEF ToSet
    <3>2. k \in 1 .. Len(s) /\ k + 1 \in 1 .. Len(s)
      OBVIOUS
    <3>. QED  BY <1>5, <3>1, <3>2 DEF ToSet
  <2>2. ASSUME NEW x \in ToSet(s) PROVE x \in ToSet(t) \cup {s[i]}
    <3>1. PICK k \in 1 .. Len(s) : x = s[k]
      BY <2>2 DEF ToSet
    <3>2. CASE k < i
      <4>1. k \in 1 .. Len(s) - 1 /\ t[k] = x
        BY <1>5, <3>1, <3>2
      <4>. QED  BY <1>4, <4>1 DEF ToSet
    <3>3. CASE k > i
      <4>1. k - 1 \in 1 .. Len(s) - 1 /\ ~(k - 1 < i) /\ (k - 1) + 1 = k
        BY <3>3
      <4>2. t[k - 1] = x
        BY <1>5, <3>1, <4>1
      <4>. QED  BY <1>4, <4>1, <4>2 DEF ToSet
    <3>. QED  BY <3>1, <3>2, <3>3
  <2>3. s[i] \in ToSet(s)
    BY DEF ToSet
  <2>. QED  BY <2>1, <2>2, <2>3
<1>. QED  BY <1>4, <1>6 DEF t

\* The newest first, and the leaderboard, list everybody once.
NewerThan == [p \in attached |-> {q \in attached : q > p}]
RankedAbove == [p \in ResultID |-> {q \in ResultID : Ranked(q, p)}]

LEMMA NewestFirstLists ==
    ASSUME PagesTypeOK
    PROVE  /\ IsFiniteSet(attached) /\ attached \subseteq ResultID
           /\ NewestFirst \in Seq(ResultID) /\ NewestFirst \in Seq(attached)
           /\ \A r \in attached : /\ Cardinality(NewerThan[r]) + 1 \in 1 .. Len(NewestFirst)
                                  /\ NewestFirst[Cardinality(NewerThan[r]) + 1] = r
<1> DEFINE list == NewestFirst
<1>1. attached \in SUBSET ResultID
  <2>1. stored \in Seq(ResultID)
    BY DEF PagesTypeOK
  <2>2. ToSet(stored) \subseteq ResultID
    BY <2>1 DEF ToSet
  <2>. QED  BY <2>2 DEF PagesTypeOK
<1>2. IsFiniteSet(ResultID)
  BY FS_Interval, PagesAssumption DEF ResultID
<1>3. IsFiniteSet(attached) /\ attached \subseteq Nat
  <2>1. ResultID \subseteq Nat
    BY DEF ResultID
  <2>. QED  BY <1>1, <1>2, <2>1, FS_Subset
<1>4. IsOrder(NewerThan, attached)
  <2>1. NewerThan \in [attached -> SUBSET attached] /\ \A p, q \in attached : q \in NewerThan[p] <=> q > p
    BY DEF NewerThan
  <2>2. ASSUME NEW p \in attached, NEW q \in attached, p \in NewerThan[q], NEW x \in NewerThan[p]
        PROVE  x \in NewerThan[q]
    <3>1. x \in attached /\ x > p /\ p > q
      BY <2>1, <2>2
    <3>2. x \in Nat /\ p \in Nat /\ q \in Nat
      BY <1>3, <3>1
    <3>3. x > q
      BY <3>1, <3>2
    <3>. QED  BY <2>1, <3>1, <3>3
  <2>3. \A p, q \in attached : ~(p > p) /\ (p # q => p > q \/ q > p)
    BY <1>3
  <2>. QED  BY <2>1, <2>2, <2>3 DEF IsOrder
<1>5. IsListing(list, NewerThan, attached)
  <2>1. \A p \in attached : NewerThan[p] = {q \in attached : q > p}
    BY DEF NewerThan
  <2> DEFINE g(i) == CHOOSE p \in attached : Cardinality({q \in attached : q > p}) = i - 1
             h(i) == CHOOSE p \in attached : Cardinality(NewerThan[p]) = i - 1
  <2>2. \A i : g(i) = h(i)
    BY <2>1
  <2>3. list = [i \in 1 .. Cardinality(attached) |-> g(i)]
    BY DEF NewestFirst, OrderedBy
  <2> HIDE DEF list
  <2>4. list = [i \in 1 .. Cardinality(attached) |-> h(i)]
    <3> HIDE DEF g, h
    <3>. QED  BY <2>2, <2>3
  <2>. QED  BY <2>4, ListedByChoice
<1> HIDE DEF list
<1>6. /\ list \in Seq(attached) /\ Len(list) = Cardinality(attached)
      /\ \A p \in attached : Cardinality(NewerThan[p]) + 1 \in 1 .. Len(list)
                             /\ list[Cardinality(NewerThan[p]) + 1] = p
  BY <1>3, <1>4, <1>5, ListedInOrder
<1>7. list \in Seq(ResultID)
  <2>1. Len(list) \in Nat /\ list \in [1 .. Len(list) -> attached]
    BY <1>6
  <2>2. list \in [1 .. Len(list) -> ResultID]
    BY <1>1, <2>1
  <2>. QED  BY <2>1, <2>2
<1>. QED  BY <1>1, <1>3, <1>6, <1>7 DEF list

LEMMA LeaderboardLists ==
    ASSUME PagesTypeOK
    PROVE  Leaderboard \in Seq(ResultID)
<1> DEFINE list == Leaderboard
<1>1. IsFiniteSet(ResultID) /\ ResultID \subseteq Nat
  BY FS_Interval, PagesAssumption DEF ResultID
<1>2. \A p \in ResultID : points[p] \in Nat /\ p \in Nat
  BY <1>1 DEF PagesTypeOK, Points
<1>3. IsOrder(RankedAbove, ResultID)
  <2>1. /\ RankedAbove \in [ResultID -> SUBSET ResultID]
        /\ \A p, q \in ResultID : q \in RankedAbove[p] <=> Ranked(q, p)
    BY DEF RankedAbove
  <2>2. ASSUME NEW p \in ResultID, NEW q \in ResultID, p \in RankedAbove[q], NEW x \in RankedAbove[p]
        PROVE  x \in RankedAbove[q]
    <3>1. x \in ResultID /\ Ranked(x, p) /\ Ranked(p, q)
      BY <2>1, <2>2
    <3>2. /\ x \in Nat /\ p \in Nat /\ q \in Nat
          /\ points[x] \in Nat /\ points[p] \in Nat /\ points[q] \in Nat
      BY <1>2, <3>1
    <3>3. Ranked(x, q)
      BY <3>1, <3>2 DEF Ranked
    <3>. QED  BY <2>1, <3>1, <3>3
  <2>3. ASSUME NEW p \in ResultID, NEW q \in ResultID
        PROVE  ~Ranked(p, p) /\ (p # q => Ranked(p, q) \/ Ranked(q, p))
    <3>1. p \in Nat /\ q \in Nat /\ points[p] \in Nat /\ points[q] \in Nat
      BY <1>2
    <3>. QED  BY <3>1 DEF Ranked
  <2>. QED  BY <2>1, <2>2, <2>3 DEF IsOrder
<1>4. IsListing(list, RankedAbove, ResultID)
  <2>1. \A p \in ResultID : RankedAbove[p] = {q \in ResultID : Ranked(q, p)}
    BY DEF RankedAbove
  <2> DEFINE g(i) == CHOOSE p \in ResultID : Cardinality({q \in ResultID : Ranked(q, p)}) = i - 1
             h(i) == CHOOSE p \in ResultID : Cardinality(RankedAbove[p]) = i - 1
  <2>2. \A i : g(i) = h(i)
    BY <2>1
  <2>3. list = [i \in 1 .. Cardinality(ResultID) |-> g(i)]
    BY DEF Leaderboard, OrderedBy
  <2> HIDE DEF list
  <2>4. list = [i \in 1 .. Cardinality(ResultID) |-> h(i)]
    <3> HIDE DEF g, h
    <3>. QED  BY <2>2, <2>3
  <2>. QED  BY <2>4, ListedByChoice
<1> HIDE DEF list
<1>5. list \in Seq(ResultID)
  BY <1>1, <1>3, <1>4, ListedInOrder
<1>. QED  BY <1>5 DEF list

LEMMA RowsAreResults ==
    ASSUME PagesTypeOK
    PROVE  ListedRows \in Seq(ResultID)
<1>1. walk.of \in {"artifacts", "all", "game", "guest", "user", "leaderboard"}
  BY PagesAssumption DEF PagesTypeOK
<1>2. stored \in Seq(ResultID) /\ <<>> \in Seq(ResultID)
  BY DEF PagesTypeOK
<1>. QED  BY <1>1, <1>2, NewestFirstLists, LeaderboardLists DEF ListedRows, ResultsOfPlayer

\* What is on a page.
LEMMA PageShows ==
    ASSUME NEW rows \in Seq(ResultID), NEW offset \in Nat
    PROVE  LET page == SubSeq(rows, offset + 1, Min({offset + PageSize, Len(rows)}))
           IN  /\ page \in Seq(ResultID)
               /\ \A j \in 1 .. Len(rows) : offset < j /\ j <= offset + PageSize => rows[j] \in ToSet(page)
<1> DEFINE to == Min({offset + PageSize, Len(rows)})
           page == SubSeq(rows, offset + 1, to)
<1>1. PageSize \in Nat \ {0} /\ Len(rows) \in Nat
  BY PagesAssumption
<1>2. to \in {offset + PageSize, Len(rows)} /\ to <= offset + PageSize /\ to <= Len(rows)
  <2>1. offset + PageSize \in Nat
    BY <1>1
  <2>2. \E x \in {offset + PageSize, Len(rows)} : \A y \in {offset + PageSize, Len(rows)} : x <= y
    BY <1>1, <2>1
  <2>. QED  BY <2>2 DEF Min
<1> HIDE DEF to
<1>3. to \in Nat
  BY <1>1, <1>2
<1>4. page \in Seq(ResultID)
  BY <1>1, <1>2, <1>3
<1>5. ASSUME NEW j \in 1 .. Len(rows), offset < j, j <= offset + PageSize
      PROVE  rows[j] \in ToSet(page)
  <2>1. j <= to
    BY <1>1, <1>2, <1>5
  <2>2. j - offset \in 1 .. to - offset /\ offset + 1 + (j - offset) - 1 = j
    BY <1>3, <1>5, <2>1
  <2>3. Len(page) = to - offset /\ page[j - offset] = rows[offset + 1 + (j - offset) - 1]
    BY <1>1, <1>2, <1>3, <1>5, <2>1, <2>2
  <2> HIDE DEF page
  <2>4. j - offset \in 1 .. Len(page) /\ page[j - offset] = rows[j]
    BY <2>2, <2>3
  <2>. QED  BY <1>4, <2>4 DEF ToSet
<1>. QED  BY <1>4, <1>5 DEF to

WalkStep == {"start", "page", "done"}

LEMMA PagesTypeInit == PagesInit => PagesTypeOK
<1> SUFFICES ASSUME PagesInit PROVE PagesTypeOK
  OBVIOUS
<1>1. stored \in Seq(ResultID) /\ attached \subseteq ToSet(stored)
  BY DEF PagesInit
<1>2. points \in [ResultID -> Points]
  BY DEF PagesInit, Points
<1>3. walk \in [of: Listing, at: WalkStep, page: Nat, shown: SUBSET ResultID,
                began: SUBSET ResultID, written: BOOLEAN]
  <2>1. walk \in [of: Listing, at: {"start"}, page: {0}, shown: {{}}, began: {{}}, written: {FALSE}]
    BY DEF PagesInit
  <2>2. 0 \in Nat /\ {} \in SUBSET ResultID /\ FALSE \in BOOLEAN /\ "start" \in WalkStep
    BY DEF WalkStep
  <2>. QED  BY <2>1, <2>2
<1>. QED  BY <1>1, <1>2, <1>3 DEF PagesTypeOK, WalkStep

LEMMA ListPageType ==
    ASSUME PagesTypeOK, ListPage
    PROVE  PagesTypeOK'
<1> DEFINE offset == walk.page * PageSize
           page == SubSeq(ListedRows, offset + 1, Min({offset + PageSize, Len(ListedRows)}))
<1>1. /\ walk' = [walk EXCEPT !.at = IF LastPage(offset) THEN "done" ELSE @,
                              !.page = @ + 1,
                              !.shown = @ \cup Shown(page)]
      /\ UNCHANGED <<stored, attached, points>>
  BY DEF ListPage
<1>2. walk \in [of: Listing, at: WalkStep, page: Nat, shown: SUBSET ResultID,
                began: SUBSET ResultID, written: BOOLEAN]
  BY DEF PagesTypeOK, WalkStep
<1>3. offset \in Nat
  BY <1>2, PagesAssumption
<1>4. Shown(page) \in SUBSET ResultID
  <2>1. page \in Seq(ResultID)
    <3> HIDE DEF offset
    <3>. QED  BY <1>3, RowsAreResults, PageShows
  <2> HIDE DEF page
  <2>. QED  BY <2>1 DEF Shown, ToSet
<1> HIDE DEF page, offset
<1>5. walk' \in [of: Listing, at: WalkStep, page: Nat, shown: SUBSET ResultID,
                 began: SUBSET ResultID, written: BOOLEAN]
  <2>1. PICK at \in WalkStep, more \in SUBSET ResultID :
               walk' = [walk EXCEPT !.at = at, !.page = @ + 1, !.shown = @ \cup more]
    <3>1. (IF LastPage(offset) THEN "done" ELSE walk.at) \in WalkStep
      BY <1>2 DEF WalkStep
    <3>. QED  BY <1>1, <1>4, <3>1
  <2>2. walk.page + 1 \in Nat /\ walk.shown \cup more \in SUBSET ResultID
    BY <1>2
  <2>3. walk' = [walk EXCEPT !.at = at, !.page = walk.page + 1, !.shown = walk.shown \cup more]
    BY <2>1
  <2>. QED  BY <1>2, <2>2, <2>3
<1>. QED  BY <1>1, <1>5 DEF PagesTypeOK, WalkStep, Points, ResultID

LEMMA PagesTypeStep ==
    ASSUME PagesTypeOK, [PagesNext]_pageVars
    PROVE  PagesTypeOK'
<1>0. stored \in Seq(ResultID) /\ attached \subseteq ToSet(stored)
  BY DEF PagesTypeOK
<1>1. ASSUME Written PROVE walk' \in [of: Listing, at: WalkStep, page: Nat, shown: SUBSET ResultID,
                                      began: SUBSET ResultID, written: BOOLEAN]
  BY <1>1 DEF Written, PagesTypeOK, WalkStep
<1>2. ASSUME NEW artifacts \in BOOLEAN, InsertResult(artifacts) PROVE PagesTypeOK'
  <2>1. PICK i \in 1 .. Len(stored) + 1 : stored' = InsertAt(stored, i, Len(stored) + 1)
    BY <1>2 DEF InsertResult
  <2>2. Len(stored) + 1 \in ResultID
    BY <1>0, <1>2, PagesAssumption DEF InsertResult, ResultID
  <2>3. stored' \in Seq(ResultID) /\ ToSet(stored') = ToSet(stored) \cup {Len(stored) + 1}
    BY <1>0, <2>1, <2>2, InsertKeeps
  <2>4. attached' \subseteq ToSet(stored')
    BY <1>0, <1>2, <2>3 DEF InsertResult
  <2>5. Written /\ UNCHANGED points
    BY <1>2 DEF InsertResult
  <2>. QED  BY <1>1, <2>3, <2>4, <2>5 DEF PagesTypeOK, WalkStep
<1>3. ASSUME NEW artifacts \in BOOLEAN, NEW r \in ResultID, UpdateResult(r, artifacts) PROVE PagesTypeOK'
  <2>1. PICK i \in 1 .. Len(stored), at \in 1 .. Len(stored) :
               stored[at] = r /\ stored' = InsertAt(RemoveAt(stored, at), i, r)
    BY <1>3 DEF UpdateResult
  <2> DEFINE rest == RemoveAt(stored, at)
  <2>2. rest \in Seq(ResultID) /\ Len(rest) = Len(stored) - 1 /\ ToSet(stored) = ToSet(rest) \cup {r}
    BY <1>0, <2>1, RemoveKeeps
  <2>3. i \in 1 .. Len(rest) + 1
    <3> HIDE DEF rest
    <3>. QED  BY <1>0, <2>2
  <2>4. stored' \in Seq(ResultID) /\ ToSet(stored') = ToSet(rest) \cup {r}
    <3>1. stored' = InsertAt(rest, i, r)
      BY <2>1
    <3> HIDE DEF rest
    <3>. QED  BY <2>2, <2>3, <3>1, InsertKeeps
  <2>5. attached' \subseteq ToSet(stored')
    BY <1>0, <1>3, <2>2, <2>4 DEF UpdateResult
  <2>6. Written /\ UNCHANGED points
    BY <1>3 DEF UpdateResult
  <2>. QED  BY <1>1, <2>4, <2>5, <2>6 DEF PagesTypeOK, WalkStep
<1>4. ASSUME NEW p \in ResultID, RatingMoves(p) PROVE PagesTypeOK'
  <2>1. points' \in [ResultID -> Points]
    BY <1>4 DEF RatingMoves, PagesTypeOK
  <2>. QED  BY <1>1, <1>4, <2>1 DEF RatingMoves, PagesTypeOK, WalkStep
<1>5. CASE BeginWalk
  <2>1. ToList \in SUBSET ResultID
    <3>1. \A rows \in Seq(ResultID) : Shown(rows) \in SUBSET ResultID
      BY DEF Shown, ToSet
    <3>. QED  BY <1>0, <3>1, RowsAreResults DEF ToList
  <2>. QED  BY <1>5, <2>1 DEF BeginWalk, PagesTypeOK
<1>6. CASE ListPage
  BY <1>6, ListPageType
<1>7. CASE UNCHANGED pageVars
  BY <1>7 DEF pageVars, PagesTypeOK
<1>. QED  BY <1>2, <1>3, <1>4, <1>5, <1>6, <1>7 DEF PagesNext

\* Results inserted, moved in the table and given artifacts, ratings that move,
\* and a client that pages through any listing (matchResult.go, rating.go): a
\* result has artifacts only while it is stored, and pages hold results.
THEOREM PagesTypes == PagesSpec => []PagesTypeOK
BY PagesTypeInit, PagesTypeStep, PTL DEF PagesSpec

\* Of the artifacts, whatever the walk has still to show stands on the pages to
\* come, however many newer results push it back.
PushedBack ==
    walk.of = "artifacts" =>
        /\ walk.at # "start" => walk.began \subseteq attached
        /\ \A r \in walk.began \ walk.shown :
              walk.at = "page" /\ Cardinality(NewerThan[r]) >= walk.page * PageSize

\* Of a table that is not written, all up to the last page has been shown.
ShownSoFar ==
    walk.at # "start" /\ walk.of # "artifacts" /\ ~walk.written =>
        /\ walk.began = Shown(ListedRows)
        /\ \A j \in 1 .. Len(ListedRows) :
              CanUserSeeMatchResult(ListedRows[j]) /\ (walk.at = "done" \/ j <= walk.page * PageSize)
                  => ListedRows[j] \in walk.shown

WalkInv == (walk.at = "start" => walk.page = 0 /\ walk.began = {}) /\ PushedBack /\ ShownSoFar

LEMMA WalkInvInit == PagesInit => WalkInv
BY DEF PagesInit, WalkInv, PushedBack, ShownSoFar

LEMMA WalkInvShows == PagesTypeOK /\ WalkInv => WalkMissesNothing
<1> SUFFICES ASSUME PagesTypeOK, WalkInv, walk.at = "done", walk.of = "artifacts" \/ ~walk.written,
                    NEW r \in walk.began
             PROVE  r \in walk.shown
  BY DEF WalkMissesNothing
<1>1. CASE walk.of = "artifacts"
  BY <1>1 DEF WalkInv, PushedBack
<1>2. CASE walk.of # "artifacts"
  <2>1. r \in ToSet(ListedRows) /\ CanUserSeeMatchResult(r)
    BY <1>2 DEF WalkInv, ShownSoFar, Shown
  <2>2. ListedRows \in Seq(ResultID)
    BY RowsAreResults
  <2>3. PICK j \in 1 .. Len(ListedRows) : r = ListedRows[j]
    BY <2>1, <2>2 DEF ToSet
  <2>. QED  BY <1>2, <2>1, <2>3 DEF WalkInv, ShownSoFar
<1>. QED  BY <1>1, <1>2

\* A result that is inserted or torn down pushes others back and nothing forward.
LEMMA WrittenKeeps ==
    ASSUME PagesTypeOK, PagesTypeOK', WalkInv, Written, attached \subseteq attached'
    PROVE  WalkInv'
<1>1. walk' = [walk EXCEPT !.written = TRUE]
  BY DEF Written
<1>2. /\ walk'.of = walk.of /\ walk'.at = walk.at /\ walk'.page = walk.page
      /\ walk'.shown = walk.shown /\ walk'.began = walk.began /\ walk'.written
  BY <1>1 DEF PagesTypeOK
<1>3. ASSUME walk.of = "artifacts", NEW r \in walk.began \ walk.shown
      PROVE  Cardinality(NewerThan'[r]) >= walk.page * PageSize
  <2>1. walk.at = "page" /\ Cardinality(NewerThan[r]) >= walk.page * PageSize
    BY <1>3 DEF WalkInv, PushedBack
  <2>2. r \in attached /\ r \in attached'
    BY <1>3, <2>1 DEF WalkInv, PushedBack
  <2>3. IsFiniteSet(attached)
    BY NewestFirstLists
  <2>4. IsFiniteSet(attached')
    <3>1. IsFiniteSet(ResultID)
      BY FS_Interval, PagesAssumption DEF ResultID
    <3>2. attached' \in SUBSET ResultID
      BY DEF PagesTypeOK, ToSet
    <3>. QED  BY <3>1, <3>2, FS_Subset
  <2>5. NewerThan[r] \in SUBSET NewerThan'[r] /\ NewerThan'[r] \in SUBSET attached'
    BY <2>2 DEF NewerThan
  <2>6. IsFiniteSet(NewerThan'[r])
    BY <2>4, <2>5, FS_Subset
  <2>7. /\ IsFiniteSet(NewerThan[r]) /\ Cardinality(NewerThan[r]) <= Cardinality(NewerThan'[r])
    BY <2>5, <2>6, FS_Subset
  <2>8. Cardinality(NewerThan[r]) \in Nat /\ Cardinality(NewerThan'[r]) \in Nat
    BY <2>6, <2>7, FS_CardinalityType
  <2>9. walk.page * PageSize \in Nat
    BY PagesAssumption DEF PagesTypeOK
  <2>. QED  BY <2>1, <2>7, <2>8, <2>9
<1>4. PushedBack'
  BY <1>2, <1>3 DEF WalkInv, PushedBack
<1>5. ShownSoFar'
  BY <1>2 DEF ShownSoFar
<1>. QED  BY <1>2, <1>4, <1>5 DEF WalkInv

LEMMA RowsStay ==
    ASSUME UNCHANGED <<stored, attached, points>>, walk'.of = walk.of
    PROVE  /\ ListedRows' = ListedRows /\ Shown(ListedRows)' = Shown(ListedRows) /\ NewerThan' = NewerThan
           /\ \A r : CanUserSeeMatchResult(r)' = CanUserSeeMatchResult(r)
<1>1. NewestFirst' = NewestFirst /\ NewerThan' = NewerThan
  BY DEF NewestFirst, NewerThan, OrderedBy
<1>2. Leaderboard' = Leaderboard
  BY DEF Leaderboard, Ranked, OrderedBy
<1>3. ListedRows' = ListedRows
  BY <1>1, <1>2 DEF ListedRows, ResultsOfPlayer
<1>. QED  BY <1>1, <1>3 DEF Shown, CanUserSeeMatchResult

LEMMA BeginWalkKeeps ==
    ASSUME PagesTypeOK, PagesTypeOK', "user" \notin Listing, WalkInv, BeginWalk
    PROVE  WalkInv'
<1>1. /\ walk.at = "start" /\ walk' = [walk EXCEPT !.at = "page", !.began = ToList, !.written = FALSE]
      /\ UNCHANGED <<stored, attached, points>>
  BY DEF BeginWalk
<1>2. walk.of \in Listing /\ walk.of # "user" /\ walk.page = 0
  BY <1>1 DEF PagesTypeOK, WalkInv
<1>3. /\ walk'.of = walk.of /\ walk'.at = "page" /\ walk'.page = 0 /\ walk'.began = ToList
  BY <1>1, <1>2 DEF PagesTypeOK
<1>4. /\ ListedRows' = ListedRows /\ Shown(ListedRows)' = Shown(ListedRows) /\ NewerThan' = NewerThan
  BY <1>1, <1>3, RowsStay
<1>5. ToList = Shown(ListedRows)
  BY <1>2 DEF ToList
<1>6. walk.of = "artifacts" => ToList \subseteq attached
  <2> SUFFICES ASSUME walk.of = "artifacts" PROVE Shown(NewestFirst) \subseteq attached
    BY <1>5 DEF ListedRows
  <2>1. NewestFirst \in Seq(attached)
    BY NewestFirstLists
  <2>. QED  BY <2>1 DEF Shown, ToSet
<1>7. PushedBack'
  <2> SUFFICES ASSUME walk.of = "artifacts", NEW r \in ToList
               PROVE  Cardinality(NewerThan[r]) >= 0 * PageSize
    BY <1>1, <1>3, <1>4, <1>6 DEF PushedBack
  <2>1. r \in attached /\ IsFiniteSet(attached)
    BY <1>6, NewestFirstLists
  <2>2. NewerThan[r] \in SUBSET attached
    BY <2>1 DEF NewerThan
  <2>3. Cardinality(NewerThan[r]) \in Nat
    BY <2>1, <2>2, FS_Subset, FS_CardinalityType
  <2>. QED  BY <2>3, PagesAssumption
<1>8. ShownSoFar'
  <2>1. 0 * PageSize = 0
    BY PagesAssumption
  <2>2. Len(ListedRows) \in Nat
    BY RowsAreResults
  <2>. QED  BY <1>3, <1>4, <1>5, <2>1, <2>2 DEF ShownSoFar
<1>. QED  BY <1>3, <1>7, <1>8 DEF WalkInv

LEMMA ListPageKeeps ==
    ASSUME PagesTypeOK, PagesTypeOK', WalkInv, ListPage
    PROVE  WalkInv'
<1> DEFINE offset == walk.page * PageSize
           page == SubSeq(ListedRows, offset + 1, Min({offset + PageSize, Len(ListedRows)}))
<1>1. /\ walk.at = "page"
      /\ walk' = [walk EXCEPT !.at = IF LastPage(offset) THEN "done" ELSE @,
                              !.page = @ + 1,
                              !.shown = @ \cup Shown(page)]
      /\ UNCHANGED <<stored, attached, points>>
  BY DEF ListPage
<1>2. walk.page \in Nat /\ offset \in Nat /\ PageSize \in Nat \ {0} /\ Len(ListedRows) \in Nat
  BY RowsAreResults, PagesAssumption DEF PagesTypeOK
<1>3. (walk.page + 1) * PageSize = offset + PageSize
  <2>1. \A m, n \in Nat : (m + 1) * n = m * n + n
    OBVIOUS
  <2>. QED  BY <1>2, <2>1
<1>4. \A j \in 1 .. Len(ListedRows) : offset < j /\ j <= offset + PageSize => ListedRows[j] \in ToSet(page)
  <2> HIDE DEF offset
  <2>. QED  BY <1>2, RowsAreResults, PageShows
<1> HIDE DEF page
<1>5. /\ walk'.of = walk.of /\ walk'.at = (IF LastPage(offset) THEN "done" ELSE "page")
      /\ walk'.page = walk.page + 1 /\ walk'.shown = walk.shown \cup Shown(page)
      /\ walk'.began = walk.began /\ walk'.written = walk.written
  BY <1>1 DEF PagesTypeOK
<1>6. /\ ListedRows' = ListedRows /\ Shown(ListedRows)' = Shown(ListedRows) /\ NewerThan' = NewerThan
      /\ \A r : CanUserSeeMatchResult(r)' = CanUserSeeMatchResult(r)
  BY <1>1, <1>5, RowsStay
<1>7. PushedBack'
  <2> SUFFICES ASSUME walk.of = "artifacts", NEW r \in walk.began \ walk'.shown
               PROVE  ~LastPage(offset) /\ Cardinality(NewerThan[r]) >= offset + PageSize
    <3>1. walk.of = "artifacts" => walk.began \subseteq attached'
      BY <1>1 DEF WalkInv, PushedBack
    <3> HIDE DEF offset
    <3>. QED  BY <1>3, <1>5, <1>6, <3>1 DEF PushedBack
  <2> DEFINE c == Cardinality(NewerThan[r])
  <2>1. r \in attached /\ r \notin walk.shown /\ r \notin Shown(page) /\ c >= offset
    BY <1>1, <1>5 DEF WalkInv, PushedBack
  <2>2. ListedRows = NewestFirst /\ CanUserSeeMatchResult(r)
    BY DEF ListedRows, CanUserSeeMatchResult
  <2>3. c + 1 \in 1 .. Len(ListedRows) /\ ListedRows[c + 1] = r /\ c \in Nat
    <3>1. c + 1 \in 1 .. Len(ListedRows) /\ ListedRows[c + 1] = r
      BY <2>1, <2>2, NewestFirstLists
    <3>2. c \in Nat
      <4>1. IsFiniteSet(attached) /\ NewerThan[r] \in SUBSET attached
        BY <2>1, NewestFirstLists DEF NewerThan
      <4>. QED  BY <4>1, FS_Subset, FS_CardinalityType
    <3>. QED  BY <3>1, <3>2
  <2>4. r \notin ToSet(page)
    BY <2>1, <2>2 DEF Shown
  <2> HIDE DEF c, offset
  <2>5. c + 1 > offset + PageSize
    BY <1>2, <1>4, <2>1, <2>3, <2>4
  <2>6. ~(offset + PageSize >= Len(ListedRows))
    BY <1>2, <2>3, <2>5
  <2>. QED  BY <1>2, <2>3, <2>5, <2>6 DEF LastPage, c
<1>8. ShownSoFar'
  <2> SUFFICES ASSUME walk.of # "artifacts", ~walk.written
               PROVE  /\ walk.began = Shown(ListedRows)
                      /\ \A j \in 1 .. Len(ListedRows) :
                            CanUserSeeMatchResult(ListedRows[j]) /\ (LastPage(offset) \/ j <= offset + PageSize)
                                => ListedRows[j] \in walk.shown \cup Shown(page)
    <3> HIDE DEF offset
    <3>. QED  BY <1>3, <1>5, <1>6 DEF ShownSoFar
  <2>1. walk.began = Shown(ListedRows)
    BY <1>1 DEF WalkInv, ShownSoFar
  <2>2. ASSUME NEW j \in 1 .. Len(ListedRows), CanUserSeeMatchResult(ListedRows[j]),
               LastPage(offset) \/ j <= offset + PageSize
        PROVE  ListedRows[j] \in walk.shown \cup Shown(page)
    <3>1. CASE j <= offset
      BY <1>1, <2>2, <3>1 DEF WalkInv, ShownSoFar
    <3>2. CASE ~(j <= offset)
      <4> HIDE DEF offset
      <4>1. j <= offset + PageSize
        BY <1>2, <2>2 DEF LastPage
      <4>2. offset < j
        BY <1>2, <3>2
      <4>3. ListedRows[j] \in ToSet(page)
        BY <1>4, <4>1, <4>2
      <4>. QED  BY <2>2, <4>3 DEF Shown
    <3>. QED  BY <3>1, <3>2
  <2>. QED  BY <2>1, <2>2
<1>9. walk'.at # "start"
  BY <1>5
<1>. QED  BY <1>7, <1>8, <1>9 DEF WalkInv

LEMMA WalkInvStep ==
    ASSUME PagesTypeOK, "user" \notin Listing, WalkInv, [PagesNext]_pageVars
    PROVE  WalkInv'
<1>0. PagesTypeOK'
  BY PagesTypeStep
<1>1. ASSUME NEW artifacts \in BOOLEAN, InsertResult(artifacts) PROVE WalkInv'
  BY <1>0, <1>1, WrittenKeeps DEF InsertResult
<1>2. ASSUME NEW artifacts \in BOOLEAN, NEW r \in ResultID, UpdateResult(r, artifacts) PROVE WalkInv'
  BY <1>0, <1>2, WrittenKeeps DEF UpdateResult
<1>3. ASSUME NEW p \in ResultID, RatingMoves(p) PROVE WalkInv'
  BY <1>0, <1>3, WrittenKeeps DEF RatingMoves
<1>4. CASE BeginWalk
  BY <1>0, <1>4, BeginWalkKeeps
<1>5. CASE ListPage
  BY <1>0, <1>5, ListPageKeeps
<1>6. CASE UNCHANGED pageVars
  <2>1. UNCHANGED <<stored, attached, points, walk>>
    BY <1>6 DEF pageVars
  <2>2. /\ ListedRows' = ListedRows /\ Shown(ListedRows)' = Shown(ListedRows) /\ NewerThan' = NewerThan
        /\ \A r : CanUserSeeMatchResult(r)' = CanUserSeeMatchResult(r)
    BY <2>1, RowsStay
  <2>. QED  BY <2>1, <2>2 DEF WalkInv, PushedBack, ShownSoFar
<1>. QED  BY <1>1, <1>2, <1>3, <1>4, <1>5, <1>6 DEF PagesNext

\* Whoever pages through a listing to its end misses nothing that was listed
\* when he began: for any number of results, any page size and any listing but
\* that of a registered user's own results, whose statement always fails.
THEOREM WalksMissNothing ==
    ASSUME "user" \notin Listing
    PROVE  PagesSpec => []WalkMissesNothing
<1>1. PagesTypeOK /\ WalkInv /\ [PagesNext]_pageVars => (PagesTypeOK /\ WalkInv)'
  BY PagesTypeStep, WalkInvStep
<1>. QED  BY <1>1, PagesTypeInit, WalkInvInit, WalkInvShows, PTL DEF PagesSpec

(***************************************************************************)
(* The five components side by side: a behaviour of all is one of each.    *)
(***************************************************************************)
LEMMA ServicesSideBySide ==
    ServicesSpec => Spec /\ ArtifactSpec /\ CatalogSpec /\ PagesSpec /\ TLSSpec
<1>1. ServicesInit => Init /\ ArtifactInit /\ CatalogInit /\ PagesInit /\ TLSInit
  BY DEF ServicesInit
<1>2. ASSUME [ServicesNext]_<<part, vars, artifactVars, catalogVars, pageVars, tlsVars>>
      PROVE  /\ [Next]_vars
             /\ [ArtifactNext]_artifactVars
             /\ [CatalogNext]_catalogVars
             /\ [PagesNext]_pageVars
             /\ [TLSNext]_tlsVars
  BY <1>2 DEF ServicesNext
<1>. QED
  BY <1>1, <1>2, PTL DEF ServicesSpec, Spec, ArtifactSpec, CatalogSpec, PagesSpec, TLSSpec

\* A lobby, a match's artifacts, a game's queues, the listings and the
\* certificate, one beside another: the state of each keeps its types.
THEOREM ServicesTypes == ServicesSpec => []ServicesTypeOK
<1>1. TypeOK /\ ArtifactInv /\ CatalogInv /\ PagesTypeOK /\ TLSTypeOK => ServicesTypeOK
  BY DEF ServicesTypeOK, ArtifactInv, CatalogInv
<1>. QED
  BY <1>1, ServicesSideBySide, LobbyTypes, ArtifactInvariance, CatalogInvariance, PagesTypes, CertificateTypes, PTL
=============================================================================
