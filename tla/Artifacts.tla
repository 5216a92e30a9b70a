----------------------------- MODULE Artifacts -----------------------------
(***************************************************************************)
(* The artifacts and logs of one match: the game server's uploads, each an *)
(* object and an entry in the match's index object, against the teardown   *)
(* that reads the logs and the index a last time.                          *)
(*                                                                         *)
(* Nothing keeps uploads apart: each checks the cap against the index, puts*)
(* its object, reads the index again and writes it back.  The game server  *)
(* may give a request up: what S3 was asked to do for it may then still be *)
(* done, at any later time.  And the index is an object among the others,  *)
(* under a name that an upload may have: its bytes then replace the index, *)
(* and are taken not to be one.                                            *)
(***************************************************************************)
EXTENDS Naturals, FiniteSets

CONSTANTS
    Request,        \* calls of UploadMatchArtifact
    Nobody,         \* no request
    Name,           \* names an artifact may have
    IndexName,      \* index.json, which artifactNamePattern lets be one of them
    MaxArtifacts,   \* MaxArtifactsPerMatch
    ArtifactFaults  \* which may happen: "timeout", "storage",
                    \* "agent", "index"

ASSUME ArtifactAssumption ==
    /\ Nobody \notin Request
    /\ MaxArtifacts \in Nat

VARIABLES
    row,        \* the match: "started", "cooldown", "deleted"
    upload,     \* upload[u]: a request with its local variables
    object,     \* object[n]: the last request that put artifacts/<match>/<n>
    index,      \* index[n]: the request whose metadata index.json has under n
    garbled,    \* whether index.json holds the bytes of an upload
    teardown,   \* TeardownCooledMatch with its local variables
    container,  \* whether the game server's container runs
    final,      \* MatchResult: Artifacts as a set, LogsKey as whether it is set
    logObject   \* whether logs/ has an object of this match

VARIABLES
    prompt,     \* history: the requests acknowledged before the teardown's claim
    disturbed   \* history: the requests that ran beside another, or were answered
                \* or under way when an upload was put under IndexName

matchVars == <<row, teardown, container, final, prompt, logObject>>
bucket == <<object, index, garbled>>
artifactVars == <<matchVars, upload, bucket, disturbed>>

ArtifactFault(f) == f \in ArtifactFaults

NoIndex == [n \in Name |-> Nobody]
Listed(ix) == {n \in Name : ix[n] # Nobody}

ArtifactInit ==
    /\ row = "started"
    /\ upload \in [Request -> [step: {"idle"}, name: Name, read: {NoIndex}, givenUp: {FALSE}]]
    /\ object = NoIndex
    /\ index = NoIndex
    /\ garbled = FALSE
    /\ disturbed = {}
    /\ teardown = [step |-> "idle", names |-> {}, known |-> FALSE, logs |-> FALSE]
    /\ container = TRUE
    /\ final = [names |-> {}, logs |-> FALSE]
    /\ prompt = {}
    /\ logObject = FALSE

(***************************************************************************)
(* UploadMatchArtifact and PutMatchArtifact.                               *)
(***************************************************************************)
To(u, s) == upload' = [upload EXCEPT ![u].step = s]
Answered(u) == upload[u].step \in {"idle", "ok", "refused"}
Acknowledged == {u \in Request : upload[u].step = "ok"}

Pending == {u \in Request : ~Answered(u)}

\* Who is disturbed by the start of u.
Beside(u) == IF Pending = {} THEN {} ELSE Pending \cup {u}

TokenAccepted == row # "deleted"
UploadMatchArtifact(u) ==
    /\ upload[u].step = "idle"
    /\ container
    /\ \/ TokenAccepted /\ To(u, "cap") /\ disturbed' = disturbed \cup Beside(u)
       \/ ~TokenAccepted /\ To(u, "refused") /\ UNCHANGED disturbed
    /\ UNCHANGED <<matchVars, bucket>>

FitsCap(u) == index[upload[u].name] # Nobody \/ Cardinality(Listed(index)) < MaxArtifacts

\* An index that cannot be parsed is an error here.
CheckArtifactCap(u) ==
    /\ upload[u].step = "cap"
    /\ To(u, IF ~garbled /\ FitsCap(u) THEN "put" ELSE "refused")
    /\ UNCHANGED <<matchVars, bucket, disturbed>>

\* What follows a call to S3: nothing, once the request's context is cancelled
\* or the call returned an error though it was carried out.
Then(u, s) == (IF upload[u].givenUp THEN {} ELSE {s})
              \cup (IF upload[u].givenUp \/ ArtifactFault("storage") THEN {"refused"} ELSE {})

ObjectLater(u) == object
ObjectPut(u) == [object EXCEPT ![upload[u].name] = u]
PutArtifactObject(u) ==
    /\ upload[u].step = "put"
    /\ object' = ObjectPut(u)
    /\ \/ /\ upload[u].name # IndexName
          /\ UNCHANGED <<index, garbled, disturbed>>
       \/ /\ upload[u].name = IndexName
          /\ index' = NoIndex
          /\ garbled' = TRUE
          /\ disturbed' = disturbed \cup {w \in Request : upload[w].step # "idle"}
    /\ \E s \in Then(u, "read") : To(u, s)
    /\ UNCHANGED matchVars

\* One that cannot be parsed is taken for an empty one here.
NothingRead == NoIndex
IndexRead == index
ReadArtifactIndex(u) ==
    /\ upload[u].step = "read"
    /\ upload' = [upload EXCEPT ![u].step = "write", ![u].read = IndexRead]
    /\ UNCHANGED <<matchVars, bucket, disturbed>>

WriteArtifactIndex(u) ==
    /\ upload[u].step = "write"
    /\ index' = [upload[u].read EXCEPT ![upload[u].name] = u]
    /\ garbled' = FALSE
    /\ \E s \in Then(u, "ok") : upload' = [upload EXCEPT ![u].step = s, ![u].read = NoIndex]
    /\ UNCHANGED <<matchVars, object, disturbed>>

\* The game server hangs up, or is stopped, and the request's context is
\* cancelled.  A PUT that was sent may still be carried out; or it is not.
GiveUp(u) ==
    /\ ArtifactFault("timeout") \/ ~container
    /\ ~Answered(u)
    /\ ~upload[u].givenUp
    /\ upload' = [upload EXCEPT ![u].givenUp = TRUE,
                                ![u].step = IF @ \in {"cap", "read"} THEN "refused" ELSE @]
    /\ UNCHANGED <<matchVars, bucket, disturbed>>

RequestFails(u) ==
    /\ upload[u].givenUp \/ ArtifactFault("storage")
    /\ ~Answered(u)
    /\ upload' = [upload EXCEPT ![u].step = "refused", ![u].read = NoIndex]
    /\ UNCHANGED <<matchVars, bucket, disturbed>>

(***************************************************************************)
(* The end of the match.                                                   *)
(***************************************************************************)
\* Phase A writes the result with no artifacts and no logs.
ResultReported ==
    /\ row = "started"
    /\ row' = "cooldown"
    /\ UNCHANGED <<upload, bucket, disturbed, teardown, container, final, prompt, logObject>>

ClaimCooled ==
    /\ row = "cooldown"
    /\ teardown.step = "idle"
    /\ teardown' = [step |-> "logs", names |-> {}, known |-> FALSE, logs |-> FALSE]
    /\ prompt' = Acknowledged
    /\ UNCHANGED <<row, upload, bucket, disturbed, container, final, logObject>>

\* There are no logs of a container that an earlier attempt stopped.
ContainerLogs == IF ArtifactFault("agent") THEN {container, FALSE} ELSE {container}

\* The object is there before the key is known, and may be without it.
UploadLogs(saved) ==
    logObject' \in {logObject \/ saved} \cup (IF ArtifactFault("storage") THEN {TRUE} ELSE {})

SaveMatchLogs ==
    /\ teardown.step = "logs"
    /\ \E read \in ContainerLogs, fails \in BOOLEAN :
        /\ fails => read /\ ArtifactFault("storage")
        /\ teardown' = [teardown EXCEPT !.step = "index", !.logs = read /\ ~fails]
        /\ IF read THEN UploadLogs(~fails) ELSE UNCHANGED logObject
    /\ UNCHANGED <<row, upload, bucket, disturbed, container, final, prompt>>

ReadFinalIndex ==
    /\ teardown.step = "index"
    /\ \/ /\ ~garbled
          /\ teardown' = [teardown EXCEPT !.step = "stop", !.names = Listed(index), !.known = TRUE]
       \/ /\ garbled \/ ArtifactFault("index")
          /\ teardown' = [teardown EXCEPT !.step = "stop"]
    /\ UNCHANGED <<row, upload, bucket, disturbed, container, final, prompt, logObject>>

\* An error leads back to the cooldown, or on, past the force deadline; the
\* container may have been stopped all the same.
StopGameContainer ==
    /\ teardown.step = "stop"
    /\ \/ container' = FALSE /\ teardown' = [teardown EXCEPT !.step = "finalize"]
       \/ /\ ArtifactFault("agent")
          /\ container' \in {container, FALSE}
          /\ teardown' \in {[teardown EXCEPT !.step = s] : s \in {"idle", "finalize"}}
    /\ UNCHANGED <<row, upload, bucket, disturbed, final, prompt, logObject>>

\* What was not read, or not saved, leaves the result as it is.
UnlessKnown == IF teardown.known THEN final.names ELSE teardown.names
FinalNames == IF teardown.known THEN teardown.names ELSE final.names
FinalizeResult ==
    /\ teardown.step = "finalize"
    /\ final' = [names |-> FinalNames, logs |-> teardown.logs \/ final.logs]
    /\ row' = "deleted"
    /\ teardown' = [teardown EXCEPT !.step = "done"]
    /\ UNCHANGED <<upload, bucket, disturbed, container, prompt, logObject>>

ArtifactNext ==
    \/ \E u \in Request :
        \/ UploadMatchArtifact(u)
        \/ CheckArtifactCap(u)
        \/ PutArtifactObject(u)
        \/ ReadArtifactIndex(u)
        \/ WriteArtifactIndex(u)
        \/ GiveUp(u)
        \/ RequestFails(u)
    \/ ResultReported
    \/ ClaimCooled
    \/ SaveMatchLogs
    \/ ReadFinalIndex
    \/ StopGameContainer
    \/ FinalizeResult

ArtifactSpec == ArtifactInit /\ [][ArtifactNext]_artifactVars

-----------------------------------------------------------------------------
Index == [Name -> Request \cup {Nobody}]

ArtifactTypeOK ==
    /\ row \in {"started", "cooldown", "deleted"}
    /\ upload \in [Request -> [step: {"idle", "cap", "put", "read", "write", "ok", "refused"}, name: Name,
                               read: Index, givenUp: BOOLEAN]]
    /\ object \in Index
    /\ index \in Index
    /\ garbled \in BOOLEAN
    /\ disturbed \subseteq Request
    /\ teardown \in [step: {"idle", "logs", "index", "stop", "finalize", "done"}, names: SUBSET Name,
                     known: BOOLEAN, logs: BOOLEAN]
    /\ container \in BOOLEAN
    /\ final \in [names: SUBSET Name, logs: BOOLEAN]
    /\ prompt \subseteq Request
    /\ logObject \in BOOLEAN

\* What the listings show once there is a result: the index of the match, and
\* of a user's matches those whose result has artifacts.
HasResult == row # "started"
ListMatchArtifacts == IF HasResult THEN Listed(index) ELSE {}
ListUserArtifacts == IF final.names # {} THEN Listed(index) ELSE {}

DownloadMatchArtifact(n) == HasResult /\ object[n] # Nobody
GetMatchLogs == final.logs /\ logObject

\* Every artifact a listing or a result names can be downloaded, and so can the
\* logs a result has the key of, however uploads overlap, are given up, retried,
\* repeated under the same name and overtaken by a teardown in several attempts.
ListedDownloadable ==
    /\ \A n \in ListMatchArtifacts \cup ListUserArtifacts \cup final.names : DownloadMatchArtifact(n)
    /\ final.logs => GetMatchLogs

\* "Concurrent uploads to the same match can lose one another's metadata entry":
\* no others.  An acknowledged upload that no other overlapped stays in the
\* index, and its metadata stay those of its bytes while these are there ("both
\* should agree", aws.go:281-284), unless an upload replaces the index itself.
AcknowledgedIsListed ==
    \A u \in Acknowledged \ disturbed :
        /\ upload[u].name \in Listed(index)
        /\ object[upload[u].name] = u => index[upload[u].name] = u

\* "Up to 10 distinct names per match": the cap is checked against an index read
\* before the one that is extended, so it holds until uploads overlap.
CapKept == disturbed = {} => Cardinality(Listed(index)) <= MaxArtifacts

\* What the index promises about uploads.
UploadsKept == AcknowledgedIsListed /\ CapKept

\* What was acknowledged before the sweep claimed the match is in the result's
\* list, through failed stops, reverted claims and uploads that go on meanwhile,
\* unless the index could not be read or the upload was disturbed.
PromptInResult ==
    (row = "deleted" /\ teardown.known) =>
        {upload[u].name : u \in prompt \ disturbed} \subseteq final.names

=============================================================================
