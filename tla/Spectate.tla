------------------------------ MODULE Spectate ------------------------------
(***************************************************************************)
(* The spectator stream of one match: the uploader that copies the game    *)
(* server's file into numbered chunks in S3, the live manifest that counts *)
(* them, the rotation of live/ into replay/ by whoever ends the match, and *)
(* spectators who read from a cursor.  S3 offers single-object GET, PUT,   *)
(* COPY and DELETE; each is a step.                                        *)
(*                                                                         *)
(* A chunk is the interval <<from, to>> of the bytes it holds.             *)
(***************************************************************************)
EXTENDS Naturals, Sequences

CONSTANTS
    MaxBytes,   \* how much the game server writes at most
    ChunkMax,   \* ChunkMaxBytes
    Ender,      \* calls of EndMatch: reports, and the timeout
    Local,      \* those served by the machine that runs the uploader
    Viewer,     \* spectators
    StreamFaults \* which may happen: "upload", "rotate", "crash"

ASSUME StreamAssumption ==
    /\ MaxBytes \in Nat
    /\ ChunkMax \in Nat \ {0}
    /\ Local \subseteq Ender

VARIABLES
    stage,      \* of the match: "playing", "over" (result recorded), "torn"
    written,    \* bytes in spectate.stream
    uploader,   \* the goroutine: its step, sequence number, offset, and the
                \* end of the bytes it has in hand
    live,       \* live[k]: live/<k>.bin
    liveCount,  \* ChunkCount of live/manifest.json; 0 when there is none
    replay,     \* replay[k]: replay/<k>.bin
    replayCount, \* ChunkCount of replay/manifest.json; 0 when there is none
    rotation,   \* rotation[e]: what EndMatch does next, with its local variables
    viewer      \* viewer[v]: its request, its cursor, what it was sent, and, as
                \* history, whether its last request was cut off

uploads == <<written, uploader>>
objects == <<live, liveCount, replay, replayCount>>
spectateVars == <<stage, uploads, objects, rotation, viewer>>

StreamFault(f) == f \in StreamFaults

NoChunk == <<0, 0>>
Chunk == {c \in (0 .. MaxBytes) \X (0 .. MaxBytes) : c[1] < c[2]}
Seqno == 0 .. MaxBytes

SpectateInit ==
    /\ stage = "playing"
    /\ written = 0
    /\ uploader = [step |-> "poll", seq |-> 0, offset |-> 0, to |-> 0, cancelled |-> FALSE]
    /\ live = [k \in Seqno |-> NoChunk]
    /\ replay = [k \in Seqno |-> NoChunk]
    /\ liveCount = 0
    /\ replayCount = 0
    /\ rotation = [e \in Ender |-> [step |-> "idle", count |-> 0, seq |-> 0]]
    /\ viewer = [v \in Viewer |->
                    [step |-> "idle", row |-> TRUE, cursor |-> 0, count |-> 0, final |-> FALSE,
                     seq |-> 0, body |-> <<>>, seen |-> <<>>, eof |-> FALSE, cut |-> FALSE]]

(***************************************************************************)
(* The game server, the agent and the uploader.                            *)
(***************************************************************************)
WriteStream ==
    /\ stage # "torn"
    /\ written < MaxBytes
    /\ written' = written + 1
    /\ UNCHANGED <<stage, uploader, objects, rotation, viewer>>

\* The end of what the agent serves from an offset.  Once the container is
\* stopped its directory is gone and there is nothing to serve.
ServedTo(offset) ==
    IF stage = "torn" THEN offset
    ELSE IF written < offset + ChunkMax THEN written ELSE offset + ChunkMax

\* A failed poll, and an empty one, leave everything to the next tick.
GetSpectateChunkFromAgent ==
    /\ uploader.step = "poll"
    /\ ServedTo(uploader.offset) > uploader.offset
    /\ uploader' = [uploader EXCEPT !.step = "chunk", !.to = ServedTo(uploader.offset)]
    /\ UNCHANGED <<stage, written, objects, rotation, viewer>>

AfterPut(s) == IF uploader.cancelled THEN "off" ELSE s
InHand == [live EXCEPT ![uploader.seq] = <<uploader.offset, uploader.to>>]

\* The sequence number is kept for a retry, which may carry more bytes.
NextSeqSkipping == uploader.seq + 2
NextSeq == uploader.seq + 1
OffsetForgotten == uploader.offset
OffsetAfter == uploader.to

PutSpectateChunk ==
    /\ uploader.step = "chunk"
    /\ live' = InHand
    /\ uploader' = [uploader EXCEPT !.step = AfterPut("manifest"), !.seq = NextSeq, !.offset = OffsetAfter]
    /\ UNCHANGED <<stage, written, liveCount, replay, replayCount, rotation, viewer>>

\* A cancelled or failed PUT may have been carried out all the same.
PutFails == uploader.cancelled \/ StreamFault("upload")

PutSpectateChunkFails ==
    /\ uploader.step = "chunk"
    /\ PutFails
    /\ live' \in {live, InHand}
    /\ uploader' = [uploader EXCEPT !.step = AfterPut("poll")]
    /\ UNCHANGED <<stage, written, liveCount, replay, replayCount, rotation, viewer>>

PutSpectateManifest ==
    /\ uploader.step = "manifest"
    /\ \/ liveCount' = uploader.seq
       \/ PutFails /\ UNCHANGED liveCount
    /\ uploader' = [uploader EXCEPT !.step = AfterPut("poll")]
    /\ UNCHANGED <<stage, written, live, replay, replayCount, rotation, viewer>>

\* Cancelling ends the loop at the next tick, after the request under way.
Cancelled ==
    [uploader EXCEPT !.cancelled = TRUE, !.step = IF uploader.step = "poll" THEN "off" ELSE @]

\* The registry is in memory: nothing starts an uploader again.
UploaderDies ==
    /\ StreamFault("crash")
    /\ ~uploader.cancelled
    /\ uploader' = Cancelled
    /\ UNCHANGED <<stage, written, objects, rotation, viewer>>

(***************************************************************************)
(* EndMatch, from its check that the match is underway to MatchEnded.      *)
(***************************************************************************)
Rotate(e, s, n, k) == rotation' = [rotation EXCEPT ![e] = [step |-> s, count |-> n, seq |-> k]]

\* Stop finds the uploader only in its own machine's registry.
EndMatchStops(e) ==
    /\ rotation[e].step = "idle"
    /\ stage = "playing"
    /\ Rotate(e, "read", 0, 0)
    /\ uploader' = IF e \in Local THEN Cancelled ELSE uploader
    /\ UNCHANGED <<stage, written, objects, viewer>>

ReadLiveManifest(e) ==
    /\ rotation[e].step = "read"
    /\ \/ liveCount > 0 /\ Rotate(e, "copy", liveCount, 0)
       \/ liveCount = 0 /\ Rotate(e, "record", 0, 0)
       \/ StreamFault("rotate") /\ Rotate(e, "record", 0, 0)
    /\ UNCHANGED <<stage, uploads, objects, viewer>>

PublishAtLast(e) == rotation[e].seq + 1 >= rotation[e].count - 1
AllCopied(e) == rotation[e].seq + 1 = rotation[e].count

CopyChunk(e) ==
    LET k == rotation[e].seq
        n == rotation[e].count
    IN  /\ rotation[e].step = "copy"
        /\ live[k] # NoChunk
        /\ replay' = [replay EXCEPT ![k] = live[k]]
        /\ Rotate(e, IF AllCopied(e) THEN "publish" ELSE "copy", n, k + 1)
        /\ UNCHANGED <<stage, uploads, live, liveCount, replayCount, viewer>>

\* EndMatch only logs the error of a rotation and goes on.
CopyFails(e) ==
    /\ rotation[e].step \in {"copy", "publish"}
    /\ \/ rotation[e].step = "copy" /\ live[rotation[e].seq] = NoChunk
       \/ StreamFault("rotate")
    /\ Rotate(e, "record", 0, 0)
    /\ UNCHANGED <<stage, uploads, objects, viewer>>

PublishReplay(e) ==
    /\ rotation[e].step = "publish"
    /\ replayCount' = rotation[e].count
    /\ Rotate(e, "delete", rotation[e].count, 0)
    /\ UNCHANGED <<stage, uploads, live, liveCount, replay, viewer>>

\* Whether a deletion succeeded is not looked at.
DeleteLive(e) ==
    LET k == rotation[e].seq
        n == rotation[e].count
    IN  /\ rotation[e].step = "delete"
        /\ IF k < n
           THEN /\ \/ live' = [live EXCEPT ![k] = NoChunk]
                   \/ StreamFault("rotate") /\ UNCHANGED live
                /\ Rotate(e, "delete", n, k + 1)
                /\ UNCHANGED liveCount
           ELSE /\ \/ liveCount' = 0
                   \/ StreamFault("rotate") /\ UNCHANGED liveCount
                /\ Rotate(e, "record", 0, 0)
                /\ UNCHANGED live
        /\ UNCHANGED <<stage, uploads, replay, replayCount, viewer>>

\* MatchEnded, whose primary key lets only the first result in.
RecordResult(e) ==
    /\ rotation[e].step = "record"
    /\ stage' = IF stage = "playing" THEN "over" ELSE stage
    /\ Rotate(e, "done", 0, 0)
    /\ UNCHANGED <<uploads, objects, viewer>>

EnderCrashes(e) ==
    /\ StreamFault("crash")
    /\ rotation[e].step \notin {"idle", "done"}
    /\ Rotate(e, "done", 0, 0)
    /\ UNCHANGED <<stage, uploads, objects, viewer>>

\* Stops the container, removes its directory and deletes the match row.
TeardownMatch ==
    /\ stage = "over"
    /\ stage' = "torn"
    /\ UNCHANGED <<uploads, objects, rotation, viewer>>

(***************************************************************************)
(* Spectators.  A request looks at replay/ first and then at live/, for    *)
(* the manifest and again for every chunk.                                 *)
(***************************************************************************)
View(v, r) == viewer' = [viewer EXCEPT ![v] = r]
Unwatched == UNCHANGED <<stage, uploads, objects, rotation>>

\* What a request does with a manifest of n chunks.
OnManifest(r, n, fin) ==
    IF r.cursor < n
    THEN [r EXCEPT !.step = "drain", !.count = n, !.final = fin, !.seq = r.cursor]
    ELSE [r EXCEPT !.step = "idle", !.eof = fin]

LiveShadows == replayCount > 0 /\ liveCount = 0
ReplayFirst == replayCount > 0
GetMatchStream(v) ==
    LET r == [viewer[v] EXCEPT !.row = stage # "torn", !.cut = FALSE]
    IN  /\ viewer[v].step = "idle"
        /\ ~viewer[v].eof
        /\ View(v, IF ReplayFirst THEN OnManifest(r, replayCount, TRUE) ELSE [r EXCEPT !.step = "live"])
        /\ Unwatched

\* No manifest: the spectator asks again, or is told 404 when there is no row.
GetLiveManifest(v) ==
    LET r == viewer[v]
    IN  /\ r.step = "live"
        /\ View(v, IF liveCount > 0 THEN OnManifest(r, liveCount, FALSE)
                   ELSE [r EXCEPT !.step = IF r.row THEN "idle" ELSE "gone"])
        /\ Unwatched

\* The response: the cursor is the manifest's count wherever draining stopped.
CursorUnmoved(r) == r.cursor
NextCursor(r) == r.count
Answer(r, body) ==
    [r EXCEPT !.step = "idle", !.cursor = NextCursor(r), !.eof = r.final, !.seen = r.seen \o body,
              !.body = <<>>, !.count = 0, !.final = FALSE, !.seq = 0]

\* One more chunk; after the last one the response is sent.
Drained(r, c) ==
    IF r.seq + 1 = r.count THEN Answer(r, Append(r.body, c))
    ELSE [r EXCEPT !.step = "drain", !.body = Append(r.body, c), !.seq = r.seq + 1]

DrainReplay(v) ==
    LET r == viewer[v]
    IN  /\ r.step = "drain"
        /\ View(v, IF replay[r.seq] # NoChunk THEN Drained(r, replay[r.seq]) ELSE [r EXCEPT !.step = "drainLive"])
        /\ Unwatched

DrainLive(v) ==
    LET r == viewer[v]
    IN  /\ r.step = "drainLive"
        /\ View(v, IF live[r.seq] # NoChunk THEN Drained(r, live[r.seq]) ELSE Answer(r, r.body))
        /\ Unwatched

\* A storage error, or the spectator hangs up: it keeps its old cursor.
Abandon(v) ==
    /\ viewer[v].step \in {"live", "drain", "drainLive"}
    /\ View(v, [viewer[v] EXCEPT !.step = "idle", !.cut = TRUE, !.body = <<>>, !.count = 0, !.final = FALSE, !.seq = 0])
    /\ Unwatched

Upload ==
    \/ GetSpectateChunkFromAgent
    \/ PutSpectateChunk
    \/ PutSpectateChunkFails
    \/ PutSpectateManifest
EndMatchGoesOn(e) ==
    \/ ReadLiveManifest(e)
    \/ CopyChunk(e)
    \/ CopyFails(e)
    \/ PublishReplay(e)
    \/ DeleteLive(e)
    \/ RecordResult(e)
Watch(v) ==
    \/ GetMatchStream(v)
    \/ GetLiveManifest(v)
    \/ DrainReplay(v)
    \/ DrainLive(v)

SpectateNext ==
    \/ WriteStream
    \/ Upload
    \/ UploaderDies
    \/ TeardownMatch
    \/ \E e \in Ender : EndMatchStops(e) \/ EndMatchGoesOn(e) \/ EnderCrashes(e)
    \/ \E v \in Viewer : Watch(v) \/ Abandon(v)

SpectateSpec == SpectateInit /\ [][SpectateNext]_spectateVars

\* Begun calls of EndMatch go on, and a spectator keeps asking until it is told
\* to stop.  Nothing makes the game server write or a match end.
SpectateFairness ==
    /\ \A e \in Ender : WF_spectateVars(EndMatchGoesOn(e))
    /\ \A v \in Viewer : WF_spectateVars(Watch(v))

-----------------------------------------------------------------------------
Request ==
    [step: {"idle", "live", "drain", "drainLive", "gone"}, row: BOOLEAN, cursor: Seqno, count: Seqno,
     final: BOOLEAN, seq: Seqno, body: Seq(Chunk), seen: Seq(Chunk), eof: BOOLEAN,
     cut: BOOLEAN]

SpectateTypeOK ==
    /\ stage \in {"playing", "over", "torn"}
    /\ written \in 0 .. MaxBytes
    /\ uploader \in [step: {"poll", "chunk", "manifest", "off"}, seq: Seqno, offset: Seqno, to: Seqno,
                     cancelled: BOOLEAN]
    /\ live \in [Seqno -> Chunk \cup {NoChunk}]
    /\ replay \in [Seqno -> Chunk \cup {NoChunk}]
    /\ liveCount \in Seqno
    /\ replayCount \in Seqno
    /\ rotation \in [Ender -> [step: {"idle", "read", "copy", "publish", "delete", "record", "done"},
                               count: Seqno, seq: Seqno]]
    /\ viewer \in [Viewer -> Request]

\* What a reader who is not interrupted finds: the manifest, and its chunks.
Manifest == IF replayCount > 0 THEN replayCount ELSE liveCount
Stream(k) == IF replay[k] # NoChunk THEN replay[k] ELSE live[k]
HasStream == Manifest > 0

\* A replay is complete: its manifest is written only after every chunk was
\* copied (aws.go:129-131), however many calls of EndMatch rotate and whatever
\* the uploader, perhaps of another machine, goes on writing.  Its chunks join
\* without gap or overlap from byte 0.
ReplayIsPrefix ==
    \A k \in Seqno : k < replayCount =>
        /\ replay[k] # NoChunk
        /\ replay[k][1] = IF k = 0 THEN 0 ELSE replay[k - 1][2]

\* At every moment the manifest a spectator would be given names only chunks
\* that can be read then, through rotation and deletion (GetLiveMatchesInGame
\* offers the match as watchable once there is one).
StreamReadable ==
    HasStream => \A k \in Seqno : k < Manifest => Stream(k) # NoChunk

\* No spectator is sent a byte twice or out of order, however its requests
\* interleave with uploads that are retried and with the rotation.
SentInOrder ==
    \A v \in Viewer : \A i \in 1 .. Len(viewer[v].seen) :
        i > 1 => viewer[v].seen[i - 1][2] <= viewer[v].seen[i][1]

\* What EndMatch promises for the race it knows of: "see one consistent prefix
\* per request" (reportResults.go:99-103), the caller adjusting the cursor to
\* where the data ends (spectate.go:143-146).  So no byte is skipped.
NothingSkipped ==
    \A v \in Viewer : \A i \in 1 .. Len(viewer[v].seen) :
        viewer[v].seen[i][1] = IF i = 1 THEN 0 ELSE viewer[v].seen[i - 1][2]

\* Once a replay is published, every spectator who keeps asking, and whose
\* requests are not abandoned for ever, is told that the stream has ended.
EofReached ==
    \A v \in Viewer :
        <>[](~viewer[v].cut) =>
            (replayCount > 0 ~> (viewer[v].eof \/ viewer[v].step = "gone"))

=============================================================================
