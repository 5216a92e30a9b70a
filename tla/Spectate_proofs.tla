---------------------------- MODULE Spectate_proofs ----------------------------
(***************************************************************************)
(* Proofs about the spectator stream, for any number of bytes, chunks,     *)
(* calls of EndMatch and spectators, and any faults.                       *)
(***************************************************************************)
EXTENDS Spectate, SequenceTheorems, TLAPS

UploaderRecord ==
    [step: {"poll", "chunk", "manifest", "off"}, seq: Seqno, offset: Seqno, to: Seqno, cancelled: BOOLEAN]
RotationRecord ==
    [step: {"idle", "read", "copy", "publish", "delete", "record", "done"}, count: Seqno, seq: Seqno]

\* The types, with the records' sets by name.
Typed ==
    /\ stage \in {"playing", "over", "torn"}
    /\ written \in Seqno
    /\ uploader \in UploaderRecord
    /\ live \in [Seqno -> Chunk \cup {NoChunk}]
    /\ replay \in [Seqno -> Chunk \cup {NoChunk}]
    /\ liveCount \in Seqno
    /\ replayCount \in Seqno
    /\ rotation \in [Ender -> RotationRecord]
    /\ viewer \in [Viewer -> Request]

\* At most one chunk for every byte, and in hand something new.
Uploading ==
    /\ uploader.seq <= uploader.offset
    /\ uploader.step = "chunk" => uploader.offset < uploader.to

\* Where the k-th chunk starts.
Start(k) == IF k = 0 THEN 0 ELSE Stream(k - 1)[2]
Starts == [k \in Seqno |-> Start(k)]

\* No chunk starts before an earlier one.
Rising(at, n) == \A j, k \in Seqno : j <= k /\ k <= n => at[j] <= at[k]

\* The chunks that were put are all there, in live/ or in replay/, and nowhere
\* two that differ; they join from byte 0 on.
Stored ==
    /\ \A k \in Seqno : k < uploader.seq =>
        /\ Stream(k) # NoChunk
        /\ live[k] # NoChunk => live[k] = Stream(k)
        /\ Stream(k)[1] = Start(k)
    /\ \A k \in Seqno : k >= uploader.seq => replay[k] = NoChunk
    /\ Start(uploader.seq) = uploader.offset
    /\ Rising(Starts, uploader.seq)

\* What a call of EndMatch counts was put, and what it copied stays.
Rotating(r, n, copied) ==
    /\ r.count <= n
    /\ r.step = "copy" => r.seq < r.count /\ \A k \in Seqno : k < r.seq => copied[k] # NoChunk
    /\ r.step \in {"publish", "delete"} =>
        r.seq <= r.count /\ \A k \in Seqno : k < r.count => copied[k] # NoChunk
Counted ==
    /\ liveCount <= uploader.seq
    /\ replayCount <= uploader.seq
    /\ \A k \in Seqno : k < replayCount => replay[k] # NoChunk
    /\ \A e \in Ender : Rotating(rotation[e], uploader.seq, replay)

\* A spectator's request reads onwards from its cursor.
InOrder(s) == \A i \in 1 .. Len(s) : i > 1 => s[i - 1][2] <= s[i][1]
Reading(r, n, at) ==
    /\ r.cursor <= n
    /\ r.count <= n
    /\ r.step \in {"drain", "drainLive"} => r.cursor <= r.seq /\ r.seq < r.count
    /\ r.step \notin {"drain", "drainLive"} => r.body = <<>>
    /\ InOrder(r.seen)
    /\ InOrder(r.body)
    /\ Len(r.seen) > 0 => r.seen[Len(r.seen)][2] <= at[r.cursor]
    /\ Len(r.body) > 0 => at[r.cursor] <= r.body[1][1] /\ r.body[Len(r.body)][2] <= at[r.seq]

StreamBase ==
    /\ Typed
    /\ Uploading
    /\ Stored
    /\ Counted
    /\ \A v \in Viewer : Reading(viewer[v], uploader.seq, Starts)

-----------------------------------------------------------------------------
\* Chunks are intervals that hold something.
LEMMA ChunkFacts ==
    /\ \A c \in Chunk : c[1] \in Nat /\ c[2] \in Nat /\ c[1] < c[2]
    /\ NoChunk \notin Chunk
    /\ \A i, j \in Seqno : i < j => <<i, j>> \in Chunk
BY StreamAssumption DEF Chunk, NoChunk, Seqno

\* Sequence numbers are natural numbers.
LEMMA SeqnoFacts == Seqno \subseteq Nat /\ 0 \in Seqno /\ \A k \in Seqno : \A j \in Nat : j <= k => j \in Seqno
BY StreamAssumption DEF Seqno

\* One more chunk that does not start before the last one ends.
LEMMA AppendInOrder ==
    ASSUME NEW s \in Seq(Chunk), NEW c \in Chunk, InOrder(s), Len(s) > 0 => s[Len(s)][2] <= c[1]
    PROVE  /\ InOrder(Append(s, c)) /\ Append(s, c) \in Seq(Chunk)
           /\ Len(Append(s, c)) > 0 /\ Append(s, c)[Len(Append(s, c))] = c
           /\ Append(s, c)[1] = IF Len(s) = 0 THEN c ELSE s[1]
<1>1. /\ Append(s, c) \in Seq(Chunk) /\ Len(Append(s, c)) = Len(s) + 1 /\ Len(s) \in Nat
      /\ \A i \in 1 .. Len(s) : Append(s, c)[i] = s[i]
      /\ Append(s, c)[Len(s) + 1] = c
  OBVIOUS
<1>2. InOrder(Append(s, c))
  <2> SUFFICES ASSUME NEW i \in 1 .. Len(Append(s, c)), i > 1
               PROVE  Append(s, c)[i - 1][2] <= Append(s, c)[i][1]
    BY DEF InOrder
  <2>1. CASE i <= Len(s)
    <3>1. i \in 1 .. Len(s) /\ i - 1 \in 1 .. Len(s)
      BY <1>1, <2>1
    <3> QED
      BY <1>1, <3>1 DEF InOrder
  <2>2. CASE i = Len(s) + 1
    <3>1. Len(s) > 0 /\ i - 1 = Len(s) /\ Len(s) \in 1 .. Len(s)
      BY <1>1, <2>2
    <3> QED
      BY <1>1, <2>2, <3>1
  <2> QED
    BY <1>1, <2>1, <2>2
<1> QED
  BY <1>1, <1>2

\* One body after the other.
LEMMA ConcatInOrder ==
    ASSUME NEW s \in Seq(Chunk), NEW t \in Seq(Chunk), InOrder(s), InOrder(t), NEW b \in Nat,
           Len(s) > 0 => s[Len(s)][2] <= b, Len(t) > 0 => b <= t[1][1]
    PROVE  /\ InOrder(s \o t) /\ s \o t \in Seq(Chunk)
           /\ Len(s \o t) > 0 => (s \o t)[Len(s \o t)] = IF Len(t) > 0 THEN t[Len(t)] ELSE s[Len(s)]
           /\ Len(s \o t) > 0 => Len(s) > 0 \/ Len(t) > 0
<1>1. /\ s \o t \in Seq(Chunk) /\ Len(s \o t) = Len(s) + Len(t) /\ Len(s) \in Nat /\ Len(t) \in Nat
      /\ \A i \in 1 .. Len(s \o t) : (s \o t)[i] = IF i <= Len(s) THEN s[i] ELSE t[i - Len(s)]
  OBVIOUS
<1>2. InOrder(s \o t)
  <2> SUFFICES ASSUME NEW i \in 1 .. Len(s \o t), i > 1
               PROVE  (s \o t)[i - 1][2] <= (s \o t)[i][1]
    BY DEF InOrder
  <2>0. i \in Nat /\ i - 1 \in 1 .. Len(s \o t)
    BY <1>1
  <2>1. CASE i <= Len(s)
    <3>1. i \in 1 .. Len(s) /\ (s \o t)[i] = s[i] /\ (s \o t)[i - 1] = s[i - 1]
      BY <1>1, <2>0, <2>1
    <3> QED
      BY <3>1 DEF InOrder
  <2>2. CASE i = Len(s) + 1
    <3>1. Len(s) > 0 /\ Len(t) > 0 /\ (s \o t)[i] = t[1] /\ (s \o t)[i - 1] = s[Len(s)]
      BY <1>1, <2>0, <2>2
    <3>2. s[Len(s)] \in Chunk /\ t[1] \in Chunk
      BY <1>1, <3>1
    <3>3. s[Len(s)][2] \in Nat /\ t[1][1] \in Nat
      BY <3>2, ChunkFacts
    <3> QED
      BY <3>1, <3>3
  <2>3. CASE i > Len(s) + 1
    <3>1. /\ i - Len(s) \in 1 .. Len(t) /\ i - Len(s) > 1 /\ (s \o t)[i] = t[i - Len(s)]
          /\ (s \o t)[i - 1] = t[(i - Len(s)) - 1]
      BY <1>1, <2>0, <2>3
    <3> QED
      BY <3>1 DEF InOrder
  <2> QED
    BY <1>1, <2>0, <2>1, <2>2, <2>3
<1>3. Len(s \o t) > 0 => (s \o t)[Len(s \o t)] = IF Len(t) > 0 THEN t[Len(t)] ELSE s[Len(s)]
  <2> SUFFICES ASSUME Len(s \o t) > 0
               PROVE  (s \o t)[Len(s \o t)] = IF Len(t) > 0 THEN t[Len(t)] ELSE s[Len(s)]
    OBVIOUS
  <2>1. Len(s \o t) \in 1 .. Len(s \o t)
    BY <1>1
  <2>2. (s \o t)[Len(s \o t)] = IF Len(s \o t) <= Len(s) THEN s[Len(s \o t)] ELSE t[Len(s \o t) - Len(s)]
    BY <1>1, <2>1
  <2>3. CASE Len(t) > 0
    BY <1>1, <2>2, <2>3
  <2>4. CASE Len(t) = 0
    BY <1>1, <2>2, <2>4
  <2> QED
    BY <1>1, <2>3, <2>4
<1> QED
  BY <1>1, <1>2, <1>3

\* A request is what it says.
LEMMA RequestFields ==
    ASSUME NEW r \in Request
    PROVE  /\ r.step \in {"idle", "live", "drain", "drainLive", "gone"}
           /\ r.cursor \in Seqno /\ r.count \in Seqno /\ r.seq \in Seqno
           /\ r.cursor \in Nat /\ r.count \in Nat /\ r.seq \in Nat
           /\ r.final \in BOOLEAN /\ r.row \in BOOLEAN /\ r.eof \in BOOLEAN /\ r.cut \in BOOLEAN
           /\ r.body \in Seq(Chunk) /\ r.seen \in Seq(Chunk)
BY SeqnoFacts DEF Request

\* More chunks change nothing for who reads the earlier ones.
LEMMA ReadingStays ==
    ASSUME NEW r \in Request, NEW n \in Seqno, NEW n2 \in Seqno, n <= n2, NEW at, NEW at2,
           \A k \in Seqno : k <= n => at2[k] = at[k], Reading(r, n, at)
    PROVE  Reading(r, n2, at2)
<1>1. /\ r.cursor <= n /\ r.count <= n /\ r.cursor <= n2 /\ r.count <= n2
      /\ r.step \in {"drain", "drainLive"} => r.seq <= n
      /\ n \in Nat /\ n2 \in Nat
  BY RequestFields, SeqnoFacts DEF Reading
<1>2. at2[r.cursor] = at[r.cursor]
  BY <1>1, RequestFields
<1>3. r.step \in {"drain", "drainLive"} => at2[r.seq] = at[r.seq]
  BY <1>1, RequestFields
<1>4. r.step \notin {"drain", "drainLive"} => Len(r.body) = 0
  BY DEF Reading
<1> QED
  BY <1>1, <1>2, <1>3, <1>4 DEF Reading

\* The requests' updates.  What a manifest of m chunks starts,
LEMMA OnManifestReads ==
    ASSUME NEW r \in Request, NEW n \in Seqno, NEW at, NEW m \in Seqno, m <= n, NEW fin \in BOOLEAN,
           Reading(r, n, at), r.step \in {"idle", "live"}
    PROVE  OnManifest(r, m, fin) \in Request /\ Reading(OnManifest(r, m, fin), n, at)
<1>1. r.body = <<>> /\ r.cursor <= n /\ r.count <= n /\ InOrder(r.seen) /\ InOrder(r.body)
      /\ (Len(r.seen) > 0 => r.seen[Len(r.seen)][2] <= at[r.cursor])
  BY DEF Reading
<1>2. r.cursor \in Nat /\ r.cursor \in Seqno /\ m \in Nat
  BY RequestFields, SeqnoFacts
<1>3. CASE r.cursor < m
  <2> DEFINE q == [r EXCEPT !.step = "drain", !.count = m, !.final = fin, !.seq = r.cursor]
  <2>1. q \in Request
    BY <1>2 DEF Request
  <2>2. /\ q.step = "drain" /\ q.count = m /\ q.seq = r.cursor /\ q.cursor = r.cursor
        /\ q.body = r.body /\ q.seen = r.seen
    BY DEF Request
  <2>3. OnManifest(r, m, fin) = q
    BY <1>3 DEF OnManifest
  <2> HIDE DEF q
  <2> QED
    BY <1>1, <1>2, <1>3, <2>1, <2>2, <2>3 DEF Reading
<1>4. CASE ~(r.cursor < m)
  <2> DEFINE q == [r EXCEPT !.step = "idle", !.eof = fin]
  <2>1. q \in Request
    BY DEF Request
  <2>2. q.step = "idle" /\ q.count = r.count /\ q.cursor = r.cursor /\ q.body = r.body /\ q.seen = r.seen
    BY DEF Request
  <2>3. OnManifest(r, m, fin) = q
    BY <1>4 DEF OnManifest
  <2> HIDE DEF q
  <2> QED
    BY <1>1, <1>2, <1>4, <2>1, <2>2, <2>3 DEF Reading
<1> QED
  BY <1>3, <1>4

\* what the response leaves,
LEMMA AnswerReads ==
    ASSUME NEW r \in Request, NEW n \in Seqno, NEW at, Rising(at, n), \A k \in Seqno : at[k] \in Nat,
           NEW body \in Seq(Chunk), InOrder(body), Reading(r, n, at), r.step \in {"drain", "drainLive"},
           Len(body) > 0 => at[r.cursor] <= body[1][1] /\ body[Len(body)][2] <= at[r.count]
    PROVE  Answer(r, body) \in Request /\ Reading(Answer(r, body), n, at)
<1> DEFINE q == Answer(r, body)
<1>1. /\ r.cursor <= r.seq /\ r.seq < r.count /\ r.count <= n /\ InOrder(r.seen)
      /\ Len(r.seen) > 0 => r.seen[Len(r.seen)][2] <= at[r.cursor]
  BY DEF Reading
<1>2. /\ r.cursor \in Nat /\ r.seq \in Nat /\ r.count \in Nat /\ r.cursor \in Seqno /\ r.count \in Seqno
      /\ r.seen \in Seq(Chunk) /\ 0 \in Seqno /\ n \in Nat
  BY RequestFields, SeqnoFacts
<1>3. at[r.cursor] \in Nat /\ at[r.count] \in Nat /\ at[r.cursor] <= at[r.count]
  BY <1>1, <1>2 DEF Rising
<1>4. /\ InOrder(r.seen \o body) /\ r.seen \o body \in Seq(Chunk)
      /\ Len(r.seen \o body) > 0 =>
            (r.seen \o body)[Len(r.seen \o body)] = IF Len(body) > 0 THEN body[Len(body)] ELSE r.seen[Len(r.seen)]
      /\ Len(r.seen \o body) > 0 => Len(r.seen) > 0 \/ Len(body) > 0
  BY <1>1, <1>2, <1>3, ConcatInOrder
<1>5. Len(r.seen \o body) > 0 => (r.seen \o body)[Len(r.seen \o body)][2] <= at[r.count]
  <2>1. CASE Len(body) > 0
    BY <1>4, <2>1
  <2>2. CASE Len(body) = 0 /\ Len(r.seen) > 0
    <3>1. r.seen[Len(r.seen)] \in Chunk
      BY <1>2, <2>2
    <3>2. r.seen[Len(r.seen)][2] \in Nat
      BY <3>1, ChunkFacts
    <3> QED
      BY <1>1, <1>3, <1>4, <2>2, <3>2
  <2> QED
    BY <1>4, <2>1, <2>2
<1>6. q \in Request
  <2>1. <<>> \in Seq(Chunk) /\ r.final \in BOOLEAN
    BY RequestFields
  <2> QED
    BY <1>2, <1>4, <2>1 DEF Answer, NextCursor, Request
<1>7. q.step = "idle" /\ q.cursor = r.count /\ q.count = 0 /\ q.seen = r.seen \o body /\ q.body = <<>>
  BY DEF Answer, NextCursor, Request
<1>8. InOrder(<<>>)
  BY DEF InOrder
<1> HIDE DEF q
<1>9. Reading(q, n, at)
  BY <1>1, <1>2, <1>4, <1>5, <1>7, <1>8 DEF Reading
<1> QED
  BY <1>6, <1>9 DEF q

\* what one more chunk does,
LEMMA DrainedReads ==
    ASSUME NEW r \in Request, NEW n \in Seqno, NEW at, Rising(at, n), \A k \in Seqno : at[k] \in Nat,
           NEW c \in Chunk, Reading(r, n, at), r.step \in {"drain", "drainLive"},
           c[1] = at[r.seq], c[2] = at[r.seq + 1]
    PROVE  Drained(r, c) \in Request /\ Reading(Drained(r, c), n, at)
<1>1. /\ r.cursor <= r.seq /\ r.seq < r.count /\ r.count <= n /\ InOrder(r.seen) /\ InOrder(r.body)
      /\ Len(r.seen) > 0 => r.seen[Len(r.seen)][2] <= at[r.cursor]
      /\ Len(r.body) > 0 => at[r.cursor] <= r.body[1][1] /\ r.body[Len(r.body)][2] <= at[r.seq]
      /\ r.cursor <= n
  BY DEF Reading
<1>2. /\ r.cursor \in Nat /\ r.seq \in Nat /\ r.count \in Nat /\ r.cursor \in Seqno /\ r.seq \in Seqno /\ r.count \in Seqno
      /\ r.body \in Seq(Chunk) /\ n \in Nat
  BY RequestFields, SeqnoFacts
<1>3. at[r.cursor] \in Nat /\ at[r.seq] \in Nat /\ at[r.cursor] <= at[r.seq]
  BY <1>1, <1>2 DEF Rising
<1> DEFINE b == Append(r.body, c)
<1>4. /\ InOrder(b) /\ b \in Seq(Chunk) /\ Len(b) > 0 /\ b[Len(b)] = c
      /\ b[1] = IF Len(r.body) = 0 THEN c ELSE r.body[1]
  BY <1>1, <1>2, AppendInOrder
<1>5. at[r.cursor] <= b[1][1] /\ b[Len(b)][2] = at[r.seq + 1]
  <2>1. Len(r.body) \in Nat
    BY <1>2
  <2> QED
    BY <1>1, <1>3, <1>4, <2>1
<1> HIDE DEF b
<1>6. CASE r.seq + 1 = r.count
  <2>1. Drained(r, c) = Answer(r, b)
    BY <1>6 DEF Drained, b
  <2>2. at[r.count] \in Nat
    BY <1>2
  <2> QED
    BY <1>4, <1>5, <1>6, <2>1, <2>2, AnswerReads
<1>7. CASE r.seq + 1 # r.count
  <2> DEFINE q == [r EXCEPT !.step = "drain", !.body = b, !.seq = r.seq + 1]
  <2>1. r.seq + 1 \in Seqno /\ r.seq + 1 < r.count
    BY <1>1, <1>2, <1>7, SeqnoFacts
  <2>2. q \in Request
    BY <1>4, <2>1 DEF Request
  <2>3. /\ q.step = "drain" /\ q.count = r.count /\ q.seq = r.seq + 1 /\ q.cursor = r.cursor
        /\ q.body = b /\ q.seen = r.seen
    BY DEF Request
  <2>4. Drained(r, c) = q
    BY <1>7 DEF Drained, b
  <2>5. at[r.seq + 1] \in Nat
    BY <2>1
  <2> HIDE DEF q
  <2> QED
    <3>1. q.cursor <= n /\ q.count <= n /\ q.cursor <= q.seq /\ q.seq < q.count
      BY <1>1, <1>2, <2>1, <2>3
    <3>2. at[q.cursor] <= q.body[1][1] /\ q.body[Len(q.body)][2] <= at[q.seq]
      BY <1>5, <2>3, <2>5
    <3>3. Reading(q, n, at)
      BY <1>1, <1>4, <2>3, <3>1, <3>2 DEF Reading
    <3> QED
      BY <2>2, <2>4, <3>3
<1> QED
  BY <1>6, <1>7

\* and what giving up does.
LEMMA AbandonedReads ==
    ASSUME NEW r \in Request, NEW n \in Seqno, NEW at, Reading(r, n, at)
    PROVE  LET q == [r EXCEPT !.step = "idle", !.cut = TRUE, !.body = <<>>, !.count = 0, !.final = FALSE, !.seq = 0]
           IN  q \in Request /\ Reading(q, n, at)
<1> DEFINE q == [r EXCEPT !.step = "idle", !.cut = TRUE, !.body = <<>>, !.count = 0, !.final = FALSE, !.seq = 0]
<1>1. 0 \in Seqno /\ n \in Nat
  BY SeqnoFacts
<1>2. q \in Request
  <2>1. <<>> \in Seq(Chunk)
    OBVIOUS
  <2> QED
    BY <1>1, <2>1 DEF Request
<1>3. q.step = "idle" /\ q.count = 0 /\ q.cursor = r.cursor /\ q.body = <<>> /\ q.seen = r.seen
  BY DEF Request
<1>4. InOrder(<<>>)
  BY DEF InOrder
<1> HIDE DEF q
<1>5. Reading(q, n, at)
  BY <1>1, <1>3, <1>4 DEF Reading
<1> QED
  BY <1>2, <1>5 DEF q

-----------------------------------------------------------------------------
\* What the invariant says of numbers and chunks.
LEMMA BaseFacts ==
    ASSUME StreamBase
    PROVE  /\ uploader \in UploaderRecord /\ uploader.seq \in Seqno /\ uploader.offset \in Seqno /\ uploader.to \in Seqno
           /\ uploader.step \in {"poll", "chunk", "manifest", "off"} /\ uploader.cancelled \in BOOLEAN
           /\ uploader.seq \in Nat /\ uploader.offset \in Nat /\ uploader.to \in Nat
           /\ \A k \in Seqno : Starts[k] = Start(k)
           /\ \A k \in Seqno : Starts[k] \in Nat
           /\ \A k \in Seqno : live[k] \in Chunk \cup {NoChunk} /\ replay[k] \in Chunk \cup {NoChunk}
           /\ \A k \in Seqno : k < uploader.seq => Stream(k) \in Chunk
           /\ \A k \in Seqno : k < uploader.seq => k + 1 \in Seqno /\ Starts[k + 1] = Stream(k)[2]
           /\ Rising(Starts, uploader.seq)
<1>1. /\ uploader \in UploaderRecord /\ uploader.seq \in Seqno /\ uploader.offset \in Seqno /\ uploader.to \in Seqno
      /\ uploader.step \in {"poll", "chunk", "manifest", "off"} /\ uploader.cancelled \in BOOLEAN
  BY DEF StreamBase, Typed, UploaderRecord
<1>2. \A k \in Seqno : live[k] \in Chunk \cup {NoChunk} /\ replay[k] \in Chunk \cup {NoChunk}
  BY DEF StreamBase, Typed
<1>3. uploader.seq \in Nat /\ uploader.offset \in Nat /\ uploader.to \in Nat
  BY <1>1, SeqnoFacts
<1>4. \A k \in Seqno : Starts[k] = Start(k)
  BY DEF Starts
<1>5. \A k \in Seqno : k < uploader.seq => Stream(k) \in Chunk
  BY <1>2 DEF Stream, StreamBase, Stored
<1>6. ASSUME NEW k \in Seqno PROVE Starts[k] \in Nat
  <2>1. CASE k = 0
    BY <1>4, <2>1 DEF Start
  <2>2. CASE k # 0
    <3>1. k - 1 \in Seqno
      BY <2>2, SeqnoFacts
    <3>2. Stream(k - 1) \in Chunk \cup {NoChunk}
      BY <1>2, <3>1 DEF Stream
    <3>3. Stream(k - 1)[2] \in Nat
      BY <3>2, ChunkFacts DEF NoChunk
    <3> QED
      BY <1>4, <2>2, <3>3 DEF Start
  <2> QED
    BY <2>1, <2>2
<1>7. ASSUME NEW k \in Seqno, k < uploader.seq PROVE k + 1 \in Seqno /\ Starts[k + 1] = Stream(k)[2]
  <2>1. k \in Nat /\ k + 1 \in Seqno
    BY <1>1, <1>3, <1>7, StreamAssumption DEF Seqno
  <2>2. k + 1 # 0 /\ (k + 1) - 1 = k
    BY <2>1
  <2> QED
    BY <1>4, <2>1, <2>2 DEF Start
<1>8. Rising(Starts, uploader.seq)
  BY DEF StreamBase, Stored
<1> QED
  BY <1>1, <1>2, <1>3, <1>4, <1>5, <1>6, <1>7, <1>8

\* Who leaves the chunks that were put where they can be read, and counts only
\* those, keeps the invariant.
LEMMA ChunksKept ==
    ASSUME StreamBase, Typed', Uploading',
           uploader'.seq = uploader.seq, uploader'.offset = uploader.offset,
           \A k \in Seqno : k < uploader.seq => /\ Stream(k)' = Stream(k)
                                                /\ live'[k] # NoChunk => live'[k] = Stream(k),
           \A k \in Seqno : k >= uploader.seq => replay'[k] = NoChunk,
           liveCount' <= uploader.seq, replayCount' <= uploader.seq,
           \A k \in Seqno : k < replayCount' => replay'[k] # NoChunk,
           \A e \in Ender : Rotating(rotation'[e], uploader.seq, replay'),
           \A v \in Viewer : Reading(viewer'[v], uploader.seq, Starts)
    PROVE  StreamBase'
<1>1. \A k \in Seqno : k <= uploader.seq => Start(k)' = Start(k)
  <2> SUFFICES ASSUME NEW k \in Seqno, k <= uploader.seq PROVE Start(k)' = Start(k)
    OBVIOUS
  <2>1. k = 0 \/ (k - 1 \in Seqno /\ k - 1 < uploader.seq)
    BY BaseFacts, SeqnoFacts
  <2> QED
    BY <2>1 DEF Start
<1>2. \A k \in Seqno : k <= uploader.seq => Starts'[k] = Starts[k]
  BY <1>1 DEF Starts
<1>3. Stored'
  <2>1. ASSUME NEW k \in Seqno, k < uploader.seq
        PROVE  Stream(k)' # NoChunk /\ (live'[k] # NoChunk => live'[k] = Stream(k)') /\ Stream(k)'[1] = Start(k)'
    <3>1. k <= uploader.seq
      BY <2>1, BaseFacts, SeqnoFacts
    <3> QED
      BY <1>1, <2>1, <3>1 DEF StreamBase, Stored
  <2>2. (Start(uploader.seq) = uploader.offset)'
    <3>1. ASSUME NEW k \in Seqno, k = uploader.seq PROVE Start(k)' = uploader.offset
      BY <1>1, <3>1, BaseFacts DEF StreamBase, Stored
    <3>2. uploader'.seq \in Seqno /\ uploader'.seq = uploader.seq
      BY BaseFacts
    <3> QED
      BY <3>1, <3>2
  <2>3. Rising(Starts', uploader'.seq)
    <3>1. \A j, k \in Seqno : j <= k /\ k <= uploader.seq => j <= uploader.seq
      BY BaseFacts, SeqnoFacts
    <3> QED
      BY <1>2, <3>1 DEF StreamBase, Stored, Rising
  <2> QED
    BY <2>1, <2>2, <2>3 DEF Stored
<1>4. Counted'
  BY DEF Counted
<1>5. \A v \in Viewer : Reading(viewer'[v], uploader'.seq, Starts')
  <2>1. \A v \in Viewer : viewer'[v] \in Request
    BY DEF Typed
  <2>2. uploader.seq <= uploader.seq /\ uploader.seq \in Seqno
    BY BaseFacts
  <2> QED
    BY <1>2, <2>1, <2>2, ReadingStays
<1> QED
  BY <1>3, <1>4, <1>5 DEF StreamBase

\* Every step keeps the invariant.
LEMMA StreamStep ==
    ASSUME StreamBase, [SpectateNext]_spectateVars
    PROVE  StreamBase'
<1> USE DEF uploads, objects
<1>1. /\ stage \in {"playing", "over", "torn"} /\ written \in Seqno /\ uploader \in UploaderRecord
      /\ live \in [Seqno -> Chunk \cup {NoChunk}] /\ replay \in [Seqno -> Chunk \cup {NoChunk}]
      /\ liveCount \in Seqno /\ replayCount \in Seqno
      /\ rotation \in [Ender -> RotationRecord] /\ viewer \in [Viewer -> Request]
  BY DEF StreamBase, Typed
<1>2. /\ Uploading /\ Stored /\ Counted
      /\ \A e \in Ender : Rotating(rotation[e], uploader.seq, replay)
      /\ \A v \in Viewer : Reading(viewer[v], uploader.seq, Starts)
  BY DEF StreamBase, Counted
<1>3. /\ uploader.seq \in Seqno /\ uploader.offset \in Seqno /\ uploader.to \in Seqno
      /\ uploader.step \in {"poll", "chunk", "manifest", "off"} /\ uploader.cancelled \in BOOLEAN
      /\ uploader.seq \in Nat /\ uploader.offset \in Nat /\ uploader.to \in Nat /\ 0 \in Seqno /\ Seqno \subseteq Nat
  BY BaseFacts, SeqnoFacts
<1>4. liveCount <= uploader.seq /\ replayCount <= uploader.seq /\ \A k \in Seqno : k < replayCount => replay[k] # NoChunk
  BY <1>2 DEF Counted
\* Steps that touch no chunk.
<1>5. ASSUME UNCHANGED <<live, replay>>, Typed', Uploading',
             uploader'.seq = uploader.seq, uploader'.offset = uploader.offset,
             liveCount' <= uploader.seq, replayCount' <= uploader.seq,
             \A k \in Seqno : k < replayCount' => replay[k] # NoChunk,
             \A e \in Ender : Rotating(rotation'[e], uploader.seq, replay),
             \A v \in Viewer : Reading(viewer'[v], uploader.seq, Starts)
      PROVE  StreamBase'
  <2>1. \A k \in Seqno : k < uploader.seq => /\ Stream(k)' = Stream(k)
                                             /\ live'[k] # NoChunk => live'[k] = Stream(k)
    BY <1>2, <1>5 DEF Stored, Stream
  <2>2. \A k \in Seqno : k >= uploader.seq => replay'[k] = NoChunk
    BY <1>2, <1>5 DEF Stored
  <2>3. /\ \A k \in Seqno : k < replayCount' => replay'[k] # NoChunk
        /\ \A e \in Ender : Rotating(rotation'[e], uploader.seq, replay')
    BY <1>5
  <2> QED
    BY <1>5, <2>1, <2>2, <2>3, ChunksKept
\* The game server, the uploader's other steps and the teardown.
<1>6. ASSUME UNCHANGED <<live, replay, replayCount, rotation, viewer>>,
             stage' \in {"playing", "over", "torn"}, written' \in Seqno, uploader' \in UploaderRecord,
             uploader'.seq = uploader.seq, uploader'.offset = uploader.offset,
             uploader'.step = "chunk" => uploader.offset < uploader'.to,
             liveCount' \in {liveCount, uploader.seq}
      PROVE  StreamBase'
  <2>1. Typed'
    BY <1>1, <1>3, <1>6 DEF Typed
  <2>2. Uploading'
    BY <1>2, <1>6 DEF Uploading
  <2>3. liveCount' <= uploader.seq /\ replayCount' <= uploader.seq
    BY <1>3, <1>4, <1>6
  <2> QED
    BY <1>2, <1>4, <1>5, <1>6, <2>1, <2>2, <2>3
<1>7. CASE WriteStream
  <2>1. written + 1 \in Seqno
    BY <1>1, <1>7, StreamAssumption DEF WriteStream, Seqno
  <2> QED
    BY <1>1, <1>2, <1>6, <1>7, <2>1 DEF WriteStream, Uploading
<1>8. CASE GetSpectateChunkFromAgent
  <2>1. ServedTo(uploader.offset) \in Seqno /\ uploader.offset < ServedTo(uploader.offset)
    <3>1. ServedTo(uploader.offset) > uploader.offset
      BY <1>8 DEF GetSpectateChunkFromAgent
    <3>2. ServedTo(uploader.offset) \in Nat /\ (ServedTo(uploader.offset) <= written \/ ServedTo(uploader.offset) = uploader.offset)
      BY <1>1, <1>3, StreamAssumption DEF ServedTo
    <3> QED
      BY <1>1, <1>3, <3>1, <3>2, SeqnoFacts
  <2> DEFINE u == [uploader EXCEPT !.step = "chunk", !.to = ServedTo(uploader.offset)]
  <2>2. u \in UploaderRecord
    BY <1>1, <2>1 DEF UploaderRecord
  <2>3. u.seq = uploader.seq /\ u.offset = uploader.offset /\ u.to = ServedTo(uploader.offset)
    BY <1>1 DEF UploaderRecord
  <2>4. uploader' = u /\ UNCHANGED <<stage, written, live, liveCount, replay, replayCount, rotation, viewer>>
    BY <1>8 DEF GetSpectateChunkFromAgent
  <2> HIDE DEF u
  <2> QED
    BY <1>1, <1>6, <2>1, <2>2, <2>3, <2>4
<1>9. /\ Cancelled \in UploaderRecord /\ Cancelled.seq = uploader.seq /\ Cancelled.offset = uploader.offset
      /\ Cancelled.to = uploader.to /\ (Cancelled.step = "chunk" => uploader.step = "chunk")
  BY <1>1 DEF Cancelled, UploaderRecord
<1>10. CASE UploaderDies
  <2>1. uploader' = Cancelled /\ UNCHANGED <<stage, written, live, liveCount, replay, replayCount, rotation, viewer>>
    BY <1>10 DEF UploaderDies
  <2> QED
    BY <1>1, <1>2, <1>6, <1>9, <2>1 DEF Uploading
<1>11. CASE TeardownMatch
  BY <1>1, <1>2, <1>6, <1>11 DEF TeardownMatch, Uploading
\* After a request of the uploader.
<1>12. ASSUME NEW s \in {"poll", "manifest"}
       PROVE  AfterPut(s) \in {"off", s}
  BY DEF AfterPut
<1>13. CASE PutSpectateManifest
  <2> DEFINE u == [uploader EXCEPT !.step = AfterPut("poll")]
  <2>1. AfterPut("poll") \in {"off", "poll"}
    BY <1>12
  <2>2. /\ u \in UploaderRecord /\ u.seq = uploader.seq /\ u.offset = uploader.offset /\ u.step # "chunk"
    BY <1>1, <2>1 DEF UploaderRecord
  <2>3. /\ uploader' = u /\ UNCHANGED <<stage, written, live, replay, replayCount, rotation, viewer>>
        /\ liveCount' \in {liveCount, uploader.seq}
    BY <1>13 DEF PutSpectateManifest
  <2> HIDE DEF u
  <2> QED
    BY <1>1, <1>6, <2>2, <2>3
\* A failed PUT touches only what no manifest counts yet.
<1>14. CASE PutSpectateChunkFails
  <2> DEFINE u == [uploader EXCEPT !.step = AfterPut("poll")]
  <2>1. AfterPut("poll") \in {"off", "poll"}
    BY <1>12
  <2>2. /\ u \in UploaderRecord /\ u.seq = uploader.seq /\ u.offset = uploader.offset /\ u.step # "chunk"
    BY <1>1, <2>1 DEF UploaderRecord
  <2>3. /\ uploader' = u /\ UNCHANGED <<stage, written, liveCount, replay, replayCount, rotation, viewer>>
        /\ live' \in {live, InHand} /\ uploader.step = "chunk"
    BY <1>14 DEF PutSpectateChunkFails
  <2> HIDE DEF u
  <2>4. uploader.offset < uploader.to
    BY <1>2, <2>3 DEF Uploading
  <2>5. <<uploader.offset, uploader.to>> \in Chunk
    BY <1>3, <2>4, ChunkFacts
  <2>6. live' \in [Seqno -> Chunk \cup {NoChunk}] /\ \A k \in Seqno : k < uploader.seq => live'[k] = live[k]
    BY <1>1, <1>3, <2>3, <2>5 DEF InHand
  <2>7. Typed'
    BY <1>1, <2>2, <2>3, <2>6 DEF Typed
  <2>8. Uploading'
    BY <1>2, <2>2, <2>3 DEF Uploading
  <2>9. \A k \in Seqno : k < uploader.seq => /\ Stream(k)' = Stream(k)
                                             /\ live'[k] # NoChunk => live'[k] = Stream(k)
    BY <1>2, <2>3, <2>6 DEF Stored, Stream
  <2>10. /\ \A k \in Seqno : k >= uploader.seq => replay'[k] = NoChunk
         /\ \A k \in Seqno : k < replayCount' => replay'[k] # NoChunk
         /\ \A e \in Ender : Rotating(rotation'[e], uploader.seq, replay')
         /\ \A v \in Viewer : Reading(viewer'[v], uploader.seq, Starts)
         /\ liveCount' <= uploader.seq /\ replayCount' <= uploader.seq
    BY <1>2, <1>4, <2>3 DEF Stored
  <2> QED
    BY <2>2, <2>3, <2>7, <2>8, <2>9, <2>10, ChunksKept
\* A PUT that is answered adds the next chunk, after all the others.
<1>15. CASE PutSpectateChunk
  <2> DEFINE u == [uploader EXCEPT !.step = AfterPut("manifest"), !.seq = NextSeq, !.offset = OffsetAfter]
             n == uploader.seq
             c == <<uploader.offset, uploader.to>>
  <2>0. uploader.step = "chunk" /\ uploader.offset < uploader.to /\ n <= uploader.offset
    BY <1>2, <1>15 DEF PutSpectateChunk, Uploading
  <2>1. AfterPut("manifest") \in {"off", "manifest"} /\ n + 1 \in Seqno /\ n + 1 <= uploader.to
    <3>1. n + 1 <= uploader.to
      BY <1>3, <2>0
    <3>2. n + 1 \in Seqno
      BY <1>3, <3>1, SeqnoFacts
    <3> QED
      BY <1>12, <3>1, <3>2
  <2>2. u \in UploaderRecord /\ u.seq = n + 1 /\ u.offset = uploader.to /\ u.step # "chunk"
    BY <1>1, <1>3, <2>1 DEF UploaderRecord, NextSeq, OffsetAfter
  <2>3. /\ uploader' = u /\ UNCHANGED <<stage, written, liveCount, replay, replayCount, rotation, viewer>>
        /\ live' = [live EXCEPT ![n] = c]
    BY <1>15 DEF PutSpectateChunk, InHand
  <2>4. c \in Chunk /\ c # NoChunk /\ c[1] = uploader.offset /\ c[2] = uploader.to
    BY <1>3, <2>0, ChunkFacts
  <2> HIDE DEF u, c
  <2>5. /\ live' \in [Seqno -> Chunk \cup {NoChunk}] /\ live'[n] = c
        /\ \A k \in Seqno : k < n => live'[k] = live[k]
    BY <1>1, <1>3, <2>3, <2>4
  <2>6. replay[n] = NoChunk
    BY <1>2, <1>3 DEF Stored
  <2>7. /\ \A k \in Seqno : k < n => Stream(k)' = Stream(k)
        /\ \A k \in Seqno : k = n => Stream(k)' = c
    BY <2>3, <2>5, <2>6 DEF Stream
  <2>8. /\ \A k \in Seqno : k <= n => Start(k)' = Start(k)
        /\ \A k \in Seqno : k = n + 1 => Start(k)' = uploader.to
    <3>1. ASSUME NEW k \in Seqno, k <= n PROVE Start(k)' = Start(k)
      <4>1. k = 0 \/ (k - 1 \in Seqno /\ k - 1 < n)
        BY <1>3, <3>1, SeqnoFacts
      <4> QED
        BY <2>7, <4>1 DEF Start
    <3>2. ASSUME NEW k \in Seqno, k = n + 1 PROVE Start(k)' = uploader.to
      <4>1. k # 0 /\ k - 1 = n /\ k - 1 \in Seqno
        BY <1>3, <3>2
      <4> QED
        BY <2>4, <2>7, <4>1 DEF Start
    <3> QED
      BY <3>1, <3>2
  <2>9. /\ \A k \in Seqno : k <= n => Starts'[k] = Starts[k]
        /\ Starts'[n + 1] = uploader.to
    <3>1. \A k \in Seqno : Starts'[k] = Start(k)'
      BY DEF Starts
    <3>2. \A k \in Seqno : Starts[k] = Start(k)
      BY DEF Starts
    <3> QED
      BY <2>1, <2>8, <3>1, <3>2
  <2>10. Stored'
    <3>1. ASSUME NEW k \in Seqno, k < n + 1
          PROVE  Stream(k)' # NoChunk /\ (live'[k] # NoChunk => live'[k] = Stream(k)') /\ Stream(k)'[1] = Start(k)'
      <4>1. CASE k = n
        <5>1. Start(k)' = uploader.offset
          BY <1>2, <1>3, <2>8, <4>1 DEF Stored
        <5> QED
          BY <2>4, <2>5, <2>7, <4>1, <5>1
      <4>2. CASE k < n
        BY <1>2, <1>3, <2>5, <2>7, <2>8, <4>2 DEF Stored
      <4> QED
        BY <1>3, <3>1, <4>1, <4>2
    <3>2. \A k \in Seqno : k >= n + 1 => replay'[k] = NoChunk
      BY <1>2, <1>3, <2>3 DEF Stored
    <3>3. (Start(uploader.seq) = uploader.offset)'
      <4>1. uploader'.seq = n + 1 /\ uploader'.offset = uploader.to
        BY <2>2, <2>3
      <4> QED
        BY <2>1, <2>8, <4>1
    <3>4. Rising(Starts', n + 1)
      <4> SUFFICES ASSUME NEW j \in Seqno, NEW k \in Seqno, j <= k, k <= n + 1
                   PROVE  Starts'[j] <= Starts'[k]
        BY DEF Rising
      <4>1. CASE k <= n
        <5>1. j <= n
          BY <1>3, <4>1
        <5>2. Starts[j] <= Starts[k]
          BY <4>1, BaseFacts DEF Rising
        <5> QED
          BY <2>9, <4>1, <5>1, <5>2
      <4>2. CASE k = n + 1 /\ j <= n
        <5>1. Starts[j] <= Starts[n]
          BY <1>3, <4>2, BaseFacts DEF Rising
        <5>2. Starts[n] = uploader.offset /\ Starts[j] \in Nat
          BY <1>2, <1>3, BaseFacts DEF Stored
        <5> QED
          BY <1>3, <2>0, <2>9, <4>2, <5>1, <5>2
      <4>3. CASE k = n + 1 /\ j = n + 1
        BY <1>3, <2>9, <4>3
      <4> QED
        BY <1>3, <4>1, <4>2, <4>3
    <3>5. uploader'.seq = n + 1
      BY <2>2, <2>3
    <3> HIDE DEF n
    <3> QED
      BY <3>1, <3>2, <3>3, <3>4, <3>5 DEF Stored
  <2>11. Typed'
    BY <1>1, <2>2, <2>3, <2>5 DEF Typed
  <2>12. Uploading'
    BY <2>1, <2>2, <2>3 DEF Uploading
  <2>13. Counted'
    <3>1. liveCount <= n + 1 /\ replayCount <= n + 1
      BY <1>1, <1>3, <1>4
    <3>2. ASSUME NEW e \in Ender PROVE Rotating(rotation[e], n + 1, replay)
      <4>1. rotation[e].count \in Nat
        BY <1>1, <1>3 DEF RotationRecord
      <4> QED
        BY <1>2, <1>3, <4>1 DEF Rotating
    <3>3. uploader'.seq = n + 1
      BY <2>2, <2>3
    <3> HIDE DEF n
    <3> QED
      BY <1>4, <2>3, <3>1, <3>2, <3>3 DEF Counted
  <2>14. ASSUME NEW v \in Viewer PROVE Reading(viewer'[v], uploader'.seq, Starts')
    <3>1. Reading(viewer[v], n, Starts) /\ viewer[v] \in Request
      BY <1>1, <1>2
    <3>2. n <= n + 1
      BY <1>3
    <3>3. Reading(viewer[v], n + 1, Starts')
      BY <1>3, <2>1, <2>9, <3>1, <3>2, ReadingStays
    <3> QED
      BY <2>2, <2>3, <3>3
  <2> QED
    BY <2>10, <2>11, <2>12, <2>13, <2>14 DEF StreamBase
\* A call of EndMatch that touches no chunk.
<1>16. ASSUME NEW e \in Ender, NEW s \in {"idle", "read", "copy", "publish", "delete", "record", "done"},
              NEW i \in Seqno, NEW k \in Seqno, Rotate(e, s, i, k)
       PROVE  /\ rotation' \in [Ender -> RotationRecord]
              /\ rotation'[e] = [step |-> s, count |-> i, seq |-> k]
              /\ \A f \in Ender \ {e} : rotation'[f] = rotation[f]
  <2>1. [step |-> s, count |-> i, seq |-> k] \in RotationRecord
    BY DEF RotationRecord
  <2> QED
    BY <1>1, <1>16, <2>1 DEF Rotate
<1>17. ASSUME NEW e \in Ender, NEW s \in {"idle", "read", "record", "done"}, Rotate(e, s, 0, 0),
              UNCHANGED <<live, liveCount, replay, replayCount, viewer>>, UNCHANGED written,
              stage' \in {"playing", "over", "torn"}, uploader' \in {uploader, Cancelled}
       PROVE  StreamBase'
  <2>1. /\ rotation' \in [Ender -> RotationRecord] /\ rotation'[e] = [step |-> s, count |-> 0, seq |-> 0]
        /\ \A f \in Ender \ {e} : rotation'[f] = rotation[f]
    BY <1>3, <1>16, <1>17
  <2>2. Rotating([step |-> s, count |-> 0, seq |-> 0], uploader.seq, replay)
    BY <1>3 DEF Rotating
  <2>3. \A f \in Ender : Rotating(rotation'[f], uploader.seq, replay)
    BY <1>2, <2>1, <2>2
  <2>4. uploader' \in UploaderRecord /\ uploader'.seq = uploader.seq /\ uploader'.offset = uploader.offset
    BY <1>1, <1>9, <1>17
  <2>5. Uploading'
    BY <1>2, <1>9, <1>17 DEF Uploading
  <2>6. Typed'
    BY <1>1, <1>17, <2>1, <2>4 DEF Typed
  <2> QED
    BY <1>2, <1>4, <1>5, <1>17, <2>3, <2>4, <2>5, <2>6
<1>18. ASSUME NEW e \in Ender, EndMatchStops(e) PROVE StreamBase'
  <2>1. /\ Rotate(e, "read", 0, 0) /\ UNCHANGED <<stage, written, live, liveCount, replay, replayCount, viewer>>
        /\ uploader' \in {uploader, Cancelled}
    BY <1>18 DEF EndMatchStops
  <2> QED
    BY <1>1, <1>17, <2>1
<1>19. ASSUME NEW e \in Ender, CopyFails(e) \/ RecordResult(e) \/ EnderCrashes(e) PROVE StreamBase'
  <2>1. /\ Rotate(e, "record", 0, 0) \/ Rotate(e, "done", 0, 0)
        /\ UNCHANGED <<written, uploader, live, liveCount, replay, replayCount, viewer>>
        /\ stage' \in {"playing", "over", "torn"}
    BY <1>1, <1>19 DEF CopyFails, RecordResult, EnderCrashes
  <2> QED
    BY <1>1, <1>17, <2>1
\* Whatever it writes, the call keeps to what was counted when it began.
<1>20. ASSUME NEW e \in Ender, NEW s \in {"idle", "read", "copy", "publish", "delete", "record", "done"},
              NEW i \in Seqno, NEW k \in Seqno, Rotate(e, s, i, k),
              UNCHANGED <<stage, written, uploader, viewer>>,
              live' \in [Seqno -> Chunk \cup {NoChunk}], replay' \in [Seqno -> Chunk \cup {NoChunk}],
              liveCount' \in Seqno, replayCount' \in Seqno,
              \A j \in Seqno : j < uploader.seq => /\ Stream(j)' = Stream(j)
                                                   /\ live'[j] # NoChunk => live'[j] = Stream(j),
              \A j \in Seqno : replay[j] # NoChunk => replay'[j] # NoChunk,
              \A j \in Seqno : j >= uploader.seq => replay'[j] = NoChunk,
              liveCount' <= uploader.seq, replayCount' <= uploader.seq,
              \A j \in Seqno : j < replayCount' => replay'[j] # NoChunk,
              Rotating([step |-> s, count |-> i, seq |-> k], uploader.seq, replay')
       PROVE  StreamBase'
  <2>1. /\ rotation' \in [Ender -> RotationRecord] /\ rotation'[e] = [step |-> s, count |-> i, seq |-> k]
        /\ \A f \in Ender \ {e} : rotation'[f] = rotation[f]
    BY <1>16, <1>20
  <2>2. ASSUME NEW f \in Ender PROVE Rotating(rotation'[f], uploader.seq, replay')
    <3>1. CASE f = e
      BY <1>20, <2>1, <3>1
    <3>2. CASE f # e
      <4>1. rotation'[f] = rotation[f] /\ Rotating(rotation[f], uploader.seq, replay)
        BY <1>2, <2>1, <3>2
      <4> QED
        BY <1>20, <4>1 DEF Rotating
    <3> QED
      BY <3>1, <3>2
  <2>3. Typed'
    BY <1>1, <1>20, <2>1 DEF Typed
  <2>4. Uploading'
    BY <1>2, <1>20 DEF Uploading
  <2> QED
    BY <1>2, <1>20, <2>2, <2>3, <2>4, ChunksKept
\* What holds as long as no chunk is touched.
<1>21. /\ \A j \in Seqno : j < uploader.seq /\ live[j] # NoChunk => live[j] = Stream(j)
       /\ \A j \in Seqno : j >= uploader.seq => replay[j] = NoChunk
  BY <1>2 DEF Stored
<1>22. ASSUME UNCHANGED <<live, replay>> PROVE \A j \in Seqno : Stream(j)' = Stream(j)
  BY <1>22 DEF Stream
<1>23. ASSUME NEW e \in Ender
       PROVE  rotation[e].count \in Seqno /\ rotation[e].seq \in Seqno /\ rotation[e].count \in Nat /\ rotation[e].seq \in Nat
  BY <1>1, <1>3 DEF RotationRecord
<1>24. ASSUME NEW e \in Ender, ReadLiveManifest(e) PROVE StreamBase'
  <2>1. UNCHANGED <<stage, written, uploader, viewer, live, liveCount, replay, replayCount>>
    BY <1>24 DEF ReadLiveManifest
  <2>2. CASE liveCount > 0 /\ Rotate(e, "copy", liveCount, 0)
    <3>1. Rotating([step |-> "copy", count |-> liveCount, seq |-> 0], uploader.seq, replay')
      <4> DEFINE q == [step |-> "copy", count |-> liveCount, seq |-> 0]
      <4>1. q.step = "copy" /\ q.count = liveCount /\ q.seq = 0
        OBVIOUS
      <4>2. q.count <= uploader.seq /\ q.seq < q.count
        BY <1>4, <2>2, <4>1
      <4>3. \A j \in Seqno : ~(j < 0)
        BY <1>3
      <4> HIDE DEF q
      <4>4. Rotating(q, uploader.seq, replay')
        BY <4>1, <4>2, <4>3 DEF Rotating
      <4> QED
        BY <4>4 DEF q
    <3>2. \A j \in Seqno : j < uploader.seq => /\ Stream(j)' = Stream(j)
                                               /\ live'[j] # NoChunk => live'[j] = Stream(j)
      BY <1>21, <1>22, <2>1
    <3>3. /\ \A j \in Seqno : replay[j] # NoChunk => replay'[j] # NoChunk
          /\ \A j \in Seqno : j >= uploader.seq => replay'[j] = NoChunk
          /\ \A j \in Seqno : j < replayCount' => replay'[j] # NoChunk
      BY <1>4, <1>21, <2>1
    <3>4. /\ live' \in [Seqno -> Chunk \cup {NoChunk}] /\ replay' \in [Seqno -> Chunk \cup {NoChunk}]
          /\ liveCount' \in Seqno /\ replayCount' \in Seqno /\ liveCount \in Seqno /\ 0 \in Seqno
          /\ liveCount' <= uploader.seq /\ replayCount' <= uploader.seq
      BY <1>1, <1>3, <1>4, <2>1
    <3> HIDE DEF uploads, objects
    <3> QED
      BY <1>20, <2>1, <2>2, <3>1, <3>2, <3>3, <3>4
  <2>3. CASE Rotate(e, "record", 0, 0)
    BY <1>1, <1>17, <2>1, <2>3
  <2> QED
    BY <1>24, <2>2, <2>3 DEF ReadLiveManifest
<1>25. ASSUME NEW e \in Ender, CopyChunk(e) PROVE StreamBase'
  <2> DEFINE k == rotation[e].seq
             n == rotation[e].count
  <2>1. /\ rotation[e].step = "copy" /\ live[k] # NoChunk /\ replay' = [replay EXCEPT ![k] = live[k]]
        /\ Rotate(e, IF AllCopied(e) THEN "publish" ELSE "copy", n, k + 1)
        /\ UNCHANGED <<stage, written, uploader, live, liveCount, replayCount, viewer>>
    BY <1>25 DEF CopyChunk
  <2>2. /\ k < n /\ n <= uploader.seq /\ \A j \in Seqno : j < k => replay[j] # NoChunk
        /\ k \in Seqno /\ n \in Seqno /\ k \in Nat /\ n \in Nat
    BY <1>2, <1>23, <2>1 DEF Rotating
  <2>3. k + 1 \in Seqno /\ k < uploader.seq
    BY <1>3, <2>2, SeqnoFacts
  <2>4. live[k] = Stream(k) /\ live[k] \in Chunk \cup {NoChunk}
    BY <1>1, <1>21, <2>1, <2>2, <2>3
  <2>5. AllCopied(e) <=> k + 1 = n
    BY DEF AllCopied
  <2> HIDE DEF k, n
  <2>6. /\ replay' \in [Seqno -> Chunk \cup {NoChunk}] /\ replay'[k] = live[k]
        /\ \A j \in Seqno : j # k => replay'[j] = replay[j]
    BY <1>1, <2>1, <2>2, <2>4
  <2>7. \A j \in Seqno : Stream(j)' = Stream(j)
    BY <2>1, <2>4, <2>6 DEF Stream
  <2>8. /\ \A j \in Seqno : replay[j] # NoChunk => replay'[j] # NoChunk
        /\ \A j \in Seqno : j >= uploader.seq => replay'[j] = NoChunk
        /\ \A j \in Seqno : j < k + 1 => replay'[j] # NoChunk
    BY <1>3, <1>21, <2>1, <2>2, <2>3, <2>6
  <2>9. \A j \in Seqno : j < replayCount' => replay'[j] # NoChunk
    BY <1>4, <2>1, <2>8
  <2>10. CASE k + 1 = n
    <3>1. Rotating([step |-> "publish", count |-> n, seq |-> k + 1], uploader.seq, replay')
      BY <2>2, <2>8, <2>10 DEF Rotating
    <3>2. Rotate(e, "publish", n, k + 1)
      BY <2>1, <2>5, <2>10
    <3> QED
      BY <1>1, <1>4, <1>20, <1>21, <2>1, <2>2, <2>3, <2>6, <2>7, <2>8, <2>9, <3>1, <3>2
  <2>11. CASE k + 1 # n
    <3>1. Rotating([step |-> "copy", count |-> n, seq |-> k + 1], uploader.seq, replay')
      BY <2>2, <2>8, <2>11 DEF Rotating
    <3>2. Rotate(e, "copy", n, k + 1)
      BY <2>1, <2>5, <2>11
    <3> QED
      BY <1>1, <1>4, <1>20, <1>21, <2>1, <2>2, <2>3, <2>6, <2>7, <2>8, <2>9, <3>1, <3>2
  <2> QED
    BY <2>10, <2>11
<1>26. ASSUME NEW e \in Ender, PublishReplay(e) PROVE StreamBase'
  <2> DEFINE n == rotation[e].count
  <2>1. /\ rotation[e].step = "publish" /\ replayCount' = n /\ Rotate(e, "delete", n, 0)
        /\ UNCHANGED <<stage, written, uploader, live, liveCount, replay, viewer>>
    BY <1>26 DEF PublishReplay
  <2>2. n <= uploader.seq /\ n \in Seqno /\ n \in Nat /\ \A j \in Seqno : j < n => replay[j] # NoChunk
    BY <1>2, <1>23, <2>1 DEF Rotating
  <2> HIDE DEF n
  <2>3. Rotating([step |-> "delete", count |-> n, seq |-> 0], uploader.seq, replay')
    BY <2>1, <2>2 DEF Rotating
  <2> QED
    BY <1>1, <1>3, <1>4, <1>20, <1>21, <1>22, <2>1, <2>2, <2>3
<1>27. ASSUME NEW e \in Ender, DeleteLive(e) PROVE StreamBase'
  <2> DEFINE k == rotation[e].seq
             n == rotation[e].count
  <2>1. /\ rotation[e].step = "delete" /\ UNCHANGED <<stage, written, uploader, replay, replayCount, viewer>>
        /\ \/ k < n /\ live' \in {[live EXCEPT ![k] = NoChunk], live} /\ Rotate(e, "delete", n, k + 1) /\ UNCHANGED liveCount
           \/ liveCount' \in {0, liveCount} /\ Rotate(e, "record", 0, 0) /\ UNCHANGED live
    BY <1>27 DEF DeleteLive
  <2>2. /\ n <= uploader.seq /\ \A j \in Seqno : j < n => replay[j] # NoChunk
        /\ k \in Seqno /\ n \in Seqno /\ k \in Nat /\ n \in Nat
    BY <1>2, <1>23, <2>1 DEF Rotating
  <2> HIDE DEF k, n
  <2>3. CASE k < n /\ live' \in {[live EXCEPT ![k] = NoChunk], live} /\ Rotate(e, "delete", n, k + 1) /\ UNCHANGED liveCount
    <3>1. /\ live' \in [Seqno -> Chunk \cup {NoChunk}]
          /\ \A j \in Seqno : j # k => live'[j] = live[j]
          /\ live'[k] = NoChunk \/ live'[k] = live[k]
      BY <1>1, <2>2, <2>3
    <3>2. replay[k] # NoChunk
      BY <2>2, <2>3
    <3>3. \A j \in Seqno : Stream(j)' = Stream(j)
      BY <2>1, <3>1, <3>2 DEF Stream
    <3>4. \A j \in Seqno : j < uploader.seq /\ live'[j] # NoChunk => live'[j] = Stream(j)
      BY <1>21, <2>2, <3>1
    <3>5. k + 1 \in Seqno
      BY <2>2, <2>3, SeqnoFacts
    <3>6. Rotating([step |-> "delete", count |-> n, seq |-> k + 1], uploader.seq, replay')
      BY <2>1, <2>2, <2>3 DEF Rotating
    <3> QED
      BY <1>1, <1>4, <1>20, <1>21, <2>1, <2>2, <2>3, <3>1, <3>3, <3>4, <3>5, <3>6
  <2>4. CASE liveCount' \in {0, liveCount} /\ Rotate(e, "record", 0, 0) /\ UNCHANGED live
    <3>1. Rotating([step |-> "record", count |-> 0, seq |-> 0], uploader.seq, replay')
      BY <1>3 DEF Rotating
    <3>2. liveCount' \in Seqno /\ liveCount' <= uploader.seq
      BY <1>1, <1>3, <1>4, <2>4
    <3> QED
      BY <1>1, <1>3, <1>4, <1>20, <1>21, <1>22, <2>1, <2>4, <3>1, <3>2
  <2> QED
    BY <2>1, <2>3, <2>4
\* A spectator's step.
<1>28. ASSUME NEW v \in Viewer, NEW r \in Request, View(v, r), Unwatched, Reading(r, uploader.seq, Starts)
       PROVE  StreamBase'
  <2>1. /\ UNCHANGED <<stage, written, uploader, live, liveCount, replay, replayCount, rotation>>
        /\ viewer' = [viewer EXCEPT ![v] = r]
    BY <1>28 DEF Unwatched, View
  <2>2. viewer' \in [Viewer -> Request] /\ \A w \in Viewer : Reading(viewer'[w], uploader.seq, Starts)
    BY <1>1, <1>2, <1>28, <2>1
  <2>3. Typed'
    BY <1>1, <2>1, <2>2 DEF Typed
  <2>4. Uploading'
    BY <1>2, <2>1 DEF Uploading
  <2> QED
    BY <1>2, <1>4, <1>5, <2>1, <2>2, <2>3, <2>4
<1>29. ASSUME NEW v \in Viewer
       PROVE  viewer[v] \in Request /\ Reading(viewer[v], uploader.seq, Starts)
  BY <1>1, <1>2
<1>30. ASSUME NEW v \in Viewer, GetMatchStream(v) PROVE StreamBase'
  <2> DEFINE r == [viewer[v] EXCEPT !.row = stage # "torn", !.cut = FALSE]
             q == [r EXCEPT !.step = "live"]
  <2>1. /\ viewer[v].step = "idle" /\ Unwatched
        /\ \/ View(v, OnManifest(r, replayCount, TRUE))
           \/ View(v, q)
    BY <1>30 DEF GetMatchStream
  <2>2. (stage # "torn") \in BOOLEAN
    OBVIOUS
  <2>3. r \in Request
    BY <1>29, <2>2 DEF Request
  <2>4. /\ r.step = viewer[v].step /\ r.cursor = viewer[v].cursor /\ r.count = viewer[v].count
        /\ r.seq = viewer[v].seq /\ r.body = viewer[v].body /\ r.seen = viewer[v].seen
    BY <1>29 DEF Request
  <2>5. q \in Request /\ q.step = "live" /\ q.cursor = r.cursor /\ q.count = r.count /\ q.body = r.body /\ q.seen = r.seen
    BY <2>3 DEF Request
  <2> HIDE DEF q, r
  <2>6. Reading(r, uploader.seq, Starts)
    BY <1>29, <2>4 DEF Reading
  <2>7. Reading(q, uploader.seq, Starts)
    BY <2>1, <2>4, <2>5, <2>6 DEF Reading
  <2>8. CASE View(v, q)
    BY <1>28, <2>1, <2>5, <2>7, <2>8
  <2>9. CASE View(v, OnManifest(r, replayCount, TRUE))
    <3>1. r.step \in {"idle", "live"}
      BY <2>1, <2>4
    <3>2. OnManifest(r, replayCount, TRUE) \in Request /\ Reading(OnManifest(r, replayCount, TRUE), uploader.seq, Starts)
      BY <1>1, <1>3, <1>4, <2>3, <2>6, <3>1, OnManifestReads
    <3> QED
      BY <1>28, <2>1, <2>9, <3>2
  <2> QED
    BY <2>1, <2>8, <2>9
<1>31. ASSUME NEW v \in Viewer, GetLiveManifest(v) PROVE StreamBase'
  <2> DEFINE s == IF viewer[v].row THEN "idle" ELSE "gone"
             q == [viewer[v] EXCEPT !.step = s]
  <2>1. /\ viewer[v].step = "live" /\ Unwatched
        /\ View(v, OnManifest(viewer[v], liveCount, FALSE)) \/ View(v, q)
    BY <1>31 DEF GetLiveManifest
  <2>2. s \in {"idle", "gone"}
    OBVIOUS
  <2> HIDE DEF s
  <2>3. q \in Request
    BY <1>29, <2>2 DEF Request
  <2>4. /\ q.step = s /\ q.cursor = viewer[v].cursor /\ q.count = viewer[v].count
        /\ q.body = viewer[v].body /\ q.seen = viewer[v].seen
    BY <1>29 DEF Request
  <2> HIDE DEF q
  <2>5. Reading(q, uploader.seq, Starts)
    BY <1>29, <2>1, <2>2, <2>4 DEF Reading
  <2>6. CASE View(v, q)
    BY <1>28, <2>1, <2>3, <2>5, <2>6
  <2>7. CASE View(v, OnManifest(viewer[v], liveCount, FALSE))
    <3>1. /\ OnManifest(viewer[v], liveCount, FALSE) \in Request
          /\ Reading(OnManifest(viewer[v], liveCount, FALSE), uploader.seq, Starts)
      BY <1>1, <1>3, <1>4, <1>29, <2>1, OnManifestReads
    <3> QED
      BY <1>28, <2>1, <2>7, <3>1
  <2> QED
    BY <2>1, <2>6, <2>7
\* A chunk that is sent is the one that was put under its number.
<1>32. ASSUME NEW v \in Viewer, viewer[v].step \in {"drain", "drainLive"}
       PROVE  /\ viewer[v].seq < uploader.seq /\ viewer[v].seq \in Seqno
              /\ viewer[v].cursor <= viewer[v].seq /\ viewer[v].seq < viewer[v].count
              /\ Stream(viewer[v].seq) \in Chunk
              /\ Stream(viewer[v].seq)[1] = Starts[viewer[v].seq]
              /\ Stream(viewer[v].seq)[2] = Starts[viewer[v].seq + 1]
  <2>1. viewer[v].seq \in Seqno /\ viewer[v].seq \in Nat /\ viewer[v].count \in Nat
    BY <1>29, RequestFields
  <2>2. viewer[v].cursor <= viewer[v].seq /\ viewer[v].seq < viewer[v].count /\ viewer[v].count <= uploader.seq
    BY <1>29, <1>32 DEF Reading
  <2>3. viewer[v].seq < uploader.seq
    BY <1>3, <2>1, <2>2
  <2>4. \A k \in Seqno : k < uploader.seq => Stream(k)[1] = Start(k)
    BY <1>2 DEF Stored
  <2> QED
    BY <2>1, <2>2, <2>3, <2>4, BaseFacts
<1>33. Rising(Starts, uploader.seq) /\ \A k \in Seqno : Starts[k] \in Nat
  BY BaseFacts
<1>34. ASSUME NEW v \in Viewer, viewer[v].step \in {"drain", "drainLive"},
              NEW c, c = Stream(viewer[v].seq), View(v, Drained(viewer[v], c)), Unwatched
       PROVE  StreamBase'
  <2>1. c \in Chunk /\ c[1] = Starts[viewer[v].seq] /\ c[2] = Starts[viewer[v].seq + 1]
    BY <1>32, <1>34
  <2>2. Drained(viewer[v], c) \in Request /\ Reading(Drained(viewer[v], c), uploader.seq, Starts)
    BY <1>3, <1>29, <1>33, <1>34, <2>1, DrainedReads
  <2> QED
    BY <1>28, <1>34, <2>2
<1>35. ASSUME NEW v \in Viewer, DrainReplay(v) PROVE StreamBase'
  <2> DEFINE k == viewer[v].seq
             q == [viewer[v] EXCEPT !.step = "drainLive"]
  <2>1. /\ viewer[v].step = "drain" /\ Unwatched
        /\ View(v, IF replay[k] # NoChunk THEN Drained(viewer[v], replay[k]) ELSE q)
    BY <1>35 DEF DrainReplay
  <2>2. CASE replay[k] # NoChunk
    <3>1. replay[k] = Stream(k)
      BY <2>2 DEF Stream
    <3> QED
      BY <1>34, <2>1, <2>2, <3>1
  <2>3. CASE replay[k] = NoChunk
    <3>1. q \in Request
      BY <1>29 DEF Request
    <3>2. /\ q.step = "drainLive" /\ q.cursor = viewer[v].cursor /\ q.count = viewer[v].count
          /\ q.seq = viewer[v].seq /\ q.body = viewer[v].body /\ q.seen = viewer[v].seen
      BY <1>29 DEF Request
    <3>3. View(v, q)
      BY <2>1, <2>3
    <3> HIDE DEF q
    <3>4. Reading(q, uploader.seq, Starts)
      BY <1>29, <2>1, <3>2 DEF Reading
    <3> QED
      BY <1>28, <2>1, <3>1, <3>3, <3>4
  <2> QED
    BY <2>2, <2>3
<1>36. ASSUME NEW v \in Viewer, DrainLive(v) PROVE StreamBase'
  <2> DEFINE k == viewer[v].seq
  <2>1. /\ viewer[v].step = "drainLive" /\ Unwatched
        /\ View(v, IF live[k] # NoChunk THEN Drained(viewer[v], live[k]) ELSE Answer(viewer[v], viewer[v].body))
    BY <1>36 DEF DrainLive
  <2>2. CASE live[k] # NoChunk
    <3>1. live[k] = Stream(k)
      BY <1>21, <1>32, <2>1, <2>2
    <3> QED
      BY <1>34, <2>1, <2>2, <3>1
  <2>3. CASE live[k] = NoChunk
    <3> DEFINE body == viewer[v].body
    <3>1. /\ body \in Seq(Chunk) /\ viewer[v].seq \in Seqno /\ viewer[v].count \in Seqno
          /\ viewer[v].seq \in Nat /\ viewer[v].count \in Nat
      BY <1>29, RequestFields
    <3>2. /\ InOrder(body) /\ viewer[v].count <= uploader.seq
          /\ Len(body) > 0 => Starts[viewer[v].cursor] <= body[1][1] /\ body[Len(body)][2] <= Starts[viewer[v].seq]
      BY <1>29 DEF Reading
    <3>3. Starts[viewer[v].seq] <= Starts[viewer[v].count]
      BY <1>32, <1>33, <2>1, <3>1, <3>2 DEF Rising
    <3>4. Len(body) > 0 => body[Len(body)][2] <= Starts[viewer[v].count]
      <4>1. Len(body) > 0 => body[Len(body)] \in Chunk
        BY <3>1
      <4>2. Len(body) > 0 => body[Len(body)][2] \in Nat
        BY <4>1, ChunkFacts
      <4> QED
        BY <1>33, <3>1, <3>2, <3>3, <4>2
    <3>5. Answer(viewer[v], body) \in Request /\ Reading(Answer(viewer[v], body), uploader.seq, Starts)
      BY <1>3, <1>29, <1>33, <2>1, <3>1, <3>2, <3>4, AnswerReads
    <3> QED
      BY <1>28, <2>1, <2>3, <3>5
  <2> QED
    BY <2>2, <2>3
<1>37. ASSUME NEW v \in Viewer, Abandon(v) PROVE StreamBase'
  <2> DEFINE q == [viewer[v] EXCEPT !.step = "idle", !.cut = TRUE, !.body = <<>>, !.count = 0, !.final = FALSE, !.seq = 0]
  <2>1. View(v, q) /\ Unwatched
    BY <1>37 DEF Abandon
  <2>2. q \in Request /\ Reading(q, uploader.seq, Starts)
    BY <1>3, <1>29, AbandonedReads
  <2> HIDE DEF q
  <2> QED
    BY <1>28, <2>1, <2>2
<1>38. CASE UNCHANGED spectateVars
  <2>1. UNCHANGED <<stage, written, uploader, live, liveCount, replay, replayCount, rotation, viewer>>
    BY <1>38 DEF spectateVars
  <2> QED
    BY <1>1, <1>2, <1>6, <2>1 DEF Uploading
<1> QED
  BY <1>7, <1>8, <1>10, <1>11, <1>13, <1>14, <1>15, <1>18, <1>19, <1>24, <1>25, <1>26, <1>27, <1>30, <1>31,
     <1>35, <1>36, <1>37, <1>38
     DEF SpectateNext, Upload, EndMatchGoesOn, Watch

-----------------------------------------------------------------------------
(***************************************************************************)
(* The theorems.                                                           *)
(***************************************************************************)
\* The uploader, any calls of EndMatch and any spectators keep what they say of
\* each other's chunks (uploader.go:89, aws.go:150, spectate.go:85).
THEOREM StreamInvariance == SpectateSpec => []StreamBase
<1>1. SpectateInit => StreamBase
  <2> SUFFICES ASSUME SpectateInit PROVE StreamBase
    OBVIOUS
  <2>0. 0 \in Seqno /\ Seqno \subseteq Nat
    BY SeqnoFacts
  <2>1. /\ stage = "playing" /\ written = 0
        /\ live = [k \in Seqno |-> NoChunk] /\ replay = [k \in Seqno |-> NoChunk]
        /\ liveCount = 0 /\ replayCount = 0
        /\ rotation = [e \in Ender |-> [step |-> "idle", count |-> 0, seq |-> 0]]
    BY DEF SpectateInit
  <2>2. uploader \in UploaderRecord /\ uploader.seq = 0 /\ uploader.offset = 0 /\ uploader.step = "poll"
    BY <2>0 DEF SpectateInit, UploaderRecord
  <2> DEFINE r == [step |-> "idle", row |-> TRUE, cursor |-> 0, count |-> 0, final |-> FALSE,
                   seq |-> 0, body |-> <<>>, seen |-> <<>>, eof |-> FALSE, cut |-> FALSE]
  <2>3. viewer = [v \in Viewer |-> r]
    BY DEF SpectateInit
  <2>4. r \in Request /\ r.step = "idle" /\ r.cursor = 0 /\ r.count = 0 /\ r.body = <<>> /\ r.seen = <<>>
    <3>1. <<>> \in Seq(Chunk)
      OBVIOUS
    <3> QED
      BY <2>0, <3>1 DEF Request
  <2> HIDE DEF r
  <2>5. Typed
    <3>1. rotation \in [Ender -> RotationRecord]
      BY <2>0, <2>1 DEF RotationRecord
    <3>2. viewer \in [Viewer -> Request]
      BY <2>3, <2>4
    <3> QED
      BY <2>0, <2>1, <2>2, <3>1, <3>2 DEF Typed
  <2>6. Stored
    <3>1. Starts[0] = 0 /\ Start(0) = 0
      BY <2>0 DEF Starts, Start
    <3>2. Rising(Starts, 0)
      <4> SUFFICES ASSUME NEW j \in Seqno, NEW k \in Seqno, j <= k, k <= 0 PROVE Starts[j] <= Starts[k]
        BY DEF Rising
      <4>1. j = 0 /\ k = 0
        BY <2>0
      <4> QED
        BY <3>1, <4>1
    <3> QED
      BY <2>0, <2>1, <2>2, <3>1, <3>2 DEF Stored
  <2>7. Uploading /\ Counted
    BY <2>0, <2>1, <2>2 DEF Uploading, Counted, Rotating
  <2>8. \A v \in Viewer : Reading(viewer[v], uploader.seq, Starts)
    <3>1. InOrder(<<>>)
      BY DEF InOrder
    <3> QED
      BY <2>2, <2>3, <2>4, <3>1 DEF Reading
  <2> QED
    BY <2>5, <2>6, <2>7, <2>8 DEF StreamBase
<1>2. StreamBase /\ [SpectateNext]_spectateVars => StreamBase'
  BY StreamStep
<1> QED
  BY <1>1, <1>2, PTL DEF SpectateSpec

\* Every variable of the stream keeps its type.
THEOREM SpectateTypes == SpectateSpec => []SpectateTypeOK
<1>1. StreamBase => SpectateTypeOK
  BY DEF StreamBase, Typed, SpectateTypeOK, UploaderRecord, RotationRecord, Seqno
<1> QED
  BY <1>1, StreamInvariance, PTL

\* A replay that has a manifest has every chunk it counts, and they join from
\* byte 0 on (MoveSpectateLiveToReplay, aws.go:150).
THEOREM ReplaysAreComplete == SpectateSpec => []ReplayIsPrefix
<1>1. StreamBase => ReplayIsPrefix
  <2> SUFFICES ASSUME StreamBase, NEW k \in Seqno, k < replayCount
               PROVE  replay[k] # NoChunk /\ replay[k][1] = IF k = 0 THEN 0 ELSE replay[k - 1][2]
    BY DEF ReplayIsPrefix
  <2>1. \A j \in Seqno : j < replayCount => replay[j] # NoChunk /\ Stream(j) = replay[j]
    BY DEF StreamBase, Counted, Stream
  <2>2. k \in Nat /\ replayCount \in Nat /\ replayCount <= uploader.seq /\ uploader.seq \in Nat
    BY SeqnoFacts, BaseFacts DEF StreamBase, Counted, Typed
  <2>3. Stream(k)[1] = Start(k)
    BY <2>2 DEF StreamBase, Stored
  <2>4. k # 0 => k - 1 \in Seqno /\ k - 1 < replayCount
    BY <2>2, SeqnoFacts
  <2> QED
    BY <2>1, <2>3, <2>4 DEF Start
<1> QED
  BY <1>1, StreamInvariance, PTL

\* The manifest a spectator is given names only chunks that can be read then
\* (spectate.go:87-150), through rotation and deletion.
THEOREM ManifestsAreReadable == SpectateSpec => []StreamReadable
<1>1. StreamBase => StreamReadable
  <2> SUFFICES ASSUME StreamBase, NEW k \in Seqno, k < Manifest
               PROVE  Stream(k) # NoChunk
    BY DEF StreamReadable
  <2>1. liveCount \in Nat /\ replayCount \in Nat /\ uploader.seq \in Nat /\ k \in Nat
    BY SeqnoFacts, BaseFacts DEF StreamBase, Typed
  <2>2. Manifest \in Nat /\ Manifest <= uploader.seq
    BY <2>1 DEF Manifest, StreamBase, Counted
  <2> QED
    BY <2>1, <2>2 DEF StreamBase, Stored
<1> QED
  BY <1>1, StreamInvariance, PTL

\* No spectator is sent a byte twice or out of order (spectate.go:122).
THEOREM SpectatorsSeeInOrder == SpectateSpec => []SentInOrder
<1>1. StreamBase => SentInOrder
  BY DEF StreamBase, SentInOrder, Reading, InOrder
<1> QED
  BY <1>1, StreamInvariance, PTL
=============================================================================
