----------------------------- MODULE MatchQueue -----------------------------
(***************************************************************************)
(* One matchmaking queue: the WebSocket connections that join and leave    *)
(* it, its Redis keys, and the workers that pair its players and, on the   *)
(* garbage-collection trigger, sweep it and the finished matches.          *)
(*                                                                         *)
(* Each Redis command, pipeline or StartMatch call is one step.  What      *)
(* StartMatch does with hosts is in HostPool: here it succeeds while fewer *)
(* than Capacity matches hold a slot, and a slot is held until a worker's  *)
(* sweep tears the finished match down.                                    *)
(*                                                                         *)
(* Faults: a worker's machine stops and starts again, and a Redis command  *)
(* or the query for ratings fails, not carried out or carried out with its *)
(* reply lost.                                                             *)
(*                                                                         *)
(* An operator that no action uses, just before the one it resembles, is a *)
(* broken variant: substituting it shows that the properties notice.       *)
(***************************************************************************)
EXTENDS Integers, FiniteSetsExt, SequencesExt

CONSTANTS
    Player,
    Worker,     \* one worker loop per machine
    Strategy,   \* GameQueue.MatchmakingStrategy: "random" or "rating"
    LobbySize,
    Rating,     \* rating of each player
    Capacity,   \* matches the pool of hosts has slots for
    Buffer,     \* messages a pub/sub channel holds for a worker
    Throttled,  \* the passes that have a minimum interval: "pairing", "gc"
    MaxJoins,   \* bound: how often a player joins
    QueueFaults \* which faults may happen: "crash", "redis"

ASSUME QueueAssumption ==
    /\ Strategy \in {"random", "rating"}
    /\ {LobbySize, Buffer} \subseteq Nat \ {0}
    /\ {Capacity, MaxJoins} \subseteq Nat
    /\ Rating \in [Player -> Nat]

VARIABLES
    queue,      \* the list queue_<id>
    alive,      \* players with a key player_queue_<id>_<player>
    waited,     \* qjoined_<id>: the tier of the time since, or Unknown
    conn,       \* conn[p]: the connection of p
    subscribed, \* players whose match_ready subscription is in place
    note,       \* note[p]: the match_ready message for this connection of p
    displaced,  \* history: who is connected, but was taken out of the queue or of a
                \* worker's hand by a fault or by a sweep that came too late
    joins,      \* joins[p]: how often p was added to the queue
    seats,      \* seats[p]: how many matches p was started in
    worker,     \* worker[w]: what w does next, with its local variables
    pairingCh,  \* pairingCh[w]: matchmaking triggers waiting for w
    gcCh,       \* gcCh[w]: garbage-collection triggers waiting for w
    recent,     \* recent[w]: the passes w began within their minimum interval
    playing,    \* matches under way
    cooled      \* finished matches that a sweep would tear down

redis == <<queue, alive, waited>>
client == <<conn, subscribed, note>>
counts == <<joins, seats>>
loop == <<worker, pairingCh, gcCh, recent>>
slots == <<playing, cooled>>
vars == <<redis, client, displaced, counts, loop, slots>>

Unknown == -1

RedisFails == "redis" \in QueueFaults

Idle == [at |-> "idle"]
Pairing(s, hand, paired) == [at |-> s, hand |-> hand, paired |-> paired]
Timed(ids, tiers, paired) == [at |-> "rate", hand |-> ids, tiers |-> tiers, paired |-> paired]
Cleaning(s, hand) == [at |-> s, hand |-> hand]

Init ==
    /\ queue = <<>>
    /\ alive = {}
    /\ waited = [p \in Player |-> Unknown]
    /\ conn = [p \in Player |-> "off"]
    /\ subscribed = {}
    /\ note = [p \in Player |-> "none"]
    /\ displaced = {}
    /\ joins = [p \in Player |-> 0]
    /\ seats = [p \in Player |-> 0]
    /\ worker = [w \in Worker |-> Idle]
    /\ pairingCh = [w \in Worker |-> 1]
    /\ gcCh = [w \in Worker |-> 1]
    /\ recent = [w \in Worker |-> {}]
    /\ playing = 0
    /\ cooled = 0

Publish(ch) == [w \in Worker |-> IF ch[w] < Buffer THEN ch[w] + 1 ELSE ch[w]]
Become(w, t) == worker' = [worker EXCEPT ![w] = t]

(***************************************************************************)
(* Redis.                                                                  *)
(***************************************************************************)
\* LRem removes the first occurrence: of each player, the first occurrences go,
\* as many as there are in ps, and the rest close up.
At(p, s) == {i \in DOMAIN s : s[i] = p}
Times(p, s) == Cardinality(At(p, s))
Staying(s, ps) == {i \in DOMAIN s : Times(s[i], SubSeq(s, 1, i)) > Times(s[i], ps)}
Nth(I, n) == CHOOSE i \in I : Cardinality({j \in I : j <= i}) = n
RemoveAll(s, ps) ==
    LET I == Staying(s, ps) IN [n \in 1 .. Cardinality(I) |-> s[Nth(I, n)]]
Forget(ps) == [p \in Player |-> IF p \in Range(ps) THEN Unknown ELSE waited[p]]

ForgetOnly(ps) ==
    /\ alive' = alive \ Range(ps)
    /\ waited' = Forget(ps)
    /\ UNCHANGED queue
RemoveFromQueue(ps) ==
    /\ queue' = RemoveAll(queue, ps)
    /\ alive' = alive \ Range(ps)
    /\ waited' = Forget(ps)

\* RPush, then HSetNX of the join times.
KeepInHand(ps) == UNCHANGED redis
PushPlayersToQueue(ps) ==
    /\ queue' = queue \o ps
    /\ waited' = [p \in Player |-> IF p \in Range(ps) /\ waited[p] = Unknown THEN 0 ELSE waited[p]]
    /\ UNCHANGED alive

\* The players of a command that failed are gone.
Displace(ps) == displaced' = displaced \cup {p \in Range(ps) : conn[p] = "on"}

(***************************************************************************)
(* A player's connection.                                                  *)
(***************************************************************************)
\* NotifyOnReady subscribes in a goroutine of its own.
Connect(p) ==
    /\ conn[p] = "off"
    /\ joins[p] < MaxJoins
    /\ conn' = [conn EXCEPT ![p] = "joining"]
    /\ note' = [note EXCEPT ![p] = "none"]
    /\ UNCHANGED <<redis, subscribed, displaced, counts, loop, slots>>

Subscribe(p) ==
    /\ conn[p] # "off"
    /\ p \notin subscribed
    /\ subscribed' = subscribed \cup {p}
    /\ UNCHANGED <<redis, conn, note, displaced, counts, loop, slots>>

Close(p) ==
    /\ conn' = [conn EXCEPT ![p] = "off"]
    /\ subscribed' = subscribed \ {p}
    /\ displaced' = displaced \ {p}

\* AddPlayerToQueueWithTTL: LPos, then, in a second step, the pipeline.
LookUp(p) ==
    /\ conn[p] = "joining"
    /\ \/ /\ p \notin Range(queue)
          /\ conn' = [conn EXCEPT ![p] = "adding"]
          /\ UNCHANGED <<subscribed, displaced>>
       \/ (p \in Range(queue) \/ RedisFails) /\ Close(p)
    /\ UNCHANGED <<redis, note, counts, loop, slots>>

Enqueue(p) ==
    /\ queue' = Append(queue, p)
    /\ alive' = alive \cup {p}
    /\ waited' = [waited EXCEPT ![p] = 0]
    /\ joins' = [joins EXCEPT ![p] = @ + 1]

\* The trigger is best effort.
WakeWorkers ==
    \/ pairingCh' = Publish(pairingCh)
    \/ RedisFails /\ UNCHANGED pairingCh

AddPlayerToQueue(p) ==
    /\ conn[p] = "adding"
    /\ Enqueue(p)
    /\ WakeWorkers
    /\ conn' = [conn EXCEPT ![p] = "on"]
    /\ UNCHANGED <<subscribed, note, displaced, seats, worker, gcCh, recent, slots>>

\* The pipeline, or the GameQueueSize after it, fails: the connection ends,
\* though the player may be in the queue by now.
AddPlayerFails(p) ==
    /\ RedisFails
    /\ conn[p] = "adding"
    /\ \/ Enqueue(p) /\ WakeWorkers
       \/ UNCHANGED <<redis, joins, pairingCh>>
    /\ Close(p)
    /\ UNCHANGED <<note, seats, worker, gcCh, recent, slots>>

\* /disconnect: removed if found in the queue, the connection ends in any case.
Disconnect(p) ==
    /\ conn[p] = "on"
    /\ \/ p \in Range(queue) /\ RemoveFromQueue(<<p>>)
       \/ (p \notin Range(queue) \/ RedisFails) /\ UNCHANGED redis
    /\ Close(p)
    /\ UNCHANGED <<note, counts, loop, slots>>

\* The peer or its machine is gone, which is noticed once the queue is joined:
\* nothing is removed.
Drop(p) ==
    /\ conn[p] = "on"
    /\ Close(p)
    /\ UNCHANGED <<redis, note, counts, loop, slots>>

Hear(p) ==
    /\ conn[p] = "on"
    /\ note[p] = "heard"
    /\ Close(p)
    /\ UNCHANGED <<redis, note, counts, loop, slots>>

\* The connection refreshes the key; it expires once that stops, or fails all
\* the time.
ExpireKey(p) ==
    /\ p \in alive
    /\ alive' = alive \ {p}
    /\ \/ conn[p] # "on" /\ UNCHANGED displaced
       \/ conn[p] = "on" /\ RedisFails /\ displaced' = displaced \cup {p}
    /\ UNCHANGED <<queue, waited, client, counts, loop, slots>>

\* Time passes: a player's wait enters its next tier.
Wait(p) ==
    /\ Strategy = "rating"
    /\ waited[p] \in {0, 1}
    /\ waited' = [waited EXCEPT ![p] = @ + 1]
    /\ UNCHANGED <<queue, alive, client, displaced, counts, loop, slots>>

(***************************************************************************)
(* The worker loop: triggers, dropped within the minimum interval.         *)
(***************************************************************************)
\* A pass begins with a look at the queue; it ends there if AllQueues or the
\* first GameQueueSize fails.
BeginPairing(w) ==
    /\ worker[w] = Idle
    /\ pairingCh[w] > 0
    /\ pairingCh' = [pairingCh EXCEPT ![w] = @ - 1]
    /\ \/ "pairing" \in recent[w] /\ UNCHANGED <<worker, recent>>
       \/ /\ "pairing" \notin recent[w]
          /\ recent' = [recent EXCEPT ![w] = @ \cup ({"pairing"} \cap Throttled)]
          /\ \/ Become(w, Pairing("look", <<>>, FALSE))
             \/ RedisFails /\ UNCHANGED worker
    /\ UNCHANGED <<redis, client, displaced, counts, gcCh, slots>>

\* PairPlayers' deferred trigger.
Finish(w) ==
    /\ Become(w, Idle)
    /\ \/ gcCh' = IF worker[w].paired THEN Publish(gcCh) ELSE gcCh
       \/ RedisFails /\ UNCHANGED gcCh

GoOn(w, s, hand) ==
    /\ Become(w, Pairing(s, hand, worker[w].paired))
    /\ UNCHANGED gcCh

\* pairFIFO: LPOP takes up to LobbySize players.
Popped == SubSeq(queue, 1, IF Len(queue) < LobbySize THEN Len(queue) ELSE LobbySize)
LeftAfterPeek == queue
LeftAfterPop == SubSeq(queue, Len(Popped) + 1, Len(queue))

GameQueueSize(w) ==
    /\ Strategy = "random"
    /\ worker[w].at = "look"
    /\ \/ Len(queue) >= LobbySize /\ GoOn(w, "pop", <<>>)
       \/ (Len(queue) < LobbySize \/ RedisFails) /\ Finish(w)
    /\ UNCHANGED <<redis, client, displaced, counts, pairingCh, recent, slots>>

\* The join times are deleted in a second command, whose error is ignored.
PopPlayersFromQueue(w) ==
    /\ worker[w].at = "pop"
    /\ queue # <<>>
    /\ queue' = LeftAfterPop
    /\ \/ waited' = Forget(Popped)
       \/ RedisFails /\ UNCHANGED waited
    /\ GoOn(w, IF Len(Popped) < LobbySize THEN "return" ELSE "start", Popped)
    /\ UNCHANGED <<alive, client, displaced, counts, pairingCh, recent, slots>>

\* LPOP of an empty list is an error too; if the reply is lost, so are those
\* who were popped.
PopFails(w) ==
    /\ worker[w].at = "pop"
    /\ \/ (queue = <<>> \/ RedisFails) /\ UNCHANGED <<queue, displaced>>
       \/ RedisFails /\ queue' = LeftAfterPop /\ Displace(Popped)
    /\ Finish(w)
    /\ UNCHANGED <<alive, waited, client, counts, pairingCh, recent, slots>>

\* The error of a push-back is ignored: then whom it should bring back is displaced.
PushBack(ps) ==
    \/ PushPlayersToQueue(ps) /\ UNCHANGED displaced
    \/ RedisFails /\ Displace(ps) /\ UNCHANGED redis

\* Another worker or a /disconnect took some: the rest go back.
ReturnPlayers(w) ==
    /\ worker[w].at = "return"
    /\ PushBack(worker[w].hand)
    /\ Finish(w)
    /\ UNCHANGED <<client, counts, pairingCh, recent, slots>>

(***************************************************************************)
(* pairByRating: one group around the longest-waiting player.              *)
(***************************************************************************)
ratingWindow(tier) == CASE tier = 0 -> 100 [] tier = 1 -> 300 [] tier = 2 -> 1048576
Tier(tiers, p) == IF tiers[p] = Unknown THEN 2 ELSE tiers[p]
Apart(p, q) == IF Rating[p] < Rating[q] THEN Rating[q] - Rating[p] ELSE Rating[p] - Rating[q]

\* The LobbySize - 1 positions in the list closest to the seed's, ties broken
\* anyhow.
Position(ids) == 1 .. Len(ids)
Seeds(ids, tiers) ==
    {i \in Position(ids) : \A j \in Position(ids) : Tier(tiers, ids[j]) <= Tier(tiers, ids[i])}
Closest(ids, seed) ==
    {rest \in kSubset(LobbySize - 1, Position(ids) \ {seed}) :
        \A i \in rest, j \in Position(ids) \ (rest \cup {seed}) :
           Apart(ids[seed], ids[i]) <= Apart(ids[seed], ids[j])}

Fits(ids, tiers, seed, rest) ==
    \A i, j \in rest \cup {seed} :
        Apart(ids[i], ids[j]) <= ratingWindow(Tier(tiers, ids[seed]))

Group(ids, seed, rest) == <<ids[seed]>> \o [i \in 1 .. LobbySize - 1 |-> ids[SetToSeq(rest)[i]]]

\* Three reads, one after the other: the list, the join times, the ratings.
\* The ratings are constant, and a player's tier is that of the second read.
ReadQueue(w) ==
    /\ Strategy = "rating"
    /\ worker[w].at = "look"
    /\ \/ Len(queue) >= LobbySize /\ GoOn(w, "times", queue)
       \/ (Len(queue) < LobbySize \/ RedisFails) /\ Finish(w)
    /\ UNCHANGED <<redis, client, displaced, counts, pairingCh, recent, slots>>

QueueJoinTimes(w) ==
    /\ worker[w].at = "times"
    /\ \/ Become(w, Timed(worker[w].hand, waited, worker[w].paired)) /\ UNCHANGED gcCh
       \/ RedisFails /\ Finish(w)
    /\ UNCHANGED <<redis, client, displaced, counts, pairingCh, recent, slots>>

FormGroup(w) ==
    LET ids == worker[w].hand
        tiers == worker[w].tiers
    IN
    /\ worker[w].at = "rate"
    /\ \/ \E seed \in Seeds(ids, tiers) : \E rest \in Closest(ids, seed) :
             \/ Fits(ids, tiers, seed, rest) /\ GoOn(w, "remove", Group(ids, seed, rest))
             \/ ~Fits(ids, tiers, seed, rest) /\ Finish(w)
       \/ RedisFails /\ Finish(w)
    /\ UNCHANGED <<redis, client, displaced, counts, pairingCh, recent, slots>>

\* Whoever of the group has left the queue by now is started all the same.
RemovePlayersFromQueue(w) ==
    /\ worker[w].at = "remove"
    /\ RemoveFromQueue(worker[w].hand)
    /\ GoOn(w, "start", worker[w].hand)
    /\ UNCHANGED <<client, displaced, counts, pairingCh, recent, slots>>

RemovalFails(w) ==
    /\ RedisFails
    /\ worker[w].at = "remove"
    /\ \/ RemoveFromQueue(worker[w].hand) /\ Displace(worker[w].hand)
       \/ UNCHANGED <<redis, displaced>>
    /\ Finish(w)
    /\ UNCHANGED <<client, counts, pairingCh, recent, slots>>

(***************************************************************************)
(* StartMatch, and what both strategies do with its outcome.               *)
(***************************************************************************)
\* A message on a channel that nobody subscribes to is gone, and so is one that
\* a fault kept from being published.
PublishMatchReady(ps) ==
    \E sent \in IF QueueFaults = {} THEN {Range(ps)} ELSE SUBSET Range(ps) :
        note' = [p \in Player |->
                    IF p \notin Range(ps) \/ conn[p] = "off" \/ note[p] = "heard" THEN note[p]
                    ELSE IF p \in subscribed \cap sent THEN "heard" ELSE "missed"]

AtCapacity == playing + cooled >= Capacity

MatchStarts(w) ==
    LET hand == worker[w].hand IN
    /\ worker[w].at = "start"
    /\ ~AtCapacity
    /\ PublishMatchReady(hand)
    /\ seats' = [p \in Player |-> seats[p] + Times(p, hand)]
    /\ playing' = playing + 1
    /\ Become(w, Pairing("look", <<>>, TRUE))
    /\ UNCHANGED <<redis, conn, subscribed, displaced, joins, pairingCh, gcCh, recent, cooled>>

\* At capacity the players go back, silently; after any other failure they are
\* told, and not put back.
MatchFails(w) ==
    /\ worker[w].at = "start"
    /\ \/ AtCapacity /\ PushBack(worker[w].hand) /\ UNCHANGED note
       \/ PublishMatchReady(worker[w].hand) /\ UNCHANGED <<redis, displaced>>
    /\ GoOn(w, "look", <<>>)
    /\ UNCHANGED <<conn, subscribed, counts, pairingCh, recent, slots>>

(***************************************************************************)
(* The garbage-collection pass: finished matches, then expired players.    *)
(***************************************************************************)
BeginGC(w) ==
    /\ worker[w] = Idle
    /\ gcCh[w] > 0
    /\ gcCh' = [gcCh EXCEPT ![w] = @ - 1]
    /\ \/ "gc" \in recent[w] /\ UNCHANGED <<worker, recent, cooled>>
       \/ /\ "gc" \notin recent[w]
          /\ recent' = [recent EXCEPT ![w] = @ \cup ({"gc"} \cap Throttled)]
          /\ cooled' = 0
          /\ Become(w, Cleaning("list", <<>>))
    /\ UNCHANGED <<redis, client, displaced, counts, pairingCh, playing>>

AllPlayersInQueue(w) ==
    /\ worker[w].at = "list"
    /\ \/ Become(w, Cleaning("check", queue))
       \/ RedisFails /\ Become(w, Idle)
    /\ UNCHANGED <<redis, client, displaced, counts, pairingCh, gcCh, recent, slots>>

IsPlayerConnectionAlive(p) == p \in alive

\* A player who cannot be checked is passed over.
CheckPlayer(w) ==
    LET hand == worker[w].hand IN
    /\ worker[w].at = "check"
    /\ \/ hand = <<>> /\ Become(w, Idle)
       \/ /\ hand # <<>>
          /\ IsPlayerConnectionAlive(Head(hand)) \/ RedisFails
          /\ Become(w, Cleaning("check", Tail(hand)))
       \/ /\ hand # <<>>
          /\ ~IsPlayerConnectionAlive(Head(hand))
          /\ Become(w, Cleaning("expel", hand))
    /\ UNCHANGED <<redis, client, displaced, counts, pairingCh, gcCh, recent, slots>>

\* The player may have joined again since he was checked.
RemovePlayerFromQueue(w) ==
    LET p == Head(worker[w].hand) IN
    /\ worker[w].at = "expel"
    /\ \/ /\ p \in Range(queue)
          /\ RemoveFromQueue(<<p>>)
          /\ IF p \in alive THEN Displace(<<p>>) ELSE UNCHANGED displaced
       \/ (p \notin Range(queue) \/ RedisFails) /\ UNCHANGED <<redis, displaced>>
    /\ Become(w, Cleaning("check", Tail(worker[w].hand)))
    /\ UNCHANGED <<client, counts, pairingCh, gcCh, recent, slots>>

InHand(w) == IF worker[w].at \in {"return", "start"} THEN worker[w].hand ELSE <<>>

\* The machine of w stops, and what w held in memory is gone; started again, it
\* subscribes anew and publishes both triggers.
StopWorker(w) ==
    /\ "crash" \in QueueFaults
    /\ Become(w, Idle)
    /\ Displace(InHand(w))
    /\ pairingCh' = Publish([pairingCh EXCEPT ![w] = 0])
    /\ gcCh' = Publish([gcCh EXCEPT ![w] = 0])
    /\ recent' = [recent EXCEPT ![w] = {}]
    /\ UNCHANGED <<redis, client, counts, slots>>

(***************************************************************************)
(* The surroundings.                                                       *)
(***************************************************************************)
\* A match ends and its cooldown elapses.
MatchCools ==
    /\ playing > 0
    /\ playing' = playing - 1
    /\ cooled' = cooled + 1
    /\ UNCHANGED <<redis, client, displaced, counts, loop>>

IntervalElapses(w) ==
    /\ recent[w] # {}
    /\ recent' = [recent EXCEPT ![w] = {}]
    /\ UNCHANGED <<redis, client, displaced, counts, worker, pairingCh, gcCh, slots>>

Connection(p) ==
    \/ Connect(p) \/ Subscribe(p) \/ LookUp(p) \/ AddPlayerToQueue(p) \/ AddPlayerFails(p)
    \/ Disconnect(p) \/ Drop(p) \/ Hear(p) \/ ExpireKey(p) \/ Wait(p)

Pass(w) ==
    \/ GameQueueSize(w) \/ PopPlayersFromQueue(w) \/ PopFails(w) \/ ReturnPlayers(w)
    \/ ReadQueue(w) \/ QueueJoinTimes(w) \/ FormGroup(w)
    \/ RemovePlayersFromQueue(w) \/ RemovalFails(w)
    \/ MatchStarts(w) \/ MatchFails(w)
    \/ AllPlayersInQueue(w) \/ CheckPlayer(w) \/ RemovePlayerFromQueue(w)

Next ==
    \/ \E p \in Player : Connection(p)
    \/ \E w \in Worker :
          BeginPairing(w) \/ BeginGC(w) \/ Pass(w) \/ IntervalElapses(w) \/ StopWorker(w)
    \/ MatchCools

Spec == Init /\ [][Next]_vars

(***************************************************************************)
(* Fairness: each worker goes on and attends to its triggers, connections  *)
(* subscribe and read their message, matches end, time passes.             *)
(***************************************************************************)
Fairness ==
    /\ \A w \in Worker :
          /\ WF_vars(Pass(w)) /\ WF_vars(IntervalElapses(w))
          /\ SF_vars(BeginPairing(w)) /\ SF_vars(BeginGC(w))
    /\ \A p \in Player :
          WF_vars(Subscribe(p)) /\ WF_vars(Hear(p)) /\ WF_vars(ExpireKey(p)) /\ WF_vars(Wait(p))
    /\ WF_vars(MatchCools)

FairSpec == Spec /\ Fairness

-----------------------------------------------------------------------------
Steps == {"look", "pop", "return", "times", "remove", "start"}

\* Every variable has its type.
TypeOK ==
    /\ queue \in Seq(Player)
    /\ alive \subseteq Player
    /\ waited \in [Player -> -1 .. 2]
    /\ conn \in [Player -> {"off", "joining", "adding", "on"}]
    /\ subscribed \subseteq Player
    /\ note \in [Player -> {"none", "heard", "missed"}]
    /\ displaced \subseteq Player
    /\ joins \in [Player -> 0 .. MaxJoins] /\ seats \in [Player -> Nat]
    /\ \A w \in Worker :
          \/ worker[w] = Idle
          \/ worker[w].at \in Steps /\ worker[w].hand \in Seq(Player) /\ worker[w].paired \in BOOLEAN
          \/ /\ worker[w].at = "rate" /\ worker[w].hand \in Seq(Player) /\ worker[w].paired \in BOOLEAN
             /\ worker[w].tiers \in [Player -> -1 .. 2]
          \/ worker[w].at \in {"list", "check", "expel"} /\ worker[w].hand \in Seq(Player)
    /\ pairingCh \in [Worker -> 0 .. Buffer] /\ gcCh \in [Worker -> 0 .. Buffer]
    /\ recent \in [Worker -> SUBSET {"pairing", "gc"}]
    /\ playing \in Nat /\ cooled \in Nat

HandPlaces(p) == UNION {{w} \X At(p, InHand(w)) : w \in Worker}
Places(p) == Times(p, queue) + Cardinality(HandPlaces(p))

\* "Just keep the socket open until you get match_found or error": a player
\* whose connection is open and for whom there was no message is in the queue
\* or about to be started, whatever expired, was pushed back or swept around
\* him.  Displaced are only those whom a stopping machine or a failing command
\* hit, and who joined again between the sweep's check and its removal.
KeptWhileConnected ==
    \A p \in Player : conn[p] = "on" /\ note[p] = "none" /\ p \notin displaced => Places(p) > 0

\* Joining once leads to at most one match: a player is never in more matches
\* and places of the queue together than the times he joined, though he may
\* disconnect and join again while a worker has him in hand.
NoDoubleBooking == \A p \in Player : seats[p] + Places(p) <= joins[p]

\* The sweep tears finished matches down: "your container is killed after the
\* post-result cooldown window elapses".
CooledIsSwept == cooled > 0 ~> cooled = 0

\* The window is "unbounded after 60s so no one starves on a sparse queue":
\* with a slot free, connected players in numbers enough for a match do not
\* stay queued for ever.
NobodyStarves ==
    []<>( \/ Len(queue) < LobbySize
          \/ AtCapacity
          \/ \E p \in Range(queue) : conn[p] # "on" )
=============================================================================
