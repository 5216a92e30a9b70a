# elo-service in TLA+

elo-service is the backend of a matchmaking platform. Players queue or gather in
lobbies; a worker pairs them; a match is a docker container on a rented VM; the
container reports a result; ratings move; the container is torn down. This
directory holds TLA+ models of that code, TLC configurations that check them on
small instances, and TLAPS proofs for every instance. Paths below are relative
to the repository's `src/` unless they start with `docs/` or name another
top-level directory.

The backend is one Go program that runs on several Fly machines, which Fly
starts and stops (`fly.toml`, at least one stays). Every machine serves HTTP and
WebSockets and runs the worker loop (`worker/worker.go`). Nothing is shared in
memory between machines: they meet in Postgres (gorm), Redis and S3, and they
call Hetzner and one small agent per VM.

## 1. Inventory

| component | state | operations | what makes it correct |
|---|---|---|---|
| match lifecycle (`models/match.go`, `matchResult.go`, `server_instance.go`, `api/matchResults/reportResults.go`, `worker/matchmaking/garbageCollectMatches.go`) | Match, MatchResult, ServerInstance rows | report a result, end by timeout, cooldown, claim, stop the container, free ports, finalize, revert a claim, reconcile orphans | one result per match, ratings follow it, one teardown at a time, the credential lives through the grace window, ports and row outlive the container |
| host pool (`models/machine_host.go`, `worker/matchmaking/pairPlayers.go`, `warmPool.go`, `external/hetzner`) | MachineHost rows with AllocatedPorts, VMs, containers | find or create a host, allocate and free ports, start a container, undo, reap an idle host, keep the warm pool, reconcile with the provider | no port given twice or lost, slots and host cap respected, no row without a VM, no VM destroyed under a match |
| matchmaking queue (`api/match/matchmaking.go`, `external/redis/redis.go`, `pairPlayers.go`) | Redis list, liveness keys, join times, pub/sub | join, /disconnect, expiry, FIFO and rating pairing, push-back, sweep | a connected player stays queued, one match per join, nobody starves |
| worker loop (`worker/worker.go`) | two trigger channels, last run times | pairing pass, garbage-collection pass, lobby sweep, certificate tick | every promise above that begins "in the end" |
| lobbies (`api/lobby`, `external/redis/lobby.go`) | Redis hashes and sets, WebSocket sessions | host, join, kick, chat, tags, /start, expiry | capacity, one match for exactly the members, no orphaned lobby |
| spectating (`worker/spectator`, `api/match/spectate.go`, `live.go`) | chunks and manifest in S3, an uploader goroutine per match | upload, publish the manifest, read from a cursor, move to replay | a reader sees every byte once and in order, the replay is complete |
| artifacts and logs (`api/match/artifact.go`, `external/aws/aws.go`, `api/matchResults/logs.go`) | objects, an index object per match | upload, list, download, save logs | the index lists what was uploaded, what is listed is there |
| wildcard certificate (`cert/manager.go`, `worker/matchmaking/dns.go`, `external/cloudflare`) | certificate and key in S3 and memory, DNS records | load, obtain, renew, persist, hand a pair to each host, create and delete records | certificate and key match, renewed in time, records go with rows |
| host agent (`game-server-host-agent`) | docker containers, shared directories | start, stop, logs, stats, serve the spectate file | stop leaves no container |
| Elo (`models/elo.go`, `rating.go`) | rating rows | apply the result of a match, create on first look | no update lost, two players' changes cancel, no deadlock |
| game queues administration (`models/game_queue.go`, `game.go`, `api/game`) | Game and GameQueue rows | create, update, delete | a game keeps a queue, a deleted game stays deleted |
| listings (`models/matchResult.go`, `rating.go`, `api/match/artifact.go`) | none; they read rows page by page | list a page | who follows `nextPage` misses nothing |
| example game server (`example-game-server/main.go`) | joined tokens, a shutdown channel | join over HTTP and TCP, upload, report, shut down | one report, then it exits |
| users and authentication, player data | rows | row CRUD, token checks | no multi-step behaviour |
| WebSocket liveness, configuration and wiring, game server sidecar | none of their own | ping, parse, serve a log | not modelled as such |

How they interact. A join publishes the matchmaking trigger; every machine's
loop hears it, and drops it when its last pass is younger than the minimum
interval. The pairing pass takes players out of Redis and calls `StartMatch`,
which works on the host pool and ends by inserting ServerInstance and Match in
one transaction. A lobby's `/start` calls the same `StartMatch` from an HTTP
handler. The game server reports with its `auth_code`; the report records the
result and, unless the cooldown is 0, leaves teardown to the sweep. The
garbage-collection trigger is published at start-up and by a pairing pass that
paired somebody; its pass reconciles hosts, reconciles instances, ends old
matches, sweeps cooled matches, expires players and lobbies, and maintains the
warm pool. No timer publishes either trigger.

What is hard. Any two database statements of two machines interleave; machines
stop between any two; the agent's replies are lost after the work was done; VMs
disappear; Redis lists are read in one command and changed in another; pub/sub
loses what nobody listens to; nothing looks again unless something is published.
`PROJECT.json` lists 40 such hazards at their lines, with the property that
covers each or the reason none does yet.

## 2. Plan

1. `MatchOutcome` and `MatchLifecycle`, with `MatchLifecycle_proofs`. Done.
2. `HostPool` with `HostPool_proofs`, `MatchQueue` with `MatchQueue_proofs`. Done.
3. `Lobby`. Done.
4. `Spectate`: uploader, manifest, cursor reads, rotation into the replay, with
   `Spectate_proofs`. Done.
5. `Artifacts`, `Catalog`, and `WildcardTLS` with `WildcardTLS_proofs`: each
   about read-then-write on shared storage. Done.
6. `Ratings`, `ResultPages`, `GameServer`. Done.
7. `Services_proofs` about what `MCServices` composes (Lobby, Artifacts, Catalog,
   ResultPages), `Progress_proofs` about what `MCProgress` composes (Ratings,
   GameServer), and `DataLemmas`, on which both and `HostPool_proofs` rest. Done.
8. What is left without a proof is liveness, as section 6 says.

## 3. The modules

Conventions. One action per database statement, transaction, Redis command or
network call, because those are the points at which activities interleave; the
Go code between two of them is part of the action before. Actions carry the name
of the Go function or query they model. Local variables that survive a call are
fields of the activity's record. `Faults` says which failures the instance may
meet: `"crash"` (a machine stops), `"db"` (a statement fails and is rolled
back), `"agent"` (an agent call fails, before or after doing its work), `"host"`
(the provider loses a VM or a provider call fails). An operator that no action
uses, placed before the one it resembles (`InsertAnyway` before
`PrimaryKeyFree`), is a broken variant: put in its place, it makes the property
named for it in `PROJECT.json` fail, which shows that the property depends on
that line of the code. Faults of the later modules are named the same way, in a
constant of each module.

**MatchOutcome** is the promise to a game server: the first accepted outcome is
the outcome, ratings move with it and once, the credential is withdrawn only
after an outcome. Three variables, three actions.

**MatchLifecycle** follows a match from the transaction at the end of
`StartMatch`. `match` and `si` are the two rows' statuses, `result` and `rated`
the MatchResult row and the number of committed Elo applications, `ports` the
matches whose ports are recorded as allocated, `container`, `vm`, `hostRow` the
outside. `clock` abstracts time to what the code compares: over six hours or
not, past the cooldown, past the force deadline. `task[p]` is one activity of one
machine: a report (`ReportResults`, `EndMatch`, `MatchEnded`), a timeout
(`GarbageCollectMatches`, then the same `EndMatch`), a sweep or inline teardown
(`ClaimCooldownInstance` to `FinalizeMatchTeardown`, `RevertTearingDownToCooldown`),
the goroutine `tryDeleteIdleHost`, and the two reconcilers.
Left out: a match without an instance, which only tests create; DNS and
certificates on teardown, which are WildcardTLS's; log and artifact reads, which
belong to the artifacts component; which port numbers, which is HostPool's matter.

**HostPool** follows calls of `StartMatch`. `ListReadyHosts` is the query of
`FindAvailableHost`, after which `Find` counts the instances of one listed host
after another, in any order, a failing count passing on to the next, until one has
room (`HasSlot`); then provisioning (`CheckCap`, whose count may fail and end the
call, `CreateHost`, `CreateMachineHost`, `SetMachineHostReady`), `AllocatePorts`,
`StartContainer`, `PersistMatch` and its undo, the teardown of what was started
and the reaper (`CountActiveInstances`, `CheckWarmPool`, `SetMachineHostDeleted`,
`DeleteHost`); passes of `MaintainWarmPool`; and the reconcilers with what they
read before they write. `allocated[h]` is the column, `held[m]` the ports in the
hands of an activity or instance. `Loop` names the calls made by one worker loop,
which come one at a time; the others come from lobby handlers and other machines,
and `Beside` bounds how many of those are under way at once. The slots that the
warm pool and the reaper count (`CountAvailableSlots`, a query and one count per
host) are read in one step. That one activity at a time tears an instance down is
taken from `ClaimExclusive`, which is proved.

**MatchQueue** follows one queue: `queue`, `alive` and `waited` are the three
Redis structures; `conn`, `subscribed`, `note` a player's WebSocket, its
`match_ready` subscription and what it was sent; `worker[w]` a machine's loop
with the players it has in hand; `pairingCh`, `gcCh`, `recent` the pub/sub
channels and the minimum intervals; `playing`, `cooled` the matches that hold a
slot, the interface to the other two modules. A machine may stop at any step of
a pass (`StopWorker`), which loses what its worker has in hand, and any Redis
command of a join, a pass or a sweep, and the query for ratings, may fail, not
carried out or carried out with its reply lost: push-backs ignore the error. Rating
pairing reads the queue, the join times and the ratings in three steps. `joins` and
`seats` are history variables, and so is `displaced`: the connected players whom a
stop or a failing command took out of the queue or of a hand, or whom the sweep
removed with a new key in place. Ratings are numbers, waiting times are the three tiers of
`ratingWindow`. A rating group is one of the `Seeds` and the players `Closest` to
it; ties go either way. `RemoveAll`, the LREM of each player of a group, is
defined by counting occurrences and not by recursion, so that it can be proved
about.

**Lobby** follows one lobby from `CreateLobby` to its end. `record`, `members`
and `alive` are its Redis keys; the index is left out because its entry is
written and deleted with the record, in the same pipelines. `session[p]` says
where `HostLobby` or `JoinLobby` is for a player, one step per Redis command.
`heard` holds the players with a kick or a `match_ready` message waiting: each of
these ends the session, so a set is enough. A session that is "on" hears; that
the `match_ready` subscription, unlike the other two, is not acknowledged is
abstracted here. `command` is the host's command under way, which runs inside
the host's own loop, so that the host neither hears nor leaves meanwhile, and
`sweep` is `CleanupExpiredLobbies` with its local variables. `StartMatch` is one
step with three outcomes (started, at capacity, failed), since HostPool has its
inside; players pushed into the matchmaking queue are `queued`, from where any
worker may pair or drop them. `died` and `early` are history variables: `died`
keeps the players whose machine stopped, whose traces only expiry and the sweep
remove; `early` says that somebody found the record and joined before the host
was added. In that case the code adds the host past the capacity, and
`CapacityRespected` counts all but him.

**Spectate** follows one match's stream. `uploader` is the goroutine
`StreamMatchLive`: poll the agent (`ReadSpectateFile`), PUT a chunk, PUT the
manifest, with its sequence number and offset; a chunk is the interval of bytes
it holds. `rotation[e]` is what each call of `EndMatch` does in
`MoveSpectateToReplay`: read the live manifest, copy chunk by chunk, publish the
replay manifest, delete the live objects, and go on to record the result;
`Local` are the calls on the uploader's machine, whose `Stop` cancels it.
`viewer[v]` is a spectator's polling of `GetMatchStream`, one S3 request per
step. A PUT or DELETE may fail before or after it was carried out.

**Artifacts** follows one match's uploads (`UploadMatchArtifact`: cap check, PUT
of the object, GET and PUT of the index) beside `TeardownCooledMatch`, which
saves the logs, reads the index and writes both into the result, and which
reverts and repeats when the container does not stop. Uploads overlap freely. A
client may give a request up, and its steps then come at any later time.
`IndexName` is the name of the index object, which `artifactNamePattern`
(`api/match/artifact.go:30`) allows an upload to have: its bytes then replace the
index (`garbled`), which the cap check and the teardown take for an error, and the
next upload for an empty index. The bytes are taken not to be an index
themselves. `disturbed` is history: the requests that ran beside another, and those
begun when an upload was put under `IndexName`. The comment at `PutMatchArtifact`
says of the first that they "can lose one another's metadata entry";
`UploadsKept` and `PromptInResult` are about all others.

**Catalog** follows a game and its queues under requests that overlap.
`edit[r]` is a request between the statement it read with and the one it writes
with. gorm's `Save` of a game saves the queues loaded with it, inserting what
has gone; the unique names, the foreign keys of matches and the cascade decide
what fails. `overlapped` is history: two deletions of different queues were both
past their count, in which case a game does lose its last queue.

**WildcardTLS** follows `EnsureFresh` on each machine (account, two GETs, the
order or the renewal, two PUTs; what is in memory changes where the code
assigns it; each GET may fail in other ways than by finding nothing) and, for each
host, the pair copied into its cloud-init, its row, and the A record that is made
after the row is ready and before its ID is saved. A match placed on the host
meanwhile may end, so that a reaper, which uses the row as its teardown read it
(`named`), buries the row and deletes the record it knows of, and the host
reconciler may bury the row, at every step of the provisioning. Time is months: a
certificate is fresh in the month of its issue, due in the next, expired after that.
`MonthPasses` waits for ticks under way and for nothing else: a machine of which
no tick succeeded in a month is `late`, and `ServesValid` is stated for those that
are not, which is the 30-day margin seen against a daily tick. `contended` and
`strayed` are history: the first issue of all was contested, a record was left by
a failure or a race that the code passes over.

**Ratings** is `ApplyClassicElo` as one transaction, row by row: INSERT of
missing rows, SELECT FOR UPDATE in the order of player IDs, the arithmetic on
scores in units of a point, save and commit; `holder` are PostgreSQL's row
locks. `GetRating` creates rows beside it. The expected score is a constant
function with `Expect(d) + Expect(-d) = Unit`, which is what the logistic curve
gives and what the two-player zero sum rests on; `Unit` is even, for a tie is
half of it. Rounding is that of the code.

**Ordering** has one operator, `OrderedBy`: the members of a finite set in an
order, for `sort.Strings` and ORDER BY. The i-th is the member with i - 1 before
it. SequencesExt's `SetToSortSeq` comes to the same, but it is built on TLC's
`SortSeq`, which the proof system knows nothing of.

**ResultPages** is a client that follows `nextPage` through one of the listings
while results are inserted, teardowns update them and ratings move. The order of
a listing without ORDER BY is the order of the rows in the table, and an UPDATE
moves a row anywhere.

**GameServer** is the process in the container: `AddPlayer` from both
transports, the goroutine that reports, the two servers' shutdown.

`MCMatchLifecycle` and `MCMatchQueue` only add symmetry sets and rating tables.
`MCFifoPool`, `MCRatingPool`, `MCServices` and `MCProgress` hold several components,
or several instances of one, in one run: the parts share no state, so that a
behaviour of all of them is a behaviour of each, and checking them one at a time
loses nothing. The constant variable `part` says which one moves. The other parts
stay in their initial states, where the properties that the run takes from them
hold; a property of several parts is checked in each. Where one component is too
large for a run with all its faults and actors, it has several parts, each of
which leaves something else out: section 4 says what.

## 4. The runs

Runs that pass:

| run | instance | states | what it shows |
|---|---|---|---|
| `lifecycle_safety` | 1 match, 1 host, 3 activities, 2 verdicts, all faults | 127,978 | ratings follow the recorded result; teardowns exclude each other; the grace window holds; ports and credential outlive the container unless forced; results never change; deleted instances stay deleted; `MatchOutcome` is implemented |
| `fifo_and_ports` | queue: fifo, 2 players of whom one joins twice, 2 workers, lobby of 2, 1 slot, stopping machines and failing Redis commands; pool: 2 starts and 1 warm-pool pass from anywhere, 2 VMs of which 1 is allowed at a time, 2 ports, 2 slots, agent, crash and host faults | 3,537,667 | connected players are lost only to what hit them and get one match per join; ports are exclusive on every host nobody gave up on, and none leaks except with a crashed activity |
| `rating_and_slots` | queue: 2 players of whom one joins twice, ratings 200 apart, 1 slot, the same faults; pool: 1 start and a warm-pool pass of one loop, 2 starts beside it of which 1 at a time, 3 VMs, 1 host and 1 slot allowed, database faults | 3,389,726 | one match per join, with leaving and rejoining while a worker has the player in hand; slots and host cap are exceeded by at most the one call beside the loop, and no row that can be found is without its VM |
| `services_safety` | lobby: a host and two others, 2 slots; artifacts: 3 uploads that overlap as they please, with 3 names or with one shared and that of the index, cap of 2; catalog: 2 requests, 3 queues, 2 names; pages: 3 rows, pages of 2; hosts: 1 machine, 2 hosts | 3,853,780 | capacity holds however joins race, and nothing is left behind; what is listed can be downloaded, acknowledged uploads stay and reach the result unless they overlapped others or the index was replaced; a game keeps a queue and stays deleted; walks miss nothing; records go with rows |
| `services_progress` | stream: 2 bytes in chunks of 1, 2 calls of EndMatch, 1 spectator; certificate: 2 machines, 2 keys, 2 months; ratings: 2 reports over 3 players and a guest; game: 3 tokens | 167,715 | replays are complete and readable at every moment, no byte is sent twice, a machine in service holds a valid matching pair, ratings add up, of the rating transactions under way one can always go on; spectators hear of the end, renewal repairs a mixed-up pair, rating transactions end, the game server reports once and exits |

Runs that refute a sentence of the docs or comments:

| run | the sentence | what happens |
|---|---|---|
| `lifecycle_cap` | the force deadline is "the absolute cap on how long an instance may sit in cooldown"; after it "ports are freed, the SI is marked deleted, and the Match row is dropped" | a machine stops after its claim: the instance stays in `tearing_down`, which no sweep lists |
| `pool_reap` | the VM is deleted "if it has no remaining active instances" | a match starts on the host between the count and the deletion |
| `queue_sweep` | "Your container is killed after the post-result cooldown window" | the sweep runs only after a pairing; without one the container stays |
| `queue_starved` | "no one starves on a sparse queue" | the window widens, but no pass looks until somebody joins |
| `queue_stranded` | "Just keep the socket open" | rating pairing deletes the liveness keys of a group, pushes it back at capacity, and the next sweep removes the connected players |
| `lobby_left` | "Host leaves: ... the WS will close shortly after" | the lobby's keys are deleted, the other sessions go on |
| `spectate_skip` | live readers "see one consistent prefix per request", the caller "adjusts cursor to where the data actually ends" | the drain stops at a chunk that is being rotated away, the cursor is set to the manifest's count, and the chunk is never sent |

Bounds and why they are enough. Every property of the lifecycle is about one
match; what threatens it is how many activities race over it: a report, a
timeout and a second report or a sweep are three. The proofs of section 6 remove
the bound for the properties they cover. Two starts are the fewest that compete
for a slot or a port, and `Port` holds exactly as many ports as both need, so
that a leak or a double allocation shows at once. One or two hosts more than
`MaxHosts` let the cap, and the bound on its being exceeded, be exceeded if they
could be. In the queue two players fill a lobby of two, and a third connection is
one of them again (`MaxJoins`, `OneRejoins`). The channel `Buffer` is 1, which is
the worst case for dropped triggers, not go-redis' 100; a pass named in
`Throttled` has a minimum interval. The cooldown clock stops at the force deadline.
`CHECK_DEADLOCK FALSE` everywhere: a system whose matches are all over stops.

The queue of `fifo_and_ports` is checked in two parts: `crowd` has both workers
interleave freely, without faults and minimum intervals, `turns` has the faults and
the intervals but one worker busy at a time (`TakeTurns`). The pool is checked in three
in both runs: `starts` has no warm-pool pass, `passes` no host reconciliation,
`lone` only one start; and in a fourth in `rating_and_slots`, `races`, all three
starts without passes and reconciliation. What fails only with two busy workers and a
fault, or with a pass, two starts and host reconciliation at once, no run would
show; the proofs of section 6 cover those cases for every property of these
runs but `NoDoubleBooking` with two rating workers.

Three uploads are one more than the cap, and `UploadNames` has one initial state
with different names and one in which two requests share a name and the third has
that of the index, requests and other names being alike. Two requests
are the fewest that overlap, and three queues let a deletion leave two or one.
With two bytes in chunks of one, a chunk can be missing before or after another,
and a chunk that is repeated with more bytes holds both; two calls of `EndMatch`,
one on the uploader's machine and one elsewhere, are the fewest that rotate
at once. Two months pass, so that a certificate falls due and, with failures,
expires. Three rows in pages of two are a full page and another. A third
player lets two matches lock rows in a cycle if the order allowed it.
`MaxReporters` is 2: one report more than there should be.

The documented caps on slots and hosts hold for the calls of one worker loop only.
`docs/elo-service-server.md:479` says without condition that "up to"
`HCLOUD_MAX_SLOTS_PER_HOST` containers share a VM; but `FindAvailableHost` counts
persisted instances (`models/machine_host.go:136`) and `StartMatch` counts rows
(`pairPlayers.go:185`) before it inserts what the next call would count, so that
lobby handlers and other machines exceed both. `SlotsRespected` and `HostsCapped`
therefore state how far: by one for each call that may be under way beside the
loop (`Beside`). The instance reaches that bound, for with one less TLC finds both
violated; with `Beside = 0` they are the documented caps.

`KeptWhileConnected` excepts the players in `displaced`, and those only: whom a
stopping machine had in hand, whom a failing command concerned, and who joined
again after the sweep had found his old key expired and was removed by it
(`garbageCollectMatches.go:193`). In each of these cases the code drops a connected
player without a word; that nobody else is lost is what the property says.
`UploadsKept` excepts `disturbed` uploads in the same way, and promises the cap on
distinct names until uploads overlap. That
"anything uploaded during the cooldown window" is in the final result
(`reportResults.go:175-176`) is false of what is acknowledged between
`ReadFinalIndex` and the end of the row, while the token is still accepted:
`PromptInResult` is about what was acknowledged before the claim.

`CooledIsTornDown` fails for a second reason, without any crash: with `"host"` in
`Faults` the orphan reconciler deletes the instance of a cooling match, no sweep
lists it again, and the match row and its credential stay
(`garbageCollectMatches.go:83`). `NoDoubleBooking` fails with two workers that pair
by rating: both may read a group before either removes it (`pairPlayers.go:484`).
Neither has a run of its own.

The lobby has no bound besides the number of players: a player may join and
leave for ever. Three players on two slots are the fewest that can overfill a
lobby, and the host is one of them. `lobby_left` needs only the host and one
other, `spectate_skip` one call of `EndMatch` and no fault.

`fifo_and_ports` has no database faults, because `FreePorts` failing leaks ports by
design (the error is logged and passed over) and both invariants say
`~Fault("db")`; `rating_and_slots` has them. Database faults beside failing
providers, agents or machines happen in no instance; the proofs of section 6
cover them for the caps and the rows. The properties of Catalog, WildcardTLS and
ResultPages name their exceptions: two deletions that both counted, a contested
first issue, a machine whose ticks all failed for a month, a record stranded by a
failure or a race that the code passes over, a table written during a walk. Each
exception is a behaviour of the code that would violate the property; all but the
failing ticks, an outage of storage or issuer, are listed as hazards. `GET /user/results` of a registered user
(`"user"` in `Listing`) is left out of the run: its statement has two
placeholders and one parameter (`models/matchResult.go:307`), so that it fails
and the answer is an empty list.

## 5. Fairness

`MatchLifecycle!Fairness`: begun activities go on (goroutines are scheduled, and
calls return or time out), time passes, and passes over a row that stays listed
come in the end. The last is more than the code does: passes come only while matches
keep being paired somewhere, as `queue_sweep` shows. It serves a refutation only:
`lifecycle_cap` shows that an instance is left behind even so. Strong fairness,
because a row is listed only while it is in its status and another machine may take
and revert it in between. There is no fairness on reports, exits, crashes or lost
VMs. The safety properties use `Spec`, which has no fairness at all.

`MatchQueue!Fairness`: a worker's pass goes on, both channels are attended to (Go's
`select` picks at random among ready cases, hence strong fairness), minimum
intervals elapse, keys expire, subscriptions are made and messages read, matches
end. Nobody is obliged to join: that is what the two liveness refutations turn on.

`Lobby!Fairness`: a session or a host's command that has begun goes on, keys
whose session is over expire, and sweeps come. Nobody has to join or to leave;
`lobby_left` turns on that, and would fail just as well with more fairness.

`SpectateFairness`: a call of `EndMatch` that has begun goes on, and a spectator
asks again until it is told to stop. Nothing makes the game server write or a
match end. `EofReached` speaks of spectators whose requests are not cut off for
ever. `TLSFairness`: the certificate tick comes again on a machine in service,
and begun calls return; nothing starts a machine that is off. `RatingsFairness`:
a statement that waits for no lock is carried out, which is what makes
`ReportsEnd` a statement about deadlock; nothing obliges a transaction to roll
back. `GameServerFairness`: goroutines run, and a request to the platform ends.
The last is assumed of TCP, since `http.DefaultClient` sets no timeout.

## 6. What is proved

`MatchLifecycle_proofs` proves, for any finite or infinite sets of matches,
hosts and activities, either teardown mode and any faults, from
`LifecycleAssumption` alone (ranked matches are matches, the mode is a Boolean,
no verdict is called "none" or "timeout"):

- `Invariance`: `Spec => []IInv`, where IInv is the type invariant,
  `RatingMatchesResult`, `ClaimExclusive` and three strengthenings.
  `RowsMatchResult` ties the statuses of the rows to the presence of a result:
  without it a first result could not be told from a second. `HolderOwns`
  says whoever is inside a teardown has an instance that is `tearing_down` or
  `deleted` and hence not claimable: `ClaimExclusive` is not inductive without
  it, since a claim would be possible beside a holder. `WorksOnStarted` says
  nobody ends or reconciles a match before it was started.
- `TypeCorrect`, `RatingsFollowResults`, `ClaimsAreExclusive`: `[]TypeOK`,
  `[]RatingMatchesResult`, `[]ClaimExclusive`.
- `ResultsAreFinal`, `DeletedInstancesStayDeleted`: the action properties
  `ResultImmutable` and `NoResurrection`.
- `LifecycleImplementsPromise`: the refinement of `MatchOutcome`.

The argument for claims: only `ClaimCooldownInstance` lets an activity into a
teardown (`NoNewHolder`), it needs status `cooldown`, and a holder's instance is
never in `cooldown`, because the only writers of that status are the holder's own
revert and `MatchEnded`, which needs the result to be absent.

`TeardownInv` (`TeardownInvariance`) is the second inductive invariant, for the
promises about time. `Relies` is what each step of an activity depends on, as
established by its earlier ones: a claim and what follows it that there is a
result whose cooldown is over (and, if it is forced, that the deadline passed);
freeing, marking and finalizing that the container is gone or the teardown is
forced; a reconciler that its VM is down or its row deleted. Nobody can undo
these facts, since time, containers, VMs and rows only go one way
(`NothingComesBack`). With them, ports and instance stay until the match may be
torn down, and the row goes last (`PortsKept`, `CooldownKept`, `RowGoesLast`):

- `GraceIsRespected`, `RunningKeepsPorts`, `RowGoesAfterContainer`:
  `[]GraceRespected`, `[]PortsHeldWhileRunning`, `[]RowOutlivesContainer`.

`HostPool_proofs` proves, for any matches, warm-pool passes, hosts, ports and
faults, from `PoolAssumption`:

- `PoolInvariance`: `[]PoolBase`. Types; whoever makes a host has it to himself
  until its row is ready (`MakesAlone`), and nobody knows a VM the provider has not
  made (`Unmade`); a host in the making has no ports taken (`Fresh`); reconcilers
  only attend to rows that were ready and to instances of deleted ones
  (`Reconciled`); who is placed has a host (`Placed`).
- `PortsAreExclusive`, `PortsAreAccountedFor`, `FoundRowsHaveVMs`:
  `[]PortsExclusive`, `[]NoPortLeak`, `[]RowsHaveVMs`, each inductive beside
  `PoolBase`. A step that leaves holders alone on every other host leaves only one
  host to look at.
- `PoolTypesAlways`: `[]PoolTypeOK`, which says more than types: a match holds no
  port or exactly `Need` of them (`PortsInFull`). That rests on a
  lemma on `LowestFree` (`LowestAreAsMany`): to count, for each free port, those
  below it maps the free ports one to one onto `0 .. n - 1`, so that k of them
  have fewer than k below. The range of ports is finite, as configured. That the
  sum a warm-pool pass computes is a number (`SlotsAreCounted`) needs that only
  finitely many rows and instances exist at a time (`FinitelyMany`), which is
  invariant though the sets of hosts and matches may be infinite.
- `HostsAreCapped`: `[]HostsCapped`, wherever calls come from and whatever fails.
  `FewUnderWay` says that one call of the loop and at most `Beside` others are under
  way, and `RoomToMake` that rows and calls between `CheckCap` and
  `CreateMachineHost` together never exceed `MaxHosts + Beside`: a call passes
  `CheckCap` when the rows alone are below `MaxHosts`, and the calls about to
  add one, itself counted, are at most `Beside + 1` (`UnderWayBound`).
- `SlotsAreRespected`: `[]SlotsRespected`, if hosts have slots at all. `SlotsHeld` counts
  whoever has an active instance on a host or was placed there and is still
  being started, in the same way: who is placed saw fewer than `MaxSlots` active
  instances, and all others on the way are under way. Containers whose start
  crashed or whose reply was lost, and those left by a forced teardown, are
  nobody's: no count of the code sees them, nor does the property.

`MatchQueue_proofs` proves, for any players, ratings, lobby size, capacity and
buffer, from `QueueAssumption`:

- `QueueTypesAlways`: `[]TypeOK`, for any workers, either strategy and any number
  of joins. `QueueTypes` adds that who looks up or is being added has joins left,
  that only rating pairs by removing, and that who is expelled heads the list.
- `OneMatchPerJoin`: `[]NoDoubleBooking`, for any number of joins and, under FIFO,
  of workers. The first lemmas of the module count: `Times(p, s)` adds up over
  concatenation and over a pop (`TimesOfConcat`, `TimesOfParts`), and removing a
  group takes from each player as many occurrences as the group has of him, or all
  (`TimesOfRemoved`). A step then takes from the queue or the hand what it adds to
  the hand, the queue or the matches (`Balanced`), and who comes to the queue has
  joined once more (`Joined`). A rating group is read in one step and removed in
  another, while its members may leave and join again; `GroupsAreOwed` says that
  matches, hands and the group read never exceed the joins, which holds when it
  is read because its members stand at places of their own (`GroupWithinQueue`).
  The hypothesis `OneReader`, that a rating queue has one worker, is needed: TLC
  finds two workers that read the same group and start it twice
  (`pairPlayers.go:484`, listed as a hazard).
- `ConnectedAreKept`: under FIFO, `[]KeptWhileConnected`, for any number of workers
  and joins and all faults. `Kept` adds that whoever is connected and not displaced
  has his key. The sweep lists the queue, looks at a key and removes its owner in three
  steps; it removes somebody with a key only by displacing him, and a worker
  that pops, pushes back or starts keeps each player's places together, between
  the queue and its hand, unless it displaces him or tells him (`KeptByWorker`).
  Under rating pairing the property is false, as `queue_stranded` shows.

`Services_proofs` has four parts. The first proves about Lobby, for any set of players
and any number of slots, from
`LobbyAssumption` alone (the host is a player, there is at least one slot):

- `LobbyTypes`: `[]TypeOK`, with "a command runs inside the host's session".
- `CapacityIsRespected`: `[]CapacityRespected`. Its strengthening, `SafeCapacity`,
  only adds that the hash is finite, since the set of players need not be. A
  step shrinks the hash, is `AddLobbyPlayer`, or adds one player with the guard
  of the script (`MembersChange`); the second is where the exception is needed.
- `NothingIsLeftBehind`: `[]NothingLeftBehind`. That an entry's session is not
  "out" is not inductive: a session that has only found the lobby may be turned
  away and be out again with an entry in the hash. `EntryHasOwner` therefore says
  the session is between entry and clean-up, or died.

The second proves about Artifacts, for any requests, names, cap and faults, from
`ArtifactAssumption` alone:

- `ArtifactInvariance`: `[]ArtifactInv`. Every copy of the index, in storage, in a
  request's hands, in the teardown's or in the result, names only stored objects
  (`CopiesHeld`), because an object is replaced and never removed and a copy is
  extended only by a request past its PUT.
- `WhatIsListedIsThere`: `[]ListedDownloadable`, which needs besides that a key is
  known only of stored logs, and that names reach the result with the teardown's
  end (`NamesAtTheEnd`), or a download would still answer that there is none.
- `OrderInvariance`: `[](KeptInv /\ PromptKnown)`, with uploads overlapping as they
  please. `Lone` says that two requests under way are both disturbed, so that an
  undisturbed one writes back the index as it is. `AcknowledgedStand` says of an
  acknowledged, undisturbed upload that its entry is in the index and in every copy
  that a request will write back, and that who has replaced its bytes since has yet
  to come to the index (`Stands`): requests that overlap later lose each other's
  entries, not this one's. `RoomKept` is about the cap, until the first overlap.
  `PromptKnown` says the teardown's list has all that was acknowledged before the
  claim, since the index it reads has, and a new claim starts a new list.
- `AcknowledgedIsKept`, `PromptIsInResult`: `[]UploadsKept`, `[]PromptInResult`.

The third proves about Catalog, for any set of requests, names and any number of queues,
from `CatalogAssumption` alone:

- `CatalogInvariance`: `[]CatalogInv`. `KeepsAQueue` is not inductive: a deletion
  must find another queue still there when it runs, which `AnotherIsLeft` says of
  every deletion under way; rows go only by the two deletions (`RowsChange`), and
  without an overlap all deletions under way are of one queue. `LoadedQueues` says
  an update of the game has loaded at least one queue, and so fails where the
  game has gone: that is why `Save` cannot bring it back (`GameChanges`).
- `GameKeepsAQueue`, `GameStaysGone`: `[]KeepsAQueue`, `[]GameStaysDeleted`.

The fourth proves about ResultPages, for any number of results, any page size, any
listings and hidden results, from `PagesAssumption`:

- `PagesTypes`: `[]PagesTypeOK`. A sorted listing is a sequence of its set, with
  each member once (`ListedByChoice`), from which pages of results are cut.
- `WalksMissNothing`: `[]WalkMissesNothing`, by `WalkInv`. In the listing of
  artifacts, what the walk has yet to show has at least as many newer entries as
  the pages already shown hold (`PushedBack`): new entries only push it back,
  and none leaves. In the others, as long as the table is not written, all up to
  the last page was shown (`ShownSoFar`). It assumes that `"user"` is not in
  `Listing`: that listing's statement always fails, as section 4 says, and the
  property is false of it.
- `ServicesTypes`: `[]ServicesTypeOK`, of the five components of `MCServices`.

`Spectate_proofs` proves, for any number of bytes, any calls of `EndMatch`,
spectators and faults, from `StreamAssumption` alone:

- `StreamInvariance`: `[]StreamBase`. `Stream(k)`, the chunk a reader finds under a
  number, is defined for every number below the uploader's and never changes
  there (`ChunksKept`); it starts where the one before it ends, so that the starts
  rise (`Stored`). No manifest, live or replay or in a rotation's hands, counts
  more than was uploaded (`Counted`). A spectator's cursor, body and what it was
  sent are in order with respect to these starts (`Reading`): an old manifest
  read beside a new replay does no harm because both count the same chunks.
- `SpectateTypes`, `ReplaysAreComplete`, `ManifestsAreReadable`,
  `SpectatorsSeeInOrder`: `[]SpectateTypeOK`, `[]ReplayIsPrefix`,
  `[]StreamReadable`, `[]SentInOrder`.

`WildcardTLS_proofs` proves, for any machines, hosts, keys, months and faults, from
`TLSAssumption` alone:

- `CertificateInvariance`: `[](CertBase /\ Sole)`. `Own` is what a machine's record
  says by itself: who is in service has a pair at most a month old, and what is
  being written was issued this month for its key. `Kept` is what it says beside
  the storage: a certificate only gets newer there, and nothing loaded is newer.
  `Sole` holds while the first issue is not contested: the stored certificate is
  for the stored key, all that is held is for that key, and whoever issues the
  first pair is alone. A renewal keeps the key, so that renewals may overlap.
- `CertificateTypes`, `PairInServiceAlways`: `[]TLSTypeOK`, `[]PairInService`.
- `RecordsFollowRows`: `[]RecordFollowsRow`, by `RecordBase`: a host in the making
  names no record, and has one exactly between the call that makes it and the step
  that saves or removes it; who deletes a record has buried the row, and knows a
  record only if the row names it. Rows may be buried at any of these steps: that
  leaves the record to who is making it, or strays it.

`Progress_proofs` proves about GameServer, for any set of players' tokens:

- `ResultIsReportedOnce`: `[](GameServerTypeOK /\ ReportsOnce)`. `ReportsOnce` is the
  safety part of `OneResultThenExit`. It follows from `OneReporter`: the reporter
  starts in the step that completes the group, which happens once because
  `AddPlayer` refuses who has joined, and where the reporter is determines
  how much was posted and closed.

And about Ratings, for any reports, players, line-ups, K and ratings, from
`RatingsAssumption` and, since ratings of any size meet once there are more reports
than the run has, from `ExpectIsFair(Int)` in place of its bounded range:

- `RatingsTypes`: `[]RatingsTypeOK`.
- `NoUpdateIsLost`: `[]RatingsAddUp`, by three invariants. `RatingTypes` adds to
  the types that a transaction's players are different and where it is among them.
  `ReadsAreCurrent` says that a row has one holder, and that what a transaction has
  read is still what the row is worth, because it holds the row until it ends.
  `AllExplained` says a rating is the default plus the sum of what reports have
  added; a commit adds to the sum of each of its players what it adds to his row.
  That two players' changes cancel is a lemma about `Delta`: their surpluses
  cancel by `ExpectIsFair`, and `Rounded` is odd.
- `ReportsCannotDeadlock`: `[]SomebodyGoesOn`. `RowsInOrder` says that a transaction's
  players rise, that the rows it holds lie before its current one, but for rows it
  has inserted itself and come back to lock, and that every row it has passed is
  committed or its own. So whoever has come to lock waits for no row that is being
  inserted, only for one locked by a transaction whose current player is greater
  (`WaitsForOneFurtherOn`); whoever inserts waits for one that locks or for one that
  inserts a greater player's row. Of those that lock, or if there are none of
  those that insert, the one at the greatest player (`GreatestOf`) waits for
  nobody. With the players in the order given, TLC finds two that wait for each other.
- `ProgressTypes`: MCProgress' `[]TypeOK`, of its four components.

`DataLemmas` is about data of any size. The library's induction theorems take an
operator as a parameter, which none of the installed provers can instantiate;
here induction is derived from the well-foundedness of the numbers
(`NatLessThanWellFounded`, `WFMin`) and stated with sets: a set of numbers that has 0
and, with n, n + 1, has them all, and likewise for the subsets of a finite set.
From it follow that a sum over a finite set exists and is unique (`MapThenSumSet`
is defined by a choice of the recursive function), that its type is that of
what is summed up, what it becomes when one addend changes, and that
`OrderedBy` lists each member of its set once and in order.

Only model-checked, and why: the four liveness properties that hold, `EofReached`,
`RenewalHeals`, `ReportsEnd` and `OneResultThenExit`. They need ENABLED under fairness,
which the proof system cannot treat; of the last two the safety part is proved, as
`SomebodyGoesOn` and `ReportsOnce`. `ConnectedAreKept` is about FIFO, and
`OneMatchPerJoin` needs one worker where rating pairs, because the properties are
false otherwise.

## 7. What is not modelled

- Users and authentication, player data: a token is checked and one row is
  written, from values in that request.
- Lookups of one row, and the listings of games, users and matches, which page
  like those of ResultPages. Which matches a caller may watch or download from is
  a check of rows.
- Configuration, wiring and migrations: start-up code. Health polling, cloud-init
  text and token generation are I/O, as are `/health` and the stats of the agent.
- The game server sidecar, which serves a log and which the backend never calls.
- In a lobby, Redis errors in the middle of a session, passwords, tags and chat.
  In Artifacts, sizes and types, and an upload under the name of the index whose
  bytes are an index themselves. In Catalog, columns other than the unique name: an update of a queue writes the
  whole row as it was read, so the last writer wins in all of them.
- A host's pair is never renewed while the host runs; the model says what it is
  given, which is what `PairInService` is about.

Times are abstracted to the comparisons the code makes; two machines' clocks
agree.
