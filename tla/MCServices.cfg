CONSTANTS
    Host = ann
    Player = {ann, bob, cat}
    MaxPlayers = 2
    Request = {1, 2, 3}
    Nobody = Nobody
    Name = {1, 2, 3, 4}
    IndexName = 4
    MaxArtifacts = 2
    ArtifactFaults = {"timeout", "storage", "agent", "index"}
    Editor = {r1, r2}
    QueueName = {x, y}
    DefaultQueueName = x
    MaxQueues = 3
    NoRow = NoRow
    MaxResults = 3
    PageSize = 2
    Listing = {"artifacts", "all", "game", "guest", "leaderboard"}
    Hidden = {2}
    Machine = {m}
    TLSHost = {h1, h2}
    Key = {k}
    NoPEM = NoPEM
    MaxMonth = 1
    TLSFaults = {"crash", "acme", "get", "put", "dns", "db", "lost"}
SPECIFICATION ServicesSpec
INVARIANTS CapacityRespected NothingLeftBehind ServicesTypeOK  UploadsKept PromptInResult KeepsAQueue GameStaysDeleted WalkMissesNothing RecordFollowsRow
SYMMETRY Symmetry
CHECK_DEADLOCK FALSE
