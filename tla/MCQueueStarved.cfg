CONSTANTS
    ann = ann
    bob = bob
    cat = cat
    Player = {ann, bob}
    Worker = {w}
    Strategy = "rating"
    LobbySize = 2
    Rating <- SpreadRating
    Capacity = 1
    Buffer = 1
    Throttled = {"pairing", "gc"}
    MaxJoins = 1
    QueueFaults = {}
SPECIFICATION FairSpec
PROPERTIES NobodyStarves
CHECK_DEADLOCK FALSE
