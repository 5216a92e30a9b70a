CONSTANTS
    ann = ann
    bob = bob
    cat = cat
    Player = {ann, bob}
    Worker = {w}
    Strategy = "random"
    LobbySize = 2
    Rating <- EqualRating
    Capacity = 1
    Buffer = 1
    Throttled = {"pairing", "gc"}
    MaxJoins = 1
    QueueFaults = {}
SPECIFICATION FairSpec
PROPERTIES CooledIsSwept

CHECK_DEADLOCK FALSE
