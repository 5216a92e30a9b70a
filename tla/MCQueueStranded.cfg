CONSTANTS
    ann = ann
    bob = bob
    cat = cat
    Player = {ann, bob}
    Worker = {w}
    Strategy = "rating"
    LobbySize = 2
    Rating <- EqualRating
    Capacity = 0
    Buffer = 1
    Throttled = {"pairing", "gc"}
    MaxJoins = 1
    QueueFaults = {}
SPECIFICATION Spec
INVARIANTS KeptWhileConnected
SYMMETRY Symmetry
CHECK_DEADLOCK FALSE
