CONSTANTS
    ann = ann
    bob = bob
    cat = cat
    Player = {ann, bob}
    Worker = {v, w}
    Strategy = "random"
    LobbySize = 2
    Rating <- EqualRating
    Capacity = 1
    Buffer = 1
    Throttled = {"pairing", "gc"}
    MaxJoins = 2
    QueueFaults = {"crash", "redis"}
    Match = {a, b}
    Warmer = {w1}
    Loop = {}
    Beside = 3
    Host = {h1, h2}
    NoHost = NoHost
    Port = {1, 2}
    Need = 1
    MaxSlots = 2
    MaxHosts = 1
    WarmSlots = 1
    Faults = {"agent", "crash", "host"}
SPECIFICATION FifoPoolSpec
INVARIANTS FifoPoolTypeOK KeptWhileConnected NoDoubleBooking PortsExclusive NoPortLeak
SYMMETRY Symmetry
CHECK_DEADLOCK FALSE
