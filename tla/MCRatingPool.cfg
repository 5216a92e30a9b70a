CONSTANTS
    ann = ann
    bob = bob
    cat = cat
    a = a
    b = b
    c = c
    w1 = w1
    Player = {ann, bob}
    Worker = {w}
    Strategy = "rating"
    LobbySize = 2
    Rating <- SpreadRating
    Capacity = 1
    Buffer = 1
    Throttled = {}
    MaxJoins = 2
    QueueFaults = {"crash", "redis"}
    Match = {a, b, c}
    Warmer = {w1}
    Loop = {a, w1}
    Beside = 1
    Host = {h1, h2, h3}
    NoHost = NoHost
    Port = {1, 2, 3}
    Need = 1
    MaxSlots = 1
    MaxHosts = 1
    WarmSlots = 1
    Faults = {"db"}
SPECIFICATION RatingPoolSpec
INVARIANTS NoDoubleBooking SlotsRespected HostsCapped RowsHaveVMs
SYMMETRY BesideSymmetry
CHECK_DEADLOCK FALSE
