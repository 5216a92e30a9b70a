CONSTANTS
    MaxBytes = 2
    ChunkMax = 1
    Ender = {e1, e2}
    Local = {e1}
    Viewer = {v}
    StreamFaults = {"upload", "rotate", "crash"}
    Machine = {m1, m2}
    TLSHost = {}
    Key = {k1, k2}
    NoPEM = NoPEM
    MaxMonth = 2
    TLSFaults = {"crash", "acme", "get", "put"}
    Report = {r1, r2}
    Rated = {1, 2, 3}
    GuestPlayer = {9}
    LineUp <- LineUps
    DefaultRating = 0
    KFactor = 3
    Unit = 4
    Expect <- ExpectedScore
    NoRating = NoRating
    Token = {t1, t2, t3}
    MaxReporters = 2
SPECIFICATION Spec
INVARIANTS TypeOK ReplayIsPrefix StreamReadable SentInOrder PairInService RatingsAddUp SomebodyGoesOn
PROPERTIES EofReached RenewalHeals ReportsEnd OneResultThenExit
CHECK_DEADLOCK FALSE
