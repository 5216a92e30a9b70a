CONSTANTS
    Match = {a, b}
    Warmer = {}
    Loop = {}
    Beside = 2
    Host = {h1, h2}
    NoHost = NoHost
    Port = {1, 2}
    Need = 1
    MaxSlots = 2
    MaxHosts = 1
    WarmSlots = 0
    Faults = {}
SPECIFICATION PoolSpec
PROPERTIES ReapsIdleHosts
CHECK_DEADLOCK FALSE
