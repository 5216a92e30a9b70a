CONSTANTS
    Host = ann
    Player = {ann, bob}
    MaxPlayers = 2
SPECIFICATION FairSpec
PROPERTIES LeavesWithHost
CHECK_DEADLOCK FALSE
