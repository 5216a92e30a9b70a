CONSTANTS
    MaxBytes = 2
    ChunkMax = 1
    Ender = {e}
    Local = {e}
    Viewer = {v}
    StreamFaults = {}
SPECIFICATION SpectateSpec
INVARIANTS NothingSkipped
CHECK_DEADLOCK FALSE
