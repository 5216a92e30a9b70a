CONSTANTS
    Match = {m1}
    Host = {h1}
    Proc = {p1, p2}
    Verdict = {v1}
    Ranked = {m1}
    InlineTeardown = FALSE
    Faults = {"crash"}
SPECIFICATION FairSpec
PROPERTIES CooledIsTornDown
CHECK_DEADLOCK FALSE
