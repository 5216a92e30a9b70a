CONSTANTS
    Match = {m1}
    Host = {h1}
    Proc = {p1, p2, p3}
    Verdict = {v1, v2}
    Ranked = {m1}
    InlineTeardown = FALSE
    Faults = {"crash", "db", "agent", "host"}
SPECIFICATION Spec
INVARIANTS RatingMatchesResult ClaimExclusive GraceRespected PortsHeldWhileRunning RowOutlivesContainer
PROPERTIES ResultImmutable NoResurrection ImplementsPromise
SYMMETRY Symmetry
CHECK_DEADLOCK FALSE
