SPECIFICATION RunSpec
CONSTANTS
    c1 = c1
    c2 = c2
    r1 = r1
    r2 = r2
    d1 = d1
    d2 = d2
    Runs = {r1, r2}
    Callers = {c1, c2}
    Sources = {1}
    Digests = {d1, d2}
    Kinds = {"completed", "failed"}
    Outcomes = {"completed", "lost"}
    MaxTime = 1
SYMMETRY Symmetry
INVARIANTS
    RunTypeOK
    ActiveIndexExact
    AnswersStand
    ClaimIsBacked
PROPERTIES
    ImplementsRunLedger
