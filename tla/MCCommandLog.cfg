SPECIFICATION CommandSpec
CONSTANTS
    c1 = c1
    c2 = c2
    Bundles <- MCBundles
    Callers = {c1, c2}
    InitialDesired = "stopped"
    MaxTime = 1
SYMMETRY Symmetry
INVARIANTS
    CommandTypeOK
    NothingInForceIsDominated
    StopIsFinal
    AcceptedOnce
    CommandsAreBacked
    MarkedLast
