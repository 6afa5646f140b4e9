SPECIFICATION ActivationSpec
CONSTANTS
    a1 = a1
    a2 = a2
    Attempts = {a1, a2}
    MaxEpoch = 2
    MaxTime = 1
    MaxRevision = 3
SYMMETRY Symmetry
INVARIANTS
    ActivationTypeOK
    CommitIsAtomic
    CopyIsCurrent
    SandboxAccounted
    TerminalMeansReleased
PROPERTIES
    ActiveUnderLease
    ImplementsLeaseStore
CHECK_DEADLOCK FALSE
