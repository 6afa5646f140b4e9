SPECIFICATION LeaseSpec
CONSTANTS
    a1 = a1
    a2 = a2
    Attempts = {a1, a2}
    MaxEpoch = 2
    MaxTime = 2
    MaxRevision = 3
SYMMETRY Symmetry
INVARIANTS
    LeaseTypeOK
    SingleHolder
PROPERTIES
    EndedForever
    RevisionNamesContent
