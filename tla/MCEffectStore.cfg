SPECIFICATION EffectSpec
CONSTANTS
    e1 = e1
    e2 = e2
    e3 = e3
    p1 = p1
    p2 = p2
    p3 = p3
    d1 = d1
    d2 = d2
    k1 = k1
    k2 = k2
    k3 = k3
    g1 = g1
    g2 = g2
    None = None
    Effects = {e1, e2, e3}
    Permits = {p1, p2, p3}
    Gateways = {g1, g2}
    Domains = {d1, d2}
    Keys = {k1, k2, k3}
    Intents <- MCIntents
    Attempts <- MCAttempts
    GrantExpires <- MCGrantExpires
    Losable = {e1}
    TTL = 2
    MaxTime = 1
SYMMETRY MCSymmetry
INVARIANTS EffectTypeOK RejectedNeverBegins OneAttempt BegunUnderGrant
           ConclusionsAreGrounded IndexNeverDrifts
PROPERTY ReleaseIsFinal
CHECK_DEADLOCK FALSE
