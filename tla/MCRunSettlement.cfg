SPECIFICATION FairSettlementSpec
CONSTANTS
    g1 = g1
    g2 = g2
    e1 = e1
    domain = domain
    cleanup = cleanup
    None = None
    Gateways = {g1, g2}
    Effects = {e1}
    Completion = {domain}
    Termination = {cleanup}
    Endings = {"applied", "rejected"}
    Answers <- MCAnswers
    Policy <- MCPolicy
    MaxRev <- MCMaxRev
    Perishable = {cleanup}
    MaxFaults = 1
INVARIANTS
    SettlementTypeOK
    CompletionIsWhole
    CleanEndingIsClean
    ReportIsFinal
PROPERTIES
    NothingIsRewritten
    StoppedRunSettles
    EndedRunIsReported
