----------------------- MODULE MCRunSettlementReplay -----------------------
(* The instance of MCRunSettlement, with a history of what was asked.       *)
EXTENDS MCRunSettlement

VARIABLE asked    \* [Gateways -> run revision of the request being served, or 0]

AskedAfter(g) ==
    IF call'[g].step = "idle" \/ (At(g, "idle") /\ run.status = "terminal") THEN 0
    ELSE IF At(g, "idle") THEN run.rev ELSE asked[g]

ReplaySpec ==
    /\ SettlementInit /\ asked = [g \in Gateways |-> 0]
    /\ [][SettlementNext /\ asked' = [g \in Gateways |-> AskedAfter(g)]]_<<settlementVars, asked>>

\* run_lifecycle_gateway_v3.go: "Terminal replays are recovered from immutable
\* Decision/Progress below": whoever asked for the settlement of the run and
\* has no answer when the run ends gets the completion by asking again.
ReplayRecovers ==
    \A g \in Gateways :
        run.status = "terminal" /\ asked[g] # 0 => ReplayReturns(asked[g])
============================================================================
