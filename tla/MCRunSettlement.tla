-------------------------- MODULE MCRunSettlement --------------------------
(* Two gateways settle a run with one effect, one completion participant   *)
(* (the domain commits) and one termination participant (the cleanup).     *)
EXTENDS RunSettlement

CONSTANTS g1, g2, e1, domain, cleanup

MCAnswers == [s \in {domain, cleanup, "execution"} |->
    CASE s = "execution" -> {"completed", "unknown"}
      [] s = domain -> {"satisfied", "unknown"}
      [] OTHER -> {"satisfied", "unknown"}]

MCMaxRev == [s \in {domain, cleanup, "execution"} |-> IF s = cleanup THEN 2 ELSE 1]

\* An unknown domain leaves the run to be reconciled, an unknown effect
\* blocks it.
MCPolicy == [r \in {"execution", "effects", domain} |->
    [unknown    |-> CASE r = "execution" -> "indeterminate"
                      [] r = "effects" -> "block"
                      [] OTHER -> "reconcile",
     failure    |-> "block",
     notApplied |-> "reconcile",
     lost       |-> FALSE]]
============================================================================
