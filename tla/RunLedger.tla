------------------------------ MODULE RunLedger ------------------------------
(***************************************************************************)
(* What the Run facts of one instance promise (RunFactPort and the         *)
(* comments of RunJournal): a run ID is used once, at most one run is live *)
(* at a time, a run gets at most one completion claim and exactly one      *)
(* outcome, and nothing about it changes once it has ended.                *)
(***************************************************************************)
CONSTANTS Runs, Claims, NoClaim, Outcomes

VARIABLES phase,    \* [Runs -> {"absent", "live", "ended"}]
          claim,    \* [Runs -> Claims \cup {NoClaim}]
          outcome   \* [Runs -> Outcomes \cup {"none"}]

ledgerVars == <<phase, claim, outcome>>

LedgerInit ==
    /\ phase = [r \in Runs |-> "absent"]
    /\ claim = [r \in Runs |-> NoClaim]
    /\ outcome = [r \in Runs |-> "none"]

Begin(r) ==
    /\ phase[r] = "absent"
    /\ \A s \in Runs : phase[s] # "live"
    /\ phase' = [phase EXCEPT ![r] = "live"]
    /\ UNCHANGED <<claim, outcome>>

Attach(r) ==
    /\ phase[r] = "live"
    /\ claim[r] = NoClaim
    /\ claim'[r] \in Claims
    /\ claim' = [claim EXCEPT ![r] = claim'[r]]
    /\ UNCHANGED <<phase, outcome>>

End(r, o) ==
    /\ phase[r] = "live"
    /\ phase' = [phase EXCEPT ![r] = "ended"]
    /\ outcome' = [outcome EXCEPT ![r] = o]
    /\ UNCHANGED claim

LedgerNext ==
    \E r \in Runs :
        \/ Begin(r)
        \/ Attach(r)
        \/ \E o \in Outcomes : End(r, o)

LedgerSpec == LedgerInit /\ [][LedgerNext]_ledgerVars

============================================================================
