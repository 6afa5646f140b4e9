--------------------------- MODULE RunSettlement ---------------------------
(***************************************************************************)
(* How a run ends: the settlement gateway (runtime/kernel/                 *)
(* run_settlement_gateway_v2.go and its V3 entry run_lifecycle_gateway_v3) *)
(* over the run fact owner (runtime/fakes/run_settlement_store_v2.go,      *)
(* runtime/control/run_settlement_fact_v2.go) and the index of the run's   *)
(* effects (runtime/fakes/run_effect_store_v2.go).                         *)
(*                                                                         *)
(* One run.  Several gateways settle it at once: stop the run, freeze its  *)
(* effect set, read what its execution and the participants of its plan    *)
(* say, record that as a closure attempt, derive a decision and commit it; *)
(* then follow the termination requirements until a report can be filed.   *)
(* Every call into a store is one step, and the facts that a gateway has   *)
(* read go on changing.  A gateway whose reply is lost inspects the store  *)
(* and goes on if it finds what it wrote, which is a late reply; otherwise *)
(* its call returns an error and is made again.                            *)
(*                                                                         *)
(* Abstracted: the plan, its bindings and policies, which do not change    *)
(* (one that is not current only makes a call fail); evidence and digests; *)
(* the run's claim, read with the execution inspection; the effects' own   *)
(* lifecycle, reduced to the disposition each is given in the end; the     *)
(* closure pointer's revision, always the number of the current attempt.   *)
(***************************************************************************)
EXTENDS Naturals, Sequences, FiniteSets

CONSTANTS Gateways,
          Effects,
          Completion,     \* participants of run_completion requirements
          Termination,    \* participants of termination_report requirements
          Endings,        \* how an effect may end: rejected or settled
          Answers,        \* [sources -> what its fact may say]
          Policy,         \* [completion requirements -> policy]
          MaxRev,         \* bound: [sources -> last revision of its fact]
          Perishable,     \* bound: sources whose fact may expire
          MaxFaults,      \* bound: calls that fail or are abandoned
          None

Participants == Completion \cup Termination
\* Participants say how a requirement ended, the execution inspector what
\* became of the execution.
Sources == Participants \cup {"execution"}

Dispositions == {"satisfied", "not_required", "not_applied", "failed", "unknown"}
Truths == {"completed", "cancelled", "failed", "lost", "unknown"}
Outcomes == {"completed", "cancelled", "failed", "lost", "indeterminate",
             "needs_reconciliation"}
PolicyFact == [unknown    : {"block", "indeterminate", "reconcile"},
               failure    : {"block", "reconcile"},
               notApplied : {"block", "reconcile"},
               lost       : BOOLEAN]

ASSUME SettlementAssumption ==
    /\ Completion \cap Termination = {}
    /\ {"execution", "effects"} \cap Participants = {}
    /\ Endings \in SUBSET {"rejected", "applied", "not_applied", "failed"}
    /\ Answers \in [Sources -> SUBSET (Dispositions \cup Truths)]
    /\ Answers["execution"] \subseteq Truths
    /\ \A p \in Participants : Answers[p] \subseteq Dispositions
    /\ Policy \in [Completion \cup {"execution", "effects"} -> PolicyFact]
    /\ MaxRev \in [Sources -> Nat]
    /\ Perishable \in SUBSET Sources
    /\ MaxFaults \in Nat
    /\ None \notin Outcomes

VARIABLES run,        \* the run fact
          index,      \* the run's effect index
          effect,     \* [Effects -> state]
          creating,   \* [Effects -> index revision its creation expects, 0 without one]
          source,     \* [Sources -> fact in force]
          closures,   \* closure attempts, the last one current
          decision,
          progress,
          report,
          call,       \* [Gateways -> call in progress]
          faults

effectVars == <<effect, creating, index>>
ownerVars == <<run, closures, decision, progress, report>>
settlementVars == <<run, index, effect, creating, source, closures,
                    decision, progress, report, call, faults>>

----------------------------------------------------------------------------
(* Records.                                                                *)

RunFact == [status : {"running", "stopping", "terminal"}, rev : Nat,
            outcome : Outcomes \cup {None}]
EffectIndex == [frozen : BOOLEAN, rev : Nat, refs : SUBSET Effects]
EffectStates == {"absent", "open", "rejected", "applied", "not_applied",
                 "failed", "compensated"}

\* A fact of an owner outside the runtime; live until it expires.
Fact == [says : Dispositions \cup Truths, rev : Nat]
SourceFact == [fact : Fact, live : BOOLEAN]

Closure == [runRev : Nat, set : EffectIndex, facts : [Sources -> Fact]]
Decision == [runRev : Nat, attempt : Nat, effects : Dispositions,
             execution : Dispositions, outcome : Outcomes]
Progress == [rev : Nat, items : [Termination -> Dispositions]]
Report == [outcome : Outcomes, rev : Nat, items : [Termination -> Dispositions]]

Steps == {"idle", "begin", "closure", "freeze", "inspect", "create",
          "derive", "decide", "commit", "progress", "report", "file"}
\* runRev and seen are the run revision and the index or progress revision
\* that the call works with.
Call == [step     : Steps,
         runRev   : Nat,
         seen     : Nat,
         attempt  : Nat,
         facts    : [Sources -> Fact] \cup {None},
         decision : Decision \cup {None},
         items    : [Termination -> Dispositions] \cup {None}]

\* None is not one of the facts.
ASSUME NoneAssumption ==
    None \notin Decision \cup Progress \cup Report
             \cup [Sources -> Fact] \cup [Termination -> Dispositions]

Idle == [step |-> "idle", runRev |-> 0, seen |-> 0, attempt |-> 0,
         facts |-> None, decision |-> None, items |-> None]

Go(g, next) == call' = [call EXCEPT ![g] = next]
Return(g) == Go(g, Idle)
At(g, step) == call[g].step = step
----------------------------------------------------------------------------
(* The effects of the run.                                                 *)

\* CreateEffectForRunV2 checks that the run is running before it takes the
\* lock under which it writes.
CheckRunForEffect(e) ==
    /\ effect[e] = "absent"
    /\ creating[e] = 0
    /\ run.status = "running"
    /\ creating' = [creating EXCEPT ![e] = index.rev]
    /\ UNCHANGED <<source, ownerVars, effect, index, call, faults>>

\* Variant: the index takes what it gets, frozen or not.
IndexTakesLate(e) == index.rev >= creating[e]

IndexTakes(e) == ~index.frozen /\ index.rev = creating[e]

CreateEffectForRun(e) ==
    /\ creating[e] # 0
    /\ creating' = [creating EXCEPT ![e] = 0]
    /\ \/ /\ IndexTakes(e)
          /\ effect' = [effect EXCEPT ![e] = "open"]
          /\ index' = [index EXCEPT !.rev = @ + 1, !.refs = @ \cup {e}]
       \/ /\ ~IndexTakes(e)
          /\ UNCHANGED <<effect, index>>
    /\ UNCHANGED <<source, ownerVars, call, faults>>

\* The conclusions of the effect's own lifecycle, which freezing the set
\* does not stop.
Conclusions(state) ==
    CASE state = "open" -> Endings
      [] state \in {"applied", "not_applied", "failed"} -> {"compensated"}
      [] OTHER -> {}

ConcludeEffect(e) ==
    /\ \E next \in Conclusions(effect[e]) : effect' = [effect EXCEPT ![e] = next]
    /\ UNCHANGED <<source, ownerVars, creating, index, call, faults>>

----------------------------------------------------------------------------
(* The facts of others.  Once the run has ended only the termination       *)
(* participants are read again.                                            *)

StillRead(s) == s \in Termination \/ run.status # "terminal"

ReviseFact(s) ==
    /\ StillRead(s)
    /\ source[s].fact.rev < MaxRev[s]
    /\ \E v \in Answers[s] :
          source' = [source EXCEPT ![s] = [fact |-> [says |-> v, rev |-> @.fact.rev + 1],
                                           live |-> TRUE]]
    /\ UNCHANGED <<effectVars, ownerVars, call, faults>>

ExpireFact(s) ==
    /\ StillRead(s)
    /\ s \in Perishable
    /\ source[s].live
    /\ source' = [source EXCEPT ![s].live = FALSE]
    /\ UNCHANGED <<effectVars, ownerVars, call, faults>>

----------------------------------------------------------------------------
(* What a closure says, and what it decides.                               *)

\* Variant: an effect that was rejected needs no further attention.
EffectDispositionLenient(state) ==
    CASE state = "not_applied" -> "not_applied"
      [] state \in {"rejected", "applied", "compensated"} -> "satisfied"
      [] state = "failed" -> "failed"
      [] OTHER -> "unknown"

EffectDisposition(state) ==
    CASE state \in {"rejected", "not_applied"} -> "not_applied"
      [] state \in {"applied", "compensated"} -> "satisfied"
      [] state = "failed" -> "failed"
      [] OTHER -> "unknown"

\* mergeRunSettlementDispositionV2 keeps the worst disposition.
EffectsDisposition(refs) ==
    LET found == {EffectDisposition(effect[e]) : e \in refs}
    IN  IF "unknown" \in found THEN "unknown"
        ELSE IF "failed" \in found THEN "failed"
        ELSE IF "not_applied" \in found THEN "not_applied"
        ELSE "satisfied"

\* Variant: the truth is kept where a disposition belongs.
ExecutionTruth(truth) == truth

ExecutionDisposition(truth) ==
    IF truth = "unknown" \/ (truth = "lost" /\ ~Policy["execution"].lost)
    THEN "unknown" ELSE "satisfied"

\* How each completion requirement ended, by the facts read and the effects.
Resolutions(facts, effects) ==
    [r \in Completion \cup {"execution", "effects"} |->
        CASE r = "execution" -> ExecutionDisposition(facts["execution"].says)
          [] r = "effects" -> effects
          [] OTHER -> facts[r].says]

\* The policy of a requirement lets the run end with this disposition.
Admits(r, disp) ==
    CASE disp = "unknown" -> Policy[r].unknown =
                                 IF r = "execution" THEN "indeterminate" ELSE "reconcile"
      [] disp = "failed" -> Policy[r].failure = "reconcile"
      [] disp = "not_applied" -> Policy[r].notApplied = "reconcile"
      [] OTHER -> TRUE

\* Completion requirements other than the execution's truth that did not end
\* well leave the run to be reconciled.
NeedsReconciliation(resolutions) ==
    \E r \in DOMAIN resolutions \ {"execution"} :
        resolutions[r] \in {"unknown", "failed", "not_applied"}

\* deriveRunOutcomeV2: None where no outcome may be derived.
DerivedOutcome(truth, resolutions) ==
    LET indeterminate == Policy["execution"].unknown = "indeterminate"
    IN  IF NeedsReconciliation(resolutions) THEN "needs_reconciliation"
        ELSE CASE truth = "lost" -> IF Policy["execution"].lost /\ indeterminate
                                    THEN "lost" ELSE None
               [] truth = "unknown" -> IF indeterminate THEN "indeterminate" ELSE None
               [] OTHER -> truth

\* The fact owner derives the outcome once more from the closure it holds.
OwnerOutcome(truth, resolutions) ==
    IF NeedsReconciliation(resolutions) THEN "needs_reconciliation"
    ELSE CASE truth \in {"lost", "unknown"} /\ resolutions["execution"] = "unknown" ->
                 "indeterminate"
           [] truth # "unknown" /\ resolutions["execution"] = "satisfied" -> truth
           [] OTHER -> None

Settles(facts, effects) ==
    LET resolutions == Resolutions(facts, effects)
    IN  /\ \A r \in DOMAIN resolutions : Admits(r, resolutions[r])
        /\ DerivedOutcome(facts["execution"].says, resolutions) # None

\* The closure still states what its sources say.
Revalidates(c) ==
    /\ index.frozen
    /\ index = c.set
    /\ \A s \in Sources : source[s].live /\ source[s].fact = c.facts[s]

----------------------------------------------------------------------------
(* StopAndSettleRun: from the running or stopping run to the decision.     *)

StopAndSettleRun(g) ==
    /\ At(g, "idle")
    /\ run.status # "terminal"
    /\ Go(g, [Idle EXCEPT !.step = IF run.status = "running" THEN "begin" ELSE "closure",
                          !.runRev = run.rev])
    /\ UNCHANGED <<source, effectVars, ownerVars, faults>>

\* The swap of a run that another gateway already stopped finds its own
\* content and succeeds.
BeginStopRun(g) ==
    /\ At(g, "begin")
    /\ LET stopping == [run EXCEPT !.status = "stopping", !.rev = call[g].runRev + 1]
       IN  \/ /\ run.rev = call[g].runRev
              /\ run' = stopping
              /\ Go(g, [call[g] EXCEPT !.step = "closure", !.runRev = @ + 1])
           \/ /\ run.rev # call[g].runRev
              /\ run = stopping
              /\ Go(g, [call[g] EXCEPT !.step = "closure", !.runRev = @ + 1])
              /\ UNCHANGED run
           \/ /\ run.rev # call[g].runRev
              /\ run # stopping
              /\ Return(g)
              /\ UNCHANGED run
    /\ UNCHANGED <<source, effectVars, closures, decision, progress, report, faults>>

\* Variant: an attempt that was once recorded is reused for ever.
InspectFirstClosure(g) ==
    /\ At(g, "closure")
    /\ LET n == Len(closures)
       IN  Go(g, [call[g] EXCEPT !.step = IF n > 0 THEN "derive" ELSE "freeze",
                                 !.attempt = IF n > 0 THEN n ELSE 1,
                                 !.seen = IF n > 0 THEN 0 ELSE index.rev])
    /\ UNCHANGED <<source, effectVars, ownerVars, faults>>

\* Reuse the current closure if it still holds, or prepare the next attempt.
InspectClosure(g) ==
    /\ At(g, "closure")
    /\ LET n == Len(closures)
           current == n > 0 /\ Revalidates(closures[n])
       IN  Go(g, [call[g] EXCEPT !.step = IF current THEN "derive" ELSE "freeze",
                                 !.attempt = IF current THEN n ELSE n + 1,
                                 !.seen = IF current THEN 0 ELSE index.rev])
    /\ UNCHANGED <<source, effectVars, ownerVars, faults>>

\* A set that was read frozen needs no call.  The store takes one that was
\* read open only for the exact stopping run; it is not frozen if it grew.
FreezeRunEffectSet(g) ==
    /\ At(g, "freeze")
    /\ LET same == index.rev = call[g].seen
           stopping == run.status = "stopping" /\ run.rev = call[g].runRev
           frozen == index.frozen /\ (same \/ stopping)
           freezes == ~index.frozen /\ same /\ stopping
       IN  \/ /\ freezes
              /\ index' = [index EXCEPT !.frozen = TRUE, !.rev = @ + 1]
              /\ Go(g, [call[g] EXCEPT !.step = "inspect", !.seen = 0])
           \/ /\ frozen
              /\ Go(g, [call[g] EXCEPT !.step = "inspect", !.seen = 0])
              /\ UNCHANGED index
           \/ /\ ~freezes /\ ~frozen
              /\ Return(g)
              /\ UNCHANGED index
    /\ UNCHANGED <<source, ownerVars, effect, creating, faults>>

\* The execution inspection, the run's claim and the participants.  They are
\* read one after the other, but a closure that mixes moments is of no use:
\* revisions only grow, so it can never be revalidated.
InspectSources(g) ==
    /\ At(g, "inspect")
    /\ IF \A s \in Sources : source[s].live
       THEN Go(g, [call[g] EXCEPT !.step = "create",
                                  !.facts = [s \in Sources |-> source[s].fact]])
       ELSE Return(g)
    /\ UNCHANGED <<source, effectVars, ownerVars, faults>>

Draft(g) == [runRev |-> call[g].runRev, set |-> index, facts |-> call[g].facts]

\* A participant fact that the draft holds may have been superseded; one that
\* is still in force must not have expired.
DraftIsLive(g) ==
    \A p \in Participants : source[p].fact = call[g].facts[p] => source[p].live

ExtendsChain(g) ==
    /\ call[g].attempt = Len(closures) + 1
    /\ decision = None
    /\ run.status = "stopping"
    /\ run.rev = call[g].runRev
    /\ DraftIsLive(g)

\* The closure is in the store from here on.
Derive(g) == [call[g] EXCEPT !.step = "derive", !.facts = None]

\* The attempt may be there already: the same one, byte for byte, or (since
\* each gateway puts its own time on its draft) another gateway's.
CreateClosureAttempt(g) ==
    /\ At(g, "create")
    /\ \/ /\ ExtendsChain(g)
          /\ closures' = Append(closures, Draft(g))
          /\ Go(g, Derive(g))
       \/ /\ call[g].attempt <= Len(closures)
          /\ closures[call[g].attempt] = Draft(g)
          /\ Go(g, Derive(g))
          /\ UNCHANGED closures
       \/ /\ ~ExtendsChain(g)
          /\ Return(g)
          /\ UNCHANGED closures
    /\ UNCHANGED <<source, effectVars, run, decision, progress, report, faults>>

\* deriveDecision first checks that the closure still states what its sources
\* say,
RevalidateClosure(g) ==
    /\ At(g, "derive")
    /\ IF Revalidates(closures[call[g].attempt])
       THEN Go(g, [call[g] EXCEPT !.step = "decide"])
       ELSE Return(g)
    /\ UNCHANGED <<source, effectVars, ownerVars, faults>>

\* then reads the effects; the policies must admit what was found and the
\* closure must still be the current one.  The participants are read once more
\* on the way, in the order of the plan; each may change right after, so that
\* the reading of the revalidation stands for both.
DeriveDecision(g) ==
    /\ At(g, "decide")
    /\ LET c == closures[call[g].attempt]
           found == EffectsDisposition(c.set.refs)
           resolutions == Resolutions(c.facts, found)
       IN  IF call[g].attempt = Len(closures) /\ Settles(c.facts, found)
           THEN Go(g, [call[g] EXCEPT
                  !.step = "commit",
                  !.decision = [runRev    |-> call[g].runRev,
                                attempt   |-> call[g].attempt,
                                effects   |-> found,
                                execution |-> resolutions["execution"],
                                outcome   |-> DerivedOutcome(c.facts["execution"].says,
                                                             resolutions)],
                  !.items = [t \in Termination |-> c.facts[t].says]])
           ELSE Return(g)
    /\ UNCHANGED <<source, effectVars, ownerVars, faults>>

\* Variant: a decision on a superseded attempt is taken too.
DecisionOnAnyAttempt(d) ==
    LET c == closures[d.attempt]
        resolutions == [Resolutions(c.facts, d.effects) EXCEPT !["execution"] = d.execution]
    IN  /\ decision = None
        /\ run.status = "stopping"
        /\ run.rev = d.runRev
        /\ d.outcome = OwnerOutcome(c.facts["execution"].says, resolutions)

\* The fact owner checks the decision against the closure it cites, never
\* against the sources of that closure.
DecisionStands(d) ==
    LET c == closures[d.attempt]
        resolutions == [Resolutions(c.facts, d.effects) EXCEPT !["execution"] = d.execution]
    IN  /\ decision = None
        /\ d.attempt = Len(closures)
        /\ run.status = "stopping"
        /\ run.rev = d.runRev
        /\ d.runRev = c.runRev
        /\ d.outcome = OwnerOutcome(c.facts["execution"].says, resolutions)

\* The decision, the terminal run and its first progress appear together.
CommitRunCompletion(g) ==
    /\ At(g, "commit")
    /\ LET d == call[g].decision
       IN  \/ /\ DecisionStands(d)
              /\ decision' = d
              /\ run' = [status |-> "terminal", rev |-> run.rev + 1, outcome |-> d.outcome]
              /\ progress' = [rev |-> 1, items |-> call[g].items]
           \/ /\ ~DecisionStands(d)
              /\ UNCHANGED <<run, decision, progress>>
    /\ Return(g)
    /\ UNCHANGED <<source, effectVars, closures, report, faults>>

\* The committed completion as a repeated request finds it.
CommittedIsWhole ==
    /\ decision # None
    /\ progress # None
    /\ decision.attempt = Len(closures)
    /\ run.outcome = decision.outcome

\* What a request that is repeated after the run ended is answered from the
\* stores: the completion, or an error that says it is broken.
ReplayReturns(rev) == CommittedIsWhole /\ decision.runRev = rev + 1

----------------------------------------------------------------------------
(* After the run ended: ReconcileTerminationProgress and the report.       *)

Open == {t \in Termination : progress.items[t] = "unknown"}

\* A participant whose fact expired makes the call fail.
ReconcileTermination(g) ==
    /\ At(g, "idle")
    /\ run.status = "terminal"
    /\ LET items == [t \in Termination |-> IF t \in Open THEN source[t].fact.says
                                           ELSE progress.items[t]]
       IN  Go(g, IF \E t \in Open : ~source[t].live THEN Idle
                 ELSE IF items = progress.items THEN [Idle EXCEPT !.step = "report"]
                 ELSE [Idle EXCEPT !.step = "progress", !.seen = progress.rev,
                                   !.items = items])
    /\ UNCHANGED <<source, effectVars, ownerVars, faults>>

\* Variant: no item may change, also one that was unknown.
ProgressStands(items, onTime) ==
    onTime /\ \A t \in Termination : items[t] = progress.items[t]

\* ValidateRunTerminationProgressTransitionV2.  The time of the new progress
\* must be exactly what the owner's clock shows when the swap arrives.
ProgressAdvances(items, onTime) ==
    /\ onTime
    /\ \A t \in Termination : progress.items[t] # "unknown" => items[t] = progress.items[t]

\* Variant: the swap does not compare revisions.
SwapsUnversioned(g, onTime) == ProgressAdvances(call[g].items, onTime)

SwapsProgress(g, onTime) ==
    call[g].seen = progress.rev /\ ProgressAdvances(call[g].items, onTime)

\* The gateway put its own clock's time on the progress before it called: the
\* owner's clock may have moved on, at this and at every later attempt.
\* Another gateway may have written the same items with the same time, and
\* then the swap finds its own content.
SwapProgress(g) ==
    /\ At(g, "progress")
    /\ \E onTime \in BOOLEAN :
          \/ /\ SwapsProgress(g, onTime)
             /\ progress' = [rev |-> progress.rev + 1, items |-> call[g].items]
             /\ Go(g, [Idle EXCEPT !.step = "report"])
          \/ /\ ~SwapsProgress(g, onTime)
             /\ progress = [rev |-> call[g].seen + 1, items |-> call[g].items]
             /\ Go(g, [Idle EXCEPT !.step = "report"])
             /\ UNCHANGED progress
          \/ /\ ~SwapsProgress(g, onTime)
             /\ Return(g)
             /\ UNCHANGED progress
    /\ UNCHANGED <<source, effectVars, run, closures, decision, report, faults>>

BuildReport(g) ==
    /\ At(g, "report")
    /\ IF Open = {}
       THEN Go(g, [Idle EXCEPT !.step = "file", !.seen = progress.rev,
                               !.items = progress.items])
       ELSE Return(g)
    /\ UNCHANGED <<source, effectVars, ownerVars, faults>>

\* The fact owner rebuilds the report and takes it only if it is the same.
FileReport(g) ==
    /\ At(g, "file")
    /\ report' = IF /\ report = None
                    /\ Open = {}
                    /\ call[g].seen = progress.rev
                    /\ call[g].items = progress.items
                 THEN [outcome |-> run.outcome, rev |-> progress.rev,
                       items |-> progress.items]
                 ELSE report
    /\ Return(g)
    /\ UNCHANGED <<source, effectVars, run, closures, decision, progress, faults>>

----------------------------------------------------------------------------
\* A port or a store is unavailable, or the gateway's process ends.
Fail(g) ==
    /\ ~At(g, "idle")
    /\ faults < MaxFaults
    /\ faults' = faults + 1
    /\ Return(g)
    /\ UNCHANGED <<source, effectVars, ownerVars>>

SettlementInit ==
    /\ run = [status |-> "running", rev |-> 2, outcome |-> None]
    /\ index = [frozen |-> FALSE, rev |-> 1, refs |-> {}]
    /\ effect = [e \in Effects |-> "absent"]
    /\ creating = [e \in Effects |-> 0]
    /\ \E v \in [Sources -> Dispositions \cup Truths] :
          /\ \A s \in Sources : v[s] \in Answers[s]
          /\ source = [s \in Sources |-> [fact |-> [says |-> v[s], rev |-> 1],
                                          live |-> TRUE]]
    /\ closures = <<>>
    /\ decision = None
    /\ progress = None
    /\ report = None
    /\ call = [g \in Gateways |-> Idle]
    /\ faults = 0

Settle(g) ==
    \/ BeginStopRun(g)
    \/ InspectClosure(g)
    \/ FreezeRunEffectSet(g)
    \/ InspectSources(g)
    \/ CreateClosureAttempt(g)
    \/ RevalidateClosure(g)
    \/ DeriveDecision(g)
    \/ CommitRunCompletion(g)

Terminate(g) ==
    \/ ReconcileTermination(g)
    \/ SwapProgress(g)
    \/ BuildReport(g)
    \/ FileReport(g)

Environment ==
    \/ \E e \in Effects : CheckRunForEffect(e) \/ CreateEffectForRun(e) \/ ConcludeEffect(e)
    \/ \E s \in Sources : ReviseFact(s) \/ ExpireFact(s)

SettlementNext ==
    \/ \E g \in Gateways : \/ StopAndSettleRun(g)
                           \/ Settle(g)
                           \/ Terminate(g)
                           \/ Fail(g)
    \/ Environment

SettlementSpec == SettlementInit /\ [][SettlementNext]_settlementVars

\* Once a run is stopping, those who reconcile it call again and again until
\* it has ended and is reported; nobody has to stop a running run.
Resume(g) ==
    \/ run.status = "stopping" /\ StopAndSettleRun(g)
    \/ Settle(g)
    \/ Terminate(g)

FairSettlementSpec ==
    SettlementSpec /\ \A g \in Gateways : WF_settlementVars(Resume(g))
----------------------------------------------------------------------------
(* Properties.                                                             *)

\* Types of the fact owner's state, the effect index, the inspected facts
\* and the calls in progress.
SettlementTypeOK ==
    /\ run \in RunFact
    /\ index \in EffectIndex
    /\ effect \in [Effects -> EffectStates]
    /\ creating \in [Effects -> Nat]
    /\ source \in [Sources -> SourceFact]
    /\ closures \in Seq(Closure)
    /\ decision \in Decision \cup {None}
    /\ progress \in Progress \cup {None}
    /\ report \in Report \cup {None}
    /\ call \in [Gateways -> Call]
    /\ faults \in 0..MaxFaults

\* The run is terminal exactly when it has a decision and its progress, and
\* then the decision cites the attempt that is still current, the run carries
\* its outcome, and no later revision of the run exists: what
\* inspectCommittedLocked and the terminal branch of StopAndSettleRunV2 call
\* a broken completion cannot be seen, whichever gateways raced.
CompletionIsWhole ==
    /\ (run.status = "terminal") <=> (decision # None)
    /\ (run.status = "terminal") <=> (progress # None)
    /\ decision # None => CommittedIsWhole /\ run.rev = decision.runRev + 1

\* A run that ended without needing reconciliation left nothing behind: every
\* effect ever created for it, also one whose creation raced with the stop, is
\* and stays applied or compensated, and every completion participant of its
\* closure was satisfied or not required.  The commit checks none of this: it
\* rests on the frozen set and on dispositions that never become worse.
CleanEndingIsClean ==
    run.outcome \notin {None, "needs_reconciliation"} =>
        /\ \A e \in Effects : effect[e] \in {"absent", "applied", "compensated"}
        /\ \A p \in Completion :
              closures[decision.attempt].facts[p].says \in {"satisfied", "not_required"}

\* The report is the last word: it gives the run's outcome and exactly the
\* items of the progress, none of them unknown, whatever the participants say
\* later and whoever still reconciles.
ReportIsFinal ==
    report # None => /\ Open = {}
                     /\ report.rev = progress.rev
                     /\ report.items = progress.items
                     /\ report.outcome = run.outcome

\* Closure attempts are only appended; the decision, the terminal run and the
\* report never change; a termination requirement that was resolved keeps its
\* resolution, and a frozen effect set its content.
NothingIsRewritten ==
    [][ /\ Len(closures) <= Len(closures')
        /\ \A i \in 1..Len(closures) : closures'[i] = closures[i]
        /\ decision # None => decision' = decision /\ run' = run
        /\ report # None => report' = report
        /\ progress # None =>
              \A t \in Termination :
                  progress.items[t] # "unknown" => progress'.items[t] = progress.items[t]
        /\ index.frozen => index' = index
      ]_settlementVars

\* The sources as they are now would let the run end.
Settleable ==
    /\ \A s \in Sources : source[s].live
    /\ Settles([s \in Sources |-> source[s].fact], EffectsDisposition(index.refs))

\* If the sources come to let the run end and stay so, a stopping run ends:
\* gateways that race for the next attempt, supersede each other's closures
\* or die do not keep each other from a commit.
StoppedRunSettles ==
    <>[]Settleable => (run.status = "stopping" ~> run.status = "terminal")

\* A swap of the progress that the owner's clock does not refuse.
TimelySwap == \E g \in Gateways : SwapProgress(g) /\ progress' # progress

\* If every termination participant comes to a conclusion and keeps it, a run
\* that ended is reported, unless the owner goes on refusing swaps for their
\* time only: whatever else stands between a conclusion and the report (stale
\* readers, gateways that overtake each other or die) does so for a while.
\* The code does not give the premise on time, two clocks that agree to the
\* nanosecond, and without it the property fails.
EndedRunIsReported ==
    /\ <>[](\A t \in Termination : source[t].live /\ source[t].fact.says # "unknown")
    /\ SF_settlementVars(TimelySwap)
    => (run.status = "terminal" ~> report # None)
============================================================================
