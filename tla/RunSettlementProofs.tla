------------------------- MODULE RunSettlementProofs -------------------------
(***************************************************************************)
(* Safety of run settlement, for any number of gateways, effects and       *)
(* participants, any policies and any number of faults.                    *)
(***************************************************************************)
EXTENDS RunSettlement, TLAPS

\* Every fact says what its source may say.
Plausible(facts) == \A s \in Sources : facts[s].says \in Answers[s]

\* The run's revision tells its status, and the records of its completion
\* exist exactly when it has ended.
PhaseOK ==
    /\ run.status = "running" => run.rev = 2
    /\ run.status = "stopping" => run.rev = 3
    /\ run.status = "terminal" => run.rev = 4 /\ decision # None /\ progress # None
    /\ run.status # "terminal" =>
          run.outcome = None /\ decision = None /\ progress = None /\ report = None

EffectsIndexed == index.refs = {e \in Effects : effect[e] # "absent"}

\* Attempts are made on the stopping run and its frozen effect set.
ClosuresOK ==
    /\ Len(closures) > 0 => index.frozen
    /\ \A i \in 1..Len(closures) :
          closures[i].runRev = 3 /\ closures[i].set = index /\ Plausible(closures[i].facts)

Landed(e) == effect[e] \in {"applied", "compensated"}

\* A decision cites an attempt, and what it says of the effects lasts.
Sound(d) ==
    /\ d.runRev = 3
    /\ d.attempt \in 1..Len(closures)
    /\ d.effects # "not_required"
    /\ d.effects = "satisfied" => \A e \in index.refs : Landed(e)

\* What a gateway's call knows at each of its steps.
CallOK(c) ==
    /\ c.step = "begin" => c.runRev = 2
    /\ c.step \in {"closure", "freeze", "inspect", "create", "derive", "decide",
                   "commit"} =>
          c.runRev = 3 /\ run.status # "running"
    /\ c.step \in {"inspect", "create", "derive", "decide", "commit"} => index.frozen
    /\ c.step \in {"freeze", "inspect", "create"} => c.attempt > 0
    /\ c.step = "create" => c.facts # None /\ Plausible(c.facts)
    /\ c.step \in {"derive", "decide"} => c.attempt \in 1..Len(closures)
    /\ c.step = "commit" => c.decision # None /\ c.items # None /\ Sound(c.decision)
    /\ c.step \in {"progress", "report", "file"} => run.status = "terminal"
    /\ c.step = "progress" =>
          /\ c.items # None
          /\ c.seen <= progress.rev
          /\ c.seen = progress.rev => c.items # progress.items

\* A decision that ends the run well rests on effects and participants that
\* ended well.
DecisionOK(d) ==
    /\ Sound(d)
    /\ d.attempt = Len(closures)
    /\ d.outcome # "needs_reconciliation" =>
          /\ d.effects = "satisfied"
          /\ \A p \in Completion :
                closures[d.attempt].facts[p].says \in {"satisfied", "not_required"}

\* The inductive invariant.
SettlementInv ==
    /\ SettlementTypeOK
    /\ PhaseOK
    /\ \A s \in Sources : source[s].fact.says \in Answers[s]
    /\ EffectsIndexed
    /\ ClosuresOK
    /\ \A g \in Gateways : CallOK(call[g])
    /\ decision # None => DecisionOK(decision) /\ run.outcome = decision.outcome
    /\ ReportIsFinal

----------------------------------------------------------------------------
(* Calls.                                                                  *)

LEMMA IdleOK == Idle \in Call /\ CallOK(Idle)
<1>1. Idle.step = "idle"
    BY DEF Idle
<1>2. Idle \in Call
    BY DEF Idle, Call, Steps
<1>3. CallOK(Idle)
    BY <1>1 DEF CallOK
<1>4. QED
    BY <1>2, <1>3

\* A step that changes one call and, of the rest, at most the fault counter.
LEMMA CallStep ==
    ASSUME SettlementInv, NEW g \in Gateways, NEW next \in Call, CallOK(next),
           Go(g, next), UNCHANGED <<source, effectVars, ownerVars>>,
           faults' \in 0..MaxFaults
    PROVE  SettlementInv'
<1> USE DEF SettlementInv, effectVars, ownerVars
<1>1. call' \in [Gateways -> Call]
    BY DEF SettlementTypeOK, Go
<1>2. SettlementTypeOK'
    BY <1>1 DEF SettlementTypeOK
<1>3. \A h \in Gateways : CallOK(call'[h])
    BY DEF SettlementTypeOK, Go
<1>4. ASSUME NEW c, CallOK(c)
      PROVE  CallOK(c)'
    BY <1>4 DEF CallOK, Sound, Landed, Plausible
<1>5. (\A h \in Gateways : CallOK(call[h]))'
    BY <1>3, <1>4
<1>6. PhaseOK' /\ EffectsIndexed' /\ ClosuresOK' /\ ReportIsFinal'
    BY DEF PhaseOK, EffectsIndexed, ClosuresOK, ReportIsFinal, Open, Plausible
<1>7. (decision # None => DecisionOK(decision) /\ run.outcome = decision.outcome)'
    BY DEF DecisionOK, Sound, Landed
<1>8. QED
    BY <1>2, <1>5, <1>6, <1>7

LEMMA ReturnStep ==
    ASSUME SettlementInv, NEW g \in Gateways, Return(g),
           UNCHANGED <<source, effectVars, ownerVars>>, faults' \in 0..MaxFaults
    PROVE  SettlementInv'
BY IdleOK, CallStep DEF Return

LEMMA FaultsKept ==
    ASSUME SettlementInv, UNCHANGED faults
    PROVE  faults' \in 0..MaxFaults
BY DEF SettlementInv, SettlementTypeOK

LEMMA StopAndSettleRunStep ==
    ASSUME SettlementInv, NEW g \in Gateways, StopAndSettleRun(g)
    PROVE  SettlementInv'
<1> DEFINE next == [Idle EXCEPT !.step = IF run.status = "running" THEN "begin" ELSE "closure",
                                !.runRev = run.rev]
<1>1. run \in RunFact
    BY DEF SettlementInv, SettlementTypeOK
<1>2. next \in Call
    BY <1>1, IdleOK DEF Call, Steps, RunFact
<1>3. /\ next.step = IF run.status = "running" THEN "begin" ELSE "closure"
      /\ next.runRev = run.rev
    BY DEF Idle
<1>4. CallOK(next)
    BY <1>1, <1>3 DEF CallOK, StopAndSettleRun, SettlementInv, PhaseOK, RunFact
<1>5. QED
    BY <1>2, <1>4, CallStep, FaultsKept DEF StopAndSettleRun

LEMMA InspectClosureStep ==
    ASSUME SettlementInv, NEW g \in Gateways, InspectClosure(g)
    PROVE  SettlementInv'
<1> DEFINE n == Len(closures)
           current == n > 0 /\ Revalidates(closures[n])
           next == [call[g] EXCEPT !.step = IF current THEN "derive" ELSE "freeze",
                                   !.attempt = IF current THEN n ELSE n + 1,
                                   !.seen = IF current THEN 0 ELSE index.rev]
<1>1. call[g] \in Call /\ index \in EffectIndex /\ n \in Nat
    BY DEF SettlementInv, SettlementTypeOK
<1>2. next \in Call
  <2> HIDE DEF current, n
  <2>1. CASE current
    <3>1. next = [call[g] EXCEPT !.step = "derive", !.attempt = n, !.seen = 0]
        BY <2>1
    <3>2. QED
        BY <1>1, <3>1 DEF Call, Steps
  <2>2. CASE ~current
    <3>1. next = [call[g] EXCEPT !.step = "freeze", !.attempt = n + 1, !.seen = index.rev]
        BY <2>2
    <3>2. n + 1 \in Nat /\ index.rev \in Nat
        BY <1>1 DEF EffectIndex
    <3>3. QED
        BY <1>1, <3>1, <3>2 DEF Call, Steps
  <2>3. QED
      BY <2>1, <2>2
<1>3. /\ next.step = IF current THEN "derive" ELSE "freeze"
      /\ next.runRev = call[g].runRev
      /\ next.attempt = IF current THEN n ELSE n + 1
    BY <1>1 DEF Call
<1>4. call[g].runRev = 3 /\ run.status # "running"
    BY DEF InspectClosure, At, SettlementInv, CallOK
<1>5. Go(g, next) /\ UNCHANGED <<source, effectVars, ownerVars, faults>>
    BY DEF InspectClosure
<1>6. CallOK(next)
  <2>1. CASE current
    <3>1. index.frozen /\ n > 0
        BY <2>1 DEF Revalidates
    <3>2. next.step = "derive" /\ next.runRev = 3 /\ next.attempt = n
        BY <1>3, <1>4, <2>1
    <3>3. QED
        BY <1>1, <1>4, <3>1, <3>2 DEF CallOK
  <2>2. CASE ~current
    <3>1. next.step = "freeze" /\ next.runRev = 3
        BY <1>3, <1>4, <2>2
    <3>2. QED
        BY <1>4, <3>1 DEF CallOK
  <2>3. QED
      BY <2>1, <2>2
<1>7. QED
    BY <1>2, <1>5, <1>6, CallStep, FaultsKept

LEMMA InspectSourcesStep ==
    ASSUME SettlementInv, NEW g \in Gateways, InspectSources(g)
    PROVE  SettlementInv'
<1> DEFINE facts == [s \in Sources |-> source[s].fact]
           next == [call[g] EXCEPT !.step = "create", !.facts = facts]
<1>1. call[g] \in Call
    BY DEF SettlementInv, SettlementTypeOK
<1>2. facts \in [Sources -> Fact]
    BY DEF SettlementInv, SettlementTypeOK, SourceFact
<1>3. next \in Call
    BY <1>1, <1>2 DEF Call, Steps
<1>4. next.step = "create" /\ next.runRev = call[g].runRev /\ next.facts = facts
    BY <1>1 DEF Call
<1>5. facts # None
    BY <1>2, NoneAssumption
<1>6. Plausible(facts)
    BY DEF Plausible, SettlementInv
<1>7. CallOK(next)
    BY <1>4, <1>5, <1>6 DEF InspectSources, At, SettlementInv, CallOK
<1>8. CASE Go(g, next)
    BY <1>3, <1>7, <1>8, CallStep, FaultsKept DEF InspectSources
<1>9. CASE Return(g)
    BY <1>9, ReturnStep, FaultsKept DEF InspectSources
<1>10. QED
    BY <1>8, <1>9 DEF InspectSources

----------------------------------------------------------------------------
(* What is decided.                                                        *)

LEMMA DispositionFacts ==
    ASSUME SettlementInv, NEW refs \in SUBSET Effects
    PROVE  /\ EffectsDisposition(refs) \in Dispositions \ {"not_required"}
           /\ EffectsDisposition(refs) = "satisfied" =>
                 \A e \in refs : effect[e] # "absent" => Landed(e)
<1> DEFINE found == {EffectDisposition(effect[e]) : e \in refs}
<1>1. EffectsDisposition(refs) \in Dispositions \ {"not_required"}
    BY DEF EffectsDisposition, Dispositions
<1>2. ASSUME EffectsDisposition(refs) = "satisfied", NEW e \in refs
      PROVE  Landed(e)
  <2>1. {"unknown", "failed", "not_applied"} \cap found = {}
      BY <1>2 DEF EffectsDisposition
  <2>2. EffectDisposition(effect[e]) \notin {"unknown", "failed", "not_applied"}
      BY <2>1
  <2>3. effect[e] \in EffectStates
      BY DEF SettlementInv, SettlementTypeOK
  <2>4. QED
      BY <2>2, <2>3 DEF EffectDisposition, EffectStates, Landed
<1>3. QED
    BY <1>1, <1>2

\* The outcome derived from plausible facts is an outcome.
LEMMA OutcomeFacts ==
    ASSUME NEW facts, Plausible(facts), NEW disp, Settles(facts, disp)
    PROVE  DerivedOutcome(facts["execution"].says, Resolutions(facts, disp)) \in Outcomes
<1> DEFINE truth == facts["execution"].says
           outcome == DerivedOutcome(truth, Resolutions(facts, disp))
<1>1. "execution" \in Sources
    BY DEF Sources
<1>2. truth \in Truths
    BY <1>1, SettlementAssumption DEF Plausible
<1>3. outcome # None
    BY DEF Settles
<1> SUFFICES outcome \in Outcomes
    OBVIOUS
<1> HIDE DEF truth
<1>4. CASE NeedsReconciliation(Resolutions(facts, disp))
    BY <1>4 DEF DerivedOutcome, Outcomes
<1>5. CASE ~NeedsReconciliation(Resolutions(facts, disp))
  <2>1. CASE truth = "lost"
    <3>1. outcome = "lost" \/ outcome = None
        BY <1>5, <2>1 DEF DerivedOutcome
    <3>2. QED
        BY <1>3, <3>1 DEF Outcomes
  <2>2. CASE truth = "unknown"
    <3>1. outcome = "indeterminate" \/ outcome = None
        BY <1>5, <2>2 DEF DerivedOutcome
    <3>2. QED
        BY <1>3, <3>1 DEF Outcomes
  <2>3. CASE truth \notin {"lost", "unknown"}
    <3>1. outcome = truth
        BY <1>5, <2>3 DEF DerivedOutcome
    <3>2. QED
        BY <1>2, <2>3, <3>1 DEF Outcomes, Truths
  <2>4. QED
      BY <2>1, <2>2, <2>3
<1>6. QED
    BY <1>4, <1>5

LEMMA ExecutionFacts ==
    ASSUME NEW facts, NEW disp
    PROVE  Resolutions(facts, disp)["execution"] \in Dispositions
BY DEF Resolutions, ExecutionDisposition, Dispositions

LEMMA RevalidateClosureStep ==
    ASSUME SettlementInv, NEW g \in Gateways, RevalidateClosure(g)
    PROVE  SettlementInv'
<1> DEFINE next == [call[g] EXCEPT !.step = "decide"]
<1>1. call[g] \in Call
    BY DEF SettlementInv, SettlementTypeOK
<1>2. /\ next \in Call /\ next.step = "decide"
      /\ next.runRev = call[g].runRev /\ next.attempt = call[g].attempt
    BY <1>1 DEF Call, Steps
<1>3. UNCHANGED <<source, effectVars, ownerVars, faults>>
    BY DEF RevalidateClosure
<1>4. Return(g) \/ Go(g, next)
    BY DEF RevalidateClosure
<1> HIDE DEF next
<1>5. CallOK(next)
    BY <1>2 DEF RevalidateClosure, At, SettlementInv, CallOK
<1>6. QED
    BY <1>2, <1>3, <1>4, <1>5, ReturnStep, CallStep, FaultsKept

LEMMA DeriveDecisionStep ==
    ASSUME SettlementInv, NEW g \in Gateways, DeriveDecision(g)
    PROVE  SettlementInv'
<1> DEFINE c == closures[call[g].attempt]
           found == EffectsDisposition(c.set.refs)
           resolutions == Resolutions(c.facts, found)
           d == [runRev    |-> call[g].runRev,
                 attempt   |-> call[g].attempt,
                 effects   |-> found,
                 execution |-> resolutions["execution"],
                 outcome   |-> DerivedOutcome(c.facts["execution"].says, resolutions)]
           items == [t \in Termination |-> c.facts[t].says]
           next == [call[g] EXCEPT !.step = "commit", !.decision = d, !.items = items]
<1>1. call[g] \in Call /\ call[g].attempt \in 1..Len(closures) /\ call[g].runRev = 3
    BY DEF DeriveDecision, At, SettlementInv, SettlementTypeOK, CallOK
<1>2. c \in Closure /\ c.set = index /\ Plausible(c.facts)
    BY <1>1 DEF SettlementInv, SettlementTypeOK, ClosuresOK
<1>3. index.refs \in SUBSET Effects /\ index.refs = {e \in Effects : effect[e] # "absent"}
    BY DEF SettlementInv, SettlementTypeOK, EffectIndex, EffectsIndexed
<1>4. found \in Dispositions \ {"not_required"} /\ (found = "satisfied" => \A e \in index.refs : Landed(e))
    BY <1>2, <1>3, DispositionFacts
<1>5. CASE /\ Settles(c.facts, found)
           /\ Go(g, next)
  <2>1. d.outcome \in Outcomes /\ d.execution \in Dispositions
      BY <1>2, <1>5, OutcomeFacts, ExecutionFacts
  <2>2. d \in Decision
      BY <1>1, <1>4, <2>1 DEF Decision, Call
  <2>3. items \in [Termination -> Dispositions]
      BY <1>2, SettlementAssumption DEF Plausible, Sources, Participants
  <2>4. next \in Call
      BY <1>1, <2>2, <2>3 DEF Call, Steps
  <2>5. next.step = "commit" /\ next.runRev = 3 /\ next.decision = d /\ next.items = items
      BY <1>1 DEF Call
  <2>6. d # None /\ items # None
      BY <2>2, <2>3, NoneAssumption
  <2>7. Sound(d)
      BY <1>1, <1>4 DEF Sound
  <2> HIDE DEF d, items, next
  <2>8. CallOK(next)
      BY <2>5, <2>6, <2>7 DEF DeriveDecision, At, SettlementInv, CallOK
  <2>9. QED
      BY <1>5, <2>4, <2>8, CallStep, FaultsKept DEF DeriveDecision
<1>6. CASE Return(g)
    BY <1>6, ReturnStep, FaultsKept DEF DeriveDecision
<1>7. QED
    BY <1>5, <1>6 DEF DeriveDecision

----------------------------------------------------------------------------
(* Steps that change what the calls rest on.                               *)

\* A gateway stops the run, or finds it stopped.
LEMMA BeginStopRunStep ==
    ASSUME SettlementInv, NEW g \in Gateways, BeginStopRun(g)
    PROVE  SettlementInv'
<1> DEFINE next == [call[g] EXCEPT !.step = "closure", !.runRev = @ + 1]
           stopping == [run EXCEPT !.status = "stopping", !.rev = call[g].runRev + 1]
<1>1. call[g] \in Call /\ call[g].runRev = 2 /\ run \in RunFact
    BY DEF BeginStopRun, At, SettlementInv, SettlementTypeOK, CallOK
<1>2. next \in Call /\ next.step = "closure" /\ next.runRev = 3
  <2>1. next = [call[g] EXCEPT !.step = "closure", !.runRev = 3]
      BY <1>1
  <2> HIDE DEF next
  <2>2. QED
      BY <1>1, <2>1 DEF Call, Steps
<1>3. next.step = "closure" /\ next.runRev = 3
    BY <1>2
<1>4. /\ stopping \in RunFact /\ stopping.status = "stopping" /\ stopping.rev = 3
      /\ stopping.outcome = run.outcome
  <2>1. stopping = [run EXCEPT !.status = "stopping", !.rev = 3]
      BY <1>1
  <2> HIDE DEF stopping
  <2>2. QED
      BY <1>1, <2>1 DEF RunFact
<1>5. CASE run.rev = call[g].runRev /\ run' = stopping /\ Go(g, next)
  <2> USE DEF SettlementInv
  <2>1. run.status = "running"
      BY <1>1, <1>5 DEF PhaseOK, RunFact
  <2>2. UNCHANGED <<source, effectVars, closures, decision, progress, report, faults>>
      BY DEF BeginStopRun
  <2> HIDE DEF next, stopping
  <2>3. SettlementTypeOK'
      BY <1>2, <1>4, <1>5, <2>2 DEF SettlementTypeOK, Go, effectVars
  <2>4. PhaseOK'
      BY <1>4, <1>5, <2>1, <2>2 DEF PhaseOK
  <2>5. EffectsIndexed' /\ ClosuresOK' /\ (\A s \in Sources : source[s].fact.says \in Answers[s])'
      BY <2>2 DEF EffectsIndexed, ClosuresOK, effectVars, Plausible
  <2>6. ASSUME NEW c, CallOK(c)
        PROVE  CallOK(c)'
      BY <1>4, <1>5, <2>1, <2>2, <2>6
      DEF CallOK, Sound, Landed, Plausible, effectVars
  <2>7. ASSUME NEW c, c = next
        PROVE  CallOK(c)'
      BY <1>3, <1>4, <1>5, <2>7 DEF CallOK
  <2>8. (\A h \in Gateways : CallOK(call[h]))'
      BY <1>5, <2>6, <2>7 DEF Go, SettlementTypeOK
  <2>9. decision' = None /\ report' = None
      BY <2>1, <2>2 DEF PhaseOK
  <2>10. QED
      BY <2>3, <2>4, <2>5, <2>8, <2>9 DEF ReportIsFinal
<1>6. CASE run = stopping /\ UNCHANGED run /\ Go(g, next)
  <2>1. CallOK(next)
      BY <1>3, <1>4, <1>6 DEF CallOK
  <2>2. QED
      BY <1>2, <1>6, <2>1, CallStep, FaultsKept DEF BeginStopRun, ownerVars
<1>7. CASE UNCHANGED run /\ Return(g)
    BY <1>7, ReturnStep, FaultsKept DEF BeginStopRun, ownerVars
<1>8. QED
    BY <1>5, <1>6, <1>7 DEF BeginStopRun

\* The effect set is frozen, when no attempt has been made.
LEMMA FreezeRunEffectSetStep ==
    ASSUME SettlementInv, NEW g \in Gateways, FreezeRunEffectSet(g)
    PROVE  SettlementInv'
<1> DEFINE next == [call[g] EXCEPT !.step = "inspect", !.seen = 0]
           frozen == [index EXCEPT !.frozen = TRUE, !.rev = @ + 1]
<1>1. call[g] \in Call /\ call[g].runRev = 3 /\ index \in EffectIndex /\ run.status # "running"
      /\ call[g].attempt > 0
    BY DEF FreezeRunEffectSet, At, SettlementInv, SettlementTypeOK, CallOK
<1>2. next \in Call
    BY <1>1 DEF Call, Steps
<1>3. next.step = "inspect" /\ next.runRev = 3 /\ next.attempt > 0
    BY <1>1 DEF Call
<1>4. frozen \in EffectIndex /\ frozen.frozen = TRUE /\ frozen.refs = index.refs
  <2>1. index.rev + 1 \in Nat
      BY <1>1 DEF EffectIndex
  <2>2. QED
      BY <1>1, <2>1 DEF EffectIndex
<1>5. CASE ~index.frozen /\ index' = frozen /\ Go(g, next)
  <2> USE DEF SettlementInv
  <2>1. UNCHANGED <<source, ownerVars, effect, creating, faults>>
      BY DEF FreezeRunEffectSet
  <2> HIDE DEF next, frozen
  <2>2. SettlementTypeOK'
      BY <1>2, <1>4, <1>5, <2>1 DEF SettlementTypeOK, Go, ownerVars
  <2>3. Len(closures) = 0 /\ decision = None
    <3>1. Len(closures) \in Nat
        BY DEF SettlementTypeOK
    <3>2. Len(closures) = 0
        BY <1>5, <3>1 DEF ClosuresOK
    <3>3. QED
        BY <3>2 DEF DecisionOK, Sound
  <2>4. PhaseOK' /\ EffectsIndexed' /\ ClosuresOK' /\ ReportIsFinal'
        /\ (\A s \in Sources : source[s].fact.says \in Answers[s])'
      BY <1>4, <1>5, <2>1, <2>3
      DEF PhaseOK, EffectsIndexed, ClosuresOK, ReportIsFinal, Open, ownerVars
  <2>5. ASSUME NEW c, CallOK(c)
        PROVE  CallOK(c)'
      BY <1>4, <1>5, <2>1, <2>3, <2>5
      DEF CallOK, Sound, Landed, Plausible, ownerVars
  <2>6. ASSUME NEW c, c = next
        PROVE  CallOK(c)'
      BY <1>1, <1>3, <1>4, <1>5, <2>1, <2>6 DEF CallOK, ownerVars
  <2>7. (\A h \in Gateways : CallOK(call[h]))'
      BY <1>5, <2>5, <2>6 DEF Go, SettlementTypeOK
  <2>8. QED
      BY <2>1, <2>2, <2>3, <2>4, <2>7 DEF ownerVars
<1>6. CASE index.frozen /\ UNCHANGED index /\ Go(g, next)
  <2>1. CallOK(next)
      BY <1>1, <1>3, <1>6 DEF CallOK
  <2>2. QED
      BY <1>2, <1>6, <2>1, CallStep, FaultsKept DEF FreezeRunEffectSet, effectVars
<1>7. CASE UNCHANGED index /\ Return(g)
    BY <1>7, ReturnStep, FaultsKept DEF FreezeRunEffectSet, effectVars
<1>8. QED
    BY <1>5, <1>6, <1>7 DEF FreezeRunEffectSet

\* An attempt is appended to the chain of a run that has no decision.
LEMMA CreateClosureAttemptStep ==
    ASSUME SettlementInv, NEW g \in Gateways, CreateClosureAttempt(g)
    PROVE  SettlementInv'
<1> DEFINE next == Derive(g)
           draft == Draft(g)
<1>1. /\ call[g] \in Call /\ call[g].runRev = 3 /\ index.frozen /\ run.status # "running"
      /\ call[g].facts # None /\ Plausible(call[g].facts)
      /\ index \in EffectIndex /\ closures \in Seq(Closure)
    BY DEF CreateClosureAttempt, At, SettlementInv, SettlementTypeOK, CallOK
<1>2. next \in Call
    BY <1>1 DEF Call, Steps, Derive
<1>3. next.step = "derive" /\ next.runRev = 3 /\ next.attempt = call[g].attempt
    BY <1>1 DEF Call, Derive
<1>4. /\ draft \in Closure
      /\ draft.runRev = 3 /\ draft.set = index /\ draft.facts = call[g].facts
    BY <1>1 DEF Draft, Closure, Call
<1> HIDE DEF next, draft
<1>5. CASE ExtendsChain(g) /\ closures' = Append(closures, draft) /\ Go(g, next)
  <2> USE DEF SettlementInv
  <2>1. UNCHANGED <<source, effectVars, run, decision, progress, report, faults>>
      BY DEF CreateClosureAttempt
  <2>2. /\ closures' \in Seq(Closure) /\ Len(closures') = Len(closures) + 1
        /\ \A i \in 1..Len(closures) : closures'[i] = closures[i]
        /\ closures'[Len(closures')] = draft
        /\ Len(closures) \in Nat
      BY <1>1, <1>4, <1>5
  <2>3. SettlementTypeOK'
      BY <1>2, <1>5, <2>1, <2>2 DEF SettlementTypeOK, Go, effectVars
  <2>4. decision = None /\ next.attempt = Len(closures')
      BY <1>3, <1>5, <2>2 DEF ExtendsChain
  <2>5. PhaseOK' /\ EffectsIndexed' /\ ReportIsFinal'
        /\ (\A s \in Sources : source[s].fact.says \in Answers[s])'
      BY <2>1 DEF PhaseOK, EffectsIndexed, ReportIsFinal, Open, effectVars
  <2>6. ClosuresOK'
    <3>1. ASSUME NEW i \in 1..Len(closures')
          PROVE  /\ closures'[i].runRev = 3 /\ closures'[i].set = index
                 /\ Plausible(closures'[i].facts)
      <4>1. CASE i \in 1..Len(closures)
          BY <2>2, <4>1 DEF ClosuresOK
      <4>2. CASE i = Len(closures')
          BY <1>1, <1>4, <2>2, <4>2
      <4>3. QED
          BY <2>2, <3>1, <4>1, <4>2
    <3>2. QED
        BY <1>1, <2>1, <3>1 DEF ClosuresOK, Plausible, effectVars
  <2>7. ASSUME NEW c, CallOK(c)
        PROVE  CallOK(c)'
      BY <2>1, <2>2, <2>7 DEF CallOK, Sound, Landed, Plausible, effectVars
  <2>8. ASSUME NEW c, c = next
        PROVE  CallOK(c)'
      BY <1>1, <1>3, <2>1, <2>2, <2>4, <2>8 DEF CallOK, effectVars
  <2>9. (\A h \in Gateways : CallOK(call[h]))'
      BY <1>5, <2>7, <2>8 DEF Go, SettlementTypeOK
  <2>10. QED
      BY <2>1, <2>3, <2>4, <2>5, <2>6, <2>9
<1>6. CASE call[g].attempt <= Len(closures) /\ closures[call[g].attempt] = draft
           /\ UNCHANGED closures /\ Go(g, next)
  <2>1. call[g].attempt \in 1..Len(closures)
    <3>1. call[g].attempt # 0
        BY <1>1 DEF CreateClosureAttempt, At, SettlementInv, CallOK, Call
    <3>2. QED
        BY <1>1, <1>6, <3>1 DEF Call
  <2>2. CallOK(next)
      BY <1>1, <1>3, <2>1 DEF CallOK
  <2>3. QED
      BY <1>2, <1>6, <2>2, CallStep, FaultsKept DEF CreateClosureAttempt, ownerVars
<1>7. CASE UNCHANGED closures /\ Return(g)
    BY <1>7, ReturnStep, FaultsKept DEF CreateClosureAttempt, ownerVars
<1>8. QED
    BY <1>5, <1>6, <1>7 DEF CreateClosureAttempt, next, draft

\* The run ends: the decision rests on the current attempt and on effects and
\* participants that ended as it says.
LEMMA CommitRunCompletionStep ==
    ASSUME SettlementInv, NEW g \in Gateways, CommitRunCompletion(g)
    PROVE  SettlementInv'
<1> DEFINE d == call[g].decision
           first == [rev |-> 1, items |-> call[g].items]
           ended == [status |-> "terminal", rev |-> run.rev + 1, outcome |-> d.outcome]
<1>1. /\ call[g] \in Call /\ run \in RunFact
      /\ d # None /\ call[g].items # None /\ Sound(d)
    BY DEF CommitRunCompletion, At, SettlementInv, SettlementTypeOK, CallOK
<1>2. d \in Decision /\ call[g].items \in [Termination -> Dispositions]
    BY <1>1 DEF Call
<1>3. first \in Progress /\ first.rev = 1
    BY <1>2 DEF Progress
<1>4. ended \in RunFact
    BY <1>1, <1>2 DEF RunFact, Decision
<1>5. UNCHANGED <<source, effectVars, closures, report, faults>> /\ Return(g)
    BY DEF CommitRunCompletion
<1>6. CASE DecisionStands(d) /\ decision' = d /\ run' = ended /\ progress' = first
  <2> USE DEF SettlementInv
  <2>1. /\ run.status = "stopping" /\ run.rev = 3 /\ d.attempt = Len(closures)
        /\ report = None
      BY <1>6 DEF DecisionStands, PhaseOK
  <2>2. run'.status = "terminal" /\ run'.rev = 4 /\ run'.outcome = d.outcome
      BY <1>6, <2>1
  <2>3. first # None
      BY <1>3, NoneAssumption
  <2>4. d.outcome # "needs_reconciliation" =>
            /\ d.effects = "satisfied"
            /\ \A p \in Completion :
                  closures[d.attempt].facts[p].says \in {"satisfied", "not_required"}
    <3> DEFINE c == closures[d.attempt]
               resolutions == [Resolutions(c.facts, d.effects) EXCEPT !["execution"] = d.execution]
    <3>1. SUFFICES ASSUME d.outcome # "needs_reconciliation"
                   PROVE  /\ d.effects = "satisfied"
                          /\ \A p \in Completion : c.facts[p].says \in {"satisfied", "not_required"}
        OBVIOUS
    <3>2. Plausible(c.facts)
        BY <1>1 DEF Sound, ClosuresOK
    <3>3. ~NeedsReconciliation(resolutions)
        BY <1>6, <3>1 DEF DecisionStands, OwnerOutcome
    <3>4. /\ resolutions["effects"] = d.effects
          /\ \A p \in Completion : resolutions[p] = c.facts[p].says
          /\ DOMAIN resolutions = Completion \cup {"execution", "effects"}
        BY SettlementAssumption DEF Resolutions, Participants
    <3> HIDE DEF resolutions, c, d
    <3>5. \A r \in Completion \cup {"effects"} :
              resolutions[r] \notin {"unknown", "failed", "not_applied"}
        BY <3>3, <3>4, SettlementAssumption DEF NeedsReconciliation, Participants
    <3>6. d.effects = "satisfied"
        BY <1>1, <1>2, <3>4, <3>5 DEF Sound, Decision, Dispositions
    <3>7. ASSUME NEW p \in Completion
          PROVE  c.facts[p].says \in {"satisfied", "not_required"}
      <4>1. c.facts[p].says \in Dispositions
          BY <3>2, SettlementAssumption DEF Plausible, Sources, Participants
      <4>2. QED
          BY <3>4, <3>5, <4>1 DEF Dispositions
    <3>8. QED
        BY <3>6, <3>7
  <2> HIDE DEF d, first, ended
  <2>5. SettlementTypeOK'
      BY <1>2, <1>3, <1>4, <1>5, <1>6, IdleOK DEF SettlementTypeOK, Return, Go, effectVars
  <2>6. PhaseOK'
      BY <1>1, <1>6, <2>2, <2>3 DEF PhaseOK
  <2>7. EffectsIndexed' /\ ClosuresOK' /\ ReportIsFinal'
        /\ (\A s \in Sources : source[s].fact.says \in Answers[s])'
      BY <1>5, <2>1 DEF EffectsIndexed, ClosuresOK, Plausible, ReportIsFinal, effectVars
  <2>8. ASSUME NEW c, CallOK(c)
        PROVE  CallOK(c)'
      BY <1>5, <2>1, <2>2, <2>8 DEF CallOK, Sound, Landed, Plausible, effectVars
  <2>9. (\A h \in Gateways : CallOK(call[h]))'
      BY <1>5, <2>8, IdleOK DEF Return, Go, SettlementTypeOK
  <2>10. DecisionOK(decision)' /\ run'.outcome = decision'.outcome
      BY <1>1, <1>5, <1>6, <2>1, <2>2, <2>4 DEF DecisionOK, Sound, Landed, effectVars
  <2>11. QED
      BY <2>5, <2>6, <2>7, <2>9, <2>10
<1>7. CASE UNCHANGED <<run, decision, progress>>
    BY <1>5, <1>7, ReturnStep, FaultsKept DEF ownerVars
<1>8. QED
    BY <1>6, <1>7 DEF CommitRunCompletion

----------------------------------------------------------------------------
(* After the run ended.                                                    *)

\* The progress and the decision of a run that ended.
LEMMA EndedFacts ==
    ASSUME SettlementInv, run.status = "terminal"
    PROVE  progress \in Progress /\ progress # None /\ decision \in Decision /\ decision # None
BY DEF SettlementInv, SettlementTypeOK, PhaseOK

LEMMA ReconcileTerminationStep ==
    ASSUME SettlementInv, NEW g \in Gateways, ReconcileTermination(g)
    PROVE  SettlementInv'
<1> DEFINE items == [t \in Termination |-> IF t \in Open THEN source[t].fact.says
                                           ELSE progress.items[t]]
           told == [Idle EXCEPT !.step = "report"]
           next == [Idle EXCEPT !.step = "progress", !.seen = progress.rev, !.items = items]
<1>1. run.status = "terminal" /\ progress \in Progress
    BY EndedFacts DEF ReconcileTermination
<1>2. items \in [Termination -> Dispositions]
  <2>1. \A t \in Termination : source[t].fact.says \in Dispositions
      BY SettlementAssumption DEF SettlementInv, Sources, Participants
  <2>2. progress.items \in [Termination -> Dispositions]
      BY <1>1 DEF Progress
  <2>3. QED
      BY <2>1, <2>2
<1>3. items # None
    BY <1>2, NoneAssumption
<1>4. told \in Call /\ told.step = "report"
    BY IdleOK DEF Call, Steps
<1> HIDE DEF items
<1>5. /\ next \in Call /\ next.step = "progress"
      /\ next.seen = progress.rev /\ next.items = items
    BY <1>1, <1>2, IdleOK DEF Call, Steps, Progress
<1>6. UNCHANGED <<source, effectVars, ownerVars, faults>>
    BY DEF ReconcileTermination
<1>7. Return(g) \/ Go(g, told) \/ (items # progress.items /\ Go(g, next))
    BY DEF ReconcileTermination, items, Return
<1> HIDE DEF next, told
<1>8. CASE Return(g)
    BY <1>6, <1>8, ReturnStep, FaultsKept
<1>9. CASE Go(g, told)
  <2>1. CallOK(told)
      BY <1>1, <1>4 DEF CallOK
  <2>2. QED
      BY <1>4, <1>6, <1>9, <2>1, CallStep, FaultsKept
<1>10. CASE items # progress.items /\ Go(g, next)
  <2>1. progress.rev \in Nat
      BY <1>1 DEF Progress
  <2>2. CallOK(next)
      BY <1>1, <1>3, <1>5, <1>10, <2>1 DEF CallOK
  <2>3. QED
      BY <1>5, <1>6, <1>10, <2>2, CallStep, FaultsKept
<1>11. QED
    BY <1>7, <1>8, <1>9, <1>10

LEMMA BuildReportStep ==
    ASSUME SettlementInv, NEW g \in Gateways, BuildReport(g)
    PROVE  SettlementInv'
<1> DEFINE next == [Idle EXCEPT !.step = "file", !.seen = progress.rev,
                                !.items = progress.items]
<1>1. run.status = "terminal"
    BY DEF BuildReport, At, SettlementInv, CallOK
<1>2. progress \in Progress
    BY <1>1, EndedFacts
<1>3. next \in Call /\ next.step = "file"
    BY <1>2, IdleOK DEF Call, Steps, Progress
<1>4. UNCHANGED <<source, effectVars, ownerVars, faults>>
    BY DEF BuildReport
<1>5. Return(g) \/ Go(g, next)
    BY DEF BuildReport
<1> HIDE DEF next
<1>6. CallOK(next)
    BY <1>1, <1>3 DEF CallOK
<1>7. QED
    BY <1>3, <1>4, <1>5, <1>6, ReturnStep, CallStep, FaultsKept

\* A swap that succeeds resolves an item that was open: after the report there
\* is none.
LEMMA SwapProgressStep ==
    ASSUME SettlementInv, NEW g \in Gateways, SwapProgress(g)
    PROVE  SettlementInv'
<1> DEFINE next == [Idle EXCEPT !.step = "report"]
           swapped == [rev |-> progress.rev + 1, items |-> call[g].items]
<1>1. /\ call[g] \in Call /\ run.status = "terminal" /\ call[g].items # None
      /\ call[g].seen = progress.rev => call[g].items # progress.items
    BY DEF SwapProgress, At, SettlementInv, SettlementTypeOK, CallOK
<1>2. progress \in Progress
    BY <1>1, EndedFacts
<1>3. call[g].items \in [Termination -> Dispositions]
    BY <1>1 DEF Call
<1>4. next \in Call /\ next.step = "report"
    BY IdleOK DEF Call, Steps
<1>5. /\ swapped \in Progress /\ swapped.rev = progress.rev + 1 /\ progress.rev \in Nat
      /\ swapped # None
  <2>1. progress.rev + 1 \in Nat /\ progress.rev \in Nat
      BY <1>2 DEF Progress
  <2>2. swapped \in Progress
      BY <1>3, <2>1 DEF Progress
  <2>3. QED
      BY <2>1, <2>2, NoneAssumption
<1> HIDE DEF next, swapped
<1>6. CASE SwapsProgress(g, TRUE) /\ progress' = swapped /\ Go(g, next)
  <2> USE DEF SettlementInv
  <2>1. UNCHANGED <<source, effectVars, run, closures, decision, report, faults>>
      BY DEF SwapProgress
  <2>2. report = None
    <3>1. SUFFICES ASSUME Open = {} PROVE FALSE
        BY DEF ReportIsFinal
    <3>2. \A t \in Termination : progress.items[t] # "unknown"
        BY <3>1 DEF Open
    <3>3. \A t \in Termination : call[g].items[t] = progress.items[t]
        BY <1>6, <3>2 DEF SwapsProgress, ProgressAdvances
    <3>4. progress.items \in [Termination -> Dispositions]
        BY <1>2 DEF Progress
    <3>5. call[g].items = progress.items
        BY <1>3, <3>3, <3>4
    <3>6. QED
        BY <1>1, <1>6, <3>5 DEF SwapsProgress
  <2>3. SettlementTypeOK'
      BY <1>4, <1>5, <1>6, <2>1 DEF SettlementTypeOK, Go, effectVars
  <2>4. PhaseOK' /\ EffectsIndexed' /\ ClosuresOK' /\ ReportIsFinal'
        /\ (\A s \in Sources : source[s].fact.says \in Answers[s])'
      BY <1>1, <1>5, <1>6, <2>1, <2>2
      DEF PhaseOK, EffectsIndexed, ClosuresOK, Plausible, ReportIsFinal, effectVars
  <2>5. ASSUME NEW c \in Call, CallOK(c)
        PROVE  CallOK(c)'
    <3>1. c.step = "progress" => c.seen <= progress.rev /\ c.seen \in Nat
        BY <2>5 DEF CallOK, Call
    <3>2. c.step = "progress" => c.seen <= progress'.rev /\ c.seen # progress'.rev
        BY <1>5, <1>6, <3>1
    <3>3. QED
        BY <2>1, <2>5, <3>2 DEF CallOK, Sound, Landed, Plausible, effectVars
  <2>6. ASSUME NEW c, c = next
        PROVE  CallOK(c)'
      BY <1>1, <1>4, <2>1, <2>6 DEF CallOK
  <2>7. (\A h \in Gateways : CallOK(call[h]))'
      BY <1>6, <2>5, <2>6 DEF Go, SettlementTypeOK
  <2>8. (decision # None => DecisionOK(decision) /\ run.outcome = decision.outcome)'
      BY <2>1 DEF DecisionOK, Sound, Landed, effectVars
  <2>9. QED
      BY <2>3, <2>4, <2>7, <2>8
<1>7. CASE UNCHANGED progress /\ Return(g)
    BY <1>7, ReturnStep, FaultsKept DEF SwapProgress, ownerVars
<1>8. CASE UNCHANGED progress /\ Go(g, next)
  <2>1. UNCHANGED <<source, effectVars, ownerVars, faults>>
      BY <1>8 DEF SwapProgress, ownerVars
  <2>2. CallOK(next)
      BY <1>1, <1>4 DEF CallOK
  <2>3. QED
      BY <1>4, <1>8, <2>1, <2>2, CallStep, FaultsKept
<1>9. ASSUME NEW onTime \in BOOLEAN, SwapsProgress(g, onTime)
      PROVE  SwapsProgress(g, TRUE)
    BY <1>9 DEF SwapsProgress, ProgressAdvances
<1>10. QED
    BY <1>6, <1>7, <1>8, <1>9 DEF SwapProgress, next, swapped

LEMMA FileReportStep ==
    ASSUME SettlementInv, NEW g \in Gateways, FileReport(g)
    PROVE  SettlementInv'
<1> DEFINE filed == [outcome |-> run.outcome, rev |-> progress.rev, items |-> progress.items]
<1>1. run.status = "terminal"
    BY DEF FileReport, At, SettlementInv, CallOK
<1>2. progress \in Progress /\ decision \in Decision /\ run.outcome = decision.outcome
    BY <1>1, EndedFacts DEF SettlementInv
<1>3. filed \in Report
    BY <1>2 DEF Report, Progress, Decision
<1>4. /\ UNCHANGED <<source, effectVars, run, closures, decision, progress, faults>>
      /\ Return(g)
    BY DEF FileReport
<1>5. CASE Open = {} /\ report' = filed
  <2> USE DEF SettlementInv
  <2>1. SettlementTypeOK'
      BY <1>3, <1>4, <1>5, IdleOK DEF SettlementTypeOK, Return, Go, effectVars
  <2>2. PhaseOK' /\ EffectsIndexed' /\ ClosuresOK'
        /\ (\A s \in Sources : source[s].fact.says \in Answers[s])'
      BY <1>1, <1>4 DEF PhaseOK, EffectsIndexed, ClosuresOK, Plausible, effectVars
  <2>3. ReportIsFinal'
    <3>1. Open' = {}
        BY <1>4, <1>5 DEF Open
    <3>2. report'.outcome = run.outcome /\ report'.rev = progress.rev
          /\ report'.items = progress.items
        BY <1>5
    <3>3. QED
        BY <1>4, <3>1, <3>2 DEF ReportIsFinal
  <2>4. ASSUME NEW c, CallOK(c)
        PROVE  CallOK(c)'
      BY <1>4, <2>4 DEF CallOK, Sound, Landed, Plausible, effectVars
  <2>5. (\A h \in Gateways : CallOK(call[h]))'
      BY <1>4, <2>4, IdleOK DEF Return, Go, SettlementTypeOK
  <2>6. (decision # None => DecisionOK(decision) /\ run.outcome = decision.outcome)'
      BY <1>4 DEF DecisionOK, Sound, Landed, effectVars
  <2>7. QED
      BY <2>1, <2>2, <2>3, <2>5, <2>6
<1>6. CASE UNCHANGED report
    BY <1>4, <1>6, ReturnStep, FaultsKept DEF ownerVars
<1>7. QED
    BY <1>5, <1>6 DEF FileReport

LEMMA FailStep ==
    ASSUME SettlementInv, NEW g \in Gateways, Fail(g)
    PROVE  SettlementInv'
<1>1. faults' \in 0..MaxFaults
    BY SettlementAssumption DEF Fail, SettlementInv, SettlementTypeOK
<1>2. QED
    BY <1>1, ReturnStep DEF Fail

----------------------------------------------------------------------------
(* The effects and the facts of others.                                    *)

LEMMA CheckRunForEffectStep ==
    ASSUME SettlementInv, NEW e \in Effects, CheckRunForEffect(e)
    PROVE  SettlementInv'
<1> USE DEF SettlementInv
<1>1. UNCHANGED <<source, ownerVars, effect, index, call, faults>>
    BY DEF CheckRunForEffect
<1>2. SettlementTypeOK'
    BY <1>1 DEF CheckRunForEffect, SettlementTypeOK, EffectIndex, ownerVars
<1>3. PhaseOK' /\ EffectsIndexed' /\ ClosuresOK' /\ ReportIsFinal'
      /\ (\A s \in Sources : source[s].fact.says \in Answers[s])'
    BY <1>1 DEF PhaseOK, EffectsIndexed, ClosuresOK, Plausible, ReportIsFinal, Open, ownerVars
<1>4. (\A h \in Gateways : CallOK(call[h]))'
    BY <1>1 DEF CallOK, Sound, Landed, Plausible, ownerVars
<1>5. (decision # None => DecisionOK(decision) /\ run.outcome = decision.outcome)'
    BY <1>1 DEF DecisionOK, Sound, Landed, ownerVars
<1>6. QED
    BY <1>2, <1>3, <1>4, <1>5

\* The index grows only while it is open, and then there is no attempt yet.
LEMMA CreateEffectForRunStep ==
    ASSUME SettlementInv, NEW e \in Effects, CreateEffectForRun(e)
    PROVE  SettlementInv'
<1> USE DEF SettlementInv
<1> DEFINE grown == [index EXCEPT !.rev = @ + 1, !.refs = @ \cup {e}]
<1>1. UNCHANGED <<source, ownerVars, call, faults>>
    BY DEF CreateEffectForRun
<1>2. creating' \in [Effects -> Nat] /\ index \in EffectIndex /\ effect \in [Effects -> EffectStates]
    BY DEF CreateEffectForRun, SettlementTypeOK
<1>3. CASE ~index.frozen /\ effect' = [effect EXCEPT ![e] = "open"] /\ index' = grown
  <2>1. /\ grown \in EffectIndex /\ grown.frozen = index.frozen
        /\ grown.refs = index.refs \cup {e}
    <3>1. index.rev + 1 \in Nat /\ index.refs \cup {e} \in SUBSET Effects
        BY <1>2 DEF EffectIndex
    <3>2. QED
        BY <1>2, <3>1 DEF EffectIndex
  <2> HIDE DEF grown
  <2>2. effect' \in [Effects -> EffectStates]
      BY <1>2, <1>3 DEF EffectStates
  <2>3. SettlementTypeOK'
      BY <1>1, <1>2, <1>3, <2>1, <2>2 DEF SettlementTypeOK, ownerVars
  <2>4. Len(closures) = 0 /\ decision = None
    <3>1. Len(closures) \in Nat
        BY DEF SettlementTypeOK
    <3>2. Len(closures) = 0
        BY <1>3, <3>1 DEF ClosuresOK
    <3>3. QED
        BY <3>2 DEF DecisionOK, Sound
  <2>5. EffectsIndexed'
      BY <1>2, <1>3, <2>1 DEF EffectsIndexed
  <2>6. PhaseOK' /\ ClosuresOK' /\ ReportIsFinal'
        /\ (\A s \in Sources : source[s].fact.says \in Answers[s])'
      BY <1>1, <1>3, <2>1, <2>4 DEF PhaseOK, ClosuresOK, ReportIsFinal, Open, ownerVars
  <2>7. (\A h \in Gateways : CallOK(call[h]))'
      BY <1>1, <1>3, <2>1, <2>4 DEF CallOK, Plausible, ownerVars
  <2>8. QED
      BY <1>1, <2>3, <2>4, <2>5, <2>6, <2>7 DEF ownerVars
<1>4. CASE UNCHANGED <<effect, index>>
  <2>1. SettlementTypeOK'
      BY <1>1, <1>2, <1>4 DEF SettlementTypeOK, ownerVars
  <2>2. PhaseOK' /\ EffectsIndexed' /\ ClosuresOK' /\ ReportIsFinal'
        /\ (\A s \in Sources : source[s].fact.says \in Answers[s])'
      BY <1>1, <1>4
      DEF PhaseOK, EffectsIndexed, ClosuresOK, Plausible, ReportIsFinal, Open, ownerVars
  <2>3. (\A h \in Gateways : CallOK(call[h]))'
      BY <1>1, <1>4 DEF CallOK, Sound, Landed, Plausible, ownerVars
  <2>4. (decision # None => DecisionOK(decision) /\ run.outcome = decision.outcome)'
      BY <1>1, <1>4 DEF DecisionOK, Sound, Landed, ownerVars
  <2>5. QED
      BY <2>1, <2>2, <2>3, <2>4
<1>5. QED
    BY <1>3, <1>4 DEF CreateEffectForRun, IndexTakes

\* An effect that landed stays so.
LEMMA ConcludeEffectStep ==
    ASSUME SettlementInv, NEW e \in Effects, ConcludeEffect(e)
    PROVE  SettlementInv'
<1> USE DEF SettlementInv
<1>1. UNCHANGED <<source, ownerVars, creating, index, call, faults>>
    BY DEF ConcludeEffect
<1>2. PICK next \in Conclusions(effect[e]) : effect' = [effect EXCEPT ![e] = next]
    BY DEF ConcludeEffect
<1>3. effect \in [Effects -> EffectStates]
    BY DEF SettlementTypeOK
<1>4. /\ next \in EffectStates \ {"absent"} /\ effect[e] # "absent"
      /\ Landed(e) => next = "compensated"
    BY <1>2, <1>3, SettlementAssumption DEF Conclusions, EffectStates, Landed
<1>5. SettlementTypeOK'
    BY <1>1, <1>2, <1>3, <1>4 DEF SettlementTypeOK, ownerVars
<1>6. EffectsIndexed'
    BY <1>1, <1>2, <1>3, <1>4 DEF EffectsIndexed
<1>7. \A f \in Effects : Landed(f) => Landed(f)'
    BY <1>2, <1>3, <1>4 DEF Landed
<1>8. ASSUME NEW d, Sound(d)
      PROVE  Sound(d)'
    <2>1. index.refs \in SUBSET Effects
        BY DEF SettlementTypeOK, EffectIndex
    <2>2. QED
        BY <1>1, <1>7, <1>8, <2>1 DEF Sound, ownerVars
<1>9. PhaseOK' /\ ClosuresOK' /\ ReportIsFinal'
      /\ (\A s \in Sources : source[s].fact.says \in Answers[s])'
    BY <1>1 DEF PhaseOK, ClosuresOK, Plausible, ReportIsFinal, Open, ownerVars
<1>10. (\A h \in Gateways : CallOK(call[h]))'
    BY <1>1, <1>8 DEF CallOK, Plausible, ownerVars
<1>11. (decision # None => DecisionOK(decision) /\ run.outcome = decision.outcome)'
    BY <1>1, <1>8 DEF DecisionOK, ownerVars
<1>12. QED
    BY <1>5, <1>6, <1>9, <1>10, <1>11

\* No part of the invariant but the type looks at what the sources say now.
LEMMA SourceStep ==
    ASSUME SettlementInv, UNCHANGED <<effectVars, ownerVars, call, faults>>,
           source' \in [Sources -> SourceFact],
           \A s \in Sources : source'[s].fact.says \in Answers[s]
    PROVE  SettlementInv'
<1> USE DEF SettlementInv, effectVars, ownerVars
<1>1. SettlementTypeOK'
    BY DEF SettlementTypeOK
<1>2. PhaseOK' /\ EffectsIndexed' /\ ClosuresOK' /\ ReportIsFinal'
    BY DEF PhaseOK, EffectsIndexed, ClosuresOK, Plausible, ReportIsFinal, Open
<1>3. (\A h \in Gateways : CallOK(call[h]))'
    BY DEF CallOK, Sound, Landed, Plausible
<1>4. (decision # None => DecisionOK(decision) /\ run.outcome = decision.outcome)'
    BY DEF DecisionOK, Sound, Landed
<1>5. QED
    BY <1>1, <1>2, <1>3, <1>4

LEMMA ReviseFactStep ==
    ASSUME SettlementInv, NEW s \in Sources, ReviseFact(s)
    PROVE  SettlementInv'
<1>1. PICK v \in Answers[s] :
        source' = [source EXCEPT ![s] = [fact |-> [says |-> v, rev |-> @.fact.rev + 1],
                                         live |-> TRUE]]
    BY DEF ReviseFact
<1>2. source \in [Sources -> SourceFact] /\ v \in Dispositions \cup Truths
    BY SettlementAssumption DEF SettlementInv, SettlementTypeOK
<1> DEFINE new == [fact |-> [says |-> v, rev |-> source[s].fact.rev + 1], live |-> TRUE]
<1>3. new \in SourceFact /\ new.fact.says = v
  <2>1. source[s].fact.rev + 1 \in Nat
      BY <1>2 DEF SourceFact, Fact
  <2>2. QED
      BY <1>2, <2>1 DEF SourceFact, Fact
<1>4. source' = [source EXCEPT ![s] = new]
    BY <1>1
<1> HIDE DEF new
<1>5. /\ source' \in [Sources -> SourceFact]
      /\ \A r \in Sources : source'[r].fact.says \in Answers[r]
    BY <1>2, <1>3, <1>4 DEF SettlementInv
<1>6. QED
    BY <1>5, SourceStep DEF ReviseFact

LEMMA ExpireFactStep ==
    ASSUME SettlementInv, NEW s \in Sources, ExpireFact(s)
    PROVE  SettlementInv'
<1>1. source \in [Sources -> SourceFact]
    BY DEF SettlementInv, SettlementTypeOK
<1>2. source' \in [Sources -> SourceFact]
    BY <1>1 DEF ExpireFact, SourceFact
<1>3. \A r \in Sources : source'[r].fact = source[r].fact
    BY <1>1 DEF ExpireFact, SourceFact
<1>4. QED
    BY <1>2, <1>3, SourceStep DEF ExpireFact, SettlementInv

----------------------------------------------------------------------------
(* The theorems.                                                           *)

LEMMA InitInv == SettlementInit => SettlementInv
<1> SUFFICES ASSUME SettlementInit PROVE SettlementInv
    OBVIOUS
<1> USE DEF SettlementInit
<1>1. PICK v \in [Sources -> Dispositions \cup Truths] :
        /\ \A s \in Sources : v[s] \in Answers[s]
        /\ source = [s \in Sources |-> [fact |-> [says |-> v[s], rev |-> 1], live |-> TRUE]]
    OBVIOUS
<1>2. source \in [Sources -> SourceFact] /\ \A s \in Sources : source[s].fact.says \in Answers[s]
    BY <1>1 DEF SourceFact, Fact
<1>3. run \in RunFact /\ index \in EffectIndex /\ effect \in [Effects -> EffectStates]
    BY DEF RunFact, EffectIndex, EffectStates
<1>4. SettlementTypeOK
    BY <1>2, <1>3, IdleOK, SettlementAssumption DEF SettlementTypeOK
<1>5. PhaseOK /\ EffectsIndexed /\ ClosuresOK /\ ReportIsFinal
    BY DEF PhaseOK, EffectsIndexed, ClosuresOK, ReportIsFinal
<1>6. \A g \in Gateways : CallOK(call[g])
    BY IdleOK
<1>7. QED
    BY <1>2, <1>4, <1>5, <1>6 DEF SettlementInv

LEMMA StepInv == SettlementInv /\ [SettlementNext]_settlementVars => SettlementInv'
<1> SUFFICES ASSUME SettlementInv, [SettlementNext]_settlementVars
             PROVE  SettlementInv'
    OBVIOUS
<1>1. CASE UNCHANGED settlementVars
  <2>1. UNCHANGED <<source, effectVars, ownerVars, call, faults>>
      BY <1>1 DEF settlementVars, effectVars, ownerVars
  <2>2. QED
      BY <2>1, SourceStep DEF SettlementInv, SettlementTypeOK
<1>2. CASE \E g \in Gateways : StopAndSettleRun(g) \/ Settle(g) \/ Terminate(g) \/ Fail(g)
  <2>1. PICK g \in Gateways : StopAndSettleRun(g) \/ Settle(g) \/ Terminate(g) \/ Fail(g)
      BY <1>2
  <2>2. CASE StopAndSettleRun(g)
      BY <2>2, StopAndSettleRunStep
  <2>3. CASE Settle(g)
      BY <2>3, BeginStopRunStep, InspectClosureStep, FreezeRunEffectSetStep,
         InspectSourcesStep, CreateClosureAttemptStep, RevalidateClosureStep, DeriveDecisionStep,
         CommitRunCompletionStep DEF Settle
  <2>4. CASE Terminate(g)
      BY <2>4, ReconcileTerminationStep, SwapProgressStep, BuildReportStep,
         FileReportStep DEF Terminate
  <2>5. CASE Fail(g)
      BY <2>5, FailStep
  <2>6. QED
      BY <2>1, <2>2, <2>3, <2>4, <2>5
<1>3. CASE Environment
    BY <1>3, CheckRunForEffectStep, CreateEffectForRunStep, ConcludeEffectStep,
       ReviseFactStep, ExpireFactStep DEF Environment
<1>4. QED
    BY <1>1, <1>2, <1>3 DEF SettlementNext

\* The settlement of a run keeps SettlementInv: run, decision and progress move
\* together, attempts bind the frozen effect set, and every call in progress
\* knows of the stores what it goes on to use.
THEOREM SettlementInvariant == SettlementSpec => []SettlementInv
BY InitInv, StepInv, PTL DEF SettlementSpec

\* The fact owner's state, the effect index and the calls keep their types.
THEOREM SettlementTypes == SettlementSpec => []SettlementTypeOK
<1>1. SettlementInv => SettlementTypeOK
    BY DEF SettlementInv
<1>2. QED
    BY <1>1, SettlementInvariant, PTL

\* Whichever gateways race, a terminal run has its decision on the current
\* attempt, its outcome and its progress, and no later revision.
THEOREM CompletionStaysWhole == SettlementSpec => []CompletionIsWhole
<1>1. SettlementInv => CompletionIsWhole
  <2> SUFFICES ASSUME SettlementInv PROVE CompletionIsWhole
      OBVIOUS
  <2>1. (run.status = "terminal" <=> decision # None) /\ (run.status = "terminal" <=> progress # None)
      BY DEF SettlementInv, PhaseOK
  <2>2. ASSUME decision # None
        PROVE  CommittedIsWhole /\ run.rev = decision.runRev + 1
      BY <2>1, <2>2 DEF SettlementInv, PhaseOK, DecisionOK, Sound, CommittedIsWhole
  <2>3. QED
      BY <2>1, <2>2 DEF CompletionIsWhole
<1>2. QED
    BY <1>1, SettlementInvariant, PTL

\* A run that ended without needing reconciliation left no effect behind that
\* did not land, and its completion participants ended well.
THEOREM CleanEndings == SettlementSpec => []CleanEndingIsClean
<1>1. SettlementInv => CleanEndingIsClean
  <2> SUFFICES ASSUME SettlementInv, run.outcome \notin {None, "needs_reconciliation"}
               PROVE  /\ \A e \in Effects : effect[e] \in {"absent", "applied", "compensated"}
                      /\ \A p \in Completion : closures[decision.attempt].facts[p].says
                                                  \in {"satisfied", "not_required"}
      BY DEF CleanEndingIsClean
  <2>1. decision # None
      BY DEF SettlementInv, PhaseOK
  <2>2. DecisionOK(decision) /\ decision.outcome # "needs_reconciliation"
      BY <2>1 DEF SettlementInv
  <2>3. \A e \in index.refs : Landed(e)
      BY <2>2 DEF DecisionOK, Sound
  <2>4. \A e \in Effects : effect[e] # "absent" => e \in index.refs
      BY DEF SettlementInv, EffectsIndexed
  <2>5. QED
      BY <2>2, <2>3, <2>4 DEF DecisionOK, Landed
<1>2. QED
    BY <1>1, SettlementInvariant, PTL

\* A report gives the run's outcome and the progress as it stays.
THEOREM ReportsAreFinal == SettlementSpec => []ReportIsFinal
<1>1. SettlementInv => ReportIsFinal
    BY DEF SettlementInv
<1>2. QED
    BY <1>1, SettlementInvariant, PTL

\* What a step may not rewrite.
Kept ==
    /\ Len(closures) <= Len(closures')
    /\ \A i \in 1..Len(closures) : closures'[i] = closures[i]
    /\ decision # None => decision' = decision /\ run' = run
    /\ report # None => report' = report
    /\ progress # None =>
          \A t \in Termination :
              progress.items[t] # "unknown" => progress'.items[t] = progress.items[t]
    /\ index.frozen => index' = index

LEMMA KeptStep ==
    ASSUME SettlementInv, [SettlementNext]_settlementVars
    PROVE  Kept
<1>1. closures \in Seq(Closure) /\ Len(closures) \in Nat
    BY DEF SettlementInv, SettlementTypeOK
<1>2. CASE UNCHANGED <<run, closures, decision, progress, report, index>>
    BY <1>1, <1>2 DEF Kept
<1>3. ASSUME NEW g \in Gateways, BeginStopRun(g)
      PROVE  Kept
  <2>1. run' # run => decision = None
    <3>1. call[g].runRev = 2 /\ run \in RunFact
        BY <1>3 DEF BeginStopRun, At, SettlementInv, SettlementTypeOK, CallOK
    <3>2. QED
        BY <1>3, <3>1 DEF BeginStopRun, SettlementInv, PhaseOK, RunFact
  <2>2. UNCHANGED <<closures, decision, progress, report, index>>
      BY <1>3 DEF BeginStopRun, effectVars
  <2>3. QED
      BY <1>1, <2>1, <2>2 DEF Kept
<1>4. ASSUME NEW g \in Gateways, FreezeRunEffectSet(g)
      PROVE  Kept
    BY <1>1, <1>4 DEF FreezeRunEffectSet, ownerVars, Kept
<1>5. ASSUME NEW g \in Gateways, CreateClosureAttempt(g)
      PROVE  Kept
  <2>1. UNCHANGED <<run, decision, progress, report, index>>
      BY <1>5 DEF CreateClosureAttempt, effectVars
  <2>2. UNCHANGED closures \/ closures' = Append(closures, Draft(g))
      BY <1>5 DEF CreateClosureAttempt
  <2>3. /\ Len(closures) <= Len(closures')
        /\ \A i \in 1..Len(closures) : closures'[i] = closures[i]
    <3>1. CASE UNCHANGED closures
        BY <1>1, <3>1
    <3>2. CASE closures' = Append(closures, Draft(g))
      <4>1. call[g] \in Call /\ call[g].facts # None /\ index \in EffectIndex
          BY <1>5 DEF CreateClosureAttempt, At, SettlementInv, SettlementTypeOK, CallOK
      <4>2. Draft(g) \in Closure
          BY <4>1 DEF Draft, Closure, Call
      <4>3. QED
          BY <1>1, <3>2, <4>2
    <3>3. QED
        BY <2>2, <3>1, <3>2
  <2>4. QED
      BY <2>1, <2>3 DEF Kept
<1>6. ASSUME NEW g \in Gateways, CommitRunCompletion(g)
      PROVE  Kept
  <2>1. UNCHANGED <<closures, report, index>>
      BY <1>6 DEF CommitRunCompletion, effectVars
  <2>2. UNCHANGED <<run, decision, progress>> \/ (decision = None /\ progress = None)
      BY <1>6 DEF CommitRunCompletion, DecisionStands, SettlementInv, PhaseOK
  <2>3. QED
      BY <1>1, <2>1, <2>2 DEF Kept
<1>7. ASSUME NEW g \in Gateways, SwapProgress(g)
      PROVE  Kept
  <2>1. UNCHANGED <<run, closures, decision, report, index>>
      BY <1>7 DEF SwapProgress, effectVars
  <2>2. \A t \in Termination :
            progress.items[t] # "unknown" => progress'.items[t] = progress.items[t]
      BY <1>7 DEF SwapProgress, SwapsProgress, ProgressAdvances
  <2>3. QED
      BY <1>1, <2>1, <2>2 DEF Kept
<1>8. ASSUME NEW g \in Gateways, FileReport(g)
      PROVE  Kept
    BY <1>1, <1>8 DEF FileReport, effectVars, Kept
<1>9. ASSUME NEW e \in Effects, CreateEffectForRun(e)
      PROVE  Kept
    BY <1>1, <1>9 DEF CreateEffectForRun, IndexTakes, ownerVars, Kept
<1>10. ASSUME NEW g \in Gateways,
              StopAndSettleRun(g) \/ InspectClosure(g) \/ InspectSources(g)
                \/ RevalidateClosure(g) \/ DeriveDecision(g) \/ ReconcileTermination(g) \/ BuildReport(g) \/ Fail(g)
       PROVE  UNCHANGED <<run, closures, decision, progress, report, index>>
    BY <1>10 DEF StopAndSettleRun, InspectClosure, InspectSources, RevalidateClosure, DeriveDecision,
                 ReconcileTermination, BuildReport, Fail, ownerVars, effectVars
<1>11. ASSUME NEW e \in Effects, CheckRunForEffect(e) \/ ConcludeEffect(e)
       PROVE  UNCHANGED <<run, closures, decision, progress, report, index>>
    BY <1>11 DEF CheckRunForEffect, ConcludeEffect, ownerVars
<1>12. ASSUME NEW s \in Sources, ReviseFact(s) \/ ExpireFact(s)
       PROVE  UNCHANGED <<run, closures, decision, progress, report, index>>
    BY <1>12 DEF ReviseFact, ExpireFact, ownerVars, effectVars
<1>13. CASE UNCHANGED settlementVars
    BY <1>2, <1>13 DEF settlementVars
<1>14. CASE SettlementNext
    BY <1>2, <1>3, <1>4, <1>5, <1>6, <1>7, <1>8, <1>9, <1>10, <1>11, <1>12, <1>14
       DEF SettlementNext, Settle, Terminate, Environment
<1>15. QED
    BY <1>13, <1>14

\* Attempts are only appended; the decision, the terminal run, the report, a
\* resolved termination item and a frozen effect set never change.
THEOREM HistoryIsKept == SettlementSpec => NothingIsRewritten
<1>1. SettlementInv /\ [SettlementNext]_settlementVars => [Kept]_settlementVars
    BY KeptStep
<1>2. QED
    BY <1>1, SettlementInvariant, PTL DEF SettlementSpec, NothingIsRewritten, Kept
============================================================================
