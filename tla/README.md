# A verification project for the execution runtime

The repository (`src/`) is a Go workspace of sixteen modules that execute agents
under governance: an instance of an agent is activated in a sandbox under an
exclusive identity lease, driven by commands, runs to an outcome that is claimed
with evidence, and is stopped, fenced and cleaned up.  Every part keeps *facts* in
stores that change only by compare-and-swap on a revision, and every part must
survive lost replies, crashes between two writes, retries and concurrent callers.

This directory holds TLA+ models of the core of `ExecutionRuntime/runtime` and of
the entry of `ExecutionRuntime/application`, the TLC configurations that check
them on small instances, and proofs that TLAPS checks for all instances.
`PROJECT.json` maps every definition to its source lines and lists components,
runs, mutants, findings, hazards and theorems.

To check a run: `tlc -config MCActivation.cfg MCActivation`.  To check the proofs
of a module: `tlapm IdentityLeaseProofs.tla`.

## 1. Inventory

### Components that are modelled

| Component | State | Operations | Interacts with |
|---|---|---|---|
| Identity lease store (`runtime/control/identity_lease.go`, `runtime/fakes/fact_store.go`) | for each identity the latest lease: state, epoch, attempt, expiry, revision; all leases by ID | reserve, renew, revoke, release, inspect; expiry on touch; activation inside the commit | used by the coordinator, the commit, recovery, a supervisor |
| Activation journal (`runtime/admission/activation.go`, `runtime/fakes/activation_store.go`) | one attempt record: stage, recovery state, snapshot, lease, budget, reservation and activation operations, fence, revision | create, compare-and-swap, atomic commit with the lease | written by the coordinator and by whoever recovers |
| Recovery planner (`runtime/admission/recovery.go`) | none | `PlanRecovery`: the next safe action for an attempt | read by `RecoverActivation` |
| Foundation coordinator (`runtime/foundation/coordinator.go`) | the instance in memory: its copy of the attempt, of the lease, the aggregate | Activate, Stop, RecoverActivation (StartRun and others not modelled) | lease store, journal, sandbox provider, execution component |
| Instance aggregate (`runtime/core/state.go`, `runtime/kernel/aggregate.go`) | phase, certainty, cleanup, obligations, sandbox lease bound in the scope, revision | Transition, CommitActivation | the coordinator |
| Run journal and claim gateway (`runtime/kernel/run_journal.go`, `run_claim_gateway.go`, `runtime/control/run_fact.go`) | run records, the index of active runs, the evidence log | Start, BeginStop, RecordCompletionClaim, Finish, Ingest | compare-and-swap store, evidence log |
| Command log and outbox (`runtime/fakes/fact_store.go`, `runtime/ports/command_v2.go`) | commands and outbox in order of acceptance, desired state, idempotency index | AcceptCommand, MarkOutboxDispatched | facade, dispatcher |
| Facade and dispatcher (`application/facade_v2.go`, `outbox_dispatcher_v2.go`) | submissions, workflow journals | SubmitWorkflowV2, DispatchCommandV2 | submission store, command log, journal store |
| Effect governance (`runtime/control/effect_fact_v2.go`, `governance_gateway_v2.go`, `runtime/fakes/effect_store_v2.go`) | effect facts, dispatch permits, the index of occupied conflict domains, the idempotency index | CreateEffect, CompareAndSwapEffect (accept, reject, settle, compensate, conclude), Issue, Begin, RecordEnforcementReceipt, CompareAndSwapDispatchPermit | gateways; the owners of lease, authority, review and budget facts |
| Run settlement and lifecycle (`runtime/kernel/run_settlement_gateway_v2.go`, `run_lifecycle_gateway_v3.go`, `runtime/control/run_settlement_fact_v2.go`, `runtime/fakes/run_settlement_store_v2.go`, `run_effect_store_v2.go`) | the run, the index of its effects, closure attempts, the decision, the termination progress, the report | StopAndSettleRun, CreateEffectForRun, FreezeRunEffectSet, CreateRunSettlementClosureAttempt, CommitRunCompletion, ReconcileTerminationProgress, CreateRunTerminationReport | effects of the run, execution inspector, participants of the plan |

### What is hard in them

* *Lazy expiry.*  A lease past its deadline is recorded as held until somebody
  touches it; what its former holder knows is then stale.
* *Write-ahead and crash.*  Activation is a chain of about fifteen calls to three
  owners.  A crash or a failure after any of them leaves the rest to recovery,
  which sees the journal only.
* *Late answers.*  The sandbox provider may carry out a request after the caller
  has given up.
* *Recovery beside the living.*  Nothing keeps a recovery from running while the
  coordinator of the attempt is only slow.
* *Lost replies.*  A write is applied and its reply is lost; the caller reads
  again and must recognise its own effect, and nobody else's.
* *Dominance.*  Commands race, and a stop must win over what came before it and
  over what comes after it.
* *Check, then act.*  A gateway reads the facts that govern an effect and writes
  the permit later; whoever governs, rejects or revokes moves in between.
* *A closing set.*  A run ends on what its execution, its effects and its
  participants say, each of them read at another moment and free to change after.
* *Competing closers.*  Several gateways stop, settle and report the same run; each
  may supersede what another has drafted.
* *Several stores.*  Submission, command, journal and outbox mark are four writes
  with no transaction around them.

### What makes each component correct

* Lease store: one holder for each identity; an ended lease never authorizes
  again; a revision excludes every change its reader has not seen.
* Activation: commit of journal and lease is one step; every sandbox is on record;
  an attempt becomes active only under a lease in force; nobody overwrites what it
  has not read; a terminal instance has given everything back; an abort gives
  everything back and fences before it releases.
* Aggregate: fenced is for ever, through every reset of cleanup; only a confirmed
  instance advances.
* Runs: one live run, one claim and one outcome for each run; answers never
  contradict each other; a claim rests on evidence.
* Commands: a stopped instance stays stopped; nothing in force is dominated;
  nothing is accepted twice; what is carried out is what was submitted; the outbox
  mark comes last.
* Effects: an effect is attempted at most once, under a grant, never after a
  rejection; an outcome is concluded on facts; a conflict domain has one active
  effect, and its release is final.
* Settlement: a run ends in one decision with everything that belongs to it; a clean
  outcome means that nothing is open; what was decided and reported is never
  rewritten; a stopped run settles and an ended one is reported; who asks again gets
  the answer.

### Components that are not modelled

Supervision, the workflow journal with its coordinators, the evidence ledger and
budgets, the operation, checkpoint and restore gateways, the other
application coordinators, and the modules agent-assembler, agent-builder,
agent-definition, agent-host, agent-run-service, context-engine, continuity,
harness, memory-knowledge, model-invoker, organization-engine, review, sandbox and
tool-mcp.  `PROJECT.json` gives the reason for each.  The first of them are planned
(section 7); in most of the others the difficulty is content, conversion and I/O,
which a small model does not reach.

## 2. Modules

    IdentityLease ---- extended by ---> Activation
         |                                  |
    IdentityLeaseProofs ---> ActivationProofs, MCActivation

    RunLedger <--- refined by --- RunJournal ---> RunJournalProofs
    InstanceAggregate ---> InstanceAggregateProofs
    CommandLog ---> CommandLogProofs
    EffectStore ---> EffectStoreProofs
    RunSettlement ---> RunSettlementProofs
          |
    MCRunSettlement ---> MCRunSettlementReplay

Each `MC*` module instantiates the module of its name for TLC.

**IdentityLease.**  `leases` is a function from epochs to lease records: the store
gives each new lease of an identity the next epoch, so that the epoch is its ID,
and `epoch` is the identity's entry in the map of latest leases.  One action for
each operation of the port.  The caller's inputs (attempt, expected epoch and
revision, expiry) are arbitrary, and so is the time it read: the store reads its
clock before it takes its lock, so an operation may act on an earlier time than one
that came before it.

**Activation** extends it.  `journal` holds the attempt records with the fields
that the rules look at; `coord` is the coordinator of each attempt, with a program
counter, its copy of the record and the phase of its instance; `plan` is a recovery
in progress; `sandbox` is what the provider has.  One action for each call between
two points where others can act: `Activate` is about twenty of them, `Stop` five.
`CoordinatorDies` and `ExecutorForgets` are the crashes.  Three actors are external,
modelled from how the code uses them: the sandbox provider, the supervisor that
renews leases, and the executor that carries out the planner's decisions.  The
repository has the planner and its decisions but no executor, so the model has one
that obeys: it carries out one decision, records its outcome with a
compare-and-swap, and asks again.  It executes inspections and the abort path, not
the decisions to go forward, and it may run beside a coordinator that is alive.
Three things are asked of it that the planner does not ask.  An inspection waits
until the provider has answered the request, since before that there is nothing to
find.  A reservation is not inspected between the coordinator's recorded intent and
its dispatch (`~At(a, "intended")`): the journal cannot tell the two apart, and
without this condition TLC finds `SandboxAccounted` violated, by an inspection that
answers "not applied" just before the request goes out.  The planner marks
inspections as not automatically safe, so that this is what it leaves to the
operator.  And a release needs the reference that only an applied reservation
carries (`confirmed_applied`); for an unresolved one, which the planner proposes to
release as well, the executor forgets its decision.

**InstanceAggregate.**  The state record of `core/state.go`, whether the scope
binds a sandbox lease, and the revision.  Callers ask for every state under every
context.

**RunJournal.**  `runs`, `active` and the evidence log are the stores; `caller`
holds the call each caller has in progress.  A journal operation is a read, a
computation on the copy and a compare-and-swap, and the gateway's `Ingest` is four
such steps.  **RunLedger** is what the journal promises, without copies, revisions
and callers.

**CommandLog.**  `log` is the sequence of accepted commands with their outbox
records, `submissions` and `journals` the application's stores.  A caller submits a
bundle or dispatches a command, one step for each store call.

**EffectStore.**  `effects` and `permits` are the facts, `conflicts` the index of
domains; the idempotency index is derived from the facts.  Each legal transition of
`ValidateEffectFactTransitionV2` is an action, all of them through one `Swap` with
the index update that the code does after every compare-and-swap.  Issue and Begin
are two steps each: the gateway's reading, and the store's write with the store's
own checks; `call` is what a gateway carries between the two.  The store reads its
clock before it takes its lock, so a write acts on some time `t` between the
gateway's reading and now.  A new effect has nothing concluded, as
`NewProposedEffectFactV2` builds it and as every caller in the repository creates it;
the store itself would also take one with conclusions already set.  The half dozen facts
that govern an effect (lease, binding, authority, review, budget, scope) are one
*grant*, which expires at the first of their expiries and may be lost at any time
(`LoseGrant`).  An effect may be made to inspect, compensate or clean up after
another.

**RunSettlement.**  `run`, `closures`, `decision`, `progress` and `report` are the
settlement owner, `index`, `effect` and `creating` the run's part of the effect
store, `source` what execution and participants say, with a revision and whether it
is in force.  A gateway goes through the steps of `StopAndSettleRunV2` (stop, look
for a closure, freeze, inspect, create the attempt, derive, decide, commit) and of
`ReconcileTerminationProgressV2` (read, swap, report), one for each call into an
owner.  A call fails by a lost reply or the death of the caller (`Fail`), and is made
again.  The swap of the progress may moreover be refused for its time at every attempt
(`onTime`): the owner wants the time on the new progress to equal what its own clock
shows, and the gateway stamped it earlier.  The answers of participants and of the execution
inspector (`ReviseFact`, `ExpireFact`) are external.  The effects' own life is the
subject of `EffectStore`; here they are created, under the race of the code, and end
in a way that determines their disposition.

Abstracted throughout: actor, authority, execution scope and session where they are
the same in every call; digests, to values that are equal or not; validation of
formats; logging.

## 3. Runs

| Run | Instance | States | Shows |
|---|---|---|---|
| `lease` | 2 attempts, epochs up to 2, clock up to 2, renewals up to revision 3 | 7,842 | `SingleHolder`, `EndedForever`, `RevisionNamesContent` |
| `activation` | 2 attempts, epochs up to 2, clock up to 1, revisions up to 3 | 1,218,825 | `CommitIsAtomic`, `CopyIsCurrent`, `SandboxAccounted`, `TerminalMeansReleased`, `ActiveUnderLease`, `ImplementsLeaseStore` |
| `activation_abort` | the same | | `AbortedHoldsNoLease` is violated |
| `activation_fence` | the same | | `FencedBeforeRelease` is violated |
| `aggregate` | revisions up to 12 | 715 | `FencedForever` |
| `aggregate_advance` | the same | | `AdvancesOnlyConfirmed` is violated |
| `runs` | 2 callers, 2 runs, 1 source sequence, 2 digests, 2 claim kinds, 2 outcomes, clock up to 1 | 1,992,120 | `ActiveIndexExact`, `AnswersStand`, `ClaimIsBacked`, `ImplementsRunLedger` |
| `commands` | 2 callers, 7 bundles, clock up to 1 | 835,940 | `NothingInForceIsDominated`, `StopIsFinal`, `AcceptedOnce`, `CommandsAreBacked`, `MarkedLast` |
| `effects` | 3 effects, 2 domains, 3 permits, 2 gateways, clock up to 1 | 1,226,843 | `RejectedNeverBegins`, `OneAttempt`, `BegunUnderGrant`, `ConclusionsAreGrounded`, `IndexNeverDrifts`, `ReleaseIsFinal` |
| `effects_domain` | the same, all effects in one domain | | `OneActivePerDomain` is violated |
| `settlement` | 2 gateways, 1 effect, 1 completion and 1 termination participant, 1 fault | 345,096 | `CompletionIsWhole`, `CleanEndingIsClean`, `ReportIsFinal`, `NothingIsRewritten`, `StoppedRunSettles`, `EndedRunIsReported` |
| `settlement_replay` | the same without faults and expiry, with a history of requests | | `ReplayRecovers` is violated |

Each run also checks the type invariant of its module.  Every property has a
mutant in `PROJECT.json`: a definition of the model changed the way a bug would
change the code (an operator marked *Faulty variant*), under which TLC finds the
property violated.

**Why the bounds are enough.**  Two attempts and two epochs let one attempt lose
the identity to the other and go on acting on what it remembers.  The clock needs
one tick for every deadline to lie before or after any step; expiries range up to
one past the last tick, so that leases which never expire occur too.
`MaxRevision` bounds renewals only: a lease is reserved, activated, renewed,
expired or revoked, and released, whatever the bound.  In `runs` the single source
sequence makes claims with different digests collide; the second run shows that an
ended run does not block the next one.  Since digests, callers and attempts are
interchangeable, those runs use symmetry; none of them checks liveness.  In
`commands` the seven bundles include two that share an ID, two that share an
idempotency key, a stop, a fence and a cancellation, an expired plan and an optional
step nobody can carry out, each with a precondition revision that only some orders
meet.  The aggregate needs at most eleven steps to cross its lifecycle.

In `effects` the first two effects compete for one domain and the second has one
permit in common with the first, so that two gateways issue for one effect and one
permit is wanted by two effects; the third inspects, compensates or cleans up after
the first, or shares the key of the second.  The grant of the first effect (`Losable`) may be lost
and ends at the first tick (`GrantExpires`), before the lifetime `TTL` that callers
ask for: both sides of the minimum occur.  In `settlement` every source starts with any of
its answers.  The cleanup is the one that changes (`MaxRev`): its fact may be revised
once, at any step, from unknown to resolved or back, and may expire (`Perishable`).
Closures cite the facts of all sources and are compared as a whole, so that this one
source makes every closure stale and every gateway supersede another's; that the
completion participants and the execution may change as well, as often as they like,
is covered for safety by the proofs, whose bounds are arbitrary.  The policy
leaves an unknown domain to reconciliation, blocks on an unknown effect and ends
indeterminate on an unknown execution, one requirement for each branch of the
decision.  `Endings` has the two ends of an effect that lead to different
dispositions under this policy.  `MaxFaults` = 1 allows one lost reply or death at any step
of any call; calls that lose a race, and swaps of the progress that miss the owner's
instant, fail without counting.  No symmetry is used here
because the run checks liveness.

**Deadlock.**  It is checked in `lease`, `runs`, `commands` and `settlement`.  In
`activation` all attempts may be over, in `aggregate` the bound on revisions stops
the instance, and in `effects` every effect may be closed, so that these three do
not check it.

**Fairness.**  Only `settlement` assumes any: weak fairness of `Resume(g)` for each
gateway.  A call that is under way goes on, and those who reconcile a stopping or
ended run ask again: the coordinator of the application repeats the call as long as
the run is stopping, and the gateway is written for "24x7 polling"
(`run_settlement_gateway_v2.go:92`).  Nothing is assumed of a running run, which
nobody has to stop, of participants, or of effects; what the two liveness
properties need of these is their premise (`<>[]Settleable`, and termination
participants that come to rest).  `EndedRunIsReported` has a second premise,
`SF_settlementVars(TimelySwap)`: a swap of the progress that is possible again and
again is not refused for its time for ever.  It stands in the property and not in the
specification because the code does not give it; without it TLC finds the property
violated (section 4).  What the run shows is that nothing else keeps the report
back.  Lost replies and deaths are bounded, since no retry survives unbounded ones.
All other runs state safety.  `FencedForever` is written with nested boxes and is a
safety property too.

## 4. Findings

1. **An aborted attempt may still hold the identity** (`activation_abort`).  The
   lease is reserved before the journal names it.  A crash, or a recovery, between
   the two ends in an attempt that is durably aborted with the reason "all
   activation obligations are settled" while its lease is reserved and in time.
2. **An applied reservation may be released without a fence** (`activation_fence`).
   A reservation confirmed by inspection leaves the attempt at `budget_resolved`;
   the planner's fence branch asks for `sandbox_reserved`.
3. **An unknown or lost instance advances** (`aggregate_advance`).  The kernel
   design lets only a confirmed instance advance its lifecycle;
   `ValidateStateTransition` does not ask for it.

4. **A conflict domain may have two active effects** (`effects_domain`).  A
   compare-and-swap to a fact that does not occupy its domain deletes the index entry
   of the domain without looking whose entry it is.  Rejecting an effect that was
   only proposed therefore frees the domain that an accepted one holds.
5. **A settlement that was asked for at the stopping revision cannot be replayed**
   (`settlement_replay`).  The terminal branch expects the decision one revision
   above the request, which is right for requests at the running revision only; the
   application coordinator always asks at the stopping one and gets an internal
   error for a completion that is whole.

Other places where the code deserves a second look, without a document that it
contradicts, are among the hazards of `PROJECT.json` with a note.  More of them, open
and not stated as properties:

* `admission/recovery.go:84`: at `budget_resolved` the planner proposes to reserve
  the sandbox also when inspection confirmed that it is reserved; `:117`: an aborting
  attempt whose budget operation is only intended never reaches a valid end (the one
  exception in the theorem `AbortPathIsAccepted`; no coordinator records such an
  intent).
* `fakes/fact_store.go:414`: the expired lease of an aborting attempt cannot be read
  any more once somebody else holds the identity; `:227`: a replay answers "accepted"
  for a command that was superseded since.
* `fakes/components.go:325`: evidence is recognised without its causation, so that an
  observation of one run may back the claim of another.
* `application/outbox_dispatcher_v2.go:64`: a command superseded after this check
  still gets its workflow; `application/journal_coordinator_v2.go:42`: a step is
  advanced whoever holds the recovery claim.
* `fakes/effect_store_v2.go:210` and `:386`: the raw compare-and-swaps admit a dispatch
  and a begin without the gateway; `fakes/run_effect_store_v2.go:45`: the effects of a
  run have no conflict index; `fakes/effect_store_v2.go:215`: an inspection declared in
  the original's own domain is never accepted.
* `fakes/run_settlement_store_v2.go:298`: the plain compare-and-swap can end a run
  without a decision; `kernel/run_settlement_gateway_v2.go:901`: an execution confirmed
  lost blocks the gateway under a policy whose decision the owner would accept;
  `:274`: a claim that arrives after the closure is not looked at.
* `kernel/run_lifecycle_gateway_v3.go:95`: a repeated stop with the running revision
  conflicts while the run is stopping.
* `control/run_settlement_fact_v2.go:870`: the time of a new progress must equal the
  owner's clock, read at `fakes/run_settlement_store_v2.go:541` after the gateway
  stamped it at `kernel/run_settlement_gateway_v2.go:106`.  The error speaks of "a
  monotonic injected clock" (`:871`), which a comparison would ask for; equality
  refuses every swap between two clock readings that differ.  Then a run that is over
  is never reported, which is what TLC finds when the second premise of
  `EndedRunIsReported` is dropped.  `effect_fact_v2.go:305` compares in the same way.
* `control/run_fact.go:64`: a claim may be attached while the run is stopping, which
  moves the revision that a settlement was asked for.
* `fakes/effect_store_v2.go:105`: an effect may be created with its residual or cleanup
  already concluded; no caller in the repository does so.
* `core/state.go:94`: while no sandbox lease is bound, cleanup may go from pending to
  not_required without any context.
* `admission/recovery.go:67`: an inspection between a recorded intent and its dispatch
  resolves the reservation as not applied, and the coordinator then dispatches
  (section 2, Activation).

## 5. Proofs

All proofs are by an inductive invariant, one step for each action.

**IdentityLeaseProofs** (`LeaseTypes`, `LeaseSafety`, `LeaseEndedForever`,
`LeaseRevisionNamesContent`), under `LeaseAssumption` (bounds are naturals, "none"
is not an attempt).  The invariant is `LeaseTypeOK /\ EpochsInOrder /\ SingleHolder`:
`SingleHolder` alone is not inductive, since a new lease is written at `epoch + 1`
and the place must be known to be empty.  The lemma `StepShape` says what any step
does: one existing lease goes to a lease that *follows* it, or a new one is appended
when the latest has ended.  The two action properties come from the same lemma.

**ActivationProofs** (`ActivationTypes`, `CommitStaysAtomic`, `CopiesAreCurrent`,
`SandboxesAccounted`, `TerminalIsReleased`, `ActivatesUnderLease`,
`LeaseStoreImplemented`, `IdentityHeldOnce`, `AttemptsMoveForward`,
`AbortPathIsAccepted`), under `LeaseAssumption`.  None of the properties is inductive:
each depends on what a coordinator or an executor carries between its steps.  The
invariant `ActivationInv` is `LeaseInv` with one conjunct `Good` for each attempt:

* `JournalGood`: the record is valid, its lease is on record (held by this attempt, at
  no later a revision than the store has, activated once the attempt is committed), and
  an active lease of the attempt is the one it committed on.
* `SandboxGood`: whatever the provider has or may still create is on record.
* `CoordGood`: the coordinator's copy is an earlier record or the current one
  (`CopyOf`); before the reservation the attempt has no lease at all; from there to the
  active sandbox the lease is its own, with the expiry it asked for, and after the
  commit it is active or out of time (`OwnLease`); before it asks the provider the
  journal shows the intent.
* `PlanGood`: an executor's plan is such a copy too, and an outcome in waiting is
  harmless or too late: if the journal would still take it, it says nothing of the
  record but what is true now (`OutcomeGood`).  An outcome that calls an unresolved
  reservation not applied, in particular, waits only while the provider has nothing and
  no coordinator is about to ask for it, also beside one that is alive.

Attempts meet only in the lease store.  `Aside` says what one of them may see of the
others' steps there: its leases stay as they are or expire.  `Stands` says what no
operation but the commit and a renewal does to a lease; the lemma `GoodAside` then
carries `Good` of every other attempt over a step, so that each action has one attempt
to be proved for.  `ActivatesUnderLease` shows why the freshness of a snapshot may
stand in for the lease: the snapshot ends no later than the lease was asked to
(`CoordGood`), nobody but a ready instance has its lease renewed, and only the clock
ends the lease of a committed attempt that is still provisioning (`OwnLease`).  For the refinement,
every action is matched with a step of the store or leaves it alone; `IdentityHeldOnce`
transfers the three results of `IdentityLeaseProofs`.  `AttemptsMoveForward` says that
no writer takes an attempt back: an abort that has begun is never overtaken by a commit,
even of a coordinator that is alive.  `AbortPathIsAccepted` is about the rules alone:
the planner (`abortDecision`) and the journal (`ValidateTransition`) were written
separately, and agree on the abort path but for a budget intent.

**InstanceAggregateProofs** (`AggregateTypes`, `AggregateFencedForever`), under
`AggregateAssumption`.  The invariant adds to the type that the state is valid: the
rules compare two states, and that a fenced instance stays in stopping and terminal
follows from the validity of both.  The second theorem is proved from the step and the
invariant by temporal logic.

**RunJournalProofs** (`RunTypes`, `RunSafety`, `ActiveIndexStaysExact`,
`RunJournalRefinesLedger`, `ClaimsStayBacked`), under `RunAssumption`.
The invariant `RunInv` says what a caller knows between its steps: a copy about to
be swapped has a revision no larger than the record's and, when the revisions agree,
*is* the record.  That is what makes compare-and-swap sufficient.  Records only
*follow* one another (revision up, claim kept, terminal final), which keeps every
answer true.  For the refinement the initial states map to initial states, creation
maps to `Begin`, a swap to `Attach`, `End` or a stutter, and every other step to a
stutter.  `ClaimsStayBacked` needs `BackedInv` beside it: that a claim is backed when it
is recorded must be known of the call on its way, from the append to the swap, while
others append to the same log.

**CommandLogProofs** (`CommandSafety`, `DominanceIsKept`, `RetriesAreRecognised`,
`CommandTypes`, `CommandsStayBacked`, `MarkComesLast`, `DecisionsLast`), under
`CommandAssumption`.  `StopIsFinal` is
about the desired state; its strengthening is `StopsInForce`: no command supersedes a
stop, a fence or a revocation, so that these stay in force and dominate every later
start and resume; and a call that asks for acceptance carries a desired state that
fits its kind.  `DominanceIsKept` and `RetriesAreRecognised` state the parts of the
same invariant that the run checks.  `BackingInv`, on top of it, says what a call in
flight has found (`Found`) and what an entry of the log rests on (`Rests`); both last,
because log, submissions and journals only grow (`Grows`).  It is needed since the mark
is written two steps after the journal was seen.  `DecisionsLast` states the growth as
a property of its own: no envelope changes, no superseded command is revived by a
late mark, nothing stored is replaced.

**EffectStoreProofs** (`EffectTypes`, `DispatchSafety`, `RejectionStops`,
`SingleAttempt`, `GroundedConclusions`, `IndexStaysExact`, `ReleasesAreFinal`), under
`EffectAssumption`.  The invariant `EffectInv` adds to the stated properties what
connects the two facts: a permit is bound to its effect as soon as it exists and the
effect leaves `accepted` in the same step (`LinkOK`), a permit's times lie within the
grant (`PermitOK`), and a gateway about to begin has seen the grant after the permit
was written (`CallOK`).  `OneAttempt` is then inductive because an effect is issued a
permit only in `accepted`, to which nothing returns.  What is cited by a conclusion
is settled and stays settled, so that grounds last.

**RunSettlementProofs** (`SettlementTypes`, `CompletionStaysWhole`, `CleanEndings`,
`ReportsAreFinal`, `HistoryIsKept`), under `SettlementAssumption` and
`NoneAssumption`.  The invariant `SettlementInv` says that the revision of the run
tells its status (`PhaseOK`), that the index names every effect ever created
(`EffectsIndexed`), that attempts are made on the stopping run and on the frozen set
(`ClosuresOK`), and what a call knows at each step (`CallOK`).  Its heart is `Sound`:
a decision on its way to the commit may be old, yet what it says of the effects still
holds, since the set is frozen and applied effects stay applied or are compensated.
That is why the commit may do without looking at the effects again.

## 6. What is only model-checked

* The liveness properties `StoppedRunSettles` and `EndedRunIsReported`, the latter
  under its premise on time: every safety property of a passing run is proved.
* The violations of section 4, which are traces of small instances.
* Out of the prover's reach in general: liveness under fairness and `ENABLED`;
  induction over data, hence what a recursive definition computes; modules with
  `RECURSIVE` operators (there are none here).

Left out of modelled components: StartRun and the legacy run that Stop finishes;
budget operations other than `not_required`, which the coordinator never writes;
run status `pending`, which the journal never writes; the content of evidence;
budget facts, and compare-and-swaps of effects and permits that go round the
gateway, and effects created with conclusions; the creation and start of a run's
bundle, the certification of its plan, the later claim gateways with the claims they
attach to a stopping run, and a bare compare-and-swap that ends a run; and
the SQLite stores under `storage/`, whose transactions implement the same ports as
the in-memory stores that are modelled.

## 7. Plan

Done: the modules above, in the order lease, activation, aggregate, runs, commands,
effects, settlement.  Next, in order of importance:

1. **Supervision** (`runtime/kernel/supervision.go`): modes, failure budget,
   backoff, the fence; composed with `IdentityLease` in place of the external
   supervisor of `Activation`.
2. **WorkflowJournal** (`application/contract/journal_v2.go`,
   `journal_coordinator_v2.go`, `recovery_coordinator_v2.go`): steps, attempts,
   ready steps, and the recovery claim that lets one worker at a time resume a
   journal.  Composed with `CommandLog`: what becomes of a superseded command's
   workflow.
3. **Budget and evidence ledger**, as two of the facts that are now one grant of
   `EffectStore`.
4. **RunService** (`agent-run-service/service/service_v1.go`): command idempotency
   and event cursors; every event is eventually delivered.
5. **Checkpoint and restore**, over effects and settlement.

Theorems planned: that an aborted record is final in `Activation` (an outcome in
waiting must then be known to come from a record that is not aborted); that the phase of
a coordinator follows the rules of `InstanceAggregate`; and the safety invariants of the
modules above as they are written.
