----------------------------- MODULE Activation -----------------------------
(***************************************************************************)
(* Activation of instances of one agent identity: the activation journal   *)
(* and its rules (runtime/admission), the coordinator that drives an       *)
(* attempt from proposal to a ready instance and stops it                  *)
(* (runtime/foundation/coordinator.go), the store's atomic commit          *)
(* (runtime/fakes/activation_store.go) over the leases of IdentityLease,   *)
(* and the recovery planner.                                               *)
(*                                                                         *)
(* One coordinator runs each attempt (a second Activate with the same ID   *)
(* is refused).  It may fail or crash between any two steps.  External:    *)
(* the sandbox provider, which applies a request at any later time or      *)
(* never and whose reply may be lost; the executor, which carries out the  *)
(* decisions of the planner one by one, may run while the coordinator is   *)
(* still alive, and may itself crash; the supervisor that renews leases.   *)
(*                                                                         *)
(* Abstracted: authority epoch, lineage, digests and timestamps of an      *)
(* attempt (the same request supplies them on every path); the reference   *)
(* of an operation, which an operation record carries exactly in its       *)
(* confirmed_applied and released states; the evidence ledger, whose       *)
(* failures are failures of the step that calls it.                        *)
(***************************************************************************)
EXTENDS IdentityLease

VARIABLES journal,  \* [Attempts -> attempt record], the durable journal
          coord,    \* [Attempts -> coordinator], lost with its process
          plan,     \* [Attempts -> recovery in progress], lost likewise
          sandbox   \* [Attempts -> provider's sandbox of the attempt]

activationVars == <<leases, epoch, now, journal, coord, plan, sandbox>>

----------------------------------------------------------------------------
(* Attempt records.                                                        *)

\* stageIndex
Proposed              == 0
Preflighting          == 1
PreflightPassed       == 2
SnapshotFrozen        == 3
IdentityLeaseReserved == 4
BudgetResolved        == 5
SandboxReserved       == 6
Committed             == 7
SandboxActive         == 8

OperationStates == {"not_started", "not_required", "intent_recorded",
                    "confirmed_applied", "confirmed_not_applied",
                    "unknown_outcome", "released"}

\* snapshot is the expiry of the frozen snapshot, 0 before it is frozen;
\* leaseID is the epoch of the identity lease, 0 before it is attached;
\* bound says that the scope binds a sandbox lease.
AttemptRecord ==
    [expected    : 0..(MaxEpoch - 1),
     stage       : Proposed..SandboxActive,
     recovery    : {"normal", "aborting", "quarantined", "aborted"},
     snapshot    : Nat,
     leaseID     : 0..MaxEpoch,
     leaseState  : LeaseStates \cup {"absent"},
     leaseRev    : Nat,
     budget      : OperationStates,
     reservation : OperationStates,
     activation  : OperationStates,
     bound       : BOOLEAN,
     fenced      : BOOLEAN,
     rev         : Nat]

\* An attempt that does not exist has revision 0.
NewAttempt(expected, rev) ==
    [expected |-> expected, stage |-> Proposed, recovery |-> "normal",
     snapshot |-> 0, leaseID |-> 0, leaseState |-> "absent", leaseRev |-> 0,
     budget |-> "not_started", reservation |-> "not_started",
     activation |-> "not_started", bound |-> FALSE, fenced |-> FALSE,
     rev |-> rev]

NoAttempt == NewAttempt(0, 0)

HasUnknownOperation(at) ==
    "unknown_outcome" \in {at.budget, at.reservation, at.activation}

SettledStates ==
    {"not_started", "not_required", "confirmed_not_applied", "released"}

ActivationObligationsSettled(at) ==
    /\ at.budget \in SettledStates
    /\ at.reservation \in SettledStates
    /\ at.leaseID = 0 \/ at.leaseState = "released"

\* ActivationAttempt.Validate
AttemptValid(at) ==
    /\ at.rev > 0
    /\ at.stage < Committed => ~at.bound
    /\ at.stage >= SnapshotFrozen <=> at.snapshot # 0
    /\ at.stage >= IdentityLeaseReserved
          <=> at.leaseID # 0 /\ at.leaseRev # 0 /\ at.leaseState # "absent"
    /\ at.stage < IdentityLeaseReserved
          => at.leaseID = 0 /\ at.leaseRev = 0 /\ at.leaseState = "absent"
    /\ at.stage >= BudgetResolved
          => at.budget \in {"not_required", "confirmed_applied", "released"}
    /\ at.stage >= SandboxReserved
          => at.reservation \in {"confirmed_applied", "released"}
    /\ at.stage >= Committed => at.bound /\ at.leaseState = "active"
    /\ at.stage = SandboxActive => at.activation = "confirmed_applied"
    /\ HasUnknownOperation(at) => at.recovery = "quarantined"
    /\ at.recovery \in {"aborting", "aborted"} => at.stage < Committed
    /\ at.recovery = "normal"
          => at.budget # "released" /\ at.reservation # "released"
    /\ at.recovery = "aborted" => ActivationObligationsSettled(at)

\* ValidateFresh
Fresh(at, t) == at.snapshot = 0 \/ t < at.snapshot

\* Faulty variant.
TransitionValidAnyRevision(from, to, unknownResolved, t) ==
    /\ AttemptValid(from) /\ AttemptValid(to)
    /\ to.stage \in {from.stage, from.stage + 1}
    /\ from.recovery # "normal" => to.stage = from.stage

\* ValidateTransition
TransitionValid(from, to, unknownResolved, t) ==
    /\ AttemptValid(from)
    /\ AttemptValid(to)
    /\ to.expected = from.expected
    /\ to.rev = from.rev + 1
    /\ to.stage \in {from.stage, from.stage + 1}
    /\ to.recovery = "normal" /\ to.stage > from.stage => Fresh(to, t)
    /\ from.recovery = "aborted" => to.recovery = "aborted"
    /\ from.recovery = "quarantined" /\ to.recovery = "normal"
          => unknownResolved
    /\ from.recovery = "aborting" => to.recovery # "normal"
    /\ from.recovery # "normal" => to.stage = from.stage
    /\ from.recovery = "normal" => to.recovery # "aborted"

----------------------------------------------------------------------------
(* The recovery planner.  Actions it proposes without AutomaticSafe are    *)
(* the inspections and await_operator.                                     *)

AbortDecision(at) ==
    IF /\ at.stage >= SandboxReserved
       /\ at.reservation = "confirmed_applied"
       /\ ~at.fenced
    THEN "fence_sandbox"
    ELSE IF at.reservation \notin SettledStates THEN "release_sandbox"
    ELSE IF at.budget = "confirmed_applied" THEN "release_budget"
    ELSE IF at.leaseState \in {"reserved", "active"} THEN "revoke_identity_lease"
    ELSE IF at.leaseState \in {"revoked", "expired"} THEN "release_identity_lease"
    ELSE "mark_aborted"

QuarantinedDecision(at) ==
    IF at.activation = "unknown_outcome" THEN "inspect_sandbox_activation"
    ELSE IF at.reservation = "unknown_outcome" THEN "inspect_sandbox_reservation"
    ELSE IF at.budget = "unknown_outcome" THEN "inspect_budget"
    ELSE "await_operator"

ForwardAction(stage) ==
    CASE stage = Proposed              -> "resume_preflight"
      [] stage = Preflighting          -> "inspect_preflight"
      [] stage = PreflightPassed       -> "freeze_activation_snapshot"
      [] stage = SnapshotFrozen        -> "reserve_identity_lease"
      [] stage = IdentityLeaseReserved -> "resolve_budget"
      [] stage = BudgetResolved        -> "reserve_sandbox"
      [] stage = SandboxReserved       -> "commit_activation"
      [] stage = Committed             -> "activate_sandbox"
      [] stage = SandboxActive         -> "resume_binding"

NormalDecision(at, t) ==
    IF at.stage \in SnapshotFrozen..SandboxReserved /\ ~Fresh(at, t)
    THEN "begin_abort"
    ELSE IF at.activation = "intent_recorded" THEN "inspect_sandbox_activation"
    ELSE IF at.reservation = "intent_recorded" THEN "inspect_sandbox_reservation"
    ELSE IF at.budget = "intent_recorded" THEN "inspect_budget"
    ELSE ForwardAction(at.stage)

PlanRecovery(at, t) ==
    CASE at.recovery = "aborted"     -> "none"
      [] at.recovery = "quarantined" -> QuarantinedDecision(at)
      [] at.recovery = "aborting"    -> AbortDecision(at)
      [] at.recovery = "normal"      -> NormalDecision(at, t)

----------------------------------------------------------------------------
(* Coordinators.                                                           *)

\* cur is the coordinator's copy of its attempt, t a clock reading it has
\* taken and not used yet, preflight the expiry of its preflight evidence,
\* leaseExp the lease expiry its request asks for, leaseRev the revision of
\* the identity lease it holds a copy of, phase the lifecycle phase of its
\* aggregate.
Coordinator ==
    [pc        : STRING,
     phase     : STRING,
     cur       : AttemptRecord,
     t         : Nat,
     preflight : Nat,
     leaseExp  : Nat,
     leaseRev  : Nat]

CoordinatorAt(pc, phase) ==
    [pc |-> pc, phase |-> phase, cur |-> NoAttempt, t |-> 0, preflight |-> 0,
     leaseExp |-> 0, leaseRev |-> 0]

\* Activate returned an error, or its process died: the aggregate is gone.
Dead == CoordinatorAt("dead", "none")

NoPlan == [step |-> "idle", action |-> "none", cur |-> NoAttempt,
           next |-> NoAttempt]

At(a, pc) == coord[a].pc = pc

Cur(a) == coord[a].cur

\* CompareAndSwapActivation accepts a record.
Accepts(a, next, unknownResolved) ==
    TransitionValid(journal[a], next, unknownResolved, now)

\* A coordinator that writes next and goes on at pc, or returns an error.
AdvanceActivation(a, next, pc, phase) ==
    IF Accepts(a, next, FALSE)
    THEN /\ journal' = [journal EXCEPT ![a] = next]
         /\ coord' = [coord EXCEPT ![a] =
                [@ EXCEPT !.pc = pc, !.phase = phase, !.cur = next]]
    ELSE /\ journal' = journal
         /\ coord' = [coord EXCEPT ![a] = Dead]

\* quarantineActivation, and the error that follows.  The write may itself be
\* refused; that is ignored.
QuarantineActivation(a, next) ==
    /\ journal' = IF Accepts(a, next, FALSE)
                  THEN [journal EXCEPT ![a] = next] ELSE journal
    /\ coord' = [coord EXCEPT ![a] = Dead]

Goto(a, pc) == coord' = [coord EXCEPT ![a].pc = pc]

\* Activate, up to the created attempt.
BeginActivate(a, expected, leaseExp) ==
    /\ At(a, "idle")
    /\ leaseExp > now
    /\ journal' = [journal EXCEPT ![a] = NewAttempt(expected, 1)]
    /\ coord' = [coord EXCEPT ![a] =
          [CoordinatorAt("created", "preflighting") EXCEPT
              !.cur = NewAttempt(expected, 1), !.t = now, !.leaseExp = leaseExp]]
    /\ UNCHANGED <<leases, epoch, now, plan, sandbox>>

AdvancePreflighting(a) ==
    /\ At(a, "created")
    /\ AdvanceActivation(a, [Cur(a) EXCEPT !.stage = Preflighting, !.rev = @ + 1],
                         "preflighting", "preflighting")
    /\ UNCHANGED <<leases, epoch, now, plan, sandbox>>

\* The evidence must outlive the moment Activate began, not this moment.
Preflight(a, expiry) ==
    /\ At(a, "preflighting")
    /\ expiry > coord[a].t
    /\ IF Accepts(a, [Cur(a) EXCEPT !.stage = PreflightPassed, !.rev = @ + 1], FALSE)
       THEN LET next == [Cur(a) EXCEPT !.stage = PreflightPassed, !.rev = @ + 1]
            IN  /\ journal' = [journal EXCEPT ![a] = next]
                /\ coord' = [coord EXCEPT ![a] = [@ EXCEPT !.pc = "passed",
                                !.cur = next, !.preflight = expiry, !.t = 0]]
       ELSE UNCHANGED journal /\ coord' = [coord EXCEPT ![a] = Dead]
    /\ UNCHANGED <<leases, epoch, now, plan, sandbox>>

\* Faulty variant.
SnapshotExpiryOfPreflight(c) == c.preflight

\* buildActivationSnapshot
SnapshotExpiry(c) ==
    IF c.leaseExp < c.preflight THEN c.leaseExp ELSE c.preflight

FreezeSnapshot(a) ==
    /\ At(a, "passed")
    /\ AdvanceActivation(a,
          [Cur(a) EXCEPT !.stage = SnapshotFrozen,
                         !.snapshot = SnapshotExpiry(coord[a]), !.rev = @ + 1],
          "frozen", "activating")
    /\ UNCHANGED <<leases, epoch, now, plan, sandbox>>

\* ReserveIdentityLease and CommitActivation read the clock, then lock.
ReadClock(a) ==
    /\ coord[a].pc \in {"frozen", "sandbox_reserved"}
    /\ coord' = [coord EXCEPT ![a] =
          [@ EXCEPT !.pc = IF At(a, "frozen") THEN "reserving" ELSE "committing",
                    !.t = now]]
    /\ UNCHANGED <<leases, epoch, now, journal, plan, sandbox>>

ReserveLease(a) ==
    /\ At(a, "reserving")
    /\ LET c == coord[a]
           expected == c.cur.expected
           granted == \/ ReserveReplays(a, expected, c.t)
                      \/ ReserveAdmits(a, expected, c.t)
       IN  IF c.leaseExp > c.t
           THEN /\ ReserveIdentityLease(a, expected, c.leaseExp, c.t)
                /\ coord' = [coord EXCEPT ![a] =
                      IF granted
                      THEN [@ EXCEPT !.pc = "reserved", !.t = 0, !.leaseRev = 1]
                      ELSE Dead]
           ELSE /\ UNCHANGED <<leases, epoch>>
                /\ coord' = [coord EXCEPT ![a] = Dead]
    /\ UNCHANGED <<now, journal, plan, sandbox>>

\* Faulty variant.
RecordLeaseSkippingEpoch(a) ==
    /\ At(a, "reserved")
    /\ AdvanceActivation(a,
          [Cur(a) EXCEPT !.stage = IdentityLeaseReserved,
                         !.leaseID = Cur(a).expected + 2,
                         !.leaseState = "reserved",
                         !.leaseRev = coord[a].leaseRev, !.rev = @ + 1],
          "leased", "activating")
    /\ UNCHANGED <<leases, epoch, now, plan, sandbox>>

RecordLease(a) ==
    /\ At(a, "reserved")
    /\ AdvanceActivation(a,
          [Cur(a) EXCEPT !.stage = IdentityLeaseReserved,
                         !.leaseID = Cur(a).expected + 1,
                         !.leaseState = "reserved",
                         !.leaseRev = coord[a].leaseRev, !.rev = @ + 1],
          "leased", "activating")
    /\ UNCHANGED <<leases, epoch, now, plan, sandbox>>

ResolveBudget(a) ==
    /\ At(a, "leased")
    /\ AdvanceActivation(a,
          [Cur(a) EXCEPT !.stage = BudgetResolved, !.budget = "not_required",
                         !.rev = @ + 1],
          "budgeted", "activating")
    /\ UNCHANGED <<leases, epoch, now, plan, sandbox>>

\* Faulty variant.
AllocateWithoutIntent(a) ==
    /\ At(a, "budgeted")
    /\ Goto(a, "intended")
    /\ UNCHANGED <<leases, epoch, now, journal, plan, sandbox>>

RecordAllocateIntent(a) ==
    /\ At(a, "budgeted")
    /\ AdvanceActivation(a,
          [Cur(a) EXCEPT !.reservation = "intent_recorded", !.rev = @ + 1],
          "intended", "activating")
    /\ UNCHANGED <<leases, epoch, now, plan, sandbox>>

\* Environment.Allocate leaves the process ...
Allocate(a) ==
    /\ At(a, "intended")
    /\ Goto(a, "allocating")
    /\ sandbox' = [sandbox EXCEPT ![a] = "requested"]
    /\ UNCHANGED <<leases, epoch, now, journal, plan>>

\* ... and returns: the allocation, or an error at any time, which says
\* nothing about what the provider did.
AllocateReturns(a) ==
    /\ At(a, "allocating")
    /\ sandbox[a] = "reserved"
    /\ Goto(a, "allocated")
    /\ UNCHANGED <<leases, epoch, now, journal, plan, sandbox>>

AllocateFails(a) ==
    /\ At(a, "allocating")
    /\ LET next == [Cur(a) EXCEPT !.recovery = "quarantined",
                                  !.reservation = "unknown_outcome", !.rev = @ + 1]
       IN  QuarantineActivation(a, next)
    /\ UNCHANGED <<leases, epoch, now, plan, sandbox>>

ConfirmAllocation(a) ==
    /\ At(a, "allocated")
    /\ AdvanceActivation(a,
          [Cur(a) EXCEPT !.stage = SandboxReserved,
                         !.reservation = "confirmed_applied", !.rev = @ + 1],
          "sandbox_reserved", "activating")
    /\ UNCHANGED <<leases, epoch, now, plan, sandbox>>

CommittedAttempt(a) ==
    [journal[a] EXCEPT !.stage = Committed, !.bound = TRUE,
                       !.leaseState = "active", !.leaseRev = coord[a].leaseRev + 1,
                       !.rev = @ + 1]

\* The checks of CommitActivation before and after it looks at the lease.
CommitReady(a) ==
    /\ journal[a].rev = Cur(a).rev
    /\ journal[a].stage = SandboxReserved
    /\ journal[a].recovery = "normal"
    /\ journal[a].reservation = "confirmed_applied"

CommitAllowed(a, t) ==
    /\ CommitReady(a)
    /\ Activatable(leases[journal[a].leaseID], a, coord[a].leaseRev, t)
    /\ TransitionValid(journal[a], CommittedAttempt(a), FALSE, t)

\* Faulty variant.
CommitJournalAlone(a) ==
    /\ At(a, "committing")
    /\ CommitAllowed(a, coord[a].t)
    /\ journal' = [journal EXCEPT ![a] = CommittedAttempt(a)]
    /\ coord' = [coord EXCEPT ![a] =
          [@ EXCEPT !.pc = "committed", !.phase = "provisioning",
                    !.cur = CommittedAttempt(a), !.t = 0, !.leaseRev = coord[a].leaseRev + 1]]
    /\ UNCHANGED <<leases, epoch, now, plan, sandbox>>

\* Faulty variant.
CommitIgnoringLease(a) ==
    /\ At(a, "committing")
    /\ CommitReady(a)
    /\ leases' = [leases EXCEPT ![journal[a].leaseID] = NextRevision(@, "active", @.exp)]
    /\ journal' = [journal EXCEPT ![a] = CommittedAttempt(a)]
    /\ coord' = [coord EXCEPT ![a] =
          [@ EXCEPT !.pc = "committed", !.phase = "provisioning",
                    !.cur = CommittedAttempt(a), !.t = 0, !.leaseRev = coord[a].leaseRev + 1]]
    /\ UNCHANGED <<epoch, now, plan, sandbox>>

\* The store's CommitActivation, then the aggregate's.  The lease of a refused
\* commit may still expire, if the commit got as far as looking at it.
CommitActivation(a) ==
    /\ At(a, "committing")
    /\ IF CommitAllowed(a, coord[a].t)
       THEN /\ ActivateIdentityLease(journal[a].leaseID, a, coord[a].leaseRev,
                                     coord[a].t)
            /\ journal' = [journal EXCEPT ![a] = CommittedAttempt(a)]
            /\ coord' = [coord EXCEPT ![a] =
                  [@ EXCEPT !.pc = "committed", !.phase = "provisioning",
                            !.cur = CommittedAttempt(a), !.t = 0,
                            !.leaseRev = coord[a].leaseRev + 1]]
       ELSE /\ leases' = IF CommitReady(a)
                         THEN [leases EXCEPT ![journal[a].leaseID] =
                                                 Expire(@, coord[a].t)]
                         ELSE leases
            /\ UNCHANGED <<epoch, journal>>
            /\ coord' = [coord EXCEPT ![a] = Dead]
    /\ UNCHANGED <<now, plan, sandbox>>

RecordActivateIntent(a) ==
    /\ At(a, "committed")
    /\ AdvanceActivation(a,
          [Cur(a) EXCEPT !.activation = "intent_recorded", !.rev = @ + 1],
          "activate_intended", "provisioning")
    /\ UNCHANGED <<leases, epoch, now, plan, sandbox>>

\* Environment.Activate, like Allocate.
ActivateSandbox(a) ==
    /\ At(a, "activate_intended")
    /\ Goto(a, "activating")
    /\ sandbox' = [sandbox EXCEPT ![a] = "activating"]
    /\ UNCHANGED <<leases, epoch, now, journal, plan>>

ActivateReturns(a) ==
    /\ At(a, "activating")
    /\ sandbox[a] = "active"
    /\ Goto(a, "activated")
    /\ UNCHANGED <<leases, epoch, now, journal, plan, sandbox>>

ActivateFails(a) ==
    /\ At(a, "activating")
    /\ LET next == [Cur(a) EXCEPT !.recovery = "quarantined",
                                  !.activation = "unknown_outcome", !.rev = @ + 1]
       IN  QuarantineActivation(a, next)
    /\ UNCHANGED <<leases, epoch, now, plan, sandbox>>

ConfirmActivation(a) ==
    /\ At(a, "activated")
    /\ AdvanceActivation(a,
          [Cur(a) EXCEPT !.stage = SandboxActive,
                         !.activation = "confirmed_applied", !.rev = @ + 1],
          "binding", "binding")
    /\ UNCHANGED <<leases, epoch, now, plan, sandbox>>

\* Execution.Open, then both Inspects: ready needs an active sandbox.
OpenAndInspect(a) ==
    /\ At(a, "binding")
    /\ coord' = [coord EXCEPT ![a] =
          IF sandbox[a] = "active"
          THEN [@ EXCEPT !.pc = "ready", !.phase = "ready"] ELSE Dead]
    /\ UNCHANGED <<leases, epoch, now, journal, plan, sandbox>>

\* An error of any port within Activate, or the death of the process.
CoordinatorDies(a) ==
    /\ coord[a].pc \notin {"idle", "dead", "terminal"}
    /\ coord' = [coord EXCEPT ![a] = Dead]
    /\ UNCHANGED <<leases, epoch, now, journal, plan, sandbox>>

----------------------------------------------------------------------------
(* Stop.  A step that fails returns an error and leaves the instance       *)
(* stopping, from where the normal stop closure cannot be entered again.   *)

BeginStop(a) ==
    /\ At(a, "ready")
    /\ coord' = [coord EXCEPT ![a] = [@ EXCEPT !.pc = "stopping", !.phase = "stopping"]]
    /\ UNCHANGED <<leases, epoch, now, journal, plan, sandbox>>

\* Close, which changes nothing recorded here, and Fence, each of which must
\* report the state asked for.
StopFencesSandbox(a) ==
    /\ At(a, "stopping")
    /\ sandbox' = [sandbox EXCEPT ![a] = "fenced"]
    /\ Goto(a, "sandbox_fenced")
    /\ UNCHANGED <<leases, epoch, now, journal, plan>>

StopReleasesSandbox(a) ==
    /\ At(a, "sandbox_fenced")
    /\ sandbox' = [sandbox EXCEPT ![a] = "released"]
    /\ Goto(a, "sandbox_released")
    /\ UNCHANGED <<leases, epoch, now, journal, plan>>

\* Faulty variant.
StopSkipsLease(a) ==
    /\ At(a, "sandbox_released")
    /\ coord' = [coord EXCEPT ![a] = [@ EXCEPT !.pc = "terminal", !.phase = "terminal"]]
    /\ UNCHANGED <<leases, epoch, now, journal, plan, sandbox>>

StopRevokesLease(a) ==
    /\ At(a, "sandbox_released")
    /\ LET e == Cur(a).leaseID
           rev == coord[a].leaseRev
           revoked == Expire(leases[e], now).rev = rev
       IN  /\ RevokeIdentityLease(e, rev, now)
           /\ coord' = [coord EXCEPT ![a] =
                 IF revoked THEN [@ EXCEPT !.pc = "lease_revoked", !.leaseRev = rev + 1]
                            ELSE [@ EXCEPT !.pc = "stop_failed"]]
    /\ UNCHANGED <<now, journal, plan, sandbox>>

StopReleasesLease(a) ==
    /\ At(a, "lease_revoked")
    /\ LET e == Cur(a).leaseID
           rev == coord[a].leaseRev
           released == leases[e].rev = rev /\ leases[e].state = "revoked"
       IN  /\ ReleaseIdentityLease(e, rev, now)
           /\ coord' = [coord EXCEPT ![a] =
                 IF released THEN [@ EXCEPT !.pc = "terminal", !.phase = "terminal",
                                            !.leaseRev = rev + 1]
                             ELSE [@ EXCEPT !.pc = "stop_failed"]]
    /\ UNCHANGED <<now, journal, plan, sandbox>>

StopFails(a) ==
    /\ coord[a].pc \in {"stopping", "sandbox_fenced", "sandbox_released",
                      "lease_revoked"}
    /\ Goto(a, "stop_failed")
    /\ UNCHANGED <<leases, epoch, now, journal, plan, sandbox>>

----------------------------------------------------------------------------
(* External: provider, supervisor and the executor of the plan.            *)

ProviderApplies(a) ==
    /\ sandbox[a] \in {"requested", "activating"}
    /\ sandbox' = [sandbox EXCEPT ![a] =
                     IF @ = "requested" THEN "reserved" ELSE "active"]
    /\ UNCHANGED <<leases, epoch, now, journal, coord, plan>>

ProviderRefuses(a) ==
    /\ sandbox[a] \in {"requested", "activating"}
    /\ sandbox' = [sandbox EXCEPT ![a] =
                     IF @ = "requested" THEN "none" ELSE "reserved"]
    /\ UNCHANGED <<leases, epoch, now, journal, coord, plan>>

SupervisorRenews(a, expiry) ==
    /\ At(a, "ready")
    /\ LET e == Cur(a).leaseID
       IN  /\ leases[e].rev < MaxRevision
           /\ RenewIdentityLease(e, leases[e].rev, expiry, now)
    /\ UNCHANGED <<now, journal, coord, plan, sandbox>>

\* The decisions the executor of this model carries out: the abort path and
\* the inspections.  A decision it leaves alone has no effect.
ExecutedActions ==
    {"begin_abort", "fence_sandbox", "release_sandbox", "revoke_identity_lease",
     "release_identity_lease", "mark_aborted", "inspect_sandbox_reservation",
     "inspect_sandbox_activation"}

\* RecoverActivation: read the journal, plan.
RecoverActivation(a) ==
    /\ plan[a].step = "idle"
    /\ journal[a].rev > 0
    /\ PlanRecovery(journal[a], now) \in ExecutedActions
    /\ plan' = [plan EXCEPT ![a] =
          [NoPlan EXCEPT !.step = "planned", !.cur = journal[a],
                         !.action = PlanRecovery(journal[a], now)]]
    /\ UNCHANGED <<leases, epoch, now, journal, coord, sandbox>>

\* The executor carries out its decision and holds the record it will write.
Outcome(a, next) ==
    plan' = [plan EXCEPT ![a] = [NoPlan EXCEPT !.step = "persist", !.next = next]]

Planned(a, action) == plan[a].step = "planned" /\ plan[a].action = action

ExecuteBeginAbort(a) ==
    /\ Planned(a, "begin_abort")
    /\ Outcome(a, [plan[a].cur EXCEPT !.recovery = "aborting", !.rev = @ + 1])
    /\ UNCHANGED <<leases, epoch, now, journal, coord, sandbox>>

ExecuteFence(a) ==
    /\ Planned(a, "fence_sandbox")
    /\ sandbox[a] \in {"reserved", "fenced"}
    /\ sandbox' = [sandbox EXCEPT ![a] = "fenced"]
    /\ Outcome(a, [plan[a].cur EXCEPT !.fenced = TRUE, !.rev = @ + 1])
    /\ UNCHANGED <<leases, epoch, now, journal, coord>>

\* Release names the sandbox by the reference that only an applied
\* reservation carries.
ExecuteRelease(a) ==
    /\ Planned(a, "release_sandbox")
    /\ plan[a].cur.reservation = "confirmed_applied"
    /\ sandbox[a] \in {"reserved", "fenced", "released"}
    /\ sandbox' = [sandbox EXCEPT ![a] = "released"]
    /\ Outcome(a, [plan[a].cur EXCEPT !.reservation = "released", !.rev = @ + 1])
    /\ UNCHANGED <<leases, epoch, now, journal, coord>>

\* What the executor learns about the lease of its attempt: the record the
\* operation returned, or, when that was refused, what Inspect returns as
\* long as the identity's latest lease is still that one.
LeaseOutcome(a, lease) ==
    Outcome(a, [plan[a].cur EXCEPT !.leaseState = lease.state,
                                   !.leaseRev = lease.rev, !.rev = @ + 1])

ExecuteRevoke(a) ==
    /\ Planned(a, "revoke_identity_lease")
    /\ LET e == plan[a].cur.leaseID
           rev == plan[a].cur.leaseRev
           lease == Revoked(leases[e], rev, now)
       IN  /\ lease.state = "revoked" \/ e = epoch
           /\ RevokeIdentityLease(e, rev, now)
           /\ LeaseOutcome(a, lease)
    /\ UNCHANGED <<now, journal, coord, sandbox>>

ExecuteReleaseLease(a) ==
    /\ Planned(a, "release_identity_lease")
    /\ LET e == plan[a].cur.leaseID
           rev == plan[a].cur.leaseRev
           lease == Released(leases[e], rev, now)
       IN  /\ lease.rev = rev + 1 \/ e = epoch
           /\ ReleaseIdentityLease(e, rev, now)
           /\ LeaseOutcome(a, lease)
    /\ UNCHANGED <<now, journal, coord, sandbox>>

ExecuteMarkAborted(a) ==
    /\ Planned(a, "mark_aborted")
    /\ Outcome(a, [plan[a].cur EXCEPT !.recovery = "aborted", !.rev = @ + 1])
    /\ UNCHANGED <<leases, epoch, now, journal, coord, sandbox>>

\* An inspection is not automatic: an operator makes it, beside a coordinator
\* that is dead or only slow, and it says something once the provider has
\* answered the request.  The operator knows that no request is still to come
\* from a coordinator that has just recorded its intent; the journal does not
\* show that.
ExecuteInspectReservation(a) ==
    /\ Planned(a, "inspect_sandbox_reservation")
    /\ ~At(a, "intended")
    /\ sandbox[a] \in {"none", "reserved"}
    /\ Outcome(a, [plan[a].cur EXCEPT
          !.recovery = "normal", !.rev = @ + 1,
          !.reservation = IF sandbox[a] = "reserved" THEN "confirmed_applied"
                                                     ELSE "confirmed_not_applied"])
    /\ UNCHANGED <<leases, epoch, now, journal, coord, sandbox>>

ExecuteInspectActivation(a) ==
    /\ Planned(a, "inspect_sandbox_activation")
    /\ sandbox[a] \in {"reserved", "active"}
    /\ Outcome(a, [plan[a].cur EXCEPT
          !.recovery = "normal", !.rev = @ + 1,
          !.activation = IF sandbox[a] = "active" THEN "confirmed_applied"
                                                  ELSE "confirmed_not_applied"])
    /\ UNCHANGED <<leases, epoch, now, journal, coord, sandbox>>

\* A record that resolves an unknown outcome comes from an inspection.
PersistOutcome(a) ==
    /\ plan[a].step = "persist"
    /\ journal' = IF Accepts(a, plan[a].next, plan[a].next.recovery = "normal")
                  THEN [journal EXCEPT ![a] = plan[a].next] ELSE journal
    /\ plan' = [plan EXCEPT ![a] = NoPlan]
    /\ UNCHANGED <<leases, epoch, now, coord, sandbox>>

\* The executor crashes, or it has nothing it may do with its decision.
ExecutorForgets(a) ==
    /\ plan[a].step # "idle"
    /\ plan' = [plan EXCEPT ![a] = NoPlan]
    /\ UNCHANGED <<leases, epoch, now, journal, coord, sandbox>>

----------------------------------------------------------------------------
ActivationInit ==
    /\ LeaseInit
    /\ journal = [a \in Attempts |-> NoAttempt]
    /\ coord = [a \in Attempts |-> CoordinatorAt("idle", "none")]
    /\ plan = [a \in Attempts |-> NoPlan]
    /\ sandbox = [a \in Attempts |-> "none"]

ClockTicks == Tick /\ UNCHANGED <<journal, coord, plan, sandbox>>

Activating(a) ==
    \/ \E expected \in 0..(MaxEpoch - 1), leaseExp \in Expiries :
          BeginActivate(a, expected, leaseExp)
    \/ AdvancePreflighting(a)
    \/ \E expiry \in Expiries : Preflight(a, expiry)
    \/ FreezeSnapshot(a) \/ ReadClock(a) \/ ReserveLease(a) \/ RecordLease(a)
    \/ ResolveBudget(a) \/ RecordAllocateIntent(a) \/ Allocate(a)
    \/ AllocateReturns(a) \/ AllocateFails(a) \/ ConfirmAllocation(a)
    \/ CommitActivation(a) \/ RecordActivateIntent(a) \/ ActivateSandbox(a)
    \/ ActivateReturns(a) \/ ActivateFails(a) \/ ConfirmActivation(a)
    \/ OpenAndInspect(a) \/ CoordinatorDies(a)

Stopping(a) ==
    \/ BeginStop(a) \/ StopFencesSandbox(a) \/ StopReleasesSandbox(a)
    \/ StopRevokesLease(a) \/ StopReleasesLease(a) \/ StopFails(a)

Recovering(a) ==
    \/ RecoverActivation(a) \/ ExecuteBeginAbort(a) \/ ExecuteFence(a)
    \/ ExecuteRelease(a) \/ ExecuteRevoke(a) \/ ExecuteReleaseLease(a)
    \/ ExecuteMarkAborted(a) \/ ExecuteInspectReservation(a)
    \/ ExecuteInspectActivation(a) \/ PersistOutcome(a) \/ ExecutorForgets(a)

Environment(a) ==
    \/ ProviderApplies(a) \/ ProviderRefuses(a)
    \/ \E expiry \in Expiries : SupervisorRenews(a, expiry)

ActivationNext ==
    \/ ClockTicks
    \/ \E a \in Attempts :
          Activating(a) \/ Stopping(a) \/ Recovering(a) \/ Environment(a)

ActivationSpec == ActivationInit /\ [][ActivationNext]_activationVars

----------------------------------------------------------------------------
(* Properties.                                                             *)

\* Types; a recorded lease is one of the identity's epochs.
ActivationTypeOK ==
    /\ LeaseTypeOK
    /\ journal \in [Attempts -> AttemptRecord]
    /\ \A a \in Attempts : coord[a].cur \in AttemptRecord
    /\ \A a \in Attempts : plan[a].cur \in AttemptRecord /\ plan[a].next \in AttemptRecord
    /\ sandbox \in [Attempts -> {"none", "requested", "reserved", "activating",
                                 "active", "fenced", "released"}]

\* The commit is one logical commit of two facts: an attempt is committed
\* exactly when its own lease has been activated, and a lease is active only
\* for the attempt that committed on it, through every crash and every race
\* with the executor (CommitActivation; ActivationFactPort's comment).
CommitIsAtomic ==
    /\ \A a \in Attempts : journal[a].stage >= Committed =>
          LET l == leases[journal[a].leaseID]
          IN  /\ l.attempt = a
              /\ l.state # "reserved"
              /\ l.rev >= journal[a].leaseRev
    /\ \A e \in Epochs : leases[e].state = "active" =>
          /\ leases[e].attempt \in Attempts
          /\ journal[leases[e].attempt].stage >= Committed
          /\ journal[leases[e].attempt].leaseID = e

\* Coordinator and executor never overwrite what they have not read: a copy
\* whose revision is the journal's revision is the journal's record
\* (CompareAndSwapActivation, ValidateTransition).
CopyIsCurrent ==
    \A a \in Attempts :
        /\ Cur(a).rev = journal[a].rev => Cur(a) = journal[a] \/ journal[a].rev = 0
        /\ plan[a].cur.rev = journal[a].rev => plan[a].cur = journal[a] \/ journal[a].rev = 0

\* A sandbox the provider holds, or may still create, for an attempt is on
\* record: whatever crashes, the journal shows an intent, an unknown outcome
\* or a confirmed reservation for it, and never calls the attempt aborted
\* (write-ahead intent in Activate; Validate's rule for aborted).
SandboxAccounted ==
    \A a \in Attempts :
        sandbox[a] \in {"requested", "reserved", "activating", "active", "fenced"} =>
            /\ journal[a].reservation \in
                  {"intent_recorded", "unknown_outcome", "confirmed_applied"}
            /\ journal[a].recovery # "aborted"

\* An attempt reaches sandbox_active only while it still holds the identity:
\* its lease is active, unexpired and the identity's latest.  The journal
\* never looks at the lease for this step; the snapshot's expiry stands in
\* for it (buildActivationSnapshot, ValidateFresh).
ActiveUnderLeaseStep ==
    \A a \in Attempts :
        journal[a].stage # SandboxActive /\ journal'[a].stage = SandboxActive =>
            /\ journal[a].leaseID = epoch
            /\ leases[epoch].attempt = a
            /\ leases[epoch].state = "active"
            /\ now < leases[epoch].exp
ActiveUnderLease == [][ActiveUnderLeaseStep]_activationVars

\* An instance reported terminal has given everything back: its sandbox is
\* released and its identity lease is released (Stop).
TerminalMeansReleased ==
    \A a \in Attempts : coord[a].phase = "terminal" =>
        /\ sandbox[a] = "released"
        /\ leases[Cur(a).leaseID].state = "released"

\* The activation machinery uses the lease store only through its operations:
\* what it does to the leases is a behaviour of the lease store.
ImplementsLeaseStore == LeaseInit /\ [][LeaseNext]_leaseVars

\* What the abort path says when it finishes, "all activation obligations are
\* settled" (abortDecision): an aborted attempt no longer holds the identity,
\* by a lease that is still in time.
AbortedHoldsNoLease ==
    \A a \in Attempts : journal[a].recovery = "aborted" =>
        \A e \in Epochs : leases[e].attempt = a =>
            ~(Held(leases[e]) /\ now < leases[e].exp)

\* "reserved sandbox must be fenced before release" (abortDecision): the
\* planner proposes to release an applied reservation only once it is fenced.
FencedBeforeRelease ==
    \A a \in Attempts :
        /\ journal[a].rev > 0
        /\ journal[a].reservation = "confirmed_applied"
        /\ PlanRecovery(journal[a], now) = "release_sandbox"
        => journal[a].fenced

============================================================================
