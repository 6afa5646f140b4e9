-------------------------- MODULE InstanceAggregate --------------------------
(***************************************************************************)
(* The lifecycle of one instance: the three orthogonal dimensions of       *)
(* InstanceState (runtime/core/state.go) and the aggregate that moves them *)
(* under optimistic preconditions (runtime/kernel/aggregate.go).           *)
(*                                                                         *)
(* Callers may ask for any next state under any context and with any       *)
(* revision they once read.  The epochs of the preconditions are fixed for *)
(* one instance, except the sandbox lease epoch: it is there exactly when  *)
(* a lease is bound, and a caller that has not seen the binding fails on   *)
(* its revision as well.                                                   *)
(***************************************************************************)
EXTENDS Naturals

CONSTANT MaxRevision  \* bound: no transition from this aggregate revision on

ASSUME AggregateAssumption == MaxRevision \in Nat \ {0}

VARIABLES state,    \* InstanceState
          bound,    \* scope.SandboxLease is set
          revision

aggregateVars == <<state, bound, revision>>

\* lifecycleIndex, phaseIndex
Pending      == 0
Admitted     == 1
Preflighting == 2
Activating   == 3
Provisioning == 4
Binding      == 5
Starting     == 6
Ready        == 7
Running      == 8
Stopping     == 9
Terminal     == 10

InstanceState ==
    [phase       : Pending..Terminal,
     certainty   : {"confirmed", "unknown", "lost", "fenced"},
     cleanup     : {"not_required", "pending", "complete", "failed", "indeterminate"},
     obligations : BOOLEAN,
     evidence    : BOOLEAN]

\* TransitionContext
Context == [inspectComplete : BOOLEAN, retryAuthorized : BOOLEAN,
            completionRetracted : BOOLEAN]

\* Faulty variant.
StateValidFencedAnywhere(s) ==
    /\ s.phase <= Preflighting =>
          s.certainty = "confirmed" /\ s.cleanup = "not_required" /\ ~s.obligations
    /\ s.obligations <=> s.cleanup # "not_required"
    /\ s.evidence <=> s.cleanup = "complete"
    /\ s.cleanup = "complete" => s.phase = Terminal

\* InstanceState.Validate
StateValid(s) ==
    /\ s.phase <= Preflighting =>
          s.certainty = "confirmed" /\ s.cleanup = "not_required" /\ ~s.obligations
    /\ s.certainty = "unknown" => s.phase >= Activating
    /\ s.certainty = "lost" => s.phase >= Provisioning
    /\ s.certainty = "fenced" => s.phase \in {Stopping, Terminal}
    /\ s.obligations <=> s.cleanup # "not_required"
    /\ s.cleanup = "complete" => s.phase = Terminal
    /\ s.evidence <=> s.cleanup = "complete"
    /\ s.cleanup \in {"failed", "indeterminate"} => s.phase \in {Stopping, Terminal}

\* validLifecycleMove, after the check that a terminal lifecycle stays so
LifecycleMove(from, to) ==
    \/ from = to
    \/ to = Stopping /\ from # Terminal
    \/ to = from + 1

\* ValidateStateTransition
StateTransitionValid(from, to, ctx) ==
    /\ StateValid(from)
    /\ StateValid(to)
    /\ LifecycleMove(from.phase, to.phase)
    /\ from.certainty = "fenced" => to.certainty = "fenced"
    /\ from.certainty \in {"unknown", "lost"} /\ to.certainty = "confirmed"
          => ctx.inspectComplete
    /\ from.cleanup = "complete" /\ to.cleanup # "complete"
          => ctx.completionRetracted
    /\ from.cleanup \in {"failed", "indeterminate"} /\ to.cleanup = "pending"
          => ctx.retryAuthorized

\* validateScopeState
ScopeStateValid(hasLease, s) ==
    /\ s.phase <= Activating => ~hasLease
    /\ s.phase \in Provisioning..Running => hasLease
    /\ hasLease => s.obligations

NoContext == [inspectComplete |-> FALSE, retryAuthorized |-> FALSE,
              completionRetracted |-> FALSE]

----------------------------------------------------------------------------
\* NewAggregate, as Activate calls it.
AggregateInit ==
    /\ state = [phase |-> Pending, certainty |-> "confirmed",
                cleanup |-> "not_required", obligations |-> FALSE,
                evidence |-> FALSE]
    /\ bound = FALSE
    /\ revision = 1

\* Faulty variant.
TransitionTwice(expected, next, ctx) ==
    /\ expected = revision
    /\ StateTransitionValid(state, next, ctx)
    /\ ScopeStateValid(bound, next)
    /\ state' = next
    /\ revision' = revision + 2
    /\ UNCHANGED bound

Transition(expected, next, ctx) ==
    /\ expected = revision
    /\ StateTransitionValid(state, next, ctx)
    /\ ScopeStateValid(bound, next)
    /\ state' = next
    /\ revision' = revision + 1
    /\ UNCHANGED bound

CommitActivation(expected, next) ==
    /\ expected = revision
    /\ state.phase = Activating /\ next.phase = Provisioning /\ ~bound
    /\ StateTransitionValid(state, next, NoContext)
    /\ ScopeStateValid(TRUE, next)
    /\ state' = next
    /\ bound' = TRUE
    /\ revision' = revision + 1

AggregateNext ==
    /\ revision < MaxRevision
    /\ \E expected \in 1..revision, next \in InstanceState :
          \/ \E ctx \in Context : Transition(expected, next, ctx)
          \/ CommitActivation(expected, next)

AggregateSpec == AggregateInit /\ [][AggregateNext]_aggregateVars

----------------------------------------------------------------------------
\* Types.
AggregateTypeOK ==
    /\ state \in InstanceState
    /\ bound \in BOOLEAN
    /\ revision \in 1..MaxRevision

\* A fenced instance never executes again, whatever its callers ask for under
\* whatever context: there is no way from fenced back to a phase before
\* stopping (ValidateStateTransition with Validate).
FencedForever ==
    [](state.certainty = "fenced" =>
         [](state.certainty = "fenced" /\ state.phase \in {Stopping, Terminal}))

\* The kernel design's rule 5: only a confirmed instance advances its
\* lifecycle; an unknown or lost one may at most be stopped.
AdvancesOnlyConfirmed ==
    [][state'.phase # state.phase /\ state'.phase \notin {Stopping, Terminal}
         => state.certainty = "confirmed"]_aggregateVars

============================================================================
