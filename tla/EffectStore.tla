----------------------------- MODULE EffectStore -----------------------------
(***************************************************************************)
(* Governed effects: the facts of external actions and of the permits that *)
(* let them happen (runtime/control/effect_fact_v2.go), the store that     *)
(* keeps both (runtime/fakes/effect_store_v2.go) and the gateway through   *)
(* which permits are issued and begun (runtime/control/                    *)
(* governance_gateway_v2.go).                                              *)
(*                                                                         *)
(* Several gateways work at once.  A gateway first reads the effect, the   *)
(* permit and the facts that govern them, and then calls the store; the    *)
(* clock, the other gateways and the owners of the governing facts move in *)
(* between, and a gateway may die there.  A reply that is lost changes     *)
(* nothing in the store: the caller reads again.                           *)
(*                                                                         *)
(* Abstracted: the identity lease, binding set, authority, policy, review, *)
(* budget, credentials and scope of an effect are one grant, which expires *)
(* when the first of them does and is lost when one of them is revised or  *)
(* revoked (an intent binds exact revisions, so that a lost grant stays    *)
(* lost); payloads, owners and digests; the disposition of a settlement.   *)
(* One tenant.  Callers keep the rules of the code that serves them: only  *)
(* Issue binds a permit to an effect, only Begin begins one, and a new     *)
(* effect is what NewProposedEffectFactV2 returns (the store would also    *)
(* take one that comes with conclusions of its own).                       *)
(***************************************************************************)
EXTENDS Naturals, FiniteSets

CONSTANTS Effects,
          Permits,
          Gateways,
          Domains,
          Keys,
          Intents,       \* [Effects -> set of intents the effect may be created with]
          Attempts,      \* [Effects -> set of permits its dispatch may use]
          GrantExpires,  \* [Effects -> first expiry of a governing fact]
          Losable,       \* bound: effects whose grant may be lost
          TTL,           \* lifetime a caller asks for its permit
          MaxTime,       \* bound: last value of the clock
          None

Purposes == {"own", "inspects", "compensates", "cleans"}
Intent == [domain   : Domains,
           key      : Keys,
           purpose  : Purposes,
           original : Effects,
           residual : BOOLEAN,
           cleanup  : BOOLEAN]

ASSUME EffectAssumption ==
    /\ Intents \in [Effects -> SUBSET Intent]
    /\ Attempts \in [Effects -> SUBSET Permits]
    /\ GrantExpires \in [Effects -> Nat]
    /\ Losable \in SUBSET Effects
    /\ TTL \in Nat \ {0}
    /\ MaxTime \in Nat
    /\ None \notin Effects \cup Permits

VARIABLES effects,    \* [Effects -> fact]
          permits,    \* [Permits -> permit fact]
          conflicts,  \* [Domains -> effect that occupies the domain, or None]
          lost,       \* effects whose grant was revised or revoked
          lateIssue,  \* history: permits written after their grant was lost
          now,
          call        \* [Gateways -> call in progress]

effectVars == <<effects, permits, conflicts, lost, lateIssue, now, call>>

EffectStates == {"absent", "proposed", "accepted", "dispatch_intent",
                 "dispatched", "unknown_outcome", "settled", "compensated",
                 "rejected"}
PermitStates == {"absent", "issued", "begun", "expired", "revoked"}
ResidualStates == {"not_required", "pending", "confirmed_absent", "present", "unknown"}
CleanupStates == {"not_required", "pending", "complete", "failed", "indeterminate"}

\* inspection, compensation, residualBy and cleanupBy name the independent
\* effect a conclusion cites.
EffectFact ==
    [state        : EffectStates,
     rev          : Nat,
     intent       : Intent \cup {None},
     permit       : Permits \cup {None},
     receipt      : BOOLEAN,
     inspection   : Effects \cup {None},
     compensation : Effects \cup {None},
     residual     : ResidualStates,
     residualBy   : Effects \cup {None},
     cleanup      : CleanupStates,
     cleanupBy    : Effects \cup {None}]

PermitFact ==
    [state     : PermitStates,
     rev       : Nat,
     effect    : Effects \cup {None},
     effectRev : Nat,
     expires   : Nat,
     begunAt   : Nat,
     enforced  : BOOLEAN]

\* readAt is when the gateway read; the store's clock is read after that.
Call == [op        : {"idle", "issue", "begin"},
         effect    : Effects \cup {None},
         permit    : Permits \cup {None},
         effectRev : Nat,
         permitRev : Nat,
         expires   : Nat,
         readAt    : Nat]

NoEffect == [state |-> "absent", rev |-> 0, intent |-> None, permit |-> None,
             receipt |-> FALSE, inspection |-> None, compensation |-> None,
             residual |-> "not_required", residualBy |-> None,
             cleanup |-> "not_required", cleanupBy |-> None]
NoPermit == [state |-> "absent", rev |-> 0, effect |-> None, effectRev |-> 0,
             expires |-> 0, begunAt |-> 0, enforced |-> FALSE]
NoCall == [op |-> "idle", effect |-> None, permit |-> None, effectRev |-> 0,
           permitRev |-> 0, expires |-> 0, readAt |-> 0]

Init ==
    /\ effects = [e \in Effects |-> NoEffect]
    /\ permits = [p \in Permits |-> NoPermit]
    /\ conflicts = [d \in Domains |-> None]
    /\ lost = {}
    /\ lateIssue = {}
    /\ now = 0
    /\ call = [g \in Gateways |-> NoCall]

----------------------------------------------------------------------------
(* The rules of an effect fact.                                            *)

\* Faulty variant.
ProposedUntyped(i) ==
    [NoEffect EXCEPT !.state = "proposed", !.rev = 1, !.intent = i,
                     !.residual = IF i.residual THEN "required" ELSE "not_required"]

\* NewProposedEffectFactV2
Proposed(i) ==
    [NoEffect EXCEPT !.state = "proposed", !.rev = 1, !.intent = i,
                     !.residual = IF i.residual THEN "pending" ELSE "not_required",
                     !.cleanup = IF i.cleanup THEN "pending" ELSE "not_required"]

ConflictDomainOccupied(f) ==
    /\ f.state /= "rejected"
    /\ \/ f.state \notin {"settled", "compensated"}
       \/ f.residual \notin {"not_required", "confirmed_absent"}
       \/ f.cleanup \notin {"not_required", "complete"}

\* Faulty variant.
CompletedFor(purpose, e) ==
    {i \in Effects : /\ effects[i].state \in {"dispatched", "settled"}
                     /\ effects[i].intent.purpose = purpose
                     /\ effects[i].intent.original = e}

\* compensationSettledV2, unknownInspectionSettledV2, resolutionSettledV2:
\* the effects a conclusion of e may cite.
SettledFor(purpose, e) ==
    {i \in Effects : /\ effects[i].state = "settled"
                     /\ effects[i].intent.purpose = purpose
                     /\ effects[i].intent.original = e}

\* Faulty variant.
ResidualsReopen(e) ==
    {[state |-> effects[e].residual, by |-> effects[e].residualBy]} \cup
    [state : {"confirmed_absent", "present", "unknown"}, by : SettledFor("inspects", e)]

\* The two closure dimensions of e before and after one compare-and-swap: a
\* conclusion is drawn once, from pending, and cites its effect.
\* validateClosureTransitionV2
Residuals(e) ==
    LET f == effects[e] IN
    {[state |-> f.residual, by |-> f.residualBy]} \cup
    {[state |-> s, by |-> i] :
        s \in IF f.residual = "pending"
              THEN {"confirmed_absent", "present", "unknown"} ELSE {},
        i \in SettledFor("inspects", e)}

Cleanups(e) ==
    LET f == effects[e] IN
    {[state |-> f.cleanup, by |-> f.cleanupBy]} \cup
    {[state |-> s, by |-> i] :
        s \in IF f.cleanup = "pending"
              THEN {"complete", "failed", "indeterminate"} ELSE {},
        i \in SettledFor("cleans", e)}

PermitBegun(f) == f.permit /= None /\ permits[f.permit].state = "begun"

\* providerReceiptMatchesPermitV2
ReceiptMatches(f) == PermitBegun(f) /\ permits[f.permit].enforced

----------------------------------------------------------------------------
(* The store's operations on effects.                                      *)

\* The idempotency index.
Created == {e \in Effects : effects[e].state /= "absent"}
BoundKeys == {effects[e].intent.key : e \in Created}

\* CreateEffect.  A second create of the same effect, or of one that bears
\* the idempotency key of another, leaves the store alone.
CreateEffect(e, i) ==
    /\ effects[e].state = "absent"
    /\ i.key \notin BoundKeys
    /\ effects' = [effects EXCEPT ![e] = Proposed(i)]
    /\ UNCHANGED <<permits, conflicts, lost, lateIssue, now, call>>

\* Faulty variant.
KeptAfterReject(next, claimed) ==
    IF next.state = "rejected" \/ ConflictDomainOccupied(next) THEN claimed
    ELSE [claimed EXCEPT ![next.intent.domain] = None]

\* A fact that does not occupy its domain clears the domain's entry, whoever
\* holds it.
ConflictsAfter(next, claimed) ==
    IF ConflictDomainOccupied(next) THEN claimed
    ELSE [claimed EXCEPT ![next.intent.domain] = None]

\* The write that ends every compare-and-swap of an effect; the closure
\* dimensions may move with the main state.
\* CompareAndSwapEffect
Swap(e, main, claimed) ==
    \E r \in Residuals(e), c \in Cleanups(e) :
        LET next == [main EXCEPT !.rev = @ + 1,
                                 !.residual = r.state, !.residualBy = r.by,
                                 !.cleanup = c.state, !.cleanupBy = c.by]
        IN /\ effects' = [effects EXCEPT ![e] = next]
           /\ conflicts' = ConflictsAfter(next, claimed)
           /\ UNCHANGED <<permits, lost, lateIssue, now, call>>

Accept(e) ==
    LET f == effects[e]
        d == f.intent.domain
    IN /\ f.state = "proposed"
       /\ conflicts[d] \in {None, e}
       /\ Swap(e, [f EXCEPT !.state = "accepted"], [conflicts EXCEPT ![d] = e])

Reject(e) ==
    LET f == effects[e] IN
    /\ f.state \in {"proposed", "accepted", "dispatch_intent"}
    /\ ~PermitBegun(f)
    /\ Swap(e, [f EXCEPT !.state = "rejected"], conflicts)

Dispatch(e) ==
    LET f == effects[e] IN
    /\ f.state = "dispatch_intent"
    /\ ReceiptMatches(f)
    /\ Swap(e, [f EXCEPT !.state = "dispatched", !.receipt = TRUE], conflicts)

LoseOutcome(e) ==
    LET f == effects[e] IN
    /\ f.state = "dispatch_intent"
    /\ PermitBegun(f)
    /\ Swap(e, [f EXCEPT !.state = "unknown_outcome"], conflicts)

\* The settlement of a dispatched effect; an inspection it names is not
\* looked at.
Settle(e) ==
    LET f == effects[e] IN
    /\ f.state = "dispatched"
    /\ Swap(e, [f EXCEPT !.state = "settled"], conflicts)

SettleUnknown(e) ==
    LET f == effects[e] IN
    /\ f.state = "unknown_outcome"
    /\ \E i \in SettledFor("inspects", e) :
          Swap(e, [f EXCEPT !.state = "settled", !.inspection = i], conflicts)

Compensate(e) ==
    LET f == effects[e] IN
    /\ f.state = "settled"
    /\ \E x \in SettledFor("compensates", e) :
          Swap(e, [f EXCEPT !.state = "compensated", !.compensation = x], conflicts)

\* A compare-and-swap that keeps the main state must move a closure dimension.
Conclude(e) ==
    LET f == effects[e] IN
    /\ f.state \in {"dispatched", "unknown_outcome", "settled", "compensated"}
    /\ Swap(e, f, conflicts)
    /\ \/ effects'[e].residual /= f.residual
       \/ effects'[e].cleanup /= f.cleanup

----------------------------------------------------------------------------
(* Permits: the gateway reads, then the store writes.                      *)

Earlier(a, b) == IF a <= b THEN a ELSE b

\* Faulty variant.
GrantUnexpired(e) == now < GrantExpires[e]

GrantCurrent(e) == e \notin lost /\ now < GrantExpires[e]

\* The permit expires with the first of the facts that govern it.
PermitExpires(e) == Earlier(now + TTL, GrantExpires[e])

\* GovernanceDispatchGatewayV2.Issue, up to its call of the store.
IssueRead(g, e, p) ==
    /\ call[g] = NoCall
    /\ effects[e].state = "accepted"
    /\ GrantCurrent(e)
    /\ call' = [call EXCEPT ![g] = [op |-> "issue", effect |-> e, permit |-> p,
                                    effectRev |-> effects[e].rev, permitRev |-> 0,
                                    expires |-> PermitExpires(e), readAt |-> now]]
    /\ UNCHANGED <<effects, permits, conflicts, lost, lateIssue, now>>

\* Faulty variant.
NotYetBegun(r) == effects[r.effect].state \in {"accepted", "dispatch_intent"}

IssueCurrent(r) ==
    effects[r.effect].state = "accepted" /\ effects[r.effect].rev = r.effectRev

\* Writes the dispatch intent and the issued permit together.  The store reads
\* its clock before it takes its lock: the time t it goes by may have passed.
IssueDispatchPermit(g, t) ==
    LET r == call[g] IN
    /\ r.op = "issue"
    /\ r.readAt <= t
    /\ permits[r.permit].state = "absent"
    /\ IssueCurrent(r)
    /\ t < r.expires
    /\ effects' = [effects EXCEPT ![r.effect].state = "dispatch_intent",
                                  ![r.effect].rev = @ + 1,
                                  ![r.effect].permit = r.permit]
    /\ permits' = [permits EXCEPT ![r.permit] =
                      [NoPermit EXCEPT !.state = "issued", !.rev = 1,
                                       !.effect = r.effect,
                                       !.effectRev = effects[r.effect].rev + 1,
                                       !.expires = r.expires]]
    /\ lateIssue' = IF r.effect \in lost THEN lateIssue \cup {r.permit} ELSE lateIssue
    /\ call' = [call EXCEPT ![g] = NoCall]
    /\ UNCHANGED <<conflicts, lost, now>>

\* GovernanceDispatchGatewayV2.Begin, up to its call of the store.
BeginRead(g, e, p) ==
    /\ call[g] = NoCall
    /\ effects[e].state = "dispatch_intent"
    /\ effects[e].permit = p
    /\ permits[p].state = "issued"
    /\ permits[p].effectRev = effects[e].rev
    /\ now < permits[p].expires
    /\ GrantCurrent(e)
    /\ call' = [call EXCEPT ![g] = [op |-> "begin", effect |-> e, permit |-> p,
                                    effectRev |-> effects[e].rev,
                                    permitRev |-> permits[p].rev, expires |-> 0,
                                    readAt |-> now]]
    /\ UNCHANGED <<effects, permits, conflicts, lost, lateIssue, now>>

\* Faulty variant.
PermitCurrent(r) == permits[r.permit].rev = r.permitRev

BeginCurrent(r) ==
    LET f == effects[r.effect]
        q == permits[r.permit]
    IN /\ f.state = "dispatch_intent" /\ f.rev = r.effectRev /\ f.permit = r.permit
       /\ q.rev = r.permitRev /\ q.effectRev = f.rev

\* Here too the store's time t is read before the lock.
BeginDispatch(g, t) ==
    LET r == call[g] IN
    /\ r.op = "begin"
    /\ r.readAt <= t
    /\ BeginCurrent(r)
    /\ permits[r.permit].state = "issued"
    /\ t < permits[r.permit].expires
    /\ permits' = [permits EXCEPT ![r.permit].state = "begun", ![r.permit].rev = @ + 1,
                                  ![r.permit].begunAt = t]
    /\ call' = [call EXCEPT ![g] = NoCall]
    /\ UNCHANGED <<effects, conflicts, lost, lateIssue, now>>

\* The store refuses the call, or the gateway dies before it makes it.
EndCall(g) ==
    /\ call[g] /= NoCall
    /\ call' = [call EXCEPT ![g] = NoCall]
    /\ UNCHANGED <<effects, permits, conflicts, lost, lateIssue, now>>

\* The execution point's receipt, after Begin; the effect is not looked at.
RecordEnforcementReceipt(p) ==
    /\ permits[p].state = "begun"
    /\ ~permits[p].enforced
    /\ permits' = [permits EXCEPT ![p].enforced = TRUE, ![p].rev = @ + 1]
    /\ UNCHANGED <<effects, conflicts, lost, lateIssue, now, call>>

\* CompareAndSwapDispatchPermit
ExpirePermit(p) ==
    /\ permits[p].state = "issued"
    /\ now >= permits[p].expires
    /\ permits' = [permits EXCEPT ![p].state = "expired", ![p].rev = @ + 1]
    /\ UNCHANGED <<effects, conflicts, lost, lateIssue, now, call>>

RevokePermit(p) ==
    /\ permits[p].state = "issued"
    /\ permits' = [permits EXCEPT ![p].state = "revoked", ![p].rev = @ + 1]
    /\ UNCHANGED <<effects, conflicts, lost, lateIssue, now, call>>

----------------------------------------------------------------------------
(* The environment.                                                        *)

LoseGrant(e) ==
    /\ e \in Losable \ lost
    /\ lost' = lost \cup {e}
    /\ UNCHANGED <<effects, permits, conflicts, lateIssue, now, call>>

Tick ==
    /\ now < MaxTime
    /\ now' = now + 1
    /\ UNCHANGED <<effects, permits, conflicts, lost, lateIssue, call>>

EffectStep(e) ==
    \/ \E i \in Intents[e] : CreateEffect(e, i)
    \/ Accept(e) \/ Reject(e) \/ Dispatch(e) \/ LoseOutcome(e)
    \/ Settle(e) \/ SettleUnknown(e) \/ Compensate(e) \/ Conclude(e)
    \/ LoseGrant(e)

GatewayStep(g) ==
    \/ \E e \in Effects, p \in Permits :
          p \in Attempts[e] /\ (IssueRead(g, e, p) \/ BeginRead(g, e, p))
    \/ \E t \in 0..now : IssueDispatchPermit(g, t) \/ BeginDispatch(g, t)
    \/ EndCall(g)

PermitStep(p) ==
    RecordEnforcementReceipt(p) \/ ExpirePermit(p) \/ RevokePermit(p)

Next ==
    \/ \E e \in Effects : EffectStep(e)
    \/ \E g \in Gateways : GatewayStep(g)
    \/ \E p \in Permits : PermitStep(p)
    \/ Tick

EffectSpec == Init /\ [][Next]_effectVars

----------------------------------------------------------------------------
(* Properties.                                                             *)

\* Every fact the store and the gateways keep has its shape.
EffectTypeOK ==
    /\ effects \in [Effects -> EffectFact]
    /\ permits \in [Permits -> PermitFact]
    /\ conflicts \in [Domains -> Effects \cup {None}]
    /\ lost \in SUBSET Effects
    /\ lateIssue \in SUBSET Permits
    /\ now \in Nat
    /\ call \in [Gateways -> Call]

\* A rejection is safe: whatever gateway call was on its way when the effect
\* was rejected, none of the effect's permits is ever begun (Reject against
\* BeginDispatch).
RejectedNeverBegins ==
    \A e \in Effects, p \in Permits :
        permits[p].effect = e /\ permits[p].state = "begun" =>
            effects[e].state \notin {"proposed", "accepted", "rejected"}

\* An effect is attempted once: every permit ever issued for it is the one
\* its fact names, however many gateways race with permits of their own.
OneAttempt ==
    \A p \in Permits :
        permits[p].effect /= None => effects[permits[p].effect].permit = p

\* A permit that was begun was begun, by the store's clock, before every fact
\* that governs it expired, and those facts were still current after it was
\* issued: a grant lost between the gateway's reading and the store's issue is
\* caught by Begin, which reads again.
BegunUnderGrant ==
    \A p \in Permits : permits[p].state = "begun" =>
        /\ permits[p].begunAt < permits[p].expires
        /\ permits[p].expires <= GrantExpires[permits[p].effect]
        /\ p \notin lateIssue

\* Every conclusion rests on evidence of another effect or of the execution
\* point: an effect settles on a receipt of its own enforced permit or on an
\* inspection of it; a compensation, a residual and a cleanup conclusion cite
\* an effect made for that; and what is cited was itself settled.
Cited(i, purpose, e) ==
    /\ i \in Effects
    /\ effects[i].state \in {"settled", "compensated"}
    /\ effects[i].intent.purpose = purpose
    /\ effects[i].intent.original = e

ConclusionsAreGrounded ==
    \A e \in Effects : LET f == effects[e] IN
        /\ f.state \in {"settled", "compensated"} =>
              \/ f.receipt /\ permits[f.permit].enforced /\ permits[f.permit].state = "begun"
              \/ Cited(f.inspection, "inspects", e)
        /\ f.state = "compensated" => Cited(f.compensation, "compensates", e)
        /\ f.residual \notin {"not_required", "pending"} => Cited(f.residualBy, "inspects", e)
        /\ f.cleanup \notin {"not_required", "pending"} => Cited(f.cleanupBy, "cleans", e)

\* The occupant the index names is an effect of that domain that still
\* occupies it: InspectConflictDomain never finds the index drifted.
IndexNeverDrifts ==
    \A d \in Domains : conflicts[d] /= None =>
        LET f == effects[conflicts[d]] IN
        /\ f.state \notin {"absent", "proposed"}
        /\ f.intent.domain = d
        /\ ConflictDomainOccupied(f)

\* An effect that released its conflict domain never needs it again,
\* whatever is compensated or concluded afterwards.
ReleaseIsFinal ==
    [][\A e \in Effects :
          ~ConflictDomainOccupied(effects[e]) => ~ConflictDomainOccupied(effects'[e])]_effectVars

\* A conflict domain has at most one effect between its acceptance and the
\* closure of all its dimensions.
Active(e) ==
    /\ effects[e].state \notin {"absent", "proposed"}
    /\ ConflictDomainOccupied(effects[e])

OneActivePerDomain ==
    \A e, f \in Effects :
        /\ Active(e) /\ Active(f)
        /\ effects[e].intent.domain = effects[f].intent.domain
        => e = f
=============================================================================
