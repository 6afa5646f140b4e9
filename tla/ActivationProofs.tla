-------------------------- MODULE ActivationProofs --------------------------
(***************************************************************************)
(* The safety of activation, for any number of attempts that race for the  *)
(* identity, every bound, every crash of a coordinator or an executor and  *)
(* every interleaving of the two.                                          *)
(*                                                                         *)
(* What an attempt's parties hold is a matter of that attempt alone: the   *)
(* invariant is a conjunction over the attempts, of what the journal, the  *)
(* coordinator, the executor and the sandbox of one attempt have to do     *)
(* with each other and with the leases of the identity.  An attempt meets  *)
(* the others only in the lease store, where all they can do to its lease  *)
(* is let it expire.                                                       *)
(***************************************************************************)
EXTENDS Activation, IdentityLeaseProofs

----------------------------------------------------------------------------
(* The invariant.                                                          *)

\* Coordinators: before the lease is reserved, up to the commit, up to the
\* active sandbox, and after.
Unleased == {"created", "preflighting", "passed", "frozen", "reserving"}
Leased == {"reserved", "leased", "budgeted", "intended", "allocating",
           "allocated", "sandbox_reserved", "committing"}
Provisioning == {"committed", "activate_intended", "activating", "activated"}
Serving == {"binding", "ready", "stopping", "sandbox_fenced", "sandbox_released"}
Closing == {"lease_revoked", "stop_failed", "terminal"}
Running == Unleased \cup Leased \cup Provisioning \cup Serving \cup Closing

Phases == {"none", "preflighting", "activating", "provisioning", "binding",
           "ready", "stopping", "terminal"}

CoordinatorType ==
    [pc        : Running \cup {"idle", "dead"},
     phase     : Phases,
     cur       : AttemptRecord,
     t         : Nat,
     preflight : Nat,
     leaseExp  : Expiries \cup {0},
     leaseRev  : Nat]

\* The attempt is being aborted, or has been.
Abandoned(at) == at.recovery \in {"aborting", "aborted"}

Sandboxed == {"requested", "reserved", "activating", "active", "fenced"}
SandboxStates == Sandboxed \cup {"none", "released"}
OnRecord == {"intent_recorded", "unknown_outcome", "confirmed_applied"}
Unresolved == {"intent_recorded", "unknown_outcome"}

\* A lease that was reserved has a holder and a revision.
LeasesFilled(ls) ==
    \A e \in Epochs : ls[e].state # "absent" => ls[e].attempt \in Attempts /\ ls[e].rev > 0

\* The lease that a record of attempt a names, at no later a revision than
\* the lease has.
LeaseOnRecord(a, at, ls) ==
    at.leaseID # 0 =>
        /\ at.leaseID \in Epochs
        /\ ls[at.leaseID].state # "absent"
        /\ ls[at.leaseID].attempt = a
        /\ at.leaseRev \in 1..ls[at.leaseID].rev
        /\ at.stage >= Committed => ls[at.leaseID].state # "reserved"

\* A copy of the journal's record: an earlier one, or this one.
CopyOf(at, j) ==
    /\ at.rev <= j.rev
    /\ at.rev = j.rev => at = j
    /\ at.stage <= j.stage
    /\ Abandoned(at) => Abandoned(j)

\* The journal's record.
JournalGood(a, j, ls) ==
    /\ j \in AttemptRecord
    /\ j = NoAttempt \/ AttemptValid(j)
    /\ LeaseOnRecord(a, j, ls)
    /\ j.reservation = "released" => Abandoned(j)
    /\ \A e \in Epochs : ls[e].state = "active" /\ ls[e].attempt = a =>
          j.stage >= Committed /\ j.leaseID = e

\* What the sandbox has to do with the journal.
SandboxGood(j, s) ==
    /\ s \in SandboxStates
    /\ s \in Sandboxed => j.reservation \in OnRecord

\* The lease a coordinator works under, while nobody has renewed it.
OwnLease(a, c, ls, n) ==
    LET e == c.cur.expected + 1
    IN  /\ ls[e].state # "absent"
        /\ ls[e].attempt = a
        /\ ls[e].exp = c.leaseExp
        /\ c.cur.leaseID \in {0, e}
        /\ c.pc = "reserved" => c.leaseRev = 1
        /\ c.pc \in Provisioning =>
              ls[e].state = "active" \/ (ls[e].state = "expired" /\ n >= ls[e].exp)

\* The coordinator.
CoordGood(a, c, j, s, ls, n) ==
    /\ c \in CoordinatorType
    /\ c.t <= n
    /\ c.phase = "terminal" => c.pc = "terminal"
    /\ CopyOf(c.cur, j)
    /\ LeaseOnRecord(a, c.cur, ls)
    /\ \/ c.pc = "idle" /\ c.cur = NoAttempt /\ j = NoAttempt
       \/ c = Dead
       \/ /\ c.pc \in Running
          /\ AttemptValid(c.cur)
          /\ c.cur.recovery = "normal"
          /\ c.cur.snapshot <= c.leaseExp
    /\ c.pc \in Unleased \cup {"idle"} => \A e \in Epochs : ls[e].attempt # a
    /\ c.pc \in Leased \cup Provisioning => OwnLease(a, c, ls, n)
    /\ c.pc = "intended" => j.reservation = "intent_recorded"
    /\ c.pc \in Provisioning \cup Serving \cup Closing => c.cur.stage >= Committed
    /\ c.pc \in Provisioning \cup Serving => c.leaseRev \in 1..ls[c.cur.leaseID].rev
    /\ c.pc = "lease_revoked" => c.leaseRev \in 1..(ls[c.cur.leaseID].rev + 1)
    /\ c.pc \in {"sandbox_released", "lease_revoked", "terminal"} => s = "released"
    /\ c.pc = "terminal" => ls[c.cur.leaseID].state = "released"

\* What an outcome that the journal would still take may say about it.
OutcomeGood(next, j, s, pc) ==
    /\ next.stage = j.stage
    /\ next.leaseID = j.leaseID
    /\ next.recovery # "quarantined"
    /\ \/ next.reservation = j.reservation
       \/ next.reservation = "confirmed_applied" /\ pc # "intended"
       \/ /\ next.reservation = "confirmed_not_applied" /\ pc # "intended"
          /\ j.reservation \in Unresolved /\ s = "none"
       \/ /\ next.reservation = "released" /\ s = "released"
          /\ j.reservation = "confirmed_applied"
          /\ j.recovery = "aborting" /\ next.recovery = "aborting"

\* The executor.
PlanGood(a, p, j, s, pc, ls) ==
    \/ p = NoPlan
    \/ /\ p = [step |-> "planned", action |-> p.action, cur |-> p.cur, next |-> NoAttempt]
       /\ p.cur \in AttemptRecord /\ AttemptValid(p.cur)
       /\ CopyOf(p.cur, j)
       /\ LeaseOnRecord(a, p.cur, ls)
       /\ p.cur.reservation = "released" => Abandoned(p.cur)
       /\ p.action \in {"fence_sandbox", "release_sandbox", "revoke_identity_lease",
                        "release_identity_lease", "mark_aborted"} =>
             p.cur.recovery = "aborting"
       /\ p.action = "inspect_sandbox_reservation" => p.cur.reservation \in Unresolved
       /\ p.action \in {"revoke_identity_lease", "release_identity_lease"} =>
             p.cur.leaseState # "absent"
    \/ /\ p = [step |-> "persist", action |-> "none", cur |-> NoAttempt, next |-> p.next]
       /\ p.next \in AttemptRecord
       /\ j.rev > 0
       /\ p.next.rev <= j.rev + 1
       /\ LeaseOnRecord(a, p.next, ls)
       /\ p.next.rev = j.rev + 1 => OutcomeGood(p.next, j, s, pc)

Good(a, j, c, p, s, ls, n) ==
    /\ JournalGood(a, j, ls)
    /\ SandboxGood(j, s)
    /\ CoordGood(a, c, j, s, ls, n)
    /\ PlanGood(a, p, j, s, c.pc, ls)

ActivationInv ==
    /\ LeaseInv
    /\ LeasesFilled(leases)
    /\ journal = [a \in Attempts |-> journal[a]]
    /\ coord = [a \in Attempts |-> coord[a]]
    /\ plan = [a \in Attempts |-> plan[a]]
    /\ sandbox = [a \in Attempts |-> sandbox[a]]
    /\ \A a \in Attempts :
          Good(a, journal[a], coord[a], plan[a], sandbox[a], leases, now)

----------------------------------------------------------------------------
(* Records.                                                                *)

\* The fields of an attempt record.
LEMMA AttemptFields ==
    ASSUME NEW at \in AttemptRecord
    PROVE  /\ at.expected \in 0..(MaxEpoch - 1) /\ at.expected \in Nat
           /\ at.expected + 1 \in Epochs
           /\ at.stage \in 0..8 /\ at.stage \in Nat
           /\ at.recovery \in {"normal", "aborting", "quarantined", "aborted"}
           /\ at.snapshot \in Nat
           /\ at.leaseID \in 0..MaxEpoch /\ at.leaseID \in Nat
           /\ at.leaseID # 0 => at.leaseID \in Epochs
           /\ at.leaseState \in LeaseStates \cup {"absent"}
           /\ at.leaseRev \in Nat
           /\ at.reservation \in OperationStates
           /\ at.rev \in Nat
  BY LeaseAssumption DEF AttemptRecord, Proposed, SandboxActive, Epochs

\* The stages and the operation states are what records may hold.
LEMMA FieldValues ==
    /\ {Preflighting, PreflightPassed, SnapshotFrozen, IdentityLeaseReserved, BudgetResolved,
        SandboxReserved, Committed, SandboxActive} \subseteq Proposed..SandboxActive
    /\ {"not_required", "intent_recorded", "unknown_outcome", "confirmed_applied",
        "confirmed_not_applied", "released"} \subseteq OperationStates
    /\ {"reserved", "active"} \subseteq LeaseStates \cup {"absent"}
  BY DEF Proposed, Preflighting, PreflightPassed, SnapshotFrozen, IdentityLeaseReserved,
         BudgetResolved, SandboxReserved, Committed, SandboxActive, OperationStates, LeaseStates

\* What Validate says of a record, as far as it is needed.
LEMMA ValidFacts ==
    ASSUME NEW at \in AttemptRecord, AttemptValid(at)
    PROVE  /\ at.rev > 0
           /\ at.leaseState # "absent" => at.leaseID # 0
           /\ at.leaseID # 0 => at.leaseRev # 0
           /\ at.stage >= SandboxReserved =>
                 at.leaseID # 0 /\ at.reservation \in {"confirmed_applied", "released"}
           /\ at.stage >= Committed => ~Abandoned(at) /\ at.leaseID # 0 /\ at.snapshot # 0
           /\ at.recovery = "normal" => at.reservation # "released"
           /\ at.recovery = "aborted" => at.reservation \in SettledStates
<1>1. at.stage \in 0..8 /\ at.rev \in Nat
  BY AttemptFields
<1>2. /\ at.rev > 0
      /\ at.recovery = "normal" => at.reservation # "released"
      /\ at.recovery = "aborted" => at.reservation \in SettledStates
  BY DEF AttemptValid, ActivationObligationsSettled
<1>3. /\ at.leaseState # "absent" => at.leaseID # 0
      /\ at.leaseID # 0 => at.leaseRev # 0
      /\ at.stage >= IdentityLeaseReserved => at.leaseID # 0
  BY <1>1 DEF AttemptValid, IdentityLeaseReserved
<1>4. /\ at.stage >= SandboxReserved => at.reservation \in {"confirmed_applied", "released"}
      /\ at.stage >= SnapshotFrozen => at.snapshot # 0
      /\ Abandoned(at) => at.stage < Committed
  BY <1>1 DEF AttemptValid, Abandoned
<1> QED
  BY <1>1, <1>2, <1>3, <1>4 DEF SandboxReserved, Committed, IdentityLeaseReserved,
                                SnapshotFrozen

\* What ValidateTransition says of two records, as far as it is needed.
LEMMA TransitionFacts ==
    ASSUME NEW from \in AttemptRecord, NEW to \in AttemptRecord, NEW u, NEW t \in Nat,
           TransitionValid(from, to, u, t)
    PROVE  /\ AttemptValid(from) /\ AttemptValid(to)
           /\ to.expected = from.expected
           /\ to.rev = from.rev + 1
           /\ to.stage \in {from.stage, from.stage + 1}
           /\ to.stage >= from.stage
           /\ to.recovery = "normal" /\ to.stage > from.stage =>
                 to.snapshot = 0 \/ t < to.snapshot
           /\ Abandoned(from) /\ to.recovery # "quarantined" => Abandoned(to)
<1>1. /\ from.stage \in Nat /\ to.recovery \in {"normal", "aborting", "quarantined", "aborted"}
  BY AttemptFields
<1> QED
  BY <1>1 DEF TransitionValid, Fresh, Abandoned

\* The record of an attempt that does not exist.
LEMMA NoAttemptFacts ==
    /\ NoAttempt \in AttemptRecord
    /\ NoAttempt.rev = 0 /\ NoAttempt.leaseID = 0 /\ NoAttempt.stage = 0
    /\ NoAttempt.reservation = "not_started" /\ ~Abandoned(NoAttempt)
    /\ NoAttempt.recovery = "normal"
    /\ \A a, ls : LeaseOnRecord(a, NoAttempt, ls)
<1>1. NoAttempt \in AttemptRecord
  BY LeaseAssumption DEF NoAttempt, NewAttempt, AttemptRecord, OperationStates,
                         LeaseStates, Proposed, SandboxActive
<1> QED
  BY <1>1 DEF NoAttempt, NewAttempt, Abandoned, LeaseOnRecord, Proposed

\* Every record of a journal is a copy of the record, or precedes it.
LEMMA NoAttemptIsCopy ==
    ASSUME NEW a, NEW j, NEW ls, JournalGood(a, j, ls)
    PROVE  CopyOf(NoAttempt, j)
<1>1. j \in AttemptRecord /\ (j = NoAttempt \/ AttemptValid(j))
  BY DEF JournalGood
<1>2. j.rev \in Nat /\ j.stage \in Nat /\ (AttemptValid(j) => j.rev > 0)
  BY <1>1, AttemptFields, ValidFacts
<1> QED
  BY <1>1, <1>2, NoAttemptFacts DEF CopyOf

\* The journal moves on: copies stay copies.
LEMMA CopyStays ==
    ASSUME NEW at \in AttemptRecord, NEW j \in AttemptRecord, NEW next \in AttemptRecord,
           NEW u, NEW t \in Nat, CopyOf(at, j), TransitionValid(j, next, u, t),
           next.recovery # "quarantined" \/ j.recovery = "normal"
    PROVE  CopyOf(at, next)
<1>1. /\ at.rev \in Nat /\ j.rev \in Nat /\ next.rev = j.rev + 1
      /\ at.stage \in Nat /\ j.stage \in Nat /\ next.stage \in Nat /\ next.stage >= j.stage
  BY AttemptFields, TransitionFacts
<1>2. Abandoned(j) => Abandoned(next)
  BY TransitionFacts DEF Abandoned
<1> QED
  BY <1>1, <1>2 DEF CopyOf

\* A coordinator that is no more.
LEMMA DeadFacts ==
    /\ Dead \in CoordinatorType /\ Dead.pc = "dead" /\ Dead.phase = "none"
    /\ Dead.cur = NoAttempt /\ Dead.t = 0 /\ Dead.leaseExp = 0
    /\ "dead" \notin Running \cup {"idle"}
<1>1. NoAttempt \in AttemptRecord
  BY NoAttemptFacts
<1>2. "dead" \notin Running \cup {"idle"}
  BY DEF Running, Unleased, Leased, Provisioning, Serving, Closing
<1>3. Dead \in CoordinatorType
  BY <1>1 DEF Dead, CoordinatorAt, CoordinatorType, Phases
<1> QED
  BY <1>2, <1>3 DEF Dead, CoordinatorAt

\* It has nothing to do with anything.
LEMMA DeadGood ==
    ASSUME NEW a, NEW j, NEW s, NEW ls, NEW n \in Nat, JournalGood(a, j, ls)
    PROVE  CoordGood(a, Dead, j, s, ls, n)
<1>1. CopyOf(NoAttempt, j) /\ LeaseOnRecord(a, NoAttempt, ls)
  BY NoAttemptIsCopy, NoAttemptFacts
<1>2. /\ Dead.pc \notin Unleased \cup {"idle"} /\ Dead.pc \notin Leased \cup Provisioning
      /\ Dead.pc \notin Provisioning \cup Serving \cup Closing
      /\ Dead.pc \notin Provisioning \cup Serving
      /\ Dead.pc \notin {"intended", "allocating", "allocated", "lease_revoked",
                         "sandbox_released", "terminal"}
  BY DeadFacts DEF Running, Unleased, Leased, Provisioning, Serving, Closing
<1> QED
  BY <1>1, <1>2, DeadFacts DEF CoordGood

----------------------------------------------------------------------------
(* What one attempt sees of the others: its lease may expire.              *)

Aside(a, ls, ls2, n) ==
    \A e \in Epochs :
        IF ls[e].attempt = a
        THEN ls2[e] = ls[e] \/ \E t \in 0..n : ls2[e] = Expire(ls[e], t)
        ELSE ls2[e].attempt # a

\* What no operation on a lease but the commit and a renewal does.
Stands(l, m) ==
    /\ m.attempt = l.attempt
    /\ m.state = "absent" <=> l.state = "absent"
    /\ m.rev >= l.rev
    /\ m.state \in {"reserved", "active"} => m.state = l.state
    /\ l.state = "released" => m.state = "released"
    /\ m.exp = l.exp

\* The fields of a lease.
LEMMA LeaseFields ==
    ASSUME NEW l \in LeaseRecord
    PROVE  /\ l.state \in LeaseStates \cup {"absent"}
           /\ l.exp \in Nat
           /\ l.rev \in Nat
  BY LeaseAssumption DEF LeaseRecord, Expiries

\* Expiry.
LEMMA ExpireStands ==
    ASSUME NEW l \in LeaseRecord, NEW t \in Nat
    PROVE  /\ Expire(l, t) \in LeaseRecord
           /\ Stands(l, Expire(l, t))
           /\ \/ Expire(l, t) = l
              \/ Expire(l, t).state = "expired" /\ t >= l.exp
<1>1. Expire(l, t) \in LeaseRecord
  BY ExpireFollows DEF Follows
<1>2. CASE Held(l) /\ t >= l.exp
  <2>1. Expire(l, t) = NextRevision(l, "expired", l.exp)
    BY <1>2 DEF Expire
  <2>2. l.rev \in Nat
    BY LeaseFields
  <2> QED
    BY <1>1, <1>2, <2>1, <2>2 DEF NextRevision, Stands, Held
<1>3. CASE ~(Held(l) /\ t >= l.exp)
  <2>1. Expire(l, t) = l /\ l.rev \in Nat
    BY <1>3, LeaseFields DEF Expire
  <2> QED
    BY <1>1, <2>1 DEF Stands
<1> QED
  BY <1>2, <1>3

\* Revocation.
LEMMA RevokedStands ==
    ASSUME NEW l \in LeaseRecord, NEW rev, NEW t \in Nat
    PROVE  Stands(l, Revoked(l, rev, t))
<1> DEFINE x == Expire(l, t)
<1>1. x \in LeaseRecord /\ Stands(l, x)
  BY ExpireStands
<1>2. x.rev \in Nat /\ l.rev \in Nat
  BY <1>1, LeaseFields
<1>3. Revoked(l, rev, t) = IF x.rev = rev /\ Held(x) THEN NextRevision(x, "revoked", x.exp) ELSE x
  BY DEF Revoked
<1> HIDE DEF x
<1> QED
  BY <1>1, <1>2, <1>3 DEF NextRevision, Stands, Held

\* Release.
LEMMA ReleasedStands ==
    ASSUME NEW l \in LeaseRecord, NEW rev, NEW t \in Nat
    PROVE  Stands(l, Released(l, rev, t))
<1> DEFINE x == Expire(l, t)
<1>1. x \in LeaseRecord /\ Stands(l, x)
  BY ExpireStands
<1>2. x.rev \in Nat /\ l.rev \in Nat
  BY <1>1, LeaseFields
<1>3. Released(l, rev, t) =
         IF x.rev = rev /\ x.state \in {"reserved", "revoked", "expired"}
         THEN NextRevision(x, "released", x.exp) ELSE x
  BY DEF Released
<1> HIDE DEF x
<1> QED
  BY <1>1, <1>2, <1>3 DEF NextRevision, Stands

\* A record's lease stays on record.
LEMMA LeaseStaysOnRecord ==
    ASSUME NEW a, NEW at \in AttemptRecord, NEW ls \in [Epochs -> LeaseRecord],
           NEW ls2 \in [Epochs -> LeaseRecord],
           LeaseOnRecord(a, at, ls),
           \A e \in Epochs : ls[e].attempt = a => Stands(ls[e], ls2[e])
    PROVE  LeaseOnRecord(a, at, ls2)
<1>1. SUFFICES ASSUME at.leaseID # 0 PROVE LeaseOnRecord(a, at, ls2)
  BY DEF LeaseOnRecord
<1> DEFINE e == at.leaseID
<1>2. /\ e \in Epochs /\ Stands(ls[e], ls2[e]) /\ at.leaseRev \in 1..ls[e].rev
  BY <1>1 DEF LeaseOnRecord
<1>3. ls[e].rev \in Nat /\ ls2[e].rev \in Nat /\ at.leaseRev \in Nat
  BY <1>2, LeaseFields, AttemptFields
<1> QED
  BY <1>1, <1>2, <1>3 DEF LeaseOnRecord, Stands

\* The others' steps let the leases of an attempt stand.
LEMMA AsideStands ==
    ASSUME NEW a, NEW ls \in [Epochs -> LeaseRecord], NEW ls2, NEW n \in Nat,
           Aside(a, ls, ls2, n)
    PROVE  \A e \in Epochs : ls[e].attempt = a =>
              /\ Stands(ls[e], ls2[e])
              /\ ls2[e] = ls[e] \/ (ls2[e].state = "expired" /\ n >= ls[e].exp)
<1>1. SUFFICES ASSUME NEW e \in Epochs, ls[e].attempt = a
               PROVE  /\ Stands(ls[e], ls2[e])
                      /\ ls2[e] = ls[e] \/ (ls2[e].state = "expired" /\ n >= ls[e].exp)
  OBVIOUS
<1>2. ls[e] \in LeaseRecord /\ ls[e].rev \in Nat /\ ls[e].exp \in Nat
  BY LeaseFields
<1>3. CASE ls2[e] = ls[e]
  BY <1>2, <1>3 DEF Stands
<1>4. ASSUME NEW t \in 0..n, ls2[e] = Expire(ls[e], t)
      PROVE  /\ Stands(ls[e], ls2[e])
             /\ ls2[e] = ls[e] \/ (ls2[e].state = "expired" /\ n >= ls[e].exp)
  <2>1. t \in Nat /\ t <= n
    OBVIOUS
  <2>2. /\ Stands(ls[e], Expire(ls[e], t))
        /\ \/ Expire(ls[e], t) = ls[e]
           \/ Expire(ls[e], t).state = "expired" /\ t >= ls[e].exp
    BY <1>2, <2>1, ExpireStands
  <2>3. t >= ls[e].exp => n >= ls[e].exp
    BY <1>2, <2>1
  <2> QED
    BY <1>4, <2>2, <2>3
<1> QED
  BY <1>1, <1>3, <1>4 DEF Aside

\* So the steps of the others, and of the clock, keep what is known of an attempt.
LEMMA GoodAside ==
    ASSUME NEW a, NEW j, NEW c, NEW p, NEW s, NEW ls \in [Epochs -> LeaseRecord],
           NEW ls2 \in [Epochs -> LeaseRecord], NEW n \in Nat, NEW n2 \in Nat, n2 >= n,
           Good(a, j, c, p, s, ls, n), Aside(a, ls, ls2, n)
    PROVE  Good(a, j, c, p, s, ls2, n2)
<1>1. \A e \in Epochs : ls[e].attempt = a =>
         /\ Stands(ls[e], ls2[e])
         /\ ls2[e] = ls[e] \/ (ls2[e].state = "expired" /\ n >= ls[e].exp)
  BY AsideStands
<1>2. \A e \in Epochs : ls2[e].attempt = a => ls[e].attempt = a
  BY DEF Aside
<1>3. \A at \in AttemptRecord : LeaseOnRecord(a, at, ls) => LeaseOnRecord(a, at, ls2)
  BY <1>1, LeaseStaysOnRecord
<1>4. \A e \in Epochs : /\ ls[e].exp \in Nat /\ ls[e].rev \in Nat /\ ls2[e].rev \in Nat
  BY LeaseFields
<1>5. JournalGood(a, j, ls2)
  <2>1. JournalGood(a, j, ls) /\ j \in AttemptRecord
    BY DEF Good, JournalGood
  <2>2. \A e \in Epochs : ls2[e].state = "active" /\ ls2[e].attempt = a =>
           ls[e].state = "active" /\ ls[e].attempt = a
    BY <1>1, <1>2 DEF Stands
  <2> QED
    BY <1>3, <2>1, <2>2 DEF JournalGood
<1>6. CoordGood(a, c, j, s, ls2, n2)
  <2>1. CoordGood(a, c, j, s, ls, n) /\ c.cur \in AttemptRecord /\ c.t \in Nat
    BY DEF Good, CoordGood, CoordinatorType
  <2>2. LeaseOnRecord(a, c.cur, ls) /\ LeaseOnRecord(a, c.cur, ls2)
    BY <1>3, <2>1 DEF CoordGood
  <2>3. c.t <= n2
    BY <2>1 DEF CoordGood
  <2>4. c.pc \in Unleased \cup {"idle"} => \A e \in Epochs : ls2[e].attempt # a
    BY <1>2, <2>1 DEF CoordGood
  <2>5. c.pc \in Leased \cup Provisioning => OwnLease(a, c, ls2, n2)
    <3>1. SUFFICES ASSUME c.pc \in Leased \cup Provisioning PROVE OwnLease(a, c, ls2, n2)
      OBVIOUS
    <3> DEFINE e == c.cur.expected + 1
    <3>2. OwnLease(a, c, ls, n) /\ e \in Epochs
      BY <2>1, <3>1, AttemptFields DEF CoordGood
    <3>3. /\ Stands(ls[e], ls2[e])
          /\ ls2[e] = ls[e] \/ (ls2[e].state = "expired" /\ n >= ls[e].exp)
      BY <1>1, <3>2 DEF OwnLease
    <3> QED
      BY <1>4, <3>2, <3>3 DEF OwnLease, Stands
  <2>6. c.pc \in Provisioning \cup Serving \cup Closing =>
           c.cur.leaseID # 0 /\ c.cur.leaseID \in Epochs
                             /\ Stands(ls[c.cur.leaseID], ls2[c.cur.leaseID])
    <3>1. SUFFICES ASSUME c.pc \in Provisioning \cup Serving \cup Closing
                   PROVE  c.cur.leaseID # 0
      BY <1>1, <2>2 DEF LeaseOnRecord
    <3>2. c.pc \notin {"idle", "dead"}
      BY <3>1 DEF Provisioning, Serving, Closing
    <3>3. AttemptValid(c.cur) /\ c.cur.stage >= Committed
      BY <2>1, <3>1, <3>2, DeadFacts DEF CoordGood
    <3> QED
      BY <2>1, <3>3, ValidFacts
  <2>7. /\ c.pc \in Provisioning \cup Serving => c.leaseRev \in 1..ls2[c.cur.leaseID].rev
        /\ c.pc = "lease_revoked" => c.leaseRev \in 1..(ls2[c.cur.leaseID].rev + 1)
        /\ c.pc = "terminal" => ls2[c.cur.leaseID].state = "released"
    BY <1>4, <2>1, <2>6 DEF CoordGood, Stands, Closing
  <2> QED
    BY <2>1, <2>2, <2>3, <2>4, <2>5, <2>7 DEF CoordGood
<1>7. PlanGood(a, p, j, s, c.pc, ls2)
  BY <1>3 DEF Good, PlanGood
<1> QED
  BY <1>5, <1>6, <1>7 DEF Good

----------------------------------------------------------------------------
(* Every step uses the lease store through its operations.                 *)

\* What the invariant says of one attempt.
LEMMA InvFacts ==
    ASSUME ActivationInv, NEW a \in Attempts
    PROVE  /\ leases \in [Epochs -> LeaseRecord] /\ epoch \in 0..MaxEpoch /\ now \in Nat
           /\ JournalGood(a, journal[a], leases) /\ journal[a] \in AttemptRecord
           /\ SandboxGood(journal[a], sandbox[a])
           /\ CoordGood(a, coord[a], journal[a], sandbox[a], leases, now)
           /\ coord[a] \in CoordinatorType
           /\ Cur(a) \in AttemptRecord
           /\ PlanGood(a, plan[a], journal[a], sandbox[a], coord[a].pc, leases)
<1>1. Good(a, journal[a], coord[a], plan[a], sandbox[a], leases, now)
  BY DEF ActivationInv
<1>2. coord[a] \in CoordinatorType
  BY <1>1 DEF Good, CoordGood
<1>3. coord[a].cur \in AttemptRecord
  BY <1>2 DEF CoordinatorType
<1> QED
  BY <1>1, <1>2, <1>3 DEF ActivationInv, LeaseInv, LeaseTypeOK, Good, JournalGood, Cur

\* The fields of a coordinator.
LEMMA CoordFields ==
    ASSUME ActivationInv, NEW a \in Attempts
    PROVE  /\ coord[a].t \in Nat /\ coord[a].t <= now /\ coord[a].t \in 0..now
           /\ coord[a].leaseExp \in Expiries \cup {0} /\ coord[a].leaseExp \in Nat
           /\ coord[a].leaseRev \in Nat /\ coord[a].preflight \in Nat
           /\ coord[a].pc \in Running \cup {"idle", "dead"}
<1>1. coord[a] \in CoordinatorType /\ coord[a].t <= now /\ now \in Nat
  BY InvFacts DEF CoordGood
<1>2. /\ coord[a].t \in Nat /\ coord[a].leaseExp \in Expiries \cup {0}
      /\ coord[a].leaseRev \in Nat /\ coord[a].preflight \in Nat
      /\ coord[a].pc \in Running \cup {"idle", "dead"}
  BY <1>1 DEF CoordinatorType
<1> QED
  BY <1>1, <1>2, LeaseAssumption DEF Expiries

\* A coordinator at work, and the record it holds.
LEMMA Working ==
    ASSUME ActivationInv, NEW a \in Attempts, coord[a].pc \in Running
    PROVE  /\ AttemptValid(Cur(a)) /\ Cur(a).recovery = "normal" /\ Cur(a).rev > 0
           /\ Cur(a).snapshot <= coord[a].leaseExp
           /\ CopyOf(Cur(a), journal[a])
           /\ LeaseOnRecord(a, Cur(a), leases)
<1>1. CoordGood(a, coord[a], journal[a], sandbox[a], leases, now) /\ Cur(a) \in AttemptRecord
  BY InvFacts
<1>2. coord[a].pc \notin {"idle", "dead"}
  BY DEF Running, Unleased, Leased, Provisioning, Serving, Closing
<1>3. coord[a] # Dead
  BY <1>2, DeadFacts
<1>4. AttemptValid(Cur(a)) /\ Cur(a).recovery = "normal"
      /\ Cur(a).snapshot <= coord[a].leaseExp
  BY <1>1, <1>2, <1>3 DEF CoordGood, Cur
<1> QED
  BY <1>1, <1>4, ValidFacts DEF CoordGood, Cur

\* A coordinator after the commit has its lease on record.
LEMMA CommittedLease ==
    ASSUME ActivationInv, NEW a \in Attempts,
           coord[a].pc \in Provisioning \cup Serving \cup Closing
    PROVE  /\ Cur(a).leaseID \in Epochs
           /\ leases[Cur(a).leaseID] \in LeaseRecord
           /\ leases[Cur(a).leaseID].state # "absent"
           /\ leases[Cur(a).leaseID].attempt = a
           /\ leases[Cur(a).leaseID].rev \in Nat \ {0}
           /\ Cur(a).stage >= Committed
<1>1. coord[a].pc \in Running
  BY DEF Running
<1>2. AttemptValid(Cur(a)) /\ LeaseOnRecord(a, Cur(a), leases) /\ Cur(a).stage >= Committed
  BY <1>1, Working, InvFacts DEF CoordGood, Cur
<1>3. Cur(a) \in AttemptRecord /\ leases \in [Epochs -> LeaseRecord]
  BY InvFacts
<1>4. Cur(a).leaseID # 0
  BY <1>2, <1>3, ValidFacts
<1>5. /\ Cur(a).leaseID \in Epochs
      /\ leases[Cur(a).leaseID].state # "absent"
      /\ leases[Cur(a).leaseID].attempt = a
  BY <1>2, <1>4 DEF LeaseOnRecord
<1>6. leases[Cur(a).leaseID] \in LeaseRecord /\ leases[Cur(a).leaseID].rev \in Nat
  BY <1>3, <1>5, LeaseFields
<1>7. leases[Cur(a).leaseID].rev > 0
  BY <1>5 DEF ActivationInv, LeasesFilled
<1> QED
  BY <1>2, <1>5, <1>6, <1>7

\* ReserveLease is a Reserve of the store, or never reaches it.
LEMMA ReserveIsStoreStep ==
    ASSUME ActivationInv, NEW a \in Attempts, ReserveLease(a)
    PROVE  Reserve \/ UNCHANGED leaseVars
<1> DEFINE c == coord[a]
<1>1. /\ c.cur.expected \in 0..(MaxEpoch - 1)
      /\ c.t \in 0..now /\ c.t \in Nat /\ c.leaseExp \in Expiries \cup {0}
  BY InvFacts, CoordFields, AttemptFields DEF Cur
<1>2. CASE c.leaseExp > c.t
  <2>1. ReserveIdentityLease(a, c.cur.expected, c.leaseExp, c.t) /\ now' = now
    BY <1>2 DEF ReserveLease
  <2>2. c.leaseExp \in Expiries
    BY <1>1, <1>2
  <2> QED
    BY <1>1, <2>1, <2>2 DEF Reserve
<1>3. CASE ~(c.leaseExp > c.t)
  BY <1>3 DEF ReserveLease, leaseVars
<1> QED
  BY <1>2, <1>3

\* A lease of which only the expiry is looked at: what the store does when it
\* refuses to activate it.
LEMMA LookIsStoreStep ==
    ASSUME ActivationInv, NEW a \in Attempts, NEW e \in Epochs, NEW t \in 0..now,
           leases' = [leases EXCEPT ![e] = Expire(leases[e], t)],
           UNCHANGED <<epoch, now>>
    PROVE  Activate \/ UNCHANGED leaseVars
<1>1. leases \in [Epochs -> LeaseRecord] /\ leases[e] \in LeaseRecord /\ now \in Nat /\ t \in Nat
  BY InvFacts
<1>2. CASE Expire(leases[e], t) = leases[e]
  <2>1. leases' = leases
    BY <1>1, <1>2
  <2> QED
    BY <2>1 DEF leaseVars
<1>3. CASE Expire(leases[e], t) # leases[e]
  <2>1. Held(leases[e])
    BY <1>3 DEF Expire
  <2>2. leases[e].state # "absent"
    BY <2>1 DEF Held
  <2>3. leases[e].rev \in Nat /\ leases[e].rev > 0
    BY <1>1, <2>2, LeaseFields DEF ActivationInv, LeasesFilled
  <2>4. Expire(leases[e], t).state = "expired"
    BY <1>1, <1>3, ExpireStands
  <2>5. Activated(leases[e], a, 1, t) = Expire(leases[e], t)
    BY <2>4 DEF Activated, Activatable
  <2>6. ActivateIdentityLease(e, a, 1, t)
    BY <2>5 DEF ActivateIdentityLease
  <2>7. 1 \in 1..leases[e].rev
    BY <2>3
  <2> QED
    BY <2>2, <2>6, <2>7 DEF Activate
<1> QED
  BY <1>2, <1>3

\* CommitActivation is an Activate of the store, or never looks at the lease.
LEMMA CommitIsStoreStep ==
    ASSUME ActivationInv, NEW a \in Attempts, CommitActivation(a)
    PROVE  Activate \/ UNCHANGED leaseVars
<1> DEFINE e == journal[a].leaseID
           t == coord[a].t
           rev == coord[a].leaseRev
<1>1. t \in 0..now /\ t \in Nat /\ rev \in Nat /\ now' = now
  BY CoordFields DEF CommitActivation
<1>2. leases \in [Epochs -> LeaseRecord]
  BY InvFacts
<1>3. CommitReady(a) => e \in Epochs
  <2>1. SUFFICES ASSUME CommitReady(a) PROVE e # 0
    BY InvFacts, AttemptFields
  <2>2. journal[a].stage = SandboxReserved /\ journal[a].stage # 0
    BY <2>1 DEF CommitReady, SandboxReserved
  <2>3. journal[a] # NoAttempt
    BY <2>2, NoAttemptFacts
  <2>4. AttemptValid(journal[a])
    BY <2>3, InvFacts DEF JournalGood
  <2> QED
    BY <2>2, <2>4, InvFacts, ValidFacts DEF SandboxReserved
<1>4. CASE CommitAllowed(a, t)
  <2>1. e \in Epochs /\ Activatable(leases[e], a, rev, t)
    BY <1>3, <1>4 DEF CommitAllowed
  <2>2. ActivateIdentityLease(e, a, rev, t)
    BY <1>4 DEF CommitActivation
  <2>3. leases[e] \in LeaseRecord
    BY <1>2, <2>1
  <2>4. Expire(leases[e], t) = leases[e]
    BY <1>1, <2>1, <2>3, ExpireStands DEF Activatable
  <2>5. leases[e].state = "reserved" /\ leases[e].rev = rev
    BY <2>1, <2>4 DEF Activatable
  <2>6. rev \in 1..leases[e].rev
    BY <1>1, <2>1, <2>5 DEF ActivationInv, LeasesFilled
  <2> QED
    BY <1>1, <2>1, <2>2, <2>5, <2>6 DEF Activate
<1>5. CASE ~CommitAllowed(a, t) /\ CommitReady(a)
  <2>1. leases' = [leases EXCEPT ![e] = Expire(leases[e], t)] /\ epoch' = epoch
    BY <1>5 DEF CommitActivation
  <2> QED
    BY <1>1, <1>3, <1>5, <2>1, LookIsStoreStep
<1>6. CASE ~CommitAllowed(a, t) /\ ~CommitReady(a)
  BY <1>1, <1>6 DEF CommitActivation, leaseVars
<1> QED
  BY <1>4, <1>5, <1>6

\* Stop revokes and releases the lease of its instance.
LEMMA StopIsStoreStep ==
    ASSUME ActivationInv, NEW a \in Attempts, StopRevokesLease(a) \/ StopReleasesLease(a)
    PROVE  Revoke \/ Release
<1> DEFINE e == Cur(a).leaseID
           rev == coord[a].leaseRev
<1>1. coord[a].pc \in Provisioning \cup Serving \cup Closing
  BY DEF StopRevokesLease, StopReleasesLease, At, Serving, Closing
<1>2. e \in Epochs /\ leases[e].state # "absent"
  BY <1>1, CommittedLease
<1>3. CASE StopRevokesLease(a)
  <2>1. RevokeIdentityLease(e, rev, now) /\ now' = now /\ coord[a].pc = "sandbox_released"
    BY <1>3 DEF StopRevokesLease, At
  <2>2. rev \in 1..leases[e].rev
    BY <2>1, InvFacts DEF CoordGood, Serving, Cur
  <2> QED
    BY <1>2, <2>1, <2>2 DEF Revoke
<1>4. CASE StopReleasesLease(a)
  <2>1. ReleaseIdentityLease(e, rev, now) /\ now' = now /\ coord[a].pc = "lease_revoked"
    BY <1>4 DEF StopReleasesLease, At
  <2>2. rev \in 1..(leases[e].rev + 1)
    BY <2>1, InvFacts DEF CoordGood, Cur
  <2> QED
    BY <1>2, <2>1, <2>2 DEF Release
<1> QED
  BY <1>3, <1>4

\* The supervisor renews the lease of its instance.
LEMMA RenewIsStoreStep ==
    ASSUME ActivationInv, NEW a \in Attempts, NEW expiry \in Expiries,
           SupervisorRenews(a, expiry)
    PROVE  Renew
<1> DEFINE e == Cur(a).leaseID
<1>1. coord[a].pc \in Provisioning \cup Serving \cup Closing
  BY DEF SupervisorRenews, At, Serving
<1>2. e \in Epochs /\ leases[e].state # "absent" /\ leases[e].rev \in Nat \ {0}
  BY <1>1, CommittedLease
<1>3. /\ leases[e].rev < MaxRevision /\ now' = now
      /\ RenewIdentityLease(e, leases[e].rev, expiry, now)
  BY DEF SupervisorRenews
<1>4. leases[e].rev \in 1..MaxRevision
  BY <1>2, <1>3, LeaseAssumption
<1> QED
  BY <1>2, <1>3, <1>4 DEF Renew

\* A decision about the lease is about the lease on record.
LEMMA PlannedLease ==
    ASSUME ActivationInv, NEW a \in Attempts,
           Planned(a, "revoke_identity_lease") \/ Planned(a, "release_identity_lease")
    PROVE  LET e == plan[a].cur.leaseID
           IN  /\ e \in Epochs
               /\ leases[e] \in LeaseRecord
               /\ leases[e].state # "absent"
               /\ leases[e].attempt = a
               /\ plan[a].cur.leaseRev \in 1..leases[e].rev
               /\ leases[e].rev \in Nat
               /\ plan[a].cur.recovery = "aborting"
<1> DEFINE p == plan[a]
           e == p.cur.leaseID
<1>1. p.step = "planned" /\ p.action \in {"revoke_identity_lease", "release_identity_lease"}
  BY DEF Planned
<1>2. PlanGood(a, p, journal[a], sandbox[a], coord[a].pc, leases)
  BY InvFacts
<1>3. /\ p.cur \in AttemptRecord /\ AttemptValid(p.cur) /\ LeaseOnRecord(a, p.cur, leases)
      /\ p.cur.leaseState # "absent" /\ p.cur.recovery = "aborting"
  BY <1>1, <1>2 DEF PlanGood, NoPlan
<1>4. e # 0
  BY <1>3, ValidFacts
<1>5. /\ e \in Epochs /\ leases[e].state # "absent" /\ leases[e].attempt = a
      /\ p.cur.leaseRev \in 1..leases[e].rev
  BY <1>3, <1>4 DEF LeaseOnRecord
<1>6. leases[e] \in LeaseRecord /\ leases[e].rev \in Nat
  BY <1>5, InvFacts, LeaseFields
<1> QED
  BY <1>3, <1>5, <1>6

\* The executor revokes and releases the lease on record.
LEMMA ExecuteIsStoreStep ==
    ASSUME ActivationInv, NEW a \in Attempts, ExecuteRevoke(a) \/ ExecuteReleaseLease(a)
    PROVE  Revoke \/ Release
<1> DEFINE e == plan[a].cur.leaseID
           rev == plan[a].cur.leaseRev
<1>1. /\ e \in Epochs /\ leases[e].state # "absent"
      /\ rev \in 1..leases[e].rev /\ leases[e].rev \in Nat
  BY PlannedLease DEF ExecuteRevoke, ExecuteReleaseLease
<1>2. CASE ExecuteRevoke(a)
  <2>1. RevokeIdentityLease(e, rev, now) /\ now' = now
    BY <1>2 DEF ExecuteRevoke
  <2> QED
    BY <1>1, <2>1 DEF Revoke
<1>3. CASE ExecuteReleaseLease(a)
  <2>1. ReleaseIdentityLease(e, rev, now) /\ now' = now
    BY <1>3 DEF ExecuteReleaseLease
  <2>2. rev \in 1..(leases[e].rev + 1)
    BY <1>1
  <2> QED
    BY <1>1, <2>1, <2>2 DEF Release
<1> QED
  BY <1>2, <1>3

----------------------------------------------------------------------------
(* A step of one attempt.                                                  *)

\* The lease store goes on, the other attempts stand aside.
LEMMA StepOf ==
    ASSUME ActivationInv, NEW a \in Attempts, NEW j, NEW c, NEW p, NEW s,
           journal' = [journal EXCEPT ![a] = j] \/ (journal' = journal /\ j = journal[a]),
           coord' = [coord EXCEPT ![a] = c] \/ (coord' = coord /\ c = coord[a]),
           plan' = [plan EXCEPT ![a] = p] \/ (plan' = plan /\ p = plan[a]),
           sandbox' = [sandbox EXCEPT ![a] = s] \/ (sandbox' = sandbox /\ s = sandbox[a]),
           [LeaseNext]_leaseVars, now' = now,
           \A b \in Attempts : b # a => Aside(b, leases, leases', now),
           Good(a, j, c, p, s, leases', now)
    PROVE  ActivationInv'
<1>1. /\ journal = [b \in Attempts |-> journal[b]] /\ coord = [b \in Attempts |-> coord[b]]
      /\ plan = [b \in Attempts |-> plan[b]] /\ sandbox = [b \in Attempts |-> sandbox[b]]
      /\ LeaseInv /\ LeasesFilled(leases)
  BY DEF ActivationInv
<1>2. /\ journal' = [b \in Attempts |-> journal'[b]] /\ journal'[a] = j
      /\ \A b \in Attempts : b # a => journal'[b] = journal[b]
  BY <1>1
<1>3. /\ coord' = [b \in Attempts |-> coord'[b]] /\ coord'[a] = c
      /\ \A b \in Attempts : b # a => coord'[b] = coord[b]
  BY <1>1
<1>4. /\ plan' = [b \in Attempts |-> plan'[b]] /\ plan'[a] = p
      /\ \A b \in Attempts : b # a => plan'[b] = plan[b]
  BY <1>1
<1>5. /\ sandbox' = [b \in Attempts |-> sandbox'[b]] /\ sandbox'[a] = s
      /\ \A b \in Attempts : b # a => sandbox'[b] = sandbox[b]
  BY <1>1
<1>6. LeaseInv'
  BY <1>1, LeaseInvInductive
<1>7. /\ leases \in [Epochs -> LeaseRecord] /\ leases' \in [Epochs -> LeaseRecord]
      /\ now \in Nat
  BY <1>1, <1>6 DEF LeaseInv, LeaseTypeOK
<1>8. LeasesFilled(leases')
  <2>1. ASSUME NEW e \in Epochs, Follows(leases[e], leases'[e]), leases'[e].state # "absent"
        PROVE  leases'[e].attempt \in Attempts /\ leases'[e].rev > 0
    <3>1. leases[e].state # "absent" /\ leases'[e].attempt = leases[e].attempt
          /\ (leases'[e] = leases[e] \/ leases'[e].rev > leases[e].rev)
      BY <2>1 DEF Follows
    <3>2. leases[e].rev > 0 /\ leases[e].attempt \in Attempts
      BY <1>1, <3>1 DEF LeasesFilled
    <3>3. leases[e].rev \in Nat /\ leases'[e].rev \in Nat
      BY <1>7, LeaseFields
    <3> QED
      BY <3>1, <3>2, <3>3
  <2> QED
    BY <1>1, <2>1, LeaseStep DEF LeasesFilled
<1>9. ASSUME NEW b \in Attempts, b # a
      PROVE  Good(b, journal'[b], coord'[b], plan'[b], sandbox'[b], leases', now')
  <2>1. Good(b, journal[b], coord[b], plan[b], sandbox[b], leases, now)
    BY DEF ActivationInv
  <2>2. Good(b, journal[b], coord[b], plan[b], sandbox[b], leases', now)
    BY <1>7, <1>9, <2>1, GoodAside
  <2> QED
    BY <1>2, <1>3, <1>4, <1>5, <1>9, <2>2
<1>10. Good(a, journal'[a], coord'[a], plan'[a], sandbox'[a], leases', now')
  BY <1>2, <1>3, <1>4, <1>5
<1> QED
  BY <1>2, <1>3, <1>4, <1>5, <1>6, <1>8, <1>9, <1>10 DEF ActivationInv

\* A step that leaves the leases alone.
LEMMA QuietStepOf ==
    ASSUME ActivationInv, NEW a \in Attempts, NEW j, NEW c, NEW p, NEW s,
           journal' = [journal EXCEPT ![a] = j] \/ (journal' = journal /\ j = journal[a]),
           coord' = [coord EXCEPT ![a] = c] \/ (coord' = coord /\ c = coord[a]),
           plan' = [plan EXCEPT ![a] = p] \/ (plan' = plan /\ p = plan[a]),
           sandbox' = [sandbox EXCEPT ![a] = s] \/ (sandbox' = sandbox /\ s = sandbox[a]),
           UNCHANGED <<leases, epoch, now>>,
           JournalGood(a, j, leases), SandboxGood(j, s),
           CoordGood(a, c, j, s, leases, now), PlanGood(a, p, j, s, c.pc, leases)
    PROVE  ActivationInv'
<1>1. \A b \in Attempts : Aside(b, leases, leases', now)
  BY DEF Aside
<1>2. UNCHANGED leaseVars
  BY DEF leaseVars
<1>3. Good(a, j, c, p, s, leases', now)
  BY DEF Good
<1> QED
  BY <1>1, <1>2, <1>3, StepOf

\* A step that changes the lease of attempt a.
LEMMA OwnLeaseAside ==
    ASSUME ActivationInv, NEW a \in Attempts, NEW e \in Epochs, leases[e].attempt = a,
           NEW m, m.attempt = a, leases' = [leases EXCEPT ![e] = m]
    PROVE  \A b \in Attempts : b # a => Aside(b, leases, leases', now)
<1>1. \A f \in Epochs : leases'[f] = IF f = e THEN m ELSE leases[f]
  BY InvFacts
<1> QED
  BY <1>1 DEF Aside

----------------------------------------------------------------------------
(* The executor beside a coordinator.                                      *)

\* An outcome in waiting bears any step of the coordinator that does not turn
\* to dispatching a request, and leaves the sandbox alone or belongs to a
\* reservation that is resolved and not being aborted.  Between intent and
\* dispatch there is no outcome that resolves the reservation.
LEMMA PlanBesideLiving ==
    ASSUME NEW a, NEW p, NEW j, NEW s, NEW s2, NEW pc, NEW pc2, NEW ls,
           PlanGood(a, p, j, s, pc, ls),
           pc = "intended" \/ (pc2 # "intended" /\ (s2 = s \/ j.reservation \notin Unresolved)),
           s2 = s \/ j.recovery # "aborting" \/ j.reservation # "confirmed_applied"
    PROVE  PlanGood(a, p, j, s2, pc2, ls)
  BY DEF PlanGood, OutcomeGood

\* A sandbox that the provider still works on is in no waiting outcome.
LEMMA PlanBesideProvider ==
    ASSUME NEW a, NEW p, NEW j, NEW s, NEW s2, NEW pc, NEW ls,
           PlanGood(a, p, j, s, pc, ls), s \notin {"none", "released"}
    PROVE  PlanGood(a, p, j, s2, pc, ls)
  BY DEF PlanGood, OutcomeGood

\* The journal moves on by a writer other than the executor: its outcome in
\* waiting will be refused.
LEMMA PlanOvertaken ==
    ASSUME NEW a, NEW p, NEW j \in AttemptRecord, NEW next \in AttemptRecord, NEW s, NEW pc,
           NEW pc2, NEW ls, NEW u, NEW t \in Nat,
           PlanGood(a, p, j, s, pc, ls), TransitionValid(j, next, u, t),
           next.recovery # "quarantined" \/ j.recovery = "normal"
    PROVE  PlanGood(a, p, next, s, pc2, ls)
<1>1. j.rev \in Nat /\ next.rev = j.rev + 1 /\ next.rev > 0
  BY AttemptFields, TransitionFacts
<1>2. \A at \in AttemptRecord : CopyOf(at, j) => CopyOf(at, next)
  BY CopyStays
<1>3. \A at \in AttemptRecord : at.rev \in Nat
  BY AttemptFields
<1> QED
  BY <1>1, <1>2, <1>3 DEF PlanGood

----------------------------------------------------------------------------
(* Journal writes of the coordinator.                                      *)

\* A record is a copy of itself.
LEMMA CopyOfSelf ==
    ASSUME NEW at \in AttemptRecord
    PROVE  CopyOf(at, at)
  BY AttemptFields DEF CopyOf

\* The compare-and-swap accepts only what was made from the current record.
LEMMA WriteGood ==
    ASSUME ActivationInv, NEW a \in Attempts, coord[a].pc \in Running,
           NEW next \in AttemptRecord, next.rev = Cur(a).rev + 1,
           NEW t \in Nat, TransitionValid(journal[a], next, FALSE, t),
           LeaseOnRecord(a, next, leases),
           next.leaseID = Cur(a).leaseID \/ next.stage < Committed,
           next.reservation = Cur(a).reservation \/ next.reservation \in OnRecord,
           NEW pc
    PROVE  /\ Cur(a) = journal[a]
           /\ AttemptValid(next) /\ next.expected = Cur(a).expected
           /\ CopyOf(next, next)
           /\ JournalGood(a, next, leases)
           /\ SandboxGood(next, sandbox[a])
           /\ PlanGood(a, plan[a], next, sandbox[a], pc, leases)
<1> DEFINE j == journal[a]
<1>1. /\ JournalGood(a, j, leases) /\ j \in AttemptRecord /\ Cur(a) \in AttemptRecord
      /\ SandboxGood(j, sandbox[a])
      /\ PlanGood(a, plan[a], j, sandbox[a], coord[a].pc, leases)
  BY InvFacts
<1>2. /\ CopyOf(Cur(a), j) /\ Cur(a).recovery = "normal"
  BY Working
<1>3. /\ AttemptValid(j) /\ AttemptValid(next) /\ next.expected = j.expected
      /\ next.rev = j.rev + 1 /\ next.stage >= j.stage
  BY <1>1, TransitionFacts
<1>4. Cur(a).rev = j.rev
  BY <1>1, <1>3, AttemptFields
<1>5. Cur(a) = j
  BY <1>2, <1>4 DEF CopyOf
<1>6. j.reservation # "released"
  BY <1>1, <1>2, <1>3, <1>5, ValidFacts
<1>7. JournalGood(a, next, leases)
  <2>1. next.reservation # "released"
    BY <1>5, <1>6 DEF OnRecord
  <2>2. ASSUME NEW e \in Epochs, leases[e].state = "active", leases[e].attempt = a
        PROVE  next.stage >= Committed /\ next.leaseID = e
    <3>1. j.stage >= Committed /\ j.leaseID = e
      BY <1>1, <2>2 DEF JournalGood
    <3>2. next.stage >= Committed /\ ~(next.stage < Committed)
      BY <1>1, <1>3, <3>1, AttemptFields DEF Committed
    <3> QED
      BY <1>5, <3>1, <3>2
  <2> QED
    BY <1>3, <2>1, <2>2 DEF JournalGood
<1>8. SandboxGood(next, sandbox[a])
  BY <1>1, <1>5 DEF SandboxGood
<1>9. PlanGood(a, plan[a], next, sandbox[a], pc, leases)
  BY <1>1, <1>2, <1>5, PlanOvertaken
<1> QED
  BY <1>3, <1>5, <1>7, <1>8, <1>9, CopyOfSelf

\* What AdvanceActivation leaves behind, if the coordinator it leaves is good.
LEMMA AdvanceKeeps ==
    ASSUME ActivationInv, NEW a \in Attempts, coord[a].pc \in Running,
           NEW next \in AttemptRecord, next.rev = Cur(a).rev + 1,
           LeaseOnRecord(a, next, leases),
           next.leaseID = Cur(a).leaseID \/ next.stage < Committed,
           next.reservation = Cur(a).reservation \/ next.reservation \in OnRecord,
           NEW pc, NEW phase, AdvanceActivation(a, next, pc, phase),
           UNCHANGED <<leases, epoch, now, plan, sandbox>>,
           Accepts(a, next, FALSE) =>
               CoordGood(a, [coord[a] EXCEPT !.pc = pc, !.phase = phase, !.cur = next],
                         next, sandbox[a], leases, now)
    PROVE  ActivationInv'
<1>1. now \in Nat /\ JournalGood(a, journal[a], leases)
  BY InvFacts
<1>2. CASE Accepts(a, next, FALSE)
  <2> DEFINE c == [coord[a] EXCEPT !.pc = pc, !.phase = phase, !.cur = next]
  <2>1. journal' = [journal EXCEPT ![a] = next] /\ coord' = [coord EXCEPT ![a] = c]
    BY <1>2 DEF AdvanceActivation
  <2>2. CoordGood(a, c, next, sandbox[a], leases, now)
    BY <1>2
  <2> HIDE DEF c
  <2>3. TransitionValid(journal[a], next, FALSE, now)
    BY <1>2 DEF Accepts
  <2>4. /\ JournalGood(a, next, leases) /\ SandboxGood(next, sandbox[a])
        /\ PlanGood(a, plan[a], next, sandbox[a], c.pc, leases)
    BY <1>1, <2>3, WriteGood
  <2> QED
    BY <2>1, <2>2, <2>4, QuietStepOf
<1>3. CASE ~Accepts(a, next, FALSE)
  <2>1. journal' = journal /\ coord' = [coord EXCEPT ![a] = Dead]
    BY <1>3 DEF AdvanceActivation
  <2>3. PlanGood(a, plan[a], journal[a], sandbox[a], Dead.pc, leases)
    BY DeadFacts, InvFacts, PlanBesideLiving
  <2> QED
    BY <1>1, <2>1, <2>3, DeadGood, InvFacts, QuietStepOf
<1> QED
  BY <1>2, <1>3

\* A coordinator that goes on at pc, with record next.
LEMMA MovedGood ==
    ASSUME ActivationInv, NEW a \in Attempts,
           NEW next \in AttemptRecord, AttemptValid(next), next.recovery = "normal",
           next.snapshot <= coord[a].leaseExp,
           NEW j, CopyOf(next, j), LeaseOnRecord(a, next, leases),
           NEW pc \in Running, NEW phase \in Phases \ {"terminal"}, NEW s,
           pc \notin {"reserved", "lease_revoked", "terminal"},
           pc = "sandbox_released" => s = "released",
           pc \in Unleased => \A e \in Epochs : leases[e].attempt # a,
           pc \in Leased \cup Provisioning =>
               LET e == next.expected + 1
               IN  /\ leases[e].state # "absent"
                   /\ leases[e].attempt = a
                   /\ leases[e].exp = coord[a].leaseExp
                   /\ next.leaseID \in {0, e}
                   /\ pc \in Provisioning =>
                         \/ leases[e].state = "active"
                         \/ leases[e].state = "expired" /\ now >= leases[e].exp,
           pc = "intended" => j.reservation = "intent_recorded",
           pc \in Provisioning \cup Serving \cup Closing => next.stage >= Committed,
           pc \in Provisioning \cup Serving =>
               coord[a].leaseRev \in 1..leases[next.leaseID].rev
    PROVE  CoordGood(a, [coord[a] EXCEPT !.pc = pc, !.phase = phase, !.cur = next],
                     j, s, leases, now)
<1> DEFINE c == [coord[a] EXCEPT !.pc = pc, !.phase = phase, !.cur = next]
<1>1. coord[a] \in CoordinatorType /\ coord[a].t <= now
  BY InvFacts, CoordFields
<1>2. c \in CoordinatorType
  BY <1>1 DEF CoordinatorType
<1>3. /\ c.pc = pc /\ c.phase = phase /\ c.cur = next /\ c.t = coord[a].t
      /\ c.leaseExp = coord[a].leaseExp /\ c.leaseRev = coord[a].leaseRev
  BY <1>1 DEF CoordinatorType
<1> HIDE DEF c
<1>4. c.pc # "idle"
  BY <1>3 DEF Running, Unleased, Leased, Provisioning, Serving, Closing
<1>5. c.pc \in Leased \cup Provisioning => OwnLease(a, c, leases, now)
  BY <1>3 DEF OwnLease
<1>6. CoordGood(a, c, j, s, leases, now)
  BY <1>1, <1>2, <1>3, <1>4, <1>5 DEF CoordGood
<1> QED
  BY <1>6 DEF c

\* A record that names the lease of another one.
LEMMA LeaseCopied ==
    ASSUME NEW a, NEW at, NEW next, NEW ls, LeaseOnRecord(a, at, ls),
           next.leaseID = at.leaseID, next.leaseRev = at.leaseRev,
           next.stage >= Committed => at.stage >= Committed
    PROVE  LeaseOnRecord(a, next, ls)
  BY DEF LeaseOnRecord

\* The write of a coordinator without a lease, or the step of the preflight.
LEMMA UnleasedGoesOn ==
    ASSUME ActivationInv, NEW a \in Attempts, coord[a].pc \in Unleased,
           NEW next \in AttemptRecord, next.rev = Cur(a).rev + 1,
           next.recovery = "normal", next.snapshot <= coord[a].leaseExp,
           next.leaseID = Cur(a).leaseID, next.leaseRev = Cur(a).leaseRev,
           next.reservation = Cur(a).reservation, next.stage < Committed,
           NEW pc \in Unleased, NEW phase \in Phases \ {"terminal"},
           AdvanceActivation(a, next, pc, phase),
           UNCHANGED <<leases, epoch, now, plan, sandbox>>
    PROVE  ActivationInv'
<1>1. /\ coord[a].pc \in Running /\ pc \in Running
      /\ pc \notin Leased \cup Provisioning \cup Serving \cup Closing
      /\ pc \notin {"intended", "allocating", "allocated", "sandbox_released", "reserved",
                    "lease_revoked", "terminal"}
  BY DEF Running, Unleased, Leased, Provisioning, Serving, Closing
<1>2. next.stage \in Nat /\ ~(next.stage >= Committed)
  BY AttemptFields DEF Committed
<1>3. LeaseOnRecord(a, next, leases)
  BY <1>1, <1>2, Working, LeaseCopied
<1>4. \A e \in Epochs : leases[e].attempt # a
  BY InvFacts DEF CoordGood
<1>5. ASSUME Accepts(a, next, FALSE)
      PROVE  CoordGood(a, [coord[a] EXCEPT !.pc = pc, !.phase = phase, !.cur = next],
                       next, sandbox[a], leases, now)
  <2>1. TransitionValid(journal[a], next, FALSE, now) /\ now \in Nat
    BY <1>5, InvFacts DEF Accepts
  <2>2. AttemptValid(next) /\ CopyOf(next, next)
    BY <1>1, <1>3, <2>1, WriteGood
  <2> QED
    BY <1>1, <1>3, <1>4, <2>2, MovedGood
<1> QED
  BY <1>1, <1>3, <1>5, AdvanceKeeps

\* The write of a coordinator with a lease that is not committed.
LEMMA LeasedGoesOn ==
    ASSUME ActivationInv, NEW a \in Attempts, coord[a].pc \in Leased,
           NEW next \in AttemptRecord, next.rev = Cur(a).rev + 1,
           next.recovery = "normal", next.snapshot = Cur(a).snapshot,
           LeaseOnRecord(a, next, leases), next.expected = Cur(a).expected,
           next.leaseID \in {Cur(a).leaseID, Cur(a).expected + 1},
           next.reservation = Cur(a).reservation \/ next.reservation \in OnRecord,
           next.leaseID = Cur(a).leaseID \/ next.stage < Committed,
           NEW pc \in Leased, pc \notin {"reserved", "allocating", "allocated"},
           pc = "intended" => next.reservation = "intent_recorded",
           AdvanceActivation(a, next, pc, "activating"),
           UNCHANGED <<leases, epoch, now, plan, sandbox>>
    PROVE  ActivationInv'
<1>1. /\ coord[a].pc \in Running /\ pc \in Running
      /\ pc \notin Unleased \cup Provisioning \cup Serving \cup Closing
      /\ pc \notin {"sandbox_released", "lease_revoked", "terminal"}
      /\ "activating" \in Phases \ {"terminal"}
  BY DEF Running, Unleased, Leased, Provisioning, Serving, Closing, Phases
<1>2. OwnLease(a, coord[a], leases, now)
  BY InvFacts DEF CoordGood
<1>3. next.snapshot <= coord[a].leaseExp
  BY <1>1, Working
<1>4. ASSUME Accepts(a, next, FALSE)
      PROVE  CoordGood(a, [coord[a] EXCEPT !.pc = pc, !.phase = "activating", !.cur = next],
                       next, sandbox[a], leases, now)
  <2>1. TransitionValid(journal[a], next, FALSE, now) /\ now \in Nat
    BY <1>4, InvFacts DEF Accepts
  <2>2. AttemptValid(next) /\ CopyOf(next, next)
    BY <1>1, <2>1, WriteGood
  <2>3. LET e == next.expected + 1
        IN  /\ leases[e].state # "absent"
            /\ leases[e].attempt = a
            /\ leases[e].exp = coord[a].leaseExp
            /\ next.leaseID \in {0, e}
    BY <1>2 DEF OwnLease, Cur
  <2> QED
    BY <1>1, <1>3, <2>2, <2>3, MovedGood
<1> QED
  BY <1>1, <1>4, AdvanceKeeps

\* The write of a coordinator after the commit.
LEMMA CommittedGoesOn ==
    ASSUME ActivationInv, NEW a \in Attempts, coord[a].pc \in Provisioning,
           NEW next \in AttemptRecord, next.rev = Cur(a).rev + 1,
           next.recovery = "normal", next.snapshot = Cur(a).snapshot,
           next.expected = Cur(a).expected,
           next.leaseID = Cur(a).leaseID, next.leaseRev = Cur(a).leaseRev,
           next.reservation = Cur(a).reservation, next.stage >= Committed,
           NEW pc \in {"activate_intended", "binding"},
           NEW phase \in {"provisioning", "binding"},
           AdvanceActivation(a, next, pc, phase),
           UNCHANGED <<leases, epoch, now, plan, sandbox>>
    PROVE  ActivationInv'
<1>1. /\ coord[a].pc \in Running /\ pc \in Running
      /\ pc \in Provisioning \cup Serving
      /\ pc \notin Unleased \cup Leased
      /\ phase \in Phases \ {"terminal"}
  BY DEF Running, Unleased, Leased, Provisioning, Serving, Closing, Phases
<1>2. /\ OwnLease(a, coord[a], leases, now)
      /\ coord[a].leaseRev \in 1..leases[Cur(a).leaseID].rev
      /\ Cur(a).stage >= Committed
  BY InvFacts DEF CoordGood, Cur
<1>3. next.snapshot <= coord[a].leaseExp
  BY <1>1, Working
<1>4. LeaseOnRecord(a, next, leases)
  BY <1>1, <1>2, Working, LeaseCopied
<1>5. ASSUME Accepts(a, next, FALSE)
      PROVE  CoordGood(a, [coord[a] EXCEPT !.pc = pc, !.phase = phase, !.cur = next],
                       next, sandbox[a], leases, now)
  <2>1. TransitionValid(journal[a], next, FALSE, now) /\ now \in Nat
    BY <1>5, InvFacts DEF Accepts
  <2>2. AttemptValid(next) /\ CopyOf(next, next)
    BY <1>1, <1>4, <2>1, WriteGood
  <2>3. LET e == next.expected + 1
        IN  /\ leases[e].state # "absent"
            /\ leases[e].attempt = a
            /\ leases[e].exp = coord[a].leaseExp
            /\ next.leaseID \in {0, e}
            /\ \/ leases[e].state = "active"
               \/ leases[e].state = "expired" /\ now >= leases[e].exp
    BY <1>2 DEF OwnLease, Cur
  <2>4. coord[a].leaseRev \in 1..leases[next.leaseID].rev
    BY <1>2
  <2>5. pc \notin {"reserved", "lease_revoked", "terminal", "sandbox_released", "intended",
                   "allocating", "allocated"}
    OBVIOUS
  <2> QED
    BY <1>1, <1>3, <1>4, <2>2, <2>3, <2>4, <2>5, MovedGood
<1> QED
  BY <1>1, <1>4, <1>5, AdvanceKeeps

----------------------------------------------------------------------------
(* The coordinator's steps, from proposal to a ready instance.             *)

\* Activate creates the attempt, which no executor can have seen.
LEMMA BeginActivateKeeps ==
    ASSUME ActivationInv, NEW a \in Attempts, NEW expected \in 0..(MaxEpoch - 1),
           NEW leaseExp \in Expiries, BeginActivate(a, expected, leaseExp)
    PROVE  ActivationInv'
<1> DEFINE new == NewAttempt(expected, 1)
           c == [CoordinatorAt("created", "preflighting") EXCEPT
                    !.cur = new, !.t = now, !.leaseExp = leaseExp]
<1>1. /\ coord[a].pc = "idle"
      /\ journal' = [journal EXCEPT ![a] = new] /\ coord' = [coord EXCEPT ![a] = c]
      /\ UNCHANGED <<leases, epoch, now, plan, sandbox>>
  BY DEF BeginActivate, At
<1>2. /\ now \in Nat /\ leaseExp \in Nat
      /\ CoordGood(a, coord[a], journal[a], sandbox[a], leases, now)
      /\ SandboxGood(journal[a], sandbox[a])
      /\ PlanGood(a, plan[a], journal[a], sandbox[a], coord[a].pc, leases)
      /\ JournalGood(a, journal[a], leases)
  BY InvFacts, LeaseAssumption DEF Expiries
<1>3. journal[a] = NoAttempt /\ \A e \in Epochs : leases[e].attempt # a
  <2>1. coord[a] # Dead /\ coord[a].pc \notin Running
    BY <1>1, DeadFacts DEF Running, Unleased, Leased, Provisioning, Serving, Closing
  <2> QED
    BY <1>1, <1>2, <2>1 DEF CoordGood
<1>4. /\ new \in AttemptRecord /\ AttemptValid(new)
      /\ new.rev = 1 /\ new.leaseID = 0 /\ new.recovery = "normal" /\ new.snapshot = 0
      /\ new.reservation = "not_started" /\ new.stage = 0
  <2>1. new \in AttemptRecord
    BY LeaseAssumption DEF NewAttempt, AttemptRecord, OperationStates, LeaseStates,
                           Proposed, SandboxActive
  <2>2. AttemptValid(new)
    BY DEF AttemptValid, NewAttempt, HasUnknownOperation, Proposed, SnapshotFrozen,
           IdentityLeaseReserved, BudgetResolved, SandboxReserved, Committed, SandboxActive
  <2> QED
    BY <2>1, <2>2 DEF NewAttempt, Proposed
<1>5. plan[a] = NoPlan
  <2>1. \A at \in AttemptRecord : AttemptValid(at) => ~(at.rev <= journal[a].rev)
    BY <1>3, NoAttemptFacts, AttemptFields, ValidFacts
  <2> QED
    BY <1>2, <1>3, <2>1, NoAttemptFacts DEF PlanGood, CopyOf
<1> HIDE DEF new
<1>6. LeaseOnRecord(a, new, leases) /\ CopyOf(new, new)
  BY <1>4, CopyOfSelf DEF LeaseOnRecord
<1>7. JournalGood(a, new, leases)
  BY <1>3, <1>4, <1>6 DEF JournalGood
<1>8. SandboxGood(new, sandbox[a])
  BY <1>2, <1>3, NoAttemptFacts DEF SandboxGood, OnRecord
<1>9. /\ c \in CoordinatorType
      /\ c.pc = "created" /\ c.phase = "preflighting" /\ c.cur = new /\ c.t = now
      /\ c.leaseExp = leaseExp
  BY <1>2, <1>4 DEF CoordinatorAt, CoordinatorType, Phases, Running, Unleased
<1> HIDE DEF c
<1>10. CoordGood(a, c, new, sandbox[a], leases, now)
  <2>1. /\ c.pc \in Running /\ c.pc \notin Leased \cup Provisioning \cup Serving \cup Closing
        /\ c.pc \notin Leased \cup Provisioning /\ c.pc \notin Provisioning \cup Serving
        /\ c.pc \notin Provisioning \cup Serving \cup Closing
    BY <1>9 DEF Running, Unleased, Leased, Provisioning, Serving, Closing
  <2> QED
    BY <1>2, <1>3, <1>4, <1>6, <1>9, <2>1 DEF CoordGood
<1>11. PlanGood(a, plan[a], new, sandbox[a], c.pc, leases)
  BY <1>5 DEF PlanGood
<1> QED
  BY <1>1, <1>7, <1>8, <1>10, <1>11, QuietStepOf

\* The first write after the proposal.
LEMMA AdvancePreflightingKeeps ==
    ASSUME ActivationInv, NEW a \in Attempts, AdvancePreflighting(a)
    PROVE  ActivationInv'
<1> DEFINE next == [Cur(a) EXCEPT !.stage = Preflighting, !.rev = @ + 1]
<1>1. coord[a].pc = "created" /\ Cur(a) \in AttemptRecord
  BY InvFacts DEF AdvancePreflighting, At
<1>2. coord[a].pc \in Unleased /\ coord[a].pc \in Running
  BY <1>1 DEF Unleased, Running
<1>3. Cur(a).recovery = "normal" /\ Cur(a).snapshot <= coord[a].leaseExp /\ Cur(a).rev \in Nat
  BY <1>1, <1>2, Working, AttemptFields
<1>4. /\ next \in AttemptRecord
      /\ next.rev = Cur(a).rev + 1 /\ next.recovery = "normal"
      /\ next.snapshot = Cur(a).snapshot /\ next.leaseID = Cur(a).leaseID
      /\ next.leaseRev = Cur(a).leaseRev /\ next.reservation = Cur(a).reservation
      /\ next.stage = 1
  <2>1. Cur(a).rev + 1 \in Nat /\ Preflighting \in Proposed..SandboxActive
    BY <1>3, FieldValues
  <2>2. next \in AttemptRecord
    BY <1>1, <2>1, Zenon DEF AttemptRecord
  <2> QED
    BY <1>1, <1>3, <2>2 DEF AttemptRecord, Preflighting
<1>5. /\ AdvanceActivation(a, next, "preflighting", "preflighting")
      /\ UNCHANGED <<leases, epoch, now, plan, sandbox>>
  BY DEF AdvancePreflighting
<1> HIDE DEF next
<1> QED
  BY <1>2, <1>3, <1>4, <1>5, UnleasedGoesOn DEF Unleased, Phases, Committed

\* The frozen snapshot expires with the lease or before it.
LEMMA FreezeSnapshotKeeps ==
    ASSUME ActivationInv, NEW a \in Attempts, FreezeSnapshot(a)
    PROVE  ActivationInv'
<1> DEFINE x == SnapshotExpiry(coord[a])
           next == [Cur(a) EXCEPT !.stage = SnapshotFrozen, !.snapshot = x, !.rev = @ + 1]
<1>1. coord[a].pc = "passed" /\ Cur(a) \in AttemptRecord
  BY InvFacts DEF FreezeSnapshot, At
<1>2. coord[a].pc \in Unleased /\ coord[a].pc \in Running
  BY <1>1 DEF Unleased, Running
<1>3. Cur(a).recovery = "normal" /\ Cur(a).rev \in Nat
  BY <1>1, <1>2, Working, AttemptFields
<1>4. x \in Nat /\ x <= coord[a].leaseExp
  BY CoordFields DEF SnapshotExpiry
<1>5. /\ AdvanceActivation(a, next, "frozen", "activating")
      /\ UNCHANGED <<leases, epoch, now, plan, sandbox>>
  BY DEF FreezeSnapshot
<1> HIDE DEF x
<1>6. /\ next \in AttemptRecord
      /\ next.rev = Cur(a).rev + 1 /\ next.recovery = "normal"
      /\ next.snapshot = x /\ next.leaseID = Cur(a).leaseID
      /\ next.leaseRev = Cur(a).leaseRev /\ next.reservation = Cur(a).reservation
      /\ next.stage = 3
  <2>1. Cur(a).rev + 1 \in Nat /\ SnapshotFrozen \in Proposed..SandboxActive
    BY <1>3, FieldValues
  <2>2. next \in AttemptRecord
    BY <1>1, <1>4, <2>1, Zenon DEF AttemptRecord
  <2> QED
    BY <1>1, <1>3, <2>2 DEF AttemptRecord, SnapshotFrozen
<1> HIDE DEF next
<1> QED
  BY <1>2, <1>3, <1>4, <1>5, <1>6, UnleasedGoesOn DEF Unleased, Phases, Committed

\* Preflight takes note of its evidence together with the write.
LEMMA PreflightKeeps ==
    ASSUME ActivationInv, NEW a \in Attempts, NEW expiry \in Expiries, Preflight(a, expiry)
    PROVE  ActivationInv'
<1> DEFINE next == [Cur(a) EXCEPT !.stage = PreflightPassed, !.rev = @ + 1]
           c == [coord[a] EXCEPT !.pc = "passed", !.cur = next, !.preflight = expiry, !.t = 0]
<1>1. /\ coord[a].pc = "preflighting" /\ Cur(a) \in AttemptRecord /\ now \in Nat
      /\ coord[a] \in CoordinatorType /\ expiry \in Nat
      /\ JournalGood(a, journal[a], leases)
      /\ CoordGood(a, coord[a], journal[a], sandbox[a], leases, now)
  BY InvFacts, LeaseAssumption DEF Preflight, At, Expiries
<1>2. coord[a].pc \in Unleased /\ coord[a].pc \in Running /\ coord[a].pc # "dead"
  BY <1>1 DEF Unleased, Running
<1>3. /\ Cur(a).recovery = "normal" /\ Cur(a).snapshot <= coord[a].leaseExp
      /\ Cur(a).rev \in Nat /\ LeaseOnRecord(a, Cur(a), leases)
  BY <1>1, <1>2, Working, AttemptFields
<1>4. /\ next \in AttemptRecord
      /\ next.rev = Cur(a).rev + 1 /\ next.recovery = "normal"
      /\ next.snapshot = Cur(a).snapshot /\ next.leaseID = Cur(a).leaseID
      /\ next.leaseRev = Cur(a).leaseRev /\ next.reservation = Cur(a).reservation
      /\ next.stage = 2
  <2>1. Cur(a).rev + 1 \in Nat /\ PreflightPassed \in Proposed..SandboxActive
    BY <1>3, FieldValues
  <2>2. next \in AttemptRecord
    BY <1>1, <2>1, Zenon DEF AttemptRecord
  <2> QED
    BY <1>1, <1>3, <2>2 DEF AttemptRecord, PreflightPassed
<1>5. UNCHANGED <<leases, epoch, now, plan, sandbox>>
  BY DEF Preflight
<1>6. CASE Accepts(a, next, FALSE)
  <2>1. journal' = [journal EXCEPT ![a] = next] /\ coord' = [coord EXCEPT ![a] = c]
    BY <1>6 DEF Preflight
  <2>2. TransitionValid(journal[a], next, FALSE, now)
    BY <1>6 DEF Accepts
  <2> HIDE DEF next
  <2>3. LeaseOnRecord(a, next, leases)
    BY <1>3, <1>4, LeaseCopied DEF Committed
  <2>4. /\ c \in CoordinatorType
        /\ c.pc = "passed" /\ c.phase = coord[a].phase /\ c.cur = next /\ c.t = 0
        /\ c.leaseExp = coord[a].leaseExp
    BY <1>1, <1>4 DEF CoordinatorType, Running, Unleased
  <2> HIDE DEF c
  <2>5. /\ AttemptValid(next) /\ CopyOf(next, next)
        /\ JournalGood(a, next, leases) /\ SandboxGood(next, sandbox[a])
        /\ PlanGood(a, plan[a], next, sandbox[a], c.pc, leases)
    BY <1>1, <1>2, <1>4, <2>2, <2>3, WriteGood
  <2>6. /\ c.pc \in Running /\ c.pc \in Unleased
        /\ c.pc \notin Leased \cup Provisioning /\ c.pc \notin Provisioning \cup Serving
        /\ c.pc \notin Provisioning \cup Serving \cup Closing
    BY <2>4 DEF Running, Unleased, Leased, Provisioning, Serving, Closing
  <2>7. coord[a].phase # "terminal" /\ \A e \in Epochs : leases[e].attempt # a
    BY <1>1, <1>2 DEF CoordGood
  <2>8. CoordGood(a, c, next, sandbox[a], leases, now)
    BY <1>1, <1>3, <1>4, <2>3, <2>4, <2>5, <2>6, <2>7 DEF CoordGood
  <2> QED
    BY <1>5, <2>1, <2>5, <2>8, QuietStepOf
<1>7. CASE ~Accepts(a, next, FALSE)
  <2>1. journal' = journal /\ coord' = [coord EXCEPT ![a] = Dead]
    BY <1>7 DEF Preflight
  <2>2. PlanGood(a, plan[a], journal[a], sandbox[a], Dead.pc, leases)
    BY DeadFacts, InvFacts, PlanBesideLiving
  <2> QED
    BY <1>1, <1>5, <2>1, <2>2, DeadGood, InvFacts, QuietStepOf
<1> QED
  BY <1>6, <1>7

\* The lease goes on record as it was reserved.
LEMMA RecordLeaseKeeps ==
    ASSUME ActivationInv, NEW a \in Attempts, RecordLease(a)
    PROVE  ActivationInv'
<1> DEFINE e == Cur(a).expected + 1
           next == [Cur(a) EXCEPT !.stage = IdentityLeaseReserved,
                                  !.leaseID = Cur(a).expected + 1, !.leaseState = "reserved",
                                  !.leaseRev = coord[a].leaseRev, !.rev = @ + 1]
<1>1. /\ coord[a].pc = "reserved" /\ Cur(a) \in AttemptRecord
      /\ coord[a].leaseRev \in Nat /\ leases \in [Epochs -> LeaseRecord]
  BY InvFacts, CoordFields DEF RecordLease, At
<1>2. coord[a].pc \in Leased /\ coord[a].pc \in Running
  BY <1>1 DEF Leased, Running
<1>3. Cur(a).recovery = "normal" /\ Cur(a).rev \in Nat /\ e \in Epochs
  BY <1>1, <1>2, Working, AttemptFields
<1>4. /\ next \in AttemptRecord
      /\ next.rev = Cur(a).rev + 1 /\ next.recovery = "normal"
      /\ next.snapshot = Cur(a).snapshot /\ next.expected = Cur(a).expected
      /\ next.leaseID = e /\ next.leaseRev = coord[a].leaseRev
      /\ next.reservation = Cur(a).reservation /\ next.stage = 4
  <2>1. /\ Cur(a).rev + 1 \in Nat /\ IdentityLeaseReserved \in Proposed..SandboxActive
        /\ Cur(a).expected + 1 \in 0..MaxEpoch
        /\ "reserved" \in LeaseStates \cup {"absent"}
    BY <1>3, FieldValues, LeaseAssumption DEF Epochs
  <2>2. next \in AttemptRecord
    BY <1>1, <2>1, Zenon DEF AttemptRecord
  <2> QED
    BY <1>1, <1>3, <2>2 DEF AttemptRecord, IdentityLeaseReserved
<1>5. /\ AdvanceActivation(a, next, "leased", "activating")
      /\ UNCHANGED <<leases, epoch, now, plan, sandbox>>
  BY DEF RecordLease
<1> HIDE DEF next
<1>6. LeaseOnRecord(a, next, leases)
  <2>1. leases[e].state # "absent" /\ leases[e].attempt = a /\ coord[a].leaseRev = 1
    BY <1>1, <1>2, InvFacts DEF CoordGood, OwnLease, Cur
  <2>2. leases[e].rev \in Nat /\ leases[e].rev > 0
    BY <1>1, <1>3, <2>1, LeaseFields DEF ActivationInv, LeasesFilled
  <2> QED
    BY <1>3, <1>4, <2>1, <2>2 DEF LeaseOnRecord, Committed
<1> QED
  BY <1>2, <1>3, <1>4, <1>5, <1>6, LeasedGoesOn DEF Leased, Committed

\* No budget is needed.
LEMMA ResolveBudgetKeeps ==
    ASSUME ActivationInv, NEW a \in Attempts, ResolveBudget(a)
    PROVE  ActivationInv'
<1> DEFINE next == [Cur(a) EXCEPT !.stage = BudgetResolved, !.budget = "not_required",
                                  !.rev = @ + 1]
<1>1. coord[a].pc = "leased" /\ Cur(a) \in AttemptRecord
  BY InvFacts DEF ResolveBudget, At
<1>2. coord[a].pc \in Leased /\ coord[a].pc \in Running
  BY <1>1 DEF Leased, Running
<1>3. /\ Cur(a).recovery = "normal" /\ Cur(a).rev \in Nat
      /\ LeaseOnRecord(a, Cur(a), leases)
  BY <1>1, <1>2, Working, AttemptFields
<1>4. /\ next \in AttemptRecord
      /\ next.rev = Cur(a).rev + 1 /\ next.recovery = "normal"
      /\ next.snapshot = Cur(a).snapshot /\ next.expected = Cur(a).expected
      /\ next.leaseID = Cur(a).leaseID /\ next.leaseRev = Cur(a).leaseRev
      /\ next.reservation = Cur(a).reservation /\ next.stage = 5
  <2>1. /\ Cur(a).rev + 1 \in Nat /\ BudgetResolved \in Proposed..SandboxActive
        /\ "not_required" \in OperationStates
    BY <1>3, FieldValues
  <2>2. next \in AttemptRecord
    BY <1>1, <2>1, Zenon DEF AttemptRecord
  <2> QED
    BY <1>1, <1>3, <2>2 DEF AttemptRecord, BudgetResolved
<1>5. /\ AdvanceActivation(a, next, "budgeted", "activating")
      /\ UNCHANGED <<leases, epoch, now, plan, sandbox>>
  BY DEF ResolveBudget
<1> HIDE DEF next
<1>6. LeaseOnRecord(a, next, leases)
  BY <1>3, <1>4, LeaseCopied DEF Committed
<1> QED
  BY <1>2, <1>3, <1>4, <1>5, <1>6, LeasedGoesOn DEF Leased, Committed

\* The intent of the allocation, before the provider hears of it.
LEMMA RecordAllocateIntentKeeps ==
    ASSUME ActivationInv, NEW a \in Attempts, RecordAllocateIntent(a)
    PROVE  ActivationInv'
<1> DEFINE next == [Cur(a) EXCEPT !.reservation = "intent_recorded", !.rev = @ + 1]
<1>1. coord[a].pc = "budgeted" /\ Cur(a) \in AttemptRecord
  BY InvFacts DEF RecordAllocateIntent, At
<1>2. coord[a].pc \in Leased /\ coord[a].pc \in Running
  BY <1>1 DEF Leased, Running
<1>3. /\ Cur(a).recovery = "normal" /\ Cur(a).rev \in Nat
      /\ LeaseOnRecord(a, Cur(a), leases)
  BY <1>1, <1>2, Working, AttemptFields
<1>4. /\ next \in AttemptRecord
      /\ next.rev = Cur(a).rev + 1 /\ next.recovery = "normal"
      /\ next.snapshot = Cur(a).snapshot /\ next.expected = Cur(a).expected
      /\ next.leaseID = Cur(a).leaseID /\ next.leaseRev = Cur(a).leaseRev
      /\ next.reservation = "intent_recorded" /\ next.stage = Cur(a).stage
  <2>1. Cur(a).rev + 1 \in Nat /\ "intent_recorded" \in OperationStates
    BY <1>3, FieldValues
  <2>2. next \in AttemptRecord
    BY <1>1, <2>1, Zenon DEF AttemptRecord
  <2> QED
    BY <1>1, <1>3, <2>2 DEF AttemptRecord
<1>5. /\ AdvanceActivation(a, next, "intended", "activating")
      /\ UNCHANGED <<leases, epoch, now, plan, sandbox>>
  BY DEF RecordAllocateIntent
<1> HIDE DEF next
<1>6. LeaseOnRecord(a, next, leases)
  BY <1>3, <1>4, LeaseCopied
<1> QED
  BY <1>2, <1>3, <1>4, <1>5, <1>6, LeasedGoesOn DEF Leased, OnRecord

\* The provider's allocation goes on record.
LEMMA ConfirmAllocationKeeps ==
    ASSUME ActivationInv, NEW a \in Attempts, ConfirmAllocation(a)
    PROVE  ActivationInv'
<1> DEFINE next == [Cur(a) EXCEPT !.stage = SandboxReserved,
                                  !.reservation = "confirmed_applied", !.rev = @ + 1]
<1>1. coord[a].pc = "allocated" /\ Cur(a) \in AttemptRecord
  BY InvFacts DEF ConfirmAllocation, At
<1>2. coord[a].pc \in Leased /\ coord[a].pc \in Running
  BY <1>1 DEF Leased, Running
<1>3. /\ Cur(a).recovery = "normal" /\ Cur(a).rev \in Nat
      /\ LeaseOnRecord(a, Cur(a), leases)
  BY <1>1, <1>2, Working, AttemptFields
<1>4. /\ next \in AttemptRecord
      /\ next.rev = Cur(a).rev + 1 /\ next.recovery = "normal"
      /\ next.snapshot = Cur(a).snapshot /\ next.expected = Cur(a).expected
      /\ next.leaseID = Cur(a).leaseID /\ next.leaseRev = Cur(a).leaseRev
      /\ next.reservation = "confirmed_applied" /\ next.stage = 6
  <2>1. /\ Cur(a).rev + 1 \in Nat /\ "confirmed_applied" \in OperationStates
        /\ SandboxReserved \in Proposed..SandboxActive
    BY <1>3, FieldValues
  <2>2. next \in AttemptRecord
    BY <1>1, <2>1, Zenon DEF AttemptRecord
  <2> QED
    BY <1>1, <1>3, <2>2 DEF AttemptRecord, SandboxReserved
<1>5. /\ AdvanceActivation(a, next, "sandbox_reserved", "activating")
      /\ UNCHANGED <<leases, epoch, now, plan, sandbox>>
  BY DEF ConfirmAllocation
<1> HIDE DEF next
<1>6. LeaseOnRecord(a, next, leases)
  BY <1>3, <1>4, LeaseCopied DEF Committed
<1> QED
  BY <1>2, <1>3, <1>4, <1>5, <1>6, LeasedGoesOn DEF Leased, OnRecord

\* The intent of the activation.
LEMMA RecordActivateIntentKeeps ==
    ASSUME ActivationInv, NEW a \in Attempts, RecordActivateIntent(a)
    PROVE  ActivationInv'
<1> DEFINE next == [Cur(a) EXCEPT !.activation = "intent_recorded", !.rev = @ + 1]
<1>1. coord[a].pc = "committed" /\ Cur(a) \in AttemptRecord
  BY InvFacts DEF RecordActivateIntent, At
<1>2. coord[a].pc \in Provisioning /\ coord[a].pc \in Running
  BY <1>1 DEF Provisioning, Running
<1>3. Cur(a).recovery = "normal" /\ Cur(a).rev \in Nat /\ Cur(a).stage >= Committed
  BY <1>1, <1>2, Working, AttemptFields, CommittedLease
<1>4. /\ next \in AttemptRecord
      /\ next.rev = Cur(a).rev + 1 /\ next.recovery = "normal"
      /\ next.snapshot = Cur(a).snapshot /\ next.expected = Cur(a).expected
      /\ next.leaseID = Cur(a).leaseID /\ next.leaseRev = Cur(a).leaseRev
      /\ next.reservation = Cur(a).reservation /\ next.stage = Cur(a).stage
  <2>1. Cur(a).rev + 1 \in Nat /\ "intent_recorded" \in OperationStates
    BY <1>3, FieldValues
  <2>2. next \in AttemptRecord
    BY <1>1, <2>1, Zenon DEF AttemptRecord
  <2> QED
    BY <1>1, <1>3, <2>2 DEF AttemptRecord
<1>5. /\ AdvanceActivation(a, next, "activate_intended", "provisioning")
      /\ UNCHANGED <<leases, epoch, now, plan, sandbox>>
  BY DEF RecordActivateIntent
<1> HIDE DEF next
<1> QED
  BY <1>2, <1>3, <1>4, <1>5, CommittedGoesOn

\* The active sandbox goes on record.
LEMMA ConfirmActivationKeeps ==
    ASSUME ActivationInv, NEW a \in Attempts, ConfirmActivation(a)
    PROVE  ActivationInv'
<1> DEFINE next == [Cur(a) EXCEPT !.stage = SandboxActive,
                                  !.activation = "confirmed_applied", !.rev = @ + 1]
<1>1. coord[a].pc = "activated" /\ Cur(a) \in AttemptRecord
  BY InvFacts DEF ConfirmActivation, At
<1>2. coord[a].pc \in Provisioning /\ coord[a].pc \in Running
  BY <1>1 DEF Provisioning, Running
<1>3. Cur(a).recovery = "normal" /\ Cur(a).rev \in Nat
  BY <1>1, <1>2, Working, AttemptFields
<1>4. /\ next \in AttemptRecord
      /\ next.rev = Cur(a).rev + 1 /\ next.recovery = "normal"
      /\ next.snapshot = Cur(a).snapshot /\ next.expected = Cur(a).expected
      /\ next.leaseID = Cur(a).leaseID /\ next.leaseRev = Cur(a).leaseRev
      /\ next.reservation = Cur(a).reservation /\ next.stage = 8
  <2>1. /\ Cur(a).rev + 1 \in Nat /\ "confirmed_applied" \in OperationStates
        /\ SandboxActive \in Proposed..SandboxActive
    BY <1>3, FieldValues
  <2>2. next \in AttemptRecord
    BY <1>1, <2>1, Zenon DEF AttemptRecord
  <2> QED
    BY <1>1, <1>3, <2>2 DEF AttemptRecord, SandboxActive
<1>5. /\ AdvanceActivation(a, next, "binding", "binding")
      /\ UNCHANGED <<leases, epoch, now, plan, sandbox>>
  BY DEF ConfirmActivation
<1> HIDE DEF next
<1> QED
  BY <1>2, <1>3, <1>4, <1>5, CommittedGoesOn DEF Committed

\* A coordinator gives up, whatever it was at.
LEMMA GivesUp ==
    ASSUME ActivationInv, NEW a \in Attempts, coord[a].pc # "dead",
           coord' = [coord EXCEPT ![a] = Dead],
           UNCHANGED <<leases, epoch, now, journal, plan, sandbox>>
    PROVE  ActivationInv'
<1>1. PlanGood(a, plan[a], journal[a], sandbox[a], Dead.pc, leases)
  BY DeadFacts, InvFacts, PlanBesideLiving
<1> QED
  BY <1>1, DeadGood, InvFacts, QuietStepOf

\* The record of an unknown outcome, and the error that follows.
LEMMA QuarantineKeeps ==
    ASSUME ActivationInv, NEW a \in Attempts, coord[a].pc \in Running,
           NEW next \in AttemptRecord, next.rev = Cur(a).rev + 1,
           LeaseOnRecord(a, next, leases), next.leaseID = Cur(a).leaseID,
           next.reservation = Cur(a).reservation \/ next.reservation \in OnRecord,
           QuarantineActivation(a, next),
           UNCHANGED <<leases, epoch, now, plan, sandbox>>
    PROVE  ActivationInv'
<1>1. now \in Nat
  BY InvFacts
<1>2. CASE Accepts(a, next, FALSE)
  <2>1. journal' = [journal EXCEPT ![a] = next] /\ coord' = [coord EXCEPT ![a] = Dead]
    BY <1>2 DEF QuarantineActivation
  <2>2. TransitionValid(journal[a], next, FALSE, now)
    BY <1>2 DEF Accepts
  <2>3. /\ JournalGood(a, next, leases) /\ SandboxGood(next, sandbox[a])
        /\ PlanGood(a, plan[a], next, sandbox[a], Dead.pc, leases)
    BY <1>1, <2>2, WriteGood
  <2> QED
    BY <1>1, <2>1, <2>3, DeadGood, QuietStepOf
<1>3. CASE ~Accepts(a, next, FALSE)
  <2>1. journal' = journal /\ coord' = [coord EXCEPT ![a] = Dead]
    BY <1>3 DEF QuarantineActivation
  <2> QED
    BY <2>1, DeadFacts, GivesUp
<1> QED
  BY <1>2, <1>3

\* An allocation that failed may have been carried out.
LEMMA AllocateFailsKeeps ==
    ASSUME ActivationInv, NEW a \in Attempts, AllocateFails(a)
    PROVE  ActivationInv'
<1> DEFINE next == [Cur(a) EXCEPT !.recovery = "quarantined",
                                  !.reservation = "unknown_outcome", !.rev = @ + 1]
<1>1. coord[a].pc = "allocating" /\ Cur(a) \in AttemptRecord
  BY InvFacts DEF AllocateFails, At
<1>2. coord[a].pc \in Running
  BY <1>1 DEF Leased, Running
<1>3. Cur(a).rev \in Nat /\ LeaseOnRecord(a, Cur(a), leases)
  BY <1>1, <1>2, Working, AttemptFields
<1>4. /\ next \in AttemptRecord
      /\ next.rev = Cur(a).rev + 1 /\ next.stage = Cur(a).stage
      /\ next.leaseID = Cur(a).leaseID /\ next.leaseRev = Cur(a).leaseRev
      /\ next.reservation = "unknown_outcome"
  <2>1. Cur(a).rev + 1 \in Nat /\ "unknown_outcome" \in OperationStates
    BY <1>3, FieldValues
  <2>2. next \in AttemptRecord
    BY <1>1, <2>1, Zenon DEF AttemptRecord
  <2> QED
    BY <1>1, <1>3, <2>2 DEF AttemptRecord
<1>5. /\ QuarantineActivation(a, next)
      /\ UNCHANGED <<leases, epoch, now, plan, sandbox>>
  BY DEF AllocateFails
<1> HIDE DEF next
<1>6. LeaseOnRecord(a, next, leases)
  BY <1>3, <1>4, LeaseCopied
<1> QED
  BY <1>2, <1>4, <1>5, <1>6, QuarantineKeeps DEF OnRecord

\* So may an activation.
LEMMA ActivateFailsKeeps ==
    ASSUME ActivationInv, NEW a \in Attempts, ActivateFails(a)
    PROVE  ActivationInv'
<1> DEFINE next == [Cur(a) EXCEPT !.recovery = "quarantined",
                                  !.activation = "unknown_outcome", !.rev = @ + 1]
<1>1. coord[a].pc = "activating" /\ Cur(a) \in AttemptRecord
  BY InvFacts DEF ActivateFails, At
<1>2. coord[a].pc \in Running
  BY <1>1 DEF Provisioning, Running
<1>3. Cur(a).rev \in Nat /\ LeaseOnRecord(a, Cur(a), leases)
  BY <1>1, <1>2, Working, AttemptFields
<1>4. /\ next \in AttemptRecord
      /\ next.rev = Cur(a).rev + 1 /\ next.stage = Cur(a).stage
      /\ next.leaseID = Cur(a).leaseID /\ next.leaseRev = Cur(a).leaseRev
      /\ next.reservation = Cur(a).reservation
  <2>1. Cur(a).rev + 1 \in Nat /\ "unknown_outcome" \in OperationStates
    BY <1>3, FieldValues
  <2>2. next \in AttemptRecord
    BY <1>1, <2>1, Zenon DEF AttemptRecord
  <2> QED
    BY <1>1, <1>3, <2>2 DEF AttemptRecord
<1>5. /\ QuarantineActivation(a, next)
      /\ UNCHANGED <<leases, epoch, now, plan, sandbox>>
  BY DEF ActivateFails
<1> HIDE DEF next
<1>6. LeaseOnRecord(a, next, leases)
  BY <1>3, <1>4, LeaseCopied
<1> QED
  BY <1>2, <1>4, <1>5, <1>6, QuarantineKeeps

----------------------------------------------------------------------------
(* The coordinator's steps that write no record.                           *)

\* A coordinator past the commit: its attempt cannot be abandoned any more.
LEMMA JournalPastCommit ==
    ASSUME ActivationInv, NEW a \in Attempts,
           coord[a].pc \in Provisioning \cup Serving \cup Closing
    PROVE  /\ AttemptValid(journal[a]) /\ journal[a].stage >= Committed
           /\ ~Abandoned(journal[a])
           /\ journal[a].reservation = "confirmed_applied"
<1>1. coord[a].pc \in Running
  BY DEF Running
<1>2. CopyOf(Cur(a), journal[a]) /\ Cur(a).stage >= Committed
  BY <1>1, Working, CommittedLease
<1>3. /\ Cur(a) \in AttemptRecord /\ journal[a] \in AttemptRecord
      /\ JournalGood(a, journal[a], leases)
  BY InvFacts
<1>4. journal[a].stage >= Committed /\ journal[a].stage \in Nat
  BY <1>2, <1>3, AttemptFields DEF CopyOf, Committed
<1>5. AttemptValid(journal[a])
  BY <1>3, <1>4, NoAttemptFacts DEF JournalGood, Committed
<1>6. /\ ~Abandoned(journal[a])
      /\ journal[a].reservation \in {"confirmed_applied", "released"}
  BY <1>3, <1>4, <1>5, ValidFacts DEF Committed, SandboxReserved
<1> QED
  BY <1>3, <1>4, <1>5, <1>6 DEF JournalGood

\* A coordinator that goes on at pc with the record and the lease it has.
LEMMA WalkedGood ==
    ASSUME ActivationInv, NEW a \in Attempts, coord[a].pc \in Running,
           NEW pc \in Running, NEW phase \in Phases \ {"terminal"}, NEW t \in 0..now, NEW s,
           pc \notin {"reserved", "lease_revoked", "terminal"},
           pc = "sandbox_released" => s = "released",
           pc \in Unleased => coord[a].pc \in Unleased,
           pc \in Leased \cup Provisioning => coord[a].pc \in Leased \cup Provisioning,
           pc \in Provisioning => coord[a].pc \in Provisioning,
           pc # "intended",
           pc \in Provisioning \cup Serving \cup Closing =>
               coord[a].pc \in Provisioning \cup Serving \cup Closing,
           pc \in Provisioning \cup Serving => coord[a].pc \in Provisioning \cup Serving
    PROVE  CoordGood(a, [coord[a] EXCEPT !.pc = pc, !.phase = phase, !.t = t],
                     journal[a], s, leases, now)
<1> DEFINE c == [coord[a] EXCEPT !.pc = pc, !.phase = phase, !.t = t]
<1>1. /\ coord[a] \in CoordinatorType /\ t \in Nat /\ t <= now
      /\ CoordGood(a, coord[a], journal[a], sandbox[a], leases, now)
  BY InvFacts
<1>2. c \in CoordinatorType
  BY <1>1 DEF CoordinatorType
<1>3. /\ c.pc = pc /\ c.phase = phase /\ c.cur = Cur(a) /\ c.t = t
      /\ c.leaseExp = coord[a].leaseExp /\ c.leaseRev = coord[a].leaseRev
  BY <1>1 DEF CoordinatorType, Cur
<1> HIDE DEF c
<1>4. c.pc # "idle" /\ c.pc \in Running
  BY <1>3 DEF Running, Unleased, Leased, Provisioning, Serving, Closing
<1>5. c.pc \in Leased \cup Provisioning => OwnLease(a, c, leases, now)
  <2>1. SUFFICES ASSUME c.pc \in Leased \cup Provisioning PROVE OwnLease(a, c, leases, now)
    OBVIOUS
  <2>2. OwnLease(a, coord[a], leases, now)
    BY <1>1, <1>3, <2>1 DEF CoordGood
  <2> QED
    BY <1>3, <2>2 DEF OwnLease, Cur
<1>6. /\ AttemptValid(c.cur) /\ c.cur.recovery = "normal" /\ c.cur.snapshot <= c.leaseExp
      /\ CopyOf(c.cur, journal[a]) /\ LeaseOnRecord(a, c.cur, leases)
  BY <1>3, Working
<1>7. /\ c.pc \in Unleased => \A e \in Epochs : leases[e].attempt # a
      /\ c.pc # "intended"
      /\ c.pc \in Provisioning \cup Serving \cup Closing => c.cur.stage >= Committed
      /\ c.pc \in Provisioning \cup Serving => c.leaseRev \in 1..leases[c.cur.leaseID].rev
  BY <1>1, <1>3 DEF CoordGood, Cur
<1>8. CoordGood(a, c, journal[a], s, leases, now)
  BY <1>1, <1>2, <1>3, <1>4, <1>5, <1>6, <1>7 DEF CoordGood
<1> QED
  BY <1>8 DEF c

\* Moving the program counter alone.
LEMMA GotoIs ==
    ASSUME ActivationInv, NEW a \in Attempts, NEW pc, Goto(a, pc)
    PROVE  /\ coord' = [coord EXCEPT ![a] = [coord[a] EXCEPT !.pc = pc, !.phase = coord[a].phase,
                                                             !.t = coord[a].t]]
           /\ coord[a].t \in 0..now /\ coord[a].phase \in Phases
<1>1. coord[a] \in CoordinatorType /\ coord[a].t \in 0..now
  BY InvFacts, CoordFields
<1>2. coord[a].phase \in Phases
  BY <1>1 DEF CoordinatorType
<1>3. [coord[a] EXCEPT !.pc = pc] =
         [coord[a] EXCEPT !.pc = pc, !.phase = coord[a].phase, !.t = coord[a].t]
  BY <1>1 DEF CoordinatorType
<1>4. coord' = [coord EXCEPT ![a] = [coord[a] EXCEPT !.pc = pc]]
  BY DEF Goto
<1> QED
  BY <1>1, <1>2, <1>3, <1>4

\* A coordinator goes on, and has the sandbox it asked for.
LEMMA WalkKeeps ==
    ASSUME ActivationInv, NEW a \in Attempts, NEW c, NEW s, c.pc # "intended",
           CoordGood(a, c, journal[a], s, leases, now), SandboxGood(journal[a], s),
           \/ s = sandbox[a]
           \/ coord[a].pc = "intended" /\ journal[a].reservation = "intent_recorded"
           \/ journal[a].recovery # "aborting" /\ journal[a].reservation \notin Unresolved,
           coord' = [coord EXCEPT ![a] = c],
           sandbox' = [sandbox EXCEPT ![a] = s] \/ (sandbox' = sandbox /\ s = sandbox[a]),
           UNCHANGED <<leases, epoch, now, journal, plan>>
    PROVE  ActivationInv'
<1>1. PlanGood(a, plan[a], journal[a], s, c.pc, leases)
  BY InvFacts, PlanBesideLiving
<1> QED
  BY <1>1, InvFacts, QuietStepOf

\* The clock is read before the lease store is asked.
LEMMA ReadClockKeeps ==
    ASSUME ActivationInv, NEW a \in Attempts, ReadClock(a)
    PROVE  ActivationInv'
<1> DEFINE pc == IF coord[a].pc = "frozen" THEN "reserving" ELSE "committing"
           c == [coord[a] EXCEPT !.pc = pc, !.phase = coord[a].phase, !.t = now]
<1>1. /\ coord[a].pc \in {"frozen", "sandbox_reserved"}
      /\ UNCHANGED <<leases, epoch, now, journal, plan, sandbox>>
  BY DEF ReadClock
<1>2. coord[a] \in CoordinatorType /\ now \in Nat /\ now \in 0..now
  BY InvFacts
<1>3. coord[a].phase \in Phases \ {"terminal"}
  BY <1>1, <1>2, InvFacts DEF CoordinatorType, CoordGood
<1>4. coord' = [coord EXCEPT ![a] = c]
  <2>1. c = [coord[a] EXCEPT !.pc = pc, !.t = now]
    BY <1>2 DEF CoordinatorType
  <2>2. coord' = [coord EXCEPT ![a] = [coord[a] EXCEPT !.pc = pc, !.t = now]]
    BY DEF ReadClock, At
  <2> QED
    BY <2>1, <2>2
<1>5. CoordGood(a, c, journal[a], sandbox[a], leases, now)
  BY <1>1, <1>2, <1>3, WalkedGood
     DEF Running, Unleased, Leased, Provisioning, Serving, Closing
<1>6. c.pc # "intended"
  BY <1>2 DEF CoordinatorType
<1> HIDE DEF c
<1> QED
  BY <1>1, <1>4, <1>5, <1>6, InvFacts, WalkKeeps

\* The provider is asked for a sandbox, and returns it.
LEMMA AllocateKeeps ==
    ASSUME ActivationInv, NEW a \in Attempts, Allocate(a) \/ AllocateReturns(a)
    PROVE  ActivationInv'
<1>1. /\ coord[a].pc \in {"intended", "allocating"}
      /\ UNCHANGED <<leases, epoch, now, journal, plan>>
  BY DEF Allocate, AllocateReturns, At
<1>2. /\ coord[a].phase # "terminal"
      /\ coord[a].pc = "intended" => journal[a].reservation = "intent_recorded"
  BY <1>1, InvFacts DEF CoordGood
<1>3. ASSUME NEW pc \in {"allocating", "allocated"}, Goto(a, pc), NEW s
      PROVE  \E c : /\ coord' = [coord EXCEPT ![a] = c]
                    /\ c.pc = pc
                    /\ CoordGood(a, c, journal[a], s, leases, now)
  <2> DEFINE c == [coord[a] EXCEPT !.pc = pc, !.phase = coord[a].phase, !.t = coord[a].t]
  <2>1. /\ coord' = [coord EXCEPT ![a] = [coord[a] EXCEPT
                             !.pc = pc, !.phase = coord[a].phase, !.t = coord[a].t]]
        /\ coord[a].t \in 0..now /\ coord[a].phase \in Phases \ {"terminal"}
    BY <1>2, <1>3, GotoIs
  <2>2. /\ pc \in Running /\ pc \in Leased /\ coord[a].pc \in Running /\ coord[a].pc \in Leased
        /\ pc \notin Unleased \cup Provisioning \cup Serving \cup Closing
        /\ pc \notin {"reserved", "lease_revoked", "terminal", "sandbox_released"}
    BY <1>1, <1>3 DEF Running, Unleased, Leased, Provisioning, Serving, Closing
  <2>3. CoordGood(a, c, journal[a], s, leases, now)
    BY <1>1, <2>1, <2>2, WalkedGood
  <2>4. c.pc = pc
    BY InvFacts DEF CoordinatorType
  <2> HIDE DEF c
  <2> QED
    BY <2>1, <2>3, <2>4 DEF c
<1>4. CASE Allocate(a)
  <2>1. Goto(a, "allocating") /\ sandbox' = [sandbox EXCEPT ![a] = "requested"]
    BY <1>4 DEF Allocate
  <2>2. coord[a].pc = "intended"
    BY <1>4 DEF Allocate, At
  <2>3. SandboxGood(journal[a], "requested")
    BY <1>2, <2>2 DEF SandboxGood, SandboxStates, Sandboxed, OnRecord
  <2> QED
    BY <1>1, <1>2, <1>3, <2>1, <2>2, <2>3, WalkKeeps
<1>5. CASE AllocateReturns(a)
  <2>1. Goto(a, "allocated") /\ sandbox' = sandbox
    BY <1>5 DEF AllocateReturns
  <2> QED
    BY <1>1, <1>3, <2>1, InvFacts, WalkKeeps
<1> QED
  BY <1>4, <1>5

\* A coordinator past the commit moves on, and has the sandbox it asked for.
LEMMA CommittedWalks ==
    ASSUME ActivationInv, NEW a \in Attempts,
           coord[a].pc \in (Provisioning \cup Serving \cup Closing) \ {"terminal"},
           NEW pc \in Provisioning \cup Serving \cup Closing, NEW phase \in Phases,
           phase = coord[a].phase \/ phase # "terminal",
           pc \notin {"lease_revoked", "terminal"},
           pc \in Provisioning => coord[a].pc \in Provisioning,
           pc \in Serving => coord[a].pc \in Provisioning \cup Serving,
           NEW s \in SandboxStates, pc = "sandbox_released" => s = "released",
           coord' = [coord EXCEPT ![a] = [coord[a] EXCEPT !.pc = pc, !.phase = phase,
                                                          !.t = coord[a].t]],
           sandbox' = [sandbox EXCEPT ![a] = s] \/ (sandbox' = sandbox /\ s = sandbox[a]),
           UNCHANGED <<leases, epoch, now, journal, plan>>
    PROVE  ActivationInv'
<1> DEFINE c == [coord[a] EXCEPT !.pc = pc, !.phase = phase, !.t = coord[a].t]
<1>1. /\ coord[a].pc \in Running /\ coord[a].pc # "dead" /\ pc \in Running /\ pc # "reserved"
      /\ pc \notin {"intended", "allocating", "allocated"} /\ pc \notin Unleased
      /\ pc \notin Leased
  BY DEF Running, Unleased, Leased, Provisioning, Serving, Closing
<1>2. ~Abandoned(journal[a]) /\ journal[a].reservation = "confirmed_applied"
  BY JournalPastCommit
<1>3. coord[a].phase # "terminal" /\ coord[a].t \in 0..now
  BY InvFacts, CoordFields DEF CoordGood
<1>4. CoordGood(a, c, journal[a], s, leases, now)
  BY <1>1, <1>3, WalkedGood
<1>5. SandboxGood(journal[a], s)
  BY <1>2 DEF SandboxGood, OnRecord
<1>6. journal[a].recovery # "aborting" /\ journal[a].reservation \notin Unresolved
  BY <1>2 DEF Abandoned, Unresolved
<1>7. c.pc = pc
  BY InvFacts DEF CoordinatorType
<1> HIDE DEF c
<1> QED
  BY <1>1, <1>4, <1>5, <1>6, <1>7, WalkKeeps DEF c

\* The steps of a provisioned instance that only move its program counter.
LEMMA CommittedGoto ==
    ASSUME ActivationInv, NEW a \in Attempts,
           ActivateSandbox(a) \/ ActivateReturns(a) \/ StopFencesSandbox(a)
           \/ StopReleasesSandbox(a) \/ StopFails(a)
    PROVE  ActivationInv'
<1>1. UNCHANGED <<leases, epoch, now, journal, plan>> /\ sandbox[a] \in SandboxStates
  BY InvFacts DEF ActivateSandbox, ActivateReturns, StopFencesSandbox, StopReleasesSandbox,
                  StopFails, SandboxGood
<1>2. CASE ActivateSandbox(a)
  <2>1. /\ coord[a].pc = "activate_intended" /\ Goto(a, "activating")
        /\ sandbox' = [sandbox EXCEPT ![a] = "activating"]
    BY <1>2 DEF ActivateSandbox, At
  <2>2. /\ coord[a].pc \in (Provisioning \cup Serving \cup Closing) \ {"terminal"}
        /\ "activating" \in Provisioning \cup Serving \cup Closing
        /\ "activating" \in Provisioning => coord[a].pc \in Provisioning
        /\ "activating" \in Serving => coord[a].pc \in Provisioning \cup Serving
    BY <2>1 DEF Provisioning, Serving, Closing
  <2>3. /\ coord' = [coord EXCEPT ![a] = [coord[a] EXCEPT
                        !.pc = "activating", !.phase = coord[a].phase, !.t = coord[a].t]]
        /\ coord[a].phase \in Phases
    BY <1>1, <2>1, GotoIs
  <2>4. "activating" \notin {"lease_revoked", "terminal"} /\ "activating" \in SandboxStates
    BY <1>1 DEF SandboxStates, Sandboxed
  <2> QED
    BY <1>1, <2>1, <2>2, <2>3, <2>4, CommittedWalks
<1>3. CASE ActivateReturns(a)
  <2>1. coord[a].pc = "activating" /\ Goto(a, "activated") /\ sandbox' = sandbox
    BY <1>3 DEF ActivateReturns, At
  <2>2. /\ coord[a].pc \in (Provisioning \cup Serving \cup Closing) \ {"terminal"}
        /\ "activated" \in Provisioning \cup Serving \cup Closing
        /\ "activated" \in Provisioning => coord[a].pc \in Provisioning
        /\ "activated" \in Serving => coord[a].pc \in Provisioning \cup Serving
    BY <2>1 DEF Provisioning, Serving, Closing
  <2>3. /\ coord' = [coord EXCEPT ![a] = [coord[a] EXCEPT
                        !.pc = "activated", !.phase = coord[a].phase, !.t = coord[a].t]]
        /\ coord[a].phase \in Phases
    BY <1>1, <2>1, GotoIs
  <2>4. "activated" \notin {"lease_revoked", "terminal"} /\ sandbox[a] \in SandboxStates
    BY <1>1 DEF SandboxStates, Sandboxed
  <2> QED
    BY <1>1, <2>1, <2>2, <2>3, <2>4, CommittedWalks
<1>4. CASE StopFencesSandbox(a)
  <2>1. /\ coord[a].pc = "stopping" /\ Goto(a, "sandbox_fenced")
        /\ sandbox' = [sandbox EXCEPT ![a] = "fenced"]
    BY <1>4 DEF StopFencesSandbox, At
  <2>2. /\ coord[a].pc \in (Provisioning \cup Serving \cup Closing) \ {"terminal"}
        /\ "sandbox_fenced" \in Provisioning \cup Serving \cup Closing
        /\ "sandbox_fenced" \in Provisioning => coord[a].pc \in Provisioning
        /\ "sandbox_fenced" \in Serving => coord[a].pc \in Provisioning \cup Serving
    BY <2>1 DEF Provisioning, Serving, Closing
  <2>3. /\ coord' = [coord EXCEPT ![a] = [coord[a] EXCEPT
                        !.pc = "sandbox_fenced", !.phase = coord[a].phase, !.t = coord[a].t]]
        /\ coord[a].phase \in Phases
    BY <1>1, <2>1, GotoIs
  <2>4. "sandbox_fenced" \notin {"lease_revoked", "terminal"} /\ "fenced" \in SandboxStates
    BY <1>1 DEF SandboxStates, Sandboxed
  <2> QED
    BY <1>1, <2>1, <2>2, <2>3, <2>4, CommittedWalks
<1>5. CASE StopReleasesSandbox(a)
  <2>1. /\ coord[a].pc = "sandbox_fenced" /\ Goto(a, "sandbox_released")
        /\ sandbox' = [sandbox EXCEPT ![a] = "released"]
    BY <1>5 DEF StopReleasesSandbox, At
  <2>2. /\ coord[a].pc \in (Provisioning \cup Serving \cup Closing) \ {"terminal"}
        /\ "sandbox_released" \in Provisioning \cup Serving \cup Closing
        /\ "sandbox_released" \in Provisioning => coord[a].pc \in Provisioning
        /\ "sandbox_released" \in Serving => coord[a].pc \in Provisioning \cup Serving
    BY <2>1 DEF Provisioning, Serving, Closing
  <2>3. /\ coord' = [coord EXCEPT ![a] = [coord[a] EXCEPT
                        !.pc = "sandbox_released", !.phase = coord[a].phase, !.t = coord[a].t]]
        /\ coord[a].phase \in Phases
    BY <1>1, <2>1, GotoIs
  <2>4. "sandbox_released" \notin {"lease_revoked", "terminal"} /\ "released" \in SandboxStates
    BY <1>1 DEF SandboxStates, Sandboxed
  <2> QED
    BY <1>1, <2>1, <2>2, <2>3, <2>4, CommittedWalks
<1>6. CASE StopFails(a)
  <2>1. /\ coord[a].pc \in {"stopping", "sandbox_fenced", "sandbox_released", "lease_revoked"}
        /\ Goto(a, "stop_failed") /\ sandbox' = sandbox
    BY <1>6 DEF StopFails
  <2>2. /\ coord[a].pc \in (Provisioning \cup Serving \cup Closing) \ {"terminal"}
        /\ "stop_failed" \in Provisioning \cup Serving \cup Closing
        /\ "stop_failed" \in Provisioning => coord[a].pc \in Provisioning
        /\ "stop_failed" \in Serving => coord[a].pc \in Provisioning \cup Serving
    BY <2>1 DEF Provisioning, Serving, Closing
  <2>3. /\ coord' = [coord EXCEPT ![a] = [coord[a] EXCEPT
                        !.pc = "stop_failed", !.phase = coord[a].phase, !.t = coord[a].t]]
        /\ coord[a].phase \in Phases
    BY <1>1, <2>1, GotoIs
  <2>4. "stop_failed" \notin {"lease_revoked", "terminal"} /\ sandbox[a] \in SandboxStates
    BY <1>1 DEF SandboxStates, Sandboxed
  <2> QED
    BY <1>1, <2>1, <2>2, <2>3, <2>4, CommittedWalks
<1> QED
  BY <1>2, <1>3, <1>4, <1>5, <1>6

\* The steps that also move the aggregate's phase.
LEMMA CommittedPhase ==
    ASSUME ActivationInv, NEW a \in Attempts, OpenAndInspect(a) \/ BeginStop(a)
    PROVE  ActivationInv'
<1>1. /\ UNCHANGED <<leases, epoch, now, journal, plan, sandbox>>
      /\ sandbox[a] \in SandboxStates /\ coord[a] \in CoordinatorType
  BY InvFacts DEF OpenAndInspect, BeginStop, SandboxGood
<1>2. ASSUME NEW pc, NEW phase
      PROVE  [coord[a] EXCEPT !.pc = pc, !.phase = phase] =
             [coord[a] EXCEPT !.pc = pc, !.phase = phase, !.t = coord[a].t]
  BY <1>1 DEF CoordinatorType
<1>3. CASE OpenAndInspect(a) /\ sandbox[a] = "active"
  <2>1. /\ coord[a].pc = "binding"
        /\ coord' = [coord EXCEPT ![a] = [coord[a] EXCEPT !.pc = "ready", !.phase = "ready"]]
    BY <1>3 DEF OpenAndInspect, At
  <2>2. /\ coord[a].pc \in (Provisioning \cup Serving \cup Closing) \ {"terminal"}
        /\ "ready" \in Provisioning \cup Serving \cup Closing
        /\ "ready" \in Provisioning => coord[a].pc \in Provisioning
        /\ "ready" \in Serving => coord[a].pc \in Provisioning \cup Serving
    BY <2>1 DEF Provisioning, Serving, Closing
  <2>3. /\ coord' = [coord EXCEPT ![a] = [coord[a] EXCEPT
                        !.pc = "ready", !.phase = "ready", !.t = coord[a].t]]
        /\ "ready" \in Phases
    BY <1>1, <1>2, <2>1 DEF Phases
  <2>4. "ready" \notin {"lease_revoked", "terminal", "sandbox_released"}
        /\ sandbox[a] \in SandboxStates
    BY <1>1 DEF SandboxStates, Sandboxed
  <2> QED
    BY <1>1, <2>2, <2>3, <2>4, CommittedWalks
<1>4. CASE OpenAndInspect(a) /\ sandbox[a] # "active"
  <2>1. coord[a].pc = "binding" /\ coord' = [coord EXCEPT ![a] = Dead]
    BY <1>4 DEF OpenAndInspect, At
  <2> QED
    BY <1>1, <2>1, GivesUp
<1>5. CASE BeginStop(a)
  <2>1. /\ coord[a].pc = "ready"
        /\ coord' = [coord EXCEPT ![a] =
                        [coord[a] EXCEPT !.pc = "stopping", !.phase = "stopping"]]
    BY <1>5 DEF BeginStop, At
  <2>2. /\ coord[a].pc \in (Provisioning \cup Serving \cup Closing) \ {"terminal"}
        /\ "stopping" \in Provisioning \cup Serving \cup Closing
        /\ "stopping" \in Provisioning => coord[a].pc \in Provisioning
        /\ "stopping" \in Serving => coord[a].pc \in Provisioning \cup Serving
    BY <2>1 DEF Provisioning, Serving, Closing
  <2>3. /\ coord' = [coord EXCEPT ![a] = [coord[a] EXCEPT
                        !.pc = "stopping", !.phase = "stopping", !.t = coord[a].t]]
        /\ "stopping" \in Phases
    BY <1>1, <1>2, <2>1 DEF Phases
  <2>4. "stopping" \notin {"lease_revoked", "terminal", "sandbox_released"}
        /\ sandbox[a] \in SandboxStates
    BY <1>1 DEF SandboxStates, Sandboxed
  <2> QED
    BY <1>1, <2>2, <2>3, <2>4, CommittedWalks
<1> QED
  BY <1>3, <1>4, <1>5

\* The death of a coordinator.
LEMMA CoordinatorDiesKeeps ==
    ASSUME ActivationInv, NEW a \in Attempts, CoordinatorDies(a)
    PROVE  ActivationInv'
  BY GivesUp DEF CoordinatorDies

----------------------------------------------------------------------------
(* The coordinator's steps that use the lease store.                       *)

\* The executor depends on the leases through what is on record.
LEMMA PlanUnderLeases ==
    ASSUME NEW a, NEW p, NEW j, NEW s, NEW pc, NEW ls, NEW ls2,
           \A at \in AttemptRecord : LeaseOnRecord(a, at, ls) => LeaseOnRecord(a, at, ls2),
           PlanGood(a, p, j, s, pc, ls)
    PROVE  PlanGood(a, p, j, s, pc, ls2)
  BY DEF PlanGood

\* So does the journal, apart from the active lease.
LEMMA JournalUnderLeases ==
    ASSUME NEW a, NEW j, NEW ls, NEW ls2,
           \A at \in AttemptRecord : LeaseOnRecord(a, at, ls) => LeaseOnRecord(a, at, ls2),
           \A e \in Epochs : ls2[e].state = "active" /\ ls2[e].attempt = a =>
               ls[e].state = "active" /\ ls[e].attempt = a,
           JournalGood(a, j, ls)
    PROVE  JournalGood(a, j, ls2)
  BY DEF JournalGood

\* Looking at the latest lease may let it expire, and does nothing else.
LEMMA TouchedAside ==
    ASSUME ActivationInv, NEW t \in 0..now, NEW b
    PROVE  Aside(b, leases, TouchedLeases(t), now)
<1>1. leases \in [Epochs -> LeaseRecord] /\ epoch \in 0..MaxEpoch /\ now \in Nat /\ t \in Nat
  BY DEF ActivationInv, LeaseInv, LeaseTypeOK
<1>2. ASSUME NEW e \in Epochs
      PROVE  TouchedLeases(t)[e] = leases[e] \/ TouchedLeases(t)[e] = Expire(leases[e], t)
  BY <1>1 DEF TouchedLeases
<1>3. \A e \in Epochs : Expire(leases[e], t).attempt = leases[e].attempt
  BY <1>1, ExpireStands DEF Stands
<1> QED
  BY <1>2, <1>3 DEF Aside

\* A coordinator that the lease store refused gives up.
LEMMA GivesUpRefused ==
    ASSUME ActivationInv, NEW a \in Attempts, coord[a].pc # "dead",
           [LeaseNext]_leaseVars, now' = now,
           \A b \in Attempts : Aside(b, leases, leases', now),
           coord' = [coord EXCEPT ![a] = Dead],
           UNCHANGED <<journal, plan, sandbox>>
    PROVE  ActivationInv'
<1>1. now \in Nat /\ leases \in [Epochs -> LeaseRecord]
  BY InvFacts
<1>2. leases' \in [Epochs -> LeaseRecord]
  BY LeaseInvInductive DEF ActivationInv, LeaseInv, LeaseTypeOK
<1>3. Good(a, journal[a], coord[a], plan[a], sandbox[a], leases, now)
  BY DEF ActivationInv
<1>4. Good(a, journal[a], coord[a], plan[a], sandbox[a], leases', now)
  BY <1>1, <1>2, <1>3, GoodAside
<1>5. PlanGood(a, plan[a], journal[a], sandbox[a], Dead.pc, leases')
  BY <1>4, DeadFacts, PlanBesideLiving DEF Good
<1>6. Good(a, journal[a], Dead, plan[a], sandbox[a], leases', now)
  BY <1>1, <1>4, <1>5, DeadGood DEF Good
<1> QED
  BY <1>6, StepOf

\* The reservation: an attempt that has no lease gets a new one, or gives up.
LEMMA ReserveLeaseKeeps ==
    ASSUME ActivationInv, NEW a \in Attempts, ReserveLease(a)
    PROVE  ActivationInv'
<1> DEFINE c == coord[a]
           x == c.cur.expected
           t == c.t
<1>1. /\ c.pc = "reserving" /\ now' = now /\ UNCHANGED <<journal, plan, sandbox>>
  BY DEF ReserveLease, At
<1>2. /\ leases \in [Epochs -> LeaseRecord] /\ epoch \in 0..MaxEpoch /\ now \in Nat
      /\ JournalGood(a, journal[a], leases) /\ SandboxGood(journal[a], sandbox[a])
      /\ CoordGood(a, c, journal[a], sandbox[a], leases, now) /\ c \in CoordinatorType
      /\ PlanGood(a, plan[a], journal[a], sandbox[a], c.pc, leases)
  BY InvFacts
<1>3. /\ t \in 0..now /\ t \in Nat /\ c.leaseExp \in Nat /\ c.cur \in AttemptRecord
      /\ x \in Nat /\ x + 1 \in Epochs
  BY InvFacts, CoordFields, AttemptFields DEF Cur
<1>4. \A e \in Epochs : leases[e].attempt # a
  BY <1>1, <1>2 DEF CoordGood, Unleased
<1>5. [LeaseNext]_leaseVars
  BY ReserveIsStoreStep DEF LeaseNext
<1>6. leases' \in [Epochs -> LeaseRecord]
  BY <1>5, LeaseInvInductive DEF ActivationInv, LeaseInv, LeaseTypeOK
<1>7. ~ReserveReplays(a, x, t)
  <2>1. SUFFICES ASSUME CurrentLease(t).attempt = a PROVE FALSE
    BY DEF ReserveReplays
  <2>2. CASE epoch = 0
    BY <2>1, <2>2, LeaseAssumption DEF CurrentLease, AbsentLease
  <2>3. CASE epoch # 0
    <3>1. epoch \in Epochs /\ CurrentLease(t) = Expire(leases[epoch], t)
      BY <1>2, <2>3, LeaseAssumption DEF CurrentLease, Epochs
    <3>2. Expire(leases[epoch], t).attempt = leases[epoch].attempt
      BY <1>2, <1>3, <3>1, ExpireStands DEF Stands
    <3> QED
      BY <1>4, <2>1, <3>1, <3>2
  <2> QED
    BY <2>2, <2>3
<1>8. CASE ~(c.leaseExp > t)
  <2>1. UNCHANGED <<leases, epoch>> /\ coord' = [coord EXCEPT ![a] = Dead]
    BY <1>8 DEF ReserveLease
  <2> QED
    BY <1>1, <2>1, GivesUp
<1>9. CASE c.leaseExp > t /\ ~ReserveAdmits(a, x, t)
  <2>1. leases' = TouchedLeases(t) /\ coord' = [coord EXCEPT ![a] = Dead]
    BY <1>7, <1>9 DEF ReserveLease, ReserveIdentityLease
  <2>2. \A b \in Attempts : Aside(b, leases, leases', now)
    BY <1>3, <2>1, TouchedAside
  <2> QED
    BY <1>1, <1>5, <2>1, <2>2, GivesUpRefused
<1>10. CASE c.leaseExp > t /\ ReserveAdmits(a, x, t)
  <2> DEFINE d == [c EXCEPT !.pc = "reserved", !.t = 0, !.leaseRev = 1]
             new == NewLease(a, c.leaseExp)
  <2>1. /\ leases' = [TouchedLeases(t) EXCEPT ![x + 1] = new]
        /\ coord' = [coord EXCEPT ![a] = d] /\ x = epoch
    BY <1>10 DEF ReserveLease, ReserveIdentityLease, ReserveAdmits
  <2>2. leases[x + 1] = AbsentLease
    BY <1>2, <1>3, <2>1 DEF ActivationInv, LeaseInv, EpochsInOrder
  <2>3. TouchedLeases(t) \in [Epochs -> LeaseRecord]
    <3>1. epoch # 0 => epoch \in Epochs /\ Expire(leases[epoch], t) \in LeaseRecord
      BY <1>2, <1>3, ExpireStands, LeaseAssumption DEF Epochs
    <3> QED
      BY <1>2, <3>1 DEF TouchedLeases
  <2>4. /\ leases'[x + 1] = new
        /\ \A e \in Epochs : e # x + 1 => leases'[e] = TouchedLeases(t)[e]
    BY <1>3, <2>1, <2>3
  <2>5. new.attempt = a /\ new.state = "reserved" /\ new.exp = c.leaseExp /\ new.rev = 1
    BY DEF NewLease
  <2>6. \A b \in Attempts : b # a => Aside(b, leases, leases', now)
    <3>1. ASSUME NEW b \in Attempts, b # a PROVE Aside(b, leases, leases', now)
      <4>1. Aside(b, leases, TouchedLeases(t), now)
        BY <1>3, TouchedAside
      <4>2. leases[x + 1].attempt # b
        BY <2>2, LeaseAssumption DEF AbsentLease
      <4> QED
        BY <2>4, <2>5, <3>1, <4>1, <4>2 DEF Aside
    <3> QED
      BY <3>1
  <2>7. \A e \in Epochs : e # x + 1 => leases'[e].attempt # a
    <3>1. Aside(a, leases, TouchedLeases(t), now)
      BY <1>3, TouchedAside
    <3> QED
      BY <1>4, <2>4, <3>1 DEF Aside
  <2>8. \A at \in AttemptRecord : LeaseOnRecord(a, at, leases) =>
           at.leaseID = 0 /\ LeaseOnRecord(a, at, leases')
    BY <1>4 DEF LeaseOnRecord
  <2>9. /\ d \in CoordinatorType
        /\ d.pc = "reserved" /\ d.phase = c.phase /\ d.cur = c.cur /\ d.t = 0
        /\ d.leaseExp = c.leaseExp /\ d.leaseRev = 1
    <3>1. "reserved" \in Running
      BY DEF Running, Leased
    <3> QED
      BY <1>2, <3>1 DEF CoordinatorType
  <2> HIDE DEF d, new
  <2>10. JournalGood(a, journal[a], leases')
    <3>1. \A e \in Epochs : ~(leases'[e].state = "active" /\ leases'[e].attempt = a)
      BY <2>4, <2>5, <2>7
    <3> QED
      BY <1>2, <2>8, <3>1, JournalUnderLeases
  <2>11. PlanGood(a, plan[a], journal[a], sandbox[a], d.pc, leases')
    <3>1. PlanGood(a, plan[a], journal[a], sandbox[a], d.pc, leases)
      BY <1>1, <1>2, <2>9, PlanBesideLiving
    <3> QED
      BY <2>8, <3>1, PlanUnderLeases
  <2>12. CoordGood(a, d, journal[a], sandbox[a], leases', now)
    <3>1. /\ c.phase # "terminal" /\ CopyOf(d.cur, journal[a])
          /\ LeaseOnRecord(a, d.cur, leases') /\ d.cur.leaseID = 0
      BY <1>1, <1>2, <1>3, <2>8, <2>9 DEF CoordGood
    <3>2. AttemptValid(d.cur) /\ d.cur.recovery = "normal" /\ d.cur.snapshot <= d.leaseExp
      BY <1>1, <2>9, Working DEF Cur, Running, Unleased
    <3>3. /\ d.pc \in Running /\ d.pc \in Leased /\ d.pc \notin Unleased \cup {"idle"}
          /\ d.pc \notin Provisioning
          /\ d.pc \notin Provisioning \cup Serving \cup Closing
          /\ d.pc \notin Provisioning \cup Serving
      BY <2>9 DEF Running, Unleased, Leased, Provisioning, Serving, Closing
    <3>4. OwnLease(a, d, leases', now)
      BY <1>3, <2>4, <2>5, <2>9, <3>1, <3>3 DEF OwnLease
    <3> QED
      BY <1>2, <2>9, <3>1, <3>2, <3>3, <3>4 DEF CoordGood
  <2>13. Good(a, journal[a], d, plan[a], sandbox[a], leases', now)
    BY <1>2, <2>10, <2>11, <2>12 DEF Good
  <2> QED
    BY <1>1, <1>5, <2>1, <2>6, <2>13, StepOf
<1> QED
  BY <1>8, <1>9, <1>10

\* What the commit finds when it is allowed: the coordinator's copy is the
\* record, and the lease is the one it reserved, not expired.
LEMMA CommitFinds ==
    ASSUME ActivationInv, NEW a \in Attempts, coord[a].pc = "committing",
           CommitAllowed(a, coord[a].t)
    PROVE  LET e == journal[a].leaseID
           IN  /\ Cur(a) = journal[a] /\ e = Cur(a).expected + 1
               /\ e \in Epochs /\ leases[e] \in LeaseRecord
               /\ Activatable(leases[e], a, coord[a].leaseRev, coord[a].t)
               /\ leases[e].state = "reserved" /\ leases[e].attempt = a
               /\ leases[e].rev = coord[a].leaseRev /\ leases[e].rev \in Nat
               /\ leases[e].rev > 0 /\ leases[e].exp = coord[a].leaseExp
<1> DEFINE e == journal[a].leaseID
           l == leases[e]
<1>1. /\ CommitReady(a) /\ Activatable(l, a, coord[a].leaseRev, coord[a].t)
  BY DEF CommitAllowed
<1>2. coord[a].pc \in Leased /\ coord[a].pc \in Running
  BY DEF Leased, Running
<1>3. Cur(a) = journal[a]
  BY <1>1, <1>2, Working DEF CommitReady, CopyOf
<1>4. journal[a] \in AttemptRecord /\ leases \in [Epochs -> LeaseRecord]
      /\ coord[a].t \in Nat
  BY InvFacts, CoordFields
<1>5. e # 0
  BY <1>1, <1>2, <1>3, <1>4, Working, ValidFacts DEF CommitReady, SandboxReserved
<1>6. OwnLease(a, coord[a], leases, now)
  BY <1>2, InvFacts DEF CoordGood
<1>7. e = Cur(a).expected + 1 /\ e \in Epochs
  BY <1>3, <1>4, <1>5, <1>6, AttemptFields DEF OwnLease, Cur
<1>8. l \in LeaseRecord /\ l.rev \in Nat
  BY <1>4, <1>7, LeaseFields
<1>9. Expire(l, coord[a].t) = l
  BY <1>1, <1>4, <1>8, ExpireStands DEF Activatable
<1>10. l.state = "reserved" /\ l.attempt = a /\ l.rev = coord[a].leaseRev
  BY <1>1, <1>9 DEF Activatable
<1>11. l.rev > 0 /\ l.exp = coord[a].leaseExp
  BY <1>6, <1>7, <1>10 DEF ActivationInv, LeasesFilled, OwnLease, Cur
<1> QED
  BY <1>1, <1>3, <1>7, <1>8, <1>10, <1>11

\* The commit of both facts.
LEMMA CommitKeeps ==
    ASSUME ActivationInv, NEW a \in Attempts, CommitActivation(a),
           CommitAllowed(a, coord[a].t)
    PROVE  ActivationInv'
<1> DEFINE c == coord[a]
           j == journal[a]
           e == j.leaseID
           l == leases[e]
           m == NextRevision(l, "active", l.exp)
           next == CommittedAttempt(a)
           d == [c EXCEPT !.pc = "committed", !.phase = "provisioning", !.cur = next, !.t = 0,
                          !.leaseRev = c.leaseRev + 1]
<1>1. c.pc = "committing" /\ now' = now /\ UNCHANGED <<plan, sandbox>>
  BY DEF CommitActivation, At
<1>2. /\ Cur(a) = j /\ e = j.expected + 1 /\ e \in Epochs /\ l \in LeaseRecord
      /\ Activatable(l, a, c.leaseRev, c.t)
      /\ l.state = "reserved" /\ l.attempt = a
      /\ l.rev = c.leaseRev /\ l.rev \in Nat /\ l.rev > 0 /\ l.exp = c.leaseExp
  BY <1>1, CommitFinds
<1>3. /\ leases \in [Epochs -> LeaseRecord] /\ now \in Nat /\ c \in CoordinatorType
      /\ j \in AttemptRecord /\ JournalGood(a, j, leases) /\ SandboxGood(j, sandbox[a])
      /\ PlanGood(a, plan[a], j, sandbox[a], c.pc, leases)
      /\ c.t \in Nat
  BY InvFacts, CoordFields
<1>4. /\ leases' = [leases EXCEPT ![e] = m]
      /\ journal' = [journal EXCEPT ![a] = next] /\ coord' = [coord EXCEPT ![a] = d]
  BY <1>2 DEF CommitActivation, ActivateIdentityLease, Activated
<1>5. /\ m.state = "active" /\ m.attempt = a /\ m.exp = c.leaseExp /\ m.rev = c.leaseRev + 1
  BY <1>2 DEF NextRevision
<1>6. /\ j.stage = SandboxReserved /\ j.recovery = "normal"
      /\ j.reservation = "confirmed_applied"
      /\ TransitionValid(j, next, FALSE, c.t)
  BY DEF CommitAllowed, CommitReady
<1>7. /\ next \in AttemptRecord
      /\ next.rev = j.rev + 1 /\ next.recovery = "normal" /\ next.stage = 7
      /\ next.snapshot = j.snapshot /\ next.expected = j.expected
      /\ next.leaseID = e /\ next.leaseRev = c.leaseRev + 1
      /\ next.reservation = "confirmed_applied"
  <2>1. /\ j.rev + 1 \in Nat /\ c.leaseRev + 1 \in Nat /\ Committed \in Proposed..SandboxActive
        /\ "active" \in LeaseStates \cup {"absent"} /\ TRUE \in BOOLEAN
    BY <1>2, <1>3, AttemptFields, FieldValues
  <2>2. next \in AttemptRecord
    BY <1>3, <2>1, Zenon DEF AttemptRecord, CommittedAttempt
  <2> QED
    BY <1>3, <1>6, <2>2 DEF AttemptRecord, CommittedAttempt, Committed
<1>8. AttemptValid(next) /\ CopyOf(next, next)
  BY <1>3, <1>6, <1>7, TransitionFacts, CopyOfSelf
<1>9. /\ d \in CoordinatorType
      /\ d.pc = "committed" /\ d.phase = "provisioning" /\ d.cur = next /\ d.t = 0
      /\ d.leaseExp = c.leaseExp /\ d.leaseRev = c.leaseRev + 1
  <2>1. "committed" \in Running /\ "provisioning" \in Phases /\ c.leaseRev + 1 \in Nat
    BY <1>2 DEF Running, Provisioning, Phases
  <2> QED
    BY <1>3, <1>7, <2>1 DEF CoordinatorType
<1> HIDE DEF next, d, m
<1>10. leases'[e] = m /\ \A f \in Epochs : f # e => leases'[f] = leases[f]
  BY <1>2, <1>3, <1>4
<1>11. \A at \in AttemptRecord : LeaseOnRecord(a, at, leases) => LeaseOnRecord(a, at, leases')
  BY <1>2, <1>5, <1>10, AttemptFields DEF LeaseOnRecord
<1>12. LeaseOnRecord(a, next, leases')
  BY <1>2, <1>5, <1>7, <1>10 DEF LeaseOnRecord
<1>13. JournalGood(a, next, leases')
  <2>1. ASSUME NEW f \in Epochs, leases'[f].state = "active", leases'[f].attempt = a
        PROVE  f = e
    <3>1. f # e => j.stage >= Committed
      BY <1>3, <1>10, <2>1 DEF JournalGood
    <3> QED
      BY <1>6, <3>1 DEF Committed, SandboxReserved
  <2> QED
    BY <1>7, <1>8, <1>12, <2>1 DEF JournalGood, Committed
<1>14. SandboxGood(next, sandbox[a])
  BY <1>3, <1>6, <1>7 DEF SandboxGood
<1>15. PlanGood(a, plan[a], next, sandbox[a], d.pc, leases')
  <2>1. PlanGood(a, plan[a], next, sandbox[a], d.pc, leases)
    BY <1>3, <1>6, <1>7, PlanOvertaken
  <2> QED
    BY <1>11, <2>1, PlanUnderLeases
<1>16. CoordGood(a, d, next, sandbox[a], leases', now)
  <2>1. d.cur.snapshot <= d.leaseExp
    BY <1>1, <1>2, <1>7, <1>9, Working DEF Running, Leased
  <2>2. /\ d.pc \in Running /\ d.pc \in Provisioning /\ d.pc \notin Unleased \cup {"idle"}
    BY <1>9 DEF Running, Unleased, Leased, Provisioning, Serving, Closing
  <2>3. OwnLease(a, d, leases', now)
    BY <1>2, <1>5, <1>7, <1>9, <1>10 DEF OwnLease
  <2>4. d.cur.stage >= Committed /\ d.leaseRev \in 1..leases'[d.cur.leaseID].rev
    BY <1>2, <1>5, <1>7, <1>9, <1>10 DEF Committed
  <2> QED
    BY <1>3, <1>7, <1>8, <1>9, <1>12, <2>1, <2>2, <2>3, <2>4 DEF CoordGood
<1>17. Good(a, next, d, plan[a], sandbox[a], leases', now)
  BY <1>13, <1>14, <1>15, <1>16 DEF Good
<1>18. [LeaseNext]_leaseVars
  BY CommitIsStoreStep DEF LeaseNext
<1>19. \A b \in Attempts : b # a => Aside(b, leases, leases', now)
  BY <1>2, <1>4, <1>5, OwnLeaseAside
<1> QED
  BY <1>1, <1>4, <1>17, <1>18, <1>19, StepOf

\* The commit, or its refusal.
LEMMA CommitActivationKeeps ==
    ASSUME ActivationInv, NEW a \in Attempts, CommitActivation(a)
    PROVE  ActivationInv'
<1>1. coord[a].pc = "committing" /\ now' = now /\ UNCHANGED <<plan, sandbox>>
  BY DEF CommitActivation, At
<1>2. CASE CommitAllowed(a, coord[a].t)
  BY <1>2, CommitKeeps
<1>3. CASE ~CommitAllowed(a, coord[a].t)
  <2>1. /\ coord' = [coord EXCEPT ![a] = Dead] /\ journal' = journal
        /\ \/ leases' = [leases EXCEPT ![journal[a].leaseID] =
                                          Expire(leases[journal[a].leaseID], coord[a].t)]
           \/ leases' = leases
    BY <1>3 DEF CommitActivation
  <2>2. [LeaseNext]_leaseVars
    BY CommitIsStoreStep DEF LeaseNext
  <2>3. \A e \in Epochs : \/ leases'[e] = leases[e]
                          \/ leases'[e] = Expire(leases[e], coord[a].t)
    BY <2>1, InvFacts
  <2>4. /\ leases \in [Epochs -> LeaseRecord] /\ coord[a].t \in 0..now /\ coord[a].t \in Nat
    BY InvFacts, CoordFields
  <2>5. \A e \in Epochs : leases'[e].attempt = leases[e].attempt
    BY <2>3, <2>4, ExpireStands DEF Stands
  <2>6. \A b \in Attempts : Aside(b, leases, leases', now)
    BY <2>3, <2>4, <2>5 DEF Aside
  <2> QED
    BY <1>1, <2>1, <2>2, <2>6, GivesUpRefused
<1> QED
  BY <1>2, <1>3

\* A lease of attempt a changes and the lease stands: what is on record of it
\* stays on record.
LEMMA OwnLeaseStands ==
    ASSUME ActivationInv, NEW a \in Attempts, NEW e \in Epochs, leases[e].attempt = a,
           NEW m, Stands(leases[e], m), leases' = [leases EXCEPT ![e] = m],
           [LeaseNext]_leaseVars
    PROVE  /\ leases' \in [Epochs -> LeaseRecord]
           /\ leases'[e] = m /\ m \in LeaseRecord /\ m.rev \in Nat
           /\ \A f \in Epochs : f # e => leases'[f] = leases[f]
           /\ \A f \in Epochs : leases'[f].attempt = leases[f].attempt
           /\ \A f \in Epochs : leases[f].attempt = a => Stands(leases[f], leases'[f])
           /\ \A at \in AttemptRecord :
                 LeaseOnRecord(a, at, leases) => LeaseOnRecord(a, at, leases')
           /\ JournalGood(a, journal[a], leases')
           /\ \A b \in Attempts : b # a => Aside(b, leases, leases', now)
<1>1. leases \in [Epochs -> LeaseRecord] /\ JournalGood(a, journal[a], leases)
  BY InvFacts
<1>2. leases' \in [Epochs -> LeaseRecord]
  BY LeaseInvInductive DEF ActivationInv, LeaseInv, LeaseTypeOK
<1>3. leases'[e] = m /\ \A f \in Epochs : f # e => leases'[f] = leases[f]
  BY <1>1
<1>4. \A f \in Epochs : leases[f].rev \in Nat /\ leases'[f].rev \in Nat
  BY <1>1, <1>2, LeaseFields
<1>5. \A f \in Epochs : leases[f].attempt = a => Stands(leases[f], leases'[f])
  BY <1>3, <1>4 DEF Stands
<1>6. \A f \in Epochs : leases'[f].attempt = leases[f].attempt
  BY <1>3 DEF Stands
<1>7. \A at \in AttemptRecord : LeaseOnRecord(a, at, leases) => LeaseOnRecord(a, at, leases')
  BY <1>1, <1>2, <1>5, LeaseStaysOnRecord
<1>8. \A f \in Epochs : leases'[f].state = "active" /\ leases'[f].attempt = a =>
         leases[f].state = "active" /\ leases[f].attempt = a
  BY <1>5, <1>6 DEF Stands
<1>9. JournalGood(a, journal[a], leases')
  BY <1>1, <1>7, <1>8, JournalUnderLeases
<1>10. \A b \in Attempts : b # a => Aside(b, leases, leases', now)
  BY OwnLeaseAside DEF Stands
<1> QED
  BY <1>2, <1>3, <1>4, <1>5, <1>6, <1>7, <1>9, <1>10

\* Stop's two steps at the lease store leave a coordinator that closes.
LEMMA ClosingKeeps ==
    ASSUME ActivationInv, NEW a \in Attempts,
           coord[a].pc \in {"sandbox_released", "lease_revoked"},
           NEW m, Stands(leases[Cur(a).leaseID], m),
           leases' = [leases EXCEPT ![Cur(a).leaseID] = m],
           [LeaseNext]_leaseVars, now' = now, UNCHANGED <<journal, plan, sandbox>>,
           NEW d \in CoordinatorType, coord' = [coord EXCEPT ![a] = d],
           d.cur = Cur(a), d.t = coord[a].t, d.leaseExp = coord[a].leaseExp,
           d.pc \in Closing, d.phase = "terminal" => d.pc = "terminal",
           d.pc = "lease_revoked" => d.leaseRev \in 1..(m.rev + 1),
           d.pc = "terminal" => m.state = "released"
    PROVE  ActivationInv'
<1> DEFINE e == Cur(a).leaseID
<1>1. /\ coord[a].pc \in Provisioning \cup Serving \cup Closing /\ coord[a].pc \in Running
  BY DEF Provisioning, Serving, Closing, Running
<1>2. e \in Epochs /\ leases[e].attempt = a /\ Cur(a).stage >= Committed
  BY <1>1, CommittedLease
<1>3. /\ leases'[e] = m
      /\ \A at \in AttemptRecord : LeaseOnRecord(a, at, leases) => LeaseOnRecord(a, at, leases')
      /\ JournalGood(a, journal[a], leases')
      /\ \A b \in Attempts : b # a => Aside(b, leases, leases', now)
  BY <1>2, OwnLeaseStands
<1>4. PlanGood(a, plan[a], journal[a], sandbox[a], d.pc, leases')
  <2>1. d.pc # "intended"
    BY DEF Closing
  <2>2. PlanGood(a, plan[a], journal[a], sandbox[a], d.pc, leases)
    BY <2>1, InvFacts, PlanBesideLiving
  <2> QED
    BY <1>3, <2>2, PlanUnderLeases
<1>5. CoordGood(a, d, journal[a], sandbox[a], leases', now)
  <2>1. /\ AttemptValid(d.cur) /\ d.cur.recovery = "normal" /\ d.cur.snapshot <= d.leaseExp
        /\ CopyOf(d.cur, journal[a]) /\ LeaseOnRecord(a, d.cur, leases')
    BY <1>1, <1>3, Working, InvFacts
  <2>2. sandbox[a] = "released" /\ d.t <= now
    BY InvFacts, CoordFields DEF CoordGood
  <2>3. /\ d.pc \in Running /\ d.pc \notin Unleased \cup {"idle"}
        /\ d.pc \notin Leased \cup Provisioning /\ d.pc \notin Provisioning \cup Serving
        /\ d.pc \notin {"intended", "allocating", "allocated"}
    BY DEF Running, Unleased, Leased, Provisioning, Serving, Closing
  <2> QED
    BY <1>2, <1>3, <2>1, <2>2, <2>3 DEF CoordGood
<1>6. Good(a, journal[a], d, plan[a], sandbox[a], leases', now)
  BY <1>3, <1>4, <1>5, InvFacts DEF Good
<1> QED
  BY <1>3, <1>6, StepOf

\* Stop revokes the lease.
LEMMA StopRevokesLeaseKeeps ==
    ASSUME ActivationInv, NEW a \in Attempts, StopRevokesLease(a)
    PROVE  ActivationInv'
<1> DEFINE c == coord[a]
           e == Cur(a).leaseID
           rev == c.leaseRev
           m == Revoked(leases[e], rev, now)
           revoked == Expire(leases[e], now).rev = rev
           d == IF revoked THEN [c EXCEPT !.pc = "lease_revoked", !.leaseRev = rev + 1]
                           ELSE [c EXCEPT !.pc = "stop_failed"]
<1>1. /\ c.pc = "sandbox_released" /\ now' = now /\ UNCHANGED <<journal, plan, sandbox>>
      /\ leases' = [leases EXCEPT ![e] = m] /\ coord' = [coord EXCEPT ![a] = d]
  BY DEF StopRevokesLease, At, RevokeIdentityLease
<1>2. [LeaseNext]_leaseVars
  BY StopIsStoreStep DEF LeaseNext
<1>3. c.pc \in Provisioning \cup Serving \cup Closing /\ c.pc \in Serving
  BY <1>1 DEF Serving
<1>4. e \in Epochs /\ leases[e] \in LeaseRecord /\ leases[e].attempt = a
      /\ leases[e].rev \in Nat /\ now \in Nat
  BY <1>3, CommittedLease, InvFacts
<1>5. Stands(leases[e], m) /\ m.rev \in Nat
  <2>1. Stands(leases[e], m)
    BY <1>4, RevokedStands
  <2> QED
    BY <1>1, <1>2, <1>4, <2>1, OwnLeaseStands
<1>6. /\ c \in CoordinatorType /\ c.phase # "terminal" /\ rev \in 1..leases[e].rev /\ rev \in Nat
  BY <1>1, <1>3, InvFacts, CoordFields DEF CoordGood, Cur
<1>7. rev + 1 \in 1..(m.rev + 1)
  BY <1>4, <1>5, <1>6 DEF Stands
<1>8. /\ d \in CoordinatorType
      /\ d.cur = Cur(a) /\ d.t = c.t /\ d.leaseExp = c.leaseExp /\ d.phase = c.phase
      /\ d.pc \in {"lease_revoked", "stop_failed"}
      /\ d.pc = "lease_revoked" => d.leaseRev = rev + 1
  <2>1. "lease_revoked" \in Running /\ "stop_failed" \in Running /\ rev + 1 \in Nat
    BY <1>6 DEF Running, Closing
  <2> HIDE DEF revoked
  <2> QED
    BY <1>6, <2>1 DEF CoordinatorType, Cur
<1> HIDE DEF d, m
<1>9. d.pc \in Closing
  BY <1>8 DEF Closing
<1> QED
  BY <1>1, <1>2, <1>5, <1>6, <1>7, <1>8, <1>9, ClosingKeeps

\* Stop releases the lease, and the instance is terminal.
LEMMA StopReleasesLeaseKeeps ==
    ASSUME ActivationInv, NEW a \in Attempts, StopReleasesLease(a)
    PROVE  ActivationInv'
<1> DEFINE c == coord[a]
           e == Cur(a).leaseID
           rev == c.leaseRev
           m == Released(leases[e], rev, now)
           released == leases[e].rev = rev /\ leases[e].state = "revoked"
           d == IF released THEN [c EXCEPT !.pc = "terminal", !.phase = "terminal",
                                           !.leaseRev = rev + 1]
                            ELSE [c EXCEPT !.pc = "stop_failed"]
<1>1. /\ c.pc = "lease_revoked" /\ now' = now /\ UNCHANGED <<journal, plan, sandbox>>
      /\ leases' = [leases EXCEPT ![e] = m] /\ coord' = [coord EXCEPT ![a] = d]
  BY DEF StopReleasesLease, At, ReleaseIdentityLease
<1>2. [LeaseNext]_leaseVars
  BY StopIsStoreStep DEF LeaseNext
<1>3. c.pc \in Provisioning \cup Serving \cup Closing
  BY <1>1 DEF Closing
<1>4. e \in Epochs /\ leases[e] \in LeaseRecord /\ leases[e].attempt = a /\ now \in Nat
  BY <1>3, CommittedLease, InvFacts
<1>5. Stands(leases[e], m)
  BY <1>4, ReleasedStands
<1>6. c \in CoordinatorType /\ c.phase # "terminal" /\ rev \in Nat
  BY <1>1, InvFacts, CoordFields DEF CoordGood
<1>7. released => m.state = "released"
  <2>1. released => Expire(leases[e], now) = leases[e]
    BY DEF Expire, Held
  <2> QED
    BY <2>1 DEF Released, NextRevision
<1>8. /\ d \in CoordinatorType
      /\ d.cur = Cur(a) /\ d.t = c.t /\ d.leaseExp = c.leaseExp
      /\ d.pc \in {"terminal", "stop_failed"}
      /\ d.phase = "terminal" => d.pc = "terminal"
      /\ d.pc = "terminal" => released
  <2>1. "terminal" \in Running /\ "stop_failed" \in Running /\ "terminal" \in Phases
        /\ rev + 1 \in Nat
    BY <1>6 DEF Running, Closing, Phases
  <2> QED
    BY <1>6, <2>1 DEF CoordinatorType, Cur
<1> HIDE DEF d, m, released
<1>9. d.pc \in Closing
  BY <1>8 DEF Closing
<1> QED
  BY <1>1, <1>2, <1>5, <1>7, <1>8, <1>9, ClosingKeeps

----------------------------------------------------------------------------
(* The supervisor, the provider and the clock.                             *)

\* A renewal moves the expiry of a lease and its revision.
LEMMA SupervisorRenewsKeeps ==
    ASSUME ActivationInv, NEW a \in Attempts, NEW expiry \in Expiries,
           SupervisorRenews(a, expiry)
    PROVE  ActivationInv'
<1> DEFINE e == Cur(a).leaseID
           l == leases[e]
           m == Renewed(l, l.rev, expiry, now)
<1>1. /\ coord[a].pc = "ready" /\ now' = now /\ UNCHANGED <<journal, coord, plan, sandbox>>
      /\ leases' = [leases EXCEPT ![e] = m]
  BY DEF SupervisorRenews, At, RenewIdentityLease
<1>2. coord[a].pc \in Provisioning \cup Serving \cup Closing
  BY <1>1 DEF Serving
<1>3. /\ e \in Epochs /\ l \in LeaseRecord /\ l.attempt = a /\ l.rev \in Nat /\ now \in Nat
      /\ l.state # "absent" /\ leases \in [Epochs -> LeaseRecord]
  BY <1>2, CommittedLease, InvFacts
<1>4. [LeaseNext]_leaseVars
  BY RenewIsStoreStep DEF LeaseNext
<1>5. /\ m.attempt = a /\ m.state # "absent" /\ m.rev \in Nat /\ m.rev >= l.rev
      /\ m.state = "reserved" => l.state = "reserved"
      /\ m.state = "active" => l.state = "active"
  <2> DEFINE x == Expire(l, now)
  <2>1. x \in LeaseRecord /\ Stands(l, x)
    BY <1>3, ExpireStands
  <2>2. x.rev \in Nat
    BY <2>1, LeaseFields
  <2>3. m = IF x.rev = l.rev /\ x.state = "active" /\ expiry > now
            THEN NextRevision(x, "active", expiry) ELSE x
    BY DEF Renewed
  <2> HIDE DEF x, m
  <2> QED
    BY <1>3, <2>1, <2>2, <2>3 DEF Stands, NextRevision
<1> HIDE DEF m
<1>6. leases'[e] = m /\ \A f \in Epochs : f # e => leases'[f] = leases[f]
  BY <1>1, <1>3
<1>7. \A at \in AttemptRecord : LeaseOnRecord(a, at, leases) => LeaseOnRecord(a, at, leases')
  BY <1>3, <1>5, <1>6, AttemptFields DEF LeaseOnRecord
<1>8. JournalGood(a, journal[a], leases')
  BY <1>3, <1>5, <1>6, <1>7, InvFacts, JournalUnderLeases
<1>9. PlanGood(a, plan[a], journal[a], sandbox[a], coord[a].pc, leases')
  BY <1>7, InvFacts, PlanUnderLeases
<1>10. CoordGood(a, coord[a], journal[a], sandbox[a], leases', now)
  <2>1. CoordGood(a, coord[a], journal[a], sandbox[a], leases, now) /\ Cur(a) \in AttemptRecord
    BY InvFacts
  <2>2. /\ coord[a].pc \in Serving /\ coord[a].pc \notin Unleased \cup {"idle"}
        /\ coord[a].pc \notin Leased \cup Provisioning
        /\ coord[a].pc \notin {"lease_revoked", "terminal"}
    BY <1>1 DEF Serving, Unleased, Leased, Provisioning
  <2>3. LeaseOnRecord(a, coord[a].cur, leases')
    BY <1>7, <2>1 DEF CoordGood, Cur
  <2>4. coord[a].leaseRev \in 1..leases'[coord[a].cur.leaseID].rev
    BY <1>3, <1>5, <1>6, <2>1, <2>2 DEF CoordGood, Cur
  <2> QED
    BY <2>1, <2>2, <2>3, <2>4 DEF CoordGood
<1>11. Good(a, journal[a], coord[a], plan[a], sandbox[a], leases', now)
  BY <1>8, <1>9, <1>10, InvFacts DEF Good
<1>12. \A b \in Attempts : b # a => Aside(b, leases, leases', now)
  BY <1>1, <1>3, <1>5, OwnLeaseAside
<1> QED
  BY <1>1, <1>4, <1>11, <1>12, StepOf

\* A coordinator cares whether the sandbox is released.
LEMMA CoordBesideSandbox ==
    ASSUME NEW a, NEW c, NEW j, NEW s, NEW s2, NEW ls, NEW n,
           CoordGood(a, c, j, s, ls, n), s # "released" \/ s2 = "released"
    PROVE  CoordGood(a, c, j, s2, ls, n)
  BY DEF CoordGood

\* The provider carries out a request, or refuses it.
LEMMA ProviderKeeps ==
    ASSUME ActivationInv, NEW a \in Attempts, ProviderApplies(a) \/ ProviderRefuses(a)
    PROVE  ActivationInv'
<1>1. /\ sandbox[a] \in {"requested", "activating"}
      /\ UNCHANGED <<leases, epoch, now, journal, coord, plan>>
  BY DEF ProviderApplies, ProviderRefuses
<1>2. PICK s \in {"reserved", "active", "none"} : sandbox' = [sandbox EXCEPT ![a] = s]
  BY DEF ProviderApplies, ProviderRefuses
<1>3. SandboxGood(journal[a], s)
  BY <1>1, <1>2, InvFacts DEF SandboxGood, SandboxStates, Sandboxed
<1>4. CoordGood(a, coord[a], journal[a], s, leases, now)
  BY <1>1, InvFacts, CoordBesideSandbox
<1>5. PlanGood(a, plan[a], journal[a], s, coord[a].pc, leases)
  BY <1>1, InvFacts, PlanBesideProvider
<1> QED
  BY <1>1, <1>2, <1>3, <1>4, <1>5, InvFacts, QuietStepOf

\* Time passes.
LEMMA ClockTicksKeeps ==
    ASSUME ActivationInv, ClockTicks
    PROVE  ActivationInv'
<1>1. /\ UNCHANGED <<leases, epoch, journal, coord, plan, sandbox>> /\ now' = now + 1
      /\ [LeaseNext]_leaseVars
  BY DEF ClockTicks, Tick, LeaseNext
<1>2. LeaseInv' /\ LeasesFilled(leases')
  BY <1>1, LeaseInvInductive DEF ActivationInv
<1>3. leases \in [Epochs -> LeaseRecord] /\ now \in Nat /\ now' \in Nat /\ now' >= now
  BY <1>1 DEF ActivationInv, LeaseInv, LeaseTypeOK
<1>4. ASSUME NEW a \in Attempts
      PROVE  Good(a, journal[a], coord[a], plan[a], sandbox[a], leases, now')
  <2>1. Good(a, journal[a], coord[a], plan[a], sandbox[a], leases, now)
    BY DEF ActivationInv
  <2>2. Aside(a, leases, leases, now)
    BY DEF Aside
  <2> QED
    BY <1>3, <2>1, <2>2, GoodAside
<1> QED
  BY <1>1, <1>2, <1>4 DEF ActivationInv

----------------------------------------------------------------------------
(* The executor.                                                           *)

\* What is known of a decision that is to be carried out.
LEMMA PlannedFacts ==
    ASSUME ActivationInv, NEW a \in Attempts, plan[a].step = "planned"
    PROVE  /\ plan[a].cur \in AttemptRecord /\ AttemptValid(plan[a].cur)
           /\ CopyOf(plan[a].cur, journal[a])
           /\ LeaseOnRecord(a, plan[a].cur, leases)
           /\ plan[a].action \in {"fence_sandbox", "release_sandbox", "revoke_identity_lease",
                                  "release_identity_lease", "mark_aborted"} =>
                 plan[a].cur.recovery = "aborting"
           /\ plan[a].action = "inspect_sandbox_reservation" =>
                 plan[a].cur.reservation \in Unresolved
           /\ plan[a].cur.rev \in Nat /\ plan[a].cur.rev > 0
           /\ plan[a].cur.rev + 1 \in Nat
           /\ plan[a].cur.rev <= journal[a].rev /\ journal[a].rev \in Nat
<1>1. PlanGood(a, plan[a], journal[a], sandbox[a], coord[a].pc, leases)
      /\ journal[a] \in AttemptRecord
  BY InvFacts
<1>2. /\ plan[a].cur \in AttemptRecord /\ AttemptValid(plan[a].cur)
      /\ CopyOf(plan[a].cur, journal[a])
      /\ LeaseOnRecord(a, plan[a].cur, leases)
      /\ plan[a].action \in {"fence_sandbox", "release_sandbox", "revoke_identity_lease",
                             "release_identity_lease", "mark_aborted"} =>
            plan[a].cur.recovery = "aborting"
      /\ plan[a].action = "inspect_sandbox_reservation" =>
            plan[a].cur.reservation \in Unresolved
  BY <1>1 DEF PlanGood, NoPlan
<1>3. plan[a].cur.rev \in Nat /\ plan[a].cur.rev > 0 /\ journal[a].rev \in Nat
  BY <1>1, <1>2, AttemptFields, ValidFacts
<1> QED
  BY <1>2, <1>3 DEF CopyOf

\* The executor's state with a record to write, and with a decision.
LEMMA PersistRecord ==
    ASSUME NEW next
    PROVE  [NoPlan EXCEPT !.step = "persist", !.next = next] =
           [step |-> "persist", action |-> "none", cur |-> NoAttempt, next |-> next]
<1> DEFINE q == [NoPlan EXCEPT !.step = "persist"]
<1>1. q = [step |-> "persist", action |-> "none", cur |-> NoAttempt, next |-> NoAttempt]
  BY DEF NoPlan
<1>2. [NoPlan EXCEPT !.step = "persist", !.next = next] = [q EXCEPT !.next = next]
  BY Zenon DEF NoPlan
<1> HIDE DEF q
<1>3. [q EXCEPT !.next = next] =
         [step |-> "persist", action |-> "none", cur |-> NoAttempt, next |-> next]
  BY <1>1
<1> QED
  BY <1>2, <1>3

\* The same for a decision.
LEMMA PlannedRecord ==
    ASSUME NEW cur, NEW action
    PROVE  [NoPlan EXCEPT !.step = "planned", !.cur = cur, !.action = action] =
           [step |-> "planned", action |-> action, cur |-> cur, next |-> NoAttempt]
<1> DEFINE q == [NoPlan EXCEPT !.step = "planned"]
           r == [q EXCEPT !.cur = cur]
<1>1. q = [step |-> "planned", action |-> "none", cur |-> NoAttempt, next |-> NoAttempt]
  BY DEF NoPlan
<1>2. [NoPlan EXCEPT !.step = "planned", !.cur = cur, !.action = action] =
         [r EXCEPT !.action = action]
  BY Zenon DEF NoPlan
<1> HIDE DEF q
<1>3. r = [step |-> "planned", action |-> "none", cur |-> cur, next |-> NoAttempt]
  BY <1>1
<1> HIDE DEF r
<1>4. [r EXCEPT !.action = action] =
         [step |-> "planned", action |-> action, cur |-> cur, next |-> NoAttempt]
  BY <1>3
<1> QED
  BY <1>2, <1>4

\* The executor holds the record it will write.
LEMMA OutcomePlan ==
    ASSUME ActivationInv, NEW a \in Attempts, plan[a].step = "planned",
           NEW next \in AttemptRecord, next.rev = plan[a].cur.rev + 1, NEW s, NEW ls,
           LeaseOnRecord(a, next, ls),
           plan[a].cur = journal[a] => OutcomeGood(next, journal[a], s, coord[a].pc)
    PROVE  PlanGood(a, [NoPlan EXCEPT !.step = "persist", !.next = next],
                    journal[a], s, coord[a].pc, ls)
<1> DEFINE p == [NoPlan EXCEPT !.step = "persist", !.next = next]
<1>1. /\ CopyOf(plan[a].cur, journal[a]) /\ plan[a].cur.rev \in Nat /\ plan[a].cur.rev > 0
      /\ plan[a].cur.rev <= journal[a].rev /\ journal[a].rev \in Nat
  BY PlannedFacts
<1>2. /\ p = [step |-> "persist", action |-> "none", cur |-> NoAttempt, next |-> p.next]
      /\ p.next = next
  <2>1. p = [step |-> "persist", action |-> "none", cur |-> NoAttempt, next |-> next]
    BY PersistRecord
  <2> HIDE DEF p
  <2>2. p.next = next
    BY <2>1
  <2> QED
    BY <2>1, <2>2
<1> HIDE DEF p
<1>3. p.next.rev = journal[a].rev + 1 => OutcomeGood(p.next, journal[a], s, coord[a].pc)
  BY <1>1, <1>2 DEF CopyOf
<1>4. journal[a].rev > 0 /\ p.next.rev <= journal[a].rev + 1
  BY <1>1, <1>2
<1>5. PlanGood(a, p, journal[a], s, coord[a].pc, ls)
  BY <1>2, <1>3, <1>4 DEF PlanGood
<1> QED
  BY <1>5 DEF p

\* An outcome that leaves the leases alone.
LEMMA OutcomeKeeps ==
    ASSUME ActivationInv, NEW a \in Attempts, plan[a].step = "planned",
           NEW next \in AttemptRecord, next.rev = plan[a].cur.rev + 1,
           next.leaseID = plan[a].cur.leaseID, next.leaseRev = plan[a].cur.leaseRev,
           next.stage = plan[a].cur.stage,
           NEW s, SandboxGood(journal[a], s), sandbox[a] # "released" \/ s = "released",
           plan[a].cur = journal[a] => OutcomeGood(next, journal[a], s, coord[a].pc),
           Outcome(a, next),
           sandbox' = [sandbox EXCEPT ![a] = s] \/ (sandbox' = sandbox /\ s = sandbox[a]),
           UNCHANGED <<leases, epoch, now, journal, coord>>
    PROVE  ActivationInv'
<1> DEFINE p == [NoPlan EXCEPT !.step = "persist", !.next = next]
<1>1. LeaseOnRecord(a, next, leases)
  BY PlannedFacts, LeaseCopied
<1>2. PlanGood(a, p, journal[a], s, coord[a].pc, leases)
  BY <1>1, OutcomePlan
<1>3. CoordGood(a, coord[a], journal[a], s, leases, now)
  BY InvFacts, CoordBesideSandbox
<1>4. plan' = [plan EXCEPT ![a] = p]
  BY DEF Outcome
<1> HIDE DEF p
<1> QED
  BY <1>2, <1>3, <1>4, InvFacts, QuietStepOf

\* The abort begins, or ends.
LEMMA ExecuteRecoveryKeeps ==
    ASSUME ActivationInv, NEW a \in Attempts, ExecuteBeginAbort(a) \/ ExecuteMarkAborted(a)
    PROVE  ActivationInv'
<1>1. /\ plan[a].step = "planned" /\ UNCHANGED <<leases, epoch, now, journal, coord, sandbox>>
  BY DEF ExecuteBeginAbort, ExecuteMarkAborted, Planned
<1>2. PICK r \in {"aborting", "aborted"} :
         Outcome(a, [plan[a].cur EXCEPT !.recovery = r, !.rev = @ + 1])
  BY Zenon DEF ExecuteBeginAbort, ExecuteMarkAborted
<1> DEFINE next == [plan[a].cur EXCEPT !.recovery = r, !.rev = @ + 1]
<1>3. plan[a].cur \in AttemptRecord /\ plan[a].cur.rev + 1 \in Nat
  BY <1>1, PlannedFacts
<1>4. /\ next \in AttemptRecord
      /\ next.rev = plan[a].cur.rev + 1 /\ next.stage = plan[a].cur.stage
      /\ next.leaseID = plan[a].cur.leaseID /\ next.leaseRev = plan[a].cur.leaseRev
      /\ next.reservation = plan[a].cur.reservation /\ next.recovery = r
  <2>1. r \in {"normal", "aborting", "quarantined", "aborted"}
    BY <1>2
  <2>2. next \in AttemptRecord
    BY <1>3, <2>1, Zenon DEF AttemptRecord
  <2> QED
    BY <1>3, <2>2 DEF AttemptRecord
<1>5. Outcome(a, next)
  BY <1>2
<1> HIDE DEF next
<1>6. plan[a].cur = journal[a] => OutcomeGood(next, journal[a], sandbox[a], coord[a].pc)
  BY <1>4 DEF OutcomeGood
<1>7. SandboxGood(journal[a], sandbox[a])
  BY InvFacts
<1> QED
  BY <1>1, <1>4, <1>5, <1>6, <1>7, OutcomeKeeps

\* The reserved sandbox is fenced.
LEMMA ExecuteFenceKeeps ==
    ASSUME ActivationInv, NEW a \in Attempts, ExecuteFence(a)
    PROVE  ActivationInv'
<1> DEFINE next == [plan[a].cur EXCEPT !.fenced = TRUE, !.rev = @ + 1]
<1>1. /\ plan[a].step = "planned" /\ plan[a].action = "fence_sandbox"
      /\ sandbox[a] \in {"reserved", "fenced"}
      /\ sandbox' = [sandbox EXCEPT ![a] = "fenced"] /\ Outcome(a, next)
      /\ UNCHANGED <<leases, epoch, now, journal, coord>>
  BY DEF ExecuteFence, Planned
<1>2. /\ plan[a].cur \in AttemptRecord /\ plan[a].cur.rev + 1 \in Nat
      /\ plan[a].cur.recovery = "aborting"
  BY <1>1, PlannedFacts
<1>3. /\ next \in AttemptRecord
      /\ next.rev = plan[a].cur.rev + 1 /\ next.stage = plan[a].cur.stage
      /\ next.leaseID = plan[a].cur.leaseID /\ next.leaseRev = plan[a].cur.leaseRev
      /\ next.reservation = plan[a].cur.reservation /\ next.recovery = "aborting"
  <2>1. TRUE \in BOOLEAN
    OBVIOUS
  <2>2. next \in AttemptRecord
    BY <1>2, <2>1, Zenon DEF AttemptRecord
  <2> QED
    BY <1>2, <2>2 DEF AttemptRecord
<1> HIDE DEF next
<1>4. plan[a].cur = journal[a] => OutcomeGood(next, journal[a], "fenced", coord[a].pc)
  BY <1>3 DEF OutcomeGood
<1>5. SandboxGood(journal[a], "fenced") /\ sandbox[a] # "released"
  BY <1>1, InvFacts DEF SandboxGood, SandboxStates, Sandboxed
<1> QED
  BY <1>1, <1>3, <1>4, <1>5, OutcomeKeeps

\* The sandbox is released.
LEMMA ExecuteReleaseKeeps ==
    ASSUME ActivationInv, NEW a \in Attempts, ExecuteRelease(a)
    PROVE  ActivationInv'
<1> DEFINE next == [plan[a].cur EXCEPT !.reservation = "released", !.rev = @ + 1]
<1>1. /\ plan[a].step = "planned" /\ plan[a].action = "release_sandbox"
      /\ plan[a].cur.reservation = "confirmed_applied"
      /\ sandbox' = [sandbox EXCEPT ![a] = "released"] /\ Outcome(a, next)
      /\ UNCHANGED <<leases, epoch, now, journal, coord>>
  BY DEF ExecuteRelease, Planned
<1>2. /\ plan[a].cur \in AttemptRecord /\ plan[a].cur.rev + 1 \in Nat
      /\ plan[a].cur.recovery = "aborting"
  BY <1>1, PlannedFacts
<1>3. /\ next \in AttemptRecord
      /\ next.rev = plan[a].cur.rev + 1 /\ next.stage = plan[a].cur.stage
      /\ next.leaseID = plan[a].cur.leaseID /\ next.leaseRev = plan[a].cur.leaseRev
      /\ next.reservation = "released" /\ next.recovery = "aborting"
  <2>1. "released" \in OperationStates
    BY FieldValues
  <2>2. next \in AttemptRecord
    BY <1>2, <2>1, Zenon DEF AttemptRecord
  <2> QED
    BY <1>2, <2>2 DEF AttemptRecord
<1> HIDE DEF next
<1>4. plan[a].cur = journal[a] => OutcomeGood(next, journal[a], "released", coord[a].pc)
  BY <1>1, <1>2, <1>3 DEF OutcomeGood
<1>5. SandboxGood(journal[a], "released")
  BY DEF SandboxGood, SandboxStates, Sandboxed
<1> QED
  BY <1>1, <1>3, <1>4, <1>5, OutcomeKeeps

\* The operator finds out what became of the reservation.
LEMMA ExecuteInspectReservationKeeps ==
    ASSUME ActivationInv, NEW a \in Attempts, ExecuteInspectReservation(a)
    PROVE  ActivationInv'
<1> DEFINE r == IF sandbox[a] = "reserved" THEN "confirmed_applied" ELSE "confirmed_not_applied"
           next == [plan[a].cur EXCEPT !.recovery = "normal", !.rev = @ + 1, !.reservation = r]
<1>1. /\ plan[a].step = "planned" /\ plan[a].action = "inspect_sandbox_reservation"
      /\ coord[a].pc # "intended" /\ sandbox[a] \in {"none", "reserved"}
      /\ Outcome(a, next) /\ UNCHANGED <<leases, epoch, now, journal, coord, sandbox>>
  BY DEF ExecuteInspectReservation, Planned, At
<1>2. /\ plan[a].cur \in AttemptRecord /\ plan[a].cur.rev + 1 \in Nat
      /\ plan[a].cur.reservation \in Unresolved
  BY <1>1, PlannedFacts
<1>3. /\ r \in OperationStates
      /\ r = "confirmed_applied" \/ (r = "confirmed_not_applied" /\ sandbox[a] = "none")
  BY <1>1, FieldValues
<1> HIDE DEF r
<1>4. /\ next \in AttemptRecord
      /\ next.rev = plan[a].cur.rev + 1 /\ next.stage = plan[a].cur.stage
      /\ next.leaseID = plan[a].cur.leaseID /\ next.leaseRev = plan[a].cur.leaseRev
      /\ next.reservation = r /\ next.recovery = "normal"
  <2>1. next \in AttemptRecord
    BY <1>2, <1>3, Zenon DEF AttemptRecord
  <2> QED
    BY <1>2, <2>1 DEF AttemptRecord
<1> HIDE DEF next
<1>5. plan[a].cur = journal[a] => OutcomeGood(next, journal[a], sandbox[a], coord[a].pc)
  BY <1>1, <1>2, <1>3, <1>4 DEF OutcomeGood
<1>6. SandboxGood(journal[a], sandbox[a])
  BY InvFacts
<1> QED
  BY <1>1, <1>4, <1>5, <1>6, OutcomeKeeps

\* The operator finds out what became of the activation.
LEMMA ExecuteInspectActivationKeeps ==
    ASSUME ActivationInv, NEW a \in Attempts, ExecuteInspectActivation(a)
    PROVE  ActivationInv'
<1> DEFINE r == IF sandbox[a] = "active" THEN "confirmed_applied" ELSE "confirmed_not_applied"
           next == [plan[a].cur EXCEPT !.recovery = "normal", !.rev = @ + 1, !.activation = r]
<1>1. /\ plan[a].step = "planned"
      /\ Outcome(a, next) /\ UNCHANGED <<leases, epoch, now, journal, coord, sandbox>>
  BY DEF ExecuteInspectActivation, Planned
<1>2. /\ plan[a].cur \in AttemptRecord /\ plan[a].cur.rev + 1 \in Nat
  BY <1>1, PlannedFacts
<1>3. r \in OperationStates
  BY FieldValues
<1> HIDE DEF r
<1>4. /\ next \in AttemptRecord
      /\ next.rev = plan[a].cur.rev + 1 /\ next.stage = plan[a].cur.stage
      /\ next.leaseID = plan[a].cur.leaseID /\ next.leaseRev = plan[a].cur.leaseRev
      /\ next.reservation = plan[a].cur.reservation /\ next.recovery = "normal"
  <2>1. next \in AttemptRecord
    BY <1>2, <1>3, Zenon DEF AttemptRecord
  <2> QED
    BY <1>2, <2>1 DEF AttemptRecord
<1> HIDE DEF next
<1>5. plan[a].cur = journal[a] => OutcomeGood(next, journal[a], sandbox[a], coord[a].pc)
  BY <1>4 DEF OutcomeGood
<1>6. SandboxGood(journal[a], sandbox[a])
  BY InvFacts
<1> QED
  BY <1>1, <1>4, <1>5, <1>6, OutcomeKeeps

\* A coordinator whose attempt is being abandoned has not committed: the
\* executor may do what it has to do with the lease.
LEMMA AbandonedCoordinator ==
    ASSUME ActivationInv, NEW a \in Attempts, Abandoned(journal[a]),
           \A e \in Epochs : leases'[e].attempt = leases[e].attempt,
           \A e \in Epochs : leases[e].attempt = a => Stands(leases[e], leases'[e]),
           \A at \in AttemptRecord :
               LeaseOnRecord(a, at, leases) => LeaseOnRecord(a, at, leases')
    PROVE  CoordGood(a, coord[a], journal[a], sandbox[a], leases', now)
<1> DEFINE c == coord[a]
<1>1. CoordGood(a, c, journal[a], sandbox[a], leases, now) /\ c.cur \in AttemptRecord
  BY InvFacts DEF Cur
<1>2. c.pc \notin Provisioning \cup Serving \cup Closing
  BY JournalPastCommit
<1>3. c.pc \notin {"lease_revoked", "terminal"}
  BY <1>2 DEF Closing
<1>4. LeaseOnRecord(a, c.cur, leases')
  BY <1>1 DEF CoordGood
<1>5. c.pc \in Leased \cup Provisioning => OwnLease(a, c, leases', now)
  <2>1. SUFFICES ASSUME c.pc \in Leased \cup Provisioning PROVE OwnLease(a, c, leases', now)
    OBVIOUS
  <2>2. OwnLease(a, c, leases, now) /\ c.cur.expected + 1 \in Epochs
    BY <1>1, <2>1, AttemptFields DEF CoordGood
  <2> QED
    BY <1>2, <2>2 DEF OwnLease, Stands
<1> QED
  BY <1>1, <1>2, <1>3, <1>4, <1>5 DEF CoordGood

\* The executor's two operations on the lease.
LEMMA LeaseOutcomeKeeps ==
    ASSUME ActivationInv, NEW a \in Attempts,
           Planned(a, "revoke_identity_lease") \/ Planned(a, "release_identity_lease"),
           NEW m, Stands(leases[plan[a].cur.leaseID], m),
           leases' = [leases EXCEPT ![plan[a].cur.leaseID] = m],
           [LeaseNext]_leaseVars, now' = now, UNCHANGED <<journal, coord, sandbox>>,
           LeaseOutcome(a, m)
    PROVE  ActivationInv'
<1> DEFINE cur == plan[a].cur
           e == cur.leaseID
           next == [cur EXCEPT !.leaseState = m.state, !.leaseRev = m.rev, !.rev = @ + 1]
           p == [NoPlan EXCEPT !.step = "persist", !.next = next]
<1>1. plan[a].step = "planned"
  BY DEF Planned
<1>2. /\ e \in Epochs /\ leases[e] \in LeaseRecord /\ leases[e].state # "absent"
      /\ leases[e].attempt = a /\ cur.leaseRev \in 1..leases[e].rev /\ leases[e].rev \in Nat
      /\ cur.recovery = "aborting"
  BY PlannedLease
<1>3. /\ cur \in AttemptRecord /\ AttemptValid(cur) /\ CopyOf(cur, journal[a])
      /\ cur.rev + 1 \in Nat
  BY <1>1, PlannedFacts
<1>4. /\ leases'[e] = m /\ m \in LeaseRecord /\ m.rev \in Nat
      /\ \A f \in Epochs : leases'[f].attempt = leases[f].attempt
      /\ \A f \in Epochs : leases[f].attempt = a => Stands(leases[f], leases'[f])
      /\ \A at \in AttemptRecord : LeaseOnRecord(a, at, leases) => LeaseOnRecord(a, at, leases')
      /\ JournalGood(a, journal[a], leases')
      /\ \A b \in Attempts : b # a => Aside(b, leases, leases', now)
  <2>1. Stands(leases[e], m) /\ leases' = [leases EXCEPT ![e] = m]
    OBVIOUS
  <2> HIDE DEF e
  <2> QED
    BY <1>2, <2>1, OwnLeaseStands
<1>5. Abandoned(cur) /\ Abandoned(journal[a])
  BY <1>2, <1>3 DEF Abandoned, CopyOf
<1>6. CoordGood(a, coord[a], journal[a], sandbox[a], leases', now)
  BY <1>4, <1>5, AbandonedCoordinator
<1>7. /\ next \in AttemptRecord
      /\ next.rev = cur.rev + 1 /\ next.stage = cur.stage
      /\ next.leaseID = e /\ next.leaseRev = m.rev
      /\ next.reservation = cur.reservation /\ next.recovery = "aborting"
  <2>1. m.state \in LeaseStates \cup {"absent"}
    BY <1>4, LeaseFields
  <2>2. next \in AttemptRecord
    BY <1>3, <1>4, <2>1, Zenon DEF AttemptRecord
  <2> QED
    BY <1>2, <1>3, <2>2 DEF AttemptRecord
<1>8. plan' = [plan EXCEPT ![a] = p]
  BY DEF LeaseOutcome, Outcome
<1> HIDE DEF next
<1>9. LeaseOnRecord(a, next, leases')
  <2>1. cur.stage \in Nat /\ ~(cur.stage >= Committed)
    BY <1>3, <1>5, AttemptFields, ValidFacts
  <2> QED
    BY <1>2, <1>4, <1>7, <2>1 DEF LeaseOnRecord, Stands
<1>10. cur = journal[a] => OutcomeGood(next, journal[a], sandbox[a], coord[a].pc)
  BY <1>7 DEF OutcomeGood
<1>11. PlanGood(a, p, journal[a], sandbox[a], coord[a].pc, leases')
  BY <1>1, <1>7, <1>9, <1>10, OutcomePlan
<1> HIDE DEF p
<1>12. Good(a, journal[a], coord[a], p, sandbox[a], leases', now)
  BY <1>4, <1>6, <1>11, InvFacts DEF Good
<1> QED
  BY <1>4, <1>8, <1>12, StepOf

\* The executor revokes the lease, or learns its state.
LEMMA ExecuteRevokeKeeps ==
    ASSUME ActivationInv, NEW a \in Attempts, ExecuteRevoke(a)
    PROVE  ActivationInv'
<1> DEFINE e == plan[a].cur.leaseID
           m == Revoked(leases[e], plan[a].cur.leaseRev, now)
<1>1. /\ Planned(a, "revoke_identity_lease") /\ leases' = [leases EXCEPT ![e] = m]
      /\ now' = now /\ UNCHANGED <<journal, coord, sandbox>> /\ LeaseOutcome(a, m)
  BY DEF ExecuteRevoke, RevokeIdentityLease
<1>2. leases[e] \in LeaseRecord /\ now \in Nat
  BY <1>1, PlannedLease, InvFacts
<1>3. Stands(leases[e], m)
  BY <1>2, RevokedStands
<1>4. [LeaseNext]_leaseVars
  BY ExecuteIsStoreStep DEF LeaseNext
<1> HIDE DEF m
<1> QED
  BY <1>1, <1>3, <1>4, LeaseOutcomeKeeps

\* The executor releases the lease, or learns its state.
LEMMA ExecuteReleaseLeaseKeeps ==
    ASSUME ActivationInv, NEW a \in Attempts, ExecuteReleaseLease(a)
    PROVE  ActivationInv'
<1> DEFINE e == plan[a].cur.leaseID
           m == Released(leases[e], plan[a].cur.leaseRev, now)
<1>1. /\ Planned(a, "release_identity_lease") /\ leases' = [leases EXCEPT ![e] = m]
      /\ now' = now /\ UNCHANGED <<journal, coord, sandbox>> /\ LeaseOutcome(a, m)
  BY DEF ExecuteReleaseLease, ReleaseIdentityLease
<1>2. leases[e] \in LeaseRecord /\ now \in Nat
  BY <1>1, PlannedLease, InvFacts
<1>3. Stands(leases[e], m)
  BY <1>2, ReleasedStands
<1>4. [LeaseNext]_leaseVars
  BY ExecuteIsStoreStep DEF LeaseNext
<1> HIDE DEF m
<1> QED
  BY <1>1, <1>3, <1>4, LeaseOutcomeKeeps

\* What the planner proposes follows from the recovery state of the record.
LEMMA Decisions ==
    ASSUME NEW at \in AttemptRecord, NEW t
    PROVE  /\ PlanRecovery(at, t) \in {"fence_sandbox", "release_sandbox",
                                       "revoke_identity_lease", "release_identity_lease",
                                       "mark_aborted"} => at.recovery = "aborting"
           /\ PlanRecovery(at, t) = "inspect_sandbox_reservation" =>
                 at.reservation \in Unresolved
           /\ PlanRecovery(at, t) \in {"revoke_identity_lease", "release_identity_lease"} =>
                 at.leaseState # "absent"
<1>1. /\ at.recovery \in {"normal", "aborting", "quarantined", "aborted"}
      /\ at.stage \in 0..8
  BY AttemptFields
<1>2. CASE at.recovery = "normal"
  <2>1. ForwardAction(at.stage) \in {"resume_preflight", "inspect_preflight",
           "freeze_activation_snapshot", "reserve_identity_lease", "resolve_budget",
           "reserve_sandbox", "commit_activation", "activate_sandbox", "resume_binding"}
    BY <1>1 DEF ForwardAction, Proposed, Preflighting, PreflightPassed, SnapshotFrozen,
                IdentityLeaseReserved, BudgetResolved, SandboxReserved, Committed, SandboxActive
  <2>2. PlanRecovery(at, t) = NormalDecision(at, t)
    BY <1>2 DEF PlanRecovery
  <2> QED
    BY <2>1, <2>2 DEF NormalDecision, Unresolved
<1>3. CASE at.recovery = "quarantined"
  <2>1. PlanRecovery(at, t) = QuarantinedDecision(at)
    BY <1>3 DEF PlanRecovery
  <2> QED
    BY <2>1 DEF QuarantinedDecision, Unresolved
<1>4. CASE at.recovery = "aborted"
  BY <1>4 DEF PlanRecovery
<1>5. CASE at.recovery = "aborting"
  <2>1. PlanRecovery(at, t) = AbortDecision(at)
    BY <1>5 DEF PlanRecovery
  <2> QED
    BY <1>5, <2>1 DEF AbortDecision
<1> QED
  BY <1>1, <1>2, <1>3, <1>4, <1>5

\* The executor reads the journal and plans.
LEMMA RecoverActivationKeeps ==
    ASSUME ActivationInv, NEW a \in Attempts, RecoverActivation(a)
    PROVE  ActivationInv'
<1> DEFINE j == journal[a]
           x == PlanRecovery(j, now)
           p == [NoPlan EXCEPT !.step = "planned", !.cur = j, !.action = x]
<1>1. /\ j.rev > 0 /\ plan' = [plan EXCEPT ![a] = p]
      /\ UNCHANGED <<leases, epoch, now, journal, coord, sandbox>>
  BY DEF RecoverActivation
<1>2. JournalGood(a, j, leases) /\ j \in AttemptRecord
  BY InvFacts
<1>3. AttemptValid(j)
  BY <1>1, <1>2, NoAttemptFacts DEF JournalGood
<1>4. /\ x \in {"fence_sandbox", "release_sandbox", "revoke_identity_lease",
                "release_identity_lease", "mark_aborted"} => j.recovery = "aborting"
      /\ x = "inspect_sandbox_reservation" => j.reservation \in Unresolved
      /\ x \in {"revoke_identity_lease", "release_identity_lease"} => j.leaseState # "absent"
  BY <1>2, Decisions
<1> HIDE DEF x
<1>5. p = [step |-> "planned", action |-> x, cur |-> j, next |-> NoAttempt]
  BY PlannedRecord
<1> HIDE DEF p
<1>6. p.action = x /\ p.cur = j
  BY <1>5
<1>7. CopyOf(j, j)
  BY <1>2, CopyOfSelf
<1>8. PlanGood(a, p, j, sandbox[a], coord[a].pc, leases)
  BY <1>2, <1>3, <1>4, <1>5, <1>6, <1>7 DEF PlanGood, JournalGood
<1> QED
  BY <1>1, <1>8, InvFacts, QuietStepOf

\* The executor crashes.
LEMMA ExecutorForgetsKeeps ==
    ASSUME ActivationInv, NEW a \in Attempts, ExecutorForgets(a)
    PROVE  ActivationInv'
<1>1. /\ plan' = [plan EXCEPT ![a] = NoPlan]
      /\ UNCHANGED <<leases, epoch, now, journal, coord, sandbox>>
  BY DEF ExecutorForgets
<1>2. PlanGood(a, NoPlan, journal[a], sandbox[a], coord[a].pc, leases)
  BY DEF PlanGood
<1> QED
  BY <1>1, <1>2, InvFacts, QuietStepOf

\* What the journal takes from the executor was made from the current record.
LEMMA PersistedFacts ==
    ASSUME ActivationInv, NEW a \in Attempts, plan[a].step = "persist", NEW u,
           Accepts(a, plan[a].next, u)
    PROVE  /\ plan[a].next \in AttemptRecord
           /\ TransitionValid(journal[a], plan[a].next, u, now)
           /\ LeaseOnRecord(a, plan[a].next, leases)
           /\ OutcomeGood(plan[a].next, journal[a], sandbox[a], coord[a].pc)
<1>1. PlanGood(a, plan[a], journal[a], sandbox[a], coord[a].pc, leases)
      /\ journal[a] \in AttemptRecord /\ now \in Nat
  BY InvFacts
<1>2. /\ plan[a].next \in AttemptRecord /\ LeaseOnRecord(a, plan[a].next, leases)
      /\ plan[a].next.rev = journal[a].rev + 1 =>
            OutcomeGood(plan[a].next, journal[a], sandbox[a], coord[a].pc)
  BY <1>1 DEF PlanGood, NoPlan
<1>3. TransitionValid(journal[a], plan[a].next, u, now)
  BY DEF Accepts
<1>4. plan[a].next.rev = journal[a].rev + 1
  BY <1>1, <1>2, <1>3, TransitionFacts
<1> QED
  BY <1>2, <1>3, <1>4

\* The executor writes what it holds, if the journal still takes it.
LEMMA PersistOutcomeKeeps ==
    ASSUME ActivationInv, NEW a \in Attempts, PersistOutcome(a)
    PROVE  ActivationInv'
<1> DEFINE next == plan[a].next
           j == journal[a]
           s == sandbox[a]
           c == coord[a]
           u == next.recovery = "normal"
<1>1. /\ plan[a].step = "persist" /\ plan' = [plan EXCEPT ![a] = NoPlan]
      /\ UNCHANGED <<leases, epoch, now, coord, sandbox>>
      /\ journal' = IF Accepts(a, next, u) THEN [journal EXCEPT ![a] = next] ELSE journal
  BY DEF PersistOutcome
<1>2. \A k : PlanGood(a, NoPlan, k, s, c.pc, leases)
  BY DEF PlanGood
<1>3. CASE ~Accepts(a, next, u)
  <2>1. journal' = journal
    BY <1>1, <1>3
  <2> QED
    BY <1>1, <1>2, <2>1, InvFacts, QuietStepOf
<1>4. CASE Accepts(a, next, u)
  <2>1. journal' = [journal EXCEPT ![a] = next]
    BY <1>1, <1>4
  <2>2. /\ next \in AttemptRecord /\ TransitionValid(j, next, u, now)
        /\ LeaseOnRecord(a, next, leases) /\ OutcomeGood(next, j, s, c.pc)
    BY <1>1, <1>4, PersistedFacts
  <2>3. /\ JournalGood(a, j, leases) /\ SandboxGood(j, s) /\ j \in AttemptRecord /\ now \in Nat
        /\ CoordGood(a, c, j, s, leases, now) /\ c.cur \in AttemptRecord
    BY InvFacts DEF Cur
  <2> HIDE DEF u
  <2>4. /\ AttemptValid(j) /\ AttemptValid(next)
        /\ Abandoned(j) /\ next.recovery # "quarantined" => Abandoned(next)
    BY <2>2, <2>3, TransitionFacts
  <2>5. JournalGood(a, next, leases)
    <3>1. next.reservation = "released" => Abandoned(next)
      BY <2>2, <2>3, <2>4 DEF OutcomeGood, JournalGood, Abandoned
    <3>2. next.stage = j.stage /\ next.leaseID = j.leaseID
      BY <2>2 DEF OutcomeGood
    <3> QED
      BY <2>2, <2>3, <2>4, <3>1, <3>2 DEF JournalGood
  <2>6. SandboxGood(next, s)
    BY <2>2, <2>3 DEF OutcomeGood, SandboxGood, OnRecord, Sandboxed
  <2>7. CoordGood(a, c, next, s, leases, now)
    <3>1. CopyOf(c.cur, next)
      BY <2>2, <2>3, CopyStays DEF CoordGood, OutcomeGood
    <3>2. j # NoAttempt
      BY <2>3, <2>4, NoAttemptFacts, ValidFacts
    <3>3. c.pc = "intended" => next.reservation = "intent_recorded"
      BY <2>2, <2>3 DEF CoordGood, OutcomeGood
    <3> QED
      BY <2>3, <3>1, <3>2, <3>3 DEF CoordGood
  <2> QED
    BY <1>1, <1>2, <2>1, <2>5, <2>6, <2>7, QuietStepOf
<1> QED
  BY <1>3, <1>4

----------------------------------------------------------------------------
(* The invariant holds.                                                    *)

\* Before the first attempt.
LEMMA ActivationInitial == ActivationInit => ActivationInv
<1> SUFFICES ASSUME ActivationInit PROVE ActivationInv
  OBVIOUS
<1> DEFINE c == CoordinatorAt("idle", "none")
<1>1. /\ LeaseInit /\ LeaseInv /\ leases = [e \in Epochs |-> AbsentLease] /\ now = 0
      /\ journal = [a \in Attempts |-> NoAttempt] /\ coord = [a \in Attempts |-> c]
      /\ plan = [a \in Attempts |-> NoPlan] /\ sandbox = [a \in Attempts |-> "none"]
  BY LeaseInvInductive DEF ActivationInit, LeaseInit
<1>2. \A e \in Epochs : leases[e].state = "absent" /\ leases[e].attempt = "none"
  BY <1>1 DEF AbsentLease
<1>3. LeasesFilled(leases)
  BY <1>2 DEF LeasesFilled
<1>4. /\ c \in CoordinatorType
      /\ c.pc = "idle" /\ c.phase = "none" /\ c.cur = NoAttempt /\ c.t = 0
  BY NoAttemptFacts DEF CoordinatorAt, CoordinatorType, Phases
<1> HIDE DEF c
<1>5. /\ c.pc \notin Leased \cup Provisioning /\ c.pc \notin Provisioning \cup Serving
      /\ c.pc \notin Provisioning \cup Serving \cup Closing
      /\ c.pc \notin {"intended", "allocating", "allocated", "lease_revoked",
                      "sandbox_released", "terminal"}
  BY <1>4 DEF Leased, Provisioning, Serving, Closing
<1>6. ASSUME NEW a \in Attempts
      PROVE  Good(a, NoAttempt, c, NoPlan, "none", leases, now)
  <2>1. \A e \in Epochs : leases[e].attempt # a
    BY <1>2, LeaseAssumption
  <2>2. JournalGood(a, NoAttempt, leases)
    BY <1>2, NoAttemptFacts DEF JournalGood
  <2>3. SandboxGood(NoAttempt, "none")
    BY DEF SandboxGood, SandboxStates, Sandboxed
  <2>4. CopyOf(NoAttempt, NoAttempt)
    BY NoAttemptFacts, CopyOfSelf
  <2>5. CoordGood(a, c, NoAttempt, "none", leases, now)
    BY <1>1, <1>4, <1>5, <2>1, <2>4, NoAttemptFacts DEF CoordGood
  <2> QED
    BY <2>2, <2>3, <2>5 DEF Good, PlanGood
<1> QED
  BY <1>1, <1>3, <1>6 DEF ActivationInv

\* Every step of an attempt keeps it.
LEMMA AttemptStepKeeps ==
    ASSUME ActivationInv, NEW a \in Attempts,
           Activating(a) \/ Stopping(a) \/ Recovering(a) \/ Environment(a)
    PROVE  ActivationInv'
<1>1. CASE Activating(a)
  <2>1. ASSUME NEW expected \in 0..(MaxEpoch - 1), NEW leaseExp \in Expiries,
               BeginActivate(a, expected, leaseExp)
        PROVE  ActivationInv'
    BY <2>1, BeginActivateKeeps
  <2>2. ASSUME NEW expiry \in Expiries, Preflight(a, expiry) PROVE ActivationInv'
    BY <2>2, PreflightKeeps
  <2> QED
    BY <1>1, <2>1, <2>2, AdvancePreflightingKeeps, FreezeSnapshotKeeps, ReadClockKeeps,
       ReserveLeaseKeeps, RecordLeaseKeeps, ResolveBudgetKeeps, RecordAllocateIntentKeeps,
       AllocateKeeps, AllocateFailsKeeps, ConfirmAllocationKeeps, CommitActivationKeeps,
       RecordActivateIntentKeeps, CommittedGoto, ActivateFailsKeeps, ConfirmActivationKeeps,
       CommittedPhase, CoordinatorDiesKeeps
       DEF Activating
<1>2. CASE Stopping(a)
  BY <1>2, CommittedPhase, CommittedGoto, StopRevokesLeaseKeeps, StopReleasesLeaseKeeps
     DEF Stopping
<1>3. CASE Recovering(a)
  BY <1>3, RecoverActivationKeeps, ExecuteRecoveryKeeps, ExecuteFenceKeeps,
     ExecuteReleaseKeeps, ExecuteRevokeKeeps, ExecuteReleaseLeaseKeeps,
     ExecuteInspectReservationKeeps, ExecuteInspectActivationKeeps, PersistOutcomeKeeps,
     ExecutorForgetsKeeps
     DEF Recovering
<1>4. CASE Environment(a)
  <2>1. ASSUME NEW expiry \in Expiries, SupervisorRenews(a, expiry) PROVE ActivationInv'
    BY <2>1, SupervisorRenewsKeeps
  <2> QED
    BY <1>4, <2>1, ProviderKeeps DEF Environment
<1> QED
  BY <1>1, <1>2, <1>3, <1>4

\* Nothing happens.
LEMMA ActivationStutters ==
    ASSUME ActivationInv, UNCHANGED activationVars
    PROVE  ActivationInv'
<1>1. /\ leases' = leases /\ epoch' = epoch /\ now' = now /\ journal' = journal
      /\ coord' = coord /\ plan' = plan /\ sandbox' = sandbox
  BY DEF activationVars
<1>2. LeaseInv'
  BY <1>1, LeaseInvInductive DEF ActivationInv, leaseVars
<1> QED
  BY <1>1, <1>2 DEF ActivationInv

\* The invariant is inductive.
LEMMA ActivationInvariant == ActivationSpec => []ActivationInv
<1>1. ASSUME ActivationInv, [ActivationNext]_activationVars
      PROVE  ActivationInv'
  BY <1>1, ClockTicksKeeps, AttemptStepKeeps, ActivationStutters DEF ActivationNext
<1> QED
  BY <1>1, ActivationInitial, PTL DEF ActivationSpec

----------------------------------------------------------------------------
(* The properties of activation.                                           *)

\* The journal, the copies that coordinators and executors hold of it, the
\* sandboxes and the leases keep their types, whatever crashes.
THEOREM ActivationTypes == ActivationSpec => []ActivationTypeOK
<1>1. ASSUME ActivationInv PROVE ActivationTypeOK
  <2>1. LeaseTypeOK
    BY <1>1 DEF ActivationInv, LeaseInv
  <2>2. ASSUME NEW a \in Attempts
        PROVE  /\ journal[a] \in AttemptRecord /\ coord[a].cur \in AttemptRecord
               /\ plan[a].cur \in AttemptRecord /\ plan[a].next \in AttemptRecord
               /\ sandbox[a] \in SandboxStates
    <3>1. /\ journal[a] \in AttemptRecord /\ coord[a].cur \in AttemptRecord
          /\ SandboxGood(journal[a], sandbox[a])
          /\ PlanGood(a, plan[a], journal[a], sandbox[a], coord[a].pc, leases)
      BY <1>1, InvFacts DEF Cur
    <3>2. plan[a].cur \in AttemptRecord /\ plan[a].next \in AttemptRecord
      BY <3>1, NoAttemptFacts DEF PlanGood, NoPlan
    <3> QED
      BY <3>1, <3>2 DEF SandboxGood
  <2>3. journal \in [Attempts -> AttemptRecord] /\ sandbox \in [Attempts -> SandboxStates]
    BY <1>1, <2>2 DEF ActivationInv
  <2>4. SandboxStates = {"none", "requested", "reserved", "activating", "active", "fenced",
                         "released"}
    BY DEF SandboxStates, Sandboxed
  <2> QED
    BY <2>1, <2>2, <2>3, <2>4 DEF ActivationTypeOK
<1> QED
  BY <1>1, ActivationInvariant, PTL

\* The commit of a lease and the commit of its attempt are one commit, through
\* every crash and every race between attempts and with the executor.
THEOREM CommitStaysAtomic == ActivationSpec => []CommitIsAtomic
<1>1. ASSUME ActivationInv PROVE CommitIsAtomic
  <2>1. ASSUME NEW a \in Attempts, journal[a].stage >= Committed
        PROVE  /\ leases[journal[a].leaseID].attempt = a
               /\ leases[journal[a].leaseID].state # "reserved"
               /\ leases[journal[a].leaseID].rev >= journal[a].leaseRev
    <3>1. journal[a] \in AttemptRecord /\ JournalGood(a, journal[a], leases)
          /\ leases \in [Epochs -> LeaseRecord]
      BY <1>1, InvFacts
    <3>2. AttemptValid(journal[a])
      BY <2>1, <3>1, NoAttemptFacts DEF JournalGood, Committed
    <3>3. journal[a].leaseID # 0
      BY <2>1, <3>1, <3>2, ValidFacts
    <3>4. LeaseOnRecord(a, journal[a], leases)
      BY <3>1 DEF JournalGood
    <3>5. leases[journal[a].leaseID].rev \in Nat
      BY <3>1, <3>3, <3>4, LeaseFields DEF LeaseOnRecord
    <3> QED
      BY <2>1, <3>3, <3>4, <3>5 DEF LeaseOnRecord
  <2>2. ASSUME NEW e \in Epochs, leases[e].state = "active"
        PROVE  /\ leases[e].attempt \in Attempts
               /\ journal[leases[e].attempt].stage >= Committed
               /\ journal[leases[e].attempt].leaseID = e
    <3>1. leases[e].attempt \in Attempts
      BY <1>1, <2>2 DEF ActivationInv, LeasesFilled
    <3> QED
      BY <1>1, <2>2, <3>1, InvFacts DEF JournalGood
  <2> QED
    BY <2>1, <2>2 DEF CommitIsAtomic
<1> QED
  BY <1>1, ActivationInvariant, PTL

\* Neither a coordinator nor an executor can overwrite a record it has not
\* read: a copy at the journal's revision is the journal's record.
THEOREM CopiesAreCurrent == ActivationSpec => []CopyIsCurrent
<1>1. ASSUME ActivationInv PROVE CopyIsCurrent
  <2>1. ASSUME NEW a \in Attempts
        PROVE  /\ Cur(a).rev = journal[a].rev => Cur(a) = journal[a]
               /\ plan[a].cur.rev = journal[a].rev => plan[a].cur = journal[a] \/ journal[a].rev = 0
    <3>1. /\ CopyOf(Cur(a), journal[a])
          /\ PlanGood(a, plan[a], journal[a], sandbox[a], coord[a].pc, leases)
      BY <1>1, InvFacts DEF CoordGood, Cur
    <3>2. CopyOf(plan[a].cur, journal[a]) \/ plan[a].cur = NoAttempt
      BY <3>1 DEF PlanGood, NoPlan
    <3> QED
      BY <3>1, <3>2, NoAttemptFacts DEF CopyOf
  <2> QED
    BY <2>1 DEF CopyIsCurrent
<1> QED
  BY <1>1, ActivationInvariant, PTL

\* No sandbox that the provider holds or may still create is off the record,
\* and no attempt is called aborted while it has one.
THEOREM SandboxesAccounted == ActivationSpec => []SandboxAccounted
<1>1. ASSUME ActivationInv PROVE SandboxAccounted
  <2>1. ASSUME NEW a \in Attempts, sandbox[a] \in Sandboxed
        PROVE  journal[a].reservation \in OnRecord /\ journal[a].recovery # "aborted"
    <3>1. /\ journal[a] \in AttemptRecord /\ JournalGood(a, journal[a], leases)
          /\ SandboxGood(journal[a], sandbox[a])
      BY <1>1, InvFacts
    <3>2. journal[a].reservation \in OnRecord
      BY <2>1, <3>1 DEF SandboxGood
    <3>3. AttemptValid(journal[a])
      BY <3>1, <3>2, NoAttemptFacts DEF JournalGood, OnRecord
    <3> QED
      BY <3>1, <3>2, <3>3, ValidFacts DEF OnRecord, SettledStates
  <2> QED
    BY <2>1 DEF SandboxAccounted, Sandboxed, OnRecord
<1> QED
  BY <1>1, ActivationInvariant, PTL

\* An instance that reports itself terminal has given back its sandbox and its
\* identity lease.
THEOREM TerminalIsReleased == ActivationSpec => []TerminalMeansReleased
<1>1. ASSUME ActivationInv PROVE TerminalMeansReleased
  BY <1>1, InvFacts DEF TerminalMeansReleased, CoordGood, Cur
<1> QED
  BY <1>1, ActivationInvariant, PTL

----------------------------------------------------------------------------
(* The lease store underneath.                                             *)

\* A step of an attempt is a step of the lease store, or leaves it alone.
LEMMA AttemptStepIsStoreStep ==
    ASSUME ActivationInv, NEW a \in Attempts,
           Activating(a) \/ Stopping(a) \/ Recovering(a) \/ Environment(a)
    PROVE  [LeaseNext]_leaseVars
<1> USE DEF leaseVars
<1>1. CASE ReserveLease(a)
  BY <1>1, ReserveIsStoreStep DEF LeaseNext
<1>2. CASE CommitActivation(a)
  BY <1>2, CommitIsStoreStep DEF LeaseNext
<1>3. CASE StopRevokesLease(a) \/ StopReleasesLease(a)
  BY <1>3, StopIsStoreStep DEF LeaseNext
<1>4. CASE ExecuteRevoke(a) \/ ExecuteReleaseLease(a)
  BY <1>4, ExecuteIsStoreStep DEF LeaseNext
<1>5. CASE \E expiry \in Expiries : SupervisorRenews(a, expiry)
  BY <1>5, RenewIsStoreStep DEF LeaseNext
<1>6. CASE \/ \E expected \in 0..(MaxEpoch - 1), leaseExp \in Expiries :
                 BeginActivate(a, expected, leaseExp)
           \/ \E expiry \in Expiries : Preflight(a, expiry)
           \/ AdvancePreflighting(a) \/ FreezeSnapshot(a) \/ ReadClock(a) \/ RecordLease(a)
           \/ ResolveBudget(a) \/ RecordAllocateIntent(a) \/ Allocate(a) \/ AllocateReturns(a)
           \/ AllocateFails(a) \/ ConfirmAllocation(a)
  BY <1>6 DEF BeginActivate, Preflight, AdvancePreflighting, FreezeSnapshot, ReadClock,
              RecordLease, ResolveBudget, RecordAllocateIntent, Allocate, AllocateReturns,
              AllocateFails, ConfirmAllocation
<1>7. CASE \/ RecordActivateIntent(a) \/ ActivateSandbox(a) \/ ActivateReturns(a)
           \/ ActivateFails(a) \/ ConfirmActivation(a) \/ OpenAndInspect(a)
           \/ CoordinatorDies(a) \/ BeginStop(a) \/ StopFencesSandbox(a)
           \/ StopReleasesSandbox(a) \/ StopFails(a) \/ ProviderApplies(a) \/ ProviderRefuses(a)
  BY <1>7 DEF RecordActivateIntent, ActivateSandbox, ActivateReturns, ActivateFails,
              ConfirmActivation, OpenAndInspect, CoordinatorDies, BeginStop, StopFencesSandbox,
              StopReleasesSandbox, StopFails, ProviderApplies, ProviderRefuses
<1>8. CASE \/ RecoverActivation(a) \/ ExecuteBeginAbort(a) \/ ExecuteFence(a)
           \/ ExecuteRelease(a) \/ ExecuteMarkAborted(a) \/ ExecuteInspectReservation(a)
           \/ ExecuteInspectActivation(a) \/ PersistOutcome(a) \/ ExecutorForgets(a)
  BY <1>8 DEF RecoverActivation, ExecuteBeginAbort, ExecuteFence, ExecuteRelease,
              ExecuteMarkAborted, ExecuteInspectReservation, ExecuteInspectActivation,
              PersistOutcome, ExecutorForgets
<1> QED
  BY <1>1, <1>2, <1>3, <1>4, <1>5, <1>6, <1>7, <1>8
     DEF Activating, Stopping, Recovering, Environment

\* What the activation machinery does to the leases is a behaviour of the lease
\* store: with LeaseSafety, no interleaving of attempts, coordinators and
\* executors gives the identity two holders.
THEOREM LeaseStoreImplemented == ActivationSpec => ImplementsLeaseStore
<1>1. ActivationInit => LeaseInit
  BY DEF ActivationInit
<1>2. ASSUME ActivationInv, [ActivationNext]_activationVars
      PROVE  [LeaseNext]_leaseVars
  <2>1. CASE ClockTicks
    BY <2>1 DEF ClockTicks, LeaseNext
  <2>2. CASE UNCHANGED activationVars
    BY <2>2 DEF activationVars, leaseVars
  <2> QED
    BY <1>2, <2>1, <2>2, AttemptStepIsStoreStep DEF ActivationNext
<1> QED
  BY <1>1, <1>2, ActivationInvariant, PTL DEF ActivationSpec, ImplementsLeaseStore

----------------------------------------------------------------------------
(* The last write.                                                         *)

\* A write that does not reach sandbox_active.
LEMMA WriteBelowActive ==
    ASSUME ActivationInv, NEW a \in Attempts, NEW next,
           journal' = journal \/ journal' = [journal EXCEPT ![a] = next],
           next.stage # SandboxActive \/ journal[a].stage = SandboxActive
                                      \/ journal'[a] = journal[a]
    PROVE  ActiveUnderLeaseStep
<1>1. journal = [b \in Attempts |-> journal[b]]
  BY DEF ActivationInv
<1>2. \A b \in Attempts : journal'[b] = journal[b] \/ (b = a /\ journal'[b] = next)
  BY <1>1
<1> QED
  BY <1>2 DEF ActiveUnderLeaseStep

\* A coordinator's write that is accepted was made from the journal's record.
LEMMA AcceptedIsCurrent ==
    ASSUME ActivationInv, NEW a \in Attempts, coord[a].pc \in Running, NEW next,
           next.rev = Cur(a).rev + 1, Accepts(a, next, FALSE)
    PROVE  Cur(a) = journal[a]
<1>1. Cur(a).rev \in Nat /\ journal[a].rev \in Nat
  BY InvFacts, AttemptFields
<1>2. next.rev = journal[a].rev + 1
  BY DEF Accepts, TransitionValid
<1> QED
  BY <1>1, <1>2, Working DEF CopyOf

\* The coordinator's writes up to the commit.
LEMMA EarlyWrites ==
    ASSUME ActivationInv, NEW a \in Attempts,
           \/ \E expected \in 0..(MaxEpoch - 1), leaseExp \in Expiries :
                 BeginActivate(a, expected, leaseExp)
           \/ \E expiry \in Expiries : Preflight(a, expiry)
           \/ AdvancePreflighting(a) \/ FreezeSnapshot(a) \/ RecordLease(a)
           \/ ResolveBudget(a) \/ ConfirmAllocation(a) \/ CommitActivation(a)
    PROVE  ActiveUnderLeaseStep
<1> USE DEF Preflighting, PreflightPassed, SnapshotFrozen, IdentityLeaseReserved,
            BudgetResolved, SandboxReserved, Committed, SandboxActive
<1>1. Cur(a) \in AttemptRecord /\ journal[a] \in AttemptRecord
  BY InvFacts
<1>2. ASSUME NEW expected, NEW leaseExp, BeginActivate(a, expected, leaseExp)
      PROVE  ActiveUnderLeaseStep
  <2>1. journal' = [journal EXCEPT ![a] = NewAttempt(expected, 1)]
    BY <1>2 DEF BeginActivate
  <2>2. NewAttempt(expected, 1).stage # SandboxActive
    BY DEF NewAttempt, Proposed
  <2> QED
    BY <2>1, <2>2, WriteBelowActive
<1>3. ASSUME NEW expiry, Preflight(a, expiry) PROVE ActiveUnderLeaseStep
  <2> DEFINE next == [Cur(a) EXCEPT !.stage = PreflightPassed, !.rev = @ + 1]
  <2>1. journal' = journal \/ journal' = [journal EXCEPT ![a] = next]
    BY <1>3 DEF Preflight
  <2>2. next.stage # SandboxActive
    BY <1>1 DEF AttemptRecord
  <2> QED
    BY <2>1, <2>2, WriteBelowActive
<1>4. CASE AdvancePreflighting(a)
  <2> DEFINE next == [Cur(a) EXCEPT !.stage = Preflighting, !.rev = @ + 1]
  <2>1. journal' = journal \/ journal' = [journal EXCEPT ![a] = next]
    BY <1>4 DEF AdvancePreflighting, AdvanceActivation
  <2>2. next.stage # SandboxActive
    BY <1>1 DEF AttemptRecord
  <2> QED
    BY <2>1, <2>2, WriteBelowActive
<1>5. CASE FreezeSnapshot(a)
  <2> DEFINE next == [Cur(a) EXCEPT !.stage = SnapshotFrozen,
                                    !.snapshot = SnapshotExpiry(coord[a]), !.rev = @ + 1]
  <2>1. journal' = journal \/ journal' = [journal EXCEPT ![a] = next]
    BY <1>5 DEF FreezeSnapshot, AdvanceActivation
  <2>2. next.stage # SandboxActive
    BY <1>1 DEF AttemptRecord
  <2> QED
    BY <2>1, <2>2, WriteBelowActive
<1>6. CASE RecordLease(a)
  <2> DEFINE next == [Cur(a) EXCEPT !.stage = IdentityLeaseReserved,
                                    !.leaseID = Cur(a).expected + 1, !.leaseState = "reserved",
                                    !.leaseRev = coord[a].leaseRev, !.rev = @ + 1]
  <2>1. journal' = journal \/ journal' = [journal EXCEPT ![a] = next]
    BY <1>6 DEF RecordLease, AdvanceActivation
  <2>2. next.stage # SandboxActive
    BY <1>1 DEF AttemptRecord
  <2> QED
    BY <2>1, <2>2, WriteBelowActive
<1>7. CASE ResolveBudget(a)
  <2> DEFINE next == [Cur(a) EXCEPT !.stage = BudgetResolved, !.budget = "not_required",
                                    !.rev = @ + 1]
  <2>1. journal' = journal \/ journal' = [journal EXCEPT ![a] = next]
    BY <1>7 DEF ResolveBudget, AdvanceActivation
  <2>2. next.stage # SandboxActive
    BY <1>1 DEF AttemptRecord
  <2> QED
    BY <2>1, <2>2, WriteBelowActive
<1>8. CASE ConfirmAllocation(a)
  <2> DEFINE next == [Cur(a) EXCEPT !.stage = SandboxReserved,
                                    !.reservation = "confirmed_applied", !.rev = @ + 1]
  <2>1. journal' = journal \/ journal' = [journal EXCEPT ![a] = next]
    BY <1>8 DEF ConfirmAllocation, AdvanceActivation
  <2>2. next.stage # SandboxActive
    BY <1>1 DEF AttemptRecord
  <2> QED
    BY <2>1, <2>2, WriteBelowActive
<1>9. CASE CommitActivation(a)
  <2>1. journal' = journal \/ journal' = [journal EXCEPT ![a] = CommittedAttempt(a)]
    BY <1>9 DEF CommitActivation
  <2>2. CommittedAttempt(a).stage # SandboxActive
    BY <1>1 DEF CommittedAttempt, AttemptRecord
  <2> QED
    BY <2>1, <2>2, WriteBelowActive
<1> QED
  BY <1>2, <1>3, <1>4, <1>5, <1>6, <1>7, <1>8, <1>9

\* A coordinator's write that keeps the stage of its copy.
LEMMA StageKept ==
    ASSUME ActivationInv, NEW a \in Attempts, coord[a].pc \in Running, NEW next,
           next.rev = Cur(a).rev + 1, next.stage = Cur(a).stage,
           journal' = IF Accepts(a, next, FALSE)
                      THEN [journal EXCEPT ![a] = next] ELSE journal
    PROVE  ActiveUnderLeaseStep
<1>1. CASE Accepts(a, next, FALSE)
  <2>1. next.stage = journal[a].stage
    BY <1>1, AcceptedIsCurrent
  <2> QED
    BY <1>1, <2>1, WriteBelowActive
<1>2. CASE ~Accepts(a, next, FALSE)
  BY <1>2 DEF ActiveUnderLeaseStep
<1> QED
  BY <1>1, <1>2

\* The writes of an intent and of an unknown outcome keep the stage.
LEMMA IntentWrites ==
    ASSUME ActivationInv, NEW a \in Attempts,
           \/ RecordAllocateIntent(a) \/ AllocateFails(a)
           \/ RecordActivateIntent(a) \/ ActivateFails(a)
    PROVE  ActiveUnderLeaseStep
<1>1. Cur(a) \in AttemptRecord
  BY InvFacts
<1>2. ASSUME NEW pc, pc \in {"budgeted", "allocating", "committed", "activating"},
             coord[a].pc = pc
      PROVE  coord[a].pc \in Running
  BY <1>2 DEF Running, Leased, Provisioning
<1>3. CASE RecordAllocateIntent(a)
  <2> DEFINE next == [Cur(a) EXCEPT !.reservation = "intent_recorded", !.rev = @ + 1]
  <2>1. /\ coord[a].pc = "budgeted"
        /\ journal' = IF Accepts(a, next, FALSE) THEN [journal EXCEPT ![a] = next] ELSE journal
    BY <1>3 DEF RecordAllocateIntent, At, AdvanceActivation
  <2>2. next.rev = Cur(a).rev + 1 /\ next.stage = Cur(a).stage
    BY <1>1 DEF AttemptRecord
  <2> HIDE DEF next
  <2> QED
    BY <1>2, <2>1, <2>2, StageKept
<1>4. CASE AllocateFails(a)
  <2> DEFINE next == [Cur(a) EXCEPT !.recovery = "quarantined",
                                    !.reservation = "unknown_outcome", !.rev = @ + 1]
  <2>1. /\ coord[a].pc = "allocating"
        /\ journal' = IF Accepts(a, next, FALSE) THEN [journal EXCEPT ![a] = next] ELSE journal
    BY <1>4 DEF AllocateFails, At, QuarantineActivation
  <2>2. next.rev = Cur(a).rev + 1 /\ next.stage = Cur(a).stage
    BY <1>1 DEF AttemptRecord
  <2> HIDE DEF next
  <2> QED
    BY <1>2, <2>1, <2>2, StageKept
<1>5. CASE RecordActivateIntent(a)
  <2> DEFINE next == [Cur(a) EXCEPT !.activation = "intent_recorded", !.rev = @ + 1]
  <2>1. /\ coord[a].pc = "committed"
        /\ journal' = IF Accepts(a, next, FALSE) THEN [journal EXCEPT ![a] = next] ELSE journal
    BY <1>5 DEF RecordActivateIntent, At, AdvanceActivation
  <2>2. next.rev = Cur(a).rev + 1 /\ next.stage = Cur(a).stage
    BY <1>1 DEF AttemptRecord
  <2> HIDE DEF next
  <2> QED
    BY <1>2, <2>1, <2>2, StageKept
<1>6. CASE ActivateFails(a)
  <2> DEFINE next == [Cur(a) EXCEPT !.recovery = "quarantined",
                                    !.activation = "unknown_outcome", !.rev = @ + 1]
  <2>1. /\ coord[a].pc = "activating"
        /\ journal' = IF Accepts(a, next, FALSE) THEN [journal EXCEPT ![a] = next] ELSE journal
    BY <1>6 DEF ActivateFails, At, QuarantineActivation
  <2>2. next.rev = Cur(a).rev + 1 /\ next.stage = Cur(a).stage
    BY <1>1 DEF AttemptRecord
  <2> HIDE DEF next
  <2> QED
    BY <1>2, <2>1, <2>2, StageKept
<1> QED
  BY <1>3, <1>4, <1>5, <1>6

\* So does the executor's.
LEMMA OutcomeWrite ==
    ASSUME ActivationInv, NEW a \in Attempts, PersistOutcome(a)
    PROVE  ActiveUnderLeaseStep
<1> DEFINE next == plan[a].next
           u == next.recovery = "normal"
<1>1. /\ plan[a].step = "persist"
      /\ journal' = IF Accepts(a, next, u) THEN [journal EXCEPT ![a] = next] ELSE journal
  BY DEF PersistOutcome
<1>2. CASE Accepts(a, next, u)
  <2>1. next.stage = journal[a].stage
    BY <1>1, <1>2, PersistedFacts DEF OutcomeGood
  <2> QED
    BY <1>1, <1>2, <2>1, WriteBelowActive
<1>3. CASE ~Accepts(a, next, u)
  BY <1>1, <1>3 DEF ActiveUnderLeaseStep
<1> QED
  BY <1>2, <1>3

\* The lease of a coordinator that is provisioning, while its snapshot is
\* fresh: the snapshot ends no later than the lease was asked to.
LEMMA FreshHoldsIdentity ==
    ASSUME ActivationInv, NEW a \in Attempts, coord[a].pc \in Provisioning,
           Cur(a).snapshot = 0 \/ now < Cur(a).snapshot
    PROVE  /\ Cur(a).leaseID = epoch
           /\ leases[epoch].attempt = a
           /\ leases[epoch].state = "active"
           /\ now < leases[epoch].exp
<1> DEFINE e == Cur(a).leaseID
<1>1. /\ Cur(a) \in AttemptRecord /\ now \in Nat
      /\ Cur(a).snapshot \in Nat /\ coord[a].leaseExp \in Nat
  BY InvFacts, AttemptFields, CoordFields
<1>2. coord[a].pc \in Running
  BY DEF Running
<1>3. /\ e \in Epochs /\ leases[e] \in LeaseRecord /\ leases[e].attempt = a
      /\ Cur(a).stage >= Committed
  BY CommittedLease
<1>4. Cur(a).snapshot # 0 /\ e # 0
  BY <1>1, <1>2, <1>3, Working, ValidFacts
<1>5. OwnLease(a, coord[a], leases, now)
  BY InvFacts DEF CoordGood
<1>6. e = Cur(a).expected + 1
  BY <1>4, <1>5 DEF OwnLease, Cur
<1>7. /\ leases[e].exp = coord[a].leaseExp
      /\ leases[e].state = "active" \/ (leases[e].state = "expired" /\ now >= leases[e].exp)
  BY <1>5, <1>6 DEF OwnLease, Cur
<1>8. now < leases[e].exp /\ leases[e].state = "active"
  BY <1>1, <1>2, <1>4, <1>7, Working
<1>9. e = epoch
  BY <1>3, <1>8 DEF ActivationInv, LeaseInv, SingleHolder, Held
<1> QED
  BY <1>3, <1>8, <1>9

\* The write that reaches sandbox_active.
LEMMA LastWrite ==
    ASSUME ActivationInv, NEW a \in Attempts, ConfirmActivation(a)
    PROVE  ActiveUnderLeaseStep
<1> DEFINE next == [Cur(a) EXCEPT !.stage = SandboxActive,
                                  !.activation = "confirmed_applied", !.rev = @ + 1]
<1>1. coord[a].pc = "activated" /\ Cur(a) \in AttemptRecord /\ now \in Nat
  BY InvFacts DEF ConfirmActivation, At
<1>2. coord[a].pc \in Provisioning /\ coord[a].pc \in Running
  BY <1>1 DEF Provisioning, Running
<1>3. Cur(a).recovery = "normal" /\ Cur(a).rev \in Nat
  BY <1>1, <1>2, Working, AttemptFields
<1>4. /\ next \in AttemptRecord /\ next.rev = Cur(a).rev + 1 /\ next.recovery = "normal"
      /\ next.snapshot = Cur(a).snapshot /\ next.stage = 8
  <2>1. /\ Cur(a).rev + 1 \in Nat /\ "confirmed_applied" \in OperationStates
        /\ SandboxActive \in Proposed..SandboxActive
    BY <1>3, FieldValues
  <2>2. next \in AttemptRecord
    BY <1>1, <2>1, Zenon DEF AttemptRecord
  <2> QED
    BY <1>1, <1>3, <2>2 DEF AttemptRecord, SandboxActive
<1>5. journal' = IF Accepts(a, next, FALSE) THEN [journal EXCEPT ![a] = next] ELSE journal
  BY DEF ConfirmActivation, AdvanceActivation
<1> HIDE DEF next
<1>6. CASE ~Accepts(a, next, FALSE)
  BY <1>5, <1>6 DEF ActiveUnderLeaseStep
<1>7. CASE Accepts(a, next, FALSE) /\ journal[a].stage = SandboxActive
  BY <1>5, <1>7, WriteBelowActive
<1>8. CASE Accepts(a, next, FALSE) /\ journal[a].stage # SandboxActive
  <2>1. Cur(a) = journal[a]
    BY <1>2, <1>4, <1>8, AcceptedIsCurrent
  <2>2. TransitionValid(journal[a], next, FALSE, now) /\ journal[a] \in AttemptRecord
    BY <1>8, InvFacts DEF Accepts
  <2>3. journal[a].stage \in 0..8 /\ journal[a].stage # 8
    BY <1>8, <2>2, AttemptFields DEF SandboxActive
  <2>4. Cur(a).snapshot = 0 \/ now < Cur(a).snapshot
    <3>1. /\ next.stage > journal[a].stage /\ next.recovery = "normal"
          /\ next.snapshot = Cur(a).snapshot
      BY <1>4, <2>3
    <3>2. Fresh(next, now)
      BY <2>2, <3>1 DEF TransitionValid
    <3> QED
      BY <3>1, <3>2 DEF Fresh
  <2>5. /\ journal[a].leaseID = epoch /\ leases[epoch].attempt = a
        /\ leases[epoch].state = "active" /\ now < leases[epoch].exp
    BY <1>2, <2>1, <2>4, FreshHoldsIdentity
  <2>6. journal = [b \in Attempts |-> journal[b]] /\ journal' = [journal EXCEPT ![a] = next]
    BY <1>5, <1>8 DEF ActivationInv
  <2>7. \A b \in Attempts : b = a \/ journal'[b] = journal[b]
    BY <2>6
  <2> QED
    BY <2>5, <2>7 DEF ActiveUnderLeaseStep
<1> QED
  BY <1>6, <1>7, <1>8

\* The steps that are not of Activate: only the executor's outcome is a write.
LEMMA QuietJournal ==
    ASSUME NEW a, Stopping(a) \/ Environment(a) \/ (Recovering(a) /\ ~PersistOutcome(a))
    PROVE  journal' = journal
<1>1. ASSUME Stopping(a) PROVE journal' = journal
  BY <1>1 DEF Stopping, BeginStop, StopFencesSandbox, StopReleasesSandbox,
              StopRevokesLease, StopReleasesLease, StopFails
<1>2. ASSUME Recovering(a), ~PersistOutcome(a) PROVE journal' = journal
  BY <1>2 DEF Recovering, RecoverActivation, ExecuteBeginAbort, ExecuteFence,
              ExecuteRelease, ExecuteRevoke, ExecuteReleaseLease, ExecuteMarkAborted,
              ExecuteInspectReservation, ExecuteInspectActivation, ExecutorForgets
<1>3. ASSUME Environment(a) PROVE journal' = journal
  BY <1>3 DEF Environment, ProviderApplies, ProviderRefuses, SupervisorRenews
<1> QED
  BY <1>1, <1>2, <1>3

\* The steps of Activate that write no record.
LEMMA QuietActivating ==
    ASSUME NEW a,
           \/ ReadClock(a) \/ ReserveLease(a) \/ Allocate(a) \/ AllocateReturns(a)
           \/ ActivateSandbox(a) \/ ActivateReturns(a) \/ OpenAndInspect(a)
           \/ CoordinatorDies(a)
    PROVE  journal' = journal
  BY DEF ReadClock, ReserveLease, Allocate, AllocateReturns, ActivateSandbox,
         ActivateReturns, OpenAndInspect, CoordinatorDies

\* Every step of an attempt.
LEMMA AttemptStepUnderLease ==
    ASSUME ActivationInv, NEW a \in Attempts,
           Activating(a) \/ Stopping(a) \/ Recovering(a) \/ Environment(a)
    PROVE  ActiveUnderLeaseStep
<1>1. CASE journal' = journal
  BY <1>1 DEF ActiveUnderLeaseStep
<1>2. CASE Activating(a)
  BY <1>1, <1>2, QuietActivating, EarlyWrites, IntentWrites, LastWrite DEF Activating
<1> QED
  BY <1>1, <1>2, QuietJournal, OutcomeWrite

\* An attempt reaches sandbox_active only while it holds the identity by an
\* active lease in time, although the write never looks at the lease: the
\* freshness of its snapshot stands in for that.
THEOREM ActivatesUnderLease == ActivationSpec => ActiveUnderLease
<1>1. ASSUME ActivationInv, [ActivationNext]_activationVars
      PROVE  [ActiveUnderLeaseStep]_activationVars
  <2>1. CASE ClockTicks
    BY <2>1 DEF ClockTicks, ActiveUnderLeaseStep
  <2> QED
    BY <1>1, <2>1, AttemptStepUnderLease DEF ActivationNext
<1> QED
  BY <1>1, ActivationInvariant, PTL DEF ActivationSpec, ActiveUnderLease

----------------------------------------------------------------------------
(* Histories of attempts.                                                  *)

\* What a write may do to a record: the next revision, this stage or the next
\* one, and no way back for an attempt that is being aborted.
Forward(j, k) ==
    /\ k.rev = j.rev + 1
    /\ k.stage \in {j.stage, j.stage + 1}
    /\ Abandoned(j) => Abandoned(k) /\ k.stage = j.stage

ForwardStep == \A a \in Attempts : journal'[a] = journal[a] \/ Forward(journal[a], journal'[a])

\* One write.
LEMMA WriteForward ==
    ASSUME ActivationInv, NEW a \in Attempts, NEW next,
           journal' = journal \/ journal' = [journal EXCEPT ![a] = next],
           Forward(journal[a], next)
    PROVE  ForwardStep
<1>1. journal = [b \in Attempts |-> journal[b]]
  BY DEF ActivationInv
<1>2. \A b \in Attempts : journal'[b] = journal[b] \/ (b = a /\ journal'[b] = next)
  BY <1>1
<1> QED
  BY <1>2 DEF ForwardStep

\* A coordinator's write: what it was made from has not been abandoned.
LEMMA CoordinatorForward ==
    ASSUME ActivationInv, NEW a \in Attempts, coord[a].pc \in Running, NEW next,
           next.rev = Cur(a).rev + 1,
           journal' = IF Accepts(a, next, FALSE)
                      THEN [journal EXCEPT ![a] = next] ELSE journal
    PROVE  ForwardStep
<1>1. CASE Accepts(a, next, FALSE)
  <2>1. ~Abandoned(journal[a])
    BY <1>1, AcceptedIsCurrent, Working DEF Abandoned
  <2>2. Forward(journal[a], next)
    BY <1>1, <2>1 DEF Accepts, TransitionValid, Forward
  <2> QED
    BY <1>1, <2>2, WriteForward
<1>2. CASE ~Accepts(a, next, FALSE)
  BY <1>2 DEF ForwardStep
<1> QED
  BY <1>1, <1>2

\* The coordinator's writes through the journal, up to the sandbox.
LEMMA AdmissionForward ==
    ASSUME ActivationInv, NEW a \in Attempts,
           \/ AdvancePreflighting(a) \/ (\E expiry \in Expiries : Preflight(a, expiry))
           \/ FreezeSnapshot(a) \/ RecordLease(a) \/ ResolveBudget(a)
    PROVE  ForwardStep
<1>1. Cur(a) \in AttemptRecord
  BY InvFacts
<1>2. coord[a].pc \in {"created", "preflighting", "passed", "reserved", "leased"} =>
         coord[a].pc \in Running
  BY DEF Running, Unleased, Leased
<1>3. CASE AdvancePreflighting(a)
  <2> DEFINE next == [Cur(a) EXCEPT !.stage = Preflighting, !.rev = @ + 1]
  <2>1. /\ coord[a].pc = "created"
        /\ journal' = IF Accepts(a, next, FALSE) THEN [journal EXCEPT ![a] = next] ELSE journal
    BY <1>3 DEF AdvancePreflighting, At, AdvanceActivation
  <2>2. next.rev = Cur(a).rev + 1
    BY <1>1 DEF AttemptRecord
  <2> HIDE DEF next
  <2> QED
    BY <1>2, <2>1, <2>2, CoordinatorForward
<1>4. ASSUME NEW expiry, Preflight(a, expiry) PROVE ForwardStep
  <2> DEFINE next == [Cur(a) EXCEPT !.stage = PreflightPassed, !.rev = @ + 1]
  <2>1. /\ coord[a].pc = "preflighting"
        /\ journal' = IF Accepts(a, next, FALSE) THEN [journal EXCEPT ![a] = next] ELSE journal
    BY <1>4 DEF Preflight, At
  <2>2. next.rev = Cur(a).rev + 1
    BY <1>1 DEF AttemptRecord
  <2> HIDE DEF next
  <2> QED
    BY <1>2, <2>1, <2>2, CoordinatorForward
<1>5. CASE FreezeSnapshot(a)
  <2> DEFINE next == [Cur(a) EXCEPT !.stage = SnapshotFrozen,
                                    !.snapshot = SnapshotExpiry(coord[a]), !.rev = @ + 1]
  <2>1. /\ coord[a].pc = "passed"
        /\ journal' = IF Accepts(a, next, FALSE) THEN [journal EXCEPT ![a] = next] ELSE journal
    BY <1>5 DEF FreezeSnapshot, At, AdvanceActivation
  <2>2. next.rev = Cur(a).rev + 1
    BY <1>1 DEF AttemptRecord
  <2> HIDE DEF next
  <2> QED
    BY <1>2, <2>1, <2>2, CoordinatorForward
<1>6. CASE RecordLease(a)
  <2> DEFINE next == [Cur(a) EXCEPT !.stage = IdentityLeaseReserved,
                                    !.leaseID = Cur(a).expected + 1, !.leaseState = "reserved",
                                    !.leaseRev = coord[a].leaseRev, !.rev = @ + 1]
  <2>1. /\ coord[a].pc = "reserved"
        /\ journal' = IF Accepts(a, next, FALSE) THEN [journal EXCEPT ![a] = next] ELSE journal
    BY <1>6 DEF RecordLease, At, AdvanceActivation
  <2>2. next.rev = Cur(a).rev + 1
    BY <1>1 DEF AttemptRecord
  <2> HIDE DEF next
  <2> QED
    BY <1>2, <2>1, <2>2, CoordinatorForward
<1>7. CASE ResolveBudget(a)
  <2> DEFINE next == [Cur(a) EXCEPT !.stage = BudgetResolved, !.budget = "not_required",
                                    !.rev = @ + 1]
  <2>1. /\ coord[a].pc = "leased"
        /\ journal' = IF Accepts(a, next, FALSE) THEN [journal EXCEPT ![a] = next] ELSE journal
    BY <1>7 DEF ResolveBudget, At, AdvanceActivation
  <2>2. next.rev = Cur(a).rev + 1
    BY <1>1 DEF AttemptRecord
  <2> HIDE DEF next
  <2> QED
    BY <1>2, <2>1, <2>2, CoordinatorForward
<1> QED
  BY <1>3, <1>4, <1>5, <1>6, <1>7

\* And around the sandbox.
LEMMA SandboxForward ==
    ASSUME ActivationInv, NEW a \in Attempts,
           \/ RecordAllocateIntent(a) \/ AllocateFails(a) \/ ConfirmAllocation(a)
           \/ RecordActivateIntent(a) \/ ActivateFails(a) \/ ConfirmActivation(a)
    PROVE  ForwardStep
<1>1. Cur(a) \in AttemptRecord
  BY InvFacts
<1>2. coord[a].pc \in {"budgeted", "allocating", "allocated", "committed", "activating",
                       "activated"} => coord[a].pc \in Running
  BY DEF Running, Leased, Provisioning
<1>3. CASE RecordAllocateIntent(a)
  <2> DEFINE next == [Cur(a) EXCEPT !.reservation = "intent_recorded", !.rev = @ + 1]
  <2>1. /\ coord[a].pc = "budgeted"
        /\ journal' = IF Accepts(a, next, FALSE) THEN [journal EXCEPT ![a] = next] ELSE journal
    BY <1>3 DEF RecordAllocateIntent, At, AdvanceActivation
  <2>2. next.rev = Cur(a).rev + 1
    BY <1>1 DEF AttemptRecord
  <2> HIDE DEF next
  <2> QED
    BY <1>2, <2>1, <2>2, CoordinatorForward
<1>4. CASE AllocateFails(a)
  <2> DEFINE next == [Cur(a) EXCEPT !.recovery = "quarantined",
                                    !.reservation = "unknown_outcome", !.rev = @ + 1]
  <2>1. /\ coord[a].pc = "allocating"
        /\ journal' = IF Accepts(a, next, FALSE) THEN [journal EXCEPT ![a] = next] ELSE journal
    BY <1>4 DEF AllocateFails, At, QuarantineActivation
  <2>2. next.rev = Cur(a).rev + 1
    BY <1>1 DEF AttemptRecord
  <2> HIDE DEF next
  <2> QED
    BY <1>2, <2>1, <2>2, CoordinatorForward
<1>5. CASE ConfirmAllocation(a)
  <2> DEFINE next == [Cur(a) EXCEPT !.stage = SandboxReserved,
                                    !.reservation = "confirmed_applied", !.rev = @ + 1]
  <2>1. /\ coord[a].pc = "allocated"
        /\ journal' = IF Accepts(a, next, FALSE) THEN [journal EXCEPT ![a] = next] ELSE journal
    BY <1>5 DEF ConfirmAllocation, At, AdvanceActivation
  <2>2. next.rev = Cur(a).rev + 1
    BY <1>1 DEF AttemptRecord
  <2> HIDE DEF next
  <2> QED
    BY <1>2, <2>1, <2>2, CoordinatorForward
<1>6. CASE RecordActivateIntent(a)
  <2> DEFINE next == [Cur(a) EXCEPT !.activation = "intent_recorded", !.rev = @ + 1]
  <2>1. /\ coord[a].pc = "committed"
        /\ journal' = IF Accepts(a, next, FALSE) THEN [journal EXCEPT ![a] = next] ELSE journal
    BY <1>6 DEF RecordActivateIntent, At, AdvanceActivation
  <2>2. next.rev = Cur(a).rev + 1
    BY <1>1 DEF AttemptRecord
  <2> HIDE DEF next
  <2> QED
    BY <1>2, <2>1, <2>2, CoordinatorForward
<1>7. CASE ActivateFails(a)
  <2> DEFINE next == [Cur(a) EXCEPT !.recovery = "quarantined",
                                    !.activation = "unknown_outcome", !.rev = @ + 1]
  <2>1. /\ coord[a].pc = "activating"
        /\ journal' = IF Accepts(a, next, FALSE) THEN [journal EXCEPT ![a] = next] ELSE journal
    BY <1>7 DEF ActivateFails, At, QuarantineActivation
  <2>2. next.rev = Cur(a).rev + 1
    BY <1>1 DEF AttemptRecord
  <2> HIDE DEF next
  <2> QED
    BY <1>2, <2>1, <2>2, CoordinatorForward
<1>8. CASE ConfirmActivation(a)
  <2> DEFINE next == [Cur(a) EXCEPT !.stage = SandboxActive,
                                    !.activation = "confirmed_applied", !.rev = @ + 1]
  <2>1. /\ coord[a].pc = "activated"
        /\ journal' = IF Accepts(a, next, FALSE) THEN [journal EXCEPT ![a] = next] ELSE journal
    BY <1>8 DEF ConfirmActivation, At, AdvanceActivation
  <2>2. next.rev = Cur(a).rev + 1
    BY <1>1 DEF AttemptRecord
  <2> HIDE DEF next
  <2> QED
    BY <1>2, <2>1, <2>2, CoordinatorForward
<1> QED
  BY <1>3, <1>4, <1>5, <1>6, <1>7, <1>8

\* The writes that bypass the coordinator's compare-and-swap: creation, the
\* commit and the executor's outcome.
LEMMA OtherForward ==
    ASSUME ActivationInv, NEW a \in Attempts,
           \/ \E expected \in 0..(MaxEpoch - 1), leaseExp \in Expiries :
                 BeginActivate(a, expected, leaseExp)
           \/ CommitActivation(a) \/ PersistOutcome(a)
    PROVE  ForwardStep
<1>1. journal[a] \in AttemptRecord /\ now \in Nat
  BY InvFacts
<1>2. ASSUME NEW expected, NEW leaseExp, BeginActivate(a, expected, leaseExp)
      PROVE  ForwardStep
  <2>1. /\ coord[a].pc = "idle"
        /\ journal' = [journal EXCEPT ![a] = NewAttempt(expected, 1)]
    BY <1>2 DEF BeginActivate, At
  <2>2. coord[a] # Dead /\ coord[a].pc \notin Running
    BY <2>1, DeadFacts DEF Running, Unleased, Leased, Provisioning, Serving, Closing
  <2>3. journal[a] = NoAttempt
    BY <2>2, InvFacts DEF CoordGood
  <2>4. Forward(NoAttempt, NewAttempt(expected, 1))
    BY DEF Forward, NoAttempt, NewAttempt, Abandoned, Proposed
  <2> QED
    BY <2>1, <2>3, <2>4, WriteForward
<1>3. CASE CommitActivation(a)
  <2>1. CASE CommitAllowed(a, coord[a].t)
    <3>1. journal' = [journal EXCEPT ![a] = CommittedAttempt(a)]
      BY <1>3, <2>1 DEF CommitActivation
    <3>2. /\ journal[a].recovery = "normal"
          /\ TransitionValid(journal[a], CommittedAttempt(a), FALSE, coord[a].t)
      BY <2>1 DEF CommitAllowed, CommitReady
    <3>3. Forward(journal[a], CommittedAttempt(a))
      BY <3>2 DEF TransitionValid, Forward, Abandoned
    <3> QED
      BY <3>1, <3>3, WriteForward
  <2>2. CASE ~CommitAllowed(a, coord[a].t)
    BY <1>3, <2>2 DEF CommitActivation, ForwardStep
  <2> QED
    BY <2>1, <2>2
<1>4. CASE PersistOutcome(a)
  <2> DEFINE next == plan[a].next
             u == next.recovery = "normal"
  <2>1. /\ plan[a].step = "persist"
        /\ journal' = IF Accepts(a, next, u) THEN [journal EXCEPT ![a] = next] ELSE journal
    BY <1>4 DEF PersistOutcome
  <2>2. CASE Accepts(a, next, u)
    <3>1. /\ next \in AttemptRecord /\ TransitionValid(journal[a], next, u, now)
          /\ next.stage = journal[a].stage /\ next.recovery # "quarantined"
      BY <2>1, <2>2, PersistedFacts DEF OutcomeGood
    <3> HIDE DEF u
    <3>2. next.rev = journal[a].rev + 1 /\ (Abandoned(journal[a]) => Abandoned(next))
      BY <1>1, <3>1, TransitionFacts
    <3>3. Forward(journal[a], next)
      BY <3>1, <3>2 DEF Forward
    <3> QED
      BY <2>1, <2>2, <3>3, WriteForward
  <2>3. CASE ~Accepts(a, next, u)
    BY <2>1, <2>3 DEF ForwardStep
  <2> QED
    BY <2>2, <2>3
<1> QED
  BY <1>2, <1>3, <1>4

\* The record of an attempt only ever moves forward, one revision at a time,
\* whoever writes it; an attempt whose abort has begun is never committed,
\* even by a coordinator that is still alive (ValidateTransition, and the
\* revision that every writer must have read).
THEOREM AttemptsMoveForward == ActivationSpec => [][ForwardStep]_activationVars
<1>1. ASSUME ActivationInv, NEW a \in Attempts,
             Activating(a) \/ Stopping(a) \/ Recovering(a) \/ Environment(a)
      PROVE  ForwardStep
  <2>1. CASE journal' = journal
    BY <2>1 DEF ForwardStep
  <2>2. CASE Activating(a)
    BY <1>1, <2>1, <2>2, QuietActivating, AdmissionForward, SandboxForward, OtherForward
       DEF Activating
  <2>3. CASE PersistOutcome(a)
    BY <1>1, <2>3, OtherForward
  <2> QED
    BY <1>1, <2>1, <2>2, <2>3, QuietJournal
<1>2. ASSUME ActivationInv, [ActivationNext]_activationVars
      PROVE  [ForwardStep]_activationVars
  <2>1. CASE ClockTicks
    BY <2>1 DEF ClockTicks, ForwardStep
  <2> QED
    BY <1>1, <1>2, <2>1 DEF ActivationNext
<1> QED
  BY <1>2, ActivationInvariant, PTL DEF ActivationSpec

----------------------------------------------------------------------------
(* What the lease store promises, under activation.                        *)

\* However attempts, coordinators, executors and supervisors interleave, the
\* identity has at most one holder, the latest lease; a lease that has ended
\* authorizes nobody again; and a revision names one content of a lease.
THEOREM IdentityHeldOnce ==
    ActivationSpec => []SingleHolder /\ EndedForever /\ RevisionNamesContent
<1>1. ActivationSpec => LeaseSpec
  BY LeaseStoreImplemented DEF ImplementsLeaseStore, LeaseSpec
<1> QED
  BY <1>1, LeaseSafety, LeaseEndedForever, LeaseRevisionNamesContent, PTL

----------------------------------------------------------------------------
(* The planner and the journal agree on the abort path.                    *)

\* The record that carries out a decision on an aborting attempt; lease is
\* what the executor has learnt of the lease.
CarriedOut(at, decision, lease) ==
    CASE decision = "fence_sandbox"   -> [at EXCEPT !.fenced = TRUE, !.rev = @ + 1]
      [] decision = "release_sandbox" -> [at EXCEPT !.reservation = "released", !.rev = @ + 1]
      [] decision \in {"revoke_identity_lease", "release_identity_lease"} ->
            [at EXCEPT !.leaseState = lease.state, !.leaseRev = lease.rev, !.rev = @ + 1]
      [] decision = "mark_aborted"    -> [at EXCEPT !.recovery = "aborted", !.rev = @ + 1]

\* A record of an attempt that is being aborted, as its revision changes.
LEMMA AbortingRecord ==
    ASSUME NEW at \in AttemptRecord, AttemptValid(at), at.recovery = "aborting",
           NEW next \in AttemptRecord,
           next.expected = at.expected, next.stage = at.stage, next.snapshot = at.snapshot,
           next.leaseID = at.leaseID, next.budget = at.budget,
           next.activation = at.activation, next.bound = at.bound, next.rev = at.rev + 1,
           next.recovery \in {"aborting", "aborted"},
           next.reservation \in {at.reservation, "released"},
           at.leaseID # 0 => next.leaseState # "absent" /\ next.leaseRev # 0,
           at.leaseID = 0 => next.leaseState = at.leaseState /\ next.leaseRev = at.leaseRev,
           NEW t \in Nat
    PROVE  TransitionValid(at, next, FALSE, t) <=>
              (next.recovery = "aborted" => ActivationObligationsSettled(next))
<1>1. at.stage \in 0..8 /\ at.stage < 7 /\ at.rev \in Nat /\ ~HasUnknownOperation(at)
  BY AttemptFields DEF AttemptValid, Committed
<1>2. ~HasUnknownOperation(next)
  BY <1>1 DEF HasUnknownOperation
<1>3. /\ next.rev > 0
      /\ next.stage < Committed => ~next.bound
      /\ next.stage >= SnapshotFrozen <=> next.snapshot # 0
  BY <1>1 DEF AttemptValid
<1>4. /\ next.stage >= IdentityLeaseReserved
            <=> next.leaseID # 0 /\ next.leaseRev # 0 /\ next.leaseState # "absent"
      /\ next.stage < IdentityLeaseReserved
            => next.leaseID = 0 /\ next.leaseRev = 0 /\ next.leaseState = "absent"
  BY <1>1 DEF AttemptValid, IdentityLeaseReserved
<1>5. /\ next.stage >= BudgetResolved
            => next.budget \in {"not_required", "confirmed_applied", "released"}
      /\ next.stage >= SandboxReserved => next.reservation \in {"confirmed_applied", "released"}
      /\ next.stage < Committed /\ ~(next.stage >= Committed) /\ next.stage # SandboxActive
  BY <1>1 DEF AttemptValid, Committed, SandboxActive
<1>6. AttemptValid(next) <=> (next.recovery = "aborted" => ActivationObligationsSettled(next))
  BY <1>2, <1>3, <1>4, <1>5 DEF AttemptValid
<1> QED
  BY <1>1, <1>6 DEF TransitionValid

\* What a decision on the abort path writes.
LEMMA CarriedOutRecord ==
    ASSUME NEW at \in AttemptRecord, AttemptValid(at), at.recovery = "aborting",
           NEW lease \in LeaseRecord, lease.state # "absent", lease.rev # 0,
           AbortDecision(at) # "release_budget", NEW t \in Nat
    PROVE  LET next == CarriedOut(at, AbortDecision(at), lease)
           IN  TransitionValid(at, next, FALSE, t) <=>
                  (next.recovery = "aborted" => ActivationObligationsSettled(next))
<1> DEFINE next == CarriedOut(at, AbortDecision(at), lease)
<1>1. /\ at.rev \in Nat /\ at.rev + 1 \in Nat /\ lease.state \in LeaseStates \cup {"absent"}
      /\ lease.rev \in Nat
  BY AttemptFields, LeaseFields
<1>2. AbortDecision(at) \in {"fence_sandbox", "release_sandbox", "revoke_identity_lease",
                            "release_identity_lease", "mark_aborted"}
  BY DEF AbortDecision
<1>3. at.leaseID # 0 => at.leaseState # "absent" /\ at.leaseRev # 0
  <2>1. at.stage \in Nat
    BY AttemptFields
  <2> QED
    BY <2>1 DEF AttemptValid, IdentityLeaseReserved
<1>4. CASE AbortDecision(at) = "fence_sandbox"
  <2> DEFINE n == [at EXCEPT !.fenced = TRUE, !.rev = @ + 1]
  <2>1. next = n
    BY <1>4 DEF CarriedOut
  <2>2. n \in AttemptRecord
    BY <1>1, Zenon DEF AttemptRecord
  <2>3. /\ n.expected = at.expected /\ n.stage = at.stage /\ n.snapshot = at.snapshot
        /\ n.leaseID = at.leaseID /\ n.leaseState = at.leaseState /\ n.leaseRev = at.leaseRev
        /\ n.budget = at.budget /\ n.reservation = at.reservation
        /\ n.activation = at.activation /\ n.bound = at.bound /\ n.recovery = at.recovery
        /\ n.rev = at.rev + 1
    BY DEF AttemptRecord
  <2> HIDE DEF n, next
  <2> QED
    BY <1>3, <2>1, <2>2, <2>3, AbortingRecord DEF next
<1>5. CASE AbortDecision(at) = "release_sandbox"
  <2> DEFINE n == [at EXCEPT !.reservation = "released", !.rev = @ + 1]
  <2>1. next = n
    BY <1>5 DEF CarriedOut
  <2>2. n \in AttemptRecord
    BY <1>1, FieldValues, Zenon DEF AttemptRecord
  <2>3. /\ n.expected = at.expected /\ n.stage = at.stage /\ n.snapshot = at.snapshot
        /\ n.leaseID = at.leaseID /\ n.leaseState = at.leaseState /\ n.leaseRev = at.leaseRev
        /\ n.budget = at.budget /\ n.reservation = "released"
        /\ n.activation = at.activation /\ n.bound = at.bound /\ n.recovery = at.recovery
        /\ n.rev = at.rev + 1
    BY DEF AttemptRecord
  <2> HIDE DEF n, next
  <2> QED
    BY <1>3, <2>1, <2>2, <2>3, AbortingRecord DEF next
<1>6. CASE AbortDecision(at) \in {"revoke_identity_lease", "release_identity_lease"}
  <2> DEFINE n == [at EXCEPT !.leaseState = lease.state, !.leaseRev = lease.rev, !.rev = @ + 1]
  <2>1. next = n
    BY <1>6 DEF CarriedOut
  <2>2. n \in AttemptRecord
    BY <1>1, Zenon DEF AttemptRecord
  <2>3. /\ n.expected = at.expected /\ n.stage = at.stage /\ n.snapshot = at.snapshot
        /\ n.leaseID = at.leaseID /\ n.leaseState = lease.state /\ n.leaseRev = lease.rev
        /\ n.budget = at.budget /\ n.reservation = at.reservation
        /\ n.activation = at.activation /\ n.bound = at.bound /\ n.recovery = at.recovery
        /\ n.rev = at.rev + 1
    BY DEF AttemptRecord
  <2>4. at.leaseID # 0
    <3>1. at.leaseState # "absent"
      BY <1>6 DEF AbortDecision
    <3> QED
      BY <3>1, ValidFacts
  <2> HIDE DEF n, next
  <2> QED
    BY <2>1, <2>2, <2>3, <2>4, AbortingRecord DEF next
<1>7. CASE AbortDecision(at) = "mark_aborted"
  <2> DEFINE n == [at EXCEPT !.recovery = "aborted", !.rev = @ + 1]
  <2>1. next = n
    BY <1>7 DEF CarriedOut
  <2>2. n \in AttemptRecord
    BY <1>1, Zenon DEF AttemptRecord
  <2>3. /\ n.expected = at.expected /\ n.stage = at.stage /\ n.snapshot = at.snapshot
        /\ n.leaseID = at.leaseID /\ n.leaseState = at.leaseState /\ n.leaseRev = at.leaseRev
        /\ n.budget = at.budget /\ n.reservation = at.reservation
        /\ n.activation = at.activation /\ n.bound = at.bound /\ n.recovery = "aborted"
        /\ n.rev = at.rev + 1
    BY DEF AttemptRecord
  <2> HIDE DEF n, next
  <2> QED
    BY <1>3, <2>1, <2>2, <2>3, AbortingRecord DEF next
<1> QED
  BY <1>2, <1>4, <1>5, <1>6, <1>7

\* The planner never leads an abort into a write that the journal refuses,
\* with one exception: when it answers mark_aborted, the journal takes the
\* record exactly if no budget operation is in flight, since abortDecision
\* looks only for a budget that is applied while Validate asks for one that is
\* settled.  No coordinator writes a budget intent.
THEOREM AbortPathIsAccepted ==
    ASSUME NEW at \in AttemptRecord, AttemptValid(at), at.recovery = "aborting",
           NEW lease \in LeaseRecord, lease.state # "absent", lease.rev # 0,
           AbortDecision(at) # "release_budget", NEW t \in Nat
    PROVE  TransitionValid(at, CarriedOut(at, AbortDecision(at), lease), FALSE, t) <=>
              ~(AbortDecision(at) = "mark_aborted" /\ at.budget = "intent_recorded")
<1> DEFINE d == AbortDecision(at)
           next == CarriedOut(at, d, lease)
<1>1. TransitionValid(at, next, FALSE, t) <=>
         (next.recovery = "aborted" => ActivationObligationsSettled(next))
  BY CarriedOutRecord
<1>2. CASE d = "mark_aborted"
  <2>1. /\ next.recovery = "aborted" /\ next.budget = at.budget
        /\ next.reservation = at.reservation /\ next.leaseID = at.leaseID
        /\ next.leaseState = at.leaseState
    BY <1>2 DEF CarriedOut, AttemptRecord
  <2>2. /\ at.reservation \in SettledStates /\ at.budget # "confirmed_applied"
        /\ at.leaseState \notin {"reserved", "active", "revoked", "expired"}
    BY <1>2 DEF AbortDecision
  <2>3. at.leaseID = 0 \/ at.leaseState = "released"
    <3>1. at.stage \in Nat /\ at.leaseState \in LeaseStates \cup {"absent"}
      BY AttemptFields
    <3>2. at.leaseID = 0 \/ at.leaseState # "absent"
      BY <3>1 DEF AttemptValid, IdentityLeaseReserved
    <3> QED
      BY <2>2, <3>1, <3>2 DEF LeaseStates
  <2>4. at.budget \in OperationStates /\ at.budget # "unknown_outcome"
    BY DEF AttemptRecord, AttemptValid, HasUnknownOperation
  <2>5. at.budget \in SettledStates <=> at.budget # "intent_recorded"
    BY <2>2, <2>4 DEF OperationStates, SettledStates
  <2> HIDE DEF next
  <2> QED
    BY <1>1, <1>2, <2>1, <2>2, <2>3, <2>5 DEF ActivationObligationsSettled, next
<1>3. CASE d # "mark_aborted"
  <2>1. d \in {"fence_sandbox", "release_sandbox", "revoke_identity_lease",
               "release_identity_lease"}
    BY <1>3 DEF AbortDecision
  <2>2. next.recovery = "aborting"
    BY <2>1 DEF CarriedOut, AttemptRecord
  <2> HIDE DEF next, d
  <2> QED
    BY <1>1, <1>3, <2>2 DEF next, d
<1> QED
  BY <1>2, <1>3

============================================================================
