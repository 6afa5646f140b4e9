--------------------------- MODULE IdentityLease ---------------------------
(***************************************************************************)
(* The identity execution lease store of one agent identity               *)
(* (runtime/control/identity_lease.go, runtime/fakes/fact_store.go).       *)
(*                                                                         *)
(* A lease is named by the identity epoch it reserved, so leases is a      *)
(* function of epochs: the store keeps every lease reachable by its ID,    *)
(* and the identity's own entry is the lease of the latest epoch.          *)
(*                                                                         *)
(* A store operation is atomic (the store's mutex), but Reserve and the    *)
(* commit read the clock BEFORE they take the mutex: they work with a      *)
(* reading t that may lag behind now.  Every operation first expires the   *)
(* lease it looks at, and that write stays even when the operation is then *)
(* refused.                                                                *)
(***************************************************************************)
EXTENDS Naturals

CONSTANTS Attempts,    \* activation attempt IDs that ask for the identity
          MaxEpoch,    \* bound: identity epochs that are ever proposed
          MaxTime,     \* bound: last value of the clock
          MaxRevision  \* bound: no renewal beyond this lease revision

ASSUME LeaseAssumption ==
    /\ MaxEpoch \in Nat \ {0}
    /\ MaxTime \in Nat
    /\ MaxRevision \in Nat
    /\ "none" \notin Attempts

VARIABLES leases,  \* [Epochs -> lease record]
          epoch,   \* epoch of the identity's latest lease, 0 before the first
          now      \* the clock

leaseVars == <<leases, epoch, now>>

Epochs == 1..MaxEpoch
Expiries == 1..(MaxTime + 1)

LeaseStates == {"reserved", "active", "revoked", "expired", "released"}

\* A lease that was not reserved yet has the state "absent".
LeaseRecord == [state   : LeaseStates \cup {"absent"},
                attempt : Attempts \cup {"none"},
                exp     : Expiries \cup {0},
                rev     : Nat]

AbsentLease == [state |-> "absent", attempt |-> "none", exp |-> 0, rev |-> 0]

\* Reserved or active: the identity has a holder.
Held(l) == l.state \in {"reserved", "active"}
Ended(l) == l.state \in {"revoked", "expired", "released"}

----------------------------------------------------------------------------
(* What each operation does to one lease record.                           *)

\* Every write of a lease is its next revision.
NextRevision(l, state, exp) ==
    [state |-> state, attempt |-> l.attempt, exp |-> exp, rev |-> l.rev + 1]

\* Faulty variant.
ExpireNoRevision(l, t) ==
    IF Held(l) /\ t >= l.exp THEN [l EXCEPT !.state = "expired"] ELSE l

\* expireLeaseIfNeeded
Expire(l, t) ==
    IF Held(l) /\ t >= l.exp
    THEN NextRevision(l, "expired", l.exp)
    ELSE l

(* mutateLease: expire, compare the revision, check, write the next revision. *)

\* Faulty variant.
RenewedBy(l, rev, expiry, t) ==
    LET c == Expire(l, t)
    IN  IF c.rev = rev /\ c.state = "active" /\ expiry > t
        THEN NextRevision(c, "active", c.exp + expiry)
        ELSE c

\* RenewIdentityLease
Renewed(l, rev, expiry, t) ==
    LET c == Expire(l, t)
    IN  IF c.rev = rev /\ c.state = "active" /\ expiry > t
        THEN NextRevision(c, "active", expiry)
        ELSE c

\* Faulty variant.
RevokedUnguarded(l, rev, t) ==
    LET c == Expire(l, t)
    IN  IF c.rev = rev THEN NextRevision(c, "revoked", c.exp) ELSE c

\* RevokeIdentityLease
Revoked(l, rev, t) ==
    LET c == Expire(l, t)
    IN  IF c.rev = rev /\ Held(c)
        THEN NextRevision(c, "revoked", c.exp)
        ELSE c

\* ReleaseIdentityLease
Released(l, rev, t) ==
    LET c == Expire(l, t)
    IN  IF c.rev = rev /\ c.state \in {"reserved", "revoked", "expired"}
        THEN NextRevision(c, "released", c.exp)
        ELSE c

\* The lease part of CommitActivation: only a reserved lease of this attempt
\* whose revision the attempt has seen becomes active.
Activatable(l, a, rev, t) ==
    LET current == Expire(l, t)
    IN  /\ current.rev = rev
        /\ current.state = "reserved"
        /\ current.attempt = a

Activated(l, a, rev, t) ==
    IF Activatable(l, a, rev, t)
    THEN NextRevision(l, "active", l.exp)
    ELSE Expire(l, t)

----------------------------------------------------------------------------
(* Reservation, which works on the identity's latest lease.                *)

CurrentLease(t) == IF epoch = 0 THEN AbsentLease ELSE Expire(leases[epoch], t)

\* The same attempt asks again while its reservation stands.
ReserveReplays(a, expected, t) ==
    /\ CurrentLease(t).state = "reserved"
    /\ CurrentLease(t).attempt = a
    /\ expected + 1 = epoch

\* Faulty variant.
ReserveAdmitsHeld(a, expected, t) ==
    /\ ~ReserveReplays(a, expected, t)
    /\ expected = epoch

ReserveAdmits(a, expected, t) ==
    /\ ~Held(CurrentLease(t))
    /\ expected = epoch

TouchedLeases(t) ==
    IF epoch = 0 THEN leases ELSE [leases EXCEPT ![epoch] = Expire(@, t)]

NewLease(a, expiry) ==
    [state |-> "reserved", attempt |-> a, exp |-> expiry, rev |-> 1]

ReserveIdentityLease(a, expected, expiry, t) ==
    /\ expiry > t
    /\ IF ReserveAdmits(a, expected, t)
       THEN /\ epoch' = expected + 1
            /\ leases' = [TouchedLeases(t) EXCEPT
                            ![expected + 1] = NewLease(a, expiry)]
       ELSE /\ epoch' = epoch
            /\ leases' = TouchedLeases(t)

RenewIdentityLease(e, rev, expiry, t) ==
    /\ leases' = [leases EXCEPT ![e] = Renewed(@, rev, expiry, t)]
    /\ epoch' = epoch

RevokeIdentityLease(e, rev, t) ==
    /\ leases' = [leases EXCEPT ![e] = Revoked(@, rev, t)]
    /\ epoch' = epoch

ReleaseIdentityLease(e, rev, t) ==
    /\ leases' = [leases EXCEPT ![e] = Released(@, rev, t)]
    /\ epoch' = epoch

\* InspectIdentityLease returns the latest lease of the identity.
InspectIdentityLease(t) ==
    /\ leases' = TouchedLeases(t)
    /\ epoch' = epoch

ActivateIdentityLease(e, a, rev, t) ==
    /\ leases' = [leases EXCEPT ![e] = Activated(@, a, rev, t)]
    /\ epoch' = epoch

----------------------------------------------------------------------------
LeaseInit ==
    /\ leases = [e \in Epochs |-> AbsentLease]
    /\ epoch = 0
    /\ now = 0

Tick ==
    /\ now < MaxTime
    /\ now' = now + 1
    /\ UNCHANGED <<leases, epoch>>

Reserve ==
    /\ \E a \in Attempts, expected \in 0..(MaxEpoch - 1), expiry \in Expiries,
          t \in 0..now : ReserveIdentityLease(a, expected, expiry, t)
    /\ now' = now

\* Operations by lease ID; a caller may hold any revision it once read.
Renew ==
    /\ \E e \in Epochs, rev \in 1..MaxRevision, expiry \in Expiries :
          /\ leases[e].state # "absent"
          /\ RenewIdentityLease(e, rev, expiry, now)
    /\ now' = now

Revoke ==
    /\ \E e \in Epochs :
          /\ leases[e].state # "absent"
          /\ \E rev \in 1..leases[e].rev : RevokeIdentityLease(e, rev, now)
    /\ now' = now

Release ==
    /\ \E e \in Epochs :
          /\ leases[e].state # "absent"
          /\ \E rev \in 1..(leases[e].rev + 1) : ReleaseIdentityLease(e, rev, now)
    /\ now' = now

Inspect ==
    /\ epoch # 0
    /\ InspectIdentityLease(now)
    /\ now' = now

Activate ==
    /\ \E e \in Epochs, a \in Attempts, t \in 0..now :
          /\ leases[e].state # "absent"
          /\ \E rev \in 1..leases[e].rev : ActivateIdentityLease(e, a, rev, t)
    /\ now' = now

LeaseNext == Tick \/ Reserve \/ Renew \/ Revoke \/ Release \/ Inspect \/ Activate

LeaseSpec == LeaseInit /\ [][LeaseNext]_leaseVars

----------------------------------------------------------------------------
(* Properties.                                                             *)

\* Types; a lease expires within the bound that requests ask for.
LeaseTypeOK ==
    /\ leases \in [Epochs -> LeaseRecord]
    /\ epoch \in 0..MaxEpoch
    /\ now \in Nat

\* Exactly the epochs up to the current one have been reserved.
EpochsInOrder ==
    \A e \in Epochs :
        IF e > epoch THEN leases[e] = AbsentLease ELSE leases[e].state # "absent"

\* At most one lease of the identity is reserved or active, whatever stale
\* revisions, lagging clock readings and late calls on old lease IDs the
\* callers bring, and it is the lease of the latest epoch
\* (ReserveIdentityLease, mutateLease).
SingleHolder ==
    \A e \in Epochs : Held(leases[e]) => e = epoch

\* A lease that was revoked, has expired or was released never authorizes
\* again; a released one is final; the attempt a lease was reserved for never
\* changes (mutateLease and the commit, which never rewrite the holder).
EndedForeverStep ==
    \A e \in Epochs :
        /\ Ended(leases[e]) => Ended(leases'[e])
        /\ leases[e].state = "released" => leases'[e] = leases[e]
        /\ leases[e].state # "absent" => leases'[e].attempt = leases[e].attempt
EndedForever == [][EndedForeverStep]_leaseVars

\* A revision names one content of a lease: no operation, a lazily applied
\* expiry included, changes a lease without raising its revision, so that a
\* caller's ExpectedRevision really excludes every change it has not seen
\* (expireLeaseIfNeeded, mutateLease).
RevisionNamesContentStep ==
    \A e \in Epochs :
        leases'[e] # leases[e] => leases'[e].rev > leases[e].rev
RevisionNamesContent == [][RevisionNamesContentStep]_leaseVars

============================================================================
