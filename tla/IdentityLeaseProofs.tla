------------------------ MODULE IdentityLeaseProofs ------------------------
(***************************************************************************)
(* The safety of the identity lease store, for every set of attempts, every *)
(* bound and every interleaving of its callers.                            *)
(***************************************************************************)
EXTENDS IdentityLease, TLAPS

\* SingleHolder alone is not inductive: that a new lease is written to a fresh
\* epoch, and never over a lease that still stands, needs EpochsInOrder.
LeaseInv == LeaseTypeOK /\ EpochsInOrder /\ SingleHolder

\* The order two contents of one lease record may follow each other in: what
\* every operation of the store does to a lease.
Follows(l, m) ==
    /\ m \in LeaseRecord
    /\ m.state = "absent" <=> l.state = "absent"
    /\ Held(m) => Held(l)
    /\ Ended(l) => Ended(m)
    /\ l.state \in {"absent", "released"} => m = l
    /\ m.attempt = l.attempt
    /\ m # l => m.rev > l.rev

----------------------------------------------------------------------------
(* Every operation on one record keeps that order.                         *)

\* A lazily applied expiry (expireLeaseIfNeeded) ends a held lease, under a
\* new revision, and touches no other lease.
LEMMA ExpireFollows ==
    ASSUME NEW l \in LeaseRecord, NEW t \in Nat
    PROVE  Follows(l, Expire(l, t))
  BY DEF Follows, Expire, NextRevision, Held, Ended, LeaseRecord, LeaseStates

\* Renewal moves only the expiry of an active lease (RenewIdentityLease).
LEMMA RenewedFollows ==
    ASSUME NEW l \in LeaseRecord, NEW rev \in Nat, NEW expiry \in Expiries,
           NEW t \in Nat
    PROVE  Follows(l, Renewed(l, rev, expiry, t))
<1>1. Follows(l, Expire(l, t))
  BY ExpireFollows
<1>2. Expire(l, t).rev \in Nat
  BY <1>1 DEF Follows, LeaseRecord
<1> QED
  BY <1>1, <1>2 DEF Renewed, NextRevision, Follows, Held, Ended, LeaseRecord, LeaseStates

\* Revocation ends a held lease (RevokeIdentityLease).
LEMMA RevokedFollows ==
    ASSUME NEW l \in LeaseRecord, NEW rev \in Nat, NEW t \in Nat
    PROVE  Follows(l, Revoked(l, rev, t))
<1>1. Follows(l, Expire(l, t))
  BY ExpireFollows
<1> QED
  BY <1>1 DEF Revoked, NextRevision, Follows, Held, Ended, LeaseRecord, LeaseStates

\* Release ends a lease that no longer executes (ReleaseIdentityLease).
LEMMA ReleasedFollows ==
    ASSUME NEW l \in LeaseRecord, NEW rev \in Nat, NEW t \in Nat
    PROVE  Follows(l, Released(l, rev, t))
<1>1. Follows(l, Expire(l, t))
  BY ExpireFollows
<1> QED
  BY <1>1 DEF Released, NextRevision, Follows, Held, Ended, LeaseRecord, LeaseStates

\* The commit activates only a lease that is held already (CommitActivation).
LEMMA ActivatedFollows ==
    ASSUME NEW l \in LeaseRecord, NEW a \in Attempts, NEW rev \in Nat,
           NEW t \in Nat
    PROVE  Follows(l, Activated(l, a, rev, t))
<1>1. Follows(l, Expire(l, t))
  BY ExpireFollows
<1> QED
  BY <1>1 DEF Activated, Activatable, Expire, NextRevision, Follows, Held,
              Ended, LeaseRecord, LeaseStates

----------------------------------------------------------------------------
(* Two shapes of store step: one lease follows itself, or the next epoch's *)
(* lease is created while no lease is held.                                *)

FollowStep ==
    /\ epoch' = epoch
    /\ now' = now
    /\ \E e \in Epochs, m \in LeaseRecord :
          Follows(leases[e], m) /\ leases' = [leases EXCEPT ![e] = m]

CreateStep ==
    /\ now' = now
    /\ epoch + 1 \in Epochs
    /\ epoch' = epoch + 1
    /\ \E a \in Attempts, expiry \in Expiries, t \in Nat :
          /\ ~Held(CurrentLease(t))
          /\ leases' = [TouchedLeases(t) EXCEPT
                          ![epoch + 1] = NewLease(a, expiry)]

\* A step of the lease store advances the clock, leaves the leases alone, or
\* has one of the two shapes.
LEMMA StepShape ==
    ASSUME LeaseInv, LeaseNext
    PROVE  \/ now' \in Nat /\ UNCHANGED <<leases, epoch>>
           \/ FollowStep
           \/ CreateStep
<1> USE LeaseAssumption
<1>1. \A e \in Epochs : leases[e] \in LeaseRecord /\ leases[e].rev \in Nat
  BY DEF LeaseInv, LeaseTypeOK, LeaseRecord
<1>2. now \in Nat /\ epoch \in Nat /\ Epochs \subseteq Nat /\ Expiries \subseteq Nat
  BY DEF LeaseInv, LeaseTypeOK, Epochs, Expiries
<1>3. \A t \in Nat : epoch # 0 =>
         /\ epoch \in Epochs
         /\ Follows(leases[epoch], Expire(leases[epoch], t))
         /\ Expire(leases[epoch], t) \in LeaseRecord
  BY <1>1, <1>2, ExpireFollows DEF LeaseInv, LeaseTypeOK, Epochs, Follows
<1>4. CASE Tick
  BY <1>4, <1>2 DEF Tick
<1>5. CASE Reserve
  <2>1. PICK a \in Attempts, expected \in 0..(MaxEpoch - 1),
             expiry \in Expiries, t \in 0..now :
               ReserveIdentityLease(a, expected, expiry, t)
    BY <1>5 DEF Reserve
  <2>2. t \in Nat /\ expiry \in Expiries
    BY <1>2
  <2>3. CASE ReserveAdmits(a, expected, t)
    <3>1. expected = epoch /\ ~Held(CurrentLease(t))
      BY <2>3 DEF ReserveAdmits
    <3>2. epoch + 1 \in Epochs
      BY <3>1 DEF Epochs
    <3>3. epoch' = epoch + 1
          /\ leases' = [TouchedLeases(t) EXCEPT ![epoch + 1] = NewLease(a, expiry)]
      BY <2>1, <2>3, <3>1 DEF ReserveIdentityLease
    <3> QED
      BY <1>5, <2>2, <3>1, <3>2, <3>3 DEF CreateStep, Reserve
  <2>4. CASE ~ReserveAdmits(a, expected, t) /\ epoch # 0
    <3>1. epoch' = epoch /\ leases' = [leases EXCEPT ![epoch] = Expire(leases[epoch], t)]
      BY <2>1, <2>4 DEF ReserveIdentityLease, TouchedLeases
    <3> QED
      BY <1>3, <1>5, <2>2, <2>4, <3>1 DEF FollowStep, Reserve
  <2>5. CASE ~ReserveAdmits(a, expected, t) /\ epoch = 0
    BY <1>2, <1>5, <2>1, <2>5 DEF ReserveIdentityLease, TouchedLeases, Reserve
  <2> QED
    BY <2>3, <2>4, <2>5
<1>6. CASE Renew
  <2>1. PICK e \in Epochs, rev \in 1..MaxRevision, expiry \in Expiries :
               RenewIdentityLease(e, rev, expiry, now)
    BY <1>6 DEF Renew
  <2>2. Follows(leases[e], Renewed(leases[e], rev, expiry, now))
    BY <1>1, <1>2, RenewedFollows
  <2> QED
    BY <1>6, <2>1, <2>2 DEF FollowStep, Renew, RenewIdentityLease, Follows
<1>7. CASE Revoke
  <2>1. PICK e \in Epochs : \E rev \in 1..leases[e].rev :
               RevokeIdentityLease(e, rev, now)
    BY <1>7 DEF Revoke
  <2>2. PICK rev \in Nat : RevokeIdentityLease(e, rev, now)
    BY <1>1, <2>1
  <2>3. Follows(leases[e], Revoked(leases[e], rev, now))
    BY <1>1, <1>2, RevokedFollows
  <2> QED
    BY <1>7, <2>2, <2>3 DEF FollowStep, Revoke, RevokeIdentityLease, Follows
<1>8. CASE Release
  <2>1. PICK e \in Epochs : \E rev \in 1..(leases[e].rev + 1) :
               ReleaseIdentityLease(e, rev, now)
    BY <1>8 DEF Release
  <2>2. PICK rev \in Nat : ReleaseIdentityLease(e, rev, now)
    BY <1>1, <2>1
  <2>3. Follows(leases[e], Released(leases[e], rev, now))
    BY <1>1, <1>2, ReleasedFollows
  <2> QED
    BY <1>8, <2>2, <2>3 DEF FollowStep, Release, ReleaseIdentityLease, Follows
<1>9. CASE Inspect
  <2>1. leases' = [leases EXCEPT ![epoch] = Expire(leases[epoch], now)]
        /\ epoch' = epoch /\ epoch # 0 /\ now' = now
    BY <1>9 DEF Inspect, InspectIdentityLease, TouchedLeases
  <2> QED
    BY <1>2, <1>3, <2>1 DEF FollowStep
<1>10. CASE Activate
  <2>1. PICK e \in Epochs, a \in Attempts, t \in 0..now :
               \E rev \in 1..leases[e].rev : ActivateIdentityLease(e, a, rev, t)
    BY <1>10 DEF Activate
  <2>2. PICK rev \in Nat : ActivateIdentityLease(e, a, rev, t)
    BY <1>1, <2>1
  <2>3. Follows(leases[e], Activated(leases[e], a, rev, t))
    BY <1>1, <1>2, ActivatedFollows
  <2> QED
    BY <1>10, <2>2, <2>3 DEF FollowStep, Activate, ActivateIdentityLease, Follows
<1> QED
  BY <1>4, <1>5, <1>6, <1>7, <1>8, <1>9, <1>10 DEF LeaseNext

\* What one step does to every single lease: it follows itself, or it is the
\* fresh lease of the next epoch, and then the previous one is held no more.
LEMMA LeaseStep ==
    ASSUME LeaseInv, [LeaseNext]_leaseVars
    PROVE  /\ now' \in Nat
           /\ leases' \in [Epochs -> LeaseRecord]
           /\ \/ /\ epoch' = epoch
                 /\ \A e \in Epochs : Follows(leases[e], leases'[e])
              \/ /\ epoch' = epoch + 1 /\ epoch + 1 \in Epochs
                 /\ leases'[epoch + 1].state = "reserved"
                 /\ leases'[epoch + 1].rev = 1
                 /\ leases'[epoch + 1].attempt \in Attempts
                 /\ \A e \in Epochs : e # epoch + 1 => Follows(leases[e], leases'[e])
                 /\ epoch # 0 => ~Held(leases'[epoch])
<1> USE LeaseAssumption
<1>1. \A e \in Epochs : leases[e] \in LeaseRecord
  BY DEF LeaseInv, LeaseTypeOK
<1>2. \A l \in LeaseRecord : Follows(l, l)
  BY DEF Follows
<1>3. CASE UNCHANGED <<leases, epoch>> /\ now' \in Nat
  BY <1>1, <1>2, <1>3 DEF LeaseInv, LeaseTypeOK
<1>4. CASE FollowStep
  <2>1. PICK e \in Epochs, m \in LeaseRecord :
           Follows(leases[e], m) /\ leases' = [leases EXCEPT ![e] = m]
    BY <1>4 DEF FollowStep
  <2>2. \A f \in Epochs : leases'[f] = IF f = e THEN m ELSE leases[f]
    BY <2>1 DEF LeaseInv, LeaseTypeOK
  <2>3. leases' \in [Epochs -> LeaseRecord] /\ now' \in Nat /\ epoch' = epoch
    BY <1>4, <2>1 DEF LeaseInv, LeaseTypeOK, FollowStep
  <2> QED
    BY <1>1, <1>2, <2>1, <2>2, <2>3
<1>5. CASE CreateStep
  <2>1. PICK a \in Attempts, expiry \in Expiries, t \in Nat :
           /\ ~Held(CurrentLease(t))
           /\ leases' = [TouchedLeases(t) EXCEPT
                           ![epoch + 1] = NewLease(a, expiry)]
    BY <1>5 DEF CreateStep
  <2>2. NewLease(a, expiry) \in LeaseRecord
        /\ NewLease(a, expiry).state = "reserved" /\ NewLease(a, expiry).rev = 1
        /\ NewLease(a, expiry).attempt = a
    BY DEF NewLease, LeaseRecord, LeaseStates
  <2>3. epoch \in Nat /\ epoch + 1 \in Epochs /\ epoch' = epoch + 1 /\ now' \in Nat
    BY <1>5 DEF CreateStep, LeaseInv, LeaseTypeOK
  <2>4. CASE epoch = 0
    <3>1. leases' = [leases EXCEPT ![epoch + 1] = NewLease(a, expiry)]
      BY <2>1, <2>4 DEF TouchedLeases
    <3>2. leases' \in [Epochs -> LeaseRecord]
      BY <2>2, <2>3, <3>1 DEF LeaseInv, LeaseTypeOK
    <3>3. \A f \in Epochs : leases'[f] =
             IF f = epoch + 1 THEN NewLease(a, expiry) ELSE leases[f]
      BY <2>3, <3>1 DEF LeaseInv, LeaseTypeOK
    <3> QED
      BY <1>1, <1>2, <2>2, <2>3, <2>4, <3>2, <3>3
  <2>5. CASE epoch # 0
    <3>1. epoch \in Epochs /\ epoch # epoch + 1
      BY <2>3, <2>5 DEF Epochs
    <3> DEFINE old == Expire(leases[epoch], t)
    <3>2. Follows(leases[epoch], old) /\ old \in LeaseRecord
      BY <1>1, <3>1, ExpireFollows DEF Follows
    <3>3. ~Held(old)
      BY <2>1, <2>5 DEF CurrentLease
    <3>4. leases' = [[leases EXCEPT ![epoch] = old] EXCEPT
                        ![epoch + 1] = NewLease(a, expiry)]
      BY <2>1, <2>5 DEF TouchedLeases
    <3> HIDE DEF old
    <3>5. leases' \in [Epochs -> LeaseRecord]
      BY <2>2, <2>3, <3>1, <3>2, <3>4 DEF LeaseInv, LeaseTypeOK
    <3>6. \A f \in Epochs : leases'[f] =
             IF f = epoch + 1 THEN NewLease(a, expiry)
             ELSE IF f = epoch THEN old ELSE leases[f]
      BY <2>3, <3>1, <3>4 DEF LeaseInv, LeaseTypeOK
    <3> QED
      BY <1>1, <1>2, <2>2, <2>3, <3>1, <3>2, <3>3, <3>5, <3>6
  <2> QED
    BY <2>4, <2>5
<1>6. (UNCHANGED <<leases, epoch>> /\ now' \in Nat) \/ FollowStep \/ CreateStep
  <2>1. CASE LeaseNext
    BY <2>1, StepShape
  <2>2. CASE UNCHANGED leaseVars
    BY <2>2 DEF leaseVars, LeaseInv, LeaseTypeOK
  <2> QED
    BY <2>1, <2>2
<1> QED
  BY <1>3, <1>4, <1>5, <1>6

----------------------------------------------------------------------------
\* The three conjuncts hold at the start and every step keeps them.
LEMMA LeaseInvInductive ==
    /\ LeaseInit => LeaseInv
    /\ LeaseInv /\ [LeaseNext]_leaseVars => LeaseInv'
<1> USE LeaseAssumption
<1>1. LeaseInit => LeaseInv
  BY DEF LeaseInit, LeaseInv, LeaseTypeOK, EpochsInOrder, SingleHolder,
         AbsentLease, LeaseRecord, Held, Epochs
<1>2. ASSUME LeaseInv, [LeaseNext]_leaseVars
      PROVE  LeaseInv'
  <2>1. LeaseTypeOK'
    BY <1>2, LeaseStep DEF LeaseTypeOK, LeaseInv, Epochs
  <2>2. EpochsInOrder'
    BY <1>2, LeaseStep DEF LeaseInv, LeaseTypeOK, EpochsInOrder, Follows, Epochs,
                          AbsentLease
  <2>3. SingleHolder'
    BY <1>2, LeaseStep DEF LeaseInv, LeaseTypeOK, SingleHolder, Follows, Epochs
  <2> QED
    BY <2>1, <2>2, <2>3 DEF LeaseInv
<1> QED
  BY <1>1, <1>2

\* The lease store never has two holders of the identity, for any number of
\* attempts, epochs and clock values: Reserve refuses while a lease is held
\* and no other operation makes an unheld lease held.
THEOREM LeaseSafety == LeaseSpec => [](LeaseTypeOK /\ EpochsInOrder /\ SingleHolder)
<1>1. LeaseSpec => []LeaseInv
  BY LeaseInvInductive, PTL DEF LeaseSpec
<1>2. LeaseInv => LeaseTypeOK /\ EpochsInOrder /\ SingleHolder
  BY DEF LeaseInv
<1> QED
  BY <1>1, <1>2, PTL

\* Whatever attempts ask of the lease store, its leases and its clock stay well
\* formed: the revisions and epochs the store hands out are never out of range.
THEOREM LeaseTypes == LeaseSpec => []LeaseTypeOK
BY LeaseSafety, PTL

\* A lease that ended never authorizes again and keeps its holder on record.
THEOREM LeaseEndedForever == LeaseSpec => EndedForever
<1> USE LeaseAssumption
<1>1. LeaseInv /\ [LeaseNext]_leaseVars => [EndedForeverStep]_leaseVars
  <2> SUFFICES ASSUME LeaseInv, [LeaseNext]_leaseVars
               PROVE  EndedForeverStep
    OBVIOUS
  <2> QED
    BY LeaseStep DEF LeaseInv, LeaseTypeOK, EpochsInOrder, EndedForeverStep,
                     Follows, Ended, Epochs, AbsentLease
<1> QED
  BY <1>1, LeaseInvInductive, PTL DEF LeaseSpec, EndedForever

\* A lease revision names one content: comparing it excludes every change.
THEOREM LeaseRevisionNamesContent == LeaseSpec => RevisionNamesContent
<1> USE LeaseAssumption
<1>1. LeaseInv /\ [LeaseNext]_leaseVars => [RevisionNamesContentStep]_leaseVars
  <2> SUFFICES ASSUME LeaseInv, [LeaseNext]_leaseVars
               PROVE  RevisionNamesContentStep
    OBVIOUS
  <2>1. ASSUME NEW e \in Epochs, Follows(leases[e], leases'[e])
        PROVE  leases'[e] # leases[e] => leases'[e].rev > leases[e].rev
    BY <2>1 DEF Follows
  <2>2. ASSUME epoch + 1 \in Epochs, leases'[epoch + 1].rev = 1
        PROVE  leases'[epoch + 1].rev > leases[epoch + 1].rev
    <3>1. leases[epoch + 1] = AbsentLease
      BY <2>2 DEF LeaseInv, LeaseTypeOK, EpochsInOrder
    <3>2. leases[epoch + 1].rev = 0
      BY <3>1 DEF AbsentLease
    <3> QED
      BY <2>2, <3>2
  <2> QED
    BY <2>1, <2>2, LeaseStep DEF RevisionNamesContentStep
<1> QED
  BY <1>1, LeaseInvInductive, PTL DEF LeaseSpec, RevisionNamesContent
============================================================================
