-------------------------- MODULE EffectStoreProofs --------------------------
(***************************************************************************)
(* Safety of the effect store and its gateways, for any number of effects, *)
(* permits, gateways, domains and any lifetimes.                           *)
(***************************************************************************)
EXTENDS EffectStore, TLAPS

PreDispatch == {"absent", "proposed", "accepted"}
PostBegin == {"dispatched", "unknown_outcome", "settled", "compensated"}
Final == {"settled", "compensated"}

\* What the state of a fact says of its intent, its permit and its receipt.
FactOK(f) ==
    /\ f.state /= "absent" => f.intent \in Intent
    /\ f.state \in PreDispatch => f.permit = None
    /\ f.state = "dispatch_intent" => f.permit /= None
    /\ f.state \in PostBegin => PermitBegun(f)
    /\ f.state = "dispatched" => f.receipt
    /\ f.state = "rejected" => ~PermitBegun(f)
    /\ f.receipt => PermitBegun(f) /\ permits[f.permit].enforced

\* An effect and the permit issued for it name each other.
LinkOK ==
    /\ \A e \in Effects : effects[e].permit /= None =>
          permits[effects[e].permit].effect = e
    /\ \A p \in Permits : permits[p].state = "absent" <=> permits[p].effect = None

\* What is known of a permit that exists.
PermitOK ==
    \A p \in Permits :
        /\ permits[p].state /= "absent" =>
              permits[p].expires <= GrantExpires[permits[p].effect]
        /\ permits[p].state = "begun" =>
              permits[p].begunAt < permits[p].expires /\ p \notin lateIssue
        /\ p \in lateIssue =>
              permits[p].state /= "absent" /\ permits[p].effect \in lost

\* What a gateway knows when it calls the store.
CallOK ==
    \A g \in Gateways :
        /\ call[g].op /= "idle" => call[g].effect \in Effects /\ call[g].permit \in Permits
        /\ call[g].op = "issue" => call[g].expires <= GrantExpires[call[g].effect]
        /\ call[g].op = "begin" =>
              permits[call[g].permit].state /= "absent" /\ call[g].permit \notin lateIssue

\* Every conclusion of the fact f of e is grounded.
Grounded(e, f) ==
    /\ f.state \in Final =>
          \/ f.receipt /\ permits[f.permit].enforced /\ permits[f.permit].state = "begun"
          \/ Cited(f.inspection, "inspects", e)
    /\ f.state = "compensated" => Cited(f.compensation, "compensates", e)
    /\ f.residual \notin {"not_required", "pending"} => Cited(f.residualBy, "inspects", e)
    /\ f.cleanup \notin {"not_required", "pending"} => Cited(f.cleanupBy, "cleans", e)

\* The inductive invariant.
EffectInv ==
    /\ EffectTypeOK
    /\ \A e \in Effects : FactOK(effects[e])
    /\ LinkOK
    /\ OneAttempt
    /\ PermitOK
    /\ CallOK
    /\ \A e \in Effects : Grounded(e, effects[e])
    /\ IndexNeverDrifts

----------------------------------------------------------------------------
(* A compare-and-swap of an effect.                                        *)

\* What a closure dimension may be after a compare-and-swap of e.
LEMMA ClosureFacts ==
    ASSUME EffectTypeOK, NEW e \in Effects, Grounded(e, effects[e])
    PROVE  /\ \A r \in Residuals(e) :
                /\ r.state \in ResidualStates /\ r.by \in Effects \cup {None}
                /\ r.state \notin {"not_required", "pending"} => Cited(r.by, "inspects", e)
           /\ \A c \in Cleanups(e) :
                /\ c.state \in CleanupStates /\ c.by \in Effects \cup {None}
                /\ c.state \notin {"not_required", "pending"} => Cited(c.by, "cleans", e)
<1>1. effects[e] \in EffectFact
    BY DEF EffectTypeOK
<1>2. \A u : \A i \in SettledFor(u, e) : i \in Effects /\ Cited(i, u, e)
    BY DEF SettledFor, Cited
<1>3. ASSUME NEW r \in Residuals(e)
      PROVE  /\ r.state \in ResidualStates /\ r.by \in Effects \cup {None}
             /\ r.state \notin {"not_required", "pending"} => Cited(r.by, "inspects", e)
  <2>1. CASE r = [state |-> effects[e].residual, by |-> effects[e].residualBy]
      BY <1>1, <2>1 DEF EffectFact, Grounded
  <2>2. CASE \E s \in {"confirmed_absent", "present", "unknown"},
                i \in SettledFor("inspects", e) : r = [state |-> s, by |-> i]
      BY <1>2, <2>2 DEF ResidualStates
  <2>3. QED
      BY <1>3, <2>1, <2>2 DEF Residuals
<1>4. ASSUME NEW c \in Cleanups(e)
      PROVE  /\ c.state \in CleanupStates /\ c.by \in Effects \cup {None}
             /\ c.state \notin {"not_required", "pending"} => Cited(c.by, "cleans", e)
  <2>1. CASE c = [state |-> effects[e].cleanup, by |-> effects[e].cleanupBy]
      BY <1>1, <2>1 DEF EffectFact, Grounded
  <2>2. CASE \E s \in {"complete", "failed", "indeterminate"},
                i \in SettledFor("cleans", e) : c = [state |-> s, by |-> i]
      BY <1>2, <2>2 DEF CleanupStates
  <2>3. QED
      BY <1>4, <2>1, <2>2 DEF Cleanups
<1>5. QED
    BY <1>3, <1>4

\* The record a compare-and-swap writes: the main state with moved closures.
Moved(main, r, c) ==
    [main EXCEPT !.rev = @ + 1,
                 !.residual = r.state, !.residualBy = r.by,
                 !.cleanup = c.state, !.cleanupBy = c.by]

LEMMA MovedFacts ==
    ASSUME NEW main \in EffectFact, NEW r, NEW c,
           r.state \in ResidualStates, r.by \in Effects \cup {None},
           c.state \in CleanupStates, c.by \in Effects \cup {None}
    PROVE  LET next == Moved(main, r, c) IN
           /\ next \in EffectFact
           /\ next.state = main.state /\ next.intent = main.intent
           /\ next.permit = main.permit /\ next.receipt = main.receipt
           /\ next.inspection = main.inspection /\ next.compensation = main.compensation
           /\ next.residual = r.state /\ next.residualBy = r.by
           /\ next.cleanup = c.state /\ next.cleanupBy = c.by
           /\ next.rev = main.rev + 1
<1> DEFINE next == Moved(main, r, c)
<1>1. main.rev + 1 \in Nat
    BY DEF EffectFact
<1>2. next \in EffectFact
    BY <1>1 DEF Moved, EffectFact
<1>3. /\ next.state = main.state /\ next.intent = main.intent
      /\ next.permit = main.permit /\ next.receipt = main.receipt
      /\ next.inspection = main.inspection /\ next.compensation = main.compensation
    BY DEF Moved, EffectFact
<1>4. /\ next.residual = r.state /\ next.residualBy = r.by
      /\ next.cleanup = c.state /\ next.cleanupBy = c.by
      /\ next.rev = main.rev + 1
    BY DEF Moved, EffectFact
<1>5. QED
    BY <1>2, <1>3, <1>4

\* What an operation must know of the main state it writes.
SoundMain(e, main) ==
    /\ main \in EffectFact
    /\ effects[e].state /= "absent"
    /\ main.intent = effects[e].intent
    /\ main.permit = effects[e].permit
    /\ main.state \notin {"absent", "proposed"}
    /\ FactOK(main)
    /\ effects[e].state \in Final => main.state \in Final
    /\ main.state \in Final =>
          \/ main.receipt /\ permits[main.permit].enforced
                          /\ permits[main.permit].state = "begun"
          \/ Cited(main.inspection, "inspects", e)
    /\ main.state = "compensated" => Cited(main.compensation, "compensates", e)

\* A compare-and-swap of a sound main state keeps the invariant.
LEMMA SwapKeeps ==
    ASSUME EffectInv, NEW e \in Effects, NEW main, NEW claimed,
           SoundMain(e, main),
           \/ claimed = conflicts
           \/ claimed = [conflicts EXCEPT ![main.intent.domain] = e],
           Swap(e, main, claimed)
    PROVE  EffectInv'
<1>1. PICK r \in Residuals(e), c \in Cleanups(e) :
          /\ effects' = [effects EXCEPT ![e] = Moved(main, r, c)]
          /\ conflicts' = ConflictsAfter(Moved(main, r, c), claimed)
          /\ UNCHANGED <<permits, lost, lateIssue, now, call>>
    BY DEF Swap, Moved
<1> DEFINE next == Moved(main, r, c)
<1>2. /\ r.state \in ResidualStates /\ r.by \in Effects \cup {None}
      /\ r.state \notin {"not_required", "pending"} => Cited(r.by, "inspects", e)
      /\ c.state \in CleanupStates /\ c.by \in Effects \cup {None}
      /\ c.state \notin {"not_required", "pending"} => Cited(c.by, "cleans", e)
    BY ClosureFacts DEF EffectInv
<1>3. /\ next \in EffectFact
      /\ next.state = main.state /\ next.intent = main.intent
      /\ next.permit = main.permit /\ next.receipt = main.receipt
      /\ next.inspection = main.inspection /\ next.compensation = main.compensation
      /\ next.residual = r.state /\ next.residualBy = r.by
      /\ next.cleanup = c.state /\ next.cleanupBy = c.by
    BY <1>2, MovedFacts DEF SoundMain
<1> HIDE DEF next
<1>4. effects \in [Effects -> EffectFact] /\ conflicts \in [Domains -> Effects \cup {None}]
    BY DEF EffectInv, EffectTypeOK
<1>5. effects'[e] = next /\ \A f \in Effects : f /= e => effects'[f] = effects[f]
    BY <1>1, <1>4 DEF next
<1>6. main.intent \in Intent /\ main.intent.domain \in Domains
    BY DEF SoundMain, FactOK, Intent
<1>7. \A i, u, x : Cited(i, u, x) => Cited(i, u, x)'
    BY <1>3, <1>5 DEF Cited, SoundMain, Final
<1>8. claimed \in [Domains -> Effects \cup {None}]
    BY <1>4, <1>6
<1>9. conflicts' \in [Domains -> Effects \cup {None}]
    BY <1>1, <1>8 DEF ConflictsAfter
<1>10. EffectTypeOK'
  <2>1. effects' \in [Effects -> EffectFact]
      BY <1>1, <1>3, <1>4 DEF next
  <2>2. QED
      BY <1>1, <1>9, <2>1 DEF EffectInv, EffectTypeOK
<1>11. \A f \in Effects : FactOK(effects[f])'
  <2>1. FactOK(next)'
      BY <1>1, <1>3 DEF SoundMain, FactOK, PermitBegun
  <2>2. \A f \in Effects : f /= e => FactOK(effects[f])'
      BY <1>1, <1>5 DEF EffectInv, FactOK, PermitBegun
  <2>3. QED
      BY <1>5, <2>1, <2>2 DEF FactOK, PermitBegun
<1>12. \A f \in Effects : effects'[f].permit = effects[f].permit
    BY <1>3, <1>5 DEF SoundMain
<1>13. LinkOK' /\ OneAttempt'
  <2>1. \A p \in Permits : permits[p].effect /= None => permits[p].effect \in Effects
      BY DEF EffectInv, EffectTypeOK, PermitFact
  <2>2. LinkOK'
      BY <1>1, <1>12 DEF EffectInv, LinkOK
  <2>3. OneAttempt'
      BY <1>1, <1>12, <2>1 DEF EffectInv, OneAttempt
  <2>4. QED
      BY <2>2, <2>3
<1>14. PermitOK' /\ CallOK'
    BY <1>1 DEF EffectInv, PermitOK, CallOK
<1>15. \A f \in Effects : Grounded(f, effects[f])'
  <2>1. Grounded(e, next)'
      BY <1>1, <1>2, <1>3, <1>7 DEF SoundMain, Grounded
  <2>2. \A f \in Effects : f /= e => Grounded(f, effects[f])'
      BY <1>1, <1>5, <1>7 DEF EffectInv, Grounded
  <2>3. QED
      BY <1>5, <2>1, <2>2 DEF Grounded
<1>16. IndexNeverDrifts'
  <2> SUFFICES ASSUME NEW d \in Domains, conflicts'[d] /= None
               PROVE  LET f == effects'[conflicts'[d]] IN
                      /\ f.state \notin {"absent", "proposed"}
                      /\ f.intent.domain = d
                      /\ ConflictDomainOccupied(f)
      BY DEF IndexNeverDrifts, ConflictDomainOccupied
  <2>1. conflicts'[d] = claimed[d]
      BY <1>1, <1>8 DEF ConflictsAfter
  <2>2. ~ConflictDomainOccupied(next) => d /= main.intent.domain
      BY <1>1, <1>3, <1>6, <1>8, <2>1 DEF ConflictsAfter, next
  <2>3. CASE claimed[d] = e
    <3>1. d = main.intent.domain
      <4>1. CASE conflicts[d] = e
          BY <4>1, EffectAssumption DEF EffectInv, IndexNeverDrifts, SoundMain
      <4>2. CASE conflicts[d] /= e
          BY <1>4, <1>6, <2>3, <4>2
      <4>3. QED
          BY <4>1, <4>2
    <3>2. QED
        BY <1>3, <1>5, <2>1, <2>2, <2>3, <3>1 DEF SoundMain
  <2>4. CASE claimed[d] /= e
    <3>1. claimed[d] = conflicts[d] /\ conflicts[d] \in Effects
        BY <1>4, <1>6, <2>1, <2>4
    <3>2. effects'[conflicts[d]] = effects[conflicts[d]]
        BY <1>5, <2>4, <3>1
    <3>3. QED
        BY <2>1, <3>1, <3>2 DEF EffectInv, IndexNeverDrifts
  <2>5. QED
      BY <2>3, <2>4
<1>17. QED
    BY <1>10, <1>11, <1>13, <1>14, <1>15, <1>16 DEF EffectInv

\* Each compare-and-swap of an effect writes a sound main state.
LEMMA SwapsKeep ==
    ASSUME EffectInv, NEW e \in Effects,
           \/ Accept(e) \/ Reject(e) \/ Dispatch(e) \/ LoseOutcome(e)
           \/ Settle(e) \/ SettleUnknown(e) \/ Compensate(e) \/ Conclude(e)
    PROVE  EffectInv'
<1> DEFINE f == effects[e]
<1>1. f \in EffectFact /\ FactOK(f) /\ Grounded(e, f)
    BY DEF EffectInv, EffectTypeOK
<1>2. \A u : \A i \in SettledFor(u, e) : i \in Effects /\ Cited(i, u, e)
    BY DEF SettledFor, Cited
<1>3. CASE Accept(e)
  <2> DEFINE m == [f EXCEPT !.state = "accepted"]
  <2>1. /\ f.state = "proposed"
        /\ Swap(e, m, [conflicts EXCEPT ![f.intent.domain] = e])
      BY <1>3 DEF Accept
  <2>2. m \in EffectFact /\ m.intent = f.intent
      BY <1>1 DEF EffectFact, EffectStates
  <2>3. SoundMain(e, m)
      BY <1>1, <2>1, <2>2 DEF SoundMain, FactOK, PermitBegun, EffectFact,
                              PreDispatch, PostBegin, Final
  <2>4. QED
      BY <2>1, <2>2, <2>3, SwapKeeps
<1>4. CASE Reject(e)
  <2> DEFINE m == [f EXCEPT !.state = "rejected"]
  <2>1. /\ f.state \in {"proposed", "accepted", "dispatch_intent"}
        /\ ~PermitBegun(f)
        /\ Swap(e, m, conflicts)
      BY <1>4 DEF Reject
  <2>2. m \in EffectFact
      BY <1>1 DEF EffectFact, EffectStates
  <2>3. SoundMain(e, m)
      BY <1>1, <2>1, <2>2 DEF SoundMain, FactOK, PermitBegun, EffectFact,
                              PreDispatch, PostBegin, Final
  <2>4. QED
      BY <2>1, <2>3, SwapKeeps
<1>5. CASE Dispatch(e)
  <2> DEFINE m == [f EXCEPT !.state = "dispatched", !.receipt = TRUE]
  <2>1. /\ f.state = "dispatch_intent" /\ ReceiptMatches(f)
        /\ Swap(e, m, conflicts)
      BY <1>5 DEF Dispatch
  <2>2. m \in EffectFact
      BY <1>1 DEF EffectFact, EffectStates
  <2>3. SoundMain(e, m)
      BY <1>1, <2>1, <2>2 DEF SoundMain, FactOK, PermitBegun, EffectFact, ReceiptMatches,
                              PreDispatch, PostBegin, Final
  <2>4. QED
      BY <2>1, <2>3, SwapKeeps
<1>6. CASE LoseOutcome(e)
  <2> DEFINE m == [f EXCEPT !.state = "unknown_outcome"]
  <2>1. /\ f.state = "dispatch_intent" /\ PermitBegun(f)
        /\ Swap(e, m, conflicts)
      BY <1>6 DEF LoseOutcome
  <2>2. m \in EffectFact
      BY <1>1 DEF EffectFact, EffectStates
  <2>3. SoundMain(e, m)
      BY <1>1, <2>1, <2>2 DEF SoundMain, FactOK, PermitBegun, EffectFact,
                              PreDispatch, PostBegin, Final
  <2>4. QED
      BY <2>1, <2>3, SwapKeeps
<1>7. CASE Settle(e)
  <2> DEFINE m == [f EXCEPT !.state = "settled"]
  <2>1. f.state = "dispatched" /\ Swap(e, m, conflicts)
      BY <1>7 DEF Settle
  <2>2. m \in EffectFact
      BY <1>1 DEF EffectFact, EffectStates
  <2>3. SoundMain(e, m)
      BY <1>1, <2>1, <2>2 DEF SoundMain, FactOK, PermitBegun, EffectFact,
                              PreDispatch, PostBegin, Final
  <2>4. QED
      BY <2>1, <2>3, SwapKeeps
<1>8. CASE SettleUnknown(e)
  <2>1. PICK i \in SettledFor("inspects", e) :
            /\ f.state = "unknown_outcome"
            /\ Swap(e, [f EXCEPT !.state = "settled", !.inspection = i], conflicts)
      BY <1>8 DEF SettleUnknown
  <2> DEFINE m == [f EXCEPT !.state = "settled", !.inspection = i]
  <2>2. m \in EffectFact /\ i \in Effects /\ Cited(i, "inspects", e)
      BY <1>1, <1>2 DEF EffectFact, EffectStates
  <2>3. SoundMain(e, m)
      BY <1>1, <2>1, <2>2 DEF SoundMain, FactOK, PermitBegun, EffectFact,
                              PreDispatch, PostBegin, Final
  <2>4. QED
      BY <2>1, <2>3, SwapKeeps
<1>9. CASE Compensate(e)
  <2>1. PICK x \in SettledFor("compensates", e) :
            /\ f.state = "settled"
            /\ Swap(e, [f EXCEPT !.state = "compensated", !.compensation = x], conflicts)
      BY <1>9 DEF Compensate
  <2> DEFINE m == [f EXCEPT !.state = "compensated", !.compensation = x]
  <2>2. m \in EffectFact /\ x \in Effects /\ Cited(x, "compensates", e)
      BY <1>1, <1>2 DEF EffectFact, EffectStates
  <2>3. /\ m.state = "compensated" /\ m.compensation = x /\ m.intent = f.intent
        /\ m.permit = f.permit /\ m.receipt = f.receipt /\ m.inspection = f.inspection
      BY <1>1 DEF EffectFact
  <2>4. FactOK(m)
      BY <1>1, <2>1, <2>3 DEF FactOK, PermitBegun, PreDispatch, PostBegin
  <2>5. \/ m.receipt /\ permits[m.permit].enforced /\ permits[m.permit].state = "begun"
        \/ Cited(m.inspection, "inspects", e)
      BY <1>1, <2>1, <2>3 DEF Grounded, Final
  <2>6. SoundMain(e, m)
      BY <2>1, <2>2, <2>3, <2>4, <2>5 DEF SoundMain, Final
  <2>7. QED
      BY <2>1, <2>6, SwapKeeps
<1>10. CASE Conclude(e)
  <2>1. /\ f.state \in {"dispatched", "unknown_outcome", "settled", "compensated"}
        /\ Swap(e, f, conflicts)
      BY <1>10 DEF Conclude
  <2>2. SoundMain(e, f)
      BY <1>1, <2>1 DEF SoundMain, Grounded, Final
  <2>3. QED
      BY <2>1, <2>2, SwapKeeps
<1>11. QED
    BY <1>3, <1>4, <1>5, <1>6, <1>7, <1>8, <1>9, <1>10

\* A new effect disturbs nothing.
LEMMA CreateKeeps ==
    ASSUME EffectInv, NEW e \in Effects, NEW i \in Intents[e], CreateEffect(e, i)
    PROVE  EffectInv'
<1> DEFINE next == Proposed(i)
<1>1. i \in Intent
    BY EffectAssumption
<1>2. /\ next \in EffectFact /\ next.state = "proposed" /\ next.intent = i
      /\ next.permit = None /\ next.receipt = FALSE
      /\ next.residual \in {"not_required", "pending"}
      /\ next.cleanup \in {"not_required", "pending"}
    BY <1>1 DEF Proposed, NoEffect, EffectFact, EffectStates, ResidualStates, CleanupStates
<1> HIDE DEF next
<1>3. /\ effects \in [Effects -> EffectFact] /\ effects[e].state = "absent"
      /\ effects' = [effects EXCEPT ![e] = next]
      /\ UNCHANGED <<permits, conflicts, lost, lateIssue, now, call>>
    BY DEF EffectInv, EffectTypeOK, CreateEffect, next
<1>4. effects'[e] = next /\ \A f \in Effects : f /= e => effects'[f] = effects[f]
    BY <1>3
<1>5. effects[e].permit = None
    BY <1>3 DEF EffectInv, FactOK, PreDispatch
<1>6. EffectTypeOK'
    BY <1>2, <1>3 DEF EffectInv, EffectTypeOK
<1>7. \A f \in Effects : FactOK(effects[f])'
  <2>1. FactOK(next)'
      BY <1>1, <1>2, <1>3 DEF FactOK, PreDispatch, PostBegin, PermitBegun
  <2>2. QED
      BY <1>3, <1>4, <2>1 DEF EffectInv, FactOK, PermitBegun
<1>8. \A f \in Effects : effects'[f].permit = effects[f].permit
    BY <1>2, <1>4, <1>5
<1>9. \A p \in Permits : permits[p].effect /= None => permits[p].effect \in Effects
    BY DEF EffectInv, EffectTypeOK, PermitFact
<1>10. LinkOK' /\ OneAttempt'
    BY <1>3, <1>8, <1>9 DEF EffectInv, LinkOK, OneAttempt
<1>11. PermitOK' /\ CallOK'
    BY <1>3 DEF EffectInv, PermitOK, CallOK
<1>12. \A j, u, x : Cited(j, u, x) => Cited(j, u, x)'
    BY <1>3, <1>4 DEF Cited
<1>13. \A f \in Effects : Grounded(f, effects[f])'
  <2>1. Grounded(e, next)'
      BY <1>2 DEF Grounded, Final
  <2>2. \A f \in Effects : f /= e => Grounded(f, effects[f])'
      BY <1>3, <1>4, <1>12 DEF EffectInv, Grounded
  <2>3. QED
      BY <1>4, <2>1, <2>2 DEF Grounded
<1>14. IndexNeverDrifts'
  <2> SUFFICES ASSUME NEW d \in Domains, conflicts[d] /= None
               PROVE  LET f == effects'[conflicts[d]] IN
                      /\ f.state \notin {"absent", "proposed"}
                      /\ f.intent.domain = d
                      /\ ConflictDomainOccupied(f)
      BY <1>3 DEF IndexNeverDrifts, ConflictDomainOccupied
  <2>1. conflicts[d] \in Effects /\ effects[conflicts[d]].state /= "absent"
      BY DEF EffectInv, EffectTypeOK, IndexNeverDrifts
  <2>2. effects'[conflicts[d]] = effects[conflicts[d]]
      BY <1>3, <1>4, <2>1
  <2>3. QED
      BY <2>2 DEF EffectInv, IndexNeverDrifts
<1>15. QED
    BY <1>6, <1>7, <1>10, <1>11, <1>13, <1>14 DEF EffectInv

----------------------------------------------------------------------------
(* Permits.                                                                *)

\* A write of an existing permit that keeps its effect and its expiry, never
\* takes back a begin, and begins only for an effect in dispatch intent.
LEMMA PermitWriteKeeps ==
    ASSUME EffectInv, NEW p \in Permits, NEW q \in PermitFact,
           permits' = [permits EXCEPT ![p] = q],
           UNCHANGED <<effects, conflicts, lost, lateIssue, now>>,
           permits[p].state /= "absent", q.state /= "absent",
           q.effect = permits[p].effect, q.expires = permits[p].expires,
           permits[p].state = "begun" => q.state = "begun",
           permits[p].enforced => q.enforced,
           q.state = "begun" => q.begunAt < q.expires /\ p \notin lateIssue,
           q.state = "begun" /\ permits[p].state /= "begun" =>
               effects[q.effect].state = "dispatch_intent",
           call' \in [Gateways -> Call],
           \A g \in Gateways : call'[g] = call[g] \/ call'[g] = NoCall
    PROVE  EffectInv'
<1>1. permits \in [Permits -> PermitFact] /\ effects \in [Effects -> EffectFact]
    BY DEF EffectInv, EffectTypeOK
<1>2. permits'[p] = q /\ \A o \in Permits : o /= p => permits'[o] = permits[o]
    BY <1>1
<1>3. \A o \in Permits :
          /\ permits'[o].effect = permits[o].effect
          /\ permits'[o].expires = permits[o].expires
          /\ permits'[o].state = "absent" <=> permits[o].state = "absent"
          /\ permits[o].state = "begun" => permits'[o].state = "begun"
          /\ permits[o].enforced => permits'[o].enforced
    BY <1>2
<1>4. EffectTypeOK'
    BY <1>1 DEF EffectInv, EffectTypeOK
<1>5. ASSUME NEW e \in Effects
      PROVE  FactOK(effects[e])'
  <2> DEFINE f == effects[e]
  <2>1. f.permit /= None => f.permit \in Permits /\ permits[f.permit].effect = e
      BY <1>1 DEF EffectFact, EffectInv, LinkOK
  <2>2. FactOK(f) /\ effects'[e] = f
      BY DEF EffectInv
  <2>3. PermitBegun(f) => PermitBegun(f)'
      BY <1>3, <2>1 DEF PermitBegun
  <2>4. PermitBegun(f)' => PermitBegun(f) \/ f.state = "dispatch_intent"
    <3>1. CASE f.permit = p
        BY <1>2, <2>1, <3>1 DEF PermitBegun
    <3>2. CASE f.permit /= p
        BY <1>2, <2>1, <3>2 DEF PermitBegun
    <3>3. QED
        BY <3>1, <3>2
  <2>5. f.receipt => permits'[f.permit].enforced
      BY <1>3, <2>1, <2>2 DEF FactOK, PermitBegun
  <2>6. QED
      BY <2>2, <2>3, <2>4, <2>5 DEF FactOK
<1>6. LinkOK'
  <2>1. \A e \in Effects : effects[e].permit /= None => effects[e].permit \in Permits
      BY <1>1 DEF EffectFact
  <2>2. QED
      BY <1>3, <2>1 DEF EffectInv, LinkOK
<1>7. OneAttempt'
    BY <1>3 DEF EffectInv, OneAttempt
<1>8. PermitOK'
    BY <1>2, <1>3 DEF EffectInv, PermitOK
<1>9. CallOK'
    BY <1>3 DEF EffectInv, CallOK, NoCall
<1>10. \A i, u, x : Cited(i, u, x) => Cited(i, u, x)'
    BY DEF Cited
<1>11. ASSUME NEW e \in Effects
       PROVE  Grounded(e, effects[e])'
  <2> DEFINE f == effects[e]
  <2>1. Grounded(e, f) /\ FactOK(f) /\ effects'[e] = f
      BY DEF EffectInv
  <2>2. f.receipt => permits'[f.permit].enforced /\ permits'[f.permit].state = "begun"
      BY <1>1, <1>3, <2>1 DEF FactOK, PermitBegun, EffectFact
  <2>3. QED
      BY <1>10, <2>1, <2>2 DEF Grounded
<1>12. IndexNeverDrifts'
    BY DEF EffectInv, IndexNeverDrifts
<1>13. QED
    BY <1>4, <1>5, <1>6, <1>7, <1>8, <1>9, <1>11, <1>12 DEF EffectInv

\* Begin, enforcement, expiry and revocation are such writes.
LEMMA PermitStepsKeep ==
    ASSUME EffectInv, NEW p \in Permits, PermitStep(p)
    PROVE  EffectInv'
<1> DEFINE o == permits[p]
<1>1. /\ permits \in [Permits -> PermitFact] /\ o \in PermitFact
      /\ call \in [Gateways -> Call]
    BY DEF EffectInv, EffectTypeOK
<1>2. o.rev + 1 \in Nat
    BY <1>1 DEF PermitFact
<1>3. o.state = "begun" => o.begunAt < o.expires /\ p \notin lateIssue
    BY DEF EffectInv, PermitOK
<1>4. CASE RecordEnforcementReceipt(p)
  <2> DEFINE q == [o EXCEPT !.enforced = TRUE, !.rev = o.rev + 1]
  <2>1. /\ permits' = [permits EXCEPT ![p] = q] /\ o.state = "begun"
        /\ UNCHANGED <<effects, conflicts, lost, lateIssue, now, call>>
      BY <1>1, <1>4 DEF RecordEnforcementReceipt
  <2>2. /\ q \in PermitFact /\ q.state = o.state /\ q.effect = o.effect
        /\ q.expires = o.expires /\ q.begunAt = o.begunAt /\ q.enforced
      BY <1>1, <1>2 DEF PermitFact
  <2>3. QED
      BY <1>1, <1>3, <2>1, <2>2, PermitWriteKeeps
<1>5. ASSUME NEW s \in {"expired", "revoked"},
             permits' = [permits EXCEPT ![p].state = s, ![p].rev = @ + 1],
             o.state = "issued",
             UNCHANGED <<effects, conflicts, lost, lateIssue, now, call>>
      PROVE  EffectInv'
  <2> DEFINE q == [o EXCEPT !.state = s, !.rev = o.rev + 1]
  <2>1. permits' = [permits EXCEPT ![p] = q]
      BY <1>1, <1>5
  <2>2. /\ q \in PermitFact /\ q.state = s /\ q.effect = o.effect
        /\ q.expires = o.expires /\ q.enforced = o.enforced
      BY <1>1, <1>2 DEF PermitFact, PermitStates
  <2>3. call' \in [Gateways -> Call] /\ call' = call
      BY <1>1, <1>5
  <2> HIDE DEF q
  <2>4. QED
      BY <1>5, <2>1, <2>2, <2>3, PermitWriteKeeps
<1>6. CASE ExpirePermit(p)
    BY <1>5, <1>6 DEF ExpirePermit
<1>7. CASE RevokePermit(p)
    BY <1>5, <1>7 DEF RevokePermit
<1>8. QED
    BY <1>4, <1>6, <1>7 DEF PermitStep

LEMMA BeginKeeps ==
    ASSUME EffectInv, NEW g \in Gateways, NEW t \in 0..now, BeginDispatch(g, t)
    PROVE  EffectInv'
<1> DEFINE r == call[g]
           p == r.permit
           o == permits[p]
           q == [o EXCEPT !.state = "begun", !.rev = o.rev + 1, !.begunAt = t]
<1>1. /\ permits \in [Permits -> PermitFact] /\ call \in [Gateways -> Call] /\ t \in Nat
      /\ effects \in [Effects -> EffectFact]
    BY DEF EffectInv, EffectTypeOK
<1>2. /\ r.op = "begin" /\ BeginCurrent(r) /\ o.state = "issued" /\ t < o.expires
      /\ call' = [call EXCEPT ![g] = NoCall]
      /\ UNCHANGED <<effects, conflicts, lost, lateIssue, now>>
    BY DEF BeginDispatch
<1>3. p \in Permits /\ r.effect \in Effects /\ p \notin lateIssue
    BY <1>2 DEF EffectInv, CallOK
<1>4. o \in PermitFact /\ o.rev + 1 \in Nat
    BY <1>1, <1>3 DEF PermitFact
<1>5. permits' = [permits EXCEPT ![p] = q]
    BY <1>1, <1>3 DEF BeginDispatch
<1>6. /\ q \in PermitFact /\ q.state = "begun" /\ q.effect = o.effect
      /\ q.expires = o.expires /\ q.begunAt = t /\ q.enforced = o.enforced
    BY <1>1, <1>4 DEF PermitFact, PermitStates
<1>7. effects[r.effect].state = "dispatch_intent" /\ effects[r.effect].permit = p
    BY <1>2 DEF BeginCurrent
<1>8. o.effect = r.effect
    BY <1>3, <1>7, EffectAssumption DEF EffectInv, LinkOK
<1>9. /\ call' \in [Gateways -> Call]
      /\ \A h \in Gateways : call'[h] = call[h] \/ call'[h] = NoCall
    BY <1>1, <1>2 DEF NoCall, Call
<1> HIDE DEF q, r
<1>10. QED
    BY <1>2, <1>3, <1>5, <1>6, <1>7, <1>8, <1>9, PermitWriteKeeps

\* The store's issue: the effect and its only permit change together.
LEMMA IssueKeeps ==
    ASSUME EffectInv, NEW g \in Gateways, NEW t \in 0..now, IssueDispatchPermit(g, t)
    PROVE  EffectInv'
<1> DEFINE r == call[g]
           e == r.effect
           p == r.permit
           f == effects[e]
           next == [f EXCEPT !.state = "dispatch_intent", !.rev = f.rev + 1, !.permit = p]
           q == [NoPermit EXCEPT !.state = "issued", !.rev = 1, !.effect = e,
                                 !.effectRev = f.rev + 1, !.expires = r.expires]
<1>1. /\ permits \in [Permits -> PermitFact] /\ call \in [Gateways -> Call]
      /\ effects \in [Effects -> EffectFact]
    BY DEF EffectInv, EffectTypeOK
<1>2. /\ r.op = "issue" /\ f.state = "accepted" /\ permits[p].state = "absent"
      /\ call' = [call EXCEPT ![g] = NoCall]
      /\ lateIssue' = IF e \in lost THEN lateIssue \cup {p} ELSE lateIssue
      /\ UNCHANGED <<conflicts, lost, now>>
    BY DEF IssueDispatchPermit, IssueCurrent
<1>3. p \in Permits /\ e \in Effects /\ r.expires <= GrantExpires[e] /\ r.expires \in Nat
    BY <1>1, <1>2 DEF EffectInv, CallOK, Call
<1>4. f \in EffectFact /\ f.rev + 1 \in Nat /\ FactOK(f) /\ Grounded(e, f)
    BY <1>1, <1>3 DEF EffectFact, EffectInv
<1>5. effects' = [effects EXCEPT ![e] = next]
    BY <1>1, <1>3 DEF IssueDispatchPermit
<1>6. permits' = [permits EXCEPT ![p] = q]
    BY <1>1, <1>3 DEF IssueDispatchPermit
<1>7. /\ next \in EffectFact /\ next.state = "dispatch_intent" /\ next.permit = p
      /\ next.intent = f.intent /\ next.receipt = f.receipt
      /\ next.residual = f.residual /\ next.residualBy = f.residualBy
      /\ next.cleanup = f.cleanup /\ next.cleanupBy = f.cleanupBy
    BY <1>3, <1>4 DEF EffectFact, EffectStates
<1>8. /\ q \in PermitFact /\ q.state = "issued" /\ q.effect = e /\ q.expires = r.expires
      /\ q.enforced = FALSE
    BY <1>3, <1>4 DEF NoPermit, PermitFact, PermitStates
<1>9. f.permit = None /\ ~f.receipt
    BY <1>2, <1>4 DEF FactOK, PreDispatch, PermitBegun
<1>10. /\ permits[p].effect = None
       /\ \A x \in Effects : effects[x].permit /= p
    BY <1>2, <1>3, EffectAssumption DEF EffectInv, LinkOK
<1>11. p /= None /\ e /= None
    BY <1>3, EffectAssumption
<1> HIDE DEF next, q, f
<1>12. /\ effects'[e] = next /\ \A x \in Effects : x /= e => effects'[x] = effects[x]
       /\ permits'[p] = q /\ \A o \in Permits : o /= p => permits'[o] = permits[o]
    BY <1>1, <1>3, <1>5, <1>6
<1>13. EffectTypeOK'
  <2>1. effects' \in [Effects -> EffectFact] /\ permits' \in [Permits -> PermitFact]
      BY <1>1, <1>3, <1>5, <1>6, <1>7, <1>8
  <2>2. call' \in [Gateways -> Call]
      BY <1>1, <1>2 DEF NoCall, Call
  <2>3. lateIssue' \in SUBSET Permits
      BY <1>2, <1>3 DEF EffectInv, EffectTypeOK
  <2>4. QED
      BY <1>2, <2>1, <2>2, <2>3 DEF EffectInv, EffectTypeOK
<1>14. ASSUME NEW x \in Effects
       PROVE  FactOK(effects[x])'
  <2>1. CASE x = e
      BY <1>2, <1>4, <1>7, <1>8, <1>9, <1>11, <1>12, <2>1
         DEF FactOK, PermitBegun, PreDispatch, PostBegin, f
  <2>2. CASE x /= e
    <3>1. effects[x].permit \in Permits \cup {None} /\ effects[x].permit /= p
        BY <1>1, <1>10 DEF EffectFact
    <3>2. QED
        BY <1>12, <2>2, <3>1 DEF EffectInv, FactOK, PermitBegun
  <2>3. QED
      BY <2>1, <2>2
<1>15. LinkOK'
  <2>1. \A x \in Effects : effects[x].permit \in Permits \cup {None}
      BY <1>1 DEF EffectFact
  <2>2. \A x \in Effects : effects'[x].permit /= None =>
            permits'[effects'[x].permit].effect = x
      BY <1>7, <1>8, <1>10, <1>12, <2>1 DEF EffectInv, LinkOK
  <2>3. \A o \in Permits : permits'[o].state = "absent" <=> permits'[o].effect = None
      BY <1>8, <1>11, <1>12 DEF EffectInv, LinkOK
  <2>4. QED
      BY <2>2, <2>3 DEF LinkOK
<1>16. OneAttempt'
  <2> SUFFICES ASSUME NEW o \in Permits, permits'[o].effect /= None
               PROVE  effects'[permits'[o].effect].permit = o
      BY DEF OneAttempt
  <2>1. CASE o = p
      BY <1>7, <1>8, <1>12, <2>1
  <2>2. CASE o /= p
    <3>1. /\ permits'[o] = permits[o] /\ permits[o].effect \in Effects
          /\ effects[permits[o].effect].permit = o
        BY <1>1, <1>12, <2>2 DEF PermitFact, EffectInv, OneAttempt
    <3>2. permits[o].effect /= e
        BY <1>9, <3>1, EffectAssumption DEF f
    <3>3. QED
        BY <1>12, <3>1, <3>2
  <2>3. QED
      BY <2>1, <2>2
<1>17. PermitOK'
  <2>1. p \notin lateIssue
      BY <1>2, <1>3 DEF EffectInv, PermitOK
  <2>2. QED
      BY <1>2, <1>3, <1>8, <1>12, <2>1 DEF EffectInv, PermitOK
<1>18. CallOK'
  <2> SUFFICES ASSUME NEW h \in Gateways, h /= g
               PROVE  /\ call[h].op /= "idle" =>
                            call[h].effect \in Effects /\ call[h].permit \in Permits
                      /\ call[h].op = "issue" =>
                            call[h].expires <= GrantExpires[call[h].effect]
                      /\ call[h].op = "begin" =>
                            /\ permits'[call[h].permit].state /= "absent"
                            /\ call[h].permit \notin lateIssue'
      BY <1>1, <1>2 DEF CallOK, NoCall
  <2>1. call[h].op = "begin" => call[h].permit \in Permits /\ call[h].permit /= p
      BY <1>2 DEF EffectInv, CallOK
  <2>2. QED
      BY <1>2, <1>12, <2>1 DEF EffectInv, CallOK
<1>19. \A i, u, x : Cited(i, u, x) => Cited(i, u, x)'
    BY <1>2, <1>3, <1>12 DEF Cited, f
<1>20. ASSUME NEW x \in Effects
       PROVE  Grounded(x, effects[x])'
  <2>1. CASE x = e
      BY <1>4, <1>7, <1>12, <1>19, <2>1 DEF Grounded, Final
  <2>2. CASE x /= e
    <3>1. effects[x].permit \in Permits \cup {None} /\ effects[x].permit /= p
        BY <1>1, <1>10 DEF EffectFact
    <3>2. effects[x].receipt => effects[x].permit \in Permits
        BY <3>1 DEF EffectInv, FactOK, PermitBegun
    <3>3. QED
        BY <1>12, <1>19, <2>2, <3>1, <3>2 DEF EffectInv, Grounded
  <2>3. QED
      BY <2>1, <2>2
<1>21. IndexNeverDrifts'
  <2> SUFFICES ASSUME NEW d \in Domains, conflicts[d] /= None
               PROVE  LET n == effects'[conflicts[d]] IN
                      /\ n.state \notin {"absent", "proposed"}
                      /\ n.intent.domain = d
                      /\ ConflictDomainOccupied(n)
      BY <1>2 DEF IndexNeverDrifts, ConflictDomainOccupied
  <2>1. conflicts[d] \in Effects
      BY DEF EffectInv, EffectTypeOK
  <2>2. CASE conflicts[d] = e
      BY <1>7, <1>12, <2>2 DEF EffectInv, IndexNeverDrifts, ConflictDomainOccupied, f
  <2>3. CASE conflicts[d] /= e
      BY <1>12, <2>1, <2>3 DEF EffectInv, IndexNeverDrifts
  <2>4. QED
      BY <2>2, <2>3
<1>22. QED
    BY <1>13, <1>14, <1>15, <1>16, <1>17, <1>18, <1>20, <1>21 DEF EffectInv

----------------------------------------------------------------------------
(* Steps that leave the facts alone.                                       *)

\* A step that changes the calls, the clock or the lost grants only.
LEMMA FactsUntouched ==
    ASSUME EffectInv, UNCHANGED <<effects, permits, conflicts, lateIssue>>,
           lost \subseteq lost', lost' \in SUBSET Effects, now' \in Nat,
           call' \in [Gateways -> Call], CallOK'
    PROVE  EffectInv'
<1>1. EffectTypeOK'
    BY DEF EffectInv, EffectTypeOK
<1>2. \A e \in Effects : FactOK(effects[e])' /\ Grounded(e, effects[e])'
    BY DEF EffectInv, FactOK, Grounded, PermitBegun, Cited
<1>3. LinkOK' /\ OneAttempt' /\ IndexNeverDrifts'
    BY DEF EffectInv, LinkOK, OneAttempt, IndexNeverDrifts
<1>4. PermitOK'
    BY DEF EffectInv, PermitOK
<1>5. QED
    BY <1>1, <1>2, <1>3, <1>4 DEF EffectInv

\* A gateway's reading leaves a sound call behind.
LEMMA ReadsKeep ==
    ASSUME EffectInv, NEW g \in Gateways, NEW e \in Effects, NEW p \in Permits,
           IssueRead(g, e, p) \/ BeginRead(g, e, p)
    PROVE  EffectInv'
<1>1. /\ effects \in [Effects -> EffectFact] /\ permits \in [Permits -> PermitFact]
      /\ call \in [Gateways -> Call] /\ now \in Nat
    BY DEF EffectInv, EffectTypeOK
<1>2. effects[e].rev \in Nat /\ permits[p].rev \in Nat
    BY <1>1 DEF EffectFact, PermitFact
<1>3. PermitExpires(e) \in Nat /\ PermitExpires(e) <= GrantExpires[e]
    BY <1>1, EffectAssumption DEF PermitExpires, Earlier
<1>4. CASE IssueRead(g, e, p)
  <2> DEFINE new == [op |-> "issue", effect |-> e, permit |-> p,
                     effectRev |-> effects[e].rev, permitRev |-> 0,
                     expires |-> PermitExpires(e), readAt |-> now]
  <2>1. /\ call' = [call EXCEPT ![g] = new]
        /\ UNCHANGED <<effects, permits, conflicts, lost, lateIssue, now>>
      BY <1>4 DEF IssueRead
  <2>2. new \in Call
      BY <1>1, <1>2, <1>3 DEF Call
  <2>3. CallOK'
      BY <1>1, <1>3, <2>1 DEF EffectInv, CallOK
  <2>4. QED
      BY <1>1, <2>1, <2>2, <2>3, FactsUntouched DEF EffectInv, EffectTypeOK
<1>5. CASE BeginRead(g, e, p)
  <2> DEFINE new == [op |-> "begin", effect |-> e, permit |-> p,
                     effectRev |-> effects[e].rev, permitRev |-> permits[p].rev,
                     expires |-> 0, readAt |-> now]
  <2>1. /\ call' = [call EXCEPT ![g] = new]
        /\ effects[e].permit = p /\ permits[p].state = "issued" /\ e \notin lost
        /\ UNCHANGED <<effects, permits, conflicts, lost, lateIssue, now>>
      BY <1>5 DEF BeginRead, GrantCurrent
  <2>2. new \in Call
      BY <1>1, <1>2 DEF Call
  <2>3. permits[p].effect = e
      BY <2>1, EffectAssumption DEF EffectInv, LinkOK
  <2>4. p \notin lateIssue
      BY <2>1, <2>3 DEF EffectInv, PermitOK
  <2>5. CallOK'
      BY <1>1, <2>1, <2>4 DEF EffectInv, CallOK
  <2>6. QED
      BY <1>1, <2>1, <2>2, <2>5, FactsUntouched DEF EffectInv, EffectTypeOK
<1>6. QED
    BY <1>4, <1>5

----------------------------------------------------------------------------
(* The theorems.                                                           *)

LEMMA EffectInit == Init => EffectInv
<1> SUFFICES ASSUME Init PROVE EffectInv
    OBVIOUS
<1> USE DEF Init
<1>1. NoEffect \in EffectFact /\ NoPermit \in PermitFact /\ NoCall \in Call
    BY DEF NoEffect, NoPermit, NoCall, EffectFact, PermitFact, Call,
           EffectStates, PermitStates, ResidualStates, CleanupStates
<1>2. EffectTypeOK
    BY <1>1 DEF EffectTypeOK
<1>3. \A e \in Effects : FactOK(effects[e]) /\ Grounded(e, effects[e])
    BY DEF FactOK, Grounded, NoEffect, PermitBegun, PreDispatch, PostBegin, Final
<1>4. LinkOK /\ OneAttempt /\ PermitOK /\ CallOK /\ IndexNeverDrifts
    BY DEF LinkOK, OneAttempt, PermitOK, CallOK, IndexNeverDrifts,
           NoEffect, NoPermit, NoCall
<1>5. QED
    BY <1>2, <1>3, <1>4 DEF EffectInv

LEMMA EffectNext == EffectInv /\ [Next]_effectVars => EffectInv'
<1> SUFFICES ASSUME EffectInv, [Next]_effectVars PROVE EffectInv'
    OBVIOUS
<1>1. /\ call \in [Gateways -> Call] /\ now \in Nat /\ lost \in SUBSET Effects
    BY DEF EffectInv, EffectTypeOK
<1>2. CASE UNCHANGED effectVars
    BY <1>1, <1>2, FactsUntouched DEF effectVars, EffectInv, CallOK
<1>3. ASSUME NEW e \in Effects, EffectStep(e) PROVE EffectInv'
  <2>1. CASE LoseGrant(e)
    <3>1. CallOK'
        BY <2>1 DEF LoseGrant, EffectInv, CallOK
    <3>2. QED
        BY <1>1, <2>1, <3>1, FactsUntouched DEF LoseGrant
  <2>2. QED
      BY <1>3, <2>1, CreateKeeps, SwapsKeep DEF EffectStep
<1>4. ASSUME NEW g \in Gateways, GatewayStep(g) PROVE EffectInv'
  <2>1. CASE EndCall(g)
    <3>1. CallOK' /\ call' \in [Gateways -> Call]
        BY <1>1, <2>1 DEF EndCall, EffectInv, CallOK, NoCall, Call
    <3>2. QED
        BY <1>1, <2>1, <3>1, FactsUntouched DEF EndCall
  <2>2. QED
      BY <1>4, <2>1, ReadsKeep, IssueKeeps, BeginKeeps DEF GatewayStep
<1>5. CASE Tick
  <2>1. CallOK' /\ now' \in Nat
      BY <1>1, <1>5 DEF Tick, EffectInv, CallOK
  <2>2. QED
      BY <1>1, <1>5, <2>1, FactsUntouched DEF Tick
<1>6. QED
    BY <1>2, <1>3, <1>4, <1>5, PermitStepsKeep DEF Next

\* The inductive invariant holds in every state of the specification.
THEOREM EffectInvariant == EffectSpec => []EffectInv
<1>1. QED
    BY EffectInit, EffectNext, PTL DEF EffectSpec

\* The invariant contains everything the runs check of a state: the facts'
\* shape, that a rejected effect is never begun, that an effect is attempted
\* once, that a permit is begun under a grant that was current after its issue,
\* that conclusions are grounded and that the conflict index never drifts.
LEMMA InvImpliesSafety ==
    EffectInv => /\ EffectTypeOK /\ RejectedNeverBegins /\ OneAttempt
                 /\ BegunUnderGrant /\ ConclusionsAreGrounded /\ IndexNeverDrifts
<1> SUFFICES ASSUME EffectInv
             PROVE  RejectedNeverBegins /\ BegunUnderGrant /\ ConclusionsAreGrounded
    BY DEF EffectInv
<1>1. RejectedNeverBegins
  <2> SUFFICES ASSUME NEW e \in Effects, NEW p \in Permits,
                      permits[p].effect = e, permits[p].state = "begun"
               PROVE  effects[e].state \notin {"proposed", "accepted", "rejected"}
      BY DEF RejectedNeverBegins
  <2>1. effects[e].permit = p /\ p /= None
      BY EffectAssumption DEF EffectInv, OneAttempt
  <2>2. QED
      BY <2>1 DEF EffectInv, FactOK, PermitBegun, PreDispatch
<1>2. BegunUnderGrant
    BY DEF EffectInv, PermitOK, BegunUnderGrant
<1>3. ConclusionsAreGrounded
    BY DEF EffectInv, Grounded, Final, ConclusionsAreGrounded
<1>4. QED
    BY <1>1, <1>2, <1>3

\* However gateways race, die and read stale facts: a rejected effect is never
\* begun, an effect is attempted once, and a permit is begun before every
\* governing fact expires and after those facts were read again.
THEOREM DispatchSafety ==
    EffectSpec => []EffectTypeOK /\ []RejectedNeverBegins /\ []OneAttempt /\ []BegunUnderGrant
<1>1. QED
    BY EffectInvariant, InvImpliesSafety, PTL

\* The facts, permits, index and calls of the effect store keep their types.
THEOREM EffectTypes == EffectSpec => []EffectTypeOK
BY DispatchSafety, PTL

\* No permit of a rejected effect is ever begun, however the rejection races
\* with the gateways that issue and begin it.
THEOREM RejectionStops == EffectSpec => []RejectedNeverBegins
BY DispatchSafety, PTL

\* However many gateways race to issue permits for an effect, one is issued:
\* the permit the effect's fact names.
THEOREM SingleAttempt == EffectSpec => []OneAttempt
BY DispatchSafety, PTL

\* No effect is concluded without the receipt of its own enforced permit or
\* the settlement of an effect made to inspect, compensate or clean it up.
THEOREM GroundedConclusions == EffectSpec => []ConclusionsAreGrounded
<1>1. QED
    BY EffectInvariant, InvImpliesSafety, PTL

\* The occupant the conflict index names always occupies its domain, although
\* the store clears entries without asking whose they are.
THEOREM IndexStaysExact == EffectSpec => []IndexNeverDrifts
<1>1. QED
    BY EffectInvariant, InvImpliesSafety, PTL

\* A compare-and-swap of a fact whose closures are closed leaves them closed.
LEMMA SwapKeepsReleased ==
    ASSUME EffectTypeOK, NEW e \in Effects, NEW main \in EffectFact, NEW claimed,
           ~ConflictDomainOccupied(effects[e]), effects[e].state \in Final,
           main.state \in Final, Swap(e, main, claimed)
    PROVE  ~ConflictDomainOccupied(effects'[e])
<1>1. PICK r \in Residuals(e), c \in Cleanups(e) :
          effects' = [effects EXCEPT ![e] = Moved(main, r, c)]
    BY DEF Swap, Moved
<1>2. effects[e].residual /= "pending" /\ effects[e].cleanup /= "pending"
    BY DEF ConflictDomainOccupied, Final
<1>3. r.state = effects[e].residual /\ c.state = effects[e].cleanup
    BY <1>2 DEF Residuals, Cleanups
<1>4. effects'[e] = Moved(main, r, c)
    BY <1>1 DEF EffectTypeOK
<1>5. /\ Moved(main, r, c).state = main.state
      /\ Moved(main, r, c).residual = r.state /\ Moved(main, r, c).cleanup = c.state
    BY DEF Moved, EffectFact
<1>6. QED
    BY <1>3, <1>4, <1>5 DEF ConflictDomainOccupied, Final

LEMMA ReleasedStep ==
    ASSUME EffectInv, [Next]_effectVars, NEW x \in Effects,
           ~ConflictDomainOccupied(effects[x])
    PROVE  ~ConflictDomainOccupied(effects'[x])
<1>1. effects \in [Effects -> EffectFact] /\ effects[x] \in EffectFact
    BY DEF EffectInv, EffectTypeOK
<1>2. effects[x].state \in {"rejected"} \cup Final
    BY DEF ConflictDomainOccupied, Final
<1>3. effects' = effects => effects'[x] = effects[x]
    OBVIOUS
<1>4. ASSUME NEW e \in Effects, EffectStep(e), effects' /= effects
      PROVE  ~ConflictDomainOccupied(effects'[x])
  <2>1. CASE e /= x
    <3>1. ASSUME NEW main, NEW claimed, Swap(e, main, claimed)
          PROVE  effects'[x] = effects[x]
        BY <1>1, <2>1, <3>1 DEF Swap
    <3>2. ASSUME NEW i \in Intents[e], CreateEffect(e, i)
          PROVE  effects'[x] = effects[x]
        BY <1>1, <2>1, <3>2 DEF CreateEffect
    <3>3. QED
        BY <1>4, <3>1, <3>2 DEF EffectStep, Accept, Reject, Dispatch, LoseOutcome,
                                Settle, SettleUnknown, Compensate, Conclude, LoseGrant
  <2>2. CASE e = x
    <3>1. CASE Conclude(x)
      <4>1. effects[x].state \in Final /\ Swap(x, effects[x], conflicts)
          BY <1>2, <3>1 DEF Conclude, Final
      <4>2. QED
          BY <1>1, <4>1, SwapKeepsReleased DEF EffectInv
    <3>2. CASE Compensate(x)
      <4>1. PICK y \in SettledFor("compensates", x) :
                /\ effects[x].state = "settled"
                /\ Swap(x, [effects[x] EXCEPT !.state = "compensated",
                                              !.compensation = y], conflicts)
          BY <3>2 DEF Compensate
      <4> DEFINE m == [effects[x] EXCEPT !.state = "compensated", !.compensation = y]
      <4>2. m \in EffectFact /\ m.state \in Final /\ effects[x].state \in Final
          BY <1>1, <4>1 DEF EffectFact, EffectStates, SettledFor, Final
      <4>3. QED
          BY <4>1, <4>2, SwapKeepsReleased DEF EffectInv
    <3>3. QED
        BY <1>2, <1>4, <2>2, <3>1, <3>2
           DEF EffectStep, CreateEffect, Accept, Reject, Dispatch, LoseOutcome,
               Settle, SettleUnknown, LoseGrant, Final
  <2>3. QED
      BY <2>1, <2>2
<1>5. ASSUME NEW g \in Gateways, GatewayStep(g), effects' /= effects
      PROVE  ~ConflictDomainOccupied(effects'[x])
  <2>1. PICK t \in 0..now : IssueDispatchPermit(g, t)
      BY <1>5 DEF GatewayStep, IssueRead, BeginRead, BeginDispatch, EndCall
  <2>2. x /= call[g].effect
      BY <1>2, <2>1 DEF IssueDispatchPermit, IssueCurrent, Final
  <2>3. effects'[x] = effects[x]
      BY <1>1, <2>1, <2>2 DEF IssueDispatchPermit
  <2>4. QED
      BY <2>3
<1>6. ASSUME NEW p \in Permits, PermitStep(p)
      PROVE  effects' = effects
    BY <1>6 DEF PermitStep, RecordEnforcementReceipt, ExpirePermit, RevokePermit
<1>7. QED
    BY <1>3, <1>4, <1>5, <1>6 DEF Next, Tick, effectVars

\* An effect that released its conflict domain never occupies it again.
THEOREM ReleasesAreFinal == EffectSpec => ReleaseIsFinal
<1>1. EffectInv /\ [Next]_effectVars =>
          [\A e \in Effects : ~ConflictDomainOccupied(effects[e]) =>
                              ~ConflictDomainOccupied(effects'[e])]_effectVars
    BY ReleasedStep
<1>2. QED
    BY <1>1, EffectInvariant, PTL DEF EffectSpec, ReleaseIsFinal
=============================================================================
