---------------------- MODULE InstanceAggregateProofs ----------------------
(***************************************************************************)
(* What the aggregate promises about an instance, for every sequence of    *)
(* requests of any length.                                                 *)
(***************************************************************************)
EXTENDS InstanceAggregate, TLAPS

\* Inductive: the rules compare two valid states, so that the current state is
\* valid is needed to show what a fence implies.
AggregateInv == AggregateTypeOK /\ StateValid(state)

\* Every step replaces the state by a valid one and keeps a fence.
LEMMA StepFacts ==
    ASSUME AggregateNext
    PROVE  /\ state' \in InstanceState
           /\ StateValid(state')
           /\ state.certainty = "fenced" => state'.certainty = "fenced"
           /\ revision' = revision + 1 /\ revision < MaxRevision
           /\ bound' = bound \/ bound' = TRUE
<1>1. PICK expected \in 1..revision, next \in InstanceState :
         \/ \E ctx \in Context : Transition(expected, next, ctx)
         \/ CommitActivation(expected, next)
  BY DEF AggregateNext
<1>0. revision < MaxRevision
  BY DEF AggregateNext
<1>2. ASSUME NEW ctx \in Context, Transition(expected, next, ctx)
      PROVE  /\ state' = next /\ revision' = revision + 1 /\ bound' = bound
             /\ StateTransitionValid(state, next, ctx)
  BY <1>2, Zenon DEF Transition
<1>3. ASSUME CommitActivation(expected, next)
      PROVE  /\ state' = next /\ revision' = revision + 1 /\ bound' = TRUE
             /\ StateTransitionValid(state, next, NoContext)
  BY <1>3, Zenon DEF CommitActivation
<1>4. ASSUME NEW ctx, StateTransitionValid(state, next, ctx)
      PROVE  /\ StateValid(next)
             /\ state.certainty = "fenced" => next.certainty = "fenced"
  BY <1>4, Zenon DEF StateTransitionValid
<1>5. CASE \E ctx \in Context : Transition(expected, next, ctx)
  BY <1>0, <1>2, <1>4, <1>5, Zenon
<1>6. CASE CommitActivation(expected, next)
  BY <1>0, <1>3, <1>4, <1>6, Zenon
<1> QED
  BY <1>0, <1>1, <1>5, <1>6, Zenon

\* The invariant holds at the start and every step keeps it.
LEMMA AggregateInvInductive ==
    /\ AggregateInit => AggregateInv
    /\ AggregateInv /\ [AggregateNext]_aggregateVars => AggregateInv'
<1>1. ASSUME AggregateInit PROVE AggregateInv
  <2>1. state \in InstanceState
    BY <1>1 DEF AggregateInit, InstanceState, Pending, Terminal
  <2>2. AggregateTypeOK
    <3>1. revision \in 1..MaxRevision
      BY <1>1, AggregateAssumption DEF AggregateInit
    <3>2. bound \in BOOLEAN
      BY <1>1 DEF AggregateInit
    <3> QED
      BY <2>1, <3>1, <3>2 DEF AggregateTypeOK
  <2>3. StateValid(state)
    BY <1>1 DEF AggregateInit, StateValid, Pending, Preflighting, Activating,
                Provisioning, Stopping, Terminal
  <2> QED
    BY <2>2, <2>3 DEF AggregateInv
<1>2. ASSUME AggregateInv, AggregateNext PROVE AggregateInv'
  <2>1. bound \in BOOLEAN /\ revision \in 1..MaxRevision
    BY <1>2 DEF AggregateInv, AggregateTypeOK
  <2>2. /\ state' \in InstanceState
        /\ StateValid(state')
        /\ revision' = revision + 1 /\ revision < MaxRevision
        /\ bound' = bound \/ bound' = TRUE
    BY <1>2, StepFacts, Zenon
  <2>3. revision' \in 1..MaxRevision
    BY <2>1, <2>2, AggregateAssumption
  <2>4. bound' \in BOOLEAN
    BY <2>1, <2>2, Zenon
  <2> QED
    BY <2>2, <2>3, <2>4, Zenon DEF AggregateInv, AggregateTypeOK
<1>3. AggregateInv /\ UNCHANGED aggregateVars => AggregateInv'
  <2>1. UNCHANGED aggregateVars
          => state' = state /\ bound' = bound /\ revision' = revision
    BY DEF aggregateVars
  <2> QED
    BY <2>1, Zenon DEF AggregateInv, AggregateTypeOK
<1> QED
  BY <1>1, <1>2, <1>3

\* The phase, certainty and scope that Transition and CommitActivation write are
\* always those of a well-formed instance.
THEOREM AggregateTypes == AggregateSpec => []AggregateTypeOK
<1>1. AggregateSpec => []AggregateInv
  BY AggregateInvInductive, PTL DEF AggregateSpec
<1>2. AggregateInv => AggregateTypeOK
  BY DEF AggregateInv
<1> QED
  BY <1>1, <1>2, PTL

\* Fencing is final: no request, under any context, brings a fenced instance
\* back to a phase in which it executes.
THEOREM AggregateFencedForever == AggregateSpec => FencedForever
<1> DEFINE Fenced == state.certainty = "fenced"
           Ending == state.certainty = "fenced" /\ state.phase \in {Stopping, Terminal}
<1>1. AggregateInv /\ Fenced => Ending
  BY DEF AggregateInv, StateValid
<1>2. AggregateInv /\ Fenced /\ [AggregateNext]_aggregateVars => Fenced'
  <2>1. AggregateInv /\ Fenced /\ AggregateNext => Fenced'
    BY StepFacts DEF AggregateInv
  <2>2. Fenced /\ UNCHANGED aggregateVars => Fenced'
    BY DEF aggregateVars
  <2> QED
    BY <2>1, <2>2
<1>3. AggregateSpec => []AggregateInv
  BY AggregateInvInductive, PTL DEF AggregateSpec
<1> QED
  BY <1>1, <1>2, <1>3, PTL DEF AggregateSpec, FencedForever
============================================================================
