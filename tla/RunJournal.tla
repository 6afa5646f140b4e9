----------------------------- MODULE RunJournal -----------------------------
(***************************************************************************)
(* The Run facts of one instance: the journal's operations over the        *)
(* compare-and-swap store (runtime/kernel/run_journal.go,                  *)
(* runtime/control/run_fact.go, the run part of runtime/fakes/             *)
(* fact_store.go) and the gateway that ingests the completion claims of    *)
(* components (runtime/kernel/run_claim_gateway.go) over the evidence log  *)
(* (runtime/fakes/components.go).                                          *)
(*                                                                         *)
(* Every call into the store or the log is one step; a caller works on a   *)
(* copy between two of them, others interleave, the reply of a write may   *)
(* be lost and a caller may die.                                           *)
(*                                                                         *)
(* Abstracted: the execution scope, session reference and instance epoch,  *)
(* the same in every call for one instance; the end time, set together     *)
(* with the outcome; the source ID, one per instance.  Run status pending  *)
(* is not in the model: the journal creates runs as running.               *)
(***************************************************************************)
EXTENDS Naturals, Sequences

CONSTANTS Runs,       \* run IDs
          Callers,    \* concurrent users of the journal
          Sources,    \* source sequence numbers of observations
          Digests,    \* payload digests
          Kinds,      \* claim kinds
          Outcomes,   \* execution outcomes
          MaxTime     \* bound: last value of the clock

ASSUME RunAssumption ==
    /\ Sources \subseteq Nat \ {0}
    /\ MaxTime \in Nat
    /\ "none" \notin Runs \cup Digests \cup Kinds \cup Outcomes

VARIABLES runs,      \* [Runs -> run record]
          active,    \* the instance's entry in activeRuns, "none" without one
          evidence,  \* the evidence log: digests in order of arrival
          observed,  \* [Sources -> position in the log, 0 without one]
          now,
          caller     \* [Callers -> call in progress or finished]

runVars == <<runs, active, evidence, observed, now, caller>>

----------------------------------------------------------------------------
(* Records.                                                                *)

Claims == [source : Sources, digest : Digests, kind : Kinds, ref : Nat, at : Nat]
NoClaim == [source |-> 0, digest |-> "none", kind |-> "none", ref |-> 0, at |-> 0]

RunRecord ==
    [status  : {"absent", "running", "stopping", "terminal"},
     rev     : Nat,
     started : Nat,
     outcome : Outcomes \cup {"none"},
     claim   : Claims \cup {NoClaim}]

RunAt(status, rev, started, outcome, claim) ==
    [status |-> status, rev |-> rev, started |-> started, outcome |-> outcome,
     claim |-> claim]

NoRecord == RunAt("absent", 0, 0, "none", NoClaim)

Live(run) == run.status \in {"running", "stopping"}

\* AgentRunRecord.Validate
RunValid(run) ==
    /\ run.rev > 0
    /\ Live(run) => run.outcome = "none"
    /\ run.status = "terminal" => run.outcome # "none"
    /\ run.claim # NoClaim => run.claim.at >= run.started

\* ValidateRunFactTransition
RunTransitionValid(current, next) ==
    LET claimAttached == current.claim = NoClaim /\ next.claim # NoClaim
    IN  /\ RunValid(current)
        /\ RunValid(next)
        /\ next.rev = current.rev + 1
        /\ current.claim # NoClaim => next.claim = current.claim
        /\ \/ current.status = "running" /\ next.status = "running" /\ claimAttached
           \/ current.status = "running" /\ next.status \in {"stopping", "terminal"}
           \/ current.status = "stopping" /\ next.status = "stopping" /\ claimAttached
           \/ current.status = "stopping" /\ next.status = "terminal"
        /\ next.started = current.started

----------------------------------------------------------------------------
(* Calls.  A finished call keeps its answer until the caller forgets it.   *)

Call(pc, op, run, copy, claim, outcome) ==
    [pc |-> pc, op |-> op, run |-> run, copy |-> copy, claim |-> claim,
     outcome |-> outcome]

NoCall == Call("idle", "none", "none", NoRecord, NoClaim, "none")

Answers == {"ok", "error", "unknown"}

CallType ==
    [pc      : {"idle", "append", "record", "cas", "reinspect"} \cup Answers,
     op      : {"none", "start", "stop", "claim", "finish"},
     run     : Runs \cup {"none"},
     copy    : RunRecord,
     claim   : Claims \cup {NoClaim},
     outcome : Outcomes \cup {"none"}]

SetCall(c, call) == caller' = [caller EXCEPT ![c] = call]

\* The call moves on with its arguments, at pc and with this copy.
Continue(c, pc, copy) ==
    SetCall(c, Call(pc, caller[c].op, caller[c].run, copy, caller[c].claim,
                    caller[c].outcome))

Answer(c, answer) == Continue(c, answer, NoRecord)

\* A write succeeded: its reply arrives or is lost.
Written(c) == \E answer \in {"ok", "unknown"} : Answer(c, answer)

Idle(c) == caller[c].pc = "idle"

\* Start: CreateRun.
Start(c, r) ==
    /\ Idle(c)
    /\ IF runs[r].status = "absent" /\ active = "none"
       THEN /\ runs' = [runs EXCEPT ![r] = RunAt("running", 1, now, "none", NoClaim)]
            /\ active' = r
            /\ \E answer \in {"ok", "unknown"} :
                  SetCall(c, Call(answer, "start", r, NoRecord, NoClaim, "none"))
       ELSE /\ UNCHANGED <<runs, active>>
            /\ SetCall(c, Call("error", "start", r, NoRecord, NoClaim, "none"))
    /\ UNCHANGED <<evidence, observed, now>>

\* BeginStop, up to its inspection.
BeginStop(c, r) ==
    /\ Idle(c)
    /\ SetCall(c,
          Call(CASE runs[r].status = "stopping" -> "ok"
                 [] runs[r].status = "running"  -> "cas"
                 [] OTHER                       -> "error",
               "stop", r,
               IF runs[r].status = "running" THEN runs[r] ELSE NoRecord,
               NoClaim, "none"))
    /\ UNCHANGED <<runs, active, evidence, observed, now>>

\* Finish, up to its inspection.
Finish(c, r, outcome) ==
    /\ Idle(c)
    /\ SetCall(c,
          Call(CASE Live(runs[r])                -> "cas"
                 [] runs[r].status = "terminal"
                       /\ runs[r].outcome = outcome -> "ok"
                 [] OTHER                        -> "error",
               "finish", r, IF Live(runs[r]) THEN runs[r] ELSE NoRecord,
               NoClaim, outcome))
    /\ UNCHANGED <<runs, active, evidence, observed, now>>

\* Ingest, up to its inspection: the claim has no evidence reference yet.
Ingest(c, r, source, digest, kind, at) ==
    /\ Idle(c)
    /\ SetCall(c,
          Call(IF Live(runs[r]) /\ at >= runs[r].started THEN "append" ELSE "error",
               "claim", r, NoRecord,
               [source |-> source, digest |-> digest, kind |-> kind, ref |-> 0,
                at |-> at],
               "none"))
    /\ UNCHANGED <<runs, active, evidence, observed, now>>

WithRef(claim, ref) ==
    [source |-> claim.source, digest |-> claim.digest, kind |-> claim.kind,
     ref |-> ref, at |-> claim.at]

ToRecord(c, ref) ==
    SetCall(c, Call("record", "claim", caller[c].run, NoRecord,
                    WithRef(caller[c].claim, ref), "none"))

\* Faulty variant.
AppendAnyContent(c) ==
    /\ caller[c].pc = "append"
    /\ LET source == caller[c].claim.source
           digest == caller[c].claim.digest
       IN  IF observed[source] = 0
           THEN /\ evidence' = Append(evidence, digest)
                /\ observed' = [observed EXCEPT ![source] = Len(evidence) + 1]
                /\ ToRecord(c, Len(evidence) + 1)
           ELSE /\ UNCHANGED <<evidence, observed>>
                /\ ToRecord(c, observed[source])
    /\ UNCHANGED <<runs, active, now>>

\* Faulty variant.
AppendNumberedLate(c) ==
    /\ caller[c].pc = "append"
    /\ LET source == caller[c].claim.source
           digest == caller[c].claim.digest
       IN  IF observed[source] = 0
           THEN /\ evidence' = Append(evidence, digest)
                /\ observed' = [observed EXCEPT ![source] = Len(evidence') + 1]
                /\ ToRecord(c, Len(evidence') + 1)
           ELSE /\ UNCHANGED <<evidence, observed>>
                /\ IF evidence[observed[source]] = digest
                   THEN ToRecord(c, observed[source])
                   ELSE Answer(c, "error")
    /\ UNCHANGED <<runs, active, now>>

\* AppendObservation, and the Read that follows it: the log only grows, so
\* that Read finds what was appended whenever it comes.
AppendObservation(c) ==
    /\ caller[c].pc = "append"
    /\ LET source == caller[c].claim.source
           digest == caller[c].claim.digest
       IN  IF observed[source] = 0
           THEN /\ evidence' = Append(evidence, digest)
                /\ observed' = [observed EXCEPT ![source] = Len(evidence) + 1]
                /\ ToRecord(c, Len(evidence) + 1)
           ELSE /\ UNCHANGED <<evidence, observed>>
                /\ IF evidence[observed[source]] = digest
                   THEN ToRecord(c, observed[source])
                   ELSE Answer(c, "error")
    /\ UNCHANGED <<runs, active, now>>

\* RecordCompletionClaim, up to its inspection.
RecordCompletionClaim(c) ==
    /\ caller[c].pc = "record"
    /\ LET run == runs[caller[c].run]
       IN  \/ run.claim = caller[c].claim /\ Answer(c, "ok")
           \/ run.claim \notin {NoClaim, caller[c].claim} /\ Answer(c, "error")
           \/ run.claim = NoClaim /\ ~Live(run) /\ Answer(c, "error")
           \/ run.claim = NoClaim /\ Live(run) /\ Continue(c, "cas", run)
    /\ UNCHANGED <<runs, active, evidence, observed, now>>

\* The record a call writes.
NextRun(call) ==
    CASE call.op = "stop"   -> RunAt("stopping", call.copy.rev + 1, call.copy.started,
                                     call.copy.outcome, call.copy.claim)
      [] call.op = "claim"  -> RunAt(call.copy.status, call.copy.rev + 1,
                                     call.copy.started, call.copy.outcome, call.claim)
      [] call.op = "finish" -> RunAt("terminal", call.copy.rev + 1, call.copy.started,
                                     call.outcome, call.copy.claim)

\* Faulty variant.
SwapIgnoringRevision(call) == RunValid(NextRun(call))

\* The checks of CompareAndSwapRun.
SwapAllowed(call) ==
    /\ runs[call.run].rev = call.copy.rev
    /\ RunTransitionValid(runs[call.run], NextRun(call))

\* Faulty variant.
SwapKeepingActive(c) ==
    /\ caller[c].pc = "cas"
    /\ SwapAllowed(caller[c])
    /\ runs' = [runs EXCEPT ![caller[c].run] = NextRun(caller[c])]
    /\ UNCHANGED active
    /\ Written(c)
    /\ UNCHANGED <<evidence, observed, now>>

\* CompareAndSwapRun.  Only the claim path looks again after a conflict.
CompareAndSwapRun(c) ==
    /\ caller[c].pc = "cas"
    /\ IF SwapAllowed(caller[c])
       THEN /\ runs' = [runs EXCEPT ![caller[c].run] = NextRun(caller[c])]
            /\ active' = IF NextRun(caller[c]).status = "terminal"
                         THEN "none" ELSE caller[c].run
            /\ Written(c)
       ELSE /\ UNCHANGED <<runs, active>>
            /\ IF caller[c].op = "claim" /\ runs[caller[c].run].rev # caller[c].copy.rev
               THEN Continue(c, "reinspect", NoRecord)
               ELSE Answer(c, "error")
    /\ UNCHANGED <<evidence, observed, now>>

\* Faulty variant.
ReinspectAnyClaim(c) ==
    /\ caller[c].pc = "reinspect"
    /\ Answer(c, IF runs[caller[c].run].claim # NoClaim THEN "ok" ELSE "error")
    /\ UNCHANGED <<runs, active, evidence, observed, now>>

\* The second inspection of RecordCompletionClaim: a replay has won.
Reinspect(c) ==
    /\ caller[c].pc = "reinspect"
    /\ Answer(c, IF runs[caller[c].run].claim = caller[c].claim THEN "ok" ELSE "error")
    /\ UNCHANGED <<runs, active, evidence, observed, now>>

\* The caller takes note of its answer, or dies before it gets one.
Forget(c) ==
    /\ ~Idle(c)
    /\ SetCall(c, NoCall)
    /\ UNCHANGED <<runs, active, evidence, observed, now>>

Tick ==
    /\ now < MaxTime
    /\ now' = now + 1
    /\ UNCHANGED <<runs, active, evidence, observed, caller>>

----------------------------------------------------------------------------
RunInit ==
    /\ runs = [r \in Runs |-> NoRecord]
    /\ active = "none"
    /\ evidence = <<>>
    /\ observed = [s \in Sources |-> 0]
    /\ now = 0
    /\ caller = [c \in Callers |-> NoCall]

NewCall(c) ==
    \E r \in Runs :
        \/ Start(c, r)
        \/ BeginStop(c, r)
        \/ \E o \in Outcomes : Finish(c, r, o)
        \/ \E s \in Sources, d \in Digests, k \in Kinds, at \in 0..now :
              Ingest(c, r, s, d, k, at)

RunNext ==
    \/ Tick
    \/ \E c \in Callers :
          \/ NewCall(c) \/ AppendObservation(c) \/ RecordCompletionClaim(c)
          \/ CompareAndSwapRun(c) \/ Reinspect(c) \/ Forget(c)

RunSpec == RunInit /\ [][RunNext]_runVars

----------------------------------------------------------------------------
(* Properties.                                                             *)

\* Types; an observation is found at its position in the log.
RunTypeOK ==
    /\ runs \in [Runs -> RunRecord]
    /\ active \in Runs \cup {"none"}
    /\ evidence \in Seq(Digests)
    /\ observed \in [Sources -> 0..Len(evidence)]
    /\ now \in 0..MaxTime
    /\ caller \in [Callers -> CallType]

\* The index of active runs names exactly the run that is live, so that a
\* coordinator that lost a reply and asks InspectActiveRun finds its run, and
\* an ended run never blocks the next one (CreateRun, CompareAndSwapRun).
ActiveIndexExact ==
    \A r \in Runs : active = r <=> Live(runs[r])

\* A successful answer stands: whoever was told that its stop, claim or
\* outcome was recorded finds exactly that in the journal for ever after, so
\* that no two callers are told of different outcomes or claims
\* (BeginStop, RecordCompletionClaim, Finish and their idempotent replays).
AnswersStand ==
    \A c \in Callers : caller[c].pc = "ok" =>
        LET run == runs[caller[c].run]
        IN  /\ caller[c].op = "start" => run.rev > 0
            /\ caller[c].op = "stop" => run.status \in {"stopping", "terminal"}
            /\ caller[c].op = "claim" => run.claim = caller[c].claim
            /\ caller[c].op = "finish" =>
                  run.status = "terminal" /\ run.outcome = caller[c].outcome

\* A completion claim on a run rests on evidence that was in the log before it:
\* the observation of its source sequence, with its digest, made no earlier
\* than the run began (Ingest).
ClaimIsBacked ==
    \A r \in Runs : runs[r].claim # NoClaim =>
        LET claim == runs[r].claim
        IN  /\ claim.ref \in 1..Len(evidence)
            /\ evidence[claim.ref] = claim.digest
            /\ observed[claim.source] = claim.ref
            /\ claim.at >= runs[r].started

PhaseOf(run) ==
    CASE run.status = "absent" -> "absent"
      [] Live(run)             -> "live"
      [] OTHER                 -> "ended"

Ledger == INSTANCE RunLedger WITH
    phase   <- [r \in Runs |-> PhaseOf(runs[r])],
    claim   <- [r \in Runs |-> runs[r].claim],
    outcome <- [r \in Runs |-> runs[r].outcome]

\* The journal over the compare-and-swap store is a ledger in which a run ID is
\* used once, one run is live at a time, and claim and outcome are decided once.
ImplementsRunLedger == Ledger!LedgerSpec

============================================================================
