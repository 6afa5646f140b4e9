----------------------------- MODULE CommandLog -----------------------------
(***************************************************************************)
(* The command log of one instance and its way into workflow journals: the *)
(* store's AcceptCommand and MarkOutboxDispatched (runtime/fakes/          *)
(* fact_store.go, runtime/ports/command_v2.go), the facade that submits a  *)
(* workflow (application/facade_v2.go) and the dispatcher that hands an    *)
(* accepted command to a journal (application/outbox_dispatcher_v2.go).    *)
(*                                                                         *)
(* Several callers submit and dispatch concurrently, the reply of every    *)
(* write may be lost, and a caller may die between two calls.  A bundle is *)
(* what a caller submits; a retry submits the same bundle again.           *)
(*                                                                         *)
(* Abstracted: actor, authority and execution scope, the same for every    *)
(* command of the instance; the payload, to its digest; the plan, to its   *)
(* expiry and to whether it has an optional step of a kind the step        *)
(* catalog does not know.  A command and its outbox record are written     *)
(* together and share their revision, so that one entry holds both.        *)
(* Nothing in the store deletes an acceptance: the idempotency index is    *)
(* the log itself.                                                         *)
(***************************************************************************)
EXTENDS Naturals, Sequences

CONSTANTS Bundles,      \* the bundles callers may submit
          Callers,
          InitialDesired,
          MaxTime       \* bound: last value of the clock

Kinds == {"start", "resume", "stop_instance", "fence", "revoke",
          "provide_input", "cancel_run", "approve_effect", "deny_effect"}
DesiredStates == {"stopped", "running", "fenced"}

\* effect is the intent and revision an effect decision binds, expected the
\* revision of the precondition.
Envelope ==
    [id       : STRING,
     kind     : Kinds,
     effect   : STRING,
     key      : STRING,
     payload  : STRING,
     expected : Nat \ {0},
     expires  : Nat]

ASSUME CommandAssumption ==
    /\ \A b \in Bundles : /\ b.command \in Envelope
                          /\ b.planExpires \in Nat
                          /\ b.optional \in BOOLEAN
    /\ InitialDesired \in DesiredStates
    /\ MaxTime \in Nat

VARIABLES log,          \* commands and outbox, in order of acceptance
          desired,      \* desired state of the instance
          submissions,  \* [IDs -> set with the stored bundle, or empty]
          journals,     \* [IDs -> journal]
          now,
          caller        \* [Callers -> call in progress]

commandVars == <<log, desired, submissions, journals, now, caller>>

IDs == {b.command.id : b \in Bundles}

Entry == [env        : {b.command : b \in Bundles},
          status     : {"accepted", "superseded"},
          dispatched : BOOLEAN]

\* The revision of the desired state: one more with every accepted command.
Revision == Len(log) + 1

----------------------------------------------------------------------------
(* The rules of the log.                                                   *)

StopKinds == {"stop_instance", "fence", "revoke"}
NonLifecycle == {"provide_input", "cancel_run", "approve_effect", "deny_effect"}

\* ValidateFor
MutationValid(kind, m) ==
    /\ kind \in {"start", "resume"} => m = "running"
    /\ kind = "stop_instance" => m = "stopped"
    /\ kind \in {"fence", "revoke"} => m = "fenced"

\* CommandSupersedesV2
Supersedes(newer, older) ==
    CASE newer.kind \in {"revoke", "fence"} ->
            older.kind \in {"approve_effect", "start", "resume", "provide_input"}
      [] newer.kind = "stop_instance" ->
            older.kind \in {"start", "resume", "provide_input"}
      [] newer.kind = "cancel_run" -> older.kind = "provide_input"
      [] newer.kind = "deny_effect" ->
            older.kind = "approve_effect" /\ newer.effect = older.effect
      [] OTHER -> FALSE

\* Faulty variant.
SameRequestByID(e, f) == e.id = f.id

\* commandIdempotencyKey
SameRequest(e, f) == e.kind = f.kind /\ e.key = f.key

Open(entry) == entry.status = "accepted"

Prior(env) == {i \in 1..Len(log) : SameRequest(log[i].env, env)}

Dominating(env) ==
    {i \in 1..Len(log) : Open(log[i]) /\ Supersedes(log[i].env, env)}
SupersededBy(env) ==
    {i \in 1..Len(log) : Open(log[i]) /\ Supersedes(env, log[i].env)}
SameID(env) == {i \in 1..Len(log) : log[i].env.id = env.id}

\* Faulty variant.
NotDominatedByLast(env) == Len(log) \notin Dominating(env)

NotDominated(env) == Dominating(env) = {}

\* Faulty variant.
AdmitsAnyRevision(env, m) ==
    /\ Prior(env) = {}
    /\ env.kind \in NonLifecycle => m = desired
    /\ NotDominated(env)
    /\ SameID(env) = {}

\* The checks of AcceptCommand after expiry, up to the evidence store.  A
\* request in the log is not admitted again, whether its payload is the same
\* or not.
Admits(env, m) ==
    /\ Prior(env) = {}
    /\ env.expected = Revision
    /\ env.kind \in NonLifecycle => m = desired
    /\ NotDominated(env)
    /\ SameID(env) = {}

EntryOf(env, status, dispatched) ==
    [env |-> env, status |-> status, dispatched |-> dispatched]

Superseded(entry) == EntryOf(entry.env, "superseded", entry.dispatched)
Dispatched(entry) == EntryOf(entry.env, entry.status, TRUE)

\* Faulty variant.
LogWithOnlyNewest(env) ==
    Append([i \in 1..Len(log) |-> Superseded(log[i])],
           EntryOf(env, "accepted", FALSE))

LogWith(env) ==
    Append([i \in 1..Len(log) |->
              IF i \in SupersededBy(env) THEN Superseded(log[i]) ELSE log[i]],
           EntryOf(env, "accepted", FALSE))

----------------------------------------------------------------------------
(* Callers.                                                                *)

JournalOf(rev, skippedAt) == [rev |-> rev, skippedAt |-> skippedAt]
NoJournal == JournalOf(0, 0)

\* bundles is the set with the bundle of the call, empty without one, mutation
\* the desired state a submission asks for, t a clock reading, copy the
\* dispatcher's copy of the journal, marked the dispatched flag it has read.
Call(pc, bundles, mutation, t, copy, marked) ==
    [pc |-> pc, bundles |-> bundles, mutation |-> mutation, t |-> t,
     copy |-> copy, marked |-> marked]

NoCall == Call("idle", {}, "none", 0, NoJournal, FALSE)
Submission(b, m) == Call("accept", {b}, m, now, NoJournal, FALSE)
\* A dispatcher's call, which has read the dispatched flag.
Dispatching(pc, bundles, copy, marked) == Call(pc, bundles, "none", 0, copy, marked)

CallType ==
    [pc       : {"idle", "accept", "create", "skip", "mark"},
     bundles  : SUBSET Bundles,
     mutation : DesiredStates \cup {"none"},
     t        : Nat,
     copy     : [rev : Nat, skippedAt : Nat],
     marked   : BOOLEAN]

SetCall(c, call) == caller' = [caller EXCEPT ![c] = call]
\* The call returns: with a result, or with an error.
Return(c) == SetCall(c, NoCall)
Idle(c) == caller[c].pc = "idle"
BundleOf(c) == CHOOSE b \in caller[c].bundles : TRUE

\* Faulty variant.
StoredAny(b) == TRUE

\* Nothing else is stored under the ID of the bundle.
StoredSame(b) == submissions[b.command.id] \subseteq {b}

\* SubmitWorkflowV2, up to its submission fact.  A lost reply is followed by
\* an inspection; what is stored never changes.
Submit(c, b, m) ==
    /\ Idle(c)
    /\ MutationValid(b.command.kind, m)
    /\ now < b.planExpires /\ StoredSame(b)
    /\ submissions' = IF submissions[b.command.id] = {}
                      THEN [submissions EXCEPT ![b.command.id] = {b}]
                      ELSE submissions
    /\ SetCall(c, Submission(b, m))
    /\ UNCHANGED <<log, desired, journals, now>>

\* AcceptCommand reads the clock, then locks.  A request that is in the log
\* already gets the acceptance it got before.  After a conflict or a lost
\* reply the facade still looks for its envelope in the log and the outbox,
\* and returns what it finds there or the error; that only reads.
AcceptCommand(c) ==
    /\ caller[c].pc = "accept"
    /\ LET env == BundleOf(c).command
           m == caller[c].mutation
       IN  \E t \in caller[c].t..now :
              IF t < env.expires /\ Admits(env, m)
              THEN log' = LogWith(env) /\ desired' = m
              ELSE UNCHANGED <<log, desired>>
    /\ Return(c)
    /\ UNCHANGED <<submissions, journals, now>>

\* Faulty variant.
DispatchMarksFirst(c, id) ==
    /\ Idle(c)
    /\ \E b \in submissions[id] : \E i \in SameID(b.command) :
          /\ now < b.planExpires
          /\ log[i].env = b.command
          /\ Open(log[i])
          /\ SetCall(c, Dispatching("mark", {b}, NoJournal, log[i].dispatched))
    /\ UNCHANGED <<log, desired, submissions, journals, now>>

\* DispatchCommandV2, up to its reads of submission, log, outbox and step
\* catalog, of which any may fail.
Dispatch(c, id) ==
    /\ Idle(c)
    /\ \E b \in submissions[id] : \E i \in SameID(b.command) :
          /\ now < b.planExpires
          /\ log[i].env = b.command
          /\ Open(log[i])
          /\ SetCall(c, Dispatching("create", {b}, NoJournal, log[i].dispatched))
    /\ UNCHANGED <<log, desired, submissions, journals, now>>

\* CreateWorkflowJournalV2, and the inspection that follows a lost reply or a
\* journal that is there already and has moved on.
CreateJournal(c) ==
    /\ caller[c].pc = "create"
    /\ LET id == BundleOf(c).command.id
           journal == IF journals[id].rev = 0 THEN JournalOf(1, 0)
                                              ELSE journals[id]
           pc == IF BundleOf(c).optional /\ journal.skippedAt = 0
                 THEN "skip" ELSE "mark"
       IN  /\ journals' = [journals EXCEPT ![id] = journal]
           /\ SetCall(c, Dispatching(pc, caller[c].bundles, journal, caller[c].marked))
    /\ UNCHANGED <<log, desired, submissions, now>>

\* skipOptionalStepV2.  After a conflict the journal found must be exactly the
\* one asked for, its time of update included.
SkipOptionalStep(c) ==
    /\ caller[c].pc = "skip"
    /\ LET id == BundleOf(c).command.id
           next == JournalOf(caller[c].copy.rev + 1, now + 1)
           done == Dispatching("mark", caller[c].bundles, next, caller[c].marked)
       IN  /\ journals' = IF journals[id] = caller[c].copy
                          THEN [journals EXCEPT ![id] = next] ELSE journals
           /\ IF journals'[id] = next THEN SetCall(c, done) ELSE Return(c)
    /\ UNCHANGED <<log, desired, submissions, now>>

\* MarkOutboxDispatched, and the ListOutbox that follows a lost reply.
MarkDispatched(c) ==
    /\ caller[c].pc = "mark"
    /\ LET i == CHOOSE i \in SameID(BundleOf(c).command) : TRUE
       IN  log' = IF caller[c].marked THEN log
                  ELSE [log EXCEPT ![i] = Dispatched(log[i])]
    /\ Return(c)
    /\ UNCHANGED <<desired, submissions, journals, now>>

\* The caller dies, or its call fails: the store or the catalog is unavailable.
Dies(c) ==
    /\ ~Idle(c)
    /\ SetCall(c, NoCall)
    /\ UNCHANGED <<log, desired, submissions, journals, now>>

Tick ==
    /\ now < MaxTime
    /\ now' = now + 1
    /\ UNCHANGED <<log, desired, submissions, journals, caller>>

----------------------------------------------------------------------------
CommandInit ==
    /\ log = <<>>
    /\ desired = InitialDesired
    /\ submissions = [id \in IDs |-> {}]
    /\ journals = [id \in IDs |-> NoJournal]
    /\ now = 0
    /\ caller = [c \in Callers |-> NoCall]

CommandNext ==
    \/ Tick
    \/ \E c \in Callers :
          \/ \E b \in Bundles, m \in DesiredStates : Submit(c, b, m)
          \/ \E id \in IDs : Dispatch(c, id)
          \/ AcceptCommand(c) \/ CreateJournal(c)
          \/ SkipOptionalStep(c) \/ MarkDispatched(c) \/ Dies(c)

CommandSpec == CommandInit /\ [][CommandNext]_commandVars

----------------------------------------------------------------------------
(* Properties.                                                             *)

\* Types; and the n-th command in the log was admitted at revision n.
CommandTypeOK ==
    /\ log \in Seq(Entry)
    /\ \A i \in 1..Len(log) : log[i].env.expected = i
    /\ desired \in DesiredStates
    /\ \A id \in IDs : submissions[id] \in {{}} \cup {{b} : b \in Bundles}
    /\ journals \in [IDs -> [rev : 0..2, skippedAt : 0..(MaxTime + 1)]]
    /\ now \in 0..MaxTime
    /\ caller \in [Callers -> CallType]

\* However callers race and retry, no two commands that are both in force
\* contradict each other: a command in force never has another one in force
\* that supersedes it, neither an earlier nor a later one (AcceptCommand).
NothingInForceIsDominated ==
    \A i, j \in 1..Len(log) :
        Open(log[i]) /\ Open(log[j]) => ~Supersedes(log[i].env, log[j].env)

\* Once a stop, a fence or a revocation is in the log, the instance is never
\* wanted running again, whatever is accepted after it
\* (AcceptCommand with CommandSupersedesV2).
StopIsFinal ==
    (\E i \in 1..Len(log) : log[i].env.kind \in StopKinds) => desired # "running"

\* A request is in the log at most once, under its ID and under its
\* idempotency key, however often it is retried after lost replies and
\* whatever happened in between (AcceptCommand, SubmitWorkflowV2).
AcceptedOnce ==
    \A i, j \in 1..Len(log) :
        /\ log[i].env.id = log[j].env.id => i = j
        /\ log[i].env.kind = log[j].env.kind /\ log[i].env.key = log[j].env.key => i = j

\* What is carried out is what was submitted: behind every command is a
\* submission with exactly its envelope, behind every journal a command
\* (SubmitWorkflowV2, DispatchCommandV2).
CommandsAreBacked ==
    /\ \A i \in 1..Len(log) :
          \E b \in submissions[log[i].env.id] : b.command = log[i].env
    /\ \A id \in IDs : journals[id].rev > 0 =>
          \E i \in 1..Len(log) : log[i].env.id = id

\* A command marked as dispatched has its journal, in which the optional step
\* nobody can carry out is skipped: the mark comes last, through crashes, lost
\* replies and a second dispatcher (DispatchCommandV2).
MarkedLast ==
    \A i \in 1..Len(log) : log[i].dispatched =>
        LET id == log[i].env.id
        IN  /\ journals[id].rev > 0
            /\ \A b \in submissions[id] : b.optional => journals[id].skippedAt > 0

============================================================================
