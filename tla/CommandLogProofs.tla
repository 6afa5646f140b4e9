-------------------------- MODULE CommandLogProofs --------------------------
(***************************************************************************)
(* That the rules of the command log keep a stopped instance stopped, and  *)
(* that what is carried out is what was submitted, for any bundles, any    *)
(* number of callers and any length of the log.                            *)
(*                                                                         *)
(* Two strengthenings.  LogInv: stops, fences and revocations stay in      *)
(* force for ever, because no command supersedes them; and a submission on *)
(* its way to the store carries a desired state that fits its kind.        *)
(* BackingInv, over it: every call in flight has found what its last step  *)
(* relies on, and what was found stays.                                    *)
(***************************************************************************)
EXTENDS CommandLog, TLAPS

\* A call that asks for acceptance has one bundle and a fitting mutation.
AsksRightly(call) ==
    call.pc = "accept" =>
        \E b \in Bundles : /\ call.bundles = {b}
                           /\ MutationValid(b.command.kind, call.mutation)

StopsInForce ==
    \A i \in 1..Len(log) : log[i].env.kind \in StopKinds => Open(log[i])

LogRules == StopsInForce /\ StopIsFinal /\ NothingInForceIsDominated /\ AcceptedOnce

LogInv ==
    /\ log \in Seq(Entry)
    /\ caller = [c \in Callers |-> caller[c]]
    /\ \A c \in Callers : AsksRightly(caller[c])
    /\ LogRules

----------------------------------------------------------------------------
(* Facts about the order of commands.                                      *)

\* Only commands that move an instance forward are ever superseded.
LEMMA SupersededKinds ==
    ASSUME NEW n, NEW o, Supersedes(n, o)
    PROVE  o.kind \in {"approve_effect", "start", "resume", "provide_input"}
BY DEF Supersedes

\* No command supersedes a command of its own kind.
LEMMA SupersedesIrreflexive ==
    ASSUME NEW n
    PROVE  ~Supersedes(n, n)
BY DEF Supersedes

\* Every stop, fence and revocation supersedes every start.
LEMMA StopsSupersedeStarts ==
    ASSUME NEW n, NEW o, n.kind \in StopKinds, o.kind \in {"start", "resume"}
    PROVE  Supersedes(n, o)
BY DEF Supersedes, StopKinds

----------------------------------------------------------------------------
(* Steps that leave the commands and their status alone.                   *)

\* A step that keeps commands, statuses and the desired state keeps the rules.
LEMMA SameCommands ==
    ASSUME LogInv,
           Len(log') = Len(log),
           \A i \in 1..Len(log) : log'[i].env = log[i].env /\ log'[i].status = log[i].status,
           desired' = desired
    PROVE  LogRules'
<1>1. 1..Len(log') = 1..Len(log)
    OBVIOUS
<1>2. \A i \in 1..Len(log) : Open(log'[i]) <=> Open(log[i])
    BY DEF Open
<1>3. StopsInForce'
    BY <1>1, <1>2 DEF LogInv, LogRules, StopsInForce
<1>4. StopIsFinal'
    BY <1>1 DEF LogInv, LogRules, StopIsFinal
<1>5. NothingInForceIsDominated'
    BY <1>1, <1>2 DEF LogInv, LogRules, NothingInForceIsDominated
<1>6. AcceptedOnce'
    BY <1>1 DEF LogInv, LogRules, AcceptedOnce
<1>7. QED
    BY <1>3, <1>4, <1>5, <1>6 DEF LogRules

\* A step that changes one call and leaves the log alone.
LEMMA OneCall ==
    ASSUME LogInv, NEW c \in Callers, NEW call,
           AsksRightly(call), SetCall(c, call), log' = log, desired' = desired
    PROVE  LogInv'
<1>1. LogRules'
    BY SameCommands
<1>2. caller' = [d \in Callers |-> caller'[d]]
    BY DEF LogInv, SetCall
<1>3. \A d \in Callers : AsksRightly(caller'[d])
    BY DEF LogInv, SetCall
<1>4. QED
    BY <1>1, <1>2, <1>3 DEF LogInv

\* No call and the calls of a dispatcher ask for no acceptance.
LEMMA CallsThatDoNotAsk ==
    /\ AsksRightly(NoCall)
    /\ \A pc, bs, copy, marked : pc # "accept" => AsksRightly(Dispatching(pc, bs, copy, marked))
BY DEF AsksRightly, NoCall, Dispatching, Call

----------------------------------------------------------------------------
(* The step that accepts a command.                                        *)

\* Accepting a command that is admitted keeps the rules of the log.
LEMMA AcceptKeepsLog ==
    ASSUME LogInv, NEW b \in Bundles, NEW m,
           MutationValid(b.command.kind, m),
           Admits(b.command, m), log' = LogWith(b.command), desired' = m
    PROVE  log' \in Seq(Entry) /\ LogRules'
<1> DEFINE env == b.command
           k == Len(log) + 1
           new == EntryOf(env, "accepted", FALSE)
           old(i) == IF i \in SupersededBy(env) THEN Superseded(log[i]) ELSE log[i]
<1>1. log \in Seq(Entry) /\ Len(log) \in Nat
    BY DEF LogInv
<1>2. env \in Envelope /\ new \in Entry
    BY CommandAssumption DEF Entry, EntryOf
<1>3. ASSUME NEW i \in 1..Len(log)
      PROVE  /\ old(i) \in Entry
             /\ old(i).env = log[i].env
             /\ i \in SupersededBy(env) => ~Open(old(i))
             /\ i \notin SupersededBy(env) => old(i) = log[i]
  <2>1. log[i] \in Entry
      BY <1>1
  <2>2. CASE i \in SupersededBy(env)
    <3>1. old(i) = Superseded(log[i])
        BY <2>2
    <3>2. QED
        BY <2>1, <2>2, <3>1 DEF Superseded, EntryOf, Entry, Open
  <2>3. CASE i \notin SupersededBy(env)
      BY <2>1, <2>3
  <2>4. QED
      BY <2>2, <2>3
<1>4. [i \in 1..Len(log) |-> old(i)] \in Seq(Entry)
    BY <1>1, <1>3
<1>5. /\ log' \in Seq(Entry)
      /\ Len(log') = k
      /\ log'[k] = new
      /\ \A i \in 1..Len(log) : log'[i] = old(i)
  <2> HIDE DEF old, new
  <2>1. log' = Append([i \in 1..Len(log) |-> old(i)], new)
      BY DEF LogWith, old, new
  <2>2. QED
      BY <1>1, <1>2, <1>4, <2>1
<1>6. \A i \in 1..Len(log) : log'[i].env = log[i].env
    BY <1>3, <1>5
<1>7. \A i \in 1..Len(log) : Open(log'[i]) =>
         Open(log[i]) /\ ~Supersedes(env, log[i].env)
    BY <1>3, <1>5 DEF SupersededBy
<1>8. \A i \in 1..Len(log) : Open(log[i]) => ~Supersedes(log[i].env, env)
    BY DEF Admits, NotDominated, Dominating
<1>9. 1..Len(log') = 1..Len(log) \cup {k}
    BY <1>1, <1>5
<1>10. new.env = env /\ Open(new)
    BY DEF Open, EntryOf
<1>11. StopsInForce'
  <2>1. ASSUME NEW i \in 1..Len(log), log[i].env.kind \in StopKinds
        PROVE  Open(log'[i])
    <3>1. Open(log[i])
        BY <2>1 DEF LogInv, LogRules, StopsInForce
    <3>2. ~Supersedes(env, log[i].env)
        BY <2>1, SupersededKinds DEF StopKinds
    <3>3. QED
        BY <3>1, <3>2, <1>3, <1>5 DEF SupersededBy
  <2>2. QED
      BY <2>1, <1>5, <1>6, <1>9, <1>10 DEF StopsInForce
<1>12. StopIsFinal'
  <2>1. SUFFICES ASSUME NEW i \in 1..Len(log'), log'[i].env.kind \in StopKinds
                 PROVE  m # "running"
      BY DEF StopIsFinal
  <2>2. CASE i = k
      BY <2>1, <2>2, <1>5, <1>10 DEF MutationValid, StopKinds
  <2>3. CASE i \in 1..Len(log)
    <3>1. log[i].env.kind \in StopKinds /\ Open(log[i])
        BY <2>1, <2>3, <1>6 DEF LogInv, LogRules, StopsInForce
    <3>2. desired # "running"
        BY <3>1, <2>3 DEF LogInv, LogRules, StopIsFinal
    <3>3. env.kind \notin {"start", "resume"}
        BY <3>1, <2>3, <1>8, StopsSupersedeStarts
    <3>4. env.kind \in Kinds
        BY <1>2 DEF Envelope
    <3>5. CASE env.kind \in NonLifecycle
        BY <3>2, <3>5 DEF Admits
    <3>6. CASE env.kind \in StopKinds
        BY <3>6 DEF MutationValid, StopKinds
    <3>7. QED
        BY <3>3, <3>4, <3>5, <3>6 DEF Kinds, NonLifecycle, StopKinds
  <2>4. QED
      BY <2>2, <2>3, <1>9
<1>13. NothingInForceIsDominated'
  <2>1. SUFFICES ASSUME NEW i \in 1..Len(log'), NEW j \in 1..Len(log'),
                        Open(log'[i]), Open(log'[j])
                 PROVE  ~Supersedes(log'[i].env, log'[j].env)
      BY DEF NothingInForceIsDominated
  <2>2. CASE i = k /\ j = k
      BY <2>2, SupersedesIrreflexive
  <2>3. CASE i = k /\ j \in 1..Len(log)
      BY <2>1, <2>3, <1>5, <1>6, <1>7, <1>10
  <2>4. CASE i \in 1..Len(log) /\ j = k
      BY <2>1, <2>4, <1>5, <1>6, <1>7, <1>8, <1>10
  <2>5. CASE i \in 1..Len(log) /\ j \in 1..Len(log)
      BY <2>1, <2>5, <1>6, <1>7 DEF LogInv, LogRules, NothingInForceIsDominated
  <2>6. QED
      BY <2>2, <2>3, <2>4, <2>5, <1>9
<1>14. AcceptedOnce'
  <2>1. \A i \in 1..Len(log) : /\ log[i].env.id # env.id
                               /\ ~(log[i].env.kind = env.kind /\ log[i].env.key = env.key)
      BY DEF Admits, Prior, SameRequest, SameID
  <2>2. \A i, j \in 1..Len(log) :
           /\ log[i].env.id = log[j].env.id => i = j
           /\ log[i].env.kind = log[j].env.kind /\ log[i].env.key = log[j].env.key => i = j
      BY DEF LogInv, LogRules, AcceptedOnce
  <2>3. SUFFICES ASSUME NEW i \in 1..Len(log'), NEW j \in 1..Len(log')
                 PROVE  /\ log'[i].env.id = log'[j].env.id => i = j
                        /\ log'[i].env.kind = log'[j].env.kind
                           /\ log'[i].env.key = log'[j].env.key => i = j
      BY DEF AcceptedOnce
  <2>5. CASE i \in 1..Len(log) /\ j \in 1..Len(log)
      BY <2>2, <2>5, <1>6
  <2>6. CASE i = k /\ j \in 1..Len(log)
      BY <2>1, <2>6, <1>5, <1>6, <1>10
  <2>7. CASE i \in 1..Len(log) /\ j = k
      BY <2>1, <2>7, <1>5, <1>6, <1>10
  <2>8. QED
      BY <2>5, <2>6, <2>7, <1>9
<1>15. QED
    BY <1>5, <1>11, <1>12, <1>13, <1>14 DEF LogRules

----------------------------------------------------------------------------
(* The inductive invariant.                                                *)

\* The invariant holds initially.
LEMMA LogInvInit == CommandInit => LogInv
<1>1. SUFFICES ASSUME CommandInit PROVE LogInv
    OBVIOUS
<1>2. log = <<>> /\ log \in Seq(Entry) /\ 1..Len(log) = {}
    BY <1>1 DEF CommandInit
<1>3. /\ caller = [c \in Callers |-> caller[c]]
      /\ \A c \in Callers : AsksRightly(caller[c])
    BY <1>1, CallsThatDoNotAsk DEF CommandInit
<1>4. LogRules
    BY <1>2 DEF LogRules, StopsInForce, StopIsFinal, NothingInForceIsDominated, AcceptedOnce
<1>5. QED
    BY <1>2, <1>3, <1>4 DEF LogInv

\* Every step preserves the invariant, action by action.
LEMMA LogInvStep == LogInv /\ [CommandNext]_commandVars => LogInv'
<1>1. SUFFICES ASSUME LogInv, [CommandNext]_commandVars PROVE LogInv'
    OBVIOUS
<1>2. ASSUME UNCHANGED <<log, desired, caller>> PROVE LogInv'
  <2>1. LogRules'
      BY <1>1, <1>2, SameCommands
  <2>2. QED
      BY <1>1, <1>2, <2>1 DEF LogInv
<1>3. CASE UNCHANGED commandVars
    BY <1>2, <1>3 DEF commandVars
<1>4. CASE Tick
    BY <1>2, <1>4 DEF Tick
<1>5. ASSUME NEW c \in Callers, NEW b \in Bundles, NEW m \in DesiredStates,
             Submit(c, b, m)
      PROVE  LogInv'
  <2>1. AsksRightly(Submission(b, m))
      BY <1>5 DEF Submit, AsksRightly, Submission, Call
  <2>2. QED
      BY <1>1, <1>5, <2>1, OneCall DEF Submit
<1>6. ASSUME NEW c \in Callers, NEW id \in IDs, Dispatch(c, id)
      PROVE  LogInv'
  <2>1. PICK b, i : SetCall(c, Dispatching("create", {b}, NoJournal, log[i].dispatched))
      BY <1>6 DEF Dispatch
  <2>2. AsksRightly(Dispatching("create", {b}, NoJournal, log[i].dispatched))
      BY CallsThatDoNotAsk
  <2>3. QED
      BY <1>1, <1>6, <2>1, <2>2, OneCall DEF Dispatch
<1>7. ASSUME NEW c \in Callers, AcceptCommand(c)
      PROVE  LogInv'
  <2>1. PICK b \in Bundles : /\ caller[c].bundles = {b}
                             /\ MutationValid(b.command.kind, caller[c].mutation)
      BY <1>1, <1>7 DEF LogInv, AsksRightly, AcceptCommand
  <2>2. BundleOf(c) = b
      BY <2>1 DEF BundleOf
  <2>3. SetCall(c, NoCall)
      BY <1>7 DEF AcceptCommand, Return
  <2>4. CASE UNCHANGED <<log, desired>>
      BY <1>1, <2>3, <2>4, OneCall, CallsThatDoNotAsk
  <2>5. CASE /\ Admits(b.command, caller[c].mutation)
             /\ log' = LogWith(b.command) /\ desired' = caller[c].mutation
    <3>1. log' \in Seq(Entry) /\ LogRules'
        BY <1>1, <2>1, <2>5, AcceptKeepsLog
    <3>2. /\ caller' = [d \in Callers |-> caller'[d]]
          /\ \A d \in Callers : AsksRightly(caller'[d])
        BY <1>1, <2>3, CallsThatDoNotAsk DEF LogInv, SetCall
    <3>3. QED
        BY <3>1, <3>2 DEF LogInv
  <2>6. QED
      BY <1>7, <2>2, <2>4, <2>5 DEF AcceptCommand
<1>8. ASSUME NEW c \in Callers, CreateJournal(c)
      PROVE  LogInv'
  <2>1. PICK pc, bs, copy, marked : /\ SetCall(c, Dispatching(pc, bs, copy, marked))
                                    /\ pc # "accept"
      BY <1>8 DEF CreateJournal
  <2>2. QED
      BY <1>1, <1>8, <2>1, OneCall, CallsThatDoNotAsk DEF CreateJournal
<1>9. ASSUME NEW c \in Callers, SkipOptionalStep(c)
      PROVE  LogInv'
  <2>1. \/ SetCall(c, NoCall)
        \/ \E bs, copy, marked : SetCall(c, Dispatching("mark", bs, copy, marked))
      BY <1>9 DEF SkipOptionalStep, Return
  <2>2. QED
      BY <1>1, <1>9, <2>1, OneCall, CallsThatDoNotAsk DEF SkipOptionalStep
<1>10. ASSUME NEW c \in Callers, MarkDispatched(c)
       PROVE  LogInv'
  <2>1. SetCall(c, NoCall) /\ desired' = desired
      BY <1>10 DEF MarkDispatched, Return
  <2>2. CASE log' = log
      BY <1>1, <2>1, <2>2, OneCall, CallsThatDoNotAsk
  <2>3. ASSUME NEW i, log' = [log EXCEPT ![i] = Dispatched(log[i])]
        PROVE  LogInv'
    <3>1. log \in Seq(Entry) /\ \A j \in 1..Len(log) : log[j] \in Entry
        BY <1>1 DEF LogInv
    <3>2. \A j \in 1..Len(log) : /\ log'[j] \in Entry
                                 /\ log'[j].env = log[j].env
                                 /\ log'[j].status = log[j].status
        BY <2>3, <3>1 DEF Dispatched, EntryOf, Entry
    <3>3. log' \in Seq(Entry) /\ Len(log') = Len(log)
      <4>1. Len(log) \in Nat /\ log = [j \in 1..Len(log) |-> log[j]]
          BY <3>1
      <4>2. log' = [j \in 1..Len(log) |-> log'[j]]
          BY <2>3, <4>1
      <4>3. QED
          BY <3>2, <4>1, <4>2
    <3>4. LogRules'
        BY <1>1, <2>1, <3>2, <3>3, SameCommands
    <3>5. /\ caller' = [d \in Callers |-> caller'[d]]
          /\ \A d \in Callers : AsksRightly(caller'[d])
        BY <1>1, <2>1, CallsThatDoNotAsk DEF LogInv, SetCall
    <3>6. QED
        BY <3>3, <3>4, <3>5 DEF LogInv
  <2>4. QED
      BY <1>10, <2>2, <2>3 DEF MarkDispatched
<1>11. ASSUME NEW c \in Callers, Dies(c)
       PROVE  LogInv'
    BY <1>1, <1>11, OneCall, CallsThatDoNotAsk DEF Dies
<1>12. QED
    BY <1>1, <1>3, <1>4, <1>5, <1>6, <1>7, <1>8, <1>9, <1>10, <1>11 DEF CommandNext

----------------------------------------------------------------------------
\* However many callers submit, retry and dispatch, and whatever they submit:
\* an instance that a stop, fence or revocation was accepted for is not wanted
\* running, no command in force supersedes another one in force, and no request
\* is in the log twice (AcceptCommand of the fact store).
THEOREM CommandSafety ==
    CommandSpec => [](StopIsFinal /\ NothingInForceIsDominated /\ AcceptedOnce)
<1>1. LogInv => StopIsFinal /\ NothingInForceIsDominated /\ AcceptedOnce
    BY DEF LogInv, LogRules
<1>2. QED
    BY <1>1, LogInvInit, LogInvStep, PTL DEF CommandSpec

\* AcceptCommand never leaves two commands in force of which one supersedes the
\* other, in whatever order the submissions arrive.
THEOREM DominanceIsKept == CommandSpec => []NothingInForceIsDominated
BY CommandSafety, PTL

\* However often a caller retries, a request enters the log once.
THEOREM RetriesAreRecognised == CommandSpec => []AcceptedOnce
BY CommandSafety, PTL

----------------------------------------------------------------------------
(* From submission to journal.                                             *)
(*                                                                         *)
(* That a command has its submission behind it, and a mark its journal,    *)
(* is decided long before it is written, by the call that is on its way.   *)
(* So the invariant says of every call in flight what it has found; what   *)
(* it has found stays, because log, submissions and journals only grow.    *)

JournalType == [rev : 0..2, skippedAt : 0..(MaxTime + 1)]
JournalOK(j) == j \in JournalType /\ (j.skippedAt > 0 <=> j.rev = 2)

\* What is stored under an ID is one bundle with that ID.
Stored(subs, id) ==
    \/ subs[id] = {}
    \/ \E b \in Bundles : subs[id] = {b} /\ b.command.id = id

\* The journal of a bundle is as far as a mark requires.
HandedOver(b, jour) ==
    /\ jour[b.command.id].rev > 0
    /\ b.optional => jour[b.command.id].skippedAt > 0

\* What a call in flight has found, in these commands, submissions and journals.
Found(call, entries, subs, jour) ==
    call.pc # "idle" => \E b \in Bundles :
        /\ call.bundles = {b}
        /\ subs[b.command.id] = {b}
        /\ call.pc = "accept" => call.mutation \in DesiredStates
        /\ call.pc # "accept" => \E i \in 1..Len(entries) : entries[i].env = b.command
        /\ call.pc = "skip" => call.copy = JournalOf(1, 0)
        /\ call.pc = "mark" => HandedOver(b, jour)

\* What an entry of the log rests on.
Rests(entry, subs, jour) ==
    \E b \in Bundles :
        /\ b.command = entry.env
        /\ subs[b.command.id] = {b}
        /\ entry.dispatched => HandedOver(b, jour)

BackingInv ==
    /\ \A i \in 1..Len(log) : log[i].env.expected = i /\ Rests(log[i], submissions, journals)
    /\ desired \in DesiredStates
    /\ submissions = [id \in IDs |-> submissions[id]]
    /\ \A id \in IDs : Stored(submissions, id)
    /\ journals = [id \in IDs |-> journals[id]]
    /\ \A id \in IDs : /\ JournalOK(journals[id])
                       /\ journals[id].rev > 0 =>
                             \E i \in 1..Len(log) : log[i].env.id = id
    /\ now \in 0..MaxTime
    /\ \A c \in Callers : /\ caller[c] \in CallType
                          /\ Found(caller[c], log, submissions, journals)

\* Commands stay in the log, stored bundles stay stored, journals never fall back.
Grows ==
    /\ \A i \in 1..Len(log) : i \in 1..Len(log') /\ log'[i].env = log[i].env
    /\ \A id \in IDs : submissions[id] # {} => submissions'[id] = submissions[id]
    /\ \A id \in IDs : /\ journals[id].rev > 0 => journals'[id].rev > 0
                       /\ journals[id].skippedAt > 0 => journals'[id].skippedAt > 0

\* The ID of a bundle is one of the IDs.
LEMMA BundleIDs == \A b \in Bundles : b.command.id \in IDs
BY DEF IDs

\* What a call has found stays.
LEMMA FoundStays ==
    ASSUME Grows, NEW call, Found(call, log, submissions, journals)
    PROVE  Found(call, log', submissions', journals')
<1>1. SUFFICES ASSUME call.pc # "idle"
               PROVE  Found(call, log', submissions', journals')
    BY DEF Found
<1>2. PICK b \in Bundles :
        /\ call.bundles = {b}
        /\ submissions[b.command.id] = {b}
        /\ call.pc = "accept" => call.mutation \in DesiredStates
        /\ call.pc # "accept" => \E i \in 1..Len(log) : log[i].env = b.command
        /\ call.pc = "skip" => call.copy = JournalOf(1, 0)
        /\ call.pc = "mark" => HandedOver(b, journals)
    BY <1>1 DEF Found
<1>3. submissions'[b.command.id] = {b}
    BY <1>2, BundleIDs DEF Grows
<1>4. call.pc # "accept" => \E i \in 1..Len(log') : log'[i].env = b.command
    BY <1>2 DEF Grows
<1>5. HandedOver(b, journals) => HandedOver(b, journals')
    BY BundleIDs DEF Grows, HandedOver
<1> QED
    BY <1>2, <1>3, <1>4, <1>5 DEF Found

\* What an entry rests on stays.
LEMMA RestsStays ==
    ASSUME Grows, NEW entry, Rests(entry, submissions, journals)
    PROVE  Rests(entry, submissions', journals')
<1>1. PICK b \in Bundles : /\ b.command = entry.env
                           /\ submissions[b.command.id] = {b}
                           /\ entry.dispatched => HandedOver(b, journals)
    BY DEF Rests
<1>2. submissions'[b.command.id] = {b}
    BY <1>1, BundleIDs DEF Grows
<1>3. HandedOver(b, journals) => HandedOver(b, journals')
    BY BundleIDs DEF Grows, HandedOver
<1> QED
    BY <1>1, <1>2, <1>3 DEF Rests

\* A step in which one call moves on and the stores grow keeps the calls.
LEMMA CallsStay ==
    ASSUME LogInv, BackingInv, Grows, NEW c \in Callers, NEW call \in CallType,
           SetCall(c, call), Found(call, log', submissions', journals')
    PROVE  \A d \in Callers : /\ caller'[d] \in CallType
                              /\ Found(caller'[d], log', submissions', journals')
<1>1. SUFFICES ASSUME NEW d \in Callers
               PROVE  /\ caller'[d] \in CallType
                      /\ Found(caller'[d], log', submissions', journals')
    OBVIOUS
<1>2. caller'[d] = IF d = c THEN call ELSE caller[d]
    BY DEF LogInv, SetCall
<1>3. caller[d] \in CallType /\ Found(caller[d], log', submissions', journals')
    BY FoundStays DEF BackingInv
<1> QED
    BY <1>2, <1>3

\* A step of one call that leaves the stores alone.
LEMMA CallMoves ==
    ASSUME LogInv, BackingInv, NEW c \in Callers, NEW call \in CallType,
           SetCall(c, call), Found(call, log, submissions, journals),
           UNCHANGED <<log, desired, submissions, journals, now>>
    PROVE  BackingInv'
<1>1. Grows
    BY DEF Grows
<1>2. \A d \in Callers : /\ caller'[d] \in CallType
                         /\ Found(caller'[d], log', submissions', journals')
    BY <1>1, CallsStay
<1> QED
    BY <1>2 DEF BackingInv

\* The fields of a call, and the call of nobody.
LEMMA CallTypes ==
    /\ NoCall \in CallType
    /\ \A entries, subs, jour : Found(NoCall, entries, subs, jour)
    /\ \A pc \in {"create", "skip", "mark"}, bs \in SUBSET Bundles,
          copy \in [rev : Nat, skippedAt : Nat], marked \in BOOLEAN :
          /\ Dispatching(pc, bs, copy, marked) \in CallType
          /\ Dispatching(pc, bs, copy, marked).pc = pc
          /\ Dispatching(pc, bs, copy, marked).bundles = bs
          /\ Dispatching(pc, bs, copy, marked).copy = copy
    /\ NoJournal \in [rev : Nat, skippedAt : Nat]
<1>1. NoJournal \in [rev : Nat, skippedAt : Nat]
    BY DEF NoJournal, JournalOf
<1>2. NoCall \in CallType /\ NoCall.pc = "idle"
    BY <1>1 DEF NoCall, Call, CallType
<1>3. \A pc \in {"create", "skip", "mark"}, bs \in SUBSET Bundles,
         copy \in [rev : Nat, skippedAt : Nat], marked \in BOOLEAN :
         /\ Dispatching(pc, bs, copy, marked) \in CallType
         /\ Dispatching(pc, bs, copy, marked).pc = pc
         /\ Dispatching(pc, bs, copy, marked).bundles = bs
         /\ Dispatching(pc, bs, copy, marked).copy = copy
    BY DEF Dispatching, Call, CallType
<1> QED
    BY <1>1, <1>2, <1>3 DEF Found

\* A submission stores its bundle unless it is stored already.
LEMMA SubmitBacked ==
    ASSUME LogInv, BackingInv, NEW c \in Callers, NEW b \in Bundles,
           NEW m \in DesiredStates, Submit(c, b, m)
    PROVE  BackingInv'
<1> DEFINE id == b.command.id
           call == Submission(b, m)
<1>1. /\ id \in IDs /\ submissions = [x \in IDs |-> submissions[x]]
      /\ submissions[id] = {} \/ submissions[id] = {b}
  <2>1. id \in IDs /\ Stored(submissions, id) /\ submissions[id] \subseteq {b}
      BY BundleIDs DEF BackingInv, Submit, StoredSame
  <2>2. submissions[id] = {} \/ submissions[id] = {b}
      BY <2>1
  <2> QED
      BY <2>1, <2>2 DEF BackingInv
<1>2. /\ submissions' = [x \in IDs |-> submissions'[x]]
      /\ submissions'[id] = {b}
      /\ \A x \in IDs : x # id => submissions'[x] = submissions[x]
  <2>1. CASE submissions[id] = {}
      BY <1>1, <2>1 DEF Submit
  <2>2. CASE submissions[id] = {b}
      BY <1>1, <2>2 DEF Submit
  <2> QED
      BY <1>1, <2>1, <2>2
<1>3. Grows
  <2>1. \A x \in IDs : submissions[x] # {} => submissions'[x] = submissions[x]
      BY <1>1, <1>2
  <2> QED
      BY <2>1 DEF Grows, Submit
<1>4. call \in CallType /\ call.pc = "accept" /\ call.bundles = {b} /\ call.mutation = m
  <2>1. now \in Nat
      BY CommandAssumption DEF BackingInv
  <2> QED
      BY <2>1, CallTypes DEF Submission, Call, CallType
<1>5. Found(call, log', submissions', journals')
  <2> HIDE DEF call
  <2> QED
      BY <1>2, <1>4 DEF Found
<1>6. \A d \in Callers : /\ caller'[d] \in CallType
                         /\ Found(caller'[d], log', submissions', journals')
  <2>1. SetCall(c, call)
      BY DEF Submit
  <2> QED
      BY <1>3, <1>4, <1>5, <2>1, CallsStay
<1>7. \A x \in IDs : Stored(submissions', x)
    BY <1>2 DEF BackingInv, Stored
<1>8. \A i \in 1..Len(log) : Rests(log[i], submissions', journals')
    BY <1>3, RestsStays DEF BackingInv
<1> QED
    BY <1>2, <1>6, <1>7, <1>8 DEF BackingInv, Submit

\* Dispatch starts from a command that is in the log.
LEMMA DispatchBacked ==
    ASSUME LogInv, BackingInv, NEW c \in Callers, NEW id \in IDs, Dispatch(c, id)
    PROVE  BackingInv'
<1>1. PICK b \in submissions[id] : \E i \in SameID(b.command) :
          /\ log[i].env = b.command
          /\ SetCall(c, Dispatching("create", {b}, NoJournal, log[i].dispatched))
    BY DEF Dispatch
<1>2. PICK i \in SameID(b.command) :
          /\ log[i].env = b.command
          /\ SetCall(c, Dispatching("create", {b}, NoJournal, log[i].dispatched))
    BY <1>1
<1>3. b \in Bundles /\ submissions[b.command.id] = {b}
    BY <1>1 DEF BackingInv, Stored
<1>4. i \in 1..Len(log) /\ log[i].dispatched \in BOOLEAN
  <2>1. i \in 1..Len(log) /\ log[i] \in Entry
      BY <1>2 DEF SameID, LogInv
  <2> QED
      BY <2>1 DEF Entry
<1> DEFINE call == Dispatching("create", {b}, NoJournal, log[i].dispatched)
<1>5. call \in CallType /\ call.pc = "create" /\ call.bundles = {b}
    BY <1>3, <1>4, CallTypes
<1> HIDE DEF call
<1>6. Found(call, log, submissions, journals)
    BY <1>2, <1>3, <1>4, <1>5 DEF Found
<1>7. SetCall(c, call)
    BY <1>2 DEF call
<1> QED
    BY <1>5, <1>6, <1>7, CallMoves DEF Dispatch

\* What a call in flight works on.
LEMMA BundleFound ==
    ASSUME BackingInv, NEW c \in Callers, caller[c].pc # "idle"
    PROVE  /\ BundleOf(c) \in Bundles
           /\ caller[c].bundles = {BundleOf(c)}
           /\ BundleOf(c).command.id \in IDs
           /\ submissions[BundleOf(c).command.id] = {BundleOf(c)}
           /\ caller[c].pc = "accept" => caller[c].mutation \in DesiredStates
           /\ caller[c].pc # "accept" =>
                 \E i \in 1..Len(log) : log[i].env = BundleOf(c).command
           /\ caller[c].pc = "skip" => caller[c].copy = JournalOf(1, 0)
           /\ caller[c].pc = "mark" => HandedOver(BundleOf(c), journals)
<1>1. PICK b \in Bundles :
        /\ caller[c].bundles = {b}
        /\ submissions[b.command.id] = {b}
        /\ caller[c].pc = "accept" => caller[c].mutation \in DesiredStates
        /\ caller[c].pc # "accept" => \E i \in 1..Len(log) : log[i].env = b.command
        /\ caller[c].pc = "skip" => caller[c].copy = JournalOf(1, 0)
        /\ caller[c].pc = "mark" => HandedOver(b, journals)
    BY DEF BackingInv, Found
<1>2. BundleOf(c) = b
    BY <1>1 DEF BundleOf
<1> QED
    BY <1>1, <1>2, BundleIDs

\* An accepted command has its number and the submission it came from.
LEMMA AcceptBacked ==
    ASSUME LogInv, BackingInv, NEW c \in Callers, AcceptCommand(c)
    PROVE  BackingInv'
<1> DEFINE b == BundleOf(c)
           env == b.command
           k == Len(log) + 1
<1>1. /\ caller[c].pc = "accept" /\ SetCall(c, NoCall)
      /\ UNCHANGED <<submissions, journals, now>>
    BY DEF AcceptCommand, Return
<1>2. /\ b \in Bundles /\ submissions[b.command.id] = {b}
      /\ caller[c].mutation \in DesiredStates
    BY <1>1, BundleFound
<1>3. CASE UNCHANGED <<log, desired>>
    BY <1>1, <1>3, CallMoves, CallTypes
<1>4. CASE Admits(env, caller[c].mutation) /\ log' = LogWith(env)
           /\ desired' = caller[c].mutation
  <2> HIDE DEF b
  <2>1. log \in Seq(Entry) /\ Len(log) \in Nat
      BY DEF LogInv
  <2> DEFINE old(i) == IF i \in SupersededBy(env) THEN Superseded(log[i]) ELSE log[i]
             new == EntryOf(env, "accepted", FALSE)
  <2>2. /\ Len(log') = k /\ log'[k] = new
        /\ \A i \in 1..Len(log) : log'[i] = old(i)
    <3> HIDE DEF old, new
    <3>1. log' = Append([i \in 1..Len(log) |-> old(i)], new)
        BY <1>4 DEF LogWith, old, new
    <3> QED
        BY <2>1, <3>1
  <2>3. \A i \in 1..Len(log) : /\ log'[i].env = log[i].env
                               /\ log'[i].dispatched = log[i].dispatched
    <3>1. \A entry : /\ Superseded(entry).env = entry.env
                     /\ Superseded(entry).dispatched = entry.dispatched
        BY DEF Superseded, EntryOf
    <3> QED
        BY <2>2, <3>1
  <2>4. new.env = env /\ ~new.dispatched
      BY DEF EntryOf
  <2> HIDE DEF old, new
  <2>5. Grows
      BY <1>1, <2>1, <2>2, <2>3 DEF Grows
  <2>6. \A d \in Callers : /\ caller'[d] \in CallType
                           /\ Found(caller'[d], log', submissions', journals')
      BY <1>1, <2>5, CallsStay, CallTypes
  <2>7. ASSUME NEW i \in 1..Len(log')
        PROVE  log'[i].env.expected = i /\ Rests(log'[i], submissions', journals')
    <3>1. CASE i \in 1..Len(log)
      <4>1. log[i].env.expected = i /\ Rests(log[i], submissions', journals')
          BY <2>5, <3>1, RestsStays DEF BackingInv
      <4> QED
          BY <2>3, <3>1, <4>1 DEF Rests
    <3>2. CASE i = k
      <4>1. env.expected = k
          BY <1>4 DEF Admits, Revision
      <4> QED
          BY <1>1, <1>2, <2>2, <2>4, <3>2, <4>1 DEF Rests
    <3> QED
        BY <2>1, <2>2, <3>1, <3>2
  <2>8. \A id \in IDs : journals'[id].rev > 0 => \E i \in 1..Len(log') : log'[i].env.id = id
      BY <1>1, <2>5 DEF BackingInv, Grows
  <2> QED
      BY <1>1, <1>2, <1>4, <2>6, <2>7, <2>8 DEF BackingInv
<1> QED
    BY <1>3, <1>4 DEF AcceptCommand

\* A step that moves one journal on, of a command that is in the log.
LEMMA JournalMoves ==
    ASSUME LogInv, BackingInv, NEW c \in Callers, NEW call \in CallType, SetCall(c, call),
           NEW id \in IDs, NEW j, JournalOK(j), j.rev > 0,
           journals[id].skippedAt > 0 => j.skippedAt > 0,
           journals' = [journals EXCEPT ![id] = j],
           \E i \in 1..Len(log) : log[i].env.id = id,
           Found(call, log, submissions, journals'),
           UNCHANGED <<log, desired, submissions, now>>
    PROVE  BackingInv'
<1>1. /\ journals' = [x \in IDs |-> journals'[x]]
      /\ \A x \in IDs : journals'[x] = IF x = id THEN j ELSE journals[x]
    BY DEF BackingInv
<1>2. Grows
    BY <1>1 DEF Grows
<1>3. \A d \in Callers : /\ caller'[d] \in CallType
                         /\ Found(caller'[d], log', submissions', journals')
    BY <1>2, CallsStay
<1>4. \A i \in 1..Len(log) : Rests(log[i], submissions', journals')
    BY <1>2, RestsStays DEF BackingInv
<1>5. \A x \in IDs : /\ JournalOK(journals'[x])
                     /\ journals'[x].rev > 0 => \E i \in 1..Len(log) : log[i].env.id = x
    BY <1>1 DEF BackingInv
<1> QED
    BY <1>1, <1>3, <1>4, <1>5 DEF BackingInv

\* The journal is created, or found as another dispatcher left it.
LEMMA CreateBacked ==
    ASSUME LogInv, BackingInv, NEW c \in Callers, CreateJournal(c)
    PROVE  BackingInv'
<1> DEFINE b == BundleOf(c)
           id == b.command.id
           j == IF journals[id].rev = 0 THEN JournalOf(1, 0) ELSE journals[id]
           pc == IF b.optional /\ j.skippedAt = 0 THEN "skip" ELSE "mark"
           call == Dispatching(pc, caller[c].bundles, j, caller[c].marked)
<1>1. /\ caller[c].pc = "create"
      /\ journals' = [journals EXCEPT ![id] = j]
      /\ SetCall(c, call)
      /\ UNCHANGED <<log, desired, submissions, now>>
    BY DEF CreateJournal
<1>2. /\ b \in Bundles /\ caller[c].bundles = {b} /\ id \in IDs
      /\ submissions[id] = {b}
      /\ \E i \in 1..Len(log) : log[i].env = b.command
    BY <1>1, BundleFound
<1>3. JournalOK(journals[id]) /\ journals = [x \in IDs |-> journals[x]]
    BY <1>2 DEF BackingInv
<1>4. /\ JournalOK(j) /\ j.rev > 0 /\ (j.skippedAt = 0 => j = JournalOf(1, 0))
      /\ journals[id].skippedAt > 0 => j.skippedAt > 0
      /\ j \in [rev : Nat, skippedAt : Nat]
  <2>1. CASE journals[id].rev = 0
      BY <1>3, <2>1, CommandAssumption DEF JournalOK, JournalType, JournalOf
  <2>2. CASE journals[id].rev # 0
    <3>1. journals[id].rev \in 0..2 /\ journals[id].skippedAt \in 0..(MaxTime + 1)
          /\ journals[id] = JournalOf(journals[id].rev, journals[id].skippedAt)
        BY <1>3 DEF JournalOK, JournalType, JournalOf
    <3>2. /\ j = journals[id] /\ journals[id].rev > 0
          /\ (journals[id].skippedAt = 0 => journals[id].rev = 1)
        BY <1>3, <2>2, <3>1 DEF JournalOK
    <3> QED
        BY <1>3, <3>1, <3>2, CommandAssumption DEF JournalOf
  <2> QED
      BY <2>1, <2>2
<1>5. caller[c].marked \in BOOLEAN
  <2>1. caller[c] \in CallType
      BY DEF BackingInv
  <2> QED
      BY <2>1 DEF CallType
<1> HIDE DEF j
<1>6. pc \in {"skip", "mark"}
    OBVIOUS
<1>7. call \in CallType /\ call.pc = pc /\ call.bundles = {b} /\ call.copy = j
  <2> HIDE DEF pc, b
  <2>1. {b} \in SUBSET Bundles
      BY <1>2
  <2> QED
      BY <1>2, <1>4, <1>5, <1>6, <2>1, CallTypes
<1>8. pc = "skip" => j = JournalOf(1, 0)
    BY <1>4
<1>9. pc = "mark" => HandedOver(b, journals')
  <2>1. journals'[id] = j
      BY <1>1, <1>2, <1>3
  <2>2. pc = "mark" => (b.optional => j.skippedAt # 0)
      OBVIOUS
  <2>3. j.skippedAt \in Nat
      BY <1>4
  <2> QED
      BY <1>4, <2>1, <2>2, <2>3 DEF HandedOver
<1> HIDE DEF pc, call, b
<1>10. Found(call, log, submissions, journals')
    BY <1>2, <1>6, <1>7, <1>8, <1>9 DEF Found
<1> QED
    BY <1>1, <1>2, <1>4, <1>7, <1>10, JournalMoves

\* Skipping the optional step: from the first revision to the second, or found
\* exactly so after a conflict.
LEMMA SkipBacked ==
    ASSUME LogInv, BackingInv, NEW c \in Callers, SkipOptionalStep(c)
    PROVE  BackingInv'
<1> DEFINE b == BundleOf(c)
           id == b.command.id
           next == JournalOf(2, now + 1)
           done == Dispatching("mark", caller[c].bundles, next, caller[c].marked)
<1>1. caller[c].pc = "skip" /\ UNCHANGED <<log, desired, submissions, now>>
    BY DEF SkipOptionalStep
<1>2. /\ b \in Bundles /\ caller[c].bundles = {b} /\ id \in IDs
      /\ submissions[id] = {b}
      /\ \E i \in 1..Len(log) : log[i].env = b.command
      /\ caller[c].copy = JournalOf(1, 0)
    BY <1>1, BundleFound
<1>3. JournalOf(1, 0).rev + 1 = 2
    BY DEF JournalOf
<1>4. /\ journals' = IF journals[id] = JournalOf(1, 0)
                     THEN [journals EXCEPT ![id] = next] ELSE journals
      /\ IF journals'[id] = next THEN SetCall(c, done) ELSE SetCall(c, NoCall)
    BY <1>2, <1>3 DEF SkipOptionalStep, Return
<1>5. journals = [x \in IDs |-> journals[x]] /\ now \in 0..MaxTime /\ now \in Nat
    BY CommandAssumption DEF BackingInv
<1>6. /\ JournalOK(next) /\ next.rev = 2 /\ next.skippedAt > 0
      /\ next \in [rev : Nat, skippedAt : Nat]
    BY <1>5, CommandAssumption DEF JournalOK, JournalType, JournalOf
<1>7. done \in CallType /\ done.pc = "mark" /\ done.bundles = {b}
  <2>1. caller[c] \in CallType
      BY DEF BackingInv
  <2>2. caller[c].marked \in BOOLEAN
      BY <2>1 DEF CallType
  <2> HIDE DEF b, next
  <2>3. {b} \in SUBSET Bundles
      BY <1>2
  <2> QED
      BY <1>2, <1>6, <2>2, <2>3, CallTypes
<1> HIDE DEF next, done, b
<1>8. journals'[id] = next => Found(done, log, submissions, journals')
    BY <1>2, <1>6, <1>7 DEF Found, HandedOver
<1>9. CASE journals[id] = JournalOf(1, 0)
  <2>1. journals' = [journals EXCEPT ![id] = next] /\ journals'[id] = next
      BY <1>2, <1>4, <1>5, <1>9
  <2>2. SetCall(c, done)
      BY <1>4, <2>1
  <2>3. next.rev > 0
      BY <1>6
  <2> QED
      BY <1>1, <1>2, <1>6, <1>7, <1>8, <2>1, <2>2, <2>3, JournalMoves
<1>10. CASE journals[id] # JournalOf(1, 0)
  <2>1. journals' = journals
      BY <1>4, <1>10
  <2>2. CASE journals'[id] = next
      BY <1>1, <1>4, <1>7, <1>8, <2>1, <2>2, CallMoves
  <2>3. CASE journals'[id] # next
      BY <1>1, <1>4, <2>1, <2>3, CallMoves, CallTypes
  <2> QED
      BY <2>2, <2>3
<1> QED
    BY <1>9, <1>10

\* The mark is set on the command that was handed over, and on no other.
LEMMA MarkBacked ==
    ASSUME LogInv, BackingInv, NEW c \in Callers, MarkDispatched(c)
    PROVE  BackingInv'
<1> DEFINE b == BundleOf(c)
           i == CHOOSE x \in SameID(b.command) : TRUE
<1>1. /\ caller[c].pc = "mark" /\ SetCall(c, NoCall)
      /\ UNCHANGED <<desired, submissions, journals, now>>
    BY DEF MarkDispatched, Return
<1>2. /\ b \in Bundles /\ submissions[b.command.id] = {b}
      /\ HandedOver(b, journals)
      /\ \E x \in 1..Len(log) : log[x].env = b.command
    BY <1>1, BundleFound
<1>3. CASE log' = log
    BY <1>1, <1>3, CallMoves, CallTypes
<1>4. CASE log' = [log EXCEPT ![i] = Dispatched(log[i])]
  <2> HIDE DEF b
  <2>1. PICK x \in 1..Len(log) : log[x].env = b.command
      BY <1>2
  <2>2. x \in SameID(b.command)
      BY <2>1 DEF SameID
  <2>3. i \in SameID(b.command)
      BY <2>2
  <2> HIDE DEF i
  <2>4. i = x
      BY <2>1, <2>3 DEF SameID, LogInv, LogRules, AcceptedOnce
  <2>5. /\ log \in Seq(Entry) /\ Len(log) \in Nat
        /\ log = [n \in 1..Len(log) |-> log[n]]
      BY DEF LogInv
  <2>6. Len(log') = Len(log)
      BY <1>4, <2>5
  <2>7. /\ log'[i].env = b.command
        /\ \A n \in 1..Len(log) : n # i => log'[n] = log[n]
    <3>1. log'[i] = Dispatched(log[i]) /\ \A n \in 1..Len(log) : n # i => log'[n] = log[n]
        BY <1>4, <2>1, <2>4, <2>5
    <3> QED
        BY <2>1, <2>4, <3>1 DEF Dispatched, EntryOf
  <2>8. Grows
      BY <1>1, <2>1, <2>4, <2>6, <2>7 DEF Grows
  <2>9. \A d \in Callers : /\ caller'[d] \in CallType
                           /\ Found(caller'[d], log', submissions', journals')
      BY <1>1, <2>8, CallsStay, CallTypes
  <2>10. \A n \in 1..Len(log') : log'[n].env.expected = n
                                 /\ Rests(log'[n], submissions', journals')
    <3>1. Rests(log'[i], submissions', journals')
        BY <1>1, <1>2, <2>7 DEF Rests
    <3>2. log'[i].env.expected = i
        BY <2>1, <2>4, <2>7 DEF BackingInv
    <3>3. \A n \in 1..Len(log) : n # i => /\ log'[n].env.expected = n
                                          /\ Rests(log'[n], submissions', journals')
        BY <1>1, <2>7 DEF BackingInv
    <3> QED
        BY <2>6, <3>1, <3>2, <3>3
  <2>11. \A id \in IDs : journals'[id].rev > 0 => \E n \in 1..Len(log') : log'[n].env.id = id
      BY <1>1, <2>8 DEF BackingInv, Grows
  <2> QED
      BY <1>1, <2>9, <2>10, <2>11 DEF BackingInv
<1> QED
    BY <1>3, <1>4 DEF MarkDispatched

\* Nothing is submitted, accepted or handed over at first.
LEMMA BackingInit == CommandInit => BackingInv
<1>1. SUFFICES ASSUME CommandInit PROVE BackingInv
    OBVIOUS
<1>2. 1..Len(log) = {} /\ desired \in DesiredStates /\ now \in 0..MaxTime
    BY <1>1, CommandAssumption DEF CommandInit
<1>3. /\ submissions = [id \in IDs |-> submissions[id]]
      /\ \A id \in IDs : Stored(submissions, id)
    BY <1>1 DEF CommandInit, Stored
<1>4. JournalOK(NoJournal) /\ ~(NoJournal.rev > 0)
    BY CommandAssumption DEF JournalOK, JournalType, NoJournal, JournalOf
<1>5. /\ journals = [id \in IDs |-> journals[id]]
      /\ \A id \in IDs : journals[id] = NoJournal
    BY <1>1 DEF CommandInit
<1>6. \A c \in Callers : caller[c] = NoCall
    BY <1>1 DEF CommandInit
<1> QED
    BY <1>2, <1>3, <1>4, <1>5, <1>6, CallTypes DEF BackingInv

\* Every step preserves the invariant, action by action.
LEMMA BackingStep == LogInv /\ BackingInv /\ [CommandNext]_commandVars => BackingInv'
<1>1. SUFFICES ASSUME LogInv, BackingInv, [CommandNext]_commandVars PROVE BackingInv'
    OBVIOUS
<1>2. CASE UNCHANGED commandVars
    BY <1>1, <1>2 DEF commandVars, BackingInv
<1>3. CASE Tick
  <2>1. now' \in 0..MaxTime
      BY <1>1, <1>3, CommandAssumption DEF Tick, BackingInv
  <2> QED
      BY <1>1, <1>3, <2>1 DEF Tick, BackingInv
<1>4. ASSUME NEW c \in Callers, Dies(c) PROVE BackingInv'
    BY <1>1, <1>4, CallMoves, CallTypes DEF Dies
<1> QED
    BY <1>1, <1>2, <1>3, <1>4, SubmitBacked, DispatchBacked, AcceptBacked, CreateBacked,
       SkipBacked, MarkBacked DEF CommandNext

\* What the invariant says, as the properties put it.
LEMMA BackingMeans ==
    ASSUME LogInv, BackingInv
    PROVE  CommandTypeOK /\ CommandsAreBacked /\ MarkedLast
<1>1. CommandTypeOK
  <2>1. \A id \in IDs : submissions[id] \in {{}} \cup {{b} : b \in Bundles}
      BY DEF BackingInv, Stored
  <2>2. journals \in [IDs -> [rev : 0..2, skippedAt : 0..(MaxTime + 1)]]
      BY DEF BackingInv, JournalOK, JournalType
  <2>3. caller \in [Callers -> CallType]
      BY DEF LogInv, BackingInv
  <2> QED
      BY <2>1, <2>2, <2>3 DEF CommandTypeOK, LogInv, BackingInv
<1>2. ASSUME NEW i \in 1..Len(log)
      PROVE  \E b \in Bundles : /\ b.command = log[i].env
                                /\ submissions[log[i].env.id] = {b}
                                /\ log[i].dispatched => HandedOver(b, journals)
    BY DEF BackingInv, Rests
<1>3. CommandsAreBacked
  <2>1. \A i \in 1..Len(log) : \E b \in submissions[log[i].env.id] : b.command = log[i].env
      BY <1>2
  <2> QED
      BY <2>1 DEF CommandsAreBacked, BackingInv
<1>4. MarkedLast
    BY <1>2 DEF MarkedLast, HandedOver
<1> QED
    BY <1>1, <1>3, <1>4

\* The log, the desired state, submissions, journals and calls keep their
\* types, and the n-th command was admitted at revision n (AcceptCommand).
THEOREM CommandTypes == CommandSpec => []CommandTypeOK
BY BackingInit, BackingStep, BackingMeans, LogInvInit, LogInvStep, PTL DEF CommandSpec

\* Behind every command in the log is a submission with exactly its envelope,
\* behind every journal a command, whatever two callers submit under one ID
\* and wherever they die (SubmitWorkflowV2, DispatchCommandV2).
THEOREM CommandsStayBacked == CommandSpec => []CommandsAreBacked
BY BackingInit, BackingStep, BackingMeans, LogInvInit, LogInvStep, PTL DEF CommandSpec

\* A command that is marked as dispatched has its journal, with the optional
\* step skipped, for any number of dispatchers of one command and any order of
\* their steps (DispatchCommandV2, MarkOutboxDispatched).
THEOREM MarkComesLast == CommandSpec => []MarkedLast
BY BackingInit, BackingStep, BackingMeans, LogInvInit, LogInvStep, PTL DEF CommandSpec

----------------------------------------------------------------------------
(* Nothing that was decided is undone.                                     *)

\* What a step leaves of an entry of the log.
Lasts(old, new) ==
    /\ new.env = old.env
    /\ old.status = "superseded" => new.status = "superseded"
    /\ old.dispatched => new.dispatched

\* What a step leaves of the log, the submissions and the journals.
LastsStep ==
    /\ Len(log') \in {Len(log), Len(log) + 1}
    /\ \A i \in 1..Len(log) : Lasts(log[i], log'[i])
    /\ \A id \in IDs : submissions[id] # {} => submissions'[id] = submissions[id]
    /\ \A id \in IDs : /\ journals'[id].rev >= journals[id].rev
                       /\ journals[id].skippedAt > 0 => journals'[id] = journals[id]

\* A step that leaves the log alone.
LEMMA LogLasts ==
    ASSUME log' = log
    PROVE  /\ Len(log') \in {Len(log), Len(log) + 1}
           /\ \A i \in 1..Len(log) : Lasts(log[i], log'[i])
  BY DEF Lasts

\* A step that leaves the journals alone.
LEMMA JournalsLast ==
    ASSUME BackingInv, journals' = journals
    PROVE  \A id \in IDs : /\ journals'[id].rev >= journals[id].rev
                           /\ journals[id].skippedAt > 0 => journals'[id] = journals[id]
<1>1. \A id \in IDs : journals[id].rev \in 0..2
  BY DEF BackingInv, JournalOK, JournalType
<1> QED
  BY <1>1

\* A new command supersedes others and changes nothing else in the log.
LEMMA AcceptLasts ==
    ASSUME LogInv, BackingInv, NEW c \in Callers, AcceptCommand(c)
    PROVE  LastsStep
<1> DEFINE env == BundleOf(c).command
<1>1. UNCHANGED <<submissions, journals>>
  BY DEF AcceptCommand
<1>2. CASE log' = log
  BY <1>1, <1>2, LogLasts, JournalsLast DEF LastsStep
<1>3. CASE log' = LogWith(env)
  <2> HIDE DEF env
  <2>1. log \in Seq(Entry) /\ Len(log) \in Nat
    BY DEF LogInv
  <2> DEFINE old(i) == IF i \in SupersededBy(env) THEN Superseded(log[i]) ELSE log[i]
             new == EntryOf(env, "accepted", FALSE)
  <2>2. Len(log') = Len(log) + 1 /\ \A i \in 1..Len(log) : log'[i] = old(i)
    <3> HIDE DEF old, new
    <3>1. log' = Append([i \in 1..Len(log) |-> old(i)], new)
      BY <1>3 DEF LogWith, old, new
    <3> QED
      BY <2>1, <3>1
  <2>3. \A entry : Lasts(entry, Superseded(entry)) /\ Lasts(entry, entry)
    BY DEF Lasts, Superseded, EntryOf
  <2>4. \A i \in 1..Len(log) : Lasts(log[i], log'[i])
    BY <2>2, <2>3
  <2> QED
    BY <1>1, <2>2, <2>4, JournalsLast DEF LastsStep
<1> QED
  BY <1>2, <1>3 DEF AcceptCommand

\* A mark keeps the status of its entry, superseded or not.
LEMMA MarkLasts ==
    ASSUME LogInv, BackingInv, NEW c \in Callers, MarkDispatched(c)
    PROVE  LastsStep
<1> DEFINE i == CHOOSE x \in SameID(BundleOf(c).command) : TRUE
<1>1. UNCHANGED <<submissions, journals>>
  BY DEF MarkDispatched
<1>2. CASE log' = log
  BY <1>1, <1>2, LogLasts, JournalsLast DEF LastsStep
<1>3. CASE log' = [log EXCEPT ![i] = Dispatched(log[i])]
  <2> HIDE DEF i
  <2>1. /\ log \in Seq(Entry) /\ Len(log) \in Nat
        /\ log = [n \in 1..Len(log) |-> log[n]]
    BY DEF LogInv
  <2>2. Len(log') = Len(log)
    BY <1>3, <2>1
  <2>3. \A n \in 1..Len(log) : log'[n] = IF n = i THEN Dispatched(log[n]) ELSE log[n]
    BY <1>3, <2>1
  <2>4. \A entry : Lasts(entry, Dispatched(entry)) /\ Lasts(entry, entry)
    BY DEF Lasts, Dispatched, EntryOf
  <2>5. \A n \in 1..Len(log) : Lasts(log[n], log'[n])
    BY <2>3, <2>4
  <2> QED
    BY <1>1, <2>2, <2>5, JournalsLast DEF LastsStep
<1> QED
  BY <1>2, <1>3 DEF MarkDispatched

\* A journal is created once and its step is skipped once.
LEMMA JournalStepsLast ==
    ASSUME LogInv, BackingInv, NEW c \in Callers, CreateJournal(c) \/ SkipOptionalStep(c)
    PROVE  LastsStep
<1> DEFINE id == BundleOf(c).command.id
<1>1. caller[c].pc \in {"create", "skip"} /\ UNCHANGED <<log, submissions>>
  BY DEF CreateJournal, SkipOptionalStep
<1>2. /\ id \in IDs /\ (caller[c].pc = "skip" => caller[c].copy = JournalOf(1, 0))
      /\ journals = [x \in IDs |-> journals[x]]
  BY <1>1, BundleFound DEF BackingInv
<1>3. \A x \in IDs : /\ journals[x].rev \in 0..2 /\ journals[x].skippedAt \in Nat
                     /\ journals[x].skippedAt > 0 => journals[x].rev = 2
  BY CommandAssumption DEF BackingInv, JournalOK, JournalType
<1>4. CASE CreateJournal(c)
  <2>1. journals' = [journals EXCEPT ![id] = IF journals[id].rev = 0 THEN JournalOf(1, 0)
                                                                    ELSE journals[id]]
    BY <1>4 DEF CreateJournal
  <2> HIDE DEF id
  <2>2. CASE journals[id].rev = 0
    <3>1. \A x \in IDs : journals'[x] = IF x = id THEN JournalOf(1, 0) ELSE journals[x]
      BY <1>2, <2>1, <2>2
    <3>2. JournalOf(1, 0).rev = 1
      BY DEF JournalOf
    <3> QED
      BY <1>1, <1>3, <2>2, <3>1, <3>2, LogLasts DEF LastsStep
  <2>3. CASE journals[id].rev # 0
    BY <1>1, <1>2, <2>1, <2>3, LogLasts, JournalsLast DEF LastsStep
  <2> QED
    BY <2>2, <2>3
<1>5. CASE SkipOptionalStep(c)
  <2> DEFINE next == JournalOf(caller[c].copy.rev + 1, now + 1)
  <2>1. /\ caller[c].pc = "skip"
        /\ journals' = IF journals[id] = caller[c].copy
                       THEN [journals EXCEPT ![id] = next] ELSE journals
    BY <1>5 DEF SkipOptionalStep
  <2>2. /\ JournalOf(1, 0).rev = 1 /\ JournalOf(1, 0).skippedAt = 0
        /\ next.rev = caller[c].copy.rev + 1
    BY DEF JournalOf
  <2> HIDE DEF id, next
  <2>3. CASE journals[id] = caller[c].copy
    <3>1. \A x \in IDs : journals'[x] = IF x = id THEN next ELSE journals[x]
      BY <1>2, <2>1, <2>3
    <3>2. journals[id].rev = 1 /\ journals[id].skippedAt = 0 /\ next.rev = 2
      BY <1>2, <2>1, <2>2, <2>3
    <3> QED
      BY <1>1, <1>3, <3>1, <3>2, LogLasts DEF LastsStep
  <2>4. CASE journals[id] # caller[c].copy
    BY <1>1, <2>1, <2>4, LogLasts, JournalsLast DEF LastsStep
  <2> QED
    BY <2>3, <2>4
<1> QED
  BY <1>4, <1>5

\* The log is a history: a step appends at most one command, never changes an
\* envelope, never revives a superseded command and never takes back a mark;
\* what is stored under an ID is stored for good; a journal keeps its skipped
\* step (AcceptCommand, MarkOutboxDispatched, CreateWorkflowJournalV2).
THEOREM DecisionsLast == CommandSpec => [][LastsStep]_commandVars
<1>1. ASSUME LogInv, BackingInv, [CommandNext]_commandVars
      PROVE  [LastsStep]_commandVars
  <2>1. CASE Tick \/ \E c \in Callers : Dies(c) \/ \E id \in IDs : Dispatch(c, id)
    BY <1>1, <2>1, LogLasts, JournalsLast DEF Tick, Dies, Dispatch, LastsStep
  <2>2. ASSUME NEW c \in Callers, NEW b \in Bundles, NEW m, Submit(c, b, m)
        PROVE  LastsStep
    <3>1. \A id \in IDs : submissions[id] # {} => submissions'[id] = submissions[id]
      BY <1>1, <2>2, BundleIDs DEF Submit, BackingInv
    <3> QED
      BY <1>1, <2>2, <3>1, LogLasts, JournalsLast DEF Submit, LastsStep
  <2> QED
    BY <1>1, <2>1, <2>2, AcceptLasts, MarkLasts, JournalStepsLast DEF CommandNext
<1> QED
  BY <1>1, BackingInit, BackingStep, LogInvInit, LogInvStep, PTL DEF CommandSpec

============================================================================
