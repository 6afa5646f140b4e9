-------------------------- MODULE RunJournalProofs --------------------------
(***************************************************************************)
(* The journal of runs, for any number of runs, callers and observations:  *)
(* the index of active runs is exact, answers stand, and the journal       *)
(* implements the ledger of RunLedger.                                     *)
(***************************************************************************)
EXTENDS RunJournal, TLAPS

\* What one step may do to the record of a run.
Follows(m, n) ==
    \/ n = m
    \/ /\ n.rev > m.rev
       /\ m.status # "terminal"
       /\ n.status # "absent"
       /\ m.claim # NoClaim => n.claim = m.claim
       /\ m.status = "stopping" => n.status \in {"stopping", "terminal"}

\* A record that was never created is NoRecord, one that was has a revision and
\* no outcome while it is live.
RecordOK(run) ==
    /\ run.status = "absent" => run = NoRecord
    /\ run.status # "absent" => run.rev > 0
    /\ Live(run) => run.outcome = "none"

\* What is true of an answer (AnswersStand, of one call).
AnswerStands(call, rs) ==
    /\ call.op = "start" => rs[call.run].rev > 0
    /\ call.op = "stop" => rs[call.run].status \in {"stopping", "terminal"}
    /\ call.op = "claim" => rs[call.run].claim = call.claim
    /\ call.op = "finish" =>
          rs[call.run].status = "terminal" /\ rs[call.run].outcome = call.outcome

\* What a caller knows between its steps: a copy it is about to swap is the
\* record itself as long as their revisions agree.
CallOK(call, rs) ==
    /\ call.pc \in {"append", "record", "reinspect"} =>
          call.op = "claim" /\ call.run \in Runs /\ call.claim \in Claims
    /\ call.pc = "cas" =>
          /\ call.run \in Runs
          /\ call.op \in {"stop", "claim", "finish"}
          /\ call.op = "claim" => call.copy.claim = NoClaim /\ call.claim \in Claims
          /\ call.op = "finish" => call.outcome \in Outcomes
          /\ Live(call.copy)
          /\ call.copy.rev <= rs[call.run].rev
          /\ call.copy.rev = rs[call.run].rev => call.copy = rs[call.run]
    /\ call.pc = "ok" =>
          /\ call.run \in Runs
          /\ call.op = "claim" => call.claim \in Claims
          /\ AnswerStands(call, rs)

\* The inductive invariant.
RunInv ==
    /\ RunTypeOK
    /\ ActiveIndexExact
    /\ \A r \in Runs : RecordOK(runs[r])
    /\ \A c \in Callers : CallOK(caller[c], runs)

----------------------------------------------------------------------------
(* Records and calls.                                                      *)

\* The empty claim is not one of the claims callers make.
LEMMA NoClaimIsNone == NoClaim \notin Claims
  BY RunAssumption DEF NoClaim, Claims

\* The fields of a record built by RunAt.
LEMMA RunAtFields ==
    ASSUME NEW status, NEW rev, NEW started, NEW outcome, NEW claim
    PROVE  /\ RunAt(status, rev, started, outcome, claim).status = status
           /\ RunAt(status, rev, started, outcome, claim).rev = rev
           /\ RunAt(status, rev, started, outcome, claim).started = started
           /\ RunAt(status, rev, started, outcome, claim).outcome = outcome
           /\ RunAt(status, rev, started, outcome, claim).claim = claim
  BY DEF RunAt

\* A record built from typed fields is a run record.
LEMMA RunAtType ==
    ASSUME NEW status \in {"absent", "running", "stopping", "terminal"},
           NEW rev \in Nat, NEW started \in Nat,
           NEW outcome \in Outcomes \cup {"none"},
           NEW claim \in Claims \cup {NoClaim}
    PROVE  RunAt(status, rev, started, outcome, claim) \in RunRecord
  BY DEF RunAt, RunRecord

\* The types of the fields of a run record.
LEMMA RunFieldTypes ==
    ASSUME NEW run \in RunRecord
    PROVE  /\ run.status \in {"absent", "running", "stopping", "terminal"}
           /\ run.rev \in Nat
           /\ run.started \in Nat
           /\ run.outcome \in Outcomes \cup {"none"}
           /\ run.claim \in Claims \cup {NoClaim}
  BY DEF RunRecord

\* The fields of a call built by Call.
LEMMA CallFields ==
    ASSUME NEW pc, NEW op, NEW run, NEW copy, NEW claim, NEW outcome
    PROVE  /\ Call(pc, op, run, copy, claim, outcome).pc = pc
           /\ Call(pc, op, run, copy, claim, outcome).op = op
           /\ Call(pc, op, run, copy, claim, outcome).run = run
           /\ Call(pc, op, run, copy, claim, outcome).copy = copy
           /\ Call(pc, op, run, copy, claim, outcome).claim = claim
           /\ Call(pc, op, run, copy, claim, outcome).outcome = outcome
  BY DEF Call

\* A call built from typed fields is a call.
LEMMA CallIsCall ==
    ASSUME NEW pc \in {"idle", "append", "record", "cas", "reinspect"} \cup Answers,
           NEW op \in {"none", "start", "stop", "claim", "finish"},
           NEW run \in Runs \cup {"none"}, NEW copy \in RunRecord,
           NEW claim \in Claims \cup {NoClaim},
           NEW outcome \in Outcomes \cup {"none"}
    PROVE  Call(pc, op, run, copy, claim, outcome) \in CallType
  BY DEF Call, CallType

\* The types of the fields of a call.
LEMMA CallFieldTypes ==
    ASSUME NEW call \in CallType
    PROVE  /\ call.pc \in {"idle", "append", "record", "cas", "reinspect"} \cup Answers
           /\ call.op \in {"none", "start", "stop", "claim", "finish"}
           /\ call.run \in Runs \cup {"none"}
           /\ call.copy \in RunRecord
           /\ call.claim \in Claims \cup {NoClaim}
           /\ call.outcome \in Outcomes \cup {"none"}
  BY DEF CallType

\* The record of a run that was never created.
LEMMA NoRecordType == NoRecord \in RunRecord /\ NoRecord.rev = 0
                        /\ NoRecord.status = "absent" /\ NoRecord.claim = NoClaim
  BY RunAtType, RunAtFields DEF NoRecord

\* What a caller knows stays true while the records move on.
LEMMA CallStable ==
    ASSUME NEW call \in CallType, NEW rs \in [Runs -> RunRecord],
           NEW qs \in [Runs -> RunRecord], CallOK(call, rs),
           \A r \in Runs : Follows(rs[r], qs[r]) /\ RecordOK(rs[r])
    PROVE  CallOK(call, qs)
<1>1. CASE call.run \in Runs
  <2>1. /\ Follows(rs[call.run], qs[call.run]) /\ RecordOK(rs[call.run])
        /\ rs[call.run].rev \in Nat /\ qs[call.run].rev \in Nat
        /\ call.copy.rev \in Nat
    BY <1>1, CallFieldTypes, RunFieldTypes
  <2>2. ASSUME call.pc = "cas"
        PROVE  /\ call.copy.rev <= qs[call.run].rev
               /\ call.copy.rev = qs[call.run].rev => call.copy = qs[call.run]
    BY <2>1, <2>2 DEF CallOK, Follows
  <2>3. ASSUME call.pc = "ok"
        PROVE  AnswerStands(call, qs)
    <3>1. AnswerStands(call, rs) /\ (call.op = "claim" => call.claim # NoClaim)
      BY <2>3, NoClaimIsNone DEF CallOK
    <3> QED
      BY <2>1, <3>1 DEF AnswerStands, Follows
  <2> QED
    BY <2>2, <2>3 DEF CallOK
<1>2. CASE call.run \notin Runs
  BY <1>2 DEF CallOK
<1> QED
  BY <1>1, <1>2

----------------------------------------------------------------------------
(* How the steps keep the invariant.                                       *)

\* A step of caller c that moves the records along Follows keeps the
\* invariant if it keeps the types and the index and its own call is right.
LEMMA Assemble ==
    ASSUME RunInv, NEW c \in Callers, NEW call \in CallType,
           caller' = [caller EXCEPT ![c] = call],
           runs' \in [Runs -> RunRecord],
           \A r \in Runs : Follows(runs[r], runs'[r]) /\ RecordOK(runs'[r]),
           CallOK(call, runs'),
           active' \in Runs \cup {"none"},
           \A r \in Runs : active' = r <=> Live(runs'[r]),
           evidence' \in Seq(Digests),
           observed' \in [Sources -> 0..Len(evidence')],
           now' = now
    PROVE  RunInv'
<1>1. caller \in [Callers -> CallType] /\ runs \in [Runs -> RunRecord]
  BY DEF RunInv, RunTypeOK
<1>2. caller' \in [Callers -> CallType]
  BY <1>1
<1>3. ASSUME NEW d \in Callers PROVE CallOK(caller'[d], runs')
  <2>1. CASE d = c
    BY <1>1, <2>1
  <2>2. CASE d # c
    <3>1. caller'[d] = caller[d] /\ caller[d] \in CallType /\ CallOK(caller[d], runs)
      BY <1>1, <2>2 DEF RunInv
    <3>2. \A r \in Runs : Follows(runs[r], runs'[r]) /\ RecordOK(runs[r])
      BY DEF RunInv
    <3> QED
      BY <1>1, <3>1, <3>2, CallStable
  <2> QED
    BY <2>1, <2>2
<1>4. RunTypeOK'
  BY <1>2 DEF RunInv, RunTypeOK
<1>5. ActiveIndexExact'
  BY DEF ActiveIndexExact
<1> QED
  BY <1>3, <1>4, <1>5 DEF RunInv

\* A step that leaves the run facts alone.
LEMMA Quiet ==
    ASSUME RunInv, NEW c \in Callers, NEW call \in CallType,
           caller' = [caller EXCEPT ![c] = call],
           CallOK(call, runs),
           runs' = runs, active' = active, now' = now,
           evidence' \in Seq(Digests),
           observed' \in [Sources -> 0..Len(evidence')]
    PROVE  RunInv'
<1>1. /\ runs' \in [Runs -> RunRecord]
      /\ \A r \in Runs : Follows(runs[r], runs'[r]) /\ RecordOK(runs'[r])
      /\ CallOK(call, runs')
      /\ active' \in Runs \cup {"none"}
      /\ \A r \in Runs : active' = r <=> Live(runs'[r])
  BY DEF RunInv, RunTypeOK, ActiveIndexExact, Follows
<1> QED
  BY <1>1, Assemble

\* Only the caller moves.
LEMMA CallerMoves ==
    ASSUME RunInv, NEW c \in Callers, NEW call \in CallType,
           caller' = [caller EXCEPT ![c] = call],
           CallOK(call, runs),
           UNCHANGED <<runs, active, evidence, observed, now>>
    PROVE  RunInv'
<1>1. evidence' \in Seq(Digests) /\ observed' \in [Sources -> 0..Len(evidence')]
  BY DEF RunInv, RunTypeOK
<1> QED
  BY <1>1, Quiet

\* Types of a call and of the run it is about.
LEMMA Typing ==
    ASSUME RunInv
    PROVE  /\ \A c \in Callers : caller[c] \in CallType /\ CallOK(caller[c], runs)
           /\ \A r \in Runs : runs[r] \in RunRecord /\ RecordOK(runs[r])
           /\ NoRecord \in RunRecord
           /\ NoClaim \in Claims \cup {NoClaim}
           /\ now \in Nat
  BY NoRecordType, RunAssumption DEF RunInv, RunTypeOK

\* An answer without success, or none at all, says nothing.
LEMMA SilentCallOK ==
    ASSUME NEW call, call.pc \in {"idle", "error", "unknown"}
    PROVE  CallOK(call, runs) /\ CallOK(call, runs')
  BY DEF CallOK

\* BeginStop up to its compare-and-swap preserves the invariant.
LEMMA BeginStopKeeps ==
    ASSUME RunInv, NEW c \in Callers, NEW r \in Runs, BeginStop(c, r)
    PROVE  RunInv'
<1> DEFINE pc == CASE runs[r].status = "stopping" -> "ok"
                   [] runs[r].status = "running"  -> "cas"
                   [] OTHER                       -> "error"
           copy == IF runs[r].status = "running" THEN runs[r] ELSE NoRecord
           call == Call(pc, "stop", r, copy, NoClaim, "none")
<1>1. caller' = [caller EXCEPT ![c] = call]
      /\ UNCHANGED <<runs, active, evidence, observed, now>>
  BY DEF BeginStop, SetCall
<1>2. pc \in {"ok", "cas", "error"} /\ copy \in RunRecord
  BY Typing
<1>3. call \in CallType
  BY <1>2, CallIsCall, Typing DEF Answers
<1>4. call.pc = pc /\ call.op = "stop" /\ call.run = r /\ call.copy = copy
  BY CallFields
<1>5. pc = "cas" => copy = runs[r] /\ Live(copy) /\ copy.rev \in Nat
  BY Typing, RunFieldTypes DEF Live
<1>6. pc = "ok" => runs[r].status = "stopping"
  OBVIOUS
<1> HIDE DEF call, pc, copy
<1>7. CallOK(call, runs)
  BY <1>2, <1>4, <1>5, <1>6 DEF CallOK, AnswerStands
<1> QED
  BY <1>1, <1>3, <1>7, CallerMoves

\* Finish up to its compare-and-swap preserves the invariant.
LEMMA FinishKeeps ==
    ASSUME RunInv, NEW c \in Callers, NEW r \in Runs, NEW o \in Outcomes,
           Finish(c, r, o)
    PROVE  RunInv'
<1> DEFINE pc == CASE Live(runs[r])                -> "cas"
                   [] runs[r].status = "terminal"
                         /\ runs[r].outcome = o    -> "ok"
                   [] OTHER                        -> "error"
           copy == IF Live(runs[r]) THEN runs[r] ELSE NoRecord
           call == Call(pc, "finish", r, copy, NoClaim, o)
<1>1. caller' = [caller EXCEPT ![c] = call]
      /\ UNCHANGED <<runs, active, evidence, observed, now>>
  BY DEF Finish, SetCall
<1>0. Live(runs[r]) => runs[r].status # "terminal"
  BY DEF Live
<1>2. pc \in {"ok", "cas", "error"} /\ copy \in RunRecord
  BY <1>0, Typing
<1>3. call \in CallType
  BY <1>2, CallIsCall, Typing DEF Answers
<1>4. call.pc = pc /\ call.op = "finish" /\ call.run = r /\ call.copy = copy
      /\ call.outcome = o
  BY CallFields
<1>5. pc = "cas" => copy = runs[r] /\ Live(copy) /\ copy.rev \in Nat
  BY <1>0, Typing, RunFieldTypes
<1>6. pc = "ok" => runs[r].status = "terminal" /\ runs[r].outcome = o
  BY <1>0
<1> HIDE DEF call, pc, copy
<1>7. CallOK(call, runs)
  BY <1>2, <1>4, <1>5, <1>6 DEF CallOK, AnswerStands
<1> QED
  BY <1>1, <1>3, <1>7, CallerMoves

\* The checks of the claim gateway preserve the invariant.
LEMMA IngestKeeps ==
    ASSUME RunInv, NEW c \in Callers, NEW r \in Runs, NEW s \in Sources,
           NEW d \in Digests, NEW k \in Kinds, NEW at \in 0..now,
           Ingest(c, r, s, d, k, at)
    PROVE  RunInv'
<1> DEFINE pc == IF Live(runs[r]) /\ at >= runs[r].started THEN "append" ELSE "error"
           claim == [source |-> s, digest |-> d, kind |-> k, ref |-> 0, at |-> at]
           call == Call(pc, "claim", r, NoRecord, claim, "none")
<1>1. caller' = [caller EXCEPT ![c] = call]
      /\ UNCHANGED <<runs, active, evidence, observed, now>>
  BY DEF Ingest, SetCall
<1>2. claim \in Claims
  BY Typing DEF Claims
<1>3. pc \in {"append", "error"}
  OBVIOUS
<1> HIDE DEF claim, pc
<1>4. call \in CallType
  BY <1>2, <1>3, CallIsCall, Typing DEF Answers
<1>5. call.pc = pc /\ call.op = "claim" /\ call.run = r /\ call.claim = claim
  BY CallFields
<1> HIDE DEF call
<1>6. CallOK(call, runs)
  BY <1>2, <1>3, <1>5 DEF CallOK
<1> QED
  BY <1>1, <1>4, <1>6, CallerMoves

\* Going on with a call: its arguments stay.
LEMMA ContinueCall ==
    ASSUME RunInv, NEW c \in Callers, NEW copy \in RunRecord,
           NEW pc \in {"append", "record", "cas", "reinspect"} \cup Answers,
           Continue(c, pc, copy)
    PROVE  \E call \in CallType :
              /\ caller' = [caller EXCEPT ![c] = call]
              /\ call.pc = pc /\ call.op = caller[c].op /\ call.run = caller[c].run
              /\ call.copy = copy /\ call.claim = caller[c].claim
              /\ call.outcome = caller[c].outcome
<1> DEFINE call == Call(pc, caller[c].op, caller[c].run, copy, caller[c].claim,
                        caller[c].outcome)
<1>1. call \in CallType
  BY Typing, CallFieldTypes, CallIsCall
<1>2. caller' = [caller EXCEPT ![c] = call]
  BY DEF Continue, SetCall
<1>3. /\ call.pc = pc /\ call.op = caller[c].op /\ call.run = caller[c].run
      /\ call.copy = copy /\ call.claim = caller[c].claim
      /\ call.outcome = caller[c].outcome
  BY CallFields
<1> HIDE DEF call
<1> QED
  BY <1>1, <1>2, <1>3

\* A caller that gets an answer keeps what it asked for.
LEMMA AnswerCall ==
    ASSUME RunInv, NEW c \in Callers, NEW answer \in Answers, Answer(c, answer)
    PROVE  \E call \in CallType :
              /\ caller' = [caller EXCEPT ![c] = call]
              /\ call.pc = answer /\ call.op = caller[c].op
              /\ call.run = caller[c].run /\ call.claim = caller[c].claim
              /\ call.outcome = caller[c].outcome
<1>1. Continue(c, answer, NoRecord)
  BY DEF Answer
<1>2. answer \in {"append", "record", "cas", "reinspect"} \cup Answers
  OBVIOUS
<1> QED
  BY <1>1, <1>2, ContinueCall, NoRecordType

\* A caller whose observation is appended goes on to record its claim.
LEMMA ToRecordCall ==
    ASSUME RunInv, NEW c \in Callers, NEW ref \in Nat, caller[c].pc = "append",
           ToRecord(c, ref)
    PROVE  \E call \in CallType :
              caller' = [caller EXCEPT ![c] = call] /\ CallOK(call, runs)
<1>1. caller[c].run \in Runs /\ caller[c].claim \in Claims
  BY Typing DEF CallOK
<1> DEFINE claim == WithRef(caller[c].claim, ref)
           call == Call("record", "claim", caller[c].run, NoRecord, claim, "none")
<1>2. claim \in Claims
  BY <1>1 DEF WithRef, Claims
<1>3. caller' = [caller EXCEPT ![c] = call]
  BY DEF ToRecord, SetCall
<1> HIDE DEF claim
<1>4. call \in CallType
  BY <1>1, <1>2, Typing, CallIsCall
<1>5. call.pc = "record" /\ call.op = "claim" /\ call.run = caller[c].run
      /\ call.claim = claim
  BY CallFields
<1> HIDE DEF call
<1>6. CallOK(call, runs)
  BY <1>1, <1>2, <1>5 DEF CallOK
<1> QED
  BY <1>3, <1>4, <1>6

\* Appending or deduplicating an observation preserves the invariant.
LEMMA AppendKeeps ==
    ASSUME RunInv, NEW c \in Callers, AppendObservation(c)
    PROVE  RunInv'
<1> DEFINE source == caller[c].claim.source
           digest == caller[c].claim.digest
<1>1. caller[c].pc = "append" /\ runs' = runs /\ active' = active /\ now' = now
  BY DEF AppendObservation
<1>2. caller[c].claim \in Claims
  BY <1>1, Typing DEF CallOK
<1>3. source \in Sources /\ digest \in Digests
  BY <1>2 DEF Claims
<1>4. evidence \in Seq(Digests) /\ observed \in [Sources -> 0..Len(evidence)]
  BY DEF RunInv, RunTypeOK
<1> HIDE DEF source, digest
<1>5. CASE observed[source] = 0
  <2>1. /\ evidence' = Append(evidence, digest)
        /\ observed' = [observed EXCEPT ![source] = Len(evidence) + 1]
        /\ ToRecord(c, Len(evidence) + 1)
    BY <1>5 DEF AppendObservation, source, digest
  <2>2. evidence' \in Seq(Digests) /\ Len(evidence') = Len(evidence) + 1
    BY <1>3, <1>4, <2>1
  <2>3. observed' \in [Sources -> 0..Len(evidence')]
    BY <1>3, <1>4, <2>1, <2>2
  <2>4. Len(evidence) + 1 \in Nat
    BY <1>4
  <2>5. PICK call \in CallType :
           caller' = [caller EXCEPT ![c] = call] /\ CallOK(call, runs)
    BY <1>1, <2>1, <2>4, ToRecordCall
  <2> QED
    BY <1>1, <2>2, <2>3, <2>5, Quiet
<1>6. CASE observed[source] # 0
  <2>1. /\ UNCHANGED <<evidence, observed>>
        /\ ToRecord(c, observed[source]) \/ Answer(c, "error")
    BY <1>6 DEF AppendObservation, source, digest
  <2>2. observed[source] \in Nat
    BY <1>3, <1>4
  <2>3. CASE ToRecord(c, observed[source])
    <3>1. PICK call \in CallType :
             caller' = [caller EXCEPT ![c] = call] /\ CallOK(call, runs)
      BY <1>1, <2>2, <2>3, ToRecordCall
    <3> QED
      BY <1>1, <2>1, <3>1, CallerMoves
  <2>4. CASE Answer(c, "error")
    <3>1. PICK call \in CallType :
             caller' = [caller EXCEPT ![c] = call] /\ call.pc = "error"
      BY <2>4, AnswerCall DEF Answers
    <3>2. CallOK(call, runs)
      BY <3>1, SilentCallOK
    <3> QED
      BY <1>1, <2>1, <3>1, <3>2, CallerMoves
  <2> QED
    BY <2>1, <2>3, <2>4
<1> QED
  BY <1>5, <1>6

\* RecordCompletionClaim up to its compare-and-swap preserves the invariant.
LEMMA RecordKeeps ==
    ASSUME RunInv, NEW c \in Callers, RecordCompletionClaim(c)
    PROVE  RunInv'
<1> DEFINE run == runs[caller[c].run]
<1>1. /\ caller[c].pc = "record"
      /\ UNCHANGED <<runs, active, evidence, observed, now>>
  BY DEF RecordCompletionClaim
<1>2. caller[c].op = "claim" /\ caller[c].run \in Runs /\ caller[c].claim \in Claims
  BY <1>1, Typing DEF CallOK
<1>3. \/ run.claim = caller[c].claim /\ Answer(c, "ok")
      \/ Answer(c, "error")
      \/ run.claim = NoClaim /\ Live(run) /\ Continue(c, "cas", run)
  BY DEF RecordCompletionClaim
<1>4. CASE run.claim = caller[c].claim /\ Answer(c, "ok")
  <2>1. PICK call \in CallType :
              /\ caller' = [caller EXCEPT ![c] = call]
              /\ call.pc = "ok" /\ call.op = caller[c].op
              /\ call.run = caller[c].run /\ call.claim = caller[c].claim
    BY <1>4, AnswerCall DEF Answers
  <2>2. CallOK(call, runs)
    BY <1>2, <1>4, <2>1 DEF CallOK, AnswerStands
  <2> QED
    BY <1>1, <2>1, <2>2, CallerMoves
<1>5. CASE Answer(c, "error")
  <2>1. PICK call \in CallType :
           caller' = [caller EXCEPT ![c] = call] /\ call.pc = "error"
    BY <1>5, AnswerCall DEF Answers
  <2>2. CallOK(call, runs)
    BY <2>1, SilentCallOK
  <2> QED
    BY <1>1, <2>1, <2>2, CallerMoves
<1>6. CASE run.claim = NoClaim /\ Live(run) /\ Continue(c, "cas", run)
  <2>1. run \in RunRecord /\ run.rev \in Nat
    BY <1>2, Typing, RunFieldTypes
  <2>2. PICK call \in CallType :
              /\ caller' = [caller EXCEPT ![c] = call]
              /\ call.pc = "cas" /\ call.op = caller[c].op
              /\ call.run = caller[c].run /\ call.claim = caller[c].claim
              /\ call.copy = run
    BY <1>6, <2>1, ContinueCall
  <2>3. CallOK(call, runs)
    BY <1>2, <1>6, <2>1, <2>2 DEF CallOK
  <2> QED
    BY <1>1, <2>2, <2>3, CallerMoves
<1> QED
  BY <1>3, <1>4, <1>5, <1>6

\* The inspection after a failed or lost claim write preserves the invariant.
LEMMA ReinspectKeeps ==
    ASSUME RunInv, NEW c \in Callers, Reinspect(c)
    PROVE  RunInv'
<1>1. /\ caller[c].pc = "reinspect"
      /\ UNCHANGED <<runs, active, evidence, observed, now>>
  BY DEF Reinspect
<1>2. caller[c].op = "claim" /\ caller[c].run \in Runs /\ caller[c].claim \in Claims
  BY <1>1, Typing DEF CallOK
<1>3. PICK answer \in {"ok", "error"} :
         Answer(c, answer)
         /\ (answer = "ok" => runs[caller[c].run].claim = caller[c].claim)
  BY DEF Reinspect
<1>4. PICK call \in CallType :
            /\ caller' = [caller EXCEPT ![c] = call]
            /\ call.pc = answer /\ call.op = caller[c].op
            /\ call.run = caller[c].run /\ call.claim = caller[c].claim
  BY <1>3, AnswerCall DEF Answers
<1>5. CallOK(call, runs)
  BY <1>2, <1>3, <1>4 DEF CallOK, AnswerStands
<1> QED
  BY <1>1, <1>4, <1>5, CallerMoves

\* A caller that returns or dies preserves the invariant.
LEMMA ForgetKeeps ==
    ASSUME RunInv, NEW c \in Callers, Forget(c)
    PROVE  RunInv'
<1>1. caller' = [caller EXCEPT ![c] = NoCall]
      /\ UNCHANGED <<runs, active, evidence, observed, now>>
  BY DEF Forget, SetCall
<1>2. NoCall \in CallType /\ NoCall.pc = "idle"
  BY CallIsCall, CallFields, NoRecordType DEF NoCall
<1>3. CallOK(NoCall, runs)
  BY <1>2, SilentCallOK
<1> QED
  BY <1>1, <1>2, <1>3, CallerMoves

\* The record Start creates.
LEMMA NewRunFacts ==
    ASSUME NEW t \in Nat
    PROVE  LET n == RunAt("running", 1, t, "none", NoClaim)
           IN  /\ n \in RunRecord /\ n.status = "running" /\ n.rev = 1
               /\ n.outcome = "none" /\ n.claim = NoClaim
  BY RunAtType, RunAtFields

\* Creating a run preserves the invariant.
LEMMA StartKeeps ==
    ASSUME RunInv, NEW c \in Callers, NEW r \in Runs, Start(c, r)
    PROVE  RunInv'
<1>1. evidence' = evidence /\ observed' = observed /\ now' = now
  BY DEF Start
<1>2. /\ evidence' \in Seq(Digests) /\ observed' \in [Sources -> 0..Len(evidence')]
      /\ runs \in [Runs -> RunRecord] /\ now \in Nat
      /\ \A q \in Runs : active = q <=> Live(runs[q])
  BY <1>1, RunAssumption DEF RunInv, RunTypeOK, ActiveIndexExact
<1>3. CASE runs[r].status = "absent" /\ active = "none"
  <2> DEFINE new == RunAt("running", 1, now, "none", NoClaim)
  <2>1. /\ runs' = [runs EXCEPT ![r] = new] /\ active' = r
        /\ \E answer \in {"ok", "unknown"} :
              SetCall(c, Call(answer, "start", r, NoRecord, NoClaim, "none"))
    BY <1>3 DEF Start
  <2>2. /\ new \in RunRecord /\ new.status = "running" /\ new.rev = 1
        /\ new.outcome = "none" /\ new.claim = NoClaim
    BY <1>2, NewRunFacts
  <2> HIDE DEF new
  <2>3. PICK answer \in {"ok", "unknown"} :
           caller' = [caller EXCEPT ![c] =
                        Call(answer, "start", r, NoRecord, NoClaim, "none")]
    BY <2>1 DEF SetCall
  <2> DEFINE call == Call(answer, "start", r, NoRecord, NoClaim, "none")
  <2>4. call \in CallType
    BY CallIsCall, NoRecordType DEF Answers
  <2>5. call.pc = answer /\ call.op = "start" /\ call.run = r
    BY CallFields
  <2>6. caller' = [caller EXCEPT ![c] = call]
    BY <2>3
  <2> HIDE DEF call
  <2>7. runs' \in [Runs -> RunRecord]
    BY <1>2, <2>1, <2>2
  <2>8. runs'[r] = new /\ \A q \in Runs \ {r} : runs'[q] = runs[q]
    BY <1>2, <2>1
  <2>9. CallOK(call, runs')
    BY <2>2, <2>5, <2>8 DEF CallOK, AnswerStands
  <2>10. ASSUME NEW q \in Runs
         PROVE  /\ Follows(runs[q], runs'[q]) /\ RecordOK(runs'[q])
                /\ active' = q <=> Live(runs'[q])
    <3>1. CASE q = r
      <4>1. runs[r] = NoRecord /\ NoRecord.rev = 0
        BY <1>3, Typing, NoRecordType DEF RecordOK
      <4>2. Follows(runs[r], new)
        BY <2>2, <4>1, NoRecordType DEF Follows
      <4> QED
        BY <2>1, <2>2, <2>8, <3>1, <4>2 DEF RecordOK, Live
    <3>2. CASE q # r
      <4>1. "none" \notin Runs
        BY RunAssumption
      <4>2. ~Live(runs[q])
        BY <1>2, <1>3, <4>1
      <4> QED
        BY <2>1, <2>8, <3>2, <4>2, Typing DEF Follows
    <3> QED
      BY <3>1, <3>2
  <2>11. active' \in Runs \cup {"none"}
    BY <2>1
  <2> QED
    BY <1>1, <1>2, <2>4, <2>6, <2>7, <2>9, <2>10, <2>11, Assemble
<1>4. CASE ~(runs[r].status = "absent" /\ active = "none")
  <2> DEFINE call == Call("error", "start", r, NoRecord, NoClaim, "none")
  <2>1. UNCHANGED <<runs, active>> /\ caller' = [caller EXCEPT ![c] = call]
    BY <1>4 DEF Start, SetCall
  <2>2. call \in CallType /\ call.pc = "error"
    BY CallIsCall, CallFields, NoRecordType DEF Answers
  <2> HIDE DEF call
  <2>3. CallOK(call, runs)
    BY <2>2, SilentCallOK
  <2> QED
    BY <1>1, <2>1, <2>2, <2>3, CallerMoves
<1> QED
  BY <1>3, <1>4

\* What a swap that is allowed writes: it works on the record it has read, and
\* each operation changes its own part of it.
LEMMA SwapFacts ==
    ASSUME RunInv, NEW c \in Callers, caller[c].pc = "cas", SwapAllowed(caller[c])
    PROVE  LET call == caller[c]
               m == runs[call.run]
               n == NextRun(call)
           IN  /\ call.run \in Runs
               /\ m \in RunRecord /\ n \in RunRecord
               /\ Live(m) /\ m.outcome = "none" /\ n.rev = m.rev + 1
               /\ \/ /\ call.op = "stop" /\ n.status = "stopping"
                     /\ n.claim = m.claim /\ n.outcome = m.outcome
                  \/ /\ call.op = "claim" /\ n.status = m.status
                     /\ m.claim = NoClaim /\ n.claim = call.claim
                     /\ call.claim \in Claims /\ n.outcome = m.outcome
                  \/ /\ call.op = "finish" /\ n.status = "terminal"
                     /\ n.claim = m.claim /\ n.outcome = call.outcome
                     /\ call.outcome \in Outcomes
<1> DEFINE call == caller[c]
           m == runs[call.run]
           n == NextRun(call)
<1>1. /\ call.run \in Runs /\ call.op \in {"stop", "claim", "finish"}
      /\ call.op = "claim" => call.copy.claim = NoClaim /\ call.claim \in Claims
      /\ call.op = "finish" => call.outcome \in Outcomes
      /\ Live(call.copy)
      /\ call.copy.rev = m.rev => call.copy = m
  BY Typing DEF CallOK
<1>2. call.copy = m
  BY <1>1 DEF SwapAllowed
<1>3. m \in RunRecord /\ RecordOK(m)
  BY <1>1, Typing
<1>4. /\ m.status \in {"absent", "running", "stopping", "terminal"}
      /\ m.rev \in Nat /\ m.started \in Nat
      /\ m.outcome \in Outcomes \cup {"none"} /\ m.claim \in Claims \cup {NoClaim}
  BY <1>3, RunFieldTypes
<1>5. Live(m) /\ m.outcome = "none"
  BY <1>1, <1>2, <1>3 DEF RecordOK
<1>9. m.rev + 1 \in Nat
  BY <1>4
<1>6. CASE call.op = "stop"
  <2>1. n = RunAt("stopping", m.rev + 1, m.started, m.outcome, m.claim)
    BY <1>2, <1>6 DEF NextRun
  <2>2. /\ n \in RunRecord /\ n.rev = m.rev + 1 /\ n.status = "stopping"
        /\ n.claim = m.claim /\ n.outcome = m.outcome
    <3>1. n \in RunRecord
      BY <1>4, <1>9, <2>1 DEF RunAt, RunRecord
    <3> QED
      BY <2>1, <3>1, RunAtFields
  <2> QED
    BY <1>1, <1>3, <1>5, <1>6, <2>2
<1>7. CASE call.op = "claim"
  <2>1. n = RunAt(m.status, m.rev + 1, m.started, m.outcome, call.claim)
    BY <1>2, <1>7 DEF NextRun
  <2>2. /\ n \in RunRecord /\ n.rev = m.rev + 1 /\ n.status = m.status
        /\ n.claim = call.claim /\ n.outcome = m.outcome
    <3>1. n \in RunRecord
      BY <1>1, <1>4, <1>7, <1>9, <2>1 DEF RunAt, RunRecord
    <3> QED
      BY <2>1, <3>1, RunAtFields
  <2> QED
    BY <1>1, <1>2, <1>3, <1>5, <1>7, <2>2
<1>8. CASE call.op = "finish"
  <2>1. n = RunAt("terminal", m.rev + 1, m.started, call.outcome, m.claim)
    BY <1>2, <1>8 DEF NextRun
  <2>2. /\ n \in RunRecord /\ n.rev = m.rev + 1 /\ n.status = "terminal"
        /\ n.claim = m.claim /\ n.outcome = call.outcome
    <3>1. n \in RunRecord
      BY <1>1, <1>4, <1>8, <1>9, <2>1, RunAtType
    <3> QED
      BY <2>1, <3>1, RunAtFields
  <2> QED
    BY <1>1, <1>3, <1>5, <1>8, <2>2
<1> QED
  BY <1>1, <1>6, <1>7, <1>8

\* An allowed swap leads to a record that follows the one it replaces.
LEMMA SwapFollows ==
    ASSUME RunInv, NEW c \in Callers, caller[c].pc = "cas", SwapAllowed(caller[c])
    PROVE  /\ Follows(runs[caller[c].run], NextRun(caller[c]))
           /\ RecordOK(NextRun(caller[c]))
           /\ Live(NextRun(caller[c])) <=> NextRun(caller[c]).status # "terminal"
<1> DEFINE m == runs[caller[c].run]
           n == NextRun(caller[c])
<1>1. /\ caller[c].run \in Runs /\ m \in RunRecord /\ n \in RunRecord
      /\ Live(m) /\ m.outcome = "none" /\ n.rev = m.rev + 1
      /\ n.status \in {"stopping", "terminal"} \/ n.status = m.status
      /\ m.claim # NoClaim => n.claim = m.claim
      /\ n.status # "terminal" => n.outcome = m.outcome
  BY SwapFacts DEF Live
<1>2. m.rev \in Nat
  BY <1>1, RunFieldTypes
<1>3. n.rev > m.rev /\ n.rev > 0
  BY <1>1, <1>2
<1> HIDE DEF m, n
<1>4. Follows(m, n) /\ RecordOK(n) /\ (Live(n) <=> n.status # "terminal")
  BY <1>1, <1>3 DEF Follows, RecordOK, Live
<1> QED
  BY <1>4 DEF m, n

\* The compare-and-swap of a run record preserves the invariant.
LEMMA SwapKeeps ==
    ASSUME RunInv, NEW c \in Callers, CompareAndSwapRun(c)
    PROVE  RunInv'
<1> DEFINE r == caller[c].run
           n == NextRun(caller[c])
<1>1. /\ caller[c].pc = "cas"
      /\ evidence' = evidence /\ observed' = observed /\ now' = now
  BY DEF CompareAndSwapRun
<1>2. /\ evidence' \in Seq(Digests) /\ observed' \in [Sources -> 0..Len(evidence')]
      /\ runs \in [Runs -> RunRecord]
      /\ \A q \in Runs : active = q <=> Live(runs[q])
  BY <1>1 DEF RunInv, RunTypeOK, ActiveIndexExact
<1>3. CASE SwapAllowed(caller[c])
  <2>1. /\ runs' = [runs EXCEPT ![r] = n]
        /\ active' = IF n.status = "terminal" THEN "none" ELSE r
        /\ \E answer \in {"ok", "unknown"} : Answer(c, answer)
    BY <1>3 DEF CompareAndSwapRun, Written
  <2>2. /\ r \in Runs /\ n \in RunRecord /\ Live(runs[r])
        /\ \/ caller[c].op = "stop" /\ n.status = "stopping"
           \/ caller[c].op = "claim" /\ n.claim = caller[c].claim
                                     /\ caller[c].claim \in Claims
           \/ caller[c].op = "finish" /\ n.status = "terminal"
                                      /\ n.outcome = caller[c].outcome
    BY <1>1, <1>3, SwapFacts
  <2>3. Follows(runs[r], n) /\ RecordOK(n) /\ (Live(n) <=> n.status # "terminal")
    BY <1>1, <1>3, SwapFollows
  <2> HIDE DEF n, r
  <2>4. runs' \in [Runs -> RunRecord]
        /\ runs'[r] = n /\ \A q \in Runs \ {r} : runs'[q] = runs[q]
    BY <1>2, <2>1, <2>2
  <2>5. PICK answer \in {"ok", "unknown"} : Answer(c, answer)
    BY <2>1
  <2>6. PICK call \in CallType :
              /\ caller' = [caller EXCEPT ![c] = call]
              /\ call.pc = answer /\ call.op = caller[c].op
              /\ call.run = r /\ call.claim = caller[c].claim
              /\ call.outcome = caller[c].outcome
    BY <2>5, AnswerCall DEF Answers, r
  <2>7. CallOK(call, runs')
    BY <2>2, <2>4, <2>6 DEF CallOK, AnswerStands
  <2>8. ASSUME NEW q \in Runs
        PROVE  /\ Follows(runs[q], runs'[q]) /\ RecordOK(runs'[q])
               /\ active' = q <=> Live(runs'[q])
    <3>0. "none" \notin Runs
      BY RunAssumption
    <3>1. CASE q = r
      BY <2>1, <2>2, <2>3, <2>4, <3>0, <3>1
    <3>2. CASE q # r
      <4>1. ~Live(runs[q])
        BY <1>2, <2>2, <3>2
      <4> QED
        BY <2>1, <2>4, <3>0, <3>2, <4>1, Typing DEF Follows
    <3> QED
      BY <3>1, <3>2
  <2>9. active' \in Runs \cup {"none"}
    BY <2>1, <2>2
  <2> QED
    BY <1>1, <1>2, <2>4, <2>6, <2>7, <2>8, <2>9, Assemble
<1>4. CASE ~SwapAllowed(caller[c])
  <2>1. /\ UNCHANGED <<runs, active>>
        /\ \/ caller[c].op = "claim" /\ Continue(c, "reinspect", NoRecord)
           \/ Answer(c, "error")
    BY <1>4 DEF CompareAndSwapRun
  <2>2. CASE caller[c].op = "claim" /\ Continue(c, "reinspect", NoRecord)
    <3>1. caller[c].run \in Runs /\ caller[c].claim \in Claims
      BY <1>1, <2>2, Typing DEF CallOK
    <3>2. PICK call \in CallType :
              /\ caller' = [caller EXCEPT ![c] = call]
              /\ call.pc = "reinspect" /\ call.op = caller[c].op
              /\ call.run = caller[c].run /\ call.claim = caller[c].claim
      BY <2>2, ContinueCall, NoRecordType
    <3>3. CallOK(call, runs)
      BY <2>2, <3>1, <3>2 DEF CallOK
    <3> QED
      BY <1>1, <2>1, <3>2, <3>3, CallerMoves
  <2>3. CASE Answer(c, "error")
    <3>1. PICK call \in CallType :
             caller' = [caller EXCEPT ![c] = call] /\ call.pc = "error"
      BY <2>3, AnswerCall DEF Answers
    <3>2. CallOK(call, runs)
      BY <3>1, SilentCallOK
    <3> QED
      BY <1>1, <2>1, <3>1, <3>2, CallerMoves
  <2> QED
    BY <2>1, <2>2, <2>3
<1> QED
  BY <1>3, <1>4

\* The passing of time preserves the invariant.
LEMMA TickKeeps ==
    ASSUME RunInv, Tick
    PROVE  RunInv'
<1>1. UNCHANGED <<runs, active, evidence, observed, caller>> /\ now' \in 0..MaxTime
  BY RunAssumption DEF Tick, RunInv, RunTypeOK
<1> QED
  BY <1>1 DEF RunInv, RunTypeOK, ActiveIndexExact

\* The invariant holds initially.
LEMMA InitInv == RunInit => RunInv
<1> SUFFICES ASSUME RunInit PROVE RunInv
  OBVIOUS
<1>1. NoCall \in CallType /\ NoCall.pc = "idle"
  BY CallIsCall, CallFields, NoRecordType DEF NoCall
<1>2. RunTypeOK
  BY <1>1, NoRecordType, RunAssumption DEF RunInit, RunTypeOK
<1>3. \A r \in Runs : runs[r] = NoRecord /\ runs[r].status = "absent"
  BY NoRecordType DEF RunInit
<1>4. ActiveIndexExact
  BY <1>3, RunAssumption DEF RunInit, ActiveIndexExact, Live
<1>5. \A r \in Runs : RecordOK(runs[r])
  BY <1>3 DEF RecordOK, Live
<1>6. CallOK(NoCall, runs)
  BY <1>1, SilentCallOK
<1>7. \A c \in Callers : CallOK(caller[c], runs)
  BY <1>6 DEF RunInit
<1> QED
  BY <1>2, <1>4, <1>5, <1>7 DEF RunInv

\* Every step keeps the invariant.
LEMMA NextInv == RunInv /\ [RunNext]_runVars => RunInv'
<1>1. ASSUME RunInv, RunNext PROVE RunInv'
  <2>1. CASE Tick
    BY <1>1, <2>1, TickKeeps
  <2>2. ASSUME NEW c \in Callers, NewCall(c) PROVE RunInv'
    <3>1. PICK r \in Runs :
        \/ Start(c, r)
        \/ BeginStop(c, r)
        \/ \E o \in Outcomes : Finish(c, r, o)
        \/ \E s \in Sources, d \in Digests, k \in Kinds, at \in 0..now :
              Ingest(c, r, s, d, k, at)
      BY <2>2 DEF NewCall
    <3> QED
      BY <1>1, <3>1, StartKeeps, BeginStopKeeps, FinishKeeps, IngestKeeps
  <2>3. ASSUME NEW c \in Callers,
               \/ AppendObservation(c) \/ RecordCompletionClaim(c)
               \/ CompareAndSwapRun(c) \/ Reinspect(c) \/ Forget(c)
        PROVE  RunInv'
    BY <1>1, <2>3, AppendKeeps, RecordKeeps, SwapKeeps, ReinspectKeeps, ForgetKeeps
  <2> QED
    BY <1>1, <2>1, <2>2, <2>3 DEF RunNext
<1>2. ASSUME RunInv, UNCHANGED runVars PROVE RunInv'
  BY <1>2 DEF RunInv, RunTypeOK, ActiveIndexExact, runVars
<1> QED
  BY <1>1, <1>2

----------------------------------------------------------------------------
(* The theorems.                                                           *)

\* Type correctness, the exact index of active runs, and answers that stand:
\* whatever replies are lost and whichever callers race or die, the index
\* names the live run and nobody was ever told of something the journal does
\* not say.
THEOREM RunSafety == RunSpec => [](RunTypeOK /\ ActiveIndexExact /\ AnswersStand)
<1>1. RunInv => RunTypeOK /\ ActiveIndexExact /\ AnswersStand
  <2>1. ASSUME RunInv, NEW c \in Callers, caller[c].pc = "ok"
        PROVE  AnswerStands(caller[c], runs)
    BY <2>1 DEF RunInv, CallOK
  <2>2. RunInv => AnswersStand
    BY <2>1 DEF AnswersStand, AnswerStands
  <2> QED
    BY <2>2 DEF RunInv
<1>2. RunSpec => []RunInv
  BY InitInv, NextInv, PTL DEF RunSpec
<1> QED
  BY <1>1, <1>2, PTL

\* The journal's records, its index, the evidence log and the calls in flight
\* keep their types.
THEOREM RunTypes == RunSpec => []RunTypeOK
BY RunSafety, PTL

\* The fact store's index of active runs names a run exactly while it is live,
\* for any number of runs and callers and whatever replies are lost.
THEOREM ActiveIndexStaysExact == RunSpec => []ActiveIndexExact
BY RunSafety, PTL

----------------------------------------------------------------------------
(* Claims rest on evidence.                                                *)

\* The evidence log, with its index by source, holds the observation a claim
\* refers to.
Holds(log, index, claim) ==
    /\ claim.ref \in 1..Len(log)
    /\ log[claim.ref] = claim.digest
    /\ index[claim.source] = claim.ref
Backed(claim) == Holds(evidence, observed, claim)

\* A call that is about to record a claim has its evidence in the log.
Recording(call) == call.pc = "record" \/ (call.pc = "cas" /\ call.op = "claim")
AsksBacked(call) == Recording(call) => Backed(call.claim)

\* ClaimIsBacked is about recorded claims only; that a claim is backed when it
\* is recorded must be known while its call is on the way.
BackedInv ==
    /\ \A r \in Runs : runs[r].claim # NoClaim =>
          Backed(runs[r].claim) /\ runs[r].claim.at >= runs[r].started
    /\ \A c \in Callers : AsksBacked(caller[c])

\* A step of one call that touches neither runs nor evidence.
LEMMA BackedCall ==
    ASSUME RunInv, BackedInv, NEW c \in Callers, NEW call, AsksBacked(call),
           SetCall(c, call), UNCHANGED <<runs, evidence, observed>>
    PROVE  BackedInv'
<1>1. \A x : Backed(x)' <=> Backed(x)
  BY DEF Backed, Holds
<1>2. \A d \in Callers : caller'[d] = IF d = c THEN call ELSE caller[d]
  BY DEF SetCall, RunInv, RunTypeOK
<1> QED
  BY <1>1, <1>2 DEF BackedInv, AsksBacked, Backed, Recording, Holds

\* Calls that do not lead to the recording of a claim.
LEMMA OtherCallsBacked ==
    ASSUME NEW pc, NEW op, NEW run, NEW copy, NEW claim, NEW outcome,
           pc # "record", pc # "cas" \/ op # "claim"
    PROVE  AsksBacked(Call(pc, op, run, copy, claim, outcome))
  BY CallFields DEF AsksBacked, Recording

\* Starting a run records no claim.
LEMMA StartBacked ==
    ASSUME RunInv, BackedInv, NEW c \in Callers, NEW r \in Runs, Start(c, r)
    PROVE  BackedInv'
<1>1. UNCHANGED <<evidence, observed>>
  BY DEF Start
<1>2. PICK answer : /\ answer \notin {"record", "cas"}
                    /\ SetCall(c, Call(answer, "start", r, NoRecord, NoClaim, "none"))
  BY DEF Start
<1>3. AsksBacked(Call(answer, "start", r, NoRecord, NoClaim, "none"))
  BY <1>2, OtherCallsBacked
<1>4. CASE runs' = runs
  BY <1>1, <1>2, <1>3, <1>4, BackedCall
<1>5. CASE runs' = [runs EXCEPT ![r] = RunAt("running", 1, now, "none", NoClaim)]
  <2>1. \A q \in Runs : runs'[q].claim # NoClaim => runs'[q] = runs[q]
    BY <1>5, RunAtFields DEF RunInv, RunTypeOK
  <2>2. \A d \in Callers : AsksBacked(caller'[d])
    BY <1>2, <1>3 DEF BackedInv, SetCall, RunInv, RunTypeOK
  <2>3. \A x : Backed(x)' <=> Backed(x)
    BY <1>1 DEF Backed, Holds
  <2> QED
    BY <2>1, <2>2, <2>3 DEF BackedInv, AsksBacked, Recording
<1> QED
  BY <1>4, <1>5 DEF Start

\* An observation is appended, or found with the digest of the claim: either
\* way the claim goes on with a reference to it.
LEMMA AppendBacked ==
    ASSUME RunInv, BackedInv, NEW c \in Callers, AppendObservation(c)
    PROVE  BackedInv'
<1> DEFINE claim == caller[c].claim
           source == claim.source
<1>1. claim \in Claims /\ source \in Sources /\ claim.digest \in Digests
  BY Typing DEF AppendObservation, CallOK, Claims
<1>2. /\ evidence \in Seq(Digests) /\ Len(evidence) \in Nat
      /\ observed \in [Sources -> 0..Len(evidence)]
      /\ runs' = runs
  BY DEF RunInv, RunTypeOK, AppendObservation
<1>3. \A ref : /\ WithRef(claim, ref).ref = ref
               /\ WithRef(claim, ref).source = source
               /\ WithRef(claim, ref).digest = claim.digest
  BY DEF WithRef
<1>4. CASE observed[source] = 0
  <2>1. /\ evidence' = Append(evidence, claim.digest)
        /\ observed' = [observed EXCEPT ![source] = Len(evidence) + 1]
        /\ ToRecord(c, Len(evidence) + 1)
    BY <1>4 DEF AppendObservation
  <2>2. /\ Len(evidence') = Len(evidence) + 1
        /\ evidence'[Len(evidence) + 1] = claim.digest
        /\ \A i \in 1..Len(evidence) : evidence'[i] = evidence[i]
    BY <1>1, <1>2, <2>1
  <2>3. ASSUME NEW x, Holds(evidence, observed, x)
        PROVE  Holds(evidence', observed', x)
    <3>1. x.source # source
      BY <1>2, <1>4, <2>3 DEF Holds
    <3>2. observed'[x.source] = observed[x.source]
      BY <1>2, <2>1, <3>1
    <3> QED
      BY <1>2, <2>2, <2>3, <3>2 DEF Holds
  <2> DEFINE new == WithRef(claim, Len(evidence) + 1)
  <2>4. Holds(evidence', observed', new)
    BY <1>1, <1>2, <1>3, <2>1, <2>2 DEF Holds
  <2>5. \A d \in Callers : d # c => caller'[d] = caller[d]
    BY <2>1 DEF ToRecord, SetCall, RunInv, RunTypeOK
  <2>6. caller'[c].claim = new
    BY <2>1, CallFields DEF ToRecord, SetCall, RunInv, RunTypeOK
  <2> HIDE DEF new
  <2>7. \A d \in Callers : AsksBacked(caller[d])'
    BY <2>3, <2>4, <2>5, <2>6 DEF BackedInv, AsksBacked, Backed, Recording
  <2> QED
    BY <1>2, <2>3, <2>7 DEF BackedInv, Backed
<1>5. CASE observed[source] # 0 /\ evidence[observed[source]] = claim.digest
  <2>1. UNCHANGED <<evidence, observed>> /\ ToRecord(c, observed[source])
    BY <1>5 DEF AppendObservation
  <2>2. Backed(WithRef(claim, observed[source]))
    BY <1>1, <1>2, <1>3, <1>5 DEF Backed, Holds
  <2>3. AsksBacked(Call("record", "claim", caller[c].run, NoRecord,
                        WithRef(claim, observed[source]), "none"))
    BY <2>2, CallFields DEF AsksBacked, Recording
  <2> QED
    BY <1>2, <2>1, <2>3, BackedCall DEF ToRecord
<1>6. CASE observed[source] # 0 /\ evidence[observed[source]] # claim.digest
  <2>1. UNCHANGED <<evidence, observed>> /\ Answer(c, "error")
    BY <1>6 DEF AppendObservation
  <2> QED
    BY <1>2, <2>1, BackedCall, OtherCallsBacked DEF Answer, Continue
<1> QED
  BY <1>4, <1>5, <1>6

\* The recording of a claim goes on with the claim it was asked for.
LEMMA RecordBacked ==
    ASSUME RunInv, BackedInv, NEW c \in Callers, RecordCompletionClaim(c)
    PROVE  BackedInv'
<1>1. UNCHANGED <<runs, evidence, observed>> /\ Backed(caller[c].claim)
  BY DEF RecordCompletionClaim, BackedInv, AsksBacked, Recording
<1>2. PICK pc, copy : Continue(c, pc, copy)
  BY DEF RecordCompletionClaim, Answer
<1>3. AsksBacked(Call(pc, caller[c].op, caller[c].run, copy, caller[c].claim,
                      caller[c].outcome))
  BY <1>1, CallFields DEF AsksBacked, Recording
<1> QED
  BY <1>1, <1>2, <1>3, BackedCall DEF Continue

\* A swap writes the claim of the record or the one its call has backed.
LEMMA SwapBacked ==
    ASSUME RunInv, BackedInv, NEW c \in Callers, CompareAndSwapRun(c)
    PROVE  BackedInv'
<1> DEFINE r == caller[c].run
           n == NextRun(caller[c])
<1>1. caller[c].pc = "cas" /\ UNCHANGED <<evidence, observed>>
  BY DEF CompareAndSwapRun
<1>2. PICK pc : /\ pc \in {"ok", "unknown", "error", "reinspect"}
                /\ Continue(c, pc, NoRecord)
  BY DEF CompareAndSwapRun, Written, Answer
<1>3. AsksBacked(Call(pc, caller[c].op, r, NoRecord, caller[c].claim, caller[c].outcome))
  BY <1>2, OtherCallsBacked
<1>4. CASE runs' = runs
  BY <1>1, <1>2, <1>3, <1>4, BackedCall DEF Continue
<1>5. CASE SwapAllowed(caller[c]) /\ runs' = [runs EXCEPT ![r] = n]
  <2>1. /\ r \in Runs
        /\ \/ n.claim = runs[r].claim
           \/ caller[c].op = "claim" /\ n.claim = caller[c].claim
    <3>1. \/ caller[c].op = "stop" /\ n.claim = runs[r].claim
          \/ caller[c].op = "claim" /\ n.claim = caller[c].claim
          \/ caller[c].op = "finish" /\ n.claim = runs[r].claim
      BY <1>1, <1>5, SwapFacts
    <3>2. r \in Runs
      BY <1>1, <1>5, SwapFacts
    <3> QED
      BY <3>1, <3>2
  <2>2. n.claim # NoClaim => n.claim.at >= n.started
    BY <1>5 DEF SwapAllowed, RunTransitionValid, RunValid
  <2>3. n.claim # NoClaim => Backed(n.claim)
    BY <1>1, <2>1 DEF BackedInv, AsksBacked, Recording
  <2> HIDE DEF n
  <2>4. \A q \in Runs : runs'[q] = IF q = r THEN n ELSE runs[q]
    BY <1>5, <2>1 DEF RunInv, RunTypeOK
  <2>5. \A d \in Callers : AsksBacked(caller'[d])
    BY <1>2, <1>3 DEF Continue, SetCall, BackedInv, RunInv, RunTypeOK
  <2>6. \A x : Backed(x)' <=> Backed(x)
    BY <1>1 DEF Backed, Holds
  <2> QED
    BY <2>2, <2>3, <2>4, <2>5, <2>6 DEF BackedInv, AsksBacked, Recording
<1> QED
  BY <1>4, <1>5 DEF CompareAndSwapRun

\* A claim that a run carries was backed by the evidence log when it was
\* recorded and is so ever after: neither Ingest's three separate steps nor
\* claims that compete for one source sequence leave one without its
\* observation, and none is dated before the run began.
THEOREM ClaimsStayBacked == RunSpec => []ClaimIsBacked
<1>1. RunInit => BackedInv
  <2>1. SUFFICES ASSUME RunInit PROVE BackedInv
    OBVIOUS
  <2>2. \A r \in Runs : runs[r].claim = NoClaim
    BY <2>1, NoRecordType DEF RunInit
  <2>3. \A c \in Callers : caller[c].pc = "idle"
    BY <2>1, CallFields DEF RunInit, NoCall
  <2> QED
    BY <2>2, <2>3 DEF BackedInv, AsksBacked, Recording
<1>2. ASSUME RunInv, BackedInv, [RunNext]_runVars
      PROVE  BackedInv'
  <2>1. CASE UNCHANGED <<runs, evidence, observed, caller>>
    BY <1>2, <2>1 DEF BackedInv, AsksBacked, Backed, Recording, Holds
  <2>2. ASSUME NEW c \in Callers, NEW r \in Runs, BeginStop(c, r)
        PROVE  BackedInv'
    BY <1>2, <2>2, BackedCall, OtherCallsBacked DEF BeginStop
  <2>3. ASSUME NEW c \in Callers, NEW r \in Runs, NEW o \in Outcomes, Finish(c, r, o)
        PROVE  BackedInv'
    BY <1>2, <2>3, BackedCall, OtherCallsBacked DEF Finish
  <2>4. ASSUME NEW c \in Callers, NEW r \in Runs, NEW s \in Sources,
               NEW d \in Digests, NEW k \in Kinds, NEW at \in 0..now,
               Ingest(c, r, s, d, k, at)
        PROVE  BackedInv'
    BY <1>2, <2>4, BackedCall, OtherCallsBacked DEF Ingest
  <2>5. ASSUME NEW c \in Callers, Reinspect(c)
        PROVE  BackedInv'
    <3>1. PICK answer \in {"ok", "error"} : Answer(c, answer)
      BY <2>5 DEF Reinspect
    <3> QED
      BY <1>2, <2>5, <3>1, BackedCall, OtherCallsBacked DEF Reinspect, Answer, Continue
  <2>6. ASSUME NEW c \in Callers, Forget(c)
        PROVE  BackedInv'
    BY <1>2, <2>6, BackedCall, OtherCallsBacked DEF Forget, NoCall
  <2>7. CASE Tick
    BY <2>1, <2>7 DEF Tick
  <2>8. CASE UNCHANGED runVars
    BY <2>1, <2>8 DEF runVars
  <2> QED
    BY <1>2, <2>2, <2>3, <2>4, <2>5, <2>6, <2>7, <2>8, StartBacked, AppendBacked,
       RecordBacked, SwapBacked DEF RunNext, NewCall
<1>3. BackedInv => ClaimIsBacked
  BY DEF BackedInv, Backed, Holds, ClaimIsBacked
<1>4. RunSpec => []RunInv
  BY InitInv, NextInv, PTL DEF RunSpec
<1> QED
  BY <1>1, <1>2, <1>3, <1>4, PTL DEF RunSpec

\* The phase the ledger sees.
LEMMA PhaseCases ==
    ASSUME NEW run \in RunRecord
    PROVE  /\ PhaseOf(run) = "absent" <=> run.status = "absent"
           /\ PhaseOf(run) = "live" <=> Live(run)
           /\ PhaseOf(run) = "ended" <=> run.status = "terminal"
  BY RunFieldTypes DEF PhaseOf, Live

\* A step that leaves the records alone is a stutter of the ledger.
LEMMA QuietLedger ==
    ASSUME runs' = runs
    PROVE  UNCHANGED Ledger!ledgerVars
  BY DEF Ledger!ledgerVars

\* A step that replaces one record is a step of the ledger on that run.
LEMMA StartLedger ==
    ASSUME RunInv, NEW c \in Callers, NEW r \in Runs, Start(c, r)
    PROVE  [Ledger!LedgerNext]_Ledger!ledgerVars
<1>1. CASE runs[r].status = "absent" /\ active = "none"
  <2> DEFINE new == RunAt("running", 1, now, "none", NoClaim)
  <2>1. runs' = [runs EXCEPT ![r] = new] /\ runs \in [Runs -> RunRecord]
    BY <1>1 DEF Start, RunInv, RunTypeOK
  <2>2. /\ new \in RunRecord /\ new.status = "running"
        /\ new.outcome = "none" /\ new.claim = NoClaim
    BY Typing, NewRunFacts
  <2> HIDE DEF new
  <2>3. runs[r] = NoRecord /\ runs[r].claim = NoClaim /\ runs[r].outcome = "none"
    BY <1>1, Typing, NoRecordType, RunAtFields DEF RecordOK, NoRecord
  <2>4. PhaseOf(new) = "live" /\ PhaseOf(runs[r]) = "absent"
    BY <1>1, <2>2, Typing, PhaseCases DEF Live
  <2>5. \A q \in Runs : PhaseOf(runs[q]) # "live"
    BY <1>1, Typing, PhaseCases, RunAssumption DEF RunInv, ActiveIndexExact
  <2>6. \A q \in Runs : runs'[q] = IF q = r THEN new ELSE runs[q]
    BY <2>1
  <2>7. Ledger!Begin(r)
    BY <2>2, <2>3, <2>4, <2>5, <2>6 DEF Ledger!Begin
  <2> QED
    BY <2>7 DEF Ledger!LedgerNext
<1>2. CASE ~(runs[r].status = "absent" /\ active = "none")
  BY <1>2, QuietLedger DEF Start
<1> QED
  BY <1>1, <1>2

\* The compare-and-swap is a step of the ledger, or changes no run.
LEMMA SwapLedger ==
    ASSUME RunInv, NEW c \in Callers, CompareAndSwapRun(c)
    PROVE  [Ledger!LedgerNext]_Ledger!ledgerVars
<1>1. CASE SwapAllowed(caller[c])
  <2>1. /\ runs' = [runs EXCEPT ![caller[c].run] = NextRun(caller[c])]
        /\ runs \in [Runs -> RunRecord]
        /\ caller[c].pc = "cas"
    BY <1>1 DEF CompareAndSwapRun, RunInv, RunTypeOK
  <2>2. PICK r \in Runs, n \in RunRecord :
           /\ r = caller[c].run /\ n = NextRun(caller[c])
           /\ runs[r] \in RunRecord /\ Live(runs[r]) /\ runs[r].outcome = "none"
           /\ \/ /\ n.status = "stopping"
                 /\ n.claim = runs[r].claim /\ n.outcome = runs[r].outcome
              \/ /\ n.status = runs[r].status
                 /\ runs[r].claim = NoClaim /\ n.claim \in Claims
                 /\ n.outcome = runs[r].outcome
              \/ /\ n.status = "terminal" /\ n.claim = runs[r].claim
                 /\ n.outcome \in Outcomes
    BY <1>1, <2>1, SwapFacts
  <2>3. \A q \in Runs : runs'[q] = IF q = r THEN n ELSE runs[q]
    BY <2>1, <2>2
  <2>4. PhaseOf(runs[r]) = "live"
    BY <2>2, PhaseCases
  <2>5. CASE n.status = "stopping" /\ n.claim = runs[r].claim
             /\ n.outcome = runs[r].outcome
    <3>1. PhaseOf(n) = "live"
      BY <2>2, <2>5, PhaseCases DEF Live
    <3> QED
      BY <2>3, <2>4, <2>5, <3>1 DEF Ledger!ledgerVars
  <2>6. CASE n.status = runs[r].status /\ runs[r].claim = NoClaim
             /\ n.claim \in Claims /\ n.outcome = runs[r].outcome
    <3>1. PhaseOf(n) = "live"
      BY <2>2, <2>6, PhaseCases DEF Live
    <3>2. Ledger!Attach(r)
      BY <2>3, <2>4, <2>6, <3>1 DEF Ledger!Attach
    <3> QED
      BY <3>2 DEF Ledger!LedgerNext
  <2>7. CASE n.status = "terminal" /\ n.claim = runs[r].claim
             /\ n.outcome \in Outcomes
    <3>1. PhaseOf(n) = "ended"
      BY <2>2, <2>7, PhaseCases
    <3>2. Ledger!End(r, n.outcome)
      BY <2>3, <2>4, <2>7, <3>1 DEF Ledger!End
    <3> QED
      BY <2>7, <3>2 DEF Ledger!LedgerNext
  <2> QED
    BY <2>2, <2>5, <2>6, <2>7
<1>2. CASE ~SwapAllowed(caller[c])
  BY <1>2, QuietLedger DEF CompareAndSwapRun
<1> QED
  BY <1>1, <1>2

\* The journal implements the ledger: run IDs are used once, one run is live
\* at a time, claims and outcomes are decided once, ended runs never change.
THEOREM RunJournalRefinesLedger == RunSpec => ImplementsRunLedger
<1>1. RunInit => Ledger!LedgerInit
  <2> SUFFICES ASSUME RunInit PROVE Ledger!LedgerInit
    OBVIOUS
  <2>1. \A r \in Runs : runs[r] = NoRecord
    BY DEF RunInit
  <2>2. PhaseOf(NoRecord) = "absent" /\ NoRecord.claim = NoClaim
        /\ NoRecord.outcome = "none"
    BY NoRecordType, PhaseCases, RunAtFields DEF NoRecord
  <2> QED
    BY <2>1, <2>2 DEF Ledger!LedgerInit
<1>2. RunInv /\ [RunNext]_runVars => [Ledger!LedgerNext]_Ledger!ledgerVars
  <2>1. ASSUME RunInv, RunNext PROVE [Ledger!LedgerNext]_Ledger!ledgerVars
    <3>1. CASE Tick
      BY <3>1, QuietLedger DEF Tick
    <3>2. ASSUME NEW c \in Callers, NewCall(c)
          PROVE  [Ledger!LedgerNext]_Ledger!ledgerVars
      <4>1. (\E r \in Runs : Start(c, r)) \/ runs' = runs
        BY <3>2 DEF NewCall, BeginStop, Finish, Ingest
      <4> QED
        BY <2>1, <4>1, StartLedger, QuietLedger
    <3>3. ASSUME NEW c \in Callers, CompareAndSwapRun(c)
          PROVE  [Ledger!LedgerNext]_Ledger!ledgerVars
      BY <2>1, <3>3, SwapLedger
    <3>4. ASSUME NEW c \in Callers,
                 \/ AppendObservation(c) \/ RecordCompletionClaim(c)
                 \/ Reinspect(c) \/ Forget(c)
          PROVE  [Ledger!LedgerNext]_Ledger!ledgerVars
      BY <3>4, QuietLedger DEF AppendObservation, RecordCompletionClaim,
                               Reinspect, Forget
    <3> QED
      BY <2>1, <3>1, <3>2, <3>3, <3>4 DEF RunNext
  <2>2. UNCHANGED runVars => UNCHANGED Ledger!ledgerVars
    BY QuietLedger DEF runVars
  <2> QED
    BY <2>1, <2>2
<1>3. RunSpec => []RunInv
  BY InitInv, NextInv, PTL DEF RunSpec
<1> QED
  BY <1>1, <1>2, <1>3, PTL DEF RunSpec, ImplementsRunLedger, Ledger!LedgerSpec
============================================================================
