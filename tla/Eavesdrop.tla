------------------------------ MODULE Eavesdrop ------------------------------
(***************************************************************************)
(* One eavesdrop session of a phone (recorder_next/features.py, group 7),  *)
(* the segments it records, the job that forwards a segment to Hermes      *)
(* (service.process_eavesdrop_segment), and the runs of the Hermes gateway *)
(* (adapters.HttpHermesGateway.submit).                                    *)
(*                                                                         *)
(* Jobs are those of JobContract.  A handler runs as the transactions and  *)
(* the calls it makes; the owner, the clock and other workers act between  *)
(* any two of them.  The phone is registered and active, a gateway is      *)
(* configured; a segment's number is its place in the session.             *)
(***************************************************************************)
EXTENDS Integers, FiniteSets

CONSTANTS
  MaxSegments,   \* segments the phone records (bound)
  Id,            \* client segment ids
  Bytes,         \* contents of a segment
  Spoken,        \* the contents that come with a transcript
  Worker,
  JobAttempts,   \* max_attempts of the forwarding job
  MaxFaults,     \* deaths, lapsed leases and broken connections (bound)
  Trouble        \* what else may happen in a run of the model, see Troubles

Troubles == {"stop", "session late", "job late", "run fails", "run late"}

ASSUME Contents == Spoken \subseteq Bytes /\ "none" \notin Bytes
ASSUME Bounds == MaxSegments \in Nat \ {0} /\ JobAttempts \in Nat \ {0} /\ MaxFaults \in Nat
ASSUME Happens == Trouble \subseteq Troubles

VARIABLES
  session,   \* eavesdrop_sessions: state, late (expires_at has passed), toggles, next_sequence
  row,       \* eavesdrop_segments by sequence
  file,      \* the managed file of each sequence
  decision,  \* eavesdrop_decisions.result_state
  reply,     \* the segments with a row in eavesdrop_replies
  bound,     \* the segments whose hermes_run_bindings row has its run id
  run,       \* the run the gateway keeps for the submission id of a segment
  job,       \* the forwarding job of a segment, as JobContract sees it
  running,   \* what each worker holds in memory
  faults

store == <<row, file>>
outcome == <<decision, reply, bound>>
vars == <<session, store, outcome, run, job, running, faults>>

Seg == 0 .. MaxSegments - 1
None == "none"
NoRow == [id |-> None, bytes |-> None]
NoJob == [phase |-> "ABSENT", current |-> 0, last |-> 0]
Idle == [seg |-> -1, token |-> 0, step |-> "idle"]

\* No code path enters FAILED, the seventh state of the schema.
SessionStates == {"NONE", "CREATED", "ACTIVE", "PAUSED", "STOPPING", "STOPPED", "EXPIRED"}
Decisions == {None, "QUEUED", "STORED_SILENT", "DELIVERED", "NO_SPEECH", "FAILED"}
Steps == {"read", "inactive", "unspoken", "submit", "post", "repost", "bind", "poll",
          "commit", "done", "raise", "fatal"}

TypeOK ==
  /\ session \in [state: SessionStates, late: BOOLEAN, hermes: BOOLEAN, response: BOOLEAN,
                  next: 0 .. MaxSegments]
  /\ row \in [Seg -> {NoRow} \cup [id: Id, bytes: Bytes]]
  /\ file \in [Seg -> {None} \cup Bytes]
  /\ decision \in [Seg -> Decisions]
  /\ reply \subseteq Seg /\ bound \subseteq Seg
  /\ run \in [Seg -> {None, "running", "completed", "failed"}]
  /\ job \in [Seg -> [phase: {"ABSENT", "OPEN", "SUCCEEDED", "FAILED"}, current: Nat, last: Nat]]
  /\ \A s \in Seg : job[s].current <= job[s].last /\ job[s].last <= JobAttempts
  /\ running \in [Worker -> {Idle} \cup [seg: Seg, token: 1 .. JobAttempts, step: Steps]]
  /\ faults \in 0 .. MaxFaults

Init ==
  /\ session = [state |-> "NONE", late |-> FALSE, hermes |-> FALSE, response |-> FALSE, next |-> 0]
  /\ row = [s \in Seg |-> NoRow] /\ file = [s \in Seg |-> None]
  /\ decision = [s \in Seg |-> None] /\ reply = {} /\ bound = {}
  /\ run = [s \in Seg |-> None]
  /\ job = [s \in Seg |-> NoJob]
  /\ running = [w \in Worker |-> Idle]
  /\ faults = 0

-----------------------------------------------------------------------------
(* The session and its owner.                                              *)

Open == {"CREATED", "ACTIVE", "PAUSED", "STOPPING"}

\* The session row after a read that finds it expired: STOPPED expires too.
Expired == IF session.state \in Open \cup {"STOPPED"} /\ session.late
           THEN [session EXCEPT !.state = "EXPIRED"] ELSE session

\* start_eavesdrop; a repeated call finds the row and changes nothing.
Start(hermes, response) ==
  /\ session.state = "NONE"
  /\ session' = [session EXCEPT !.state = "CREATED", !.hermes = hermes, !.response = response]
  /\ UNCHANGED <<store, outcome, run, job, running, faults>>

\* _transition_eavesdrop and its four callers.
Transition(allowed, target) ==
  /\ session.state # "NONE"
  /\ \/ /\ Expired # session
        /\ session' = Expired
     \/ /\ Expired = session /\ session.state \in allowed
        /\ session' = [session EXCEPT !.state = target]
  /\ UNCHANGED <<store, outcome, run, job, running, faults>>

Activate == Transition({"CREATED"}, "ACTIVE")
Pause == "stop" \in Trouble /\ Transition({"ACTIVE"}, "PAUSED")
Resume == Transition({"PAUSED"}, "ACTIVE")
BeginStop == "stop" \in Trouble /\ Transition({"CREATED", "ACTIVE", "PAUSED"}, "STOPPING")

\* stop_eavesdrop does not look at the time.
Stop ==
  /\ "stop" \in Trouble
  /\ session.state \in Open
  /\ session' = [session EXCEPT !.state = "STOPPED"]
  /\ UNCHANGED <<store, outcome, run, job, running, faults>>

\* get_eavesdrop_session of the owner, and recover_eavesdrop at startup,
\* which leaves STOPPED sessions alone.
Read ==
  /\ Expired # session
  /\ session' = Expired
  /\ UNCHANGED <<store, outcome, run, job, running, faults>>

Recover ==
  /\ session.state \in Open /\ session.late
  /\ session' = [session EXCEPT !.state = "EXPIRED"]
  /\ UNCHANGED <<store, outcome, run, job, running, faults>>

\* expires_at passes.
SessionLate ==
  /\ "session late" \in Trouble
  /\ session.state # "NONE" /\ ~session.late
  /\ session' = [session EXCEPT !.late = TRUE]
  /\ UNCHANGED <<store, outcome, run, job, running, faults>>

-----------------------------------------------------------------------------
(* Recording a segment.                                                    *)

Recording == session.state = "ACTIVE" /\ ~session.late

Known(s, id) == {u \in Seg : row[u] # NoRow /\ (u = s \/ row[u].id = id)}

\* _route_eavesdrop_segment_tx: the toggle of the owner overrides the agent.
RouteOf(agent) ==
  IF session.hermes /\ agent = "FORWARD_DEFAULT" THEN "QUEUED" ELSE "STORED_SILENT"

\* The job of a segment that is to be forwarded.
Enqueued(s, agent) == IF RouteOf(agent) = "QUEUED" THEN [job EXCEPT ![s].phase = "OPEN"] ELSE job

\* append_eavesdrop_segment: the file, then one transaction for the segment,
\* its decision, its run binding and its job.
Append(s, id, bytes, agent) ==
  /\ Recording /\ Known(s, id) = {} /\ s = session.next
  /\ file' = [file EXCEPT ![s] = bytes]
  /\ row' = [row EXCEPT ![s] = [id |-> id, bytes |-> bytes]]
  /\ session' = [session EXCEPT !.next = s + 1]
  /\ decision' = [decision EXCEPT ![s] = RouteOf(agent)]
  /\ job' = Enqueued(s, agent)
  /\ UNCHANGED <<reply, bound, run, running, faults>>

\* The process dies before the commit, or the agent raises: the transaction
\* is rolled back and the file stays.  Nothing else is left by a request that
\* is refused or repeats a segment.
AppendDies(s, id, bytes) ==
  /\ Recording /\ Known(s, id) = {} /\ s = session.next
  /\ file' = [file EXCEPT ![s] = bytes]
  /\ UNCHANGED <<session, row, outcome, run, job, running, faults>>

-----------------------------------------------------------------------------
(* The job of a segment.                                                   *)

SegOf(w) == running[w].seg
At(w, step) == running[w].step = step
GoTo(w, step) == running' = [running EXCEPT ![w].step = step]

\* _assert_worker_effect_tx: the claim, fenced by its token, is still live.
Live(w) == job[SegOf(w)].phase = "OPEN" /\ job[SegOf(w)].current = running[w].token

Fault == faults < MaxFaults /\ faults' = faults + 1

\* A worker is still at the job: its lease can only be lost by a fault.
Worked(s) == \E w \in Worker : running[w].seg = s /\ Live(w)

\* claim_worker_job of a job that waits, or whose lease has run out.
ClaimJob(w, s) ==
  /\ running[w] = Idle
  /\ job[s].phase = "OPEN" /\ job[s].last < JobAttempts
  /\ IF Worked(s) THEN Fault ELSE UNCHANGED faults
  /\ job' = [job EXCEPT ![s].current = job[s].last + 1, ![s].last = @ + 1]
  /\ running' = [running EXCEPT ![w] = [seg |-> s, token |-> job[s].last + 1, step |-> "read"]]
  /\ UNCHANGED <<session, store, outcome, run>>

Ended(s, phase) == [job EXCEPT ![s].phase = phase, ![s].current = 0]

\* _project_terminal_job_tx, in the transaction in which the job fails.
Projected(s) == IF decision[s] = "QUEUED" THEN [decision EXCEPT ![s] = "FAILED"] ELSE decision

\* Mutant of JobExpires: the decision is not told.
JobExpiresAlone(s) ==
  /\ "job late" \in Trouble
  /\ job[s].phase = "OPEN"
  /\ job' = Ended(s, "FAILED")
  /\ UNCHANGED <<session, store, outcome, run, running, faults>>

\* The job runs into its deadline of 300 seconds, or out of attempts, and a
\* sweep finds it.
JobExpires(s) ==
  /\ "job late" \in Trouble
  /\ job[s].phase = "OPEN"
  /\ job' = Ended(s, "FAILED")
  /\ decision' = Projected(s)
  /\ UNCHANGED <<session, store, reply, bound, run, running, faults>>

\* complete_worker_job
Complete(w) ==
  /\ At(w, "done")
  /\ job' = IF Live(w) THEN Ended(SegOf(w), "SUCCEEDED") ELSE job
  /\ running' = [running EXCEPT ![w] = Idle]
  /\ UNCHANGED <<session, store, outcome, run, faults>>

\* fail_worker_job: another attempt, or the end.
Fail(w) ==
  LET again == At(w, "raise") /\ running[w].token < JobAttempts IN
  /\ At(w, "raise") \/ At(w, "fatal")
  /\ job' = IF ~Live(w) THEN job
            ELSE IF again THEN [job EXCEPT ![SegOf(w)].current = 0]
            ELSE Ended(SegOf(w), "FAILED")
  /\ decision' = IF Live(w) /\ ~again THEN Projected(SegOf(w)) ELSE decision
  /\ running' = [running EXCEPT ![w] = Idle]
  /\ UNCHANGED <<session, store, reply, bound, run, faults>>

Dies(w) ==
  /\ running[w] # Idle /\ Fault
  /\ running' = [running EXCEPT ![w] = Idle]
  /\ UNCHANGED <<session, store, outcome, run, job>>

\* A LeaseConflict: the handler of an overtaken attempt ends.
GivesUp(w) ==
  /\ running[w] # Idle /\ ~Live(w)
  /\ running' = [running EXCEPT ![w] = Idle]
  /\ UNCHANGED <<session, store, outcome, run, job, faults>>

-----------------------------------------------------------------------------
(* process_eavesdrop_segment.                                              *)

\* It reads session, decision and segment, and decides on what it has read.
ReadSegment(w) ==
  /\ At(w, "read")
  /\ session' = Expired
  /\ GoTo(w, IF decision[SegOf(w)] # "QUEUED" THEN "done"
             ELSE IF Expired.state # "ACTIVE" THEN "inactive"
             ELSE IF row[SegOf(w)].bytes \notin Spoken THEN "unspoken"
             ELSE "submit")
  /\ UNCHANGED <<store, outcome, run, job, faults>>

\* mark_eavesdrop_decision(FAILED | NO_SPEECH): the session may expire here
\* too; a decision that is final refuses another one.
Mark(w) ==
  LET s == SegOf(w)
      result == IF At(w, "inactive") THEN "FAILED" ELSE "NO_SPEECH"
  IN
  /\ At(w, "inactive") \/ At(w, "unspoken")
  /\ Live(w) /\ decision[s] \in {"QUEUED", result}
  /\ session' = Expired
  /\ decision' = [decision EXCEPT ![s] = result]
  /\ GoTo(w, "done")
  /\ UNCHANGED <<store, reply, bound, run, job, faults>>

\* submit reads the binding: an earlier attempt may have bound the run.
Submit(w) ==
  /\ At(w, "submit")
  /\ GoTo(w, IF SegOf(w) \in bound THEN "poll" ELSE "post")
  /\ UNCHANGED <<session, store, outcome, run, job, faults>>

\* POST /v1/runs under the submission id, for which the gateway starts one run.
Accepted(s) == IF run[s] = None THEN [run EXCEPT ![s] = "running"] ELSE run

Post(w) ==
  /\ At(w, "post") \/ At(w, "repost")
  /\ run' = Accepted(SegOf(w))
  /\ GoTo(w, "bind")
  /\ UNCHANGED <<session, store, outcome, job, faults>>

\* The request or its response is lost; max_submit_attempts is 2.
PostLost(w) ==
  /\ At(w, "post") \/ At(w, "repost")
  /\ Fault
  /\ run' \in {run, Accepted(SegOf(w))}
  /\ GoTo(w, IF At(w, "post") THEN "repost" ELSE "fatal")
  /\ UNCHANGED <<session, store, outcome, job>>

\* bind_hermes_run, called back by submit; a refusal makes submit return
\* None, which ends the job.
Bind(w) ==
  /\ At(w, "bind")
  /\ bound' = IF Live(w) THEN bound \cup {SegOf(w)} ELSE bound
  /\ GoTo(w, IF Live(w) THEN "poll" ELSE "fatal")
  /\ UNCHANGED <<session, store, decision, reply, run, job, faults>>

RunEnds(s, how) ==
  /\ run[s] = "running"
  /\ how = "completed" \/ "run fails" \in Trouble
  /\ run' = [run EXCEPT ![s] = how]
  /\ UNCHANGED <<session, store, outcome, job, running, faults>>

\* A result that is none, or not of the bound run, is a permanent failure.
Received(how) == IF how = "completed" THEN "commit" ELSE "fatal"

\* GET /v1/runs/<id> until the run has ended; a failed run has no result.
Poll(w) ==
  /\ At(w, "poll") /\ run[SegOf(w)] \in {"completed", "failed"}
  /\ GoTo(w, Received(run[SegOf(w)]))
  /\ UNCHANGED <<session, store, outcome, run, job, faults>>

\* run_timeout_seconds pass: None again, a permanent failure.
PollTimesOut(w) ==
  /\ "run late" \in Trouble
  /\ At(w, "poll")
  /\ GoTo(w, "fatal")
  /\ UNCHANGED <<session, store, outcome, run, job, faults>>

\* Mutant of PollBreaks: an exception is final as well.
PollBreaksForGood(w) ==
  /\ At(w, "poll") /\ Fault
  /\ GoTo(w, "fatal")
  /\ UNCHANGED <<session, store, outcome, run, job>>

\* submit raises (a response cut short): a retryable transport failure.
PollBreaks(w) ==
  /\ At(w, "poll") /\ Fault
  /\ GoTo(w, "raise")
  /\ UNCHANGED <<session, store, outcome, run, job>>

\* Mutant of CommitResult: no look at the session.
CommitResultLate(w) ==
  LET s == SegOf(w) IN
  /\ At(w, "commit") /\ Live(w)
  /\ IF decision[s] = "QUEUED"
     THEN /\ decision' = [decision EXCEPT ![s] = "DELIVERED"]
          /\ reply' = IF session.response THEN reply \cup {s} ELSE reply
          /\ GoTo(w, "done")
     ELSE /\ GoTo(w, "fatal")
          /\ UNCHANGED <<decision, reply>>
  /\ UNCHANGED <<session, store, bound, run, job, faults>>

\* commit_eavesdrop_result: reply and decision in one transaction, while the
\* session lasts; a ConflictError ends the job.
CommitResult(w) ==
  LET s == SegOf(w)
      open == session.state \in {"ACTIVE", "PAUSED", "STOPPING"} /\ ~session.late
  IN
  /\ At(w, "commit") /\ Live(w)
  /\ IF s \in bound /\ open /\ decision[s] = "QUEUED"
     THEN /\ decision' = [decision EXCEPT ![s] = "DELIVERED"]
          /\ reply' = IF session.response THEN reply \cup {s} ELSE reply
          /\ GoTo(w, "done")
     ELSE /\ GoTo(w, "fatal")
          /\ UNCHANGED <<decision, reply>>
  /\ UNCHANGED <<session, store, bound, run, job, faults>>

-----------------------------------------------------------------------------

Owner ==
  \/ \E hermes, response \in BOOLEAN : Start(hermes, response)
  \/ Activate \/ Pause \/ Resume \/ BeginStop \/ Stop \/ Read \/ Recover
  \/ \E s \in Seg, id \in Id, bytes \in Bytes :
       \/ AppendDies(s, id, bytes)
       \/ \E agent \in {"FORWARD_DEFAULT", "STORE_SILENT"} : Append(s, id, bytes, agent)

Handler(w) ==
  \/ ReadSegment(w) \/ Mark(w) \/ Submit(w) \/ Post(w) \/ Bind(w) \/ Poll(w)
  \/ CommitResult(w) \/ Complete(w) \/ Fail(w) \/ GivesUp(w)

Next ==
  \/ Owner
  \/ SessionLate
  \/ \E s \in Seg : JobExpires(s) \/ \E how \in {"completed", "failed"} : RunEnds(s, how)
  \/ \E w \in Worker :
       \/ Handler(w) \/ PostLost(w) \/ PollTimesOut(w) \/ PollBreaks(w) \/ Dies(w)
       \/ \E s \in Seg : ClaimJob(w, s)

Spec == Init /\ [][Next]_vars

-----------------------------------------------------------------------------
(* Properties.                                                             *)

\* With the owner's toggle off no segment reaches Hermes, whatever the agent
\* says, and none is even queued for it; and what the agent kept silent is
\* not forwarded by a later attempt either.
SilentStaysLocal ==
  /\ ~session.hermes => \A s \in Seg : decision[s] \in {None, "STORED_SILENT"}
  /\ \A s \in Seg : decision[s] \in {None, "STORED_SILENT"} => run[s] = None /\ job[s] = NoJob

\* A segment's row describes the bytes in its file, although files are
\* written before rows, failed requests leave theirs behind and the phone
\* sends a sequence again with other bytes.
FilesAgree == \A s \in Seg : row[s] # NoRow => file[s] = row[s].bytes

\* Only an answer that Hermes gave to this segment's own run is delivered,
\* and the phone is shown a reply exactly if the owner wants replies.
DeliveredMeansAnswered ==
  \A s \in Seg :
    /\ decision[s] = "DELIVERED" => run[s] = "completed" /\ s \in bound
    /\ s \in reply <=> decision[s] = "DELIVERED" /\ session.response

\* Job and decision end together: whoever watches the decision is not left
\* waiting for a job that has failed or succeeded.
JobsAgree ==
  \A s \in Seg : (decision[s] = "QUEUED") => job[s].phase = "OPEN"

\* What a segment came to is final: neither a second attempt, nor a worker
\* thought dead, nor the failure of the job after an answer was delivered
\* changes it.
OutcomesStay ==
  [][\A s \in Seg :
       /\ decision[s] \notin {None, "QUEUED"} => decision'[s] = decision[s]
       /\ s \in reply => s \in reply']_vars

\* Nothing is delivered into a session that its owner has stopped or whose
\* time is over, however long Hermes took.
NothingAfterTheEnd ==
  [][\A s \in Seg : decision[s] # "DELIVERED" /\ decision'[s] = "DELIVERED"
       => session.state \in {"ACTIVE", "PAUSED", "STOPPING"} /\ ~session.late]_vars

Contract == INSTANCE JobContract WITH
  Job <- Seg, Max <- [s \in Seg |-> JobAttempts],
  phase <- [s \in Seg |-> job[s].phase],
  current <- [s \in Seg |-> job[s].current],
  last <- [s \in Seg |-> job[s].last],
  committed <- [s \in Seg |-> {}],
  handed <- [s \in Seg |-> IF job[s].phase = "FAILED" THEN 1 ELSE 0]

\* The forwarding jobs behave as JobContract says jobs do: one attempt in
\* charge, one end.
JobsKeepContract == Contract!Spec

\* Rows, files, decisions, runs, jobs and replies tell the same story, and
\* what is to stay silent stays on the server.
SegmentsAreTrue ==
  TypeOK /\ SilentStaysLocal /\ FilesAgree /\ DeliveredMeansAnswered /\ JobsAgree

\* No decision changes once it is taken, no answer comes after the end of its
\* session, and a job ends once.
EndsAreFinal == OutcomesStay /\ NothingAfterTheEnd /\ JobsKeepContract

\* While the session goes on and the gateway answers in time, deaths, lapsed
\* leases and broken connections, fewer than the job has attempts, do not
\* cost the answer: every forwarded segment is answered in the end.
AnswersArrive ==
  \A s \in Seg : decision[s] = "QUEUED" ~> decision[s] \in {"DELIVERED", "NO_SPEECH"}

=============================================================================
