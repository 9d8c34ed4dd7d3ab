----------------------------- MODULE HermesWire -----------------------------
(***************************************************************************)
(* One submission of a turn to Hermes (service.process_next_hermes with    *)
(* adapters.HttpHermesGateway.submit): the attempts of its job, the lease  *)
(* of its ingress row, the run it is bound to, and the runs the gateway    *)
(* starts for it; then the history job that looks for a late answer.       *)
(*                                                                         *)
(* The gateway, modelled from what submit relies on, keeps a run for the   *)
(* Idempotency-Key, but may forget it; a request that timed out may still  *)
(* arrive later.  TurnProtocol has the turn around it, where what happens  *)
(* here between the claim of the row and the commit is one choice.         *)
(***************************************************************************)
EXTENDS Integers, FiniteSets

CONSTANTS
  Worker,
  Attempts,   \* hermes_max_attempts, of the job and of the row
  Posts,      \* max_submit_attempts of one call of submit
  MaxRuns,    \* runs the gateway can start (bound)
  MaxFaults   \* lost requests, deaths, lapses and lapses of memory (bound)

VARIABLES
  jobs,      \* the hermes job: phase, attempts, worker whose claim is live; that of
             \* the history job
  row,       \* session_ingress: status, attempt_count, whether its lease lapsed
  bound,     \* hermes_run_bindings.run_id
  answer,    \* outcome of the turn, and the runs whose content is in its FINAL
  gateway,   \* runs by state, the one kept for the key, requests still under way
  work,      \* what each worker holds in memory
  faults

wire == <<jobs, row, bound, answer, gateway, work, faults>>

NoRun == 0
Foreign == MaxRuns + 1    \* a run bound to another submission
NoWorker == "no worker"
Runs == 1 .. MaxRuns
Resting == [step |-> "idle", token |-> 0, run |-> NoRun, posts |-> 0]

Steps == {"idle", "claim", "context", "preflight", "post", "bind", "poll", "result", "nothing",
          "check", "done", "history", "found"}

WireTypeOK ==
  /\ jobs \in [phase: {"OPEN", "SUCCEEDED", "FAILED"}, attempts: 0 .. Attempts,
               by: Worker \cup {NoWorker}, seeker: Worker \cup {NoWorker}]
  /\ row \in [status: {"QUEUED", "IN_PROGRESS", "SUBMITTED", "FAILED"}, attempts: 0 .. Attempts,
              late: BOOLEAN, sound: BOOLEAN]
  /\ bound \in {NoRun} \cup Runs
  /\ answer \in [outcome: {"none", "grace", "error", "success"}, of: SUBSET Runs]
  /\ gateway \in [runs: [Runs -> {"none", "running", "completed", "failed"}],
                  kept: {NoRun} \cup Runs, travelling: 0 .. MaxFaults, forgot: 0 .. MaxFaults]
  /\ work \in [Worker -> [step: Steps, token: 0 .. Attempts, run: 0 .. Foreign, posts: 0 .. Posts]]
  /\ faults \in 0 .. MaxFaults

WireInit ==
  /\ jobs = [phase |-> "OPEN", attempts |-> 0, by |-> NoWorker, seeker |-> NoWorker]
  /\ row \in [status: {"QUEUED"}, attempts: {0}, late: {FALSE}, sound: BOOLEAN]
  /\ bound = NoRun
  /\ answer = [outcome |-> "none", of |-> {}]
  /\ gateway = [runs |-> [r \in Runs |-> "none"], kept |-> NoRun, travelling |-> 0, forgot |-> 0]
  /\ work = [w \in Worker |-> Resting]
  /\ faults = 0

At(w, step) == work[w].step = step
GoTo(w, step) == work' = [work EXCEPT ![w].step = step]
Rests(w) == work' = [work EXCEPT ![w] = Resting]
Fault == faults < MaxFaults /\ faults' = faults + 1

\* The worker's claim of the job is live; its lease of the row is not another's.
\* Once the row was read again, the commit compares owners instead of tokens.
Fenced(w) == jobs.by = w
Holds(w) == row.status = "IN_PROGRESS" /\ row.attempts = work[w].token

-----------------------------------------------------------------------------
(* The job and the row.                                                    *)

ClaimJob(w) ==
  /\ At(w, "idle") /\ jobs.phase = "OPEN" /\ jobs.by = NoWorker /\ jobs.attempts < Attempts
  /\ jobs' = [jobs EXCEPT !.attempts = @ + 1, !.by = w]
  /\ GoTo(w, "claim")
  /\ UNCHANGED <<row, bound, answer, gateway, faults>>

\* An error that a late answer may still replace: the history job looks for it.
Graceful ==
  /\ answer' = IF answer.outcome = "none" THEN [answer EXCEPT !.outcome = "grace"] ELSE answer
  /\ row' = IF answer.outcome = "none" THEN [row EXCEPT !.status = "FAILED"] ELSE row

\* A failed attempt; the last one is projected onto the turn.
FailJob ==
  /\ jobs' = [jobs EXCEPT !.by = NoWorker, !.phase = IF jobs.attempts < Attempts THEN @ ELSE "FAILED"]
  /\ IF jobs.attempts < Attempts THEN UNCHANGED <<row, answer>> ELSE Graceful

\* complete_worker_job
Complete(w) ==
  /\ At(w, "done") /\ Fenced(w)
  /\ jobs' = [jobs EXCEPT !.by = NoWorker, !.phase = "SUCCEEDED"]
  /\ Rests(w)
  /\ UNCHANGED <<row, bound, answer, gateway, faults>>

RowFree == row.status = "QUEUED" \/ (row.status = "IN_PROGRESS" /\ row.late)

\* claim_session_ingress, without a look at the job: a row not leased, or whose
\* lease has run out.
ClaimRow(w) ==
  /\ At(w, "claim") /\ RowFree
  /\ row' = [row EXCEPT !.status = "IN_PROGRESS", !.attempts = @ + 1, !.late = FALSE]
  /\ work' = [work EXCEPT ![w].token = row.attempts + 1, ![w].step = "context"]
  /\ UNCHANGED <<jobs, bound, answer, gateway, faults>>

\* The row is another's: provider_unavailable, once more.
RowTaken(w) ==
  /\ At(w, "claim") /\ Fenced(w) /\ ~RowFree
  /\ FailJob /\ Rests(w)
  /\ UNCHANGED <<bound, gateway, faults>>

\* A worker whose claim was taken over ends where it next looks.
GivesWay(w) ==
  /\ \/ work[w].step \in {"claim", "context", "result", "nothing", "check", "done"} /\ ~Fenced(w)
     \/ At(w, "found") /\ jobs.seeker # w
  /\ Rests(w)
  /\ UNCHANGED <<jobs, row, bound, answer, gateway, faults>>

-----------------------------------------------------------------------------
(* The submission.                                                         *)

\* submission_context, read once: a run that is bound is only polled.
Context(w) ==
  /\ At(w, "context") /\ Fenced(w) /\ row.sound
  /\ work' = [work EXCEPT ![w].run = bound, ![w].step = IF bound = NoRun THEN "preflight" ELSE "poll"]
  /\ UNCHANGED <<jobs, row, bound, answer, gateway, faults>>

\* commit_hermes_error of an input Hermes cannot take: no grace.
RejectInput(w) ==
  /\ At(w, "context") /\ Fenced(w) /\ ~row.sound /\ Holds(w)
  /\ answer' = IF answer.outcome = "none" THEN [answer EXCEPT !.outcome = "error"] ELSE answer
  /\ row' = IF answer.outcome = "none" THEN [row EXCEPT !.status = "FAILED"] ELSE row
  /\ GoTo(w, "done")
  /\ UNCHANGED <<jobs, bound, gateway, faults>>

\* The gateway's session is asked for first; it may have ended.
Preflight(w) ==
  /\ At(w, "preflight")
  /\ \/ GoTo(w, "post") /\ UNCHANGED faults
     \/ GoTo(w, "nothing") /\ Fault
  /\ UNCHANGED <<jobs, row, bound, answer, gateway>>

Unused == {r \in Runs : gateway.runs[r] = "none"}

\* The gateway takes a request with the key: the run it keeps, or a new one.
Takes(g) ==
  IF g.kept # NoRun THEN g
  ELSE LET new == CHOOSE r \in Unused : TRUE
       IN  [g EXCEPT !.kept = new, !.runs[new] = "running"]
CanTake == gateway.kept # NoRun \/ Unused # {}

Post(w) ==
  /\ At(w, "post") /\ CanTake
  /\ gateway' = Takes(gateway)
  /\ work' = [work EXCEPT ![w].run = gateway'.kept, ![w].step = "bind"]
  /\ UNCHANGED <<jobs, row, bound, answer, faults>>

\* A request without a response before its deadline was taken, never will be,
\* or is still under way.
Unanswered ==
  {gateway, [gateway EXCEPT !.travelling = @ + 1]} \cup IF CanTake THEN {Takes(gateway)} ELSE {}

\* It is repeated, up to max_submit_attempts.
PostUnanswered(w) ==
  /\ At(w, "post") /\ Fault
  /\ gateway' \in Unanswered
  /\ work' = [work EXCEPT ![w].posts = @ + 1,
                          ![w].step = IF work[w].posts + 1 < Posts THEN "post" ELSE "nothing"]
  /\ UNCHANGED <<jobs, row, bound, answer>>

\* An HTTP error, or a run that belongs to another submission.
PostMisanswered(w) ==
  /\ At(w, "post") /\ Fault
  /\ \/ GoTo(w, "nothing")
     \/ work' = [work EXCEPT ![w].run = Foreign, ![w].step = "bind"]
  /\ UNCHANGED <<jobs, row, bound, answer, gateway>>

ArrivesLate ==
  /\ gateway.travelling > 0 /\ CanTake
  /\ gateway' = [Takes(gateway) EXCEPT !.travelling = @ - 1]
  /\ UNCHANGED <<jobs, row, bound, answer, work, faults>>

Forgets ==
  /\ gateway.kept # NoRun /\ Fault
  /\ gateway' = [gateway EXCEPT !.kept = NoRun, !.forgot = @ + 1]
  /\ UNCHANGED <<jobs, row, bound, answer, work>>

RunEnds(r) ==
  /\ gateway.runs[r] = "running"
  /\ \E how \in {"completed", "failed"} : gateway' = [gateway EXCEPT !.runs[r] = how]
  /\ UNCHANGED <<jobs, row, bound, answer, work, faults>>

\* bind_hermes_run: under the lease of the row, once, and never the run of
\* another submission.
MayBind(w) ==
  /\ Holds(w) /\ ~row.late
  /\ bound \in {NoRun, work[w].run} /\ work[w].run # Foreign

\* The callback of submit; a refusal makes submit return None.
Bind(w) ==
  /\ At(w, "bind")
  /\ IF MayBind(w)
     THEN bound' = work[w].run /\ GoTo(w, "poll")
     ELSE GoTo(w, "nothing") /\ UNCHANGED bound
  /\ UNCHANGED <<jobs, row, answer, gateway, faults>>

\* GET /v1/runs/<id>: the answer of the run, or none, because the run failed,
\* what came does not fit, or the deadline passed.
Poll(w) ==
  /\ At(w, "poll")
  /\ \/ gateway.runs[work[w].run] = "completed" /\ GoTo(w, "result")
     \/ GoTo(w, "nothing")
  /\ UNCHANGED <<jobs, row, bound, answer, gateway, faults>>

\* The renewal of the row's lease has failed: the result is not looked at.
LeaseLost(w) ==
  /\ At(w, "result") /\ ~(Holds(w) /\ ~row.late)
  /\ GoTo(w, "nothing")
  /\ UNCHANGED <<jobs, row, bound, answer, gateway, faults>>

-----------------------------------------------------------------------------
(* What becomes of it.                                                     *)

\* _commit_hermes_result_tx of the answer of a run: no second time the same,
\* and none once the grace period is over.
Answered(r) ==
  /\ answer' = IF answer.outcome = "error" THEN answer
               ELSE [outcome |-> "success", of |-> answer.of \cup {r}]
  /\ row' = IF answer.outcome = "error" \/ r \in answer.of THEN row ELSE [row EXCEPT !.status = "SUBMITTED"]

\* Mutant of Valid: a submission that was never bound takes any answer.
ValidUnbound(w) == bound \in {NoRun, work[w].run}

\* The validator: what came is of the run the row is bound to.
Valid(w) == work[w].run = bound

\* commit_hermes_result at the time of the claim, so that a lease that lapsed
\* since, but was not taken over, is good enough.
Commit(w) ==
  /\ At(w, "result") /\ Fenced(w) /\ Holds(w)
  /\ Valid(w)
  /\ Answered(work[w].run)
  /\ GoTo(w, "done")
  /\ UNCHANGED <<jobs, bound, gateway, faults>>

\* The row was taken over, and what the worker holds is refused.
CommitRefused(w) ==
  /\ work[w].step \in {"context", "result", "nothing"} /\ Fenced(w) /\ ~Holds(w)
  /\ ~(At(w, "context") /\ row.sound) /\ ~(At(w, "nothing") /\ work[w].token < Attempts)
  /\ FailJob /\ Rests(w)
  /\ UNCHANGED <<bound, gateway, faults>>

\* commit_hermes_error after the last attempt.
CommitError(w) ==
  /\ At(w, "nothing") /\ Fenced(w) /\ Holds(w) /\ work[w].token >= Attempts
  /\ Graceful
  /\ GoTo(w, "done")
  /\ UNCHANGED <<jobs, bound, gateway, faults>>

\* release_session_ingress, if the row is still the worker's.
Release(w) ==
  /\ At(w, "nothing") /\ Fenced(w) /\ work[w].token < Attempts
  /\ row' = IF Holds(w) THEN [row EXCEPT !.status = "QUEUED", !.late = FALSE] ELSE row
  /\ GoTo(w, "check")
  /\ UNCHANGED <<jobs, bound, answer, gateway, faults>>

\* The turn without a FINAL is a failed attempt.
Check(w) ==
  /\ At(w, "check") /\ Fenced(w)
  /\ IF answer.outcome = "none" THEN FailJob /\ Rests(w)
     ELSE GoTo(w, "done") /\ UNCHANGED <<jobs, row, answer>>
  /\ UNCHANGED <<bound, gateway, faults>>

-----------------------------------------------------------------------------
(* The history job, whose hundred attempts outlast the grace period.        *)

History(w) ==
  /\ At(w, "idle") /\ answer.outcome = "grace" /\ jobs.seeker = NoWorker
  /\ jobs' = [jobs EXCEPT !.seeker = w]
  /\ GoTo(w, "history")
  /\ UNCHANGED <<row, bound, answer, gateway, faults>>

Asked == {r \in Runs : gateway.runs[r] # "none"}

\* history_messages: the answer that follows the one message with the marker;
\* a submission that was taken twice is ambiguous.
HistoryFinds(w) ==
  /\ At(w, "history")
  /\ \/ /\ Cardinality(Asked) = 1 /\ \A r \in Asked : gateway.runs[r] = "completed"
        /\ work' = [work EXCEPT ![w].step = "found", ![w].run = CHOOSE r \in Asked : TRUE]
        /\ UNCHANGED jobs
     \/ /\ Rests(w)
        /\ jobs' = IF jobs.seeker = w THEN [jobs EXCEPT !.seeker = NoWorker] ELSE jobs
  /\ UNCHANGED <<row, bound, answer, gateway, faults>>

\* The answer must be that of the bound run; no lease of the row is asked for.
HistoryCommits(w) ==
  /\ At(w, "found") /\ jobs.seeker = w
  /\ IF Valid(w) THEN Answered(work[w].run) ELSE UNCHANGED <<answer, row>>
  /\ jobs' = [jobs EXCEPT !.seeker = NoWorker]
  /\ Rests(w)
  /\ UNCHANGED <<bound, gateway, faults>>

GraceEnds ==
  /\ answer.outcome = "grace"
  /\ answer' = [answer EXCEPT !.outcome = "error"]
  /\ UNCHANGED <<jobs, row, bound, gateway, work, faults>>

-----------------------------------------------------------------------------
(* Time and deaths.                                                        *)

Dies(w) ==
  /\ ~At(w, "idle") /\ Fault
  /\ Rests(w)
  /\ UNCHANGED <<jobs, row, bound, answer, gateway>>

\* A lease runs out: its holder has gone, or was stopped for too long.
JobLapses ==
  /\ jobs.by # NoWorker
  /\ IF At(jobs.by, "idle") THEN UNCHANGED faults ELSE Fault
  /\ FailJob
  /\ UNCHANGED <<bound, gateway, work>>

SearchLapses ==
  /\ jobs.seeker # NoWorker
  /\ IF At(jobs.seeker, "idle") THEN UNCHANGED faults ELSE Fault
  /\ jobs' = [jobs EXCEPT !.seeker = NoWorker]
  /\ UNCHANGED <<row, bound, answer, gateway, work>>

RowLapses ==
  /\ row.status = "IN_PROGRESS" /\ ~row.late
  /\ IF \E w \in Worker : Holds(w) THEN Fault ELSE UNCHANGED faults
  /\ row' = [row EXCEPT !.late = TRUE]
  /\ UNCHANGED <<jobs, bound, answer, gateway, work>>

Handler(w) ==
  \/ ClaimRow(w) \/ RowTaken(w) \/ GivesWay(w) \/ Context(w) \/ RejectInput(w)
  \/ Preflight(w) \/ Post(w) \/ Bind(w) \/ Poll(w) \/ LeaseLost(w)
  \/ Commit(w) \/ CommitRefused(w) \/ CommitError(w) \/ Release(w) \/ Check(w) \/ Complete(w)
  \/ HistoryFinds(w) \/ HistoryCommits(w)

WireNext ==
  \/ \E w \in Worker :
       \/ ClaimJob(w) \/ Handler(w) \/ History(w) \/ Dies(w)
       \/ PostUnanswered(w) \/ PostMisanswered(w)
  \/ ArrivesLate \/ Forgets \/ JobLapses \/ SearchLapses \/ RowLapses \/ GraceEnds
  \/ \E r \in Runs : RunEnds(r)

WireSafety == WireInit /\ [][WireNext]_wire

WireSpec ==
  /\ WireSafety
  /\ WF_wire(\E w \in Worker : ClaimJob(w))
  /\ \A w \in Worker : WF_wire(Handler(w))
  /\ WF_wire(JobLapses /\ At(jobs.by, "idle"))

-----------------------------------------------------------------------------
(* Properties.                                                             *)

\* The text of a FINAL is the answer of the one run the submission is bound to,
\* whatever was lost, repeated, forgotten or found late; and the row tells the
\* same story as the turn.
AnswerOfTheBoundRun ==
  /\ answer.of \subseteq {bound} \ {NoRun}
  /\ \A r \in answer.of : gateway.runs[r] = "completed"
  /\ answer.outcome = "success" <=> row.status = "SUBMITTED"
  /\ answer.outcome \in {"grace", "error"} <=> row.status = "FAILED"

\* The gateway starts a second run only for a key it has forgotten.
AskedOnce == Cardinality(Asked) <= 1 + gateway.forgot

\* Once a run is bound, and no request is under way, no run is started any
\* more, even by a gateway that has forgotten the key.
BoundIsBound ==
  [][bound # NoRun /\ gateway.travelling = 0
       /\ (\A w \in Worker : work[w].step \notin {"preflight", "post"})
     => Asked' = Asked /\ bound' = bound /\ \A w \in Worker : work'[w].step \notin {"preflight", "post"}]_wire

\* An answer is never added to or taken back, nor an error without grace.
AnswerStays ==
  [][answer.outcome \in {"success", "error"} => answer' = answer]_wire

\* One run is asked, bound and answers, and its answer is final.
AnsweredByOneRun ==
  /\ [](WireTypeOK /\ AnswerOfTheBoundRun /\ AskedOnce)
  /\ BoundIsBound /\ AnswerStays

\* Every submission comes to an end, whatever the gateway does.
SubmissionsEnd == <>(answer.outcome # "none")

=============================================================================
