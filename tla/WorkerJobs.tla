----------------------------- MODULE WorkerJobs -----------------------------
(***************************************************************************)
(* The durable worker queue of recorder_next/features.py: the worker_jobs  *)
(* and worker_attempts tables, the operations of FeatureGroups on them and *)
(* the DurableWorker threads that claim a job, run its handler and report  *)
(* the result.                                                             *)
(*                                                                         *)
(* Every store operation is one SQLite transaction (Store._tx: one BEGIN   *)
(* IMMEDIATE under a process-wide lock), hence one action.  A worker keeps *)
(* its claim in memory between two transactions; that is the variable      *)
(* running, and a crash forgets it.                                        *)
(*                                                                         *)
(* An operation reads the clock BEFORE it waits for the write lock, so the *)
(* timestamp t it works with may be older than the instant it commits:     *)
(* every action takes t from Stamps, at most MaxWait behind now.           *)
(*                                                                         *)
(* The lease token of an attempt is uuid5(job_id, attempt number), so      *)
(* tokens are compared here as attempt numbers.                            *)
(***************************************************************************)
EXTENDS Integers

CONSTANTS
  Job,              \* rows that worker_jobs may come to hold
  TtsJob,           \* those of stage tts; each owns one row of tts_artifacts
  Worker,           \* DurableWorker threads, of one process or of several
  Owner,            \* owner names; the worker-control endpoint takes the name
                    \* from its caller, so two workers may use the same one
  OwnerOf,          \* [Worker -> Owner]; threads may share a name
  NoOwner, NoJob,   \* NULL owner; no claim in memory
  AttemptLimit,     \* validation bound of max_attempts (100 in the code)
  MaxAttempts,      \* [Job -> 1..AttemptLimit], column max_attempts
  LeaseSeconds,     \* lease_seconds a worker asks for
  DeadlineSeconds,  \* [Job -> seconds or NoTime], deadline_seconds at enqueue
  ArtifactExpiry,   \* [Job -> time or NoTime], expires_at of a tts artifact
  FollowUp,         \* [Job -> Job or NoJob], the job a failure may enqueue
  MaxWait,          \* longest wait for the write lock
  Horizon           \* bound of the clock (and of lease renewals)

NoTime == -1

ASSUME TtsJobs == TtsJob \subseteq Job
ASSUME Owners == OwnerOf \in [Worker -> Owner]
ASSUME Nulls == NoOwner \notin Owner /\ NoJob \notin Job
ASSUME AttemptLimitPos == AttemptLimit \in Nat \ {0}
ASSUME MaxAttemptsType == MaxAttempts \in [Job -> 1..AttemptLimit]
ASSUME Durations == LeaseSeconds \in Nat \ {0} /\ MaxWait \in Nat /\ Horizon \in Nat
ASSUME DeadlineType == DeadlineSeconds \in [Job -> (Nat \ {0}) \cup {NoTime}]
ASSUME FollowUpType == FollowUp \in [Job -> Job \cup {NoJob}]
ASSUME ExpiryType == ArtifactExpiry \in [Job -> Nat \cup {NoTime}]

VARIABLES
  now,        \* the store clock
  status,     \* worker_jobs.status, "ABSENT" before the row is inserted
  owner,      \* worker_jobs.owner
  attempt,    \* worker_jobs.attempt_count
  lease,      \* worker_jobs.lease_expires_at
  nextAt,     \* worker_jobs.next_attempt_at
  deadline,   \* worker_jobs.overall_deadline_at
  lastError,  \* worker_jobs.last_error_kind
  outcome,    \* worker_attempts.outcome by attempt number
  projected,  \* how often a terminal failure was projected to its owner row
  artifact,   \* tts_artifacts.status of a tts job, "NONE" for the others;
              \* READY also stands for DELIVERY_PENDING and PLAYED
  effect,     \* history: attempts that committed a durable stage effect
  running     \* what each worker thread holds in memory

row == <<status, owner, attempt, lease, nextAt, deadline, lastError, outcome, projected>>
vars == <<now, row, artifact, effect, running>>

Attempts == 1..AttemptLimit
Active == {"PENDING", "RETRY_WAIT", "CLAIMED"}
Terminal == {"SUCCEEDED", "FAILED_PERMANENT"}
Outcomes == {"NONE", "RUNNING", "RECLAIMED", "RETRY_WAIT", "SUCCEEDED", "FAILED_PERMANENT"}
Errors == {"none", "deadline", "max_attempts", "lease_expired", "handler"}
Artifacts == {"NONE", "PENDING", "READY", "FAILED_GENERATION", "EXPIRED"}

Idle == [job |-> NoJob, token |-> 0, until |-> 0, step |-> "idle"]
Claims == [job: Job, token: Attempts, until: Int, step: {"run", "receipt", "raise"}]

TypeOK ==
  /\ now \in Nat
  /\ status \in [Job -> {"ABSENT"} \cup Active \cup Terminal]
  /\ owner \in [Job -> Owner \cup {NoOwner}]
  /\ attempt \in [Job -> 0..AttemptLimit]
  /\ lease \in [Job -> Int]
  /\ nextAt \in [Job -> Int]
  /\ deadline \in [Job -> Int]
  /\ lastError \in [Job -> Errors]
  /\ outcome \in [Job -> [Attempts -> Outcomes]]
  /\ projected \in [Job -> Nat]
  /\ artifact \in [Job -> Artifacts]
  /\ effect \in [Job -> SUBSET Attempts]
  /\ running \in [Worker -> Claims \cup {Idle}]

Init ==
  /\ now = 0
  /\ status = [j \in Job |-> "ABSENT"]
  /\ owner = [j \in Job |-> NoOwner]
  /\ attempt = [j \in Job |-> 0]
  /\ lease = [j \in Job |-> NoTime]
  /\ nextAt = [j \in Job |-> NoTime]
  /\ deadline = [j \in Job |-> NoTime]
  /\ lastError = [j \in Job |-> "none"]
  /\ outcome = [j \in Job |-> [n \in Attempts |-> "NONE"]]
  /\ projected = [j \in Job |-> 0]
  /\ artifact = [j \in Job |-> IF j \in TtsJob THEN "PENDING" ELSE "NONE"]
  /\ effect = [j \in Job |-> {}]
  /\ running = [w \in Worker |-> Idle]

-----------------------------------------------------------------------------
(* Conditions of the SQL statements.                                       *)

Stamps == {t \in 0..now : now <= t + MaxWait}

Passed(time, t) == time # NoTime /\ time <= t
DeadlinePassed(j, t) == Passed(deadline[j], t)
ArtifactGone(j, t) == j \in TtsJob /\ (artifact[j] = "EXPIRED" \/ Passed(ArtifactExpiry[j], t))

\* Mutant of LeaseLapsed: every claim may be taken over, lapsed or not.
LeaseIgnored(j, t) == status[j] = "CLAIMED"

LeaseLapsed(j, t) == status[j] = "CLAIMED" /\ lease[j] <= t

\* A job a claim may look at: due, or claimed under a lapsed lease.
Due(j, t) ==
  \/ status[j] \in {"PENDING", "RETRY_WAIT"} /\ nextAt[j] <= t
  \/ LeaseLapsed(j, t)

\* Mutant of Holds: the owner name alone, without the lease token.
HoldsByName(w, j) == status[j] = "CLAIMED" /\ owner[j] = OwnerOf[w]

\* Worker w still owns job j under the token it was given.
Holds(w, j) == status[j] = "CLAIMED" /\ owner[j] = OwnerOf[w] /\ attempt[j] = running[w].token

\* _assert_worker_claim: ... and its lease has not run out.
HoldsLive(w, j, t) == Holds(w, j) /\ lease[j] > t

\* fail_worker_job: min(300, 2 ** min(attempt_count, 8)) seconds.
Backoff == <<2, 4, 8, 16, 32, 64, 128, 256>>
RetryDelay(n) == Backoff[IF n < 8 THEN n ELSE 8]

-----------------------------------------------------------------------------
(* Pieces of the write transactions.                                       *)

Put(f, F, v) == [j \in Job |-> IF j \in F THEN v ELSE f[j]]

\* Mutant of Close: the attempt journal is not updated.
CloseNothing(o, F, x) == o

\* Every RUNNING attempt of the jobs of F ends with x.
Close(o, F, x) ==
  [j \in Job |-> [n \in Attempts |->
     IF j \in F /\ o[j][n] = "RUNNING" THEN x ELSE o[j][n]]]
ProjectAnyArtifact(F) ==
  /\ projected' = [j \in Job |-> IF j \in F THEN projected[j] + 1 ELSE projected[j]]
  /\ artifact' = [j \in Job |-> IF j \in F /\ j \in TtsJob THEN "EXPIRED" ELSE artifact[j]]

\* _project_terminal_job_tx: hand the failure to the row that waits for the
\* job.  A tts job expires the artifact it never produced; a hermes job may
\* enqueue the history job that looks for a late result (Followers).
Project(F) ==
  /\ projected' = [j \in Job |-> IF j \in F THEN projected[j] + 1 ELSE projected[j]]
  /\ artifact' = [j \in Job |-> IF j \in F /\ artifact[j] = "PENDING" THEN "EXPIRED" ELSE artifact[j]]

\* History jobs a failure of the jobs of F may enqueue: not those that exist.
\* Whether it does (is the turn still open?) is decided outside the queue.
Followers(F) == {k \in Job : status[k] = "ABSENT" /\ \E j \in F : FollowUp[j] = k}

DeadlineAt(j, t) == IF DeadlineSeconds[j] = NoTime THEN NoTime ELSE t + DeadlineSeconds[j]

\* The schedule columns of the rows G inserted at t.
Schedule(G, t) ==
  /\ nextAt' = Put(nextAt, G, t)
  /\ deadline' = [j \in Job |-> IF j \in G THEN DeadlineAt(j, t) ELSE deadline[j]]

\* The jobs of F fail permanently, job j with error err[j], and those of G
\* are enqueued.
FailPermanently(F, G, err) ==
  /\ status' = Put(Put(status, F, "FAILED_PERMANENT"), G, "PENDING")
  /\ owner' = Put(owner, F, NoOwner)
  /\ lease' = Put(lease, F, NoTime)
  /\ lastError' = [j \in Job |-> IF j \in F THEN err[j] ELSE lastError[j]]
  /\ outcome' = Close(outcome, F, "FAILED_PERMANENT")
  /\ Project(F)

\* Mutant of TerminalizeDeadline: the waiting row is not told.
TerminalizeSilently(j, t) ==
  /\ status' = [status EXCEPT ![j] = "FAILED_PERMANENT"]
  /\ owner' = [owner EXCEPT ![j] = NoOwner]
  /\ lease' = [lease EXCEPT ![j] = NoTime]
  /\ lastError' = [lastError EXCEPT ![j] = "deadline"]
  /\ outcome' = Close(outcome, {j}, "FAILED_PERMANENT")
  /\ UNCHANGED <<projected, artifact, attempt, nextAt, deadline>>

\* _terminalize_claimed_deadline_tx
TerminalizeDeadline(j, t) ==
  \E G \in SUBSET Followers({j}) :
    /\ FailPermanently({j}, G, [i \in Job |-> "deadline"])
    /\ Schedule(G, t)
    /\ UNCHANGED attempt

Forget(w) == running' = [running EXCEPT ![w] = Idle]

-----------------------------------------------------------------------------
(* Operations.                                                             *)

\* _enqueue_worker_job_tx.  A second call with the same idempotency key
\* returns the row it finds and changes nothing.
Enqueue(j, t) ==
  /\ status[j] = "ABSENT"
  /\ status' = [status EXCEPT ![j] = "PENDING"]
  /\ Schedule({j}, t)
  /\ UNCHANGED <<now, owner, attempt, lease, lastError, outcome, projected,
                 artifact, effect, running>>
OverdueAny(t) == {j \in Job : status[j] # "ABSENT" /\ DeadlinePassed(j, t)}
\* Mutant of Exhausted: no sweep of jobs whose attempts are spent.
ExhaustedNever(t) == {}

\* The three sweeps that open every claim: overall deadline, tts jobs whose
\* artifact is gone, attempts exhausted.
Overdue(t) == {j \in Job : status[j] \in Active /\ DeadlinePassed(j, t)}
Pointless(t) == {j \in Job : status[j] \in Active /\ ArtifactGone(j, t)}
Exhausted(t) ==
  {j \in Job : Due(j, t) /\ ~DeadlinePassed(j, t) /\ attempt[j] >= MaxAttempts[j]}
Swept(t) == Overdue(t) \cup Pointless(t) \cup Exhausted(t)
SweepError(t) ==
  [j \in Job |-> IF j \in Overdue(t) \cup Pointless(t) THEN "deadline" ELSE "max_attempts"]

\* Mutant of Claimable: attempts are not counted.
ClaimableForever(t) == {j \in Job \ Overdue(t) : Due(j, t)}

Claimable(t) ==
  {j \in Job \ Swept(t) : Due(j, t) /\ attempt[j] < MaxAttempts[j]}

\* ORDER BY next_attempt_at, created_at, job_id LIMIT 1; ties in any order.
\* The history jobs G that the sweeps have just enqueued are due as well.
NextDue(G, t) ==
  LET due == Claimable(t) \cup G
      at(j) == IF j \in G THEN t ELSE nextAt[j]
  IN {j \in due : \A i \in due : at(j) <= at(i)}

\* claim_worker_job that sweeps but finds no job to hand out.
ClaimNothing(w, t) ==
  /\ running[w] = Idle
  /\ Claimable(t) = {} /\ Swept(t) # {}
  /\ FailPermanently(Swept(t), {}, SweepError(t))
  /\ UNCHANGED <<now, attempt, nextAt, deadline, effect, running>>

\* claim_worker_job that sweeps and hands job j to worker w.  An attempt that
\* was still RUNNING under a lapsed lease is journalled as RECLAIMED.
ClaimJob(w, j, G, t) ==
  LET F == Swept(t)
      n == attempt[j] + 1
      journal == Close(Close(outcome, F, "FAILED_PERMANENT"), {j}, "RECLAIMED")
  IN
  /\ running[w] = Idle
  /\ j \in NextDue(G, t)
  /\ status' = [Put(Put(status, F, "FAILED_PERMANENT"), G, "PENDING") EXCEPT ![j] = "CLAIMED"]
  /\ owner' = [Put(owner, F, NoOwner) EXCEPT ![j] = OwnerOf[w]]
  /\ lease' = [Put(lease, F, NoTime) EXCEPT ![j] = t + LeaseSeconds]
  /\ lastError' = [i \in Job |-> IF i \in F THEN SweepError(t)[i] ELSE lastError[i]]
  /\ attempt' = [attempt EXCEPT ![j] = n]
  /\ outcome' = [journal EXCEPT ![j][n] = "RUNNING"]
  /\ Project(F)
  /\ Schedule(G, t)
  /\ running' = [running EXCEPT ![w] =
                   [job |-> j, token |-> n, until |-> t + LeaseSeconds, step |-> "run"]]
  /\ UNCHANGED <<now, effect>>

\* renew_worker_lease, called by the heartbeat thread while the handler runs.
Renew(w, j, t) ==
  /\ running[w].job = j /\ Holds(w, j) /\ now < Horizon
  /\ \/ /\ DeadlinePassed(j, t)
        /\ TerminalizeDeadline(j, t)
        /\ UNCHANGED running
     \/ /\ ~DeadlinePassed(j, t) /\ lease[j] > t
        /\ LET e == IF deadline[j] # NoTime /\ t + LeaseSeconds > deadline[j]
                    THEN deadline[j] ELSE t + LeaseSeconds
           IN /\ lease' = [lease EXCEPT ![j] = e]
              /\ running' = [running EXCEPT ![w].until = e]
        /\ UNCHANGED <<status, owner, attempt, nextAt, deadline, lastError, outcome,
                       projected, artifact>>
  /\ UNCHANGED <<now, effect>>

\* assert_worker_effect_authority, in a transaction of its own before a
\* provider call.  A refusal makes the handler raise LeaseConflict, which
\* run_once swallows.
AssertAuthority(w, j, t) ==
  /\ running[w].job = j /\ running[w].step = "run"
  /\ \/ ~HoldsLive(w, j, t) /\ UNCHANGED <<row, artifact>>
     \/ HoldsLive(w, j, t) /\ DeadlinePassed(j, t) /\ TerminalizeDeadline(j, t)
  /\ Forget(w)
  /\ UNCHANGED <<now, effect>>

\* Mutant of CommitEffect: the effect is committed without the fence.
CommitUnfenced(w, j, t) ==
  /\ running[w].job = j /\ running[w].step = "run" /\ j \notin TtsJob
  /\ effect' = [effect EXCEPT ![j] = @ \cup {running[w].token}]
  /\ UNCHANGED <<now, row, artifact, running>>

\* A handler commits a stage effect in a transaction that first runs
\* _assert_worker_effect_tx.  At the deadline the caller raises, which also
\* rolls back the terminalisation.
CommitEffect(w, j, t) ==
  /\ running[w].job = j /\ running[w].step = "run" /\ j \notin TtsJob
  /\ \/ /\ HoldsLive(w, j, t) /\ ~DeadlinePassed(j, t)
        /\ effect' = [effect EXCEPT ![j] = @ \cup {running[w].token}]
        /\ UNCHANGED running
     \/ /\ ~HoldsLive(w, j, t) \/ DeadlinePassed(j, t)
        /\ Forget(w)
        /\ UNCHANGED effect
  /\ UNCHANGED <<now, row, artifact>>

\* generate_tts finds the artifact already produced or expired.
SkipTts(w, j) ==
  /\ running[w].job = j /\ running[w].step = "run" /\ j \in TtsJob
  /\ artifact[j] \in {"READY", "EXPIRED"}
  /\ running' = [running EXCEPT ![w].step = "receipt"]
  /\ UNCHANGED <<now, row, artifact, effect>>

\* set_tts_result under the worker claim.  At the deadline it terminalises
\* the job and RETURNS the artifact, so the handler goes on to a receipt (or,
\* finding the failure of an earlier attempt, raises).
SetTtsResult(w, j, ok, t) ==
  /\ running[w].job = j /\ running[w].step = "run" /\ j \in TtsJob
  /\ \/ /\ ~HoldsLive(w, j, t)
        /\ Forget(w)
        /\ UNCHANGED <<row, artifact, effect>>
     \/ /\ HoldsLive(w, j, t) /\ DeadlinePassed(j, t)
        /\ TerminalizeDeadline(j, t)
        /\ running' = [running EXCEPT ![w].step =
                         IF artifact[j] = "FAILED_GENERATION" THEN "raise" ELSE "receipt"]
        /\ UNCHANGED effect
     \/ /\ HoldsLive(w, j, t) /\ ~DeadlinePassed(j, t)
        /\ artifact[j] \in {"PENDING", "FAILED_GENERATION"}
        /\ artifact' = [artifact EXCEPT ![j] = IF ok THEN "READY" ELSE "FAILED_GENERATION"]
        /\ effect' = [effect EXCEPT ![j] = IF ok THEN @ \cup {running[w].token} ELSE @]
        /\ running' = [running EXCEPT ![w].step = IF ok THEN "receipt" ELSE "raise"]
        /\ UNCHANGED row
     \/ /\ HoldsLive(w, j, t) /\ ~DeadlinePassed(j, t)
        /\ artifact[j] \in {"READY", "EXPIRED"}
        /\ running' = [running EXCEPT ![w].step = "receipt"]
        /\ UNCHANGED <<row, artifact, effect>>
  /\ UNCHANGED now

\* complete_worker_job after the handler returned a receipt.  A claim that is
\* no longer live changes nothing (LeaseConflict, or the terminal row).
Complete(w, j, t) ==
  /\ running[w].job = j
  /\ running[w].step = (IF j \in TtsJob THEN "receipt" ELSE "run")
  /\ \/ /\ Holds(w, j) /\ DeadlinePassed(j, t)
        /\ TerminalizeDeadline(j, t)
     \/ /\ HoldsLive(w, j, t) /\ ~DeadlinePassed(j, t)
        /\ status' = [status EXCEPT ![j] = "SUCCEEDED"]
        /\ owner' = [owner EXCEPT ![j] = NoOwner]
        /\ lease' = [lease EXCEPT ![j] = NoTime]
        /\ outcome' = [outcome EXCEPT ![j][attempt[j]] = IF @ = "RUNNING" THEN "SUCCEEDED" ELSE @]
        /\ UNCHANGED <<attempt, nextAt, deadline, lastError, projected, artifact>>
     \/ /\ ~Holds(w, j) \/ (~HoldsLive(w, j, t) /\ ~DeadlinePassed(j, t))
        /\ UNCHANGED <<row, artifact>>
  /\ Forget(w)
  /\ UNCHANGED <<now, effect>>

\* fail_worker_job after the handler raised, or returned a receipt that is
\* missing or invalid (never retryable).
Fail(w, j, retryable, t) ==
  /\ running[w].job = j /\ running[w].step \in {"run", "raise"}
  /\ \/ /\ Holds(w, j) /\ DeadlinePassed(j, t)
        /\ TerminalizeDeadline(j, t)
     \/ /\ HoldsLive(w, j, t) /\ ~DeadlinePassed(j, t)
        /\ retryable /\ attempt[j] < MaxAttempts[j]
        /\ status' = [status EXCEPT ![j] = "RETRY_WAIT"]
        /\ owner' = [owner EXCEPT ![j] = NoOwner]
        /\ lease' = [lease EXCEPT ![j] = NoTime]
        /\ nextAt' = [nextAt EXCEPT ![j] = t + RetryDelay(attempt[j])]
        /\ lastError' = [lastError EXCEPT ![j] = "handler"]
        /\ outcome' = [outcome EXCEPT ![j][attempt[j]] = IF @ = "RUNNING" THEN "RETRY_WAIT" ELSE @]
        /\ UNCHANGED <<attempt, deadline, projected, artifact>>
     \/ /\ HoldsLive(w, j, t) /\ ~DeadlinePassed(j, t)
        /\ ~(retryable /\ attempt[j] < MaxAttempts[j])
        /\ \E G \in SUBSET Followers({j}) :
             /\ FailPermanently({j}, G, [i \in Job |-> "handler"])
             /\ nextAt' = Put(nextAt, G \cup {j}, t)
             /\ deadline' = [i \in Job |-> IF i \in G THEN DeadlineAt(i, t) ELSE deadline[i]]
        /\ UNCHANGED attempt
     \/ /\ ~Holds(w, j) \/ (~HoldsLive(w, j, t) /\ ~DeadlinePassed(j, t))
        /\ UNCHANGED <<row, artifact>>
  /\ Forget(w)
  /\ UNCHANGED <<now, effect>>

\* recover_worker_jobs, run by the scheduler loop: requeue or terminate every
\* claim whose lease has lapsed.
Recover(G, t) ==
  LET lapsed == {j \in Job : LeaseLapsed(j, t)}
      F == {j \in lapsed : DeadlinePassed(j, t) \/ attempt[j] >= MaxAttempts[j]}
      R == lapsed \ F
  IN
  /\ lapsed # {} /\ G \in SUBSET Followers(F)
  /\ status' = Put(Put(Put(status, F, "FAILED_PERMANENT"), R, "RETRY_WAIT"), G, "PENDING")
  /\ owner' = Put(owner, lapsed, NoOwner)
  /\ lease' = Put(lease, lapsed, NoTime)
  /\ nextAt' = Put(nextAt, R \cup G, t)
  /\ deadline' = [j \in Job |-> IF j \in G THEN DeadlineAt(j, t) ELSE deadline[j]]
  /\ lastError' = [j \in Job |->
       IF j \in F THEN (IF DeadlinePassed(j, t) THEN "deadline" ELSE "lease_expired") ELSE lastError[j]]
  /\ outcome' = Close(Close(outcome, F, "FAILED_PERMANENT"), R, "RECLAIMED")
  /\ Project(F)
  /\ UNCHANGED <<now, attempt, effect, running>>

\* expire_tts_artifacts, at the head of every worker tick.
ExpireArtifacts(t) ==
  LET X == {j \in TtsJob : artifact[j] # "EXPIRED" /\ Passed(ArtifactExpiry[j], t)} IN
  /\ X # {}
  /\ artifact' = Put(artifact, X, "EXPIRED")
  /\ UNCHANGED <<now, row, effect, running>>

\* The process dies between two transactions; a worker that starts later
\* remembers nothing.
Crash(w) ==
  /\ running[w] # Idle
  /\ Forget(w)
  /\ UNCHANGED <<now, row, artifact, effect>>

\* Past Horizon the clock only moves while a lease or a backoff is pending.
Tick ==
  /\ \/ now < Horizon
     \/ \E j \in Job : \/ status[j] = "CLAIMED" /\ now < lease[j]
                       \/ status[j] = "RETRY_WAIT" /\ now < nextAt[j]
  /\ now' = now + 1
  /\ UNCHANGED <<row, artifact, effect, running>>

WorkerStep(w, t) ==
  \/ ClaimNothing(w, t)
  \/ \E j \in Job :
       \/ \E G \in SUBSET Followers(Swept(t)) : ClaimJob(w, j, G, t)
       \/ Renew(w, j, t)
       \/ AssertAuthority(w, j, t)
       \/ CommitEffect(w, j, t)
       \/ SkipTts(w, j)
       \/ \E ok \in BOOLEAN : SetTtsResult(w, j, ok, t)
       \/ Complete(w, j, t)
       \/ \E retryable \in BOOLEAN : Fail(w, j, retryable, t)

StoreStep(t) ==
  \/ \E j \in Job : Enqueue(j, t)
  \/ \E G \in SUBSET Job : Recover(G, t)
  \/ ExpireArtifacts(t)

Next ==
  \/ \E t \in Stamps : StoreStep(t) \/ \E w \in Worker : WorkerStep(w, t)
  \/ \E w \in Worker : Crash(w)
  \/ Tick

Spec == Init /\ [][Next]_vars

\* The worker loop keeps claiming, every handler returns or raises (providers
\* have timeouts), time passes.  Recovery and expiry need no fairness.
Claim(w) ==
  \/ ClaimNothing(w, now)
  \/ \E j \in Job, G \in SUBSET Followers(Swept(now)) : ClaimJob(w, j, G, now)
Finish(w) ==
  \E j \in Job : Complete(w, j, now) \/ \E retryable \in BOOLEAN : Fail(w, j, retryable, now)
Fairness ==
  /\ WF_vars(Tick)
  /\ WF_vars(\E w \in Worker : Claim(w))
  /\ \A w \in Worker : WF_vars(Finish(w))

FairSpec == Spec /\ Fairness

-----------------------------------------------------------------------------
(* Properties.                                                             *)

\* What attempt number n of job j may read, given the job's row.
JournalEntry(j, n) ==
  CASE n > attempt[j] -> {"NONE"}
    [] n < attempt[j] -> {"RETRY_WAIT", "RECLAIMED"}
    [] OTHER -> CASE status[j] = "CLAIMED" -> {"RUNNING"}
                  [] status[j] = "RETRY_WAIT" -> {"RETRY_WAIT", "RECLAIMED"}
                  [] status[j] = "SUCCEEDED" -> {"SUCCEEDED"}
                  [] OTHER -> {"FAILED_PERMANENT", "RETRY_WAIT", "RECLAIMED"}

\* The attempt journal and the job row, written by nine different updates,
\* tell one story: exactly the current attempt of a claimed job is RUNNING,
\* every earlier attempt was given back (RETRY_WAIT or RECLAIMED), so at most
\* one attempt ever won, which complete_worker_job relies on to replay a
\* completion ("ORDER BY attempt_number DESC LIMIT 1").
JournalAgrees ==
  \A j \in Job :
    /\ status[j] \in {"ABSENT", "PENDING"} => attempt[j] = 0
    /\ status[j] \in {"CLAIMED", "RETRY_WAIT", "SUCCEEDED"} => attempt[j] # 0
    /\ \A n \in Attempts : outcome[j][n] \in JournalEntry(j, n)

\* Whichever of the five code paths fails a job for good (the sweeps of a
\* claim, the heartbeat, the effect fence, complete/fail, recovery), the row
\* that waits for the job hears of it exactly once, and of no other job.
ProjectedOnce ==
  \A j \in Job : projected[j] = IF status[j] = "FAILED_PERMANENT" THEN 1 ELSE 0

\* A tts job never ends and leaves behind an artifact that waits for it:
\* failed, the artifact is not PENDING (reconcile_terminal_tts_jobs, the
\* repair of rows "left by an older worker version", finds nothing to do);
\* succeeded, it was produced or has expired.
NoOrphanArtifact ==
  \A j \in TtsJob :
    /\ status[j] = "FAILED_PERMANENT" => artifact[j] # "PENDING"
    /\ status[j] = "SUCCEEDED" => artifact[j] \in {"READY", "EXPIRED"}

\* A recorded reason is the true reason: "deadline" only once the deadline
\* (or the artifact) has passed, exhaustion only with every attempt spent.
FailureReasonHolds ==
  \A j \in Job : status[j] = "FAILED_PERMANENT" =>
    /\ lastError[j] = "deadline" => DeadlinePassed(j, now) \/ ArtifactGone(j, now)
    /\ lastError[j] \in {"max_attempts", "lease_expired"} => attempt[j] >= MaxAttempts[j]

\* A worker that was granted a lease, by claim or by heartbeat, owns its job
\* until that lease runs out on the store clock, whatever the other workers,
\* the recovery pass and late timestamps do; only the overall deadline or the
\* loss of the artifact may end the claim earlier.
LeaseHonoured ==
  \A w \in Worker : running[w].job \in Job =>
    LET j == running[w].job IN
    \/ Holds(w, j) /\ lease[j] = running[w].until
    \/ running[w].until <= now
    \/ DeadlinePassed(j, now)
    \/ ArtifactGone(j, now)

\* A job is swept or taken over only when it may be, and its reason is true.
SweepsAreDue == LeaseHonoured /\ FailureReasonHolds

\* Nothing happens to a job after its terminal state: no worker with an old
\* claim, no sweep and no recovery touches row, journal or effects again.
TerminalIsFinal ==
  [][\A j \in Job : status[j] \in Terminal =>
        /\ UNCHANGED <<status[j], outcome[j], attempt[j], lastError[j], projected[j]>>
        /\ effect'[j] = effect[j]]_vars

\* Once a newer attempt has started, no effect of an older one is committed,
\* even though the older worker shares the owner name and still runs.
StaleAttemptNeverCommits ==
  [][\A j \in Job : \A n \in effect'[j] \ effect[j] : n = attempt[j] /\ status[j] = "CLAIMED"]_vars

\* Generated audio is only lost to its own expiry, never to the failure of
\* the job that generated it.
ReadyAudioSurvives ==
  [][\A j \in TtsJob : artifact[j] = "READY" /\ artifact'[j] # "READY"
        => Passed(ArtifactExpiry[j], now)]_vars

\* A job that was enqueued reaches a terminal state, through any number of
\* crashes, because attempts are bounded and lapsed leases are taken over.
EveryJobSettles == \A j \in Job : status[j] # "ABSENT" ~> status[j] \in Terminal

(* What the queue promises about its jobs, see JobContract.tla.            *)
Phase(j) ==
  CASE status[j] \in Active -> "OPEN"
    [] status[j] = "FAILED_PERMANENT" -> "FAILED"
    [] OTHER -> status[j]
Current(j) == IF status[j] = "CLAIMED" THEN attempt[j] ELSE 0

Contract == INSTANCE JobContract WITH
  phase <- [j \in Job |-> Phase(j)], current <- [j \in Job |-> Current(j)],
  last <- attempt, committed <- effect, handed <- projected, Max <- MaxAttempts

\* Every job implements JobContract: exclusive attempts numbered in order,
\* commits under the current attempt only, one end, a failed end handed over
\* in the same step.
ImplementsContract == Contract!Spec

=============================================================================
