-------------------------- MODULE WorkerJobsProofs --------------------------
(***************************************************************************)
(* Theorems about WorkerJobs for any number of jobs, workers and owners,   *)
(* any attempt limits, lease lengths and deadlines, and any clock.         *)
(***************************************************************************)
EXTENDS Speech, FiniteSetTheorems, TLAPS

\* The constants, collected for the proofs below.
LEMMA Constants ==
  /\ TtsJob \subseteq Job
  /\ OwnerOf \in [Worker -> Owner]
  /\ NoOwner \notin Owner /\ NoJob \notin Job
  /\ AttemptLimit \in Nat \ {0}
  /\ MaxAttempts \in [Job -> 1..AttemptLimit]
  /\ LeaseSeconds \in Nat \ {0} /\ MaxWait \in Nat /\ Horizon \in Nat
  /\ DeadlineSeconds \in [Job -> (Nat \ {0}) \cup {NoTime}]
  /\ ArtifactExpiry \in [Job -> Nat \cup {NoTime}]
  /\ FollowUp \in [Job -> Job \cup {NoJob}]
BY TtsJobs, Owners, Nulls, AttemptLimitPos, MaxAttemptsType, Durations, DeadlineType, ExpiryType,
   FollowUpType

\* fail_worker_job schedules the retry a bounded number of seconds ahead.
LEMMA RetryDelayBounds ==
  ASSUME NEW n \in Nat \ {0}
  PROVE  RetryDelay(n) \in 1..256
<1>1. CASE n < 8
  <2>1. n \in {1, 2, 3, 4, 5, 6, 7}
    BY <1>1
  <2> QED BY <1>1, <2>1 DEF RetryDelay, Backoff
<1>2. CASE ~(n < 8)
  BY <1>2 DEF RetryDelay, Backoff
<1> QED BY <1>1, <1>2

\* A worker that holds some job's claim in memory has a full claim there.
LEMMA ClaimShape ==
  ASSUME TypeOK, NEW w \in Worker, running[w].job \in Job
  PROVE  running[w] \in Claims
BY Constants DEF TypeOK, Idle

LEMMA InitType == Init => TypeOK
BY Constants DEF Init, TypeOK, Artifacts, Outcomes, Active, Terminal, Errors, NoTime

\* The tables keep their shape when a set of jobs fails permanently.
LEMMA FailPermanentlyType ==
  ASSUME TypeOK, NEW F \in SUBSET Job, NEW G \in SUBSET Job, NEW err \in [Job -> Errors],
         FailPermanently(F, G, err)
  PROVE  /\ status' \in [Job -> {"ABSENT"} \cup Active \cup Terminal]
         /\ owner' \in [Job -> Owner \cup {NoOwner}]
         /\ lease' \in [Job -> Int]
         /\ lastError' \in [Job -> Errors]
         /\ outcome' \in [Job -> [Attempts -> Outcomes]]
         /\ projected' \in [Job -> Nat]
         /\ artifact' \in [Job -> Artifacts]
BY DEF TypeOK, FailPermanently, Put, Close, Project, Active, Terminal, NoTime, Outcomes, Artifacts

LEMMA StampType == ASSUME TypeOK, NEW t \in Stamps PROVE t \in Nat /\ t <= now
BY DEF TypeOK, Stamps

LEMMA DeadlineAtType == ASSUME NEW t \in Nat, NEW j \in Job PROVE DeadlineAt(j, t) \in Int
BY Constants DEF DeadlineAt, NoTime

LEMMA ScheduleType ==
  ASSUME TypeOK, NEW t \in Stamps, NEW G, Schedule(G, t)
  PROVE  nextAt' \in [Job -> Int] /\ deadline' \in [Job -> Int]
<1>1. \A j \in Job : DeadlineAt(j, t) \in Int
  BY StampType, DeadlineAtType
<1> QED BY <1>1, StampType DEF Schedule, Put, TypeOK

LEMMA TerminalizeType ==
  ASSUME TypeOK, NEW t \in Stamps, NEW j \in Job, TerminalizeDeadline(j, t), UNCHANGED now,
         effect' \in [Job -> SUBSET Attempts], running' \in [Worker -> Claims \cup {Idle}]
  PROVE  TypeOK'
<1>1. [i \in Job |-> "deadline"] \in [Job -> Errors]
  BY DEF Errors
<1>2. PICK G \in SUBSET Job : FailPermanently({j}, G, [i \in Job |-> "deadline"]) /\ Schedule(G, t)
  BY DEF TerminalizeDeadline, Followers
<1>3. UNCHANGED attempt
  BY DEF TerminalizeDeadline
<1> QED BY <1>1, <1>2, <1>3, FailPermanentlyType, ScheduleType DEF TypeOK

LEMMA ForgetType ==
  ASSUME TypeOK, NEW w \in Worker, Forget(w)
  PROVE  running' \in [Worker -> Claims \cup {Idle}]
BY DEF TypeOK, Forget

LEMMA SweepErrorType == ASSUME NEW t PROVE SweepError(t) \in [Job -> Errors]
BY DEF SweepError, Errors

LEMMA EnqueueType ==
  ASSUME TypeOK, NEW t \in Stamps, NEW j \in Job, Enqueue(j, t)
  PROVE  TypeOK'
<1>1. nextAt' \in [Job -> Int] /\ deadline' \in [Job -> Int]
  BY ScheduleType DEF Enqueue
<1> QED BY <1>1 DEF TypeOK, Enqueue, Active

LEMMA ClaimNothingType ==
  ASSUME TypeOK, NEW t \in Stamps, NEW w \in Worker, ClaimNothing(w, t)
  PROVE  TypeOK'
<1>1. Swept(t) \in SUBSET Job
  BY DEF Swept, Overdue, Pointless, Exhausted
<1>2. FailPermanently(Swept(t), {}, SweepError(t))
  BY DEF ClaimNothing
<1> QED BY <1>1, <1>2, SweepErrorType, FailPermanentlyType DEF TypeOK, ClaimNothing

\* The job a claim picks has attempts left and is not one of those swept.
LEMMA ClaimedDue ==
  ASSUME TypeOK, JournalAgrees, NEW t, NEW w, NEW j \in Job,
         NEW G \in SUBSET Followers(Swept(t)), ClaimJob(w, j, G, t)
  PROVE  /\ j \notin Swept(t)
         /\ status[j] \in Active \cup {"ABSENT"}
         /\ attempt[j] < MaxAttempts[j]
<1>1. j \in Claimable(t) \cup G
  BY DEF ClaimJob, NextDue
<1>2. CASE j \in Claimable(t)
  BY <1>2 DEF Claimable, Due, LeaseLapsed, Active
<1>3. CASE j \in G
  <2>1. status[j] = "ABSENT"
    BY <1>3 DEF Followers
  <2>2. attempt[j] = 0 /\ MaxAttempts[j] \in 1..AttemptLimit
    BY <2>1, Constants DEF JournalAgrees
  <2>3. j \notin Swept(t)
    BY <2>1 DEF Swept, Overdue, Pointless, Exhausted, Due, LeaseLapsed, Active
  <2> QED BY <2>1, <2>2, <2>3, Constants
<1> QED BY <1>1, <1>2, <1>3

LEMMA ClaimJobType ==
  ASSUME TypeOK, JournalAgrees, NEW t \in Stamps, NEW w \in Worker, NEW j \in Job,
         NEW G \in SUBSET Followers(Swept(t)), ClaimJob(w, j, G, t)
  PROVE  TypeOK'
<1> DEFINE F == Swept(t)
           n == attempt[j] + 1
           journal == Close(Close(outcome, F, "FAILED_PERMANENT"), {j}, "RECLAIMED")
<1>1. F \in SUBSET Job
  BY DEF Swept, Overdue, Pointless, Exhausted
<1>2. attempt[j] < MaxAttempts[j]
  BY ClaimedDue
<1>3. n \in Attempts /\ n \in 0..AttemptLimit
  BY <1>2, Constants DEF TypeOK, Attempts
<1>4. journal \in [Job -> [Attempts -> Outcomes]]
  BY DEF TypeOK, Close, Outcomes
<1>5. t + LeaseSeconds \in Int
  BY Constants, StampType
<1> HIDE DEF F, n, journal
<1>a. /\ status' = [Put(Put(status, F, "FAILED_PERMANENT"), G, "PENDING") EXCEPT ![j] = "CLAIMED"]
      /\ owner' = [Put(owner, F, NoOwner) EXCEPT ![j] = OwnerOf[w]]
      /\ lease' = [Put(lease, F, NoTime) EXCEPT ![j] = t + LeaseSeconds]
      /\ lastError' = [i \in Job |-> IF i \in F THEN SweepError(t)[i] ELSE lastError[i]]
      /\ attempt' = [attempt EXCEPT ![j] = n]
      /\ outcome' = [journal EXCEPT ![j][n] = "RUNNING"]
      /\ Project(F)
      /\ running' = [running EXCEPT ![w] =
                       [job |-> j, token |-> n, until |-> t + LeaseSeconds, step |-> "run"]]
      /\ Schedule(G, t)
      /\ UNCHANGED <<now, effect>>
  BY DEF ClaimJob, F, n, journal
<1>6. status' \in [Job -> {"ABSENT"} \cup Active \cup Terminal]
  BY <1>a DEF TypeOK, Put, Active, Terminal
<1>7. owner' \in [Job -> Owner \cup {NoOwner}]
  BY <1>a, Constants DEF TypeOK, Put
<1>8. lease' \in [Job -> Int] /\ lastError' \in [Job -> Errors]
  BY <1>a, <1>5, SweepErrorType DEF TypeOK, Put, NoTime
<1>9. attempt' \in [Job -> 0..AttemptLimit] /\ outcome' \in [Job -> [Attempts -> Outcomes]]
  BY <1>a, <1>3, <1>4 DEF TypeOK, Outcomes
<1>10. projected' \in [Job -> Nat] /\ artifact' \in [Job -> Artifacts]
  BY <1>a DEF TypeOK, Project, Artifacts
<1>11. running' \in [Worker -> Claims \cup {Idle}]
  BY <1>a, <1>3, <1>5 DEF TypeOK, Claims
<1>12. nextAt' \in [Job -> Int] /\ deadline' \in [Job -> Int]
  BY <1>a, ScheduleType
<1> QED BY <1>a, <1>6, <1>7, <1>8, <1>9, <1>10, <1>11, <1>12 DEF TypeOK

LEMMA RenewType ==
  ASSUME TypeOK, NEW t \in Stamps, NEW w \in Worker, NEW j \in Job, Renew(w, j, t)
  PROVE  TypeOK'
<1>1. running[w] \in Claims
  BY ClaimShape DEF Renew
<1>2. CASE DeadlinePassed(j, t) /\ TerminalizeDeadline(j, t) /\ UNCHANGED running
  BY <1>2, TerminalizeType DEF Renew, TypeOK
<1>3. CASE ~DeadlinePassed(j, t)
  <2> DEFINE e == IF deadline[j] # NoTime /\ t + LeaseSeconds > deadline[j]
                  THEN deadline[j] ELSE t + LeaseSeconds
  <2>1. e \in Int
    BY Constants, StampType DEF TypeOK
  <2> HIDE DEF e
  <2>2. /\ lease' = [lease EXCEPT ![j] = e]
        /\ running' = [running EXCEPT ![w].until = e]
        /\ UNCHANGED <<status, owner, attempt, nextAt, deadline, lastError, outcome,
                       projected, artifact, now, effect>>
    BY <1>3 DEF Renew, e
  <2>3. running' \in [Worker -> Claims \cup {Idle}]
    BY <2>1, <2>2, <1>1 DEF TypeOK, Claims
  <2> QED BY <2>1, <2>2, <2>3 DEF TypeOK
<1> QED BY <1>2, <1>3 DEF Renew

\* A step that moves none of the tables a handler does not write.
LEMMA HandlerType ==
  ASSUME TypeOK, UNCHANGED <<now, row>>, artifact' \in [Job -> Artifacts],
         effect' \in [Job -> SUBSET Attempts], running' \in [Worker -> Claims \cup {Idle}]
  PROVE  TypeOK'
BY DEF TypeOK, row

LEMMA AssertAuthorityType ==
  ASSUME TypeOK, NEW t \in Stamps, NEW w \in Worker, NEW j \in Job, AssertAuthority(w, j, t)
  PROVE  TypeOK'
<1>1. running' \in [Worker -> Claims \cup {Idle}] /\ effect' \in [Job -> SUBSET Attempts]
  BY ForgetType DEF AssertAuthority, TypeOK
<1>2. CASE UNCHANGED <<row, artifact>>
  BY <1>1, <1>2, HandlerType DEF AssertAuthority, TypeOK
<1>3. CASE TerminalizeDeadline(j, t)
  BY <1>1, <1>3, TerminalizeType DEF AssertAuthority
<1> QED BY <1>2, <1>3 DEF AssertAuthority

LEMMA CommitEffectType ==
  ASSUME TypeOK, NEW t \in Stamps, NEW w \in Worker, NEW j \in Job, CommitEffect(w, j, t)
  PROVE  TypeOK'
<1>1. running[w].token \in Attempts
  BY ClaimShape DEF CommitEffect, Claims
<1>2. effect' \in [Job -> SUBSET Attempts]
  BY <1>1 DEF CommitEffect, TypeOK
<1>3. running' \in [Worker -> Claims \cup {Idle}]
  BY ForgetType DEF CommitEffect, TypeOK
<1> QED BY <1>2, <1>3, HandlerType DEF CommitEffect, TypeOK

LEMMA SkipTtsType ==
  ASSUME TypeOK, NEW w \in Worker, NEW j \in Job, SkipTts(w, j)
  PROVE  TypeOK'
<1>1. running[w] \in Claims
  BY ClaimShape DEF SkipTts
<1>2. running' \in [Worker -> Claims \cup {Idle}]
  BY <1>1 DEF SkipTts, TypeOK, Claims
<1> QED BY <1>2, HandlerType DEF SkipTts, TypeOK

LEMMA SetTtsResultType ==
  ASSUME TypeOK, NEW t \in Stamps, NEW w \in Worker, NEW j \in Job, NEW ok \in BOOLEAN,
         SetTtsResult(w, j, ok, t)
  PROVE  TypeOK'
<1>1. running[w] \in Claims
  BY ClaimShape DEF SetTtsResult
<1>2. ASSUME NEW s \in {"run", "receipt", "raise"}, running' = [running EXCEPT ![w].step = s]
      PROVE  running' \in [Worker -> Claims \cup {Idle}]
  BY <1>1, <1>2 DEF TypeOK, Claims
<1>3. CASE Forget(w) /\ UNCHANGED <<row, artifact, effect>>
  BY <1>3, ForgetType, HandlerType DEF SetTtsResult, TypeOK
<1>4. CASE TerminalizeDeadline(j, t)
           /\ \E s \in {"run", "receipt", "raise"} : running' = [running EXCEPT ![w].step = s]
           /\ UNCHANGED effect
  BY <1>2, <1>4, TerminalizeType DEF SetTtsResult, TypeOK
<1>5. CASE /\ artifact' = [artifact EXCEPT ![j] = IF ok THEN "READY" ELSE "FAILED_GENERATION"]
           /\ effect' = [effect EXCEPT ![j] = IF ok THEN @ \cup {running[w].token} ELSE @]
           /\ running' = [running EXCEPT ![w].step = IF ok THEN "receipt" ELSE "raise"]
           /\ UNCHANGED row
  <2>1. artifact' \in [Job -> Artifacts]
    BY <1>5 DEF TypeOK, Artifacts
  <2>2. effect' \in [Job -> SUBSET Attempts]
    BY <1>1, <1>5 DEF TypeOK, Claims
  <2>3. running' \in [Worker -> Claims \cup {Idle}]
    BY <1>2, <1>5
  <2> QED BY <1>5, <2>1, <2>2, <2>3, HandlerType DEF SetTtsResult
<1>6. CASE running' = [running EXCEPT ![w].step = "receipt"] /\ UNCHANGED <<row, artifact, effect>>
  BY <1>2, <1>6, HandlerType DEF SetTtsResult, TypeOK
<1> QED BY <1>3, <1>4, <1>5, <1>6 DEF SetTtsResult

LEMMA CompleteType ==
  ASSUME TypeOK, NEW t \in Stamps, NEW w \in Worker, NEW j \in Job, Complete(w, j, t)
  PROVE  TypeOK'
<1>1. running' \in [Worker -> Claims \cup {Idle}] /\ effect' \in [Job -> SUBSET Attempts]
  BY ForgetType DEF Complete, TypeOK
<1>2. CASE UNCHANGED <<row, artifact>>
  BY <1>1, <1>2, HandlerType DEF Complete, TypeOK
<1>3. CASE TerminalizeDeadline(j, t)
  BY <1>1, <1>3, TerminalizeType DEF Complete
<1>4. CASE /\ status' = [status EXCEPT ![j] = "SUCCEEDED"]
           /\ owner' = [owner EXCEPT ![j] = NoOwner]
           /\ lease' = [lease EXCEPT ![j] = NoTime]
           /\ outcome' = [outcome EXCEPT ![j][attempt[j]] = IF @ = "RUNNING" THEN "SUCCEEDED" ELSE @]
           /\ UNCHANGED <<attempt, nextAt, deadline, lastError, projected, artifact>>
  <2>1. outcome' \in [Job -> [Attempts -> Outcomes]]
    BY <1>4 DEF TypeOK, Outcomes
  <2>2. status' \in [Job -> {"ABSENT"} \cup Active \cup Terminal]
    BY <1>4 DEF TypeOK, Terminal
  <2> QED BY <1>1, <1>4, <2>1, <2>2 DEF Complete, TypeOK, NoTime
<1> QED BY <1>2, <1>3, <1>4 DEF Complete

LEMMA FailType ==
  ASSUME TypeOK, NEW t \in Stamps, NEW w \in Worker, NEW j \in Job, NEW retryable \in BOOLEAN,
         Fail(w, j, retryable, t)
  PROVE  TypeOK'
<1>1. running' \in [Worker -> Claims \cup {Idle}] /\ effect' \in [Job -> SUBSET Attempts]
  BY ForgetType DEF Fail, TypeOK
<1>2. CASE UNCHANGED <<row, artifact>>
  BY <1>1, <1>2, HandlerType DEF Fail, TypeOK
<1>3. CASE TerminalizeDeadline(j, t)
  BY <1>1, <1>3, TerminalizeType DEF Fail
<1>4. CASE /\ HoldsLive(w, j, t)
           /\ status' = [status EXCEPT ![j] = "RETRY_WAIT"]
           /\ owner' = [owner EXCEPT ![j] = NoOwner]
           /\ lease' = [lease EXCEPT ![j] = NoTime]
           /\ nextAt' = [nextAt EXCEPT ![j] = t + RetryDelay(attempt[j])]
           /\ lastError' = [lastError EXCEPT ![j] = "handler"]
           /\ outcome' = [outcome EXCEPT ![j][attempt[j]] = IF @ = "RUNNING" THEN "RETRY_WAIT" ELSE @]
           /\ UNCHANGED <<attempt, deadline, projected, artifact>>
  <2>1. outcome' \in [Job -> [Attempts -> Outcomes]]
    BY <1>4 DEF TypeOK, Outcomes
  <2>2. status' \in [Job -> {"ABSENT"} \cup Active \cup Terminal]
    BY <1>4 DEF TypeOK, Active
  <2>3. attempt[j] \in Nat \ {0}
    BY <1>4, ClaimShape, Constants DEF Fail, HoldsLive, Holds, Claims, Attempts
  <2>4. t + RetryDelay(attempt[j]) \in Int
    BY <2>3, RetryDelayBounds, StampType
  <2> QED BY <1>1, <1>4, <2>1, <2>2, <2>4 DEF Fail, TypeOK, NoTime, Errors
<1>5. ASSUME NEW G \in SUBSET Followers({j}),
             FailPermanently({j}, G, [i \in Job |-> "handler"]),
             nextAt' = Put(nextAt, G \cup {j}, t),
             deadline' = [i \in Job |-> IF i \in G THEN DeadlineAt(i, t) ELSE deadline[i]],
             UNCHANGED attempt
      PROVE  TypeOK'
  <2>1. [i \in Job |-> "handler"] \in [Job -> Errors] /\ t \in Int /\ G \in SUBSET Job
    BY <1>5, StampType DEF Errors, Followers
  <2>2. \A i \in Job : DeadlineAt(i, t) \in Int
    BY StampType, DeadlineAtType
  <2>3. nextAt' \in [Job -> Int] /\ deadline' \in [Job -> Int]
    BY <1>5, <2>1, <2>2 DEF Put, TypeOK
  <2> QED BY <1>1, <1>5, <2>1, <2>3, FailPermanentlyType DEF Fail, TypeOK
<1> QED BY <1>2, <1>3, <1>4, <1>5 DEF Fail

LEMMA RecoverType ==
  ASSUME TypeOK, NEW t \in Stamps, NEW G \in SUBSET Job, Recover(G, t)
  PROVE  TypeOK'
<1> DEFINE lapsed == {j \in Job : LeaseLapsed(j, t)}
           F == {j \in lapsed : DeadlinePassed(j, t) \/ attempt[j] >= MaxAttempts[j]}
           R == lapsed \ F
<1>1. /\ status' = Put(Put(Put(status, F, "FAILED_PERMANENT"), R, "RETRY_WAIT"), G, "PENDING")
      /\ owner' = Put(owner, lapsed, NoOwner)
      /\ lease' = Put(lease, lapsed, NoTime)
      /\ nextAt' = Put(nextAt, R \cup G, t)
      /\ deadline' = [j \in Job |-> IF j \in G THEN DeadlineAt(j, t) ELSE deadline[j]]
      /\ lastError' = [j \in Job |->
           IF j \in F THEN (IF DeadlinePassed(j, t) THEN "deadline" ELSE "lease_expired") ELSE lastError[j]]
      /\ outcome' = Close(Close(outcome, F, "FAILED_PERMANENT"), R, "RECLAIMED")
      /\ Project(F)
      /\ UNCHANGED <<now, attempt, effect, running>>
  BY DEF Recover
<1>2. t \in Int /\ \A j \in Job : DeadlineAt(j, t) \in Int
  BY StampType, DeadlineAtType
<1> HIDE DEF lapsed, F, R
<1>3. status' \in [Job -> {"ABSENT"} \cup Active \cup Terminal]
  BY <1>1 DEF TypeOK, Put, Active, Terminal
<1>4. outcome' \in [Job -> [Attempts -> Outcomes]]
  BY <1>1 DEF TypeOK, Close, Outcomes
<1>5. /\ owner' \in [Job -> Owner \cup {NoOwner}] /\ lease' \in [Job -> Int]
      /\ nextAt' \in [Job -> Int] /\ deadline' \in [Job -> Int]
  BY <1>1, <1>2 DEF TypeOK, Put, NoTime
<1>6. lastError' \in [Job -> Errors]
  BY <1>1 DEF TypeOK, Errors
<1>7. projected' \in [Job -> Nat] /\ artifact' \in [Job -> Artifacts]
  BY <1>1 DEF TypeOK, Project, Artifacts
<1> QED BY <1>1, <1>3, <1>4, <1>5, <1>6, <1>7 DEF TypeOK

LEMMA ExpireArtifactsType ==
  ASSUME TypeOK, NEW t \in Stamps, ExpireArtifacts(t)
  PROVE  TypeOK'
<1>1. artifact' \in [Job -> Artifacts]
  BY DEF TypeOK, ExpireArtifacts, Put, Artifacts
<1> QED BY <1>1, HandlerType DEF ExpireArtifacts, TypeOK

LEMMA NextType ==
  ASSUME TypeOK, JournalAgrees, [Next]_vars
  PROVE  TypeOK'
<1>1. CASE UNCHANGED vars
  BY <1>1 DEF TypeOK, vars, row
<1>2. ASSUME NEW t \in Stamps, StoreStep(t) PROVE TypeOK'
  BY <1>2, EnqueueType, RecoverType, ExpireArtifactsType DEF StoreStep
<1>3. ASSUME NEW t \in Stamps, NEW w \in Worker, WorkerStep(w, t) PROVE TypeOK'
  BY <1>3, ClaimNothingType, ClaimJobType, RenewType, AssertAuthorityType, CommitEffectType,
     SkipTtsType, SetTtsResultType, CompleteType, FailType DEF WorkerStep
<1>4. ASSUME NEW w \in Worker, Crash(w) PROVE TypeOK'
  BY <1>4, ForgetType, HandlerType DEF Crash, TypeOK
<1>5. CASE Tick
  BY <1>5 DEF Tick, TypeOK, row
<1> QED BY <1>1, <1>2, <1>3, <1>4, <1>5 DEF Next

-----------------------------------------------------------------------------
(* What one step may do to one job.  Every action is one of these for each *)
(* job, which is all the invariants of the row and its journal need.       *)

Closes(j, x) ==
  \A n \in Attempts : outcome'[j][n] = IF outcome[j][n] = "RUNNING" THEN x ELSE outcome[j][n]
Keeps(j) == outcome'[j] = outcome[j] /\ attempt'[j] = attempt[j]

RowSame(j) ==
  Keeps(j) /\ status'[j] = status[j] /\ projected'[j] = projected[j] /\ effect'[j] = effect[j]
  /\ lastError'[j] = lastError[j]
RowOpen(j) ==
  /\ status[j] = "ABSENT" /\ status'[j] = "PENDING"
  /\ Keeps(j) /\ projected'[j] = projected[j] /\ effect'[j] = effect[j]
RowStart(j) ==
  /\ status[j] \in Active \cup {"ABSENT"} /\ attempt[j] < MaxAttempts[j]
  /\ status'[j] = "CLAIMED" /\ attempt'[j] = attempt[j] + 1
  /\ \A n \in Attempts : outcome'[j][n] =
       IF n = attempt[j] + 1 THEN "RUNNING"
       ELSE IF outcome[j][n] = "RUNNING" THEN "RECLAIMED" ELSE outcome[j][n]
  /\ projected'[j] = projected[j] /\ effect'[j] = effect[j]
RowRelease(j) ==
  /\ status[j] = "CLAIMED" /\ status'[j] = "RETRY_WAIT" /\ attempt'[j] = attempt[j]
  /\ Closes(j, "RETRY_WAIT") \/ Closes(j, "RECLAIMED")
  /\ projected'[j] = projected[j] /\ effect'[j] = effect[j]
RowCommit(j) ==
  /\ status[j] = "CLAIMED" /\ effect'[j] = effect[j] \cup {attempt[j]}
  /\ Keeps(j) /\ status'[j] = status[j] /\ projected'[j] = projected[j]
RowSucceed(j) ==
  /\ status[j] = "CLAIMED" /\ status'[j] = "SUCCEEDED" /\ attempt'[j] = attempt[j]
  /\ Closes(j, "SUCCEEDED")
  /\ projected'[j] = projected[j] /\ effect'[j] = effect[j]
RowFail(j) ==
  /\ status[j] \in Active /\ status'[j] = "FAILED_PERMANENT" /\ attempt'[j] = attempt[j]
  /\ Closes(j, "FAILED_PERMANENT")
  /\ projected'[j] = projected[j] + 1 /\ effect'[j] = effect[j]

RowStep(j) ==
  \/ RowSame(j) \/ RowOpen(j) \/ RowStart(j) \/ RowRelease(j)
  \/ RowCommit(j) \/ RowSucceed(j) \/ RowFail(j)

\* Only the current attempt of a claimed job is RUNNING, so closing that one
\* entry closes all of them.
LEMMA OneRunning ==
  ASSUME TypeOK, JournalAgrees, NEW j \in Job, status[j] = "CLAIMED", NEW x \in Outcomes,
         outcome' = [outcome EXCEPT ![j][attempt[j]] = IF @ = "RUNNING" THEN x ELSE @]
  PROVE  Closes(j, x) /\ \A i \in Job \ {j} : outcome'[i] = outcome[i]
<1>1. attempt[j] \in Attempts
  BY Constants DEF TypeOK, JournalAgrees, Attempts
<1>2. ASSUME NEW n \in Attempts, n # attempt[j] PROVE outcome[j][n] # "RUNNING"
  <2>1. outcome[j][n] \in JournalEntry(j, n)
    BY DEF JournalAgrees
  <2>2. n > attempt[j] \/ n < attempt[j]
    BY <1>1, <1>2 DEF Attempts
  <2>3. n \in Int /\ attempt[j] \in Int
    BY <1>1, Constants DEF Attempts
  <2> QED BY <2>1, <2>2, <2>3 DEF JournalEntry
<1>3. outcome'[j] = [outcome[j] EXCEPT ![attempt[j]] = IF @ = "RUNNING" THEN x ELSE @]
  BY DEF TypeOK
<1>4. ASSUME NEW n \in Attempts
      PROVE  outcome'[j][n] = IF outcome[j][n] = "RUNNING" THEN x ELSE outcome[j][n]
  BY <1>1, <1>2, <1>3 DEF TypeOK
<1> QED BY <1>4 DEF Closes, TypeOK

LEMMA FailRow ==
  ASSUME TypeOK, NEW F \in SUBSET Job, NEW G \in SUBSET Followers(F), NEW err,
         FailPermanently(F, G, err), \A i \in F : status[i] \in Active,
         UNCHANGED <<attempt, effect>>, NEW i \in Job
  PROVE  RowStep(i)
<1>1. CASE i \in F
  <2>1. i \notin G
    BY <1>1 DEF Followers, Active
  <2>2. RowFail(i)
    BY <1>1, <2>1 DEF TypeOK, FailPermanently, Put, Close, Project, RowFail, Closes
  <2> QED BY <2>2 DEF RowStep
<1>2. CASE i \notin F
  <2>1. outcome'[i] = outcome[i]
    BY <1>2 DEF TypeOK, FailPermanently, Close
  <2>2. CASE i \in G
    <3>1. status[i] = "ABSENT"
      BY <2>2 DEF Followers
    <3> QED BY <1>2, <2>1, <2>2, <3>1 DEF TypeOK, FailPermanently, Put, Project, RowOpen, Keeps, RowStep
  <2>3. CASE i \notin G
    BY <1>2, <2>1, <2>3 DEF TypeOK, FailPermanently, Put, Project, RowSame, Keeps, RowStep
  <2> QED BY <2>2, <2>3
<1> QED BY <1>1, <1>2

LEMMA TerminalizeRow ==
  ASSUME TypeOK, NEW t, NEW j \in Job, TerminalizeDeadline(j, t), status[j] = "CLAIMED",
         UNCHANGED effect, NEW i \in Job
  PROVE  RowStep(i)
<1>1. PICK G \in SUBSET Followers({j}) : FailPermanently({j}, G, [k \in Job |-> "deadline"])
  BY DEF TerminalizeDeadline
<1>2. UNCHANGED attempt
  BY DEF TerminalizeDeadline
<1> QED BY <1>1, <1>2, FailRow DEF Active

LEMMA SameRow ==
  ASSUME UNCHANGED <<row, effect>>, NEW i \in Job PROVE RowStep(i)
BY DEF row, RowStep, RowSame, Keeps

LEMMA SweptActive == ASSUME NEW t PROVE Swept(t) \in SUBSET Job /\ \A i \in Swept(t) : status[i] \in Active
BY DEF Swept, Overdue, Pointless, Exhausted, Due, LeaseLapsed, Active

LEMMA ClaimJobRow ==
  ASSUME TypeOK, JournalAgrees, NEW t \in Stamps, NEW w \in Worker, NEW j \in Job,
         NEW G \in SUBSET Followers(Swept(t)), ClaimJob(w, j, G, t), NEW i \in Job
  PROVE  RowStep(i)
<1> DEFINE F == Swept(t)
           n == attempt[j] + 1
           journal == Close(Close(outcome, F, "FAILED_PERMANENT"), {j}, "RECLAIMED")
<1>1. F \in SUBSET Job /\ (\A k \in F : status[k] \in Active)
  BY SweptActive
<1>2. j \notin F /\ status[j] \in Active \cup {"ABSENT"} /\ attempt[j] < MaxAttempts[j]
  BY ClaimedDue
<1>g. \A k \in G : k \in Job /\ status[k] = "ABSENT" /\ k \notin F
  BY <1>1 DEF Followers, Active
<1>3. n \in Attempts
  BY <1>2, Constants DEF TypeOK, Attempts
<1>4. /\ status' = [Put(Put(status, F, "FAILED_PERMANENT"), G, "PENDING") EXCEPT ![j] = "CLAIMED"]
      /\ lastError' = [k \in Job |-> IF k \in F THEN SweepError(t)[k] ELSE lastError[k]]
      /\ attempt' = [attempt EXCEPT ![j] = n]
      /\ outcome' = [journal EXCEPT ![j][n] = "RUNNING"]
      /\ Project(F) /\ UNCHANGED effect
  BY DEF ClaimJob
<1> HIDE DEF F
<1>5. CASE i = j
  <2>1. outcome'[j] = [journal[j] EXCEPT ![n] = "RUNNING"]
    BY <1>4 DEF Close
  <2>2. \A k \in Attempts : journal[j][k] = IF outcome[j][k] = "RUNNING" THEN "RECLAIMED" ELSE outcome[j][k]
    BY <1>2 DEF Close
  <2>3. journal[j] = [k \in Attempts |-> journal[j][k]]
    BY DEF Close
  <2>4. \A k \in Attempts : outcome'[j][k] =
          IF k = n THEN "RUNNING"
          ELSE IF outcome[j][k] = "RUNNING" THEN "RECLAIMED" ELSE outcome[j][k]
    BY <2>1, <2>2, <2>3, <1>3
  <2>5. status'[j] = "CLAIMED" /\ attempt'[j] = n /\ projected'[j] = projected[j]
    BY <1>2, <1>4 DEF TypeOK, Put, Project
  <2> QED BY <1>2, <1>4, <1>5, <2>4, <2>5 DEF RowStep, RowStart
<1>6. CASE i # j
  <2>1. outcome'[i] = journal[i]
    BY <1>4, <1>6 DEF Close
  <2>2. \A k \in Attempts : outcome'[i][k] =
          IF i \in F /\ outcome[i][k] = "RUNNING" THEN "FAILED_PERMANENT" ELSE outcome[i][k]
    BY <2>1, <1>6 DEF Close
  <2>3. i \notin F => outcome'[i] = outcome[i]
    BY <2>1, <1>6 DEF TypeOK, Close
  <2>4. attempt'[i] = attempt[i]
    BY <1>4, <1>6 DEF TypeOK
  <2>5. CASE i \in F
    BY <1>1, <1>g, <1>4, <1>6, <2>2, <2>4, <2>5 DEF TypeOK, Put, Project, RowStep, RowFail, Closes
  <2>6. CASE i \in G
    BY <1>g, <1>4, <1>6, <2>3, <2>4, <2>6 DEF TypeOK, Put, Project, RowStep, RowOpen, Keeps
  <2>7. CASE i \notin F \cup G
    BY <1>4, <1>6, <2>3, <2>4, <2>7 DEF TypeOK, Put, Project, RowStep, RowSame, Keeps
  <2> QED BY <2>5, <2>6, <2>7
<1> QED BY <1>5, <1>6

LEMMA EnqueueRow ==
  ASSUME TypeOK, NEW t \in Stamps, NEW j \in Job, Enqueue(j, t), NEW i \in Job
  PROVE  RowStep(i)
<1>1. CASE i = j
  BY <1>1 DEF TypeOK, Enqueue, RowStep, RowOpen, Keeps
<1>2. CASE i # j
  BY <1>2 DEF TypeOK, Enqueue, RowStep, RowSame, Keeps
<1> QED BY <1>1, <1>2

LEMMA ClaimNothingRow ==
  ASSUME TypeOK, NEW t \in Stamps, NEW w \in Worker, ClaimNothing(w, t), NEW i \in Job
  PROVE  RowStep(i)
<1>1. FailPermanently(Swept(t), {}, SweepError(t)) /\ UNCHANGED <<attempt, effect>>
  BY DEF ClaimNothing
<1> QED BY <1>1, SweptActive, FailRow

LEMMA RenewRow ==
  ASSUME TypeOK, NEW t \in Stamps, NEW w \in Worker, NEW j \in Job, Renew(w, j, t), NEW i \in Job
  PROVE  RowStep(i)
<1>1. CASE TerminalizeDeadline(j, t)
  BY <1>1, TerminalizeRow DEF Renew, Holds
<1>2. CASE UNCHANGED <<status, attempt, lastError, outcome, projected>>
  BY <1>2 DEF Renew, RowStep, RowSame, Keeps
<1> QED BY <1>1, <1>2 DEF Renew

LEMMA AssertAuthorityRow ==
  ASSUME TypeOK, NEW t \in Stamps, NEW w \in Worker, NEW j \in Job, AssertAuthority(w, j, t),
         NEW i \in Job
  PROVE  RowStep(i)
<1>1. CASE HoldsLive(w, j, t) /\ TerminalizeDeadline(j, t)
  BY <1>1, TerminalizeRow DEF AssertAuthority, HoldsLive, Holds
<1>2. CASE UNCHANGED row
  BY <1>2, SameRow DEF AssertAuthority
<1> QED BY <1>1, <1>2 DEF AssertAuthority

LEMMA CommitEffectRow ==
  ASSUME TypeOK, NEW t \in Stamps, NEW w \in Worker, NEW j \in Job, CommitEffect(w, j, t),
         NEW i \in Job
  PROVE  RowStep(i)
<1>1. CASE UNCHANGED effect
  BY <1>1, SameRow DEF CommitEffect
<1>2. CASE HoldsLive(w, j, t) /\ effect' = [effect EXCEPT ![j] = @ \cup {running[w].token}]
  <2>1. CASE i = j
    BY <1>2, <2>1 DEF CommitEffect, TypeOK, row, HoldsLive, Holds, RowStep, RowCommit, Keeps
  <2>2. CASE i # j
    BY <1>2, <2>2 DEF CommitEffect, TypeOK, row, RowStep, RowSame, Keeps
  <2> QED BY <2>1, <2>2
<1> QED BY <1>1, <1>2 DEF CommitEffect

LEMMA SetTtsResultRow ==
  ASSUME TypeOK, NEW t \in Stamps, NEW w \in Worker, NEW j \in Job, NEW ok \in BOOLEAN,
         SetTtsResult(w, j, ok, t), NEW i \in Job
  PROVE  RowStep(i)
<1>1. CASE UNCHANGED <<row, effect>>
  BY <1>1, SameRow
<1>2. CASE HoldsLive(w, j, t) /\ TerminalizeDeadline(j, t) /\ UNCHANGED effect
  BY <1>2, TerminalizeRow DEF HoldsLive, Holds
<1>3. CASE /\ HoldsLive(w, j, t) /\ UNCHANGED row
           /\ effect' = [effect EXCEPT ![j] = IF ok THEN @ \cup {running[w].token} ELSE @]
  <2>1. CASE i = j /\ ok
    BY <1>3, <2>1 DEF TypeOK, row, HoldsLive, Holds, RowStep, RowCommit, Keeps
  <2>2. CASE ~(i = j /\ ok)
    BY <1>3, <2>2 DEF TypeOK, row, RowStep, RowSame, Keeps
  <2> QED BY <2>1, <2>2
<1> QED BY <1>1, <1>2, <1>3 DEF SetTtsResult

LEMMA CompleteRow ==
  ASSUME TypeOK, JournalAgrees, NEW t \in Stamps, NEW w \in Worker, NEW j \in Job,
         Complete(w, j, t), NEW i \in Job
  PROVE  RowStep(i)
<1>1. CASE UNCHANGED row
  BY <1>1, SameRow DEF Complete
<1>2. CASE Holds(w, j) /\ TerminalizeDeadline(j, t)
  BY <1>2, TerminalizeRow DEF Complete, Holds
<1>3. CASE /\ HoldsLive(w, j, t)
           /\ status' = [status EXCEPT ![j] = "SUCCEEDED"]
           /\ outcome' = [outcome EXCEPT ![j][attempt[j]] = IF @ = "RUNNING" THEN "SUCCEEDED" ELSE @]
           /\ UNCHANGED <<attempt, lastError, projected>>
  <2>1. status[j] = "CLAIMED"
    BY <1>3 DEF HoldsLive, Holds
  <2>2. Closes(j, "SUCCEEDED") /\ \A k \in Job \ {j} : outcome'[k] = outcome[k]
    BY <1>3, <2>1, OneRunning DEF Outcomes
  <2>3. CASE i = j
    BY <1>3, <2>1, <2>2, <2>3 DEF Complete, TypeOK, RowStep, RowSucceed
  <2>4. CASE i # j
    BY <1>3, <2>2, <2>4 DEF Complete, TypeOK, RowStep, RowSame, Keeps
  <2> QED BY <2>3, <2>4
<1> QED BY <1>1, <1>2, <1>3 DEF Complete

LEMMA FailRowStep ==
  ASSUME TypeOK, JournalAgrees, NEW t \in Stamps, NEW w \in Worker, NEW j \in Job,
         NEW retryable \in BOOLEAN, Fail(w, j, retryable, t), NEW i \in Job
  PROVE  RowStep(i)
<1>1. CASE UNCHANGED row
  BY <1>1, SameRow DEF Fail
<1>2. CASE Holds(w, j) /\ TerminalizeDeadline(j, t)
  BY <1>2, TerminalizeRow DEF Fail, Holds
<1>3. CASE /\ HoldsLive(w, j, t)
           /\ status' = [status EXCEPT ![j] = "RETRY_WAIT"]
           /\ lastError' = [lastError EXCEPT ![j] = "handler"]
           /\ outcome' = [outcome EXCEPT ![j][attempt[j]] = IF @ = "RUNNING" THEN "RETRY_WAIT" ELSE @]
           /\ UNCHANGED <<attempt, projected>>
  <2>1. status[j] = "CLAIMED"
    BY <1>3 DEF HoldsLive, Holds
  <2>2. Closes(j, "RETRY_WAIT") /\ \A k \in Job \ {j} : outcome'[k] = outcome[k]
    BY <1>3, <2>1, OneRunning DEF Outcomes
  <2>3. CASE i = j
    BY <1>3, <2>1, <2>2, <2>3 DEF Fail, TypeOK, RowStep, RowRelease
  <2>4. CASE i # j
    BY <1>3, <2>2, <2>4 DEF Fail, TypeOK, RowStep, RowSame, Keeps
  <2> QED BY <2>3, <2>4
<1>4. ASSUME HoldsLive(w, j, t), NEW G \in SUBSET Followers({j}),
             FailPermanently({j}, G, [k \in Job |-> "handler"]), UNCHANGED attempt
      PROVE  RowStep(i)
  BY <1>4, FailRow DEF Fail, HoldsLive, Holds, Active
<1> QED BY <1>1, <1>2, <1>3, <1>4 DEF Fail

LEMMA RecoverRow ==
  ASSUME TypeOK, NEW t \in Stamps, NEW G \in SUBSET Job, Recover(G, t), NEW i \in Job
  PROVE  RowStep(i)
<1> DEFINE lapsed == {j \in Job : LeaseLapsed(j, t)}
           F == {j \in lapsed : DeadlinePassed(j, t) \/ attempt[j] >= MaxAttempts[j]}
           R == lapsed \ F
<1>1. /\ status' = Put(Put(Put(status, F, "FAILED_PERMANENT"), R, "RETRY_WAIT"), G, "PENDING")
      /\ lastError' = [j \in Job |->
           IF j \in F THEN (IF DeadlinePassed(j, t) THEN "deadline" ELSE "lease_expired") ELSE lastError[j]]
      /\ outcome' = Close(Close(outcome, F, "FAILED_PERMANENT"), R, "RECLAIMED")
      /\ Project(F)
      /\ UNCHANGED <<attempt, effect>>
  BY DEF Recover
<1>2. \A j \in lapsed : status[j] = "CLAIMED"
  BY DEF LeaseLapsed
<1>3. F \cap R = {} /\ F \subseteq lapsed /\ R \subseteq lapsed /\ lapsed \subseteq Job
  OBVIOUS
<1>g. \A k \in G : status[k] = "ABSENT" /\ k \notin F /\ k \notin R
  BY <1>2, <1>3 DEF Recover, Followers
<1> HIDE DEF lapsed, F, R
<1>4. CASE i \in F
  <2>1. status[i] \in Active /\ i \notin R
    BY <1>2, <1>3, <1>4 DEF Active
  <2>2. Closes(i, "FAILED_PERMANENT")
    BY <1>1, <1>4, <2>1 DEF Close, Closes
  <2> QED BY <1>g, <1>1, <1>4, <2>1, <2>2 DEF Put, Project, RowStep, RowFail
<1>5. CASE i \in R
  <2>1. status[i] = "CLAIMED" /\ i \notin F
    BY <1>2, <1>3, <1>5
  <2>2. Closes(i, "RECLAIMED")
    BY <1>1, <1>5, <2>1 DEF Close, Closes
  <2> QED BY <1>g, <1>1, <1>5, <2>1, <2>2 DEF Put, Project, RowStep, RowRelease
<1>6. CASE i \notin F \cup R
  <2>1. outcome'[i] = outcome[i]
    BY <1>1, <1>6 DEF Close, TypeOK
  <2>2. CASE i \in G
    BY <1>g, <1>1, <1>6, <2>1, <2>2 DEF Put, Project, RowStep, RowOpen, Keeps
  <2>3. CASE i \notin G
    BY <1>1, <1>6, <2>1, <2>3 DEF Put, Project, RowStep, RowSame, Keeps
  <2> QED BY <2>2, <2>3
<1> QED BY <1>4, <1>5, <1>6

\* Every step of the queue does one of the seven things to each job.
LEMMA NextRow ==
  ASSUME TypeOK, JournalAgrees, [Next]_vars, NEW i \in Job
  PROVE  RowStep(i)
<1>1. CASE UNCHANGED vars
  BY <1>1, SameRow DEF vars
<1>2. ASSUME NEW t \in Stamps, StoreStep(t) PROVE RowStep(i)
  BY <1>2, EnqueueRow, RecoverRow, SameRow DEF StoreStep, ExpireArtifacts
<1>3. ASSUME NEW t \in Stamps, NEW w \in Worker, WorkerStep(w, t) PROVE RowStep(i)
  BY <1>3, ClaimNothingRow, ClaimJobRow, RenewRow, AssertAuthorityRow, CommitEffectRow,
     SetTtsResultRow, CompleteRow, FailRowStep, SameRow DEF WorkerStep, SkipTts
<1>4. CASE Tick \/ \E w \in Worker : Crash(w)
  BY <1>4, SameRow DEF Tick, Crash
<1> QED BY <1>1, <1>2, <1>3, <1>4 DEF Next

-----------------------------------------------------------------------------
(* The invariants of the row and its journal.                              *)

LEMMA RowKeepsJournal ==
  ASSUME TypeOK, TypeOK', JournalAgrees, \A i \in Job : RowStep(i)
  PROVE  JournalAgrees'
<1> SUFFICES ASSUME NEW j \in Job
             PROVE  /\ status'[j] \in {"ABSENT", "PENDING"} => attempt'[j] = 0
                    /\ status'[j] \in {"CLAIMED", "RETRY_WAIT", "SUCCEEDED"} => attempt'[j] # 0
                    /\ \A n \in Attempts : outcome'[j][n] \in JournalEntry(j, n)'
  BY DEF JournalAgrees
<1>1. /\ attempt[j] \in Nat /\ attempt'[j] \in Nat
      /\ status[j] \in {"ABSENT", "PENDING"} => attempt[j] = 0
      /\ status[j] \in {"CLAIMED", "RETRY_WAIT", "SUCCEEDED"} => attempt[j] # 0
      /\ \A n \in Attempts : outcome[j][n] \in JournalEntry(j, n)
  BY Constants DEF TypeOK, JournalAgrees
<1>2. \A n \in Attempts : n \in Nat
  BY Constants DEF Attempts
<1>3. CASE RowSame(j) \/ RowCommit(j)
  BY <1>1, <1>3 DEF RowSame, RowCommit, Keeps, JournalEntry
<1>4. CASE RowOpen(j)
  BY <1>1, <1>2, <1>4 DEF RowOpen, Keeps, JournalEntry
<1>5. CASE RowStart(j)
  <2>1. status'[j] = "CLAIMED" /\ attempt'[j] = attempt[j] + 1 /\ attempt'[j] # 0
    BY <1>1, <1>5 DEF RowStart
  <2>2. ASSUME NEW n \in Attempts PROVE outcome'[j][n] \in JournalEntry(j, n)'
    <3>1. outcome'[j][n] = IF n = attempt[j] + 1 THEN "RUNNING"
                           ELSE IF outcome[j][n] = "RUNNING" THEN "RECLAIMED" ELSE outcome[j][n]
      BY <1>5, <2>2 DEF RowStart
    <3>2. outcome[j][n] \in JournalEntry(j, n) /\ n \in Nat
      BY <1>1, <1>2, <2>2
    <3>3. CASE n = attempt[j] + 1
      BY <1>1, <2>1, <3>1, <3>2, <3>3 DEF JournalEntry
    <3>4. CASE n > attempt[j] + 1
      BY <1>1, <2>1, <3>1, <3>2, <3>4 DEF JournalEntry
    <3>5. CASE n < attempt[j]
      BY <1>1, <2>1, <3>1, <3>2, <3>5 DEF JournalEntry
    <3>6. CASE n = attempt[j]
      <4>1. n # 0
        BY <2>2, Constants DEF Attempts
      <4>2. status[j] \in {"CLAIMED", "RETRY_WAIT"}
        BY <1>1, <1>5, <3>6, <4>1 DEF RowStart, Active
      <4>3. outcome[j][n] \in {"RUNNING", "RETRY_WAIT", "RECLAIMED"}
        BY <1>1, <3>2, <3>6, <4>2 DEF JournalEntry
      <4>4. outcome'[j][n] \in {"RETRY_WAIT", "RECLAIMED"}
        BY <1>1, <3>1, <3>6, <4>3
      <4> QED BY <1>1, <2>1, <3>6, <4>4 DEF JournalEntry
    <3> QED BY <1>1, <3>2, <3>3, <3>4, <3>5, <3>6
  <2> QED BY <2>1, <2>2
<1>6. CASE RowRelease(j)
  BY <1>1, <1>2, <1>6 DEF RowRelease, Closes, JournalEntry
<1>7. CASE RowSucceed(j)
  BY <1>1, <1>2, <1>7 DEF RowSucceed, Closes, JournalEntry
<1>8. CASE RowFail(j)
  BY <1>1, <1>2, <1>8 DEF RowFail, Closes, Active, JournalEntry
<1> QED BY <1>3, <1>4, <1>5, <1>6, <1>7, <1>8 DEF RowStep

LEMMA InitJournal == Init => JournalAgrees
<1> SUFFICES ASSUME Init, NEW j \in Job
             PROVE  /\ status[j] = "ABSENT" /\ attempt[j] = 0
                    /\ \A n \in Attempts : outcome[j][n] \in JournalEntry(j, n)
  BY DEF JournalAgrees
<1>1. status[j] = "ABSENT" /\ attempt[j] = 0
  BY DEF Init
<1>2. ASSUME NEW n \in Attempts PROVE outcome[j][n] \in JournalEntry(j, n)
  <2>1. outcome[j][n] = "NONE"
    BY <1>2 DEF Init
  <2>2. n > attempt[j]
    BY <1>1, <1>2, Constants DEF Attempts
  <2>3. n \in Nat
    BY <1>2, Constants DEF Attempts
  <2>4. JournalEntry(j, n) = {"NONE"}
    BY <1>1, <2>2, <2>3 DEF JournalEntry
  <2> QED BY <2>1, <2>4
<1> QED BY <1>1, <1>2

\* The types need the journal: a claim counts up from the attempts of a row,
\* and a row that the same claim inserts has none.
LEMMA Inductive == TypeOK /\ JournalAgrees /\ [Next]_vars => TypeOK' /\ JournalAgrees'
BY NextType, NextRow, RowKeepsJournal

\* The tables and the workers' memory keep their types.
THEOREM TypeCorrect == Spec => []TypeOK
BY InitType, InitJournal, Inductive, PTL DEF Spec

\* The attempt journal and the job row agree in every reachable state.
THEOREM JournalCorrect == Spec => []JournalAgrees
BY InitType, InitJournal, Inductive, PTL DEF Spec

LEMMA RowKeepsProjection ==
  ASSUME TypeOK, ProjectedOnce, \A i \in Job : RowStep(i)
  PROVE  ProjectedOnce'
<1> SUFFICES ASSUME NEW j \in Job
             PROVE  projected'[j] = IF status'[j] = "FAILED_PERMANENT" THEN 1 ELSE 0
  BY DEF ProjectedOnce
<1>1. RowStep(j) /\ projected[j] = IF status[j] = "FAILED_PERMANENT" THEN 1 ELSE 0
  BY DEF ProjectedOnce
<1> QED BY <1>1 DEF RowStep, RowSame, RowOpen, RowStart, RowRelease, RowCommit, RowSucceed, RowFail, Active

\* A permanent failure reaches the waiting row exactly once, on every path.
THEOREM ProjectionCorrect == Spec => []ProjectedOnce
<1>1. Init => ProjectedOnce
  BY DEF Init, ProjectedOnce
<1>2. TypeOK /\ JournalAgrees /\ ProjectedOnce /\ [Next]_vars => ProjectedOnce'
  BY NextRow, RowKeepsProjection
<1> QED BY <1>1, <1>2, TypeCorrect, JournalCorrect, PTL DEF Spec

\* No step touches a job that has ended.
THEOREM TerminalCorrect == Spec => TerminalIsFinal
<1>1. TypeOK /\ JournalAgrees /\ [Next]_vars =>
        [\A j \in Job : status[j] \in Terminal =>
            /\ UNCHANGED <<status[j], outcome[j], attempt[j], lastError[j], projected[j]>>
            /\ effect'[j] = effect[j]]_vars
  <2> SUFFICES ASSUME TypeOK, JournalAgrees, [Next]_vars, NEW j \in Job, status[j] \in Terminal
               PROVE  /\ UNCHANGED <<status[j], outcome[j], attempt[j], lastError[j], projected[j]>>
                      /\ effect'[j] = effect[j]
    OBVIOUS
  <2>1. RowStep(j)
    BY NextRow
  <2>2. RowSame(j)
    BY <2>1 DEF RowStep, RowOpen, RowStart, RowRelease, RowCommit, RowSucceed, RowFail, Terminal, Active
  <2> QED BY <2>2 DEF RowSame, Keeps
<1> QED BY <1>1, TypeCorrect, JournalCorrect, PTL DEF Spec, TerminalIsFinal

\* Effects are committed by the current attempt of a claimed job only.
THEOREM FenceCorrect == Spec => StaleAttemptNeverCommits
<1>1. TypeOK /\ JournalAgrees /\ [Next]_vars =>
        [\A j \in Job : \A n \in effect'[j] \ effect[j] : n = attempt[j] /\ status[j] = "CLAIMED"]_vars
  <2> SUFFICES ASSUME TypeOK, JournalAgrees, [Next]_vars, NEW j \in Job, NEW n \in effect'[j] \ effect[j]
               PROVE  n = attempt[j] /\ status[j] = "CLAIMED"
    OBVIOUS
  <2>1. RowStep(j)
    BY NextRow
  <2> QED BY <2>1 DEF RowStep, RowSame, RowOpen, RowStart, RowRelease, RowCommit, RowSucceed, RowFail
<1> QED BY <1>1, TypeCorrect, JournalCorrect, PTL DEF Spec, StaleAttemptNeverCommits

-----------------------------------------------------------------------------
(* The queue implements the contract of its jobs.                          *)

LEMMA RowImplements ==
  ASSUME TypeOK, TypeOK', JournalAgrees, NEW j \in Job, RowStep(j)
  PROVE  Contract!JobStep(j)
<1> USE DEF Phase, Current, Contract!JobStep, Contract!Same
<1>1. CASE RowSame(j)
  BY <1>1 DEF RowSame, Keeps, Contract!Stay
<1>2. CASE RowOpen(j)
  BY <1>2 DEF RowOpen, Keeps, Contract!Open, Active
<1>3. CASE RowStart(j)
  BY <1>3 DEF RowStart, Contract!Start, Active
<1>4. CASE RowRelease(j)
  BY <1>4 DEF RowRelease, Contract!Release, Active, JournalAgrees
<1>5. CASE RowCommit(j)
  BY <1>5 DEF RowCommit, Keeps, Contract!Commit, Active, JournalAgrees
<1>6. CASE RowSucceed(j)
  BY <1>6 DEF RowSucceed, Contract!Succeed, Active, JournalAgrees
<1>7. CASE RowFail(j)
  BY <1>7 DEF RowFail, Contract!Fail, Active
<1> QED BY <1>1, <1>2, <1>3, <1>4, <1>5, <1>6, <1>7 DEF RowStep

\* WorkerJobs implements JobContract.
THEOREM Refinement == Spec => ImplementsContract
<1>1. Init => Contract!Init
  BY DEF Init, Contract!Init, Phase, Current, Active
<1>2. TypeOK /\ TypeOK' /\ JournalAgrees /\ [Next]_vars => [Contract!Next]_(Contract!vars)
  BY NextRow, RowImplements DEF Contract!Next
<1> QED BY <1>1, <1>2, TypeCorrect, JournalCorrect, PTL DEF Spec, ImplementsContract, Contract!Spec

-----------------------------------------------------------------------------
(* Leases and reasons.  A step may end the claim of a worker only when the *)
(* worker acts itself or when the claim is past its time.                  *)

\* What a claim may be ended for, whoever ends it.
Spent(i) == lease[i] <= now \/ DeadlinePassed(i, now) \/ ArtifactGone(i, now)

\* The memory of worker v after the step.
Forgets(v) == running'[v] = Idle
Remembers(v) ==
  /\ running'[v].job = running[v].job /\ running'[v].token = running[v].token
  /\ running'[v].until = running[v].until
Starts(v, j) ==
  /\ running'[v].job = j /\ running'[v].token = attempt[j] + 1
  /\ status'[j] = "CLAIMED" /\ owner'[j] = OwnerOf[v] /\ attempt'[j] = attempt[j] + 1
  /\ lease'[j] = running'[v].until
Renews(v, j) ==
  /\ running[v].job = j /\ Holds(v, j)
  /\ running'[v].job = j /\ running'[v].token = running[v].token
  /\ UNCHANGED <<status[j], owner[j], attempt[j]>>
  /\ lease'[j] = running'[v].until

\* The claim on job i after a step of worker v.
ClaimKept(v, i) ==
  \/ UNCHANGED <<status[i], owner[i], attempt[i], lease[i]>>
  \/ status[i] # "CLAIMED"
  \/ Spent(i)
  \/ v \in Worker /\ running[v].job = i /\ Holds(v, i) /\ Forgets(v)
  \/ v \in Worker /\ Renews(v, i)

\* Conditions that make a claim spent stay.
StaysSpent(i) ==
  /\ status[i] # "ABSENT" => deadline'[i] = deadline[i]
  /\ artifact[i] = "EXPIRED" => artifact'[i] = "EXPIRED"
  /\ attempt[i] <= attempt'[i]

ReasonGiven(i) ==
  (status[i] # "FAILED_PERMANENT" /\ status'[i] = "FAILED_PERMANENT") =>
    /\ status[i] # "ABSENT"
    /\ lastError'[i] = "deadline" => DeadlinePassed(i, now) \/ ArtifactGone(i, now)
    /\ lastError'[i] \in {"max_attempts", "lease_expired"} => attempt'[i] >= MaxAttempts[i]

\* What a step of worker v, or of nobody among the workers, does to claims.
QueueStep(v) ==
  /\ now <= now'
  /\ \A u \in Worker : u # v => running'[u] = running[u]
  /\ v \in Worker => Forgets(v) \/ Remembers(v) \/ \E j \in Job : Starts(v, j) \/ Renews(v, j)
  /\ \A i \in Job : ClaimKept(v, i) /\ StaysSpent(i) /\ ReasonGiven(i)

\* No two workers hold one attempt, and nobody holds one that was not started.
AttemptsApart ==
  \A w \in Worker : running[w].job \in Job =>
    /\ running[w].token <= attempt[running[w].job]
    /\ \A v \in Worker \ {w} : running[v].job = running[w].job
         => running[v].token # running[w].token

LEMMA HeldIsStarted ==
  ASSUME TypeOK, JournalAgrees, AttemptsApart, NEW w \in Worker, running[w].job \in Job
  PROVE  status[running[w].job] # "ABSENT"
<1>1. running[w].token \in Attempts
  BY ClaimShape DEF Claims
<1>2. running[w].token <= attempt[running[w].job] /\ running[w].token >= 1
  BY <1>1, Constants DEF AttemptsApart, Attempts
<1>3. attempt[running[w].job] # 0
  BY <1>1, <1>2, Constants DEF Attempts
<1> QED BY <1>3 DEF JournalAgrees

LEMMA AttemptsStayApart ==
  ASSUME TypeOK, TypeOK', AttemptsApart, NEW v, QueueStep(v)
  PROVE  AttemptsApart'
<1> SUFFICES ASSUME NEW w \in Worker, running'[w].job \in Job
             PROVE  /\ running'[w].token <= attempt'[running'[w].job]
                    /\ \A u \in Worker \ {w} : running'[u].job = running'[w].job
                         => running'[u].token # running'[w].token
  BY DEF AttemptsApart
<1>n. NoJob \notin Job
  BY Constants
<1>a. \A i \in Job : attempt[i] \in Int /\ attempt'[i] \in Int /\ attempt[i] <= attempt'[i]
  BY Constants DEF TypeOK, QueueStep, StaysSpent
<1>b. ASSUME NEW u \in Worker, running[u].job \in Job
      PROVE  running[u].token \in Int /\ running[u].token <= attempt[running[u].job]
  BY <1>b, ClaimShape, Constants DEF Claims, Attempts, AttemptsApart
\* A worker that did not start has the attempt it had.
<1>c. ASSUME NEW u \in Worker, running'[u].job \in Job, ~\E j \in Job : Starts(u, j) /\ u = v
      PROVE  running'[u].job = running[u].job /\ running'[u].token = running[u].token
  <2>1. CASE u # v
    BY <2>1 DEF QueueStep
  <2>2. CASE u = v
    <3>1. ~Forgets(u)
      BY <1>c, <1>n DEF Forgets, Idle
    <3> QED BY <1>c, <2>2, <3>1 DEF QueueStep, Remembers, Renews
  <2> QED BY <2>1, <2>2
<1>d. ASSUME NEW u \in Worker, running'[u].job \in Job, NEW j \in Job, Starts(u, j)
      PROVE  running'[u].job = j /\ running'[u].token = attempt[j] + 1 /\ attempt'[j] = attempt[j] + 1
  BY <1>d DEF Starts
<1>1. running'[w].token <= attempt'[running'[w].job]
  <2>1. CASE \E j \in Job : Starts(w, j) /\ w = v
    BY <2>1, <1>d, <1>a
  <2>2. CASE ~\E j \in Job : Starts(w, j) /\ w = v
    <3>1. running'[w].job = running[w].job /\ running'[w].token = running[w].token
      BY <1>c, <2>2
    <3> QED BY <3>1, <1>a, <1>b
  <2> QED BY <2>1, <2>2
<1>2. ASSUME NEW u \in Worker \ {w}, running'[u].job = running'[w].job
      PROVE  running'[u].token # running'[w].token
  <2>1. CASE \E j \in Job : Starts(w, j) /\ w = v
    <3>1. ~\E j \in Job : Starts(u, j) /\ u = v
      BY <1>2, <2>1
    <3>2. running'[u].job = running[u].job /\ running'[u].token = running[u].token
      BY <1>2, <1>c, <3>1
    <3>3. running[u].token <= attempt[running'[w].job] /\ running[u].token \in Int
      BY <1>2, <1>b, <3>2
    <3>4. running'[w].token = attempt[running'[w].job] + 1
      BY <2>1, <1>d
    <3> QED BY <3>2, <3>3, <3>4, <1>a
  <2>2. CASE \E j \in Job : Starts(u, j) /\ u = v
    <3>1. ~\E j \in Job : Starts(w, j) /\ w = v
      BY <1>2, <2>2
    <3>2. running'[w].job = running[w].job /\ running'[w].token = running[w].token
      BY <1>c, <3>1
    <3>3. running[w].token <= attempt[running'[w].job] /\ running[w].token \in Int
      BY <1>b, <3>2
    <3>4. running'[u].token = attempt[running'[w].job] + 1
      BY <1>2, <2>2, <1>d
    <3> QED BY <3>2, <3>3, <3>4, <1>a
  <2>3. CASE ~(\E j \in Job : Starts(w, j) /\ w = v) /\ ~(\E j \in Job : Starts(u, j) /\ u = v)
    <3>1. running'[w].job = running[w].job /\ running'[w].token = running[w].token
      BY <1>c, <2>3
    <3>2. running'[u].job = running[u].job /\ running'[u].token = running[u].token
      BY <1>2, <1>c, <2>3
    <3> QED BY <1>2, <3>1, <3>2 DEF AttemptsApart
  <2> QED BY <2>1, <2>2, <2>3
<1> QED BY <1>1, <1>2

LEMMA LeasesStayHonoured ==
  ASSUME TypeOK, TypeOK', JournalAgrees, AttemptsApart, LeaseHonoured, NEW v, QueueStep(v)
  PROVE  LeaseHonoured'
<1> SUFFICES ASSUME NEW w \in Worker, NEW j \in Job, running'[w].job = j
             PROVE  \/ Holds(w, j)' /\ lease'[j] = running'[w].until
                    \/ running'[w].until <= now'
                    \/ DeadlinePassed(j, now)'
                    \/ ArtifactGone(j, now)'
  BY DEF LeaseHonoured
<1>n. NoJob \notin Job
  BY Constants
<1>t. now \in Nat /\ now' \in Nat /\ now <= now' /\ lease[j] \in Int /\ deadline[j] \in Int
  BY DEF TypeOK, QueueStep
<1>1. CASE v = w /\ \E i \in Job : Starts(w, i)
  BY <1>1, Constants DEF Starts, Holds, TypeOK
<1>2. CASE v = w /\ \E i \in Job : Renews(w, i)
  BY <1>2 DEF Renews, Holds
<1>3. CASE ~(v = w /\ \E i \in Job : Starts(w, i) \/ Renews(w, i))
  <2>1. running'[w].job = running[w].job /\ running'[w].token = running[w].token
        /\ running'[w].until = running[w].until
    <3>1. CASE w # v
      BY <3>1 DEF QueueStep
    <3>2. CASE w = v
      <4>1. ~Forgets(w)
        BY <1>n DEF Forgets, Idle
      <4> QED BY <1>3, <3>2, <4>1 DEF QueueStep, Remembers
    <3> QED BY <3>1, <3>2
  <2>2. running[w].job = j /\ running[w].until \in Int
    BY <2>1, ClaimShape DEF Claims
  <2>3. status[j] # "ABSENT"
    BY <2>2, HeldIsStarted
  <2>4. deadline'[j] = deadline[j] /\ (artifact[j] = "EXPIRED" => artifact'[j] = "EXPIRED")
    BY <2>3 DEF QueueStep, StaysSpent
  <2>5. ArtifactExpiry[j] \in Int
    BY Constants DEF NoTime
  <2>6. DeadlinePassed(j, now) => DeadlinePassed(j, now)'
    BY <1>t, <2>4 DEF DeadlinePassed, Passed
  <2>7. ArtifactGone(j, now) => ArtifactGone(j, now)'
    BY <1>t, <2>4, <2>5 DEF ArtifactGone, Passed
  <2>8. CASE running[w].until <= now
    BY <1>t, <2>1, <2>2, <2>8
  <2>9. CASE Holds(w, j) /\ lease[j] = running[w].until /\ ~(running[w].until <= now)
    <3>1. ClaimKept(v, j)
      BY DEF QueueStep
    <3>2. CASE UNCHANGED <<status[j], owner[j], attempt[j], lease[j]>>
      BY <2>1, <2>9, <3>2 DEF Holds
    <3>3. CASE Spent(j)
      BY <2>6, <2>7, <2>9, <3>3 DEF Spent
    <3>4. ~(v \in Worker /\ running[v].job = j /\ Holds(v, j) /\ (Forgets(v) \/ Renews(v, j)))
      <4>1. SUFFICES ASSUME v \in Worker, running[v].job = j, Holds(v, j), Forgets(v) \/ Renews(v, j)
                     PROVE  FALSE
        OBVIOUS
      <4>2. CASE v = w
        <5>1. ~Forgets(w)
          BY <1>n DEF Forgets, Idle
        <5> QED BY <1>3, <4>1, <4>2, <5>1
      <4>3. CASE v # w
        BY <2>2, <2>9, <4>1, <4>3 DEF Holds, AttemptsApart
      <4> QED BY <4>2, <4>3
    <3>5. status[j] = "CLAIMED"
      BY <2>9 DEF Holds
    <3> QED BY <3>1, <3>2, <3>3, <3>4, <3>5 DEF ClaimKept, Renews
  <2> QED BY <2>2, <2>6, <2>7, <2>8, <2>9 DEF LeaseHonoured
<1> QED BY <1>1, <1>2, <1>3

LEMMA ReasonsStayTrue ==
  ASSUME TypeOK, TypeOK', JournalAgrees, FailureReasonHolds, [Next]_vars, NEW v, QueueStep(v)
  PROVE  FailureReasonHolds'
<1> SUFFICES ASSUME NEW j \in Job, status'[j] = "FAILED_PERMANENT"
             PROVE  /\ lastError'[j] = "deadline" => DeadlinePassed(j, now)' \/ ArtifactGone(j, now)'
                    /\ lastError'[j] \in {"max_attempts", "lease_expired"}
                         => attempt'[j] >= MaxAttempts[j]
  BY DEF FailureReasonHolds
<1>1. /\ now \in Nat /\ now' \in Nat /\ now <= now' /\ deadline[j] \in Int
      /\ attempt[j] \in Int /\ attempt'[j] \in Int /\ attempt[j] <= attempt'[j]
      /\ MaxAttempts[j] \in Int /\ ArtifactExpiry[j] \in Int
  BY Constants DEF TypeOK, QueueStep, StaysSpent, NoTime
<1>2. /\ status[j] # "ABSENT" => deadline'[j] = deadline[j]
      /\ artifact[j] = "EXPIRED" => artifact'[j] = "EXPIRED"
  BY DEF QueueStep, StaysSpent
<1>3. DeadlinePassed(j, now) /\ status[j] # "ABSENT" => DeadlinePassed(j, now)'
  BY <1>1, <1>2 DEF DeadlinePassed, Passed
<1>4. ArtifactGone(j, now) => ArtifactGone(j, now)'
  BY <1>1, <1>2 DEF ArtifactGone, Passed
<1>5. CASE status[j] # "FAILED_PERMANENT"
  BY <1>3, <1>4, <1>5 DEF QueueStep, ReasonGiven
<1>6. CASE status[j] = "FAILED_PERMANENT"
  <2>1. RowSame(j)
    BY <1>6, NextRow DEF RowStep, RowOpen, RowStart, RowRelease, RowCommit, RowSucceed, RowFail, Active
  <2>2. lastError'[j] = lastError[j] /\ attempt'[j] = attempt[j]
    BY <2>1 DEF RowSame, Keeps
  <2> QED BY <1>1, <1>3, <1>4, <1>6, <2>2 DEF FailureReasonHolds
<1> QED BY <1>5, <1>6

-----------------------------------------------------------------------------
(* Every action is a QueueStep.                                            *)

\* A timestamp is never ahead of the clock.
LEMMA DueByNow ==
  ASSUME TypeOK, NEW t \in Stamps, NEW i \in Job
  PROVE  /\ DeadlinePassed(i, t) => DeadlinePassed(i, now)
         /\ ArtifactGone(i, t) => ArtifactGone(i, now)
         /\ lease[i] <= t => lease[i] <= now
<1>1. t \in Int /\ now \in Int /\ t <= now /\ deadline[i] \in Int /\ lease[i] \in Int
      /\ ArtifactExpiry[i] \in Int
  BY StampType, Constants DEF TypeOK, NoTime
<1> QED BY <1>1 DEF DeadlinePassed, ArtifactGone, Passed

\* The jobs F are open, and the reasons err given for them are true.
FailsTruly(F, err) ==
  \A j \in F :
    /\ status[j] \in Active
    /\ err[j] = "deadline" => DeadlinePassed(j, now) \/ ArtifactGone(j, now)
    /\ err[j] \in {"max_attempts", "lease_expired"} => attempt[j] >= MaxAttempts[j]
\* The claim on a job of F may end: nobody has it, it is spent, or v gives it up.
MayEnd(F, v) ==
  \A j \in F :
    \/ status[j] # "CLAIMED"
    \/ Spent(j)
    \/ v \in Worker /\ running[v].job = j /\ Holds(v, j) /\ Forgets(v)
DeadlinesKept == \A j \in Job : status[j] # "ABSENT" => deadline'[j] = deadline[j]

\* The failure of the jobs F, each for a reason, and the insertion of G.
LEMMA FailuresDue ==
  ASSUME TypeOK, NEW F \in SUBSET Job, NEW G \in SUBSET Followers(F), NEW err,
         FailPermanently(F, G, err), attempt' = attempt, DeadlinesKept,
         NEW v, NEW i \in Job, FailsTruly(F, err), MayEnd(F, v)
  PROVE  ClaimKept(v, i) /\ StaysSpent(i) /\ ReasonGiven(i)
<1>1. \A j \in G : status[j] = "ABSENT"
  BY DEF Followers
<1>2. i \in F => i \notin G
  BY <1>1 DEF Active, FailsTruly
<1>3. attempt'[i] \in Int
  BY Constants DEF TypeOK
<1>4. StaysSpent(i)
  BY <1>1, <1>3 DEF FailPermanently, Project, StaysSpent, DeadlinesKept
<1>5. ClaimKept(v, i)
  <2>1. CASE i \in F
    BY <2>1 DEF ClaimKept, MayEnd
  <2>2. CASE i \in G
    BY <1>1, <2>2 DEF ClaimKept
  <2>3. CASE i \notin F \cup G
    BY <2>3 DEF FailPermanently, Put, TypeOK, ClaimKept
  <2> QED BY <2>1, <2>2, <2>3
<1>6. ReasonGiven(i)
  <2>1. CASE i \in F
    <3>1. lastError'[i] = err[i] /\ attempt'[i] = attempt[i]
      BY <2>1 DEF FailPermanently
    <3> QED BY <2>1, <3>1 DEF ReasonGiven, Active, FailsTruly
  <2>2. CASE i \notin F
    BY <1>1, <2>2 DEF FailPermanently, Put, ReasonGiven
  <2> QED BY <2>1, <2>2
<1> QED BY <1>4, <1>5, <1>6

LEMMA TerminalizeDue ==
  ASSUME TypeOK, NEW t \in Stamps, NEW j \in Job, TerminalizeDeadline(j, t), DeadlinePassed(j, t),
         status[j] = "CLAIMED", NEW v, NEW i \in Job
  PROVE  ClaimKept(v, i) /\ StaysSpent(i) /\ ReasonGiven(i)
<1>1. PICK G \in SUBSET Followers({j}) :
        FailPermanently({j}, G, [k \in Job |-> "deadline"]) /\ Schedule(G, t)
  BY DEF TerminalizeDeadline
<1>2. attempt' = attempt
  BY DEF TerminalizeDeadline
<1>3. DeadlinePassed(j, now)
  BY DueByNow
<1>4. DeadlinesKept
  BY <1>1 DEF Schedule, Followers, DeadlinesKept
<1>6. MayEnd({j}, v)
  BY <1>3 DEF Spent, MayEnd
<1> DEFINE err == [h \in Job |-> "deadline"]
<1>5. err[j] = "deadline" /\ status[j] \in Active
  BY DEF Active
<1>9. FailPermanently({j}, G, err)
  BY <1>1
<1> HIDE DEF err
<1>8. FailsTruly({j}, err)
  BY <1>3, <1>5 DEF FailsTruly
<1> QED BY <1>2, <1>4, <1>6, <1>8, <1>9, FailuresDue

\* The jobs that the sweeps of a claim end.
LEMMA SweptDue ==
  ASSUME TypeOK, NEW t \in Stamps, NEW j \in Swept(t)
  PROVE  /\ j \in Job /\ status[j] \in Active
         /\ SweepError(t)[j] = "deadline" => DeadlinePassed(j, now) \/ ArtifactGone(j, now)
         /\ SweepError(t)[j] \in {"max_attempts", "lease_expired"} => attempt[j] >= MaxAttempts[j]
         /\ status[j] # "CLAIMED" \/ Spent(j)
<1>1. j \in Job /\ status[j] \in Active
  BY SweptActive
<1>2. CASE j \in Overdue(t) \cup Pointless(t)
  <2>1. DeadlinePassed(j, now) \/ ArtifactGone(j, now)
    BY <1>1, <1>2, DueByNow DEF Overdue, Pointless
  <2> QED BY <1>1, <1>2, <2>1 DEF SweepError, Spent
<1>3. CASE j \notin Overdue(t) \cup Pointless(t)
  <2>1. Due(j, t) /\ attempt[j] >= MaxAttempts[j]
    BY <1>3 DEF Swept, Exhausted
  <2>2. status[j] = "CLAIMED" => lease[j] <= now
    BY <1>1, <2>1, DueByNow DEF Due, LeaseLapsed
  <2> QED BY <1>1, <1>3, <2>1, <2>2 DEF SweepError, Spent
<1> QED BY <1>2, <1>3

LEMMA SameQueue ==
  ASSUME TypeOK, UNCHANGED row, NEW v, NEW i \in Job,
         artifact[i] = "EXPIRED" => artifact'[i] = "EXPIRED"
  PROVE  ClaimKept(v, i) /\ StaysSpent(i) /\ ReasonGiven(i)
<1>1. attempt'[i] = attempt[i] /\ attempt[i] \in Int
  BY Constants DEF TypeOK, row
<1> QED BY <1>1 DEF row, ClaimKept, StaysSpent, ReasonGiven

LEMMA ForgottenBy ==
  ASSUME TypeOK, NEW w \in Worker, Forget(w)
  PROVE  Forgets(w) /\ \A u \in Worker : u # w => running'[u] = running[u]
BY DEF TypeOK, Forget, Forgets

LEMMA SteppedBy ==
  ASSUME TypeOK, NEW w \in Worker, running[w].job \in Job, NEW s,
         running' = [running EXCEPT ![w].step = s]
  PROVE  Remembers(w) /\ \A u \in Worker : u # w => running'[u] = running[u]
<1>1. running[w] \in Claims
  BY ClaimShape
<1> QED BY <1>1 DEF TypeOK, Remembers, Claims

\* A step of one worker's own transaction.
LEMMA OwnStep ==
  ASSUME TypeOK, UNCHANGED now, NEW v,
         v \in Worker => Forgets(v) \/ Remembers(v) \/ \E j \in Job : Starts(v, j) \/ Renews(v, j),
         \A u \in Worker : u # v => running'[u] = running[u],
         \A i \in Job : ClaimKept(v, i) /\ StaysSpent(i) /\ ReasonGiven(i)
  PROVE  QueueStep(v)
BY DEF QueueStep, TypeOK

LEMMA EnqueueQueue ==
  ASSUME TypeOK, NEW t \in Stamps, NEW j \in Job, Enqueue(j, t), NEW v
  PROVE  QueueStep(v)
<1>1. ASSUME NEW i \in Job
      PROVE  ClaimKept(v, i) /\ StaysSpent(i) /\ ReasonGiven(i)
  <2>1. i # j => status'[i] = status[i] /\ deadline'[i] = deadline[i]
    BY DEF Enqueue, Schedule, TypeOK
  <2>2. i = j => status[i] = "ABSENT" /\ status'[i] = "PENDING"
    BY DEF Enqueue, TypeOK
  <2>3. attempt[i] \in Int /\ UNCHANGED <<attempt, owner, lease, artifact>>
    BY Constants DEF Enqueue, TypeOK
  <2> QED BY <2>1, <2>2, <2>3 DEF ClaimKept, StaysSpent, ReasonGiven
<1>2. UNCHANGED <<now, running>>
  BY DEF Enqueue
<1> QED BY <1>1, <1>2, OwnStep DEF Remembers

LEMMA ClaimNothingQueue ==
  ASSUME TypeOK, NEW t \in Stamps, NEW w \in Worker, ClaimNothing(w, t)
  PROVE  QueueStep(w)
<1> DEFINE F == Swept(t)
           err == SweepError(t)
<1>1. F \in SUBSET Job /\ {} \in SUBSET Followers(F)
  BY SweptActive
<1>2. FailsTruly(F, err)
  BY SweptDue DEF FailsTruly
<1>3. FailPermanently(F, {}, err) /\ UNCHANGED <<now, running, deadline>> /\ attempt' = attempt
  BY DEF ClaimNothing
<1>4. DeadlinesKept
  BY <1>3 DEF DeadlinesKept
<1>5. MayEnd(F, w)
  BY SweptDue DEF MayEnd
<1> HIDE DEF F, err
<1>6. \A i \in Job : ClaimKept(w, i) /\ StaysSpent(i) /\ ReasonGiven(i)
  BY <1>1, <1>2, <1>3, <1>4, <1>5, FailuresDue
<1> QED BY <1>3, <1>6, OwnStep DEF Remembers

LEMMA ClaimJobQueue ==
  ASSUME TypeOK, JournalAgrees, NEW t \in Stamps, NEW w \in Worker, NEW j \in Job,
         NEW G \in SUBSET Followers(Swept(t)), ClaimJob(w, j, G, t)
  PROVE  QueueStep(w)
<1> DEFINE F == Swept(t)
<1>a. /\ status' = [Put(Put(status, F, "FAILED_PERMANENT"), G, "PENDING") EXCEPT ![j] = "CLAIMED"]
      /\ owner' = [Put(owner, F, NoOwner) EXCEPT ![j] = OwnerOf[w]]
      /\ lease' = [Put(lease, F, NoTime) EXCEPT ![j] = t + LeaseSeconds]
      /\ lastError' = [i \in Job |-> IF i \in F THEN SweepError(t)[i] ELSE lastError[i]]
      /\ attempt' = [attempt EXCEPT ![j] = attempt[j] + 1]
      /\ Project(F)
      /\ running' = [running EXCEPT ![w] =
                       [job |-> j, token |-> attempt[j] + 1, until |-> t + LeaseSeconds, step |-> "run"]]
      /\ Schedule(G, t)
      /\ UNCHANGED <<now, effect>>
  BY DEF ClaimJob
<1>b. \A k \in G : status[k] = "ABSENT"
  BY DEF Followers
<1>c. \A k \in F : k \notin G /\ status[k] \in Active
  BY <1>b, SweptActive DEF Active
<1>d. j \notin F
  BY ClaimedDue
<1>e. status[j] = "CLAIMED" => lease[j] <= now
  <2>1. j \in Claimable(t) \cup G
    BY DEF ClaimJob, NextDue
  <2>2. CASE j \in G
    BY <1>b, <2>2
  <2>3. CASE j \in Claimable(t)
    <3>1. status[j] = "CLAIMED" => lease[j] <= t
      BY <2>3 DEF Claimable, Due, LeaseLapsed
    <3> QED BY <3>1, DueByNow
  <2> QED BY <2>1, <2>2, <2>3
<1>f. \A k \in F : /\ SweepError(t)[k] = "deadline" => DeadlinePassed(k, now) \/ ArtifactGone(k, now)
                   /\ SweepError(t)[k] \in {"max_attempts", "lease_expired"} => attempt[k] >= MaxAttempts[k]
                   /\ status[k] # "CLAIMED" \/ Spent(k)
  BY SweptDue
<1>g. F \in SUBSET Job
  BY SweptActive
<1> HIDE DEF F
<1>1. Starts(w, j)
  <2>1. running'[w] = [job |-> j, token |-> attempt[j] + 1, until |-> t + LeaseSeconds, step |-> "run"]
    BY <1>a DEF TypeOK
  <2>2. status'[j] = "CLAIMED" /\ owner'[j] = OwnerOf[w] /\ lease'[j] = t + LeaseSeconds
    BY <1>a DEF Put, TypeOK
  <2>3. attempt'[j] = attempt[j] + 1
    BY <1>a DEF TypeOK
  <2> QED BY <2>1, <2>2, <2>3 DEF Starts
<1>2. \A u \in Worker : u # w => running'[u] = running[u]
  BY <1>a DEF TypeOK
<1>3. ASSUME NEW i \in Job
      PROVE  ClaimKept(w, i) /\ StaysSpent(i) /\ ReasonGiven(i)
  <2>1. attempt[i] \in Int /\ attempt[i] <= attempt'[i]
    BY <1>a, Constants DEF TypeOK
  <2>2. StaysSpent(i)
    BY <1>a, <1>b, <2>1 DEF Project, Schedule, StaysSpent
  <2>3. ClaimKept(w, i)
    <3>1. CASE i = j
      BY <1>e, <3>1 DEF ClaimKept, Spent
    <3>2. CASE i \in F
      BY <1>f, <3>2 DEF ClaimKept
    <3>3. CASE i \in G
      BY <1>b, <3>3 DEF ClaimKept
    <3>4. CASE i # j /\ i \notin F /\ i \notin G
      <4>1. status'[i] = status[i] /\ owner'[i] = owner[i] /\ lease'[i] = lease[i]
        BY <1>a, <3>4 DEF Put, TypeOK
      <4>2. attempt'[i] = attempt[i]
        BY <1>a, <3>4 DEF TypeOK
      <4> QED BY <4>1, <4>2 DEF ClaimKept
    <3> QED BY <3>1, <3>2, <3>3, <3>4
  <2>4. ReasonGiven(i)
    <3>1. CASE i \in F
      <4>1. lastError'[i] = SweepError(t)[i]
        BY <1>a, <3>1
      <4>2. i # j
        BY <1>d, <3>1
      <4>3. attempt'[i] = attempt[i]
        BY <1>a, <4>2 DEF TypeOK
      <4> QED BY <1>c, <1>f, <3>1, <4>1, <4>3 DEF ReasonGiven, Active
    <3>2. CASE i \notin F
      <4>1. status'[i] \in {status[i], "PENDING", "CLAIMED"}
        BY <1>a, <3>2 DEF Put
      <4> QED BY <4>1 DEF ReasonGiven
    <3> QED BY <3>1, <3>2
  <2> QED BY <2>2, <2>3, <2>4
<1> QED BY <1>a, <1>1, <1>2, <1>3, OwnStep

\* A step that touches no row: only memory, effects or artifacts.
LEMMA MemoryQueue ==
  ASSUME TypeOK, UNCHANGED <<now, row>>, NEW w \in Worker, Forgets(w) \/ Remembers(w),
         \A u \in Worker : u # w => running'[u] = running[u],
         \A i \in Job : artifact[i] = "EXPIRED" => artifact'[i] = "EXPIRED"
  PROVE  QueueStep(w)
<1>1. \A i \in Job : ClaimKept(w, i) /\ StaysSpent(i) /\ ReasonGiven(i)
  BY SameQueue
<1> QED BY <1>1, OwnStep

\* A step that ends a claim at its deadline.
LEMMA DeadlineQueue ==
  ASSUME TypeOK, UNCHANGED now, NEW t \in Stamps, NEW j \in Job, TerminalizeDeadline(j, t),
         DeadlinePassed(j, t), status[j] = "CLAIMED",
         NEW w \in Worker, Forgets(w) \/ Remembers(w),
         \A u \in Worker : u # w => running'[u] = running[u]
  PROVE  QueueStep(w)
<1>1. \A i \in Job : ClaimKept(w, i) /\ StaysSpent(i) /\ ReasonGiven(i)
  BY TerminalizeDue
<1> QED BY <1>1, OwnStep

LEMMA RenewQueue ==
  ASSUME TypeOK, NEW t \in Stamps, NEW w \in Worker, NEW j \in Job, Renew(w, j, t)
  PROVE  QueueStep(w)
<1>1. running[w] \in Claims
  BY ClaimShape DEF Renew
<1>h. running[w].job = j /\ Holds(w, j) /\ status[j] = "CLAIMED" /\ UNCHANGED <<now, effect>>
  BY DEF Renew, Holds
<1>2. CASE DeadlinePassed(j, t) /\ TerminalizeDeadline(j, t) /\ UNCHANGED running
  <2>1. Remembers(w) /\ \A u \in Worker : u # w => running'[u] = running[u]
    BY <1>2 DEF Remembers
  <2> QED BY <1>h, <1>2, <2>1, DeadlineQueue
<1>3. CASE ~DeadlinePassed(j, t)
  <2> DEFINE e == IF deadline[j] # NoTime /\ t + LeaseSeconds > deadline[j]
                  THEN deadline[j] ELSE t + LeaseSeconds
  <2>1. /\ lease' = [lease EXCEPT ![j] = e]
        /\ running' = [running EXCEPT ![w].until = e]
        /\ UNCHANGED <<status, owner, attempt, nextAt, deadline, lastError, outcome,
                       projected, artifact, now, effect>>
    BY <1>3 DEF Renew
  <2> HIDE DEF e
  <2>2. lease'[j] = e /\ \A i \in Job : i # j => lease'[i] = lease[i]
    BY <2>1 DEF TypeOK
  <2>3. running'[w].until = e /\ running'[w].job = j /\ running'[w].token = running[w].token
    BY <1>1, <1>h, <2>1 DEF TypeOK, Claims
  <2>4. \A u \in Worker : u # w => running'[u] = running[u]
    BY <2>1 DEF TypeOK
  <2>5. Renews(w, j)
    BY <1>h, <2>1, <2>2, <2>3 DEF Renews
  <2>6. ASSUME NEW i \in Job PROVE ClaimKept(w, i) /\ StaysSpent(i) /\ ReasonGiven(i)
    <3>1. ClaimKept(w, i)
      <4>1. CASE i = j
        BY <2>5, <4>1 DEF ClaimKept
      <4>2. CASE i # j
        BY <2>1, <2>2, <4>2 DEF ClaimKept
      <4> QED BY <4>1, <4>2
    <3>2. StaysSpent(i) /\ ReasonGiven(i)
      BY <2>1, Constants DEF TypeOK, StaysSpent, ReasonGiven
    <3> QED BY <3>1, <3>2
  <2> QED BY <1>h, <2>4, <2>5, <2>6, OwnStep
<1> QED BY <1>2, <1>3 DEF Renew

LEMMA AssertAuthorityQueue ==
  ASSUME TypeOK, NEW t \in Stamps, NEW w \in Worker, NEW j \in Job, AssertAuthority(w, j, t)
  PROVE  QueueStep(w)
<1>1. Forgets(w) /\ (\A u \in Worker : u # w => running'[u] = running[u]) /\ UNCHANGED now
  BY ForgottenBy DEF AssertAuthority
<1>2. CASE UNCHANGED <<row, artifact>>
  BY <1>1, <1>2, MemoryQueue
<1>3. CASE HoldsLive(w, j, t) /\ DeadlinePassed(j, t) /\ TerminalizeDeadline(j, t)
  BY <1>1, <1>3, DeadlineQueue DEF HoldsLive, Holds
<1> QED BY <1>2, <1>3 DEF AssertAuthority

LEMMA CommitEffectQueue ==
  ASSUME TypeOK, NEW t \in Stamps, NEW w \in Worker, NEW j \in Job, CommitEffect(w, j, t)
  PROVE  QueueStep(w)
<1>1. UNCHANGED <<now, row, artifact>> /\ (Forget(w) \/ UNCHANGED running)
  BY DEF CommitEffect
<1>2. (Forgets(w) \/ Remembers(w)) /\ \A u \in Worker : u # w => running'[u] = running[u]
  BY <1>1, ForgottenBy DEF Remembers
<1> QED BY <1>1, <1>2, MemoryQueue

LEMMA SkipTtsQueue ==
  ASSUME TypeOK, NEW w \in Worker, NEW j \in Job, SkipTts(w, j)
  PROVE  QueueStep(w)
<1>1. Remembers(w) /\ \A u \in Worker : u # w => running'[u] = running[u]
  BY SteppedBy DEF SkipTts
<1> QED BY <1>1, MemoryQueue DEF SkipTts

LEMMA SetTtsResultQueue ==
  ASSUME TypeOK, NEW t \in Stamps, NEW w \in Worker, NEW j \in Job, NEW ok \in BOOLEAN,
         SetTtsResult(w, j, ok, t)
  PROVE  QueueStep(w)
<1>0. UNCHANGED now /\ running[w].job = j
  BY DEF SetTtsResult
<1>1. (Forgets(w) \/ Remembers(w)) /\ \A u \in Worker : u # w => running'[u] = running[u]
  <2>1. Forget(w) \/ \E s \in {"run", "receipt", "raise"} : running' = [running EXCEPT ![w].step = s]
    BY DEF SetTtsResult
  <2> QED BY <1>0, <2>1, ForgottenBy, SteppedBy
<1>2. CASE UNCHANGED row /\ \A i \in Job : artifact[i] = "EXPIRED" => artifact'[i] = "EXPIRED"
  BY <1>0, <1>1, <1>2, MemoryQueue
<1>3. CASE HoldsLive(w, j, t) /\ DeadlinePassed(j, t) /\ TerminalizeDeadline(j, t)
  BY <1>0, <1>1, <1>3, DeadlineQueue DEF HoldsLive, Holds
<1>4. CASE /\ UNCHANGED row /\ artifact[j] \in {"PENDING", "FAILED_GENERATION"}
           /\ artifact' = [artifact EXCEPT ![j] = IF ok THEN "READY" ELSE "FAILED_GENERATION"]
  <2>1. \A i \in Job : artifact[i] = "EXPIRED" => artifact'[i] = "EXPIRED"
    BY <1>4 DEF TypeOK
  <2> QED BY <1>2, <1>4, <2>1
<1> QED BY <1>2, <1>3, <1>4 DEF SetTtsResult

LEMMA CompleteQueue ==
  ASSUME TypeOK, NEW t \in Stamps, NEW w \in Worker, NEW j \in Job, Complete(w, j, t)
  PROVE  QueueStep(w)
<1>1. Forgets(w) /\ (\A u \in Worker : u # w => running'[u] = running[u])
      /\ UNCHANGED now /\ running[w].job = j
  BY ForgottenBy DEF Complete
<1>2. CASE UNCHANGED <<row, artifact>>
  BY <1>1, <1>2, MemoryQueue
<1>3. CASE Holds(w, j) /\ DeadlinePassed(j, t) /\ TerminalizeDeadline(j, t)
  BY <1>1, <1>3, DeadlineQueue DEF Holds
<1>4. CASE /\ HoldsLive(w, j, t)
           /\ status' = [status EXCEPT ![j] = "SUCCEEDED"]
           /\ owner' = [owner EXCEPT ![j] = NoOwner]
           /\ lease' = [lease EXCEPT ![j] = NoTime]
           /\ UNCHANGED <<attempt, nextAt, deadline, lastError, projected, artifact>>
  <2>1. Holds(w, j)
    BY <1>4 DEF HoldsLive
  <2>2. ASSUME NEW i \in Job PROVE ClaimKept(w, i) /\ StaysSpent(i) /\ ReasonGiven(i)
    <3>1. ClaimKept(w, i)
      <4>1. CASE i = j
        BY <1>1, <2>1, <4>1 DEF ClaimKept
      <4>2. CASE i # j
        BY <1>4, <4>2 DEF ClaimKept, TypeOK
      <4> QED BY <4>1, <4>2
    <3>2. StaysSpent(i)
      BY <1>4, Constants DEF TypeOK, StaysSpent
    <3>3. ReasonGiven(i)
      BY <1>4 DEF TypeOK, ReasonGiven
    <3> QED BY <3>1, <3>2, <3>3
  <2> QED BY <1>1, <2>2, OwnStep
<1> QED BY <1>2, <1>3, <1>4 DEF Complete

LEMMA FailQueue ==
  ASSUME TypeOK, NEW t \in Stamps, NEW w \in Worker, NEW j \in Job, NEW retryable \in BOOLEAN,
         Fail(w, j, retryable, t)
  PROVE  QueueStep(w)
<1>1. Forgets(w) /\ (\A u \in Worker : u # w => running'[u] = running[u])
      /\ UNCHANGED now /\ running[w].job = j
  BY ForgottenBy DEF Fail
<1>2. CASE UNCHANGED <<row, artifact>>
  BY <1>1, <1>2, MemoryQueue
<1>3. CASE Holds(w, j) /\ DeadlinePassed(j, t) /\ TerminalizeDeadline(j, t)
  BY <1>1, <1>3, DeadlineQueue DEF Holds
<1>4. CASE /\ HoldsLive(w, j, t)
           /\ status' = [status EXCEPT ![j] = "RETRY_WAIT"]
           /\ owner' = [owner EXCEPT ![j] = NoOwner]
           /\ lease' = [lease EXCEPT ![j] = NoTime]
           /\ UNCHANGED <<attempt, deadline, projected, artifact>>
  <2>1. Holds(w, j)
    BY <1>4 DEF HoldsLive
  <2>2. ASSUME NEW i \in Job PROVE ClaimKept(w, i) /\ StaysSpent(i) /\ ReasonGiven(i)
    <3>1. ClaimKept(w, i)
      <4>1. CASE i = j
        BY <1>1, <2>1, <4>1 DEF ClaimKept
      <4>2. CASE i # j
        BY <1>4, <4>2 DEF ClaimKept, TypeOK
      <4> QED BY <4>1, <4>2
    <3>2. StaysSpent(i)
      BY <1>4, Constants DEF TypeOK, StaysSpent
    <3>3. ReasonGiven(i)
      BY <1>4 DEF TypeOK, ReasonGiven
    <3> QED BY <3>1, <3>2, <3>3
  <2> QED BY <1>1, <2>2, OwnStep
<1>5. ASSUME HoldsLive(w, j, t), NEW G \in SUBSET Followers({j}),
             FailPermanently({j}, G, [i \in Job |-> "handler"]),
             deadline' = [i \in Job |-> IF i \in G THEN DeadlineAt(i, t) ELSE deadline[i]],
             attempt' = attempt
      PROVE  QueueStep(w)
  <2>1. Holds(w, j) /\ status[j] = "CLAIMED"
    BY <1>5 DEF HoldsLive, Holds
  <2>2. DeadlinesKept
    BY <1>5 DEF Followers, DeadlinesKept
  <2>3. MayEnd({j}, w)
    BY <1>1, <2>1 DEF MayEnd
  <2> DEFINE err == [i \in Job |-> "handler"]
  <2>4. err[j] = "handler" /\ status[j] \in Active
    BY <2>1 DEF Active
  <2>5. FailPermanently({j}, G, err)
    BY <1>5
  <2> HIDE DEF err
  <2>6. FailsTruly({j}, err)
    BY <2>4 DEF FailsTruly
  <2>7. \A i \in Job : ClaimKept(w, i) /\ StaysSpent(i) /\ ReasonGiven(i)
    BY <1>5, <2>2, <2>3, <2>5, <2>6, FailuresDue
  <2> QED BY <1>1, <2>7, OwnStep
<1> QED BY <1>2, <1>3, <1>4, <1>5 DEF Fail

LEMMA RecoverQueue ==
  ASSUME TypeOK, NEW t \in Stamps, NEW G \in SUBSET Job, Recover(G, t), NEW v
  PROVE  QueueStep(v)
<1> DEFINE lapsed == {j \in Job : LeaseLapsed(j, t)}
           F == {j \in lapsed : DeadlinePassed(j, t) \/ attempt[j] >= MaxAttempts[j]}
           R == lapsed \ F
<1>1. /\ status' = Put(Put(Put(status, F, "FAILED_PERMANENT"), R, "RETRY_WAIT"), G, "PENDING")
      /\ owner' = Put(owner, lapsed, NoOwner)
      /\ lease' = Put(lease, lapsed, NoTime)
      /\ deadline' = [j \in Job |-> IF j \in G THEN DeadlineAt(j, t) ELSE deadline[j]]
      /\ lastError' = [j \in Job |->
           IF j \in F THEN (IF DeadlinePassed(j, t) THEN "deadline" ELSE "lease_expired") ELSE lastError[j]]
      /\ Project(F)
      /\ UNCHANGED <<now, attempt, running>>
  BY DEF Recover
<1>2. \A k \in G : status[k] = "ABSENT"
  BY DEF Recover, Followers
<1>3. \A k \in lapsed : status[k] = "CLAIMED" /\ Spent(k)
  BY DueByNow DEF LeaseLapsed, Spent
<1>4. \A k \in F : k \in lapsed /\ (DeadlinePassed(k, t) \/ attempt[k] >= MaxAttempts[k])
  OBVIOUS
<1>5. R \subseteq lapsed
  OBVIOUS
<1>6. \A k \in Job : DeadlinePassed(k, t) => DeadlinePassed(k, now)
  BY DueByNow
<1> HIDE DEF lapsed, F, R
<1>7. ASSUME NEW i \in Job PROVE ClaimKept(v, i) /\ StaysSpent(i) /\ ReasonGiven(i)
  <2>1. attempt[i] \in Int /\ attempt'[i] = attempt[i]
    BY <1>1, Constants DEF TypeOK
  <2>2. StaysSpent(i)
    BY <1>1, <1>2, <2>1 DEF Project, StaysSpent
  <2>3. ClaimKept(v, i)
    <3>1. CASE i \in lapsed
      BY <1>3, <3>1 DEF ClaimKept
    <3>2. CASE i \in G
      BY <1>2, <3>2 DEF ClaimKept
    <3>3. CASE i \notin lapsed /\ i \notin G
      <4>1. status'[i] = status[i] /\ owner'[i] = owner[i] /\ lease'[i] = lease[i]
        BY <1>1, <1>4, <1>5, <3>3 DEF Put
      <4> QED BY <2>1, <4>1 DEF ClaimKept
    <3> QED BY <3>1, <3>2, <3>3
  <2>4. ReasonGiven(i)
    <3>1. CASE i \in F
      <4>1. lastError'[i] = (IF DeadlinePassed(i, t) THEN "deadline" ELSE "lease_expired")
        BY <1>1, <3>1
      <4>2. status[i] = "CLAIMED"
        BY <1>3, <1>4, <3>1
      <4> QED BY <1>4, <1>6, <2>1, <3>1, <4>1, <4>2 DEF ReasonGiven
    <3>2. CASE i \notin F
      <4>1. status'[i] \in {status[i], "PENDING", "RETRY_WAIT"}
        BY <1>1, <3>2 DEF Put
      <4> QED BY <4>1 DEF ReasonGiven
    <3> QED BY <3>1, <3>2
  <2> QED BY <2>2, <2>3, <2>4
<1> QED BY <1>1, <1>7, OwnStep DEF Remembers

LEMMA ExpireArtifactsQueue ==
  ASSUME TypeOK, NEW t \in Stamps, ExpireArtifacts(t), NEW v
  PROVE  QueueStep(v)
<1>1. UNCHANGED <<now, row, running>>
      /\ \A i \in Job : artifact[i] = "EXPIRED" => artifact'[i] = "EXPIRED"
  BY DEF ExpireArtifacts, Put
<1>2. \A i \in Job : ClaimKept(v, i) /\ StaysSpent(i) /\ ReasonGiven(i)
  BY <1>1, SameQueue
<1> QED BY <1>1, <1>2, OwnStep DEF Remembers

LEMMA NextQueue ==
  ASSUME TypeOK, JournalAgrees, [Next]_vars
  PROVE  \E v : QueueStep(v)
<1>1. CASE UNCHANGED vars
  <2>1. UNCHANGED <<now, row, running>> /\ \A i \in Job : artifact[i] = "EXPIRED" => artifact'[i] = "EXPIRED"
    BY <1>1 DEF vars
  <2>2. \A v : \A i \in Job : ClaimKept(v, i) /\ StaysSpent(i) /\ ReasonGiven(i)
    BY <2>1, SameQueue
  <2>3. QueueStep(NoJob)
    BY <2>1, <2>2, OwnStep DEF Remembers
  <2> QED BY <2>3
<1>2. ASSUME NEW t \in Stamps, StoreStep(t) PROVE QueueStep(NoJob)
  BY <1>2, EnqueueQueue, RecoverQueue, ExpireArtifactsQueue DEF StoreStep
<1>3. ASSUME NEW t \in Stamps, NEW w \in Worker, WorkerStep(w, t) PROVE QueueStep(w)
  BY <1>3, ClaimNothingQueue, ClaimJobQueue, RenewQueue, AssertAuthorityQueue, CommitEffectQueue,
     SkipTtsQueue, SetTtsResultQueue, CompleteQueue, FailQueue DEF WorkerStep
<1>4. ASSUME NEW w \in Worker, Crash(w) PROVE QueueStep(w)
  <2>1. Forgets(w) /\ \A u \in Worker : u # w => running'[u] = running[u]
    BY <1>4, ForgottenBy DEF Crash
  <2> QED BY <1>4, <2>1, MemoryQueue DEF Crash
<1>5. CASE Tick
  <2>1. now \in Nat /\ now' = now + 1 /\ UNCHANGED <<row, artifact, running>>
    BY <1>5 DEF Tick, TypeOK
  <2>2. \A i \in Job : ClaimKept(NoJob, i) /\ StaysSpent(i) /\ ReasonGiven(i)
    BY <2>1, SameQueue
  <2>3. QueueStep(NoJob)
    BY <2>1, <2>2 DEF QueueStep, Remembers
  <2> QED BY <2>3
<1> QED BY <1>1, <1>2, <1>3, <1>4, <1>5 DEF Next

-----------------------------------------------------------------------------
(* SweepsAreDue.                                                           *)

LeaseInv == TypeOK /\ JournalAgrees /\ AttemptsApart /\ LeaseHonoured /\ FailureReasonHolds

LEMMA InitLeases == Init => LeaseInv
<1> SUFFICES ASSUME Init PROVE LeaseInv
  OBVIOUS
<1>1. TypeOK /\ JournalAgrees
  BY InitType, InitJournal
<1>2. \A w \in Worker : running[w].job \notin Job
  BY Constants DEF Init, Idle
<1>3. \A j \in Job : status[j] = "ABSENT"
  BY DEF Init
<1> QED BY <1>1, <1>2, <1>3 DEF LeaseInv, AttemptsApart, LeaseHonoured, FailureReasonHolds

LEMMA LeaseInvKept == LeaseInv /\ [Next]_vars => LeaseInv'
<1> SUFFICES ASSUME LeaseInv, [Next]_vars PROVE LeaseInv'
  OBVIOUS
<1>1. TypeOK' /\ JournalAgrees'
  BY Inductive DEF LeaseInv
<1>2. PICK v : QueueStep(v)
  BY NextQueue DEF LeaseInv
<1>3. AttemptsApart'
  BY <1>1, <1>2, AttemptsStayApart DEF LeaseInv
<1>4. LeaseHonoured'
  BY <1>1, <1>2, LeasesStayHonoured DEF LeaseInv
<1>5. FailureReasonHolds'
  BY <1>1, <1>2, ReasonsStayTrue DEF LeaseInv
<1> QED BY <1>1, <1>3, <1>4, <1>5 DEF LeaseInv

\* A granted lease is honoured until it runs out, and a recorded reason is
\* true, for any workers, leases, deadlines and late timestamps: claim and
\* recovery take a job away only once nobody may rely on it.
THEOREM SweepsCorrect == Spec => []SweepsAreDue
<1>1. LeaseInv => SweepsAreDue
  BY DEF LeaseInv, SweepsAreDue
<1> QED BY <1>1, InitLeases, LeaseInvKept, PTL DEF Spec

-----------------------------------------------------------------------------
(* The audio of a tts job.  Its artifact moves with the job or is expired, *)
(* and a worker that has its receipt in hand saw it produced or gone.      *)

Produced(i) == artifact[i] \in {"READY", "EXPIRED"}
Receipt(w, i) == running[w].job = i /\ running[w].step = "receipt"

ArtifactMoves(i) ==
  \/ artifact'[i] = artifact[i]
  \/ artifact[i] = "PENDING" /\ artifact'[i] = "EXPIRED" /\ status'[i] = "FAILED_PERMANENT"
  \/ /\ artifact'[i] = "EXPIRED" /\ Passed(ArtifactExpiry[i], now)
     /\ status'[i] = status[i]
  \/ /\ artifact[i] \in {"PENDING", "FAILED_GENERATION"}
     /\ artifact'[i] \in {"READY", "FAILED_GENERATION"}
     /\ status[i] = "CLAIMED" /\ status'[i] = "CLAIMED"
JobEnds(i) ==
  /\ status'[i] = "FAILED_PERMANENT" => status[i] = "FAILED_PERMANENT" \/ artifact'[i] # "PENDING"
  /\ status'[i] = "SUCCEEDED" /\ status[i] # "SUCCEEDED" =>
       /\ status[i] = "CLAIMED" /\ artifact'[i] = artifact[i]
       /\ i \in TtsJob => \E w \in Worker : Receipt(w, i)
ReceiptGiven ==
  \A w \in Worker, i \in TtsJob :
    Receipt(w, i)' => Receipt(w, i) \/ Produced(i)' \/ status'[i] \in Terminal
AudioStep == (\A i \in Job : ArtifactMoves(i) /\ JobEnds(i)) /\ ReceiptGiven

LEMMA SameAudio ==
  ASSUME UNCHANGED <<status, artifact>>, NEW i \in Job
  PROVE  ArtifactMoves(i) /\ JobEnds(i)
BY DEF ArtifactMoves, JobEnds

\* Who forgets what he held has no receipt.
LEMMA ForgetsReceipt ==
  ASSUME TypeOK, NEW w \in Worker, Forget(w)
  PROVE  ReceiptGiven
<1>1. running'[w].job = NoJob /\ \A u \in Worker : u # w => running'[u] = running[u]
  BY DEF Forget, TypeOK, Idle
<1>2. NoJob \notin TtsJob
  BY Constants
<1> QED BY <1>1, <1>2 DEF ReceiptGiven, Receipt

LEMMA FailAudio ==
  ASSUME TypeOK, NEW F \in SUBSET Job, NEW G \in SUBSET Followers(F), NEW err,
         FailPermanently(F, G, err), \A i \in F : status[i] \in Active, NEW i \in Job
  PROVE  ArtifactMoves(i) /\ JobEnds(i)
<1>1. \A k \in G : status[k] = "ABSENT"
  BY DEF Followers
<1>2. CASE i \in F
  <2>1. i \notin G
    BY <1>1, <1>2 DEF Active
  <2>2. status'[i] = "FAILED_PERMANENT"
    BY <1>2, <2>1 DEF FailPermanently, Put
  <2>3. artifact'[i] = IF artifact[i] = "PENDING" THEN "EXPIRED" ELSE artifact[i]
    BY <1>2 DEF FailPermanently, Project
  <2> QED BY <2>2, <2>3 DEF ArtifactMoves, JobEnds
<1>3. CASE i \notin F
  <2>1. artifact'[i] = artifact[i]
    BY <1>3 DEF FailPermanently, Project
  <2>2. status'[i] \in {status[i], "PENDING"}
    BY <1>3 DEF FailPermanently, Put
  <2> QED BY <2>1, <2>2 DEF ArtifactMoves, JobEnds
<1> QED BY <1>2, <1>3

LEMMA TerminalizeAudio ==
  ASSUME TypeOK, NEW t, NEW j \in Job, TerminalizeDeadline(j, t), status[j] = "CLAIMED"
  PROVE  /\ \A i \in Job : ArtifactMoves(i) /\ JobEnds(i)
         /\ status'[j] = "FAILED_PERMANENT"
<1>1. PICK G \in SUBSET Followers({j}) : FailPermanently({j}, G, [k \in Job |-> "deadline"])
  BY DEF TerminalizeDeadline
<1>2. j \notin G
  BY DEF Followers
<1>3. status'[j] = "FAILED_PERMANENT"
  BY <1>1, <1>2 DEF FailPermanently, Put
<1>4. \A i \in {j} : status[i] \in Active
  BY DEF Active
<1> DEFINE err == [k \in Job |-> "deadline"]
<1>5. FailPermanently({j}, G, err)
  BY <1>1
<1> HIDE DEF err
<1> QED BY <1>3, <1>4, <1>5, FailAudio

LEMMA ClaimNothingAudio ==
  ASSUME TypeOK, NEW t \in Stamps, NEW w \in Worker, ClaimNothing(w, t)
  PROVE  AudioStep
<1>1. FailPermanently(Swept(t), {}, SweepError(t)) /\ UNCHANGED running
  BY DEF ClaimNothing
<1>2. \A i \in Job : ArtifactMoves(i) /\ JobEnds(i)
  BY <1>1, SweptActive, FailAudio
<1> QED BY <1>1, <1>2 DEF AudioStep, ReceiptGiven, Receipt

LEMMA ClaimJobAudio ==
  ASSUME TypeOK, JournalAgrees, NEW t \in Stamps, NEW w \in Worker, NEW j \in Job,
         NEW G \in SUBSET Followers(Swept(t)), ClaimJob(w, j, G, t)
  PROVE  AudioStep
<1> DEFINE F == Swept(t)
<1>1. j \notin F
  BY ClaimedDue
<1>2. F \in SUBSET Job /\ \A i \in F : status[i] \in Active
  BY SweptActive
<1>3. \A k \in G : status[k] = "ABSENT"
  BY DEF Followers
<1>4. status' = [Put(Put(status, F, "FAILED_PERMANENT"), G, "PENDING") EXCEPT ![j] = "CLAIMED"]
      /\ Project(F)
      /\ running' = [running EXCEPT ![w] =
           [job |-> j, token |-> attempt[j] + 1, until |-> t + LeaseSeconds, step |-> "run"]]
  BY DEF ClaimJob
<1> HIDE DEF F
<1>5. ASSUME NEW i \in Job PROVE ArtifactMoves(i) /\ JobEnds(i)
  <2>1. CASE i \in F
    <3>1. i \notin G /\ i # j
      BY <1>1, <1>2, <1>3, <2>1 DEF Active
    <3>2. status'[i] = "FAILED_PERMANENT"
      BY <1>4, <2>1, <3>1 DEF Put
    <3>3. artifact'[i] = IF artifact[i] = "PENDING" THEN "EXPIRED" ELSE artifact[i]
      BY <1>4, <2>1 DEF Project
    <3> QED BY <3>2, <3>3 DEF ArtifactMoves, JobEnds
  <2>2. CASE i \notin F
    <3>1. artifact'[i] = artifact[i]
      BY <1>4, <2>2 DEF Project
    <3>2. status'[i] \in {status[i], "PENDING", "CLAIMED"}
      BY <1>4, <2>2 DEF Put
    <3> QED BY <3>1, <3>2 DEF ArtifactMoves, JobEnds
  <2> QED BY <2>1, <2>2
<1>6. running'[w].step = "run" /\ \A u \in Worker : u # w => running'[u] = running[u]
  BY <1>4 DEF TypeOK
<1>7. ReceiptGiven
  BY <1>6 DEF ReceiptGiven, Receipt
<1> QED BY <1>5, <1>7 DEF AudioStep

LEMMA RenewAudio ==
  ASSUME TypeOK, NEW t \in Stamps, NEW w \in Worker, NEW j \in Job, Renew(w, j, t)
  PROVE  AudioStep
<1>1. status[j] = "CLAIMED" /\ running[w] \in Claims
  BY ClaimShape DEF Renew, Holds
<1>2. CASE TerminalizeDeadline(j, t) /\ UNCHANGED running
  <2>1. ReceiptGiven
    BY <1>2 DEF ReceiptGiven, Receipt
  <2> QED BY <1>1, <1>2, <2>1, TerminalizeAudio DEF AudioStep
<1>3. CASE ~(TerminalizeDeadline(j, t) /\ UNCHANGED running)
  <2>1. PICK e : running' = [running EXCEPT ![w].until = e] /\ UNCHANGED <<status, artifact>>
    BY <1>3 DEF Renew
  <2>2. \A u \in Worker : running'[u].job = running[u].job /\ running'[u].step = running[u].step
    BY <1>1, <2>1 DEF TypeOK, Claims
  <2>3. ReceiptGiven
    BY <2>2 DEF ReceiptGiven, Receipt
  <2> QED BY <2>1, <2>3, SameAudio DEF AudioStep
<1> QED BY <1>2, <1>3

LEMMA AssertAuthorityAudio ==
  ASSUME TypeOK, NEW t \in Stamps, NEW w \in Worker, NEW j \in Job, AssertAuthority(w, j, t)
  PROVE  AudioStep
<1>1. ReceiptGiven
  BY ForgetsReceipt DEF AssertAuthority
<1>2. CASE UNCHANGED <<status, artifact>>
  BY <1>1, <1>2, SameAudio DEF AudioStep
<1>3. CASE HoldsLive(w, j, t) /\ TerminalizeDeadline(j, t)
  BY <1>1, <1>3, TerminalizeAudio DEF AudioStep, HoldsLive, Holds
<1> QED BY <1>2, <1>3 DEF AssertAuthority, row

LEMMA CommitEffectAudio ==
  ASSUME TypeOK, NEW t \in Stamps, NEW w \in Worker, NEW j \in Job, CommitEffect(w, j, t)
  PROVE  AudioStep
<1>1. UNCHANGED <<status, artifact>>
  BY DEF CommitEffect, row
<1>2. ReceiptGiven
  BY ForgetsReceipt DEF CommitEffect, ReceiptGiven, Receipt
<1> QED BY <1>1, <1>2, SameAudio DEF AudioStep

LEMMA SkipTtsAudio ==
  ASSUME TypeOK, NEW w \in Worker, NEW j \in Job, SkipTts(w, j)
  PROVE  AudioStep
<1>1. UNCHANGED <<status, artifact>> /\ Produced(j) /\ running[w].job = j
      /\ running' = [running EXCEPT ![w].step = "receipt"]
  BY DEF SkipTts, row, Produced
<1>2. running'[w].job = j /\ \A u \in Worker : u # w => running'[u] = running[u]
  BY <1>1, ClaimShape DEF TypeOK, Claims
<1>3. ReceiptGiven
  BY <1>1, <1>2 DEF ReceiptGiven, Receipt, Produced
<1> QED BY <1>1, <1>3, SameAudio DEF AudioStep

LEMMA SetTtsResultAudio ==
  ASSUME TypeOK, NEW t \in Stamps, NEW w \in Worker, NEW j \in Job, NEW ok \in BOOLEAN,
         SetTtsResult(w, j, ok, t)
  PROVE  AudioStep
<1>1. running[w] \in Claims /\ running[w].job = j
  BY ClaimShape DEF SetTtsResult
<1>2. ASSUME NEW s, running' = [running EXCEPT ![w].step = s]
      PROVE  /\ running'[w].job = j /\ running'[w].step = s
             /\ \A u \in Worker : u # w => running'[u] = running[u]
  BY <1>1, <1>2 DEF TypeOK, Claims
<1>3. CASE Forget(w) /\ UNCHANGED <<row, artifact>>
  BY <1>3, ForgetsReceipt, SameAudio DEF AudioStep, row
<1>4. CASE HoldsLive(w, j, t) /\ TerminalizeDeadline(j, t)
           /\ running' = [running EXCEPT ![w].step =
                            IF artifact[j] = "FAILED_GENERATION" THEN "raise" ELSE "receipt"]
  <2>1. status[j] = "CLAIMED"
    BY <1>4 DEF HoldsLive, Holds
  <2>2. status'[j] \in Terminal
    BY <1>4, <2>1, TerminalizeAudio DEF Terminal
  <2>3. running'[w].job = j /\ \A u \in Worker : u # w => running'[u] = running[u]
    BY <1>2, <1>4
  <2>4. ReceiptGiven
    BY <2>2, <2>3 DEF ReceiptGiven, Receipt
  <2> QED BY <1>4, <2>1, <2>4, TerminalizeAudio DEF AudioStep
<1>5. CASE /\ HoldsLive(w, j, t)
           /\ artifact[j] \in {"PENDING", "FAILED_GENERATION"}
           /\ artifact' = [artifact EXCEPT ![j] = IF ok THEN "READY" ELSE "FAILED_GENERATION"]
           /\ running' = [running EXCEPT ![w].step = IF ok THEN "receipt" ELSE "raise"]
           /\ UNCHANGED row
  <2>1. status[j] = "CLAIMED" /\ status' = status
    BY <1>5 DEF HoldsLive, Holds, row
  <2>2. artifact'[j] = (IF ok THEN "READY" ELSE "FAILED_GENERATION")
        /\ \A i \in Job : i # j => artifact'[i] = artifact[i]
    BY <1>5 DEF TypeOK
  <2>3. \A i \in Job : ArtifactMoves(i) /\ JobEnds(i)
    BY <1>5, <2>1, <2>2 DEF ArtifactMoves, JobEnds
  <2>4. running'[w].job = j /\ running'[w].step = (IF ok THEN "receipt" ELSE "raise")
        /\ \A u \in Worker : u # w => running'[u] = running[u]
    BY <1>2, <1>5
  <2>5. ReceiptGiven
    BY <2>2, <2>4 DEF ReceiptGiven, Receipt, Produced
  <2> QED BY <2>3, <2>5 DEF AudioStep
<1>6. CASE /\ artifact[j] \in {"READY", "EXPIRED"}
           /\ running' = [running EXCEPT ![w].step = "receipt"]
           /\ UNCHANGED <<row, artifact, effect>>
  <2>1. UNCHANGED <<status, artifact>> /\ Produced(j)'
    BY <1>6 DEF row, Produced
  <2>2. running'[w].job = j /\ \A u \in Worker : u # w => running'[u] = running[u]
    BY <1>2, <1>6
  <2>3. ReceiptGiven
    BY <2>1, <2>2 DEF ReceiptGiven, Receipt
  <2> QED BY <2>1, <2>3, SameAudio DEF AudioStep
<1> QED BY <1>3, <1>4, <1>5, <1>6 DEF SetTtsResult

LEMMA CompleteAudio ==
  ASSUME TypeOK, NEW t \in Stamps, NEW w \in Worker, NEW j \in Job, Complete(w, j, t)
  PROVE  AudioStep
<1>1. ReceiptGiven
  BY ForgetsReceipt DEF Complete
<1>2. CASE Holds(w, j) /\ TerminalizeDeadline(j, t)
  BY <1>1, <1>2, TerminalizeAudio DEF AudioStep, Holds
<1>3. CASE HoldsLive(w, j, t) /\ status' = [status EXCEPT ![j] = "SUCCEEDED"] /\ UNCHANGED artifact
  <2>1. status[j] = "CLAIMED" /\ status'[j] = "SUCCEEDED"
        /\ \A i \in Job : i # j => status'[i] = status[i]
    BY <1>3 DEF HoldsLive, Holds, TypeOK
  <2>2. j \in TtsJob => Receipt(w, j)
    BY DEF Complete, Receipt
  <2>3. \A i \in Job : ArtifactMoves(i) /\ JobEnds(i)
    BY <1>3, <2>1, <2>2 DEF ArtifactMoves, JobEnds
  <2> QED BY <1>1, <2>3 DEF AudioStep
<1>4. CASE UNCHANGED <<status, artifact>>
  BY <1>1, <1>4, SameAudio DEF AudioStep
<1> QED BY <1>2, <1>3, <1>4 DEF Complete, row

LEMMA FailAudioStep ==
  ASSUME TypeOK, NEW t \in Stamps, NEW w \in Worker, NEW j \in Job, NEW retryable \in BOOLEAN,
         Fail(w, j, retryable, t)
  PROVE  AudioStep
<1>1. ReceiptGiven
  BY ForgetsReceipt DEF Fail
<1>2. CASE Holds(w, j) /\ TerminalizeDeadline(j, t)
  BY <1>1, <1>2, TerminalizeAudio DEF AudioStep, Holds
<1>3. CASE status' = [status EXCEPT ![j] = "RETRY_WAIT"] /\ UNCHANGED artifact
  <2>1. \A i \in Job : status'[i] \in {status[i], "RETRY_WAIT"}
    BY <1>3 DEF TypeOK
  <2>2. \A i \in Job : ArtifactMoves(i) /\ JobEnds(i)
    BY <1>3, <2>1 DEF ArtifactMoves, JobEnds
  <2> QED BY <1>1, <2>2 DEF AudioStep
<1>4. ASSUME HoldsLive(w, j, t), NEW G \in SUBSET Followers({j}),
             FailPermanently({j}, G, [i \in Job |-> "handler"])
      PROVE  AudioStep
  <2>1. \A i \in {j} : status[i] \in Active
    BY <1>4 DEF HoldsLive, Holds, Active
  <2> DEFINE err == [i \in Job |-> "handler"]
  <2>2. FailPermanently({j}, G, err)
    BY <1>4
  <2> HIDE DEF err
  <2>3. \A i \in Job : ArtifactMoves(i) /\ JobEnds(i)
    BY <2>1, <2>2, FailAudio
  <2> QED BY <1>1, <2>3 DEF AudioStep
<1>5. CASE UNCHANGED <<status, artifact>>
  BY <1>1, <1>5, SameAudio DEF AudioStep
<1> QED BY <1>2, <1>3, <1>4, <1>5 DEF Fail, row

LEMMA RecoverAudio ==
  ASSUME TypeOK, NEW t \in Stamps, NEW G \in SUBSET Job, Recover(G, t)
  PROVE  AudioStep
<1> DEFINE lapsed == {j \in Job : LeaseLapsed(j, t)}
           F == {j \in lapsed : DeadlinePassed(j, t) \/ attempt[j] >= MaxAttempts[j]}
           R == lapsed \ F
<1>1. /\ status' = Put(Put(Put(status, F, "FAILED_PERMANENT"), R, "RETRY_WAIT"), G, "PENDING")
      /\ Project(F) /\ UNCHANGED running
  BY DEF Recover
<1>2. \A k \in G : status[k] = "ABSENT"
  BY DEF Recover, Followers
<1>3. \A k \in F : status[k] = "CLAIMED" /\ k \notin R
  BY DEF LeaseLapsed
<1> HIDE DEF lapsed, F, R
<1>4. ASSUME NEW i \in Job PROVE ArtifactMoves(i) /\ JobEnds(i)
  <2>1. CASE i \in F
    <3>1. i \notin G /\ i \notin R
      BY <1>2, <1>3, <2>1
    <3>2. status'[i] = "FAILED_PERMANENT"
      BY <1>1, <2>1, <3>1 DEF Put
    <3>3. artifact'[i] = IF artifact[i] = "PENDING" THEN "EXPIRED" ELSE artifact[i]
      BY <1>1, <2>1 DEF Project
    <3> QED BY <3>2, <3>3 DEF ArtifactMoves, JobEnds
  <2>2. CASE i \notin F
    <3>1. artifact'[i] = artifact[i]
      BY <1>1, <2>2 DEF Project
    <3>2. status'[i] \in {status[i], "PENDING", "RETRY_WAIT"}
      BY <1>1, <2>2 DEF Put
    <3> QED BY <3>1, <3>2 DEF ArtifactMoves, JobEnds
  <2> QED BY <2>1, <2>2
<1> QED BY <1>1, <1>4 DEF AudioStep, ReceiptGiven, Receipt

LEMMA ExpireArtifactsAudio ==
  ASSUME TypeOK, NEW t \in Stamps, ExpireArtifacts(t)
  PROVE  AudioStep
<1> DEFINE X == {j \in TtsJob : artifact[j] # "EXPIRED" /\ Passed(ArtifactExpiry[j], t)}
<1>1. artifact' = Put(artifact, X, "EXPIRED") /\ UNCHANGED <<status, running>>
  BY DEF ExpireArtifacts, row
<1>2. ASSUME NEW i \in X PROVE Passed(ArtifactExpiry[i], now)
  BY StampType, Constants DEF Passed, NoTime, TypeOK
<1> HIDE DEF X
<1>3. ASSUME NEW i \in Job PROVE ArtifactMoves(i) /\ JobEnds(i)
  <2>1. CASE i \in X
    <3>1. artifact'[i] = "EXPIRED"
      BY <1>1, <2>1 DEF Put
    <3> QED BY <1>1, <1>2, <2>1, <3>1 DEF ArtifactMoves, JobEnds
  <2>2. CASE i \notin X
    <3>1. artifact'[i] = artifact[i]
      BY <1>1, <2>2 DEF Put
    <3> QED BY <1>1, <3>1 DEF ArtifactMoves, JobEnds
  <2> QED BY <2>1, <2>2
<1>4. ReceiptGiven
  BY <1>1 DEF ReceiptGiven, Receipt
<1> QED BY <1>3, <1>4 DEF AudioStep

LEMMA EnqueueAudio ==
  ASSUME TypeOK, NEW t \in Stamps, NEW j \in Job, Enqueue(j, t)
  PROVE  AudioStep
<1>1. UNCHANGED <<artifact, running>> /\ \A i \in Job : status'[i] \in {status[i], "PENDING"}
  BY DEF Enqueue, TypeOK
<1>2. \A i \in Job : ArtifactMoves(i) /\ JobEnds(i)
  BY <1>1 DEF ArtifactMoves, JobEnds
<1> QED BY <1>1, <1>2 DEF AudioStep, ReceiptGiven, Receipt

LEMMA NextAudio ==
  ASSUME TypeOK, JournalAgrees, [Next]_vars
  PROVE  AudioStep
<1>1. ASSUME UNCHANGED <<status, artifact, running>> PROVE AudioStep
  BY <1>1, SameAudio DEF AudioStep, ReceiptGiven, Receipt
<1>2. CASE UNCHANGED vars \/ Tick
  BY <1>1, <1>2 DEF vars, Tick, row
<1>3. ASSUME NEW t \in Stamps, StoreStep(t) PROVE AudioStep
  BY <1>3, EnqueueAudio, RecoverAudio, ExpireArtifactsAudio DEF StoreStep
<1>4. ASSUME NEW t \in Stamps, NEW w \in Worker, WorkerStep(w, t) PROVE AudioStep
  BY <1>4, ClaimNothingAudio, ClaimJobAudio, RenewAudio, AssertAuthorityAudio, CommitEffectAudio,
     SkipTtsAudio, SetTtsResultAudio, CompleteAudio, FailAudioStep DEF WorkerStep
<1>5. ASSUME NEW w \in Worker, Crash(w) PROVE AudioStep
  <2>1. UNCHANGED <<status, artifact>>
    BY <1>5 DEF Crash, row
  <2> QED BY <1>5, <2>1, ForgetsReceipt, SameAudio DEF AudioStep, Crash
<1> QED BY <1>2, <1>3, <1>4, <1>5 DEF Next

\* What a receipt in hand means.
ReceiptTells ==
  \A w \in Worker, i \in TtsJob : Receipt(w, i) => Produced(i) \/ status[i] \in Terminal

AudioInv == TypeOK /\ JournalAgrees /\ NoOrphanArtifact /\ ReceiptTells

LEMMA InitAudio == Init => AudioInv
<1> SUFFICES ASSUME Init PROVE AudioInv
  OBVIOUS
<1>1. TypeOK /\ JournalAgrees
  BY InitType, InitJournal
<1>2. \A w \in Worker : running[w].step = "idle"
  BY DEF Init, Idle
<1>3. \A j \in Job : status[j] = "ABSENT"
  BY DEF Init
<1>4. NoOrphanArtifact
  BY <1>3, Constants DEF NoOrphanArtifact
<1>5. ReceiptTells
  BY <1>2 DEF ReceiptTells, Receipt
<1> QED BY <1>1, <1>4, <1>5 DEF AudioInv

LEMMA AudioInvKept == AudioInv /\ [Next]_vars => AudioInv'
<1> SUFFICES ASSUME AudioInv, [Next]_vars PROVE AudioInv'
  OBVIOUS
<1>1. TypeOK /\ JournalAgrees /\ TypeOK' /\ JournalAgrees' /\ AudioStep
  BY Inductive, NextAudio DEF AudioInv
<1>2. \A i \in Job : status[i] \in Terminal => status'[i] = status[i]
  BY <1>1, NextRow DEF RowStep, RowSame, RowOpen, RowStart, RowRelease, RowCommit,
     RowSucceed, RowFail, Active, Terminal
<1>3. TtsJob \subseteq Job
  BY Constants
<1>4. ASSUME NEW i \in TtsJob, Produced(i) PROVE Produced(i)'
  BY <1>1, <1>3, <1>4 DEF AudioStep, ArtifactMoves, Produced
<1>5. ReceiptTells'
  BY <1>1, <1>2, <1>3, <1>4 DEF AudioInv, AudioStep, ReceiptGiven, ReceiptTells
<1>6. NoOrphanArtifact'
  <2> SUFFICES ASSUME NEW i \in TtsJob
               PROVE  /\ status'[i] = "FAILED_PERMANENT" => artifact'[i] # "PENDING"
                      /\ status'[i] = "SUCCEEDED" => Produced(i)'
    BY DEF NoOrphanArtifact, Produced
  <2>1. ArtifactMoves(i) /\ JobEnds(i)
    BY <1>1, <1>3 DEF AudioStep
  <2>2. ASSUME status[i] = "FAILED_PERMANENT" PROVE artifact'[i] # "PENDING"
    BY <2>1, <2>2 DEF AudioInv, NoOrphanArtifact, ArtifactMoves
  <2>3. status'[i] = "FAILED_PERMANENT" => artifact'[i] # "PENDING"
    BY <2>1, <2>2 DEF JobEnds
  <2>4. CASE status[i] = "SUCCEEDED"
    BY <1>4, <2>4 DEF AudioInv, NoOrphanArtifact, Produced
  <2>5. CASE status[i] # "SUCCEEDED" /\ status'[i] = "SUCCEEDED"
    <3>1. PICK w \in Worker : Receipt(w, i)
      BY <2>1, <2>5 DEF JobEnds
    <3>2. status[i] = "CLAIMED"
      BY <2>1, <2>5 DEF JobEnds
    <3>3. Produced(i)
      BY <3>1, <3>2 DEF AudioInv, ReceiptTells, Terminal
    <3> QED BY <1>4, <2>3, <3>3
  <2> QED BY <2>3, <2>4, <2>5
<1> QED BY <1>1, <1>5, <1>6 DEF AudioInv

\* A tts job never ends and leaves behind an artifact that waits for it, through
\* deadlines met while it is generated, results written by an attempt that is
\* overtaken and receipts that come after the end: reconcile_terminal_tts_jobs
\* finds nothing to do.
THEOREM NoOrphans == Spec => []NoOrphanArtifact
<1>1. AudioInv => NoOrphanArtifact
  BY DEF AudioInv
<1> QED BY <1>1, InitAudio, AudioInvKept, PTL DEF Spec

\* Audio that was produced is lost to its own expiry only, never to the failure
\* of the job that produced it.
THEOREM AudioSurvives == Spec => ReadyAudioSurvives
<1>1. ASSUME TypeOK, JournalAgrees, [Next]_vars
      PROVE  [\A j \in TtsJob : artifact[j] = "READY" /\ artifact'[j] # "READY"
                => Passed(ArtifactExpiry[j], now)]_vars
  BY <1>1, NextAudio, Constants DEF AudioStep, ArtifactMoves
<1> QED BY <1>1, TypeCorrect, JournalCorrect, PTL DEF Spec, ReadyAudioSurvives

-----------------------------------------------------------------------------
(* The audio of one answer.                                                *)

\* The artifact has come to none of its ends.
Unended == spoken.status \in {"PENDING", "FAILED_GENERATION", "READY"}

\* Until its end an artifact has no receipt, and nobody recovers; what a call has
\* deleted, or says it deleted, is gone.
PlaybackInv ==
  /\ Playback!TypeOK
  /\ Unended =>
       /\ \A r \in Playback!Receipt : receipt[r] = "NONE"
       /\ \A c \in Caller : call[c] = "idle"
       /\ task.step \in {"down", "idle", "written"}
  /\ task.step = "written" => Playback!Waiting /\ task.on \in Audio /\ disk = task.on
  /\ task.step \in {"leased", "unlinked"} => task.on \in Playback!Receipt
  /\ task.step \in {"recovering", "leased", "unlinked"} /\ task.by # None => task.by \in Caller
  /\ spoken.status = "READY" => disk = spoken.audio
  /\ spoken.status \in {"READY", "PLAYED"} => spoken.audio \in Audio
  /\ task.step = "unlinked" => disk = None
  /\ \A c \in Caller : call[c] = "recover" => spoken.status = "PLAYED"
  /\ \A c \in Caller : call[c] = "deleted" => disk = None
  /\ spoken.retention = "deleted_after_playback" => spoken.status = "PLAYED" /\ disk = None
  /\ Playback!JournalAgrees

\* What a step of EndedStays does.
PlaybackEnds ==
  /\ spoken.status \in {"PLAYED", "EXPIRED"} =>
       spoken'.status = spoken.status /\ spoken'.audio = spoken.audio
  /\ played = "PLAYED" => played' = "PLAYED"

LEMMA InitPlayback == Playback!Init => PlaybackInv
BY DEF Playback!Init, PlaybackInv, Playback!TypeOK, Playback!Statuses, Playback!Outcomes,
   Playback!Status, Playback!Idle, Unended, Playback!JournalAgrees

\* Every case below looks at the invariant.
USE DEF PlaybackInv, Playback!TypeOK, Unended, Playback!JournalAgrees, PlaybackEnds, Playback!Idle

LEMMA WriteAudioPlayback ==
  ASSUME PlaybackInv, NEW x \in Audio, Playback!WriteAudio(x)
  PROVE  PlaybackInv' /\ PlaybackEnds
BY DEF Playback!WriteAudio, Playback!Waiting

LEMMA CommitAudioPlayback ==
  ASSUME PlaybackInv, Playback!CommitAudio
  PROVE  PlaybackInv' /\ PlaybackEnds
BY DEF Playback!CommitAudio, Playback!Waiting, Playback!Statuses, Playback!Outcomes

LEMMA CommitFailsPlayback ==
  ASSUME PlaybackInv, Playback!CommitFails
  PROVE  PlaybackInv' /\ PlaybackEnds
BY DEF Playback!CommitFails, Playback!Waiting

LEMMA GenerationFailsPlayback ==
  ASSUME PlaybackInv, Playback!GenerationFails
  PROVE  PlaybackInv' /\ PlaybackEnds
BY DEF Playback!GenerationFails, Playback!Waiting, Playback!Statuses, Playback!Outcomes

LEMMA JobEndsPlayback ==
  ASSUME PlaybackInv, Playback!JobEnds
  PROVE  PlaybackInv' /\ PlaybackEnds
BY DEF Playback!JobEnds, Playback!Statuses, Playback!Outcomes

LEMMA ExpirePlayback ==
  ASSUME PlaybackInv, Playback!Expire
  PROVE  PlaybackInv' /\ PlaybackEnds
<1>0. task.step = "idle"
  BY DEF Playback!Expire
<1>1. CASE spoken.audio = None
  <2>1. spoken' = [spoken EXCEPT !.status = "EXPIRED", !.retention = "expired"]
        /\ UNCHANGED <<played, disk, task, call, receipt>>
    BY <1>1 DEF Playback!Expire
  <2>3. /\ spoken' \in [status: Playback!Statuses, retention: Playback!Outcomes,
                        audio: {None} \cup Audio]
        /\ spoken'.status = "EXPIRED" /\ spoken'.retention = "expired"
        /\ spoken'.audio = spoken.audio
    BY <2>1 DEF Playback!Statuses, Playback!Outcomes
  <2>4. spoken.status \in {"PENDING", "READY", "FAILED_GENERATION"}
    BY DEF Playback!Expire
  <2> QED BY <1>0, <2>1, <2>3, <2>4
<1>2. CASE spoken.audio # None
  <2>1. /\ spoken' = [spoken EXCEPT !.status = "EXPIRED", !.retention = "delete_pending"]
        /\ receipt' = [receipt EXCEPT ![<<"tts_expiry_cleanup", spoken.audio>>] = "PENDING"]
        /\ UNCHANGED <<played, disk, task, call>>
    BY <1>2 DEF Playback!Expire, Playback!Prepared
  <2>2. receipt' \in [Playback!Receipt -> Playback!Status]
    BY <2>1 DEF Playback!Status
  <2>3. /\ spoken' \in [status: Playback!Statuses, retention: Playback!Outcomes,
                        audio: {None} \cup Audio]
        /\ spoken'.status = "EXPIRED" /\ spoken'.retention = "delete_pending"
        /\ spoken'.audio = spoken.audio
    BY <2>1 DEF Playback!Statuses, Playback!Outcomes
  <2>4. spoken.status \in {"PENDING", "READY", "FAILED_GENERATION"}
    BY DEF Playback!Expire
  <2> QED BY <1>0, <2>1, <2>2, <2>3, <2>4
<1> QED BY <1>1, <1>2

LEMMA RelayPlayback ==
  ASSUME PlaybackInv, Playback!Relay
  PROVE  PlaybackInv' /\ PlaybackEnds
BY DEF Playback!Relay

LEMMA AcknowledgePlayback ==
  ASSUME PlaybackInv, NEW c \in Caller, Playback!Acknowledge(c)
  PROVE  PlaybackInv' /\ PlaybackEnds
<1>1. /\ task = Playback!Idle /\ spoken.status = "READY"
      /\ spoken' = [spoken EXCEPT !.status = "PLAYED", !.retention = "delete_pending"]
      /\ played' = "PLAYED" /\ call' = [call EXCEPT ![c] = "recover"] /\ UNCHANGED <<disk, task>>
  BY DEF Playback!Acknowledge
<1>2. /\ spoken' \in [status: Playback!Statuses, retention: Playback!Outcomes,
                      audio: {None} \cup Audio]
      /\ spoken'.status = "PLAYED" /\ spoken'.retention = "delete_pending"
      /\ spoken'.audio = spoken.audio
  BY <1>1 DEF Playback!Statuses, Playback!Outcomes
<1>3. receipt' \in [Playback!Receipt -> Playback!Status]
  BY DEF Playback!Acknowledge, Playback!Status, Playback!Prepared
<1>4. /\ call' \in [Caller -> {"idle", "recover", "deleted"}]
      /\ \A d \in Caller : call'[d] = "deleted" => call[d] = "deleted"
  BY <1>1
<1> QED BY <1>1, <1>2, <1>3, <1>4

LEMMA AcknowledgeAgainPlayback ==
  ASSUME PlaybackInv, NEW c \in Caller, Playback!AcknowledgeAgain(c)
  PROVE  PlaybackInv' /\ PlaybackEnds
BY DEF Playback!AcknowledgeAgain

LEMMA MarkDeletedPlayback ==
  ASSUME PlaybackInv, NEW c \in Caller, Playback!MarkDeleted(c)
  PROVE  PlaybackInv' /\ PlaybackEnds
<1>1. /\ task = Playback!Idle /\ call[c] = "deleted" /\ disk = None
      /\ call' = [call EXCEPT ![c] = "idle"] /\ UNCHANGED <<played, disk, receipt, task>>
  BY DEF Playback!MarkDeleted
<1>2. /\ spoken' \in [status: Playback!Statuses, retention: Playback!Outcomes,
                      audio: {None} \cup Audio]
      /\ spoken'.status = spoken.status /\ spoken'.audio = spoken.audio
      /\ spoken'.retention = IF spoken.status = "PLAYED" THEN "deleted_after_playback"
                             ELSE spoken.retention
  BY DEF Playback!MarkDeleted, Playback!Statuses, Playback!Outcomes
<1>3. /\ call' \in [Caller -> {"idle", "recover", "deleted"}]
      /\ \A d \in Caller : call'[d] = call[d] \/ call'[d] = "idle"
  BY <1>1
<1> QED BY <1>1, <1>2, <1>3

LEMMA RecoverOwnPlayback ==
  ASSUME PlaybackInv, NEW c \in Caller, Playback!RecoverOwn(c)
  PROVE  PlaybackInv' /\ PlaybackEnds
<1>1. /\ task = Playback!Idle /\ spoken.status = "PLAYED" /\ spoken.audio \in Audio
      /\ call' = [call EXCEPT ![c] = "idle"] /\ UNCHANGED <<spoken, played, disk, receipt>>
  BY DEF Playback!RecoverOwn
<1>2. Playback!PlaybackReceipt \in Playback!Receipt
  BY <1>1 DEF Playback!PlaybackReceipt, Playback!Receipt
<1>3. PICK todo \in SUBSET Playback!Receipt :
        task' = [Playback!Idle EXCEPT !.step = "recovering", !.by = c, !.todo = todo]
  BY <1>2 DEF Playback!RecoverOwn
<1>4. /\ task' = [step |-> "recovering", on |-> None, todo |-> todo, by |-> c]
      /\ task' \in [step: {"down", "idle", "written", "recovering", "leased", "unlinked", "done"},
                   on: {None} \cup Playback!Receipt \cup Audio, todo: SUBSET Playback!Receipt,
                   by: {None} \cup Caller]
  BY <1>3
<1>5. /\ call' \in [Caller -> {"idle", "recover", "deleted"}]
      /\ \A d \in Caller : call'[d] = call[d] \/ call'[d] = "idle"
  BY <1>1
<1> QED BY <1>1, <1>3, <1>4, <1>5

LEMMA RecoverAllPlayback ==
  ASSUME PlaybackInv, Playback!RecoverAll
  PROVE  PlaybackInv' /\ PlaybackEnds
BY DEF Playback!RecoverAll, Playback!Live

LEMMA LeaseReceiptPlayback ==
  ASSUME PlaybackInv, NEW r \in Playback!Receipt, Playback!LeaseReceipt(r)
  PROVE  PlaybackInv' /\ PlaybackEnds
BY DEF Playback!LeaseReceipt, Playback!Status

LEMMA SkipReceiptPlayback ==
  ASSUME PlaybackInv, NEW r \in Playback!Receipt, Playback!SkipReceipt(r)
  PROVE  PlaybackInv' /\ PlaybackEnds
BY DEF Playback!SkipReceipt

LEMMA UnlinkAudioPlayback ==
  ASSUME PlaybackInv, Playback!UnlinkAudio
  PROVE  PlaybackInv' /\ PlaybackEnds
BY DEF Playback!UnlinkAudio

LEMMA GiveUpPlayback ==
  ASSUME PlaybackInv, Playback!GiveUp
  PROVE  PlaybackInv' /\ PlaybackEnds
BY DEF Playback!GiveUp, Playback!Status

LEMMA CompleteReceiptPlayback ==
  ASSUME PlaybackInv, Playback!CompleteReceipt
  PROVE  PlaybackInv' /\ PlaybackEnds
<1>1. disk = None
  <2>1. CASE task.step = "leased" /\ Playback!VerdictOn(task.on) = "complete"
    <3>1. Playback!Verdict("unowned", task.on[2], disk, None) = "complete"
      BY <2>1 DEF Playback!VerdictOn
    <3> QED BY <3>1, Z3 DEF Playback!Verdict
  <2> QED BY <2>1 DEF Playback!CompleteReceipt
<1>2. task.on \in Playback!Receipt /\ ~Unended /\ task.step \in {"leased", "unlinked"}
  BY DEF Playback!CompleteReceipt
<1>3. receipt' \in [Playback!Receipt -> Playback!Status] /\ UNCHANGED <<spoken, played, disk>>
  BY <1>2 DEF Playback!CompleteReceipt, Playback!Status
<1>4. CASE task.by = None
  <2>1. task' = [task EXCEPT !.step = "recovering", !.on = None] /\ UNCHANGED call
    BY <1>4 DEF Playback!CompleteReceipt
  <2> QED BY <1>1, <1>2, <1>3, <1>4, <2>1
<1>5. CASE task.by # None
  <2>1. task' = Playback!Idle /\ call' = [call EXCEPT ![task.by] = "deleted"]
        /\ task.by \in Caller
    BY <1>2, <1>5 DEF Playback!CompleteReceipt
  <2> QED BY <1>1, <1>2, <1>3, <2>1
<1> QED BY <1>4, <1>5

LEMMA EndRecoveryPlayback ==
  ASSUME PlaybackInv, Playback!EndRecovery
  PROVE  PlaybackInv' /\ PlaybackEnds
BY DEF Playback!EndRecovery

LEMMA LeaseRunsOutPlayback ==
  ASSUME PlaybackInv, NEW r \in Playback!Receipt, Playback!LeaseRunsOut(r)
  PROVE  PlaybackInv' /\ PlaybackEnds
<1>1. receipt' = [receipt EXCEPT ![r] = "BLOCKED"] /\ receipt[r] = "CLAIMED"
      /\ UNCHANGED <<spoken, played, disk, task, call>>
  BY DEF Playback!LeaseRunsOut
<1>2. receipt' \in [Playback!Receipt -> Playback!Status] /\ ~Unended
  BY <1>1 DEF Playback!Status
<1> QED BY <1>1, <1>2 DEF Playback!Waiting

LEMMA CrashPlayback ==
  ASSUME PlaybackInv, Playback!Crash
  PROVE  PlaybackInv' /\ PlaybackEnds
BY DEF Playback!Crash, Playback!Down

LEMMA RestartPlayback ==
  ASSUME PlaybackInv, Playback!Restart
  PROVE  PlaybackInv' /\ PlaybackEnds
BY DEF Playback!Restart, Playback!Down

LEMMA RestPlayback ==
  ASSUME PlaybackInv, UNCHANGED Playback!vars
  PROVE  PlaybackInv' /\ PlaybackEnds
BY DEF Playback!vars, Playback!Waiting

HIDE DEF PlaybackInv, Playback!TypeOK, Unended, Playback!JournalAgrees, PlaybackEnds, Playback!Idle

LEMMA NextPlayback ==
  PlaybackInv /\ [Playback!Next]_Playback!vars => PlaybackInv' /\ PlaybackEnds
BY WriteAudioPlayback, CommitAudioPlayback, CommitFailsPlayback, GenerationFailsPlayback,
   JobEndsPlayback, ExpirePlayback, RelayPlayback, AcknowledgePlayback, AcknowledgeAgainPlayback,
   MarkDeletedPlayback, RecoverOwnPlayback, RecoverAllPlayback, LeaseReceiptPlayback,
   SkipReceiptPlayback, UnlinkAudioPlayback, GiveUpPlayback, CompleteReceiptPlayback,
   EndRecoveryPlayback, LeaseRunsOutPlayback, CrashPlayback, RestartPlayback, RestPlayback
   DEF Playback!Next

LEMMA PlaybackShows ==
  PlaybackInv => Playback!TypeOK /\ Playback!RetentionIsTrue /\ Playback!JournalAgrees
BY DEF PlaybackInv, Playback!RetentionIsTrue

\* The invariant of the audio of one answer, from its transactions, its files,
\* its recovery and its crashes in any order.
LEMMA PlaybackHolds == Playback!Spec => []PlaybackInv
BY InitPlayback, NextPlayback, PTL DEF Playback!Spec

-----------------------------------------------------------------------------
(* The chain of providers.                                                 *)

\* A provider that refuses is never asked again by the handler.
LEMMA RefusedEnds ==
  ASSUME NEW f \in CallEnds, f \notin {Chain!Good, Chain!NoAudioRoute}, ~f.retryable
  PROVE  ~Chain!Eligible(f) /\ ~Chain!HandlerRetries(f.kind) /\ f # Chain!Unreached
<1>1. CASE f \in {Chain!TooLarge, Chain!Invalid, Chain!Raised}
  BY <1>1 DEF Chain!TooLarge, Chain!Invalid, Chain!Raised, Chain!Unreached, Chain!Failure,
     Chain!Eligible, Chain!ClientTerminal, Chain!HandlerRetries, Chain!EligibleKinds
<1>2. ASSUME NEW c \in 400 .. 599, f = Chain!OfStatus(c) PROVE ~Chain!Eligible(f)
             /\ ~Chain!HandlerRetries(f.kind) /\ f # Chain!Unreached
  <2>1. ~Chain!RetryableStatus(c) /\ f.code = c /\ f.retryable = Chain!RetryableStatus(c)
    BY <1>2 DEF Chain!OfStatus, Chain!Failure
  <2>2. c \notin {408, 409, 425, 429} /\ c \notin 500 .. 599
    BY <2>1 DEF Chain!RetryableStatus
  <2>3. f.kind \in {"auth", "unsupported_media", "client"}
    BY <1>2, <2>2, Z3 DEF Chain!OfStatus, Chain!Failure
  <2> QED BY <1>2, <2>1, <2>3 DEF Chain!Eligible, Chain!HandlerRetries, Chain!Unreached,
             Chain!Failure
<1>3. CASE f \in {Chain!Timeout, Chain!Framing, Chain!Unreached}
  BY <1>3 DEF Chain!Timeout, Chain!Framing, Chain!Unreached, Chain!Failure
<1> QED BY <1>1, <1>2, <1>3, ChainConstants

\* The number of calls of a target.
CallsOf(calls, t) == {k \in DOMAIN calls : calls[k] = t}

LEMMA OneCallMore ==
  ASSUME NEW calls \in Seq(Nat), NEW t \in Nat, NEW u \in Nat
  PROVE  /\ Cardinality(CallsOf(calls, u)) \in Nat
         /\ Cardinality(CallsOf(Append(calls, t), u))
              = Cardinality(CallsOf(calls, u)) + (IF u = t THEN 1 ELSE 0)
<1> DEFINE n == Len(calls)
<1>1. n \in Nat /\ DOMAIN calls = 1 .. n /\ DOMAIN Append(calls, t) = 1 .. (n + 1)
      /\ Append(calls, t)[n + 1] = t /\ \A k \in 1 .. n : Append(calls, t)[k] = calls[k]
  OBVIOUS
<1> HIDE DEF n
<1>2. IsFiniteSet(1 .. n)
  <2>1. n \in Nat
    BY <1>1
  <2> QED BY <2>1, FS_Interval
<1>3. IsFiniteSet(CallsOf(calls, u))
  BY <1>1, <1>2, FS_Subset DEF CallsOf
<1>4. n + 1 \notin CallsOf(calls, u) /\ n + 1 \in 1 .. (n + 1)
      /\ 1 .. (n + 1) = (1 .. n) \cup {n + 1}
  BY <1>1 DEF CallsOf
<1>5. CASE u = t
  <2>1. CallsOf(Append(calls, t), u) = CallsOf(calls, u) \cup {n + 1}
    BY <1>1, <1>4, <1>5 DEF CallsOf
  <2> QED BY <1>3, <1>4, <1>5, <2>1, FS_AddElement, FS_CardinalityType
<1>6. CASE u # t
  <2>1. CallsOf(Append(calls, t), u) = CallsOf(calls, u)
    BY <1>1, <1>4, <1>6 DEF CallsOf
  <2> QED BY <1>3, <1>6, <2>1, FS_CardinalityType
<1> QED BY <1>5, <1>6

\* The rows of ProviderChain.
TtsRows == [status: {"NONE", "PENDING", "LEASED", "RETRY_WAIT", "SUCCEEDED", "FAILED_PERMANENT"},
         frozen: Chains \cup {Chain!NoChain}, attempts: 0 .. SpeechAttempts]
ArtifactEnds == {"NONE", "PENDING", "READY", "FAILED_GENERATION", "EXPIRED"}
Executions == [art: 0 .. Spoken, target: Nat, attempt: Nat, left: 0 .. CallTime, calls: Seq(Nat)]

\* The execution under way.
ExecutionInOrder ==
  /\ run \in Executions
  /\ run.target \in 1 .. Len(config) /\ run.attempt \in 0 .. config[run.target]
  /\ run.calls = <<>> => run.target = 1 /\ run.attempt = 0
  /\ run.art = 0 => run.calls = <<>>
  /\ run.calls # <<>> => config = job[run.art].frozen
  /\ \A k \in DOMAIN run.calls : run.calls[k] <= run.target
  /\ \A t \in 1 .. run.target :
       Cardinality(CallsOf(run.calls, t))
         = (IF t < run.target THEN config[t] + 1 ELSE run.attempt)
  /\ \A k, l \in DOMAIN run.calls : k < l => run.calls[k] <= run.calls[l]

\* One job and its artifact.
OneTogether(a) ==
  /\ job[a].status = "SUCCEEDED" <=> art[a] = "READY"
  /\ job[a].status = "FAILED_PERMANENT" => art[a] \in {"FAILED_GENERATION", "EXPIRED"}
  /\ job[a].status # "NONE" => art[a] # "NONE"
  /\ job[a].status = "PENDING" => job[a].attempts = 0
  /\ job[a].status = "RETRY_WAIT" => job[a].attempts < SpeechAttempts
  /\ run.art = a => job[a].status = "LEASED"
  /\ a \in refused => job[a].status = "FAILED_PERMANENT"

\* The inductive invariant of the chains.
ChainInv ==
  /\ config \in Chains
  /\ art \in [Chain!Artifacts -> ArtifactEnds] /\ job \in [Chain!Artifacts -> TtsRows]
  /\ refused \subseteq Chain!Artifacts /\ restarts \in 0 .. ChainStarts
  /\ ExecutionInOrder
  /\ \A a \in Chain!Artifacts : OneTogether(a)

\* FiniteSets is the same in ProviderChain as here.
LEMMA SameSizes == \A S : Chain!Cardinality(S) = Cardinality(S)
BY DEF Chain!Cardinality, Cardinality

LEMMA ChainShows == ChainInv => Chain!TypeOK /\ Chain!InDeclaredOrder /\ Chain!EndTogether
BY SameSizes DEF ChainInv, Chain!TypeOK, Chain!InDeclaredOrder, Chain!EndTogether, ExecutionInOrder,
   OneTogether, Executions, TtsRows, ArtifactEnds, CallsOf

\* What a step of RefusedIsFinal does.
RefusedStep == \A a \in refused : ~(run'.art = a /\ Len(run'.calls) > 0) /\ art'[a] # "READY"

LEMMA ChainType ==
  ASSUME config \in Chains
  PROVE  Len(config) \in Nat \ {0} /\ \A t \in 1 .. Len(config) : config[t] \in Nat
BY ChainConstants

LEMMA IdleInOrder ==
  ASSUME config' \in Chains, run' = Chain!Idle
  PROVE  ExecutionInOrder'
<1>1. Len(config') \in Nat \ {0} /\ config'[1] \in Nat
  BY ChainConstants
<1>2. Chain!Idle \in Executions
  BY ChainConstants DEF Chain!Idle, Executions
<1>3. Cardinality(CallsOf(<<>>, 1)) = 0
  BY FS_EmptySet DEF CallsOf
<1> QED BY <1>1, <1>2, <1>3 DEF ExecutionInOrder, Chain!Idle

\* An execution that a step leaves alone.
LEMMA SameExecution ==
  ASSUME ChainInv, UNCHANGED <<config, run>>,
         run.art # 0 => job'[run.art].frozen = job[run.art].frozen
  PROVE  ExecutionInOrder'
BY DEF ChainInv, ExecutionInOrder

LEMMA InitChain == Chain!Init => ChainInv
<1> SUFFICES ASSUME Chain!Init PROVE ChainInv
  OBVIOUS
<1>1. config \in Chains /\ run = Chain!Idle
  BY DEF Chain!Init
<1>2. ExecutionInOrder
  <2>1. Len(config) \in Nat \ {0} /\ config[1] \in Nat
    BY <1>1, ChainConstants
  <2>2. Chain!Idle \in Executions
    BY ChainConstants DEF Chain!Idle, Executions
  <2>3. Cardinality(CallsOf(<<>>, 1)) = 0
    BY FS_EmptySet DEF CallsOf
  <2> QED BY <1>1, <2>1, <2>2, <2>3 DEF ExecutionInOrder, Chain!Idle
<1>3. Chain!JobAbsent \in TtsRows
  BY ChainConstants DEF Chain!JobAbsent, TtsRows, Chain!NoChain
<1>4. \A a \in Chain!Artifacts : a # 0 /\ job[a] = Chain!JobAbsent /\ art[a] = "NONE"
  BY ChainConstants DEF Chain!Init, Chain!Artifacts
<1> QED BY <1>1, <1>2, <1>3, <1>4, ChainConstants DEF Chain!Init, ChainInv, OneTogether,
           Chain!JobAbsent, Chain!Idle, ArtifactEnds

\* How a lease may end.
LeaseEnds == {"SUCCEEDED", "RETRY_WAIT", "FAILED_PERMANENT"}

\* An execution, or a claim that was left, comes to an end.
LEMMA OneEndsChain ==
  ASSUME ChainInv, NEW a \in Chain!Artifacts, job[a].status = "LEASED",
         NEW s \in LeaseEnds, NEW e \in ArtifactEnds \ {"NONE"},
         job' = [job EXCEPT ![a].status = s], art' = [art EXCEPT ![a] = e],
         s = "SUCCEEDED" <=> e = "READY",
         s = "FAILED_PERMANENT" => e \in {"FAILED_GENERATION", "EXPIRED"},
         s = "RETRY_WAIT" => job[a].attempts < SpeechAttempts,
         refused' = refused \/ (refused' = refused \cup {a} /\ s = "FAILED_PERMANENT"),
         UNCHANGED <<config, restarts>>, run' = Chain!Idle \/ (run' = run /\ run.art # a)
  PROVE  ChainInv' /\ RefusedStep
<1>1. config \in Chains /\ art \in [Chain!Artifacts -> ArtifactEnds]
      /\ job \in [Chain!Artifacts -> TtsRows] /\ ExecutionInOrder
      /\ \A b \in Chain!Artifacts : OneTogether(b)
  BY DEF ChainInv
<1>2. job' \in [Chain!Artifacts -> TtsRows] /\ job'[a].status = s
      /\ job'[a].attempts = job[a].attempts
      /\ \A b \in Chain!Artifacts : job'[b].frozen = job[b].frozen /\ (b # a => job'[b] = job[b])
  BY <1>1 DEF TtsRows, LeaseEnds
<1>3. art' \in [Chain!Artifacts -> ArtifactEnds] /\ art'[a] = e
      /\ \A b \in Chain!Artifacts : b # a => art'[b] = art[b]
  BY <1>1
<1>4. run.art # 0 => run.art \in Chain!Artifacts
  BY <1>1 DEF ExecutionInOrder, Executions, Chain!Artifacts
<1>5. ExecutionInOrder'
  <2>1. CASE run' = Chain!Idle
    BY <1>1, <2>1, IdleInOrder
  <2>2. CASE run' = run
    BY <1>2, <1>4, <2>2, SameExecution
  <2> QED BY <2>1, <2>2
<1>6. run'.art # a /\ \A b \in Chain!Artifacts : run'.art = b => run.art = b
  BY ChainConstants DEF Chain!Idle, Chain!Artifacts
<1>7. ASSUME NEW b \in Chain!Artifacts PROVE OneTogether(b)'
  <2>1. CASE b = a
    BY <1>1, <1>2, <1>3, <1>6, <2>1 DEF OneTogether, LeaseEnds
  <2>2. CASE b # a
    BY <1>1, <1>2, <1>3, <1>6, <2>2 DEF OneTogether
  <2> QED BY <2>1, <2>2
<1>8. refused' \subseteq Chain!Artifacts
  BY DEF ChainInv
<1>9. RefusedStep
  <2> SUFFICES ASSUME NEW b \in refused PROVE run'.art # b /\ art'[b] # "READY"
    BY DEF RefusedStep
  <2>1. b \in Chain!Artifacts /\ job[b].status = "FAILED_PERMANENT" /\ b # a /\ run.art # b
    BY <1>1 DEF ChainInv, OneTogether
  <2>2. art[b] # "READY"
    BY <1>1, <2>1 DEF OneTogether
  <2> QED BY <1>3, <1>6, <2>1, <2>2
<1> QED BY <1>1, <1>2, <1>3, <1>5, <1>7, <1>8, <1>9 DEF ChainInv

\* The execution under way is about a leased job of some artifact.
LEMMA ExecutionRuns ==
  ASSUME ChainInv, run.art # 0
  PROVE  run.art \in Chain!Artifacts /\ job[run.art].status = "LEASED"
         /\ art[run.art] \in ArtifactEnds \ {"NONE", "READY"}
<1>1. run.art \in Chain!Artifacts
  BY DEF ChainInv, ExecutionInOrder, Executions, Chain!Artifacts
<1>2. OneTogether(run.art) /\ art[run.art] \in ArtifactEnds
  BY <1>1 DEF ChainInv
<1> QED BY <1>1, <1>2 DEF OneTogether

LEMMA PermanentEndsChain ==
  ASSUME ChainInv, run.art # 0, NEW kind, Chain!PermanentEnds(run.art, kind), run' = Chain!Idle,
         UNCHANGED <<config, restarts>>,
         refused' = refused \/ (refused' = refused \cup {run.art} /\ ~Chain!HandlerRetries(kind))
  PROVE  ChainInv' /\ RefusedStep
<1> DEFINE a == run.art
           s == IF Chain!HandlerRetries(kind) THEN Chain!RetryOrFail(a) ELSE "FAILED_PERMANENT"
<1>1. a \in Chain!Artifacts /\ job[a].status = "LEASED"
  BY ExecutionRuns
<1>2. job' = [job EXCEPT ![a].status = s] /\ art' = [art EXCEPT ![a] = "FAILED_GENERATION"]
  BY DEF Chain!PermanentEnds, Chain!EndJob
<1>3. s \in {"RETRY_WAIT", "FAILED_PERMANENT"}
      /\ (s = "RETRY_WAIT" => job[a].attempts < SpeechAttempts)
      /\ (~Chain!HandlerRetries(kind) => s = "FAILED_PERMANENT")
  BY DEF Chain!RetryOrFail
<1> HIDE DEF a, s
<1>4. s \in LeaseEnds /\ "FAILED_GENERATION" \in ArtifactEnds \ {"NONE"}
  BY <1>3 DEF LeaseEnds, ArtifactEnds
<1> QED BY <1>1, <1>2, <1>3, <1>4, OneEndsChain DEF a

LEMMA SuccessEndsChain ==
  ASSUME ChainInv, run.art # 0, Chain!SuccessEnds(run.art), run' = Chain!Idle,
         UNCHANGED <<config, restarts, refused>>
  PROVE  ChainInv' /\ RefusedStep
<1>1. run.art \in Chain!Artifacts /\ job[run.art].status = "LEASED"
  BY ExecutionRuns
<1>2. "SUCCEEDED" \in LeaseEnds /\ "READY" \in ArtifactEnds \ {"NONE"}
  BY DEF LeaseEnds, ArtifactEnds
<1>3. job' = [job EXCEPT ![run.art].status = "SUCCEEDED"]
      /\ art' = [art EXCEPT ![run.art] = "READY"]
  BY DEF Chain!SuccessEnds, Chain!EndJob
<1> QED BY <1>1, <1>2, <1>3, OneEndsChain

LEMMA ExhaustedEndsChain ==
  ASSUME ChainInv, NEW a \in Chain!Artifacts, job[a].status = "LEASED", Chain!ExhaustedEnds(a),
         UNCHANGED <<config, restarts, refused>>, run' = Chain!Idle \/ (run' = run /\ run.art # a)
  PROVE  ChainInv' /\ RefusedStep
<1> DEFINE s == Chain!RetryOrFail(a)
           e == IF art[a] = "PENDING" /\ s = "FAILED_PERMANENT" THEN "EXPIRED" ELSE art[a]
<1>1. job' = [job EXCEPT ![a].status = s] /\ art' = [art EXCEPT ![a] = e]
  BY DEF Chain!ExhaustedEnds, Chain!EndJob
<1>2. s \in LeaseEnds /\ s # "SUCCEEDED" /\ (s = "RETRY_WAIT" => job[a].attempts < SpeechAttempts)
  BY DEF Chain!RetryOrFail, LeaseEnds
<1>3. art[a] \in ArtifactEnds \ {"NONE", "READY"}
  BY DEF ChainInv, OneTogether
<1>4. e \in ArtifactEnds \ {"NONE", "READY"}
      /\ (s = "FAILED_PERMANENT" => e \in {"FAILED_GENERATION", "EXPIRED"})
  BY <1>3 DEF ArtifactEnds
<1> HIDE DEF s, e
<1> QED BY <1>1, <1>2, <1>4, OneEndsChain

\* A call that fails in passing, with a target left.
LEMMA AdvanceChain ==
  ASSUME ChainInv, run.art # 0, Chain!Validated(run.art), NEW left \in 0 .. CallTime,
         ~(Chain!LastAttempt /\ Chain!LastTarget),
         run' = Chain!Advance(left, Append(run.calls, run.target)),
         UNCHANGED <<config, art, job, restarts, refused>>
  PROVE  ChainInv' /\ RefusedStep
<1> DEFINE n == Len(run.calls)
           t == run.target
<1>0. ExecutionInOrder /\ config \in Chains
  BY DEF ChainInv
<1>1. /\ t \in 1 .. Len(config) /\ t \in Nat /\ run.attempt \in 0 .. config[t] /\ run.attempt \in Nat
      /\ Len(config) \in Nat /\ \A u \in 1 .. Len(config) : config[u] \in Nat
      /\ run.calls \in Seq(Nat) /\ run \in Executions
  BY <1>0, ChainType DEF ExecutionInOrder, Executions
<1>2. config = job[run.art].frozen
  BY DEF Chain!Validated
<1> DEFINE tt == IF Chain!LastAttempt THEN t + 1 ELSE t
           aa == IF Chain!LastAttempt THEN 0 ELSE run.attempt + 1
           cc == Append(run.calls, t)
<1>3a. tt \in Nat /\ aa \in Nat /\ cc \in Seq(Nat)
  BY <1>1
<1>3b. run' = [run EXCEPT !.left = left, !.calls = cc, !.target = tt, !.attempt = aa]
  BY DEF Chain!Advance
<1> HIDE DEF tt, aa, cc
<1>4. run' \in Executions /\ run'.art = run.art /\ run'.left = left /\ run'.calls = cc
      /\ run'.target = tt /\ run'.attempt = aa
  BY <1>1, <1>3a, <1>3b DEF Executions
<1>3. /\ run'.calls = Append(run.calls, t)
      /\ run'.target = (IF Chain!LastAttempt THEN t + 1 ELSE t)
      /\ run'.attempt = (IF Chain!LastAttempt THEN 0 ELSE run.attempt + 1)
  BY <1>4 DEF tt, aa, cc
<1>5. run'.target \in 1 .. Len(config) /\ run'.target \in Nat
      /\ run'.attempt \in 0 .. config[run'.target]
      /\ t <= run'.target
  <2>1. CASE Chain!LastAttempt
    <3>1. run'.target = t + 1 /\ run'.attempt = 0 /\ t # Len(config)
      BY <1>3, <2>1 DEF Chain!LastTarget
    <3>2. t + 1 \in 1 .. Len(config) /\ t <= t + 1
      BY <1>1, <3>1
    <3>3. config[t + 1] \in Nat
      BY <1>1, <3>2
    <3> QED BY <1>1, <3>1, <3>2, <3>3
  <2>2. CASE ~Chain!LastAttempt
    <3>1. run'.target = t /\ run'.attempt = run.attempt + 1 /\ ~(run.attempt = config[t])
      BY <1>3, <2>2 DEF Chain!LastAttempt
    <3>2. config[t] \in Nat
      BY <1>1
    <3>3. run.attempt + 1 \in 0 .. config[t]
      BY <1>1, <3>1, <3>2
    <3> QED BY <1>1, <3>1, <3>3
  <2> QED BY <2>1, <2>2
<1>6. n \in Nat /\ DOMAIN run.calls = 1 .. n /\ DOMAIN run'.calls = 1 .. (n + 1)
      /\ run'.calls # <<>>
      /\ run'.calls[n + 1] = t /\ \A k \in 1 .. n :
           run'.calls[k] = run.calls[k] /\ run.calls[k] \in Nat /\ run.calls[k] <= t
  <2>1. n \in Nat /\ DOMAIN run.calls = 1 .. n /\ \A k \in 1 .. n : run.calls[k] \in Nat
    BY <1>1
  <2>2. \A k \in 1 .. n : run.calls[k] <= t
    BY <1>0, <2>1 DEF ExecutionInOrder
  <2> DEFINE q == run.calls
  <2>3. q \in Seq(Nat) /\ run'.calls = Append(q, t) /\ n = Len(q)
    BY <1>1, <1>3
  <2> HIDE DEF q, n, t
  <2>4. DOMAIN Append(q, t) = 1 .. (n + 1) /\ Append(q, t)[n + 1] = t
        /\ \A k \in 1 .. n : Append(q, t)[k] = q[k]
    BY <2>3
  <2>5. Append(q, t) # <<>>
    BY <2>1, <2>4
  <2> QED BY <2>1, <2>2, <2>3, <2>4, <2>5 DEF q
<1> HIDE DEF n, t
<1>7. \A k \in 1 .. (n + 1) : run'.calls[k] \in Nat /\ run'.calls[k] <= t
  <2> SUFFICES ASSUME NEW k \in 1 .. (n + 1) PROVE run'.calls[k] \in Nat /\ run'.calls[k] <= t
    OBVIOUS
  <2>1. k = n + 1 \/ k \in 1 .. n
    BY <1>6
  <2>2. CASE k = n + 1
    <3>1. run'.calls[k] = t /\ t \in Nat
      BY <1>1, <1>6, <2>2
    <3> QED BY <3>1
  <2>3. CASE k \in 1 .. n
    BY <1>6, <2>3
  <2> QED BY <2>1, <2>2, <2>3
<1>8. \A k, l \in 1 .. (n + 1) : k < l => run'.calls[k] <= run'.calls[l]
  <2> SUFFICES ASSUME NEW k \in 1 .. (n + 1), NEW l \in 1 .. (n + 1), k < l
               PROVE  run'.calls[k] <= run'.calls[l]
    OBVIOUS
  <2>1. CASE l = n + 1
    BY <1>6, <1>7, <2>1
  <2>2. CASE l # n + 1
    <3>1. k \in 1 .. n /\ l \in 1 .. n
      BY <1>6, <2>2
    <3> QED BY <1>0, <1>6, <3>1 DEF ExecutionInOrder
  <2> QED BY <2>1, <2>2
<1>9. \A u \in 1 .. t :
        Cardinality(CallsOf(run.calls, u)) = (IF u < t THEN config[u] + 1 ELSE run.attempt)
  BY <1>0 DEF ExecutionInOrder, t
<1>10. ASSUME NEW u \in 1 .. run'.target
       PROVE  Cardinality(CallsOf(run'.calls, u))
                = (IF u < run'.target THEN config[u] + 1 ELSE run'.attempt)
  <2>1. u \in Nat
        /\ Cardinality(CallsOf(run'.calls, u))
             = Cardinality(CallsOf(run.calls, u)) + (IF u = t THEN 1 ELSE 0)
        /\ Cardinality(CallsOf(run.calls, u)) \in Nat
    <3>1. u \in Nat
      BY <1>5
    <3> DEFINE q == run.calls
    <3>2. q \in Seq(Nat) /\ t \in Nat /\ run'.calls = Append(q, t)
      BY <1>1, <1>3
    <3> HIDE DEF q
    <3>3. /\ Cardinality(CallsOf(q, u)) \in Nat
          /\ Cardinality(CallsOf(Append(q, t), u))
               = Cardinality(CallsOf(q, u)) + (IF u = t THEN 1 ELSE 0)
      BY <3>1, <3>2, OneCallMore
    <3> QED BY <3>1, <3>2, <3>3 DEF q
  <2>2. CASE u < t
    <3>1. u \in 1 .. t /\ u < run'.target /\ u # t
      BY <1>1, <1>5, <2>1, <2>2
    <3> QED BY <1>9, <2>1, <2>2, <3>1
  <2>3. CASE u = t
    <3>1. Cardinality(CallsOf(run.calls, u)) = run.attempt
      BY <1>1, <1>9, <2>3
    <3> QED BY <1>1, <1>3, <2>1, <2>3, <3>1 DEF Chain!LastAttempt, t
  <2>4. CASE u > t
    <3>1. Chain!LastAttempt /\ u = t + 1 /\ run'.attempt = 0 /\ u = run'.target
      BY <1>1, <1>3, <1>5, <2>1, <2>4
    <3>2. CallsOf(run.calls, u) = {}
      BY <1>1, <1>6, <2>4, <2>1 DEF CallsOf
    <3>3. Cardinality(CallsOf(run.calls, u)) = 0 /\ u # t /\ ~(u < run'.target)
      <4>1. Cardinality(CallsOf(run.calls, u)) = 0
        BY <3>2, FS_EmptySet
      <4>2. u # t /\ ~(u < run'.target)
        BY <1>1, <2>1, <2>4, <3>1
      <4> QED BY <4>1, <4>2
    <3> QED BY <2>1, <3>1, <3>3
  <2> QED BY <1>1, <2>1, <2>2, <2>3, <2>4
<1>11. ExecutionInOrder'
  <2>1. \A k \in DOMAIN run'.calls : run'.calls[k] <= run'.target
    BY <1>1, <1>5, <1>6, <1>7
  <2> QED BY <1>2, <1>3, <1>4, <1>5, <1>6, <1>8, <1>10, <2>1 DEF ExecutionInOrder
<1>12. \A b \in Chain!Artifacts : OneTogether(b)'
  BY <1>4 DEF ChainInv, OneTogether
<1>13. RefusedStep
  <2> SUFFICES ASSUME NEW b \in refused PROVE run'.art # b /\ art'[b] # "READY"
    BY DEF RefusedStep
  <2>1. b \in Chain!Artifacts /\ OneTogether(b)
    BY DEF ChainInv
  <2> QED BY <1>4, <2>1 DEF OneTogether
<1> QED BY <1>11, <1>12, <1>13 DEF ChainInv

LEMMA CallChain ==
  ASSUME ChainInv, NEW f \in CallEnds, NEW time \in 0 .. 1, Chain!Call(f, time)
  PROVE  ChainInv' /\ RefusedStep
<1> DEFINE left == IF time > run.left THEN 0 ELSE run.left - time
<1>1. run.art # 0 /\ Chain!Validated(run.art) /\ UNCHANGED <<config, restarts>>
      /\ left \in 0 .. CallTime
  <2>1. run.art # 0 /\ Chain!Validated(run.art) /\ UNCHANGED <<config, restarts>>
    BY DEF Chain!Call
  <2>2. CallTime \in Nat /\ run.left \in 0 .. CallTime
    BY ChainConstants DEF ChainInv, ExecutionInOrder, Executions
  <2>3. left \in 0 .. CallTime
    BY <2>2
  <2> QED BY <2>1, <2>3
<1>2. refused' = IF f \notin {Chain!Good, Chain!NoAudioRoute} /\ ~f.retryable
                 THEN refused \cup {run.art} ELSE refused
  BY DEF Chain!Call
<1>3. f \notin {Chain!Good, Chain!NoAudioRoute}
      /\ ~f.retryable => ~Chain!Eligible(f) /\ ~Chain!HandlerRetries(f.kind) /\ f # Chain!Unreached
  BY RefusedEnds
<1>4. CASE left = 0 /\ f # Chain!Unreached
  <2>1. Chain!PermanentEnds(run.art, "deadline") /\ run' = Chain!Idle
    BY <1>4 DEF Chain!Call
  <2>2. ~Chain!HandlerRetries("deadline")
    BY DEF Chain!HandlerRetries
  <2> QED BY <1>1, <1>2, <2>1, <2>2, PermanentEndsChain
<1>5. CASE ~(left = 0 /\ f # Chain!Unreached) /\ f = Chain!Good
  <2>1. Chain!SuccessEnds(run.art) /\ run' = Chain!Idle
    BY <1>5 DEF Chain!Call
  <2> QED BY <1>1, <1>2, <1>5, <2>1, SuccessEndsChain
<1>6. CASE ~(left = 0 /\ f # Chain!Unreached) /\ f # Chain!Good /\ ~Chain!Eligible(f)
  <2>1. Chain!PermanentEnds(run.art, f.kind) /\ run' = Chain!Idle
    BY <1>6 DEF Chain!Call
  <2> QED BY <1>1, <1>2, <1>3, <2>1, PermanentEndsChain
<1>7. CASE ~(left = 0 /\ f # Chain!Unreached) /\ f # Chain!Good /\ Chain!Eligible(f)
  <2>0. refused' = refused
    BY <1>2, <1>3, <1>7
  <2>1. CASE Chain!LastAttempt /\ Chain!LastTarget
    <3>1. Chain!ExhaustedEnds(run.art) /\ run' = Chain!Idle
      BY <1>7, <2>1 DEF Chain!Call
    <3> QED BY <1>1, <2>0, <3>1, ExecutionRuns, ExhaustedEndsChain
  <2>2. CASE ~(Chain!LastAttempt /\ Chain!LastTarget)
    <3>1. run' = Chain!Advance(left, Append(run.calls, run.target)) /\ UNCHANGED <<art, job>>
      BY <1>7, <2>2 DEF Chain!Call
    <3> HIDE DEF left
    <3> QED BY <1>1, <2>0, <2>2, <3>1, AdvanceChain
  <2> QED BY <2>1, <2>2
<1> QED BY <1>4, <1>5, <1>6, <1>7

LEMMA EarlyEndsChain ==
  ASSUME ChainInv, Chain!ChainChanged \/ Chain!OutOfTime
  PROVE  ChainInv' /\ RefusedStep
BY PermanentEndsChain DEF Chain!ChainChanged, Chain!OutOfTime

\* Nothing is said of the refused but by their own jobs.
LEMMA RefusedRest ==
  ASSUME ChainInv, UNCHANGED art,
         \A b \in Chain!Artifacts :
           run'.art = b => run.art = b \/ job[b].status # "FAILED_PERMANENT"
  PROVE  RefusedStep
<1> SUFFICES ASSUME NEW b \in refused PROVE run'.art # b /\ art'[b] # "READY"
  BY DEF RefusedStep
<1>1. b \in Chain!Artifacts /\ OneTogether(b)
  BY DEF ChainInv
<1> QED BY <1>1 DEF OneTogether

LEMMA CreateChain ==
  ASSUME ChainInv, NEW a \in Chain!Artifacts, Chain!Create(a)
  PROVE  ChainInv' /\ RefusedStep
<1>1. art[a] = "NONE" /\ art' = [art EXCEPT ![a] = "PENDING"]
      /\ UNCHANGED <<config, job, run, refused, restarts>>
  BY DEF Chain!Create
<1>2. art' \in [Chain!Artifacts -> ArtifactEnds] /\ art'[a] = "PENDING"
      /\ \A b \in Chain!Artifacts : b # a => art'[b] = art[b]
  BY <1>1 DEF ChainInv, ArtifactEnds
<1>3. ExecutionInOrder'
  BY <1>1, SameExecution
<1>4. ASSUME NEW b \in Chain!Artifacts PROVE OneTogether(b)'
  BY <1>1, <1>2 DEF ChainInv, OneTogether
<1>5. RefusedStep
  <2> SUFFICES ASSUME NEW b \in refused PROVE run'.art # b /\ art'[b] # "READY"
    BY DEF RefusedStep
  <2>1. b \in Chain!Artifacts /\ OneTogether(b)
    BY DEF ChainInv
  <2> QED BY <1>1, <1>2, <2>1 DEF OneTogether
<1> QED BY <1>1, <1>2, <1>3, <1>4, <1>5 DEF ChainInv

LEMMA ClaimChain ==
  ASSUME ChainInv, NEW a \in Chain!Artifacts, Chain!Claim(a)
  PROVE  ChainInv' /\ RefusedStep
<1>1. run.art = 0 /\ job[a].status \in {"PENDING", "RETRY_WAIT"}
      /\ job' = [job EXCEPT ![a] = [job[a] EXCEPT !.status = "LEASED", !.attempts = @ + 1]]
      /\ run' = [Chain!Idle EXCEPT !.art = a] /\ UNCHANGED <<config, art, refused, restarts>>
  BY DEF Chain!Claim, Chain!Due
<1>2. job[a] \in TtsRows /\ OneTogether(a) /\ config \in Chains
  BY DEF ChainInv
<1>3. job[a].attempts + 1 \in 0 .. SpeechAttempts
  BY <1>1, <1>2, ChainConstants DEF OneTogether, TtsRows
<1>4. job' \in [Chain!Artifacts -> TtsRows] /\ job'[a].status = "LEASED"
      /\ \A b \in Chain!Artifacts : b # a => job'[b] = job[b]
  BY <1>1, <1>2, <1>3 DEF ChainInv, TtsRows
<1>5. run'.art = a /\ run'.target = 1 /\ run'.attempt = 0 /\ run'.calls = <<>>
      /\ run' \in Executions /\ a # 0
  <2>1. Chain!Idle \in Executions /\ a \in 0 .. Spoken /\ a # 0
    BY ChainConstants DEF Chain!Idle, Executions, Chain!Artifacts
  <2>2. run'.target = 1 /\ run'.attempt = 0 /\ run'.calls = <<>>
    BY <1>1 DEF Chain!Idle
  <2> QED BY <1>1, <2>1, <2>2 DEF Executions
<1>6. ExecutionInOrder'
  <2>1. Len(config) \in Nat \ {0} /\ config[1] \in Nat
    BY <1>2, ChainConstants
  <2>2. Cardinality(CallsOf(<<>>, 1)) = 0
    BY FS_EmptySet DEF CallsOf
  <2> QED BY <1>1, <1>5, <2>1, <2>2 DEF ExecutionInOrder
<1>7. ASSUME NEW b \in Chain!Artifacts PROVE OneTogether(b)'
  BY <1>1, <1>2, <1>4, <1>5 DEF ChainInv, OneTogether
<1>8. RefusedStep
  BY <1>1, <1>5, RefusedRest
<1> QED BY <1>1, <1>4, <1>6, <1>7, <1>8 DEF ChainInv

LEMMA ReconcileChain ==
  ASSUME ChainInv, Chain!Reconcile
  PROVE  ChainInv' /\ RefusedStep
<1>1. run.art = 0 /\ UNCHANGED <<config, art, run, refused, restarts>> /\ config \in Chains
  BY DEF Chain!Reconcile, ChainInv
<1> DEFINE fresh == [status |-> "PENDING", frozen |-> config, attempts |-> 0]
<1>2. fresh \in TtsRows /\ fresh.status = "PENDING" /\ fresh.attempts = 0
  BY <1>1, ChainConstants DEF TtsRows
<1> HIDE DEF fresh
<1>3. \A b \in Chain!Artifacts :
        job'[b] = job[b] \/ (job'[b] = fresh /\ Chain!Listed(b) /\ job[b].status = "NONE")
  BY DEF Chain!Reconcile, fresh
<1>4. job' \in [Chain!Artifacts -> TtsRows]
  <2>1. job' = [b \in Chain!Artifacts |-> job'[b]]
    BY DEF Chain!Reconcile
  <2> QED BY <1>2, <1>3, <2>1 DEF ChainInv
<1>5. ASSUME NEW b \in Chain!Artifacts PROVE OneTogether(b)'
  BY <1>1, <1>2, <1>3, ChainConstants DEF ChainInv, OneTogether, Chain!Listed, Chain!Artifacts
<1>6. ExecutionInOrder'
  BY <1>1, SameExecution
<1>7. RefusedStep
  BY <1>1, RefusedRest
<1> QED BY <1>1, <1>4, <1>5, <1>6, <1>7 DEF ChainInv

LEMMA RestartChain ==
  ASSUME ChainInv, NEW c \in Chains, Chain!Restart(c)
  PROVE  ChainInv' /\ RefusedStep
<1>1. config' \in Chains /\ run' = Chain!Idle /\ restarts' \in 0 .. ChainStarts
      /\ UNCHANGED <<art, job, refused>>
  BY ChainConstants DEF Chain!Restart, ChainInv
<1>2. \A b \in Chain!Artifacts : run'.art # b
  BY <1>1, ChainConstants DEF Chain!Idle, Chain!Artifacts
<1>3. ExecutionInOrder'
  BY <1>1, IdleInOrder
<1>4. \A b \in Chain!Artifacts : OneTogether(b)'
  BY <1>1, <1>2 DEF ChainInv, OneTogether
<1> QED BY <1>1, <1>2, <1>3, <1>4, RefusedRest DEF ChainInv

LEMMA RecoverLeaseChain ==
  ASSUME ChainInv, NEW a \in Chain!Artifacts, Chain!RecoverLease(a)
  PROVE  ChainInv' /\ RefusedStep
BY ExhaustedEndsChain DEF Chain!RecoverLease

LEMMA RestChain ==
  ASSUME ChainInv, UNCHANGED Chain!vars
  PROVE  ChainInv' /\ RefusedStep
<1>1. ExecutionInOrder'
  BY SameExecution DEF Chain!vars
<1> QED BY <1>1, RefusedRest DEF Chain!vars, ChainInv, OneTogether

LEMMA NextChain ==
  ChainInv /\ [Chain!Next]_Chain!vars => ChainInv' /\ RefusedStep
<1> SUFFICES ASSUME ChainInv, [Chain!Next]_Chain!vars PROVE ChainInv' /\ RefusedStep
  OBVIOUS
<1>1. CASE Chain!Work
  BY <1>1, EarlyEndsChain, CallChain DEF Chain!Work
<1>2. CASE Chain!Reconcile
  BY <1>2, ReconcileChain
<1>3. ASSUME NEW a \in Chain!Artifacts, Chain!Create(a) \/ Chain!Claim(a) \/ Chain!RecoverLease(a)
      PROVE  ChainInv' /\ RefusedStep
  BY <1>3, CreateChain, ClaimChain, RecoverLeaseChain
<1>4. ASSUME NEW c \in Chains, Chain!Restart(c) PROVE ChainInv' /\ RefusedStep
  BY <1>4, RestartChain
<1>5. CASE UNCHANGED Chain!vars
  BY <1>5, RestChain
<1> QED BY <1>1, <1>2, <1>3, <1>4, <1>5 DEF Chain!Next

LEMMA ChainHolds == Chain!Spec => []ChainInv
BY InitChain, NextChain, PTL DEF Chain!Spec

-----------------------------------------------------------------------------
(* The providers of a recording.                                           *)

\* The rows and the memories of AsrFallback.
AskedEntries == [index: DOMAIN Order, generation: 1 .. Fallback!MaxGeneration, answer: Fallback!Answers]

\* How often n attempts raise the generation at most.
SpentBy(n) == n * Len(Order)

LEMMA OrderType == Len(Order) \in Nat /\ DOMAIN Order = 1 .. Len(Order)
BY FallbackConstants

LEMMA SpentMore ==
  ASSUME NEW n \in Nat
  PROVE  SpentBy(n) \in Nat /\ SpentBy(n + 1) = SpentBy(n) + Len(Order)
<1> DEFINE l == Len(Order)
<1>1. l \in Nat
  BY OrderType
<1>2. n * l \in Nat /\ (n + 1) * l = n * l + l
  BY <1>1, SMT
<1> QED BY <1>2 DEF SpentBy

LEMMA SpentEnough ==
  ASSUME NEW n \in 0 .. AsrAttempts
  PROVE  SpentBy(n) <= Fallback!MaxGeneration /\ Fallback!MaxGeneration \in Nat
<1> DEFINE l == Len(Order)
<1>1. l \in Nat
  BY OrderType
<1>2. AsrAttempts - n \in Nat
  BY FallbackConstants
<1>3. AsrAttempts * l = n * l + (AsrAttempts - n) * l /\ (AsrAttempts - n) * l \in Nat
      /\ n * l \in Nat
  BY <1>1, <1>2, FallbackConstants
<1> QED BY <1>3 DEF SpentBy, Fallback!MaxGeneration

AsrJobs == [phase: {"OPEN", "SUCCEEDED", "FAILED"}, attempts: 0 .. AsrAttempts,
            by: Worker \cup {Fallback!Nobody}]
Hearers == [step: {"idle", "read", "stage", "ask", "commit", "raise", "giveup", "done"},
          index: 0..Len(Order), generation: 0 .. Fallback!MaxGeneration, answer: Fallback!Answers]
Recordings == [generation: 0 .. Fallback!MaxGeneration, stage: 0 .. Len(Order), taken: BOOLEAN,
               outcome: {"none", "VALID_TRANSCRIPT", "NO_SPEECH", "PROVIDER_ERROR"},
               final: {"none", "asr", "no_speech"}, route: BOOLEAN]

LEMMA FallbackTypes == Fallback!TypeOK <=>
  /\ recording \in Recordings /\ asrJob \in AsrJobs /\ hearer \in [Worker -> Hearers]
  /\ mishaps \in 0 .. AsrFaults
  /\ \A i \in DOMAIN asked : asked[i] \in AskedEntries
BY DEF Fallback!TypeOK, Recordings, AsrJobs, Hearers, AskedEntries

LEMMA FallbackTypesNext == Fallback!TypeOK' <=>
  /\ recording' \in Recordings /\ asrJob' \in AsrJobs /\ hearer' \in [Worker -> Hearers]
  /\ mishaps' \in 0 .. AsrFaults
  /\ \A i \in DOMAIN asked' : asked'[i] \in AskedEntries
BY DEF Fallback!TypeOK, Recordings, AsrJobs, Hearers, AskedEntries

\* What the worker that holds the claim knows.
AskingSteps == {"stage", "ask", "commit"}
HearerKnows(w) ==
  LET it == hearer[w]
      before == SpentBy(asrJob.attempts - 1)
  IN
  /\ asrJob.attempts > 0
  /\ it.step = "read" => recording.generation <= before
  /\ it.step \in AskingSteps \cup {"raise"} =>
       recording.outcome = "none" /\ recording.final = "none"
  /\ it.step \in AskingSteps =>
       /\ it.index > 0 /\ it.generation = recording.generation
       /\ recording.generation <= before + (IF it.step = "stage" THEN it.index - 1 ELSE it.index)
       /\ it.index > 1 => /\ asked # <<>>
                          /\ Fallback!Last(asked).index = it.index - 1
                          /\ Fallback!Last(asked).answer \in {"failing", "error"}
  /\ it.step \in {"ask", "commit"} =>
       /\ recording.generation > 0
       /\ \A i \in DOMAIN asked : asked[i].generation < recording.generation
  /\ it.step = "giveup" /\ recording.outcome = "none" =>
       Order = <<>> \/ asrJob.attempts = AsrAttempts
  /\ it.step = "done" => recording.final # "none" \/ recording.route

\* An answer after which no provider is asked.
Decided(entry) ==
  \/ entry.answer \notin {"failing", "error"}
  \/ entry.answer = "error" /\ entry.index = Len(Order)

\* The journal.
AskedTold ==
  /\ asked \in Seq(AskedEntries)
  /\ asked # <<>> /\ Decided(Fallback!Last(asked)) => recording.outcome # "none"
  /\ \A i \in DOMAIN asked : asked[i].generation <= recording.generation
  /\ Fallback!AskedInOrder

\* The turn, the job and who holds it.
RecordingTold ==
  /\ recording.generation <= SpentBy(asrJob.attempts)
  /\ recording.outcome # "none" => recording.final # "none" \/ recording.route
  /\ Fallback!SuccessIsHeard
  /\ asrJob.by # Fallback!Nobody => asrJob.phase = "OPEN"

\* An error is final while nothing was heard only when nobody is asked any more.
ErrorIsLate ==
  recording.final # "none" /\ recording.outcome = "none" =>
    \/ Order = <<>>
    \/ /\ asrJob.attempts = AsrAttempts
       /\ \A w \in Worker :
            Fallback!Fenced(w) => hearer[w].step \notin AskingSteps \cup {"read", "raise"}

\* The inductive invariant of a recording.
FallbackInv ==
  /\ Fallback!TypeOK /\ AskedTold /\ RecordingTold /\ ErrorIsLate
  /\ \A w \in Worker : Fallback!Fenced(w) => HearerKnows(w)

\* What a step of HeardStays does.
HeardStep ==
  /\ recording.final # "none" => recording'.final = recording.final
  /\ recording'.outcome # recording.outcome =>
       recording.outcome = "none" \/ (recording'.outcome = "PROVIDER_ERROR" /\ asrJob'.phase = "FAILED")


LEMMA InitFallback == Fallback!Init => FallbackInv
<1> SUFFICES ASSUME Fallback!Init PROVE FallbackInv
  OBVIOUS
<1>1. SpentBy(0) = 0 /\ Fallback!MaxGeneration \in Nat
  BY OrderType, FallbackConstants, SpentEnough DEF SpentBy
<1>2. Fallback!TypeOK
  <2>1. recording \in Recordings
    <3>1. 0 \in 0 .. Fallback!MaxGeneration /\ 0 \in 0 .. Len(Order) /\ FALSE \in BOOLEAN
      BY <1>1, OrderType
    <3> QED BY <3>1, Zenon DEF Fallback!Init, Recordings
  <2>2. asrJob \in AsrJobs
    BY FallbackConstants DEF Fallback!Init, AsrJobs
  <2>3. hearer \in [Worker -> Hearers]
    BY <1>1, OrderType DEF Fallback!Init, Hearers, Fallback!Resting, Fallback!Answers
  <2> QED BY <2>1, <2>2, <2>3, FallbackConstants, FallbackTypes DEF Fallback!Init
<1>3. asked = <<>> /\ recording.outcome = "none" /\ recording.final = "none"
      /\ asrJob.by = Fallback!Nobody /\ asrJob.phase = "OPEN"
      /\ recording.generation = 0 /\ asrJob.attempts = 0
  BY DEF Fallback!Init
<1>4. AskedTold
  BY <1>3 DEF AskedTold, Fallback!AskedInOrder, AskedEntries
<1> QED BY <1>1, <1>2, <1>3, <1>4, FallbackConstants DEF FallbackInv, RecordingTold, ErrorIsLate,
           Fallback!Fenced, Fallback!SuccessIsHeard

LEMMA SpentType ==
  ASSUME Fallback!TypeOK
  PROVE  /\ asrJob.attempts \in Nat /\ Len(Order) \in Nat /\ Fallback!MaxGeneration \in Nat
         /\ AsrAttempts \in Nat
         /\ SpentBy(asrJob.attempts) \in Nat /\ SpentBy(asrJob.attempts) <= Fallback!MaxGeneration
         /\ asrJob.attempts > 0 => /\ SpentBy(asrJob.attempts - 1) \in Nat
                                /\ SpentBy(asrJob.attempts) = SpentBy(asrJob.attempts - 1) + Len(Order)
<1>1. asrJob.attempts \in 0 .. AsrAttempts /\ asrJob.attempts \in Nat
  BY FallbackConstants DEF Fallback!TypeOK
<1>2. ASSUME asrJob.attempts > 0 PROVE SpentBy(asrJob.attempts - 1) \in Nat
             /\ SpentBy(asrJob.attempts) = SpentBy(asrJob.attempts - 1) + Len(Order)
  <2> DEFINE m == asrJob.attempts - 1
  <2>1. m \in Nat /\ m + 1 = asrJob.attempts
    BY <1>1, <1>2
  <2> HIDE DEF m
  <2>2. SpentBy(m) \in Nat /\ SpentBy(m + 1) = SpentBy(m) + Len(Order)
    BY <2>1, SpentMore
  <2> QED BY <2>1, <2>2 DEF m
<1> QED BY <1>1, <1>2, SpentMore, SpentEnough, OrderType, FallbackConstants

\* The journal that is left alone still tells the same.
LEMMA AskedRests ==
  ASSUME FallbackInv, Fallback!TypeOK', asked' = asked,
         recording'.generation >= recording.generation,
         recording'.outcome = recording.outcome \/ recording'.outcome = "PROVIDER_ERROR"
  PROVE  AskedTold'
<1>1. recording.generation \in Nat /\ recording'.generation \in Nat
  BY SpentType DEF FallbackInv, Fallback!TypeOK
<1>2. \A i \in DOMAIN asked : asked[i].generation \in Nat
  BY SpentType DEF FallbackInv, Fallback!TypeOK
<1> QED BY <1>1, <1>2 DEF FallbackInv, AskedTold, Fallback!AskedInOrder, Decided, AskedEntries,
           Fallback!MaxGeneration

\* A worker moves on, alone.
LEMMA HearerMoves ==
  ASSUME FallbackInv, Fallback!TypeOK', UNCHANGED <<recording, asked, asrJob>>, NEW w \in Worker,
         \A v \in Worker : v # w => hearer'[v] = hearer[v],
         Fallback!Fenced(w) => HearerKnows(w)',
         Fallback!Fenced(w) /\ recording.final # "none" /\ recording.outcome = "none" =>
            Order = <<>> \/ hearer'[w].step \notin AskingSteps \cup {"read", "raise"}
  PROVE  FallbackInv' /\ HeardStep
<1>1. AskedTold'
  BY SpentType, AskedRests DEF FallbackInv, Fallback!TypeOK
<1>2. RecordingTold'
  BY DEF FallbackInv, RecordingTold, Fallback!SuccessIsHeard
<1>3. ErrorIsLate'
  BY DEF FallbackInv, ErrorIsLate, Fallback!Fenced
<1>4. ASSUME NEW v \in Worker, Fallback!Fenced(v)' PROVE HearerKnows(v)'
  <2>1. CASE v = w
    BY <1>4, <2>1 DEF Fallback!Fenced
  <2>2. CASE v # w
    BY <1>4, <2>2 DEF Fallback!Fenced, HearerKnows, FallbackInv
  <2> QED BY <2>1, <2>2
<1> QED BY <1>1, <1>2, <1>3, <1>4 DEF FallbackInv, HeardStep

\* The claim is given back or taken away, or the job ends.
LEMMA AsrClaimGoes ==
  ASSUME FallbackInv, Fallback!TypeOK', UNCHANGED asked, asrJob'.by = Fallback!Nobody,
         asrJob'.attempts = asrJob.attempts,
         RecordingTold', recording'.generation = recording.generation,
         recording'.final # "none" /\ recording'.outcome = "none" =>
           recording.final # "none" /\ recording.outcome = "none",
         recording'.outcome = recording.outcome \/ recording'.outcome = "PROVIDER_ERROR"
  PROVE  FallbackInv'
<1>1. AskedTold'
  BY SpentType, AskedRests DEF FallbackInv, Fallback!TypeOK
<1>2. \A v \in Worker : ~Fallback!Fenced(v)'
  BY FallbackConstants DEF Fallback!Fenced
<1>3. ErrorIsLate'
  BY <1>2 DEF FallbackInv, ErrorIsLate
<1> QED BY <1>1, <1>2, <1>3 DEF FallbackInv

LEMMA ClaimFallback ==
  ASSUME FallbackInv, NEW w \in Worker, Fallback!Claim(w)
  PROVE  FallbackInv' /\ HeardStep
<1>2. /\ hearer' = [hearer EXCEPT ![w].step = "read"]
      /\ asrJob' = [asrJob EXCEPT !.attempts = @ + 1, !.by = w]
      /\ UNCHANGED <<recording, asked, mishaps>>
      /\ asrJob.by = Fallback!Nobody /\ asrJob.phase = "OPEN"
      /\ asrJob.attempts < AsrAttempts
  BY DEF Fallback!Claim, Fallback!GoTo
<1>0. asrJob \in [phase: {"OPEN", "SUCCEEDED", "FAILED"}, attempts: 0 .. AsrAttempts,
                  by: Worker \cup {Fallback!Nobody}]
      /\ recording.generation \in Nat /\ Fallback!TypeOK /\ asrJob.attempts \in Nat
  BY SpentType DEF FallbackInv, Fallback!TypeOK
<1>3. Fallback!TypeOK' /\ asrJob'.attempts = asrJob.attempts + 1 /\ asrJob'.by = w
      /\ asrJob'.phase = "OPEN"
  <2>1. asrJob' \in AsrJobs /\ asrJob'.attempts = asrJob.attempts + 1 /\ asrJob'.by = w
        /\ asrJob'.phase = "OPEN"
    <3>1. asrJob.attempts + 1 \in 0 .. AsrAttempts
      BY <1>0, <1>2, FallbackConstants
    <3>2. w \in Worker \cup {Fallback!Nobody}
      OBVIOUS
    <3> QED BY <1>0, <1>2, <3>1, <3>2 DEF AsrJobs
  <2>2. hearer' \in [Worker -> Hearers]
    BY <1>0, <1>2, FallbackTypes DEF Hearers
  <2> QED BY <1>0, <1>2, <2>1, <2>2, FallbackTypes, FallbackTypesNext
<1>1. SpentBy(asrJob'.attempts - 1) = SpentBy(asrJob.attempts)
      /\ SpentBy(asrJob'.attempts) = SpentBy(asrJob.attempts) + Len(Order)
      /\ SpentBy(asrJob.attempts) \in Nat /\ Len(Order) \in Nat
  <2>1. asrJob'.attempts - 1 = asrJob.attempts
    BY <1>0, <1>3
  <2> QED BY <1>0, <1>3, <2>1, SpentType, SpentMore
<1>4. \A v \in Worker : Fallback!Fenced(v)' => v = w
  BY <1>3 DEF Fallback!Fenced
<1>5. HearerKnows(w)'
  <2>1. hearer'[w].step = "read" /\ recording'.generation <= SpentBy(asrJob'.attempts - 1)
    BY <1>0, <1>1, <1>2 DEF FallbackInv, RecordingTold, Fallback!TypeOK
  <2> QED BY <1>0, <1>3, <2>1 DEF HearerKnows, AskingSteps
<1>6. AskedTold'
  BY <1>0, <1>2, <1>3, AskedRests
<1>7. recording.final # "none" /\ recording.outcome = "none" => Order = <<>>
  BY <1>2, FallbackConstants, <1>0 DEF FallbackInv, ErrorIsLate
<1>8. recording'.generation <= SpentBy(asrJob'.attempts)
  BY <1>0, <1>1, <1>2 DEF FallbackInv, RecordingTold
<1>9. RecordingTold'
  BY <1>2, <1>3, <1>8 DEF FallbackInv, RecordingTold, Fallback!SuccessIsHeard
<1>10. ErrorIsLate'
  BY <1>2, <1>7 DEF ErrorIsLate
<1> QED BY <1>2, <1>3, <1>4, <1>5, <1>6, <1>9, <1>10 DEF HeardStep, FallbackInv

\* What the failure for good makes of turn and job.
LEMMA FailForGoodFallback ==
  ASSUME FallbackInv, Fallback!FailForGood, UNCHANGED asked, mishaps' \in 0 .. AsrFaults,
         hearer' \in [Worker -> Hearers] \/ hearer' = hearer
  PROVE  FallbackInv' /\ HeardStep
<1>1. asrJob' = [asrJob EXCEPT !.phase = "FAILED", !.by = Fallback!Nobody]
  BY DEF Fallback!FailForGood
<1>2. \/ recording' = recording
      \/ /\ recording.final = "none"
         /\ recording' = [recording EXCEPT !.final = "asr", !.outcome = "PROVIDER_ERROR"]
  BY DEF Fallback!FailForGood
<1>3. recording.final = "none" => recording'.final = "asr" /\ recording'.outcome = "PROVIDER_ERROR"
  BY DEF Fallback!FailForGood, FallbackInv, Fallback!TypeOK
<1>4. Fallback!TypeOK'
  <2>1. asrJob' \in AsrJobs
    BY <1>1, FallbackTypes DEF FallbackInv, AsrJobs
  <2>2. recording' \in Recordings
    BY <1>2, FallbackTypes DEF FallbackInv, Recordings
  <2> QED BY <2>1, <2>2, FallbackTypes, FallbackTypesNext DEF FallbackInv
<1>5. RecordingTold'
  BY <1>1, <1>2, <1>3 DEF FallbackInv, Fallback!TypeOK, RecordingTold, Fallback!SuccessIsHeard
<1>6. asrJob'.by = Fallback!Nobody /\ asrJob'.attempts = asrJob.attempts
      /\ recording'.generation = recording.generation
  BY <1>1, <1>2 DEF FallbackInv, Fallback!TypeOK
<1>7. FallbackInv'
  BY <1>2, <1>3, <1>4, <1>5, <1>6, AsrClaimGoes DEF FallbackInv, Fallback!TypeOK
<1>8. HeardStep
  BY <1>1, <1>2, <1>3 DEF FallbackInv, Fallback!TypeOK, HeardStep
<1> QED BY <1>7, <1>8

LEMMA ExpiresFallback ==
  ASSUME FallbackInv, Fallback!Expires
  PROVE  FallbackInv' /\ HeardStep
BY FailForGoodFallback, FallbackTypes DEF Fallback!Expires, FallbackInv

LEMMA LapsesFallback ==
  ASSUME FallbackInv, Fallback!Lapses
  PROVE  FallbackInv' /\ HeardStep
<1>0. mishaps' \in 0 .. AsrFaults
  BY FallbackConstants DEF Fallback!Lapses, Fallback!Fault, FallbackInv, Fallback!TypeOK
<1>1. CASE asrJob.attempts < AsrAttempts
  <2>1. asrJob' = [asrJob EXCEPT !.by = Fallback!Nobody] /\ UNCHANGED <<recording, asked, hearer>>
    BY <1>1 DEF Fallback!Lapses
  <2>2. asrJob' \in AsrJobs /\ asrJob'.by = Fallback!Nobody /\ asrJob'.attempts = asrJob.attempts
        /\ asrJob'.phase = asrJob.phase
    BY <2>1, FallbackTypes DEF AsrJobs, FallbackInv
  <2>3. Fallback!TypeOK'
    BY <1>0, <2>1, <2>2, FallbackTypes, FallbackTypesNext DEF FallbackInv
  <2>4. RecordingTold'
    BY <2>1, <2>2 DEF FallbackInv, RecordingTold, Fallback!SuccessIsHeard
  <2>5. FallbackInv'
    BY <2>1, <2>2, <2>3, <2>4, AsrClaimGoes
  <2> QED BY <2>1, <2>5 DEF HeardStep
<1>2. CASE ~(asrJob.attempts < AsrAttempts)
  <2>1. Fallback!FailForGood /\ UNCHANGED <<asked, hearer>>
    BY <1>2 DEF Fallback!Lapses
  <2> QED BY <1>0, <2>1, FailForGoodFallback
<1> QED BY <1>1, <1>2

LEMMA RestingType == Fallback!Resting \in Hearers
<1>1. 0 \in 0..Fallback!MaxGeneration /\ 0 \in 0..Len(Order)
  BY FallbackConstants, OrderType, SpentEnough
<1> QED BY <1>1 DEF Fallback!Resting, Hearers, Fallback!Answers

LEMMA DiesFallback ==
  ASSUME FallbackInv, NEW w \in Worker, Fallback!Dies(w) \/ Fallback!GivesWay(w)
  PROVE  FallbackInv' /\ HeardStep
<1>1. hearer' = [hearer EXCEPT ![w] = Fallback!Resting] /\ UNCHANGED <<recording, asked, asrJob>>
  BY DEF Fallback!Dies, Fallback!GivesWay, Fallback!Rests
<1>2. mishaps' \in 0 .. AsrFaults
  BY FallbackConstants DEF Fallback!Dies, Fallback!GivesWay, Fallback!Fault, FallbackInv,
     Fallback!TypeOK
<1>3. Fallback!TypeOK'
  BY <1>1, <1>2, FallbackTypes, FallbackTypesNext, RestingType DEF FallbackInv
<1>4. hearer'[w] = Fallback!Resting /\ \A v \in Worker : v # w => hearer'[v] = hearer[v]
  BY <1>1 DEF FallbackInv, Fallback!TypeOK
<1>5. Fallback!Fenced(w) => HearerKnows(w)'
  BY <1>1, <1>4 DEF FallbackInv, HearerKnows, Fallback!Resting, AskingSteps
<1> QED BY <1>1, <1>3, <1>4, <1>5, HearerMoves DEF Fallback!Resting, AskingSteps

LEMMA CompleteFallback ==
  ASSUME FallbackInv, NEW w \in Worker, Fallback!Complete(w)
  PROVE  FallbackInv' /\ HeardStep
<1>1. asrJob' = [asrJob EXCEPT !.phase = "SUCCEEDED", !.by = Fallback!Nobody]
      /\ hearer' = [hearer EXCEPT ![w] = Fallback!Resting]
      /\ UNCHANGED <<recording, asked, mishaps>>
  BY DEF Fallback!Complete, Fallback!Rests
<1>2. asrJob' \in AsrJobs /\ asrJob'.by = Fallback!Nobody /\ asrJob'.attempts = asrJob.attempts
      /\ asrJob'.phase = "SUCCEEDED"
  BY <1>1, FallbackTypes DEF AsrJobs, FallbackInv
<1>3. Fallback!TypeOK'
  BY <1>1, <1>2, FallbackTypes, FallbackTypesNext, RestingType DEF FallbackInv
<1>4. recording.final # "none" \/ recording.route
  BY DEF Fallback!Complete, Fallback!At, FallbackInv, HearerKnows
<1>5. RecordingTold'
  BY <1>1, <1>2, <1>4 DEF FallbackInv, RecordingTold, Fallback!SuccessIsHeard
<1> QED BY <1>1, <1>2, <1>3, <1>5, AsrClaimGoes DEF HeardStep

LEMMA ReadFallback ==
  ASSUME FallbackInv, NEW w \in Worker, Fallback!Read(w)
  PROVE  FallbackInv' /\ HeardStep
<1> DEFINE x == [hearer[w] EXCEPT !.step = IF recording.outcome # "none" THEN "done"
                                   ELSE IF Order = <<>> THEN "giveup" ELSE "stage",
                  !.index = IF Order = <<>> THEN 0 ELSE 1, !.generation = recording.generation]
<1>1. hearer' = [hearer EXCEPT ![w] = x] /\ UNCHANGED <<recording, asked, asrJob, mishaps>>
      /\ hearer[w].step = "read" /\ Fallback!Fenced(w)
  BY DEF Fallback!Read, Fallback!At
<1>2. hearer[w] \in Hearers /\ recording \in Recordings
  BY FallbackTypes DEF FallbackInv
<1>3. Order # <<>> => 1 \in 0 .. Len(Order)
  BY OrderType, FallbackConstants
<1>4. 0 \in 0 .. Len(Order)
  BY OrderType
<1>5. /\ x.step = (IF recording.outcome # "none" THEN "done"
                   ELSE IF Order = <<>> THEN "giveup" ELSE "stage")
      /\ x.index = (IF Order = <<>> THEN 0 ELSE 1)
      /\ x.generation = recording.generation
      /\ x \in Hearers
  BY <1>2, <1>3, <1>4 DEF Hearers, Recordings
<1> HIDE DEF x
<1>6. Fallback!TypeOK' /\ hearer'[w] = x /\ \A v \in Worker : v # w => hearer'[v] = hearer[v]
  BY <1>1, <1>5, FallbackTypes, FallbackTypesNext DEF FallbackInv
<1>7. HearerKnows(w)'
  <2>1. HearerKnows(w) /\ recording.generation \in Nat
    BY <1>1, SpentType DEF FallbackInv, Fallback!TypeOK
  <2>2. x.step = "stage" => recording.outcome = "none" /\ recording.final = "none"
    BY <1>1, <1>5 DEF FallbackInv, ErrorIsLate
  <2>3. recording.generation <= SpentBy(asrJob.attempts - 1) /\ asrJob.attempts > 0
    BY <1>1, <2>1 DEF HearerKnows
  <2>4. x.step \in AskingSteps => x.step = "stage" /\ x.index = 1
    BY <1>5 DEF AskingSteps
  <2>5. SpentBy(asrJob.attempts - 1) \in Nat
    BY <2>3, SpentType DEF FallbackInv
  <2>6. x.step = "done" => recording.final # "none" \/ recording.route
    BY <1>5 DEF FallbackInv, RecordingTold
  <2> QED BY <1>1, <1>5, <1>6, <2>1, <2>2, <2>3, <2>4, <2>5, <2>6 DEF HearerKnows
<1>8. recording.final # "none" /\ recording.outcome = "none" => Order = <<>>
  BY <1>1 DEF FallbackInv, ErrorIsLate
<1> QED BY <1>1, <1>6, <1>7, <1>8, HearerMoves

LEMMA UnsupportedFallback ==
  ASSUME FallbackInv, NEW w \in Worker, Fallback!Unsupported(w)
  PROVE  FallbackInv' /\ HeardStep
<1>1. hearer' \in [Worker -> Hearers]
  BY FallbackTypes, RestingType DEF FallbackInv, Fallback!Unsupported, Fallback!Rests
<1> QED BY <1>1, FailForGoodFallback, FallbackTypes DEF Fallback!Unsupported, FallbackInv

LEMMA AskFallback ==
  ASSUME FallbackInv, NEW w \in Worker, Fallback!Ask(w)
  PROVE  FallbackInv' /\ HeardStep
<1>1. PICK a \in Fallback!Answers :
        hearer' = [hearer EXCEPT ![w] = [hearer[w] EXCEPT !.step = "commit", !.answer = a]]
  BY DEF Fallback!Ask, Fallback!Answers
<1>2. UNCHANGED <<recording, asked, asrJob, mishaps>> /\ hearer[w].step = "ask"
  BY DEF Fallback!Ask, Fallback!At
<1> DEFINE x == [hearer[w] EXCEPT !.step = "commit", !.answer = a]
<1>3. x \in Hearers /\ x.step = "commit" /\ x.index = hearer[w].index
      /\ x.generation = hearer[w].generation
  BY FallbackTypes DEF FallbackInv, Hearers
<1> HIDE DEF x
<1>4. hearer'[w] = x /\ Fallback!TypeOK' /\ \A v \in Worker : v # w => hearer'[v] = hearer[v]
  BY <1>1, <1>2, <1>3, FallbackTypes, FallbackTypesNext DEF FallbackInv, x
<1>5. Fallback!Fenced(w) => HearerKnows(w)'
  BY <1>2, <1>3, <1>4 DEF FallbackInv, HearerKnows, AskingSteps
<1>6. Fallback!Fenced(w) => recording.final = "none"
  BY <1>2 DEF FallbackInv, HearerKnows, AskingSteps
<1> QED BY <1>2, <1>4, <1>5, <1>6, HearerMoves

LEMMA RaiseFallback ==
  ASSUME FallbackInv, NEW w \in Worker, Fallback!Raise(w)
  PROVE  FallbackInv' /\ HeardStep
<1>1. UNCHANGED <<recording, asked, mishaps>> /\ hearer[w].step = "raise" /\ Fallback!Fenced(w)
  BY DEF Fallback!Raise, Fallback!At
<1>2. CASE asrJob.attempts < AsrAttempts
  <2>1. asrJob' = [asrJob EXCEPT !.by = Fallback!Nobody]
        /\ hearer' = [hearer EXCEPT ![w] = Fallback!Resting]
    BY <1>2 DEF Fallback!Raise, Fallback!Rests
  <2>2. asrJob' \in AsrJobs /\ asrJob'.by = Fallback!Nobody /\ asrJob'.attempts = asrJob.attempts
        /\ asrJob'.phase = asrJob.phase
    BY <2>1, FallbackTypes DEF AsrJobs, FallbackInv
  <2>3. Fallback!TypeOK'
    BY <1>1, <2>1, <2>2, FallbackTypes, FallbackTypesNext, RestingType DEF FallbackInv
  <2>4. RecordingTold'
    BY <1>1, <2>2 DEF FallbackInv, RecordingTold, Fallback!SuccessIsHeard
  <2> QED BY <1>1, <2>2, <2>3, <2>4, AsrClaimGoes DEF HeardStep
<1>3. CASE ~(asrJob.attempts < AsrAttempts)
  <2>1. hearer' = [hearer EXCEPT ![w] = [hearer[w] EXCEPT !.step = "giveup"]] /\ UNCHANGED asrJob
    BY <1>3 DEF Fallback!Raise, Fallback!GoTo
  <2>2. [hearer[w] EXCEPT !.step = "giveup"] \in Hearers
    BY FallbackTypes DEF FallbackInv, Hearers
  <2>3. Fallback!TypeOK' /\ hearer'[w].step = "giveup"
        /\ \A v \in Worker : v # w => hearer'[v] = hearer[v]
    BY <1>1, <2>1, <2>2, FallbackTypes, FallbackTypesNext DEF FallbackInv, Fallback!TypeOK
  <2>4. asrJob.attempts = AsrAttempts
    BY <1>3, SpentType DEF FallbackInv, Fallback!TypeOK
  <2>5. HearerKnows(w)'
    BY <1>1, <2>1, <2>3, <2>4 DEF FallbackInv, HearerKnows, AskingSteps
  <2> QED BY <1>1, <2>1, <2>3, <2>5, HearerMoves DEF AskingSteps
<1> QED BY <1>2, <1>3

LEMMA OneHearer ==
  ASSUME NEW w \in Worker, Fallback!Fenced(w), NEW v \in Worker, v # w
  PROVE  ~Fallback!Fenced(v)
BY DEF Fallback!Fenced

LEMMA SetStageFallback ==
  ASSUME FallbackInv, NEW w \in Worker, Fallback!SetStage(w)
  PROVE  FallbackInv' /\ HeardStep
<1>1. HearerKnows(w) /\ hearer[w].step = "stage" /\ Fallback!Fenced(w)
      /\ UNCHANGED <<asked, asrJob, mishaps>>
  BY DEF Fallback!SetStage, Fallback!At, FallbackInv
<1> DEFINE x == [hearer[w] EXCEPT !.step = "ask", !.generation = @ + 1]
<1>2. /\ recording' = [recording EXCEPT !.generation = @ + 1, !.stage = hearer[w].index]
      /\ hearer' = [hearer EXCEPT ![w] = x]
  BY <1>1 DEF Fallback!SetStage, HearerKnows, AskingSteps
<1>3. hearer[w] \in Hearers /\ recording \in Recordings /\ asrJob \in AsrJobs
  BY FallbackTypes DEF FallbackInv
<1>4. recording.generation \in Nat /\ hearer[w].index \in 0 .. Len(Order)
      /\ hearer[w].index \in Nat /\ hearer[w].generation = recording.generation
  BY <1>1, <1>3, SpentType, OrderType DEF FallbackInv, HearerKnows, AskingSteps, Recordings,
     Hearers
<1>5. /\ recording.generation + 1 <= SpentBy(asrJob.attempts - 1) + hearer[w].index
      /\ recording.generation + 1 <= SpentBy(asrJob.attempts)
      /\ recording.generation + 1 \in 0 .. Fallback!MaxGeneration
  <2>1. recording.generation <= SpentBy(asrJob.attempts - 1) + (hearer[w].index - 1)
        /\ asrJob.attempts > 0
    BY <1>1 DEF HearerKnows, AskingSteps
  <2> DEFINE b == SpentBy(asrJob.attempts - 1)
             l == Len(Order)
             g == recording.generation
             k == hearer[w].index
  <2>2. b \in Nat /\ l \in Nat /\ Fallback!MaxGeneration \in Nat
        /\ SpentBy(asrJob.attempts) = b + l /\ b + l <= Fallback!MaxGeneration
    BY <2>1, SpentType DEF FallbackInv
  <2>3. g \in Nat /\ k \in Nat /\ k <= l /\ g <= b + (k - 1)
    BY <1>4, <2>1, <2>2
  <2> HIDE DEF b, l, g, k
  <2>4. g + 1 <= b + k /\ g + 1 <= b + l /\ g + 1 \in 0 .. Fallback!MaxGeneration
    BY <2>2, <2>3
  <2> QED BY <2>2, <2>4 DEF b, l, g, k
<1>6. recording' \in Recordings /\ recording'.generation = recording.generation + 1
      /\ recording'.outcome = recording.outcome /\ recording'.final = recording.final
      /\ recording'.route = recording.route
  BY <1>2, <1>3, <1>4, <1>5 DEF Recordings
<1>7. x \in Hearers /\ x.step = "ask" /\ x.index = hearer[w].index
      /\ x.generation = recording.generation + 1
  BY <1>3, <1>4, <1>5 DEF Hearers
<1> HIDE DEF x
<1>8. Fallback!TypeOK' /\ hearer'[w] = x
  BY <1>1, <1>2, <1>3, <1>6, <1>7, FallbackTypes, FallbackTypesNext DEF FallbackInv
<1>9. AskedTold'
  BY <1>1, <1>4, <1>6, <1>8, AskedRests
<1>10. RecordingTold'
  BY <1>1, <1>5, <1>6 DEF FallbackInv, RecordingTold, Fallback!SuccessIsHeard
<1>11. ErrorIsLate' /\ HeardStep
  BY <1>1, <1>6 DEF HearerKnows, AskingSteps, ErrorIsLate, HeardStep
<1>12. HearerKnows(w)'
  <2>1. \A i \in DOMAIN asked : asked[i].generation < recording'.generation
    <3>1. \A i \in DOMAIN asked : asked[i].generation <= recording.generation /\ asked[i].generation \in Nat
      BY SpentType DEF FallbackInv, AskedTold, Fallback!TypeOK
    <3> QED BY <1>4, <1>6, <3>1
  <2>2. recording'.generation <= SpentBy(asrJob.attempts - 1) + x.index
    BY <1>5, <1>6, <1>7
  <2>3. recording'.generation > 0
    BY <1>4, <1>6
  <2> QED BY <1>1, <1>6, <1>7, <1>8, <2>1, <2>2, <2>3 DEF HearerKnows, AskingSteps
<1>13. ASSUME NEW v \in Worker, Fallback!Fenced(v)' PROVE HearerKnows(v)'
  BY <1>1, <1>12, <1>13, OneHearer DEF Fallback!Fenced
<1> QED BY <1>8, <1>9, <1>10, <1>11, <1>13 DEF FallbackInv

LEMMA GiveUpFallback ==
  ASSUME FallbackInv, NEW w \in Worker, Fallback!GiveUp(w)
  PROVE  FallbackInv' /\ HeardStep
<1>1. HearerKnows(w) /\ hearer[w].step = "giveup" /\ Fallback!Fenced(w)
      /\ UNCHANGED <<asked, asrJob, mishaps>>
  BY DEF Fallback!GiveUp, Fallback!At, FallbackInv
<1>2. recording' = [recording EXCEPT !.final = IF @ = "none" THEN "asr" ELSE @]
  BY DEF Fallback!GiveUp, Fallback!ProtocolError
<1>3. hearer' = [hearer EXCEPT ![w] = [hearer[w] EXCEPT !.step = "done"]]
  BY DEF Fallback!GiveUp, Fallback!GoTo
<1>4. recording' \in Recordings /\ recording'.final # "none"
      /\ recording'.outcome = recording.outcome /\ recording'.generation = recording.generation
      /\ recording'.route = recording.route /\ (recording.final # "none" => recording'.final = recording.final)
  BY <1>2, FallbackTypes DEF FallbackInv, Recordings
<1>5. [hearer[w] EXCEPT !.step = "done"] \in Hearers
  BY FallbackTypes DEF FallbackInv, Hearers
<1>6. Fallback!TypeOK' /\ hearer'[w].step = "done"
  BY <1>1, <1>3, <1>4, <1>5, FallbackTypes, FallbackTypesNext DEF FallbackInv, Fallback!TypeOK
<1>7. AskedTold'
  BY <1>1, <1>4, <1>6, SpentType, AskedRests DEF FallbackInv, Fallback!TypeOK
<1>8. RecordingTold'
  BY <1>1, <1>4 DEF FallbackInv, RecordingTold, Fallback!SuccessIsHeard
<1>9. ErrorIsLate'
  <2>1. recording.outcome = "none" => Order = <<>> \/ asrJob.attempts = AsrAttempts
    BY <1>1 DEF HearerKnows
  <2>2. \A v \in Worker : Fallback!Fenced(v)' => v = w
    BY <1>1 DEF Fallback!Fenced
  <2> QED BY <1>1, <1>4, <1>6, <2>1, <2>2 DEF ErrorIsLate, AskingSteps
<1>10. HearerKnows(w)'
  BY <1>1, <1>4, <1>6 DEF HearerKnows, AskingSteps
<1>11. ASSUME NEW v \in Worker, Fallback!Fenced(v)' PROVE HearerKnows(v)'
  BY <1>1, <1>10, <1>11, OneHearer DEF Fallback!Fenced
<1> QED BY <1>4, <1>6, <1>7, <1>8, <1>9, <1>11 DEF FallbackInv, HeardStep

\* One answer more in the journal.
LEMMA AskedMore ==
  ASSUME FallbackInv, NEW e \in AskedEntries, asked' = Append(asked, e), Fallback!TypeOK',
         recording'.generation = recording.generation,
         recording.outcome = "none", e.generation = recording.generation,
         \A i \in DOMAIN asked : asked[i].generation < e.generation,
         e.index > 1 => /\ asked # <<>> /\ Fallback!Last(asked).index = e.index - 1
                        /\ Fallback!Last(asked).answer \in {"failing", "error"},
         Decided(e) => recording'.outcome # "none",
         recording'.outcome \in {"VALID_TRANSCRIPT", "NO_SPEECH"} => e.answer \in {"transcript", "silence"}
  PROVE  AskedTold'
<1> DEFINE n == Len(asked)
<1>1. asked \in Seq(AskedEntries) /\ n \in Nat /\ DOMAIN asked = 1 .. n
      /\ (asked # <<>> <=> n > 0)
  BY DEF FallbackInv, AskedTold
<1>2. /\ asked' \in Seq(AskedEntries) /\ Len(asked') = n + 1 /\ DOMAIN asked' = 1 .. (n + 1)
      /\ asked'[n + 1] = e /\ \A i \in 1 .. n : asked'[i] = asked[i]
  BY <1>1
<1>3. asked' # <<>> /\ Fallback!Last(asked') = e
  BY <1>2 DEF Fallback!Last
<1>4. recording.generation \in Nat
      /\ \A i \in 1 .. n : asked[i].generation \in Nat /\ asked[i].generation <= recording.generation
  <2>1. recording \in Recordings /\ Fallback!MaxGeneration \in Nat
    BY FallbackTypes, SpentType DEF FallbackInv
  <2>2. \A i \in 1 .. n : asked[i] \in AskedEntries
    BY <1>1
  <2>3. \A i \in 1 .. n : asked[i].generation <= recording.generation
    BY <1>1 DEF FallbackInv, AskedTold
  <2> QED BY <2>1, <2>2, <2>3 DEF Recordings, AskedEntries
<1>5. \A i \in DOMAIN asked' : asked'[i].generation <= recording'.generation
  <2> SUFFICES ASSUME NEW i \in 1 .. (n + 1) PROVE asked'[i].generation <= recording'.generation
    BY <1>2
  <2>1. CASE i = n + 1
    BY <1>2, <1>4, <2>1
  <2>2. CASE i # n + 1
    <3>1. i \in 1 .. n
      BY <1>1, <2>2
    <3> QED BY <1>2, <1>4, <3>1
  <2> QED BY <2>1, <2>2
<1>6. n > 0 => Fallback!Last(asked) = asked[n] /\ ~Decided(asked[n])
  BY <1>1 DEF Fallback!Last, FallbackInv, AskedTold
<1>7. n > 0 => asked[n].answer \in {"failing", "error"} /\ (asked[n].answer = "error" => asked[n].index < Len(Order))
  <2>1. n > 0 => asked[n].index \in 1..Len(Order) /\ Len(Order) \in Nat
    <3>1. n > 0 => n \in 1 .. n
      BY <1>1
    <3>2. \A i \in 1 .. n : asked[i] \in AskedEntries
      BY <1>1
    <3> QED BY <3>1, <3>2, OrderType DEF AskedEntries
  <2>2. n > 0 => asked[n].answer \in {"failing", "error"} /\ (asked[n].answer = "error" => asked[n].index # Len(Order))
    BY <1>6 DEF Decided
  <2> QED BY <2>1, <2>2
<1> HIDE DEF n
<1>8. Fallback!AskedInOrder'
  <2> SUFFICES ASSUME NEW i \in 1 .. (n + 1)
               PROVE  /\ asked'[i].index > 1 =>
                            i > 1 /\ asked'[i - 1].index = asked'[i].index - 1
                            /\ asked'[i - 1].answer \in {"failing", "error"}
                      /\ i < n + 1 => /\ asked'[i].answer \in {"failing", "error"}
                                      /\ asked'[i].generation < asked'[i + 1].generation
                                      /\ asked'[i].answer = "error" => asked'[i].index < Len(Order)
    BY <1>2, <1>3 DEF Fallback!AskedInOrder
  <2>1. CASE i = n + 1
    <3>1. e.index > 1 => n > 0 /\ n \in 1 .. n /\ i - 1 = n
      BY <1>1, <2>1
    <3> QED BY <1>2, <1>6, <2>1, <3>1, <1>1
  <2>2. CASE i < n
    <3>1. i \in DOMAIN asked /\ i + 1 \in 1 .. n /\ i \in 1 .. n
          /\ (i > 1 => i - 1 \in 1 .. n) /\ i < Len(asked)
      BY <1>1, <2>2 DEF n
    <3> QED BY <1>1, <1>2, <3>1 DEF FallbackInv, AskedTold, Fallback!AskedInOrder
  <2>3. CASE i = n
    <3>1. i \in DOMAIN asked /\ i \in 1 .. n /\ (i > 1 => i - 1 \in 1 .. n) /\ n > 0
      BY <1>1, <2>3
    <3> QED BY <1>1, <1>2, <1>7, <2>3, <3>1 DEF FallbackInv, AskedTold, Fallback!AskedInOrder
  <2> QED BY <1>1, <2>1, <2>2, <2>3
<1> QED BY <1>2, <1>3, <1>5, <1>8 DEF AskedTold

LEMMA CommitFallback ==
  ASSUME FallbackInv, NEW w \in Worker, Fallback!Commit(w)
  PROVE  FallbackInv' /\ HeardStep
<1> DEFINE a == hearer[w].answer
           k == hearer[w].index
           e == [index |-> k, generation |-> recording.generation, answer |-> a]
<1>1. /\ HearerKnows(w) /\ hearer[w].step = "commit" /\ Fallback!Fenced(w) /\ UNCHANGED <<asrJob, mishaps>>
      /\ asked' = Append(asked, e)
  BY DEF Fallback!Commit, Fallback!At, FallbackInv
<1>2. hearer[w] \in Hearers /\ recording \in Recordings /\ asrJob \in AsrJobs
      /\ a \in Fallback!Answers
  BY FallbackTypes DEF FallbackInv, Hearers
<1>3. /\ recording.outcome = "none" /\ recording.final = "none" /\ recording.generation > 0 /\ k > 0
      /\ recording.generation <= SpentBy(asrJob.attempts - 1) + k /\ asrJob.attempts > 0
      /\ \A i \in DOMAIN asked : asked[i].generation < recording.generation
      /\ k > 1 => /\ asked # <<>> /\ Fallback!Last(asked).index = k - 1
                  /\ Fallback!Last(asked).answer \in {"failing", "error"}
  BY <1>1 DEF HearerKnows, AskingSteps
<1>4. k \in 1 .. Len(Order) /\ recording.generation \in 1 .. Fallback!MaxGeneration
      /\ Len(Order) \in Nat
  BY <1>2, <1>3, SpentType, OrderType DEF FallbackInv, Hearers, Recordings
<1>5. e \in AskedEntries
  BY <1>2, <1>4, OrderType DEF AskedEntries
<1>6. e.index = k /\ e.generation = recording.generation /\ e.answer = a
  OBVIOUS
<1> HIDE DEF a, k, e
<1>7. \A i \in DOMAIN asked' : asked'[i] \in AskedEntries
  BY <1>1, <1>5 DEF FallbackInv, AskedTold
<1>8. CASE Fallback!GoesOn(a, k)
  <2>1. recording' = recording
        /\ hearer' = [hearer EXCEPT ![w] = [hearer[w] EXCEPT !.step = "stage", !.index = @ + 1]]
    BY <1>8 DEF Fallback!Commit, a, k
  <2>2. k + 1 \in 0 .. Len(Order) /\ a \in {"failing", "error"} /\ k < Len(Order)
        /\ (k + 1) - 1 = k
    BY <1>4, <1>8 DEF Fallback!GoesOn
  <2> DEFINE x == [hearer[w] EXCEPT !.step = "stage", !.index = @ + 1]
  <2>3. x \in Hearers /\ x.step = "stage" /\ x.index = k + 1
        /\ x.generation = hearer[w].generation
    BY <1>2, <2>2 DEF Hearers, k
  <2> HIDE DEF x
  <2>4. Fallback!TypeOK' /\ hearer'[w] = x
    BY <1>1, <1>2, <1>7, <2>1, <2>3, FallbackTypes, FallbackTypesNext DEF FallbackInv, x
  <2>5. ~Decided(e) /\ recording'.outcome = "none"
    BY <1>3, <1>6, <2>1, <2>2, <1>4 DEF Decided
  <2>6. AskedTold'
    BY <1>1, <1>3, <1>5, <1>6, <2>1, <2>4, <2>5, AskedMore
  <2>7. RecordingTold' /\ ErrorIsLate' /\ HeardStep
    BY <1>1, <1>3, <2>1 DEF FallbackInv, RecordingTold, ErrorIsLate, HeardStep,
       Fallback!SuccessIsHeard
  <2>8. asked' # <<>> /\ Fallback!Last(asked') = e
    BY <1>1, <1>5 DEF FallbackInv, AskedTold, Fallback!Last
  <2>9. hearer[w].generation = recording.generation
    BY <1>1 DEF HearerKnows, AskingSteps
  <2>10. HearerKnows(w)'
    <3>1. recording'.generation <= SpentBy(asrJob'.attempts - 1) + (x.index - 1)
      BY <1>1, <1>3, <2>1, <2>2, <2>3
    <3>2. x.index > 1 => Fallback!Last(asked').index = x.index - 1 /\ Fallback!Last(asked').answer \in {"failing", "error"}
      BY <1>6, <2>2, <2>3, <2>8
    <3>3. x.index > 0 /\ x.generation = recording'.generation /\ recording'.outcome = "none"
          /\ recording'.final = "none" /\ asrJob'.attempts > 0
      BY <1>1, <1>3, <1>4, <2>1, <2>3, <2>9
    <3> QED BY <2>3, <2>4, <2>8, <3>1, <3>2, <3>3 DEF HearerKnows, AskingSteps
  <2>11. ASSUME NEW v \in Worker, Fallback!Fenced(v)' PROVE HearerKnows(v)'
    BY <1>1, <2>10, <2>11, OneHearer DEF Fallback!Fenced
  <2> QED BY <2>4, <2>6, <2>7, <2>11 DEF FallbackInv
<1>9. CASE ~Fallback!GoesOn(a, k) /\ a = "failing"
  <2>1. recording' = recording
        /\ hearer' = [hearer EXCEPT ![w] = [hearer[w] EXCEPT !.step = "raise"]]
    BY <1>9 DEF Fallback!Commit, a, k, Fallback!GoTo
  <2> DEFINE x == [hearer[w] EXCEPT !.step = "raise"]
  <2>3. x \in Hearers /\ x.step = "raise"
    BY <1>2 DEF Hearers
  <2> HIDE DEF x
  <2>4. Fallback!TypeOK' /\ hearer'[w] = x
    BY <1>1, <1>2, <1>7, <2>1, <2>3, FallbackTypes, FallbackTypesNext DEF FallbackInv, x
  <2>5. ~Decided(e) /\ recording'.outcome = "none"
    BY <1>3, <1>6, <1>9, <2>1 DEF Decided
  <2>6. AskedTold'
    BY <1>1, <1>3, <1>5, <1>6, <2>1, <2>4, <2>5, AskedMore
  <2>7. RecordingTold' /\ ErrorIsLate' /\ HeardStep
    BY <1>1, <1>3, <2>1 DEF FallbackInv, RecordingTold, ErrorIsLate, HeardStep,
       Fallback!SuccessIsHeard
  <2>10. HearerKnows(w)'
    BY <1>1, <1>3, <2>1, <2>3, <2>4 DEF HearerKnows, AskingSteps
  <2>11. ASSUME NEW v \in Worker, Fallback!Fenced(v)' PROVE HearerKnows(v)'
    BY <1>1, <2>10, <2>11, OneHearer DEF Fallback!Fenced
  <2> QED BY <2>4, <2>6, <2>7, <2>11 DEF FallbackInv
<1>10. CASE ~Fallback!GoesOn(a, k) /\ a # "failing"
  <2> DEFINE x == [hearer[w] EXCEPT !.step = IF a \in {"refused", "error"} THEN "giveup" ELSE "done"]
  <2>1. recording' = Fallback!Outcome(a) /\ hearer' = [hearer EXCEPT ![w] = x]
    BY <1>10 DEF Fallback!Commit, a, k, Fallback!GoTo
  <2>2. /\ recording' \in Recordings /\ recording'.generation = recording.generation
        /\ recording'.outcome # "none"
        /\ recording'.outcome \in {"VALID_TRANSCRIPT", "NO_SPEECH"} => a \in {"transcript", "silence"}
        /\ recording'.final # "none" \/ recording'.route
        /\ a \in {"transcript", "silence", "refused", "error"}
    <3>0. a \in {"transcript", "silence", "refused", "error"}
      BY <1>2, <1>10 DEF Fallback!Answers
    <3>1. CASE a = "transcript"
      BY <1>2, <2>1, <3>1 DEF Fallback!Outcome, Recordings
    <3>2. CASE a = "silence"
      BY <1>2, <2>1, <3>2 DEF Fallback!Outcome, Recordings
    <3>3. CASE a \in {"refused", "error"}
      <4>1. recording' = [recording EXCEPT !.outcome = "PROVIDER_ERROR", !.final = "asr"]
        BY <2>1, <3>3 DEF Fallback!Outcome
      <4> QED BY <1>2, <3>3, <4>1 DEF Recordings
    <3> QED BY <3>0, <3>1, <3>2, <3>3
  <2>3. x \in Hearers /\ x.step \in {"giveup", "done"}
    BY <1>2 DEF Hearers
  <2> HIDE DEF x
  <2>4. Fallback!TypeOK' /\ hearer'[w] = x
    BY <1>1, <1>2, <1>7, <2>1, <2>2, <2>3, FallbackTypes, FallbackTypesNext DEF FallbackInv
  <2>6. AskedTold'
    BY <1>1, <1>3, <1>5, <1>6, <2>2, <2>4, AskedMore
  <2>7. RecordingTold' /\ ErrorIsLate' /\ HeardStep
    BY <1>1, <1>3, <2>2 DEF FallbackInv, RecordingTold, ErrorIsLate, HeardStep,
       Fallback!SuccessIsHeard
  <2>10. HearerKnows(w)'
    BY <1>1, <1>3, <2>2, <2>3, <2>4 DEF HearerKnows, AskingSteps
  <2>11. ASSUME NEW v \in Worker, Fallback!Fenced(v)' PROVE HearerKnows(v)'
    BY <1>1, <2>10, <2>11, OneHearer DEF Fallback!Fenced
  <2> QED BY <2>4, <2>6, <2>7, <2>11 DEF FallbackInv
<1> QED BY <1>8, <1>9, <1>10

LEMMA RestFallback ==
  ASSUME FallbackInv, UNCHANGED Fallback!vars
  PROVE  FallbackInv' /\ HeardStep
<1>1. Fallback!TypeOK' /\ UNCHANGED <<recording, asked, asrJob, hearer, mishaps>>
  BY FallbackTypes, FallbackTypesNext DEF Fallback!vars, FallbackInv
<1>2. AskedTold'
  BY <1>1, SpentType, AskedRests DEF FallbackInv, Fallback!TypeOK
<1>3. RecordingTold' /\ ErrorIsLate' /\ HeardStep
  BY <1>1 DEF FallbackInv, RecordingTold, ErrorIsLate, HeardStep, Fallback!SuccessIsHeard,
     Fallback!Fenced
<1>4. \A v \in Worker : Fallback!Fenced(v)' => HearerKnows(v)'
  BY <1>1 DEF Fallback!Fenced, HearerKnows, FallbackInv
<1> QED BY <1>1, <1>2, <1>3, <1>4 DEF FallbackInv

LEMMA NextFallback ==
  FallbackInv /\ [Fallback!AsrNext]_Fallback!vars => FallbackInv' /\ HeardStep
<1> SUFFICES ASSUME FallbackInv, [Fallback!AsrNext]_Fallback!vars PROVE FallbackInv' /\ HeardStep
  OBVIOUS
<1>1. ASSUME NEW w \in Worker, Fallback!Claim(w) \/ Fallback!Dies(w) PROVE FallbackInv' /\ HeardStep
  BY <1>1, ClaimFallback, DiesFallback
<1>2. ASSUME NEW w \in Worker, Fallback!Handler(w) PROVE FallbackInv' /\ HeardStep
  BY <1>2, ReadFallback, UnsupportedFallback, SetStageFallback, AskFallback, CommitFallback,
     RaiseFallback, GiveUpFallback, CompleteFallback, DiesFallback DEF Fallback!Handler
<1>3. CASE Fallback!Expires \/ Fallback!Lapses \/ UNCHANGED Fallback!vars
  BY <1>3, ExpiresFallback, LapsesFallback, RestFallback
<1> QED BY <1>1, <1>2, <1>3 DEF Fallback!AsrNext

LEMMA FallbackHolds == Fallback!AsrSafety => []FallbackInv
BY InitFallback, NextFallback, PTL DEF Fallback!AsrSafety

-----------------------------------------------------------------------------
(* What is promised of speech.                                             *)

\* Whatever the worker queue, the recovery of files and the providers do, in any
\* order and with crashes between any two steps: no ended tts job leaves an
\* artifact that waits for it, audio that is READY can be read and audio said to
\* be deleted is gone, and the journal tells of playback exactly when the
\* artifact does.
THEOREM SpeechCorrect == SpeechSafety => []SpeechIsTrue
<1>1. Spec => [](TypeOK /\ NoOrphanArtifact)
  BY TypeCorrect, NoOrphans, PTL
<1>2. PlaybackInv /\ ChainInv /\ FallbackInv =>
        /\ Playback!TypeOK /\ Chain!TypeOK /\ Fallback!TypeOK
        /\ Playback!RetentionIsTrue /\ Playback!JournalAgrees
  BY PlaybackShows, ChainShows DEF FallbackInv
<1>3. (TypeOK /\ NoOrphanArtifact) /\ (PlaybackInv /\ ChainInv /\ FallbackInv) => SpeechIsTrue
  BY <1>2 DEF SpeechIsTrue, SpeechTyped
<1> QED BY <1>1, <1>3, PlaybackHolds, ChainHolds, FallbackHolds, PTL DEF SpeechSafety

\* An execution asks the targets of the chain its job was enqueued with in their
\* order, each as often as its retries allow, and ends artifact and job
\* together; the providers of a recording are asked in their order, each after a
\* failure in passing of the one before, and an asr job that succeeds was heard.
THEOREM ChainsCorrect == SpeechSafety => []ChainsAgree
<1>1. ChainInv /\ FallbackInv => ChainsAgree
  BY ChainShows DEF FallbackInv, AskedTold, RecordingTold, ChainsAgree
<1> QED BY <1>1, ChainHolds, FallbackHolds, PTL DEF SpeechSafety

\* What has ended stays: audio through the failure of its job, a playback or an
\* expiry through late results, a refusal through retries and restarts with
\* another chain, what was heard through workers that were overtaken.
THEOREM EndingsCorrect == SpeechSafety => EndingsStay
<1>1. Playback!Spec => Playback!EndedStays
  <2>1. PlaybackInv /\ [Playback!Next]_Playback!vars =>
          [/\ spoken.status \in {"PLAYED", "EXPIRED"} =>
                spoken'.status = spoken.status /\ spoken'.audio = spoken.audio
           /\ played = "PLAYED" => played' = "PLAYED"]_Playback!vars
    BY NextPlayback DEF PlaybackEnds
  <2> QED BY <2>1, PlaybackHolds, PTL DEF Playback!Spec, Playback!EndedStays
<1>2. Chain!Spec => Chain!RefusedIsFinal
  <2>1. ChainInv /\ [Chain!Next]_Chain!vars =>
          [\A a \in refused : ~(run'.art = a /\ Len(run'.calls) > 0) /\ art'[a] # "READY"]_Chain!vars
    BY NextChain DEF RefusedStep
  <2> QED BY <2>1, ChainHolds, PTL DEF Chain!Spec, Chain!RefusedIsFinal
<1>3. Fallback!AsrSafety => Fallback!HeardStays
  <2>1. FallbackInv /\ [Fallback!AsrNext]_Fallback!vars =>
          [/\ recording.final # "none" => recording'.final = recording.final
           /\ recording'.outcome # recording.outcome =>
                \/ recording.outcome = "none"
                \/ recording'.outcome = "PROVIDER_ERROR" /\ asrJob'.phase = "FAILED"]_Fallback!vars
    BY NextFallback DEF HeardStep
  <2> QED BY <2>1, FallbackHolds, PTL DEF Fallback!AsrSafety, Fallback!HeardStays
<1> QED BY <1>1, <1>2, <1>3, AudioSurvives DEF SpeechSafety, EndingsStay

=============================================================================
