---------------------------- MODULE ProviderChain ----------------------------
(***************************************************************************)
(* Speech is synthesised by a chain of providers in recorder_next:         *)
(* adapters.py, ProviderChain._execute with its retries, fallbacks and     *)
(* deadline, and the failures _HTTPProvider and HermesAudioTTSProvider     *)
(* report; service.py, generate_tts, the tts handler, and the idle tick    *)
(* that enqueues pending artifacts; features.py, _enqueue_worker_job_tx    *)
(* with the chain frozen in the job.  The process may be started again     *)
(* with another chain at any time.                                         *)
(*                                                                         *)
(* The worker's claims and leases are those of WorkerJobs; here a job is   *)
(* due when it is pending or waits for a retry.  Expiry of artifacts and   *)
(* playback are those of TtsPlayback: nothing expires here.                *)
(***************************************************************************)
EXTENDS Integers, Sequences, FiniteSets

CONSTANTS
  N,            \* artifacts, 1 .. N in the order pending_tts lists them
  Chains,       \* configured chains: sequences of the retries of each target
  Outcomes,     \* what a call of a provider may come to
  Budget,       \* overall_deadline_seconds, in units a call may take
  MaxAttempts,  \* attempts of a job
  MaxRestarts   \* bound

VARIABLES
  config,    \* the chain the process was started with
  art,       \* tts_artifacts.status
  job,       \* worker_jobs: status, frozen chain, attempt_count
  run,       \* the execution under way
  refused,   \* artifacts a provider has refused for good
  restarts

vars == <<config, art, job, run, refused, restarts>>

Artifacts == 1 .. N
NoChain == <<>>
JobAbsent == [status |-> "NONE", frozen |-> NoChain, attempts |-> 0]

\* Nothing runs, or: for which artifact, which target is next and its attempt,
\* the time left, and the target of each call made.
Idle == [art |-> 0, target |-> 1, attempt |-> 0, left |-> Budget, calls |-> <<>>]

TypeOK ==
  /\ config \in Chains
  /\ art \in [Artifacts -> {"NONE", "PENDING", "READY", "FAILED_GENERATION", "EXPIRED"}]
  /\ job \in [Artifacts -> [status: {"NONE", "PENDING", "LEASED", "RETRY_WAIT", "SUCCEEDED", "FAILED_PERMANENT"},
                            frozen: Chains \cup {NoChain}, attempts: 0 .. MaxAttempts]]
  /\ run.art \in 0 .. N /\ run.left \in 0 .. Budget
  /\ run.target \in 1 .. Len(config) /\ run.attempt \in 0 .. config[run.target]
  /\ refused \subseteq Artifacts
  /\ restarts \in 0 .. MaxRestarts

Init ==
  /\ config \in Chains
  /\ art = [a \in Artifacts |-> "NONE"]
  /\ job = [a \in Artifacts |-> JobAbsent]
  /\ run = Idle /\ refused = {} /\ restarts = 0

-----------------------------------------------------------------------------
(* Failures.                                                               *)

Failure(kind, retryable, code) == [kind |-> kind, retryable |-> retryable, code |-> code]

Good == Failure("good", FALSE, 0)

RetryableStatus(code) == code \in {408, 409, 425, 429} \/ code \in 500 .. 599

\* _provider_failure_for_http
OfStatus(code) ==
  Failure(CASE code = 429                              -> "rate_limited"
            [] code = 408                              -> "timeout"
            [] code \in 500 .. 599                     -> "server"
            [] code \in {409, 425}                     -> "transport"
            [] code \in {401, 403}                     -> "auth"
            [] code = 415                              -> "unsupported_media"
            [] OTHER                                   -> "client",
          RetryableStatus(code), code)

\* What else _request reports.
Timeout  == Failure("timeout", TRUE, 0)
Framing  == Failure("response_framing", TRUE, 0)
TooLarge == Failure("response_too_large", FALSE, 0)

\* A raw TimeoutError or URLError of a provider, taken for a failure in passing
\* without a look at the clock.
Unreached == Failure("transport", TRUE, 0)

\* A listener of Hermes without the audio routes.
NoAudioRoute == Failure("provider_unavailable", FALSE, 404)

\* A success whose digest, type or content is wrong; any other exception.
Invalid == Failure("integrity_invalid", FALSE, 0)
Raised  == Failure("provider_error", FALSE, 0)

EligibleKinds == {"transport", "dns", "connect", "timeout", "rate_limited", "server",
              "response_framing", "provider_unavailable", "unavailable", "capacity"}

ClientTerminal(f) == f.code \in 400 .. 499 /\ ~RetryableStatus(f.code)

\* After which failures the chain goes on.
Eligible(f) ==
  /\ ~ClientTerminal(f)
  /\ \/ f.retryable /\ f.kind \in EligibleKinds
     \/ f.kind \in {"provider_unavailable", "unavailable", "capacity"}

-----------------------------------------------------------------------------
(* The end of an execution.                                                *)

\* What the tts handler raises as retryable for an artifact that failed.
HandlerRetries(kind) ==
  kind \in {"transport", "dns", "connect", "timeout", "rate_limited", "server",
            "provider_unavailable", "capacity"}

EndJob(a, status) == job' = [job EXCEPT ![a].status = status]

RetryOrFail(a) == IF job[a].attempts < MaxAttempts THEN "RETRY_WAIT" ELSE "FAILED_PERMANENT"

\* Mutant of SuccessEnds: the artifact of an earlier failed attempt stays so.
SuccessEndsPending(a) ==
  /\ art' = [art EXCEPT ![a] = IF @ = "PENDING" THEN "READY" ELSE @]
  /\ EndJob(a, "SUCCEEDED")

SuccessEnds(a) ==
  /\ art' = [art EXCEPT ![a] = "READY"]
  /\ EndJob(a, "SUCCEEDED")

\* A ChainFailure that is not retryable: the artifact has failed, and the
\* handler looks at the kind of the failure once more.
PermanentEnds(a, kind) ==
  /\ art' = [art EXCEPT ![a] = "FAILED_GENERATION"]
  /\ EndJob(a, IF HandlerRetries(kind) THEN RetryOrFail(a) ELSE "FAILED_PERMANENT")

\* All targets failed, all in passing: the job is retried, or ends with its
\* artifact.
ExhaustedEnds(a) ==
  /\ EndJob(a, RetryOrFail(a))
  /\ art' = [art EXCEPT ![a] = IF @ = "PENDING" /\ RetryOrFail(a) = "FAILED_PERMANENT" THEN "EXPIRED" ELSE @]

-----------------------------------------------------------------------------
(* ProviderChain._execute                                                  *)

Validated(a) == job[a].frozen = config

\* chain_changed
ChainChanged ==
  /\ run.art # 0 /\ run.calls = <<>> /\ ~Validated(run.art)
  /\ PermanentEnds(run.art, "chain_changed")
  /\ run' = Idle
  /\ UNCHANGED <<config, refused, restarts>>

\* The deadline has passed before a call.
OutOfTime ==
  /\ run.art # 0 /\ Validated(run.art) /\ run.left = 0
  /\ PermanentEnds(run.art, "deadline")
  /\ run' = Idle
  /\ UNCHANGED <<config, refused, restarts>>

LastAttempt == run.attempt = config[run.target]
LastTarget  == run.target = Len(config)

Advance(left, calls) ==
  [run EXCEPT !.left = left, !.calls = calls,
              !.target = IF LastAttempt THEN @ + 1 ELSE @,
              !.attempt = IF LastAttempt THEN 0 ELSE @ + 1]

\* One call of a provider, which takes some time and comes to f.
Call(f, time) ==
  /\ run.art # 0 /\ Validated(run.art) /\ run.left > 0
  /\ LET left  == IF time > run.left THEN 0 ELSE run.left - time
         calls == Append(run.calls, run.target)
     IN IF left = 0 /\ f # Unreached THEN PermanentEnds(run.art, "deadline") /\ run' = Idle
        ELSE IF f = Good THEN SuccessEnds(run.art) /\ run' = Idle
        ELSE IF ~Eligible(f) THEN PermanentEnds(run.art, f.kind) /\ run' = Idle
        ELSE IF LastAttempt /\ LastTarget THEN ExhaustedEnds(run.art) /\ run' = Idle
        ELSE run' = Advance(left, calls) /\ UNCHANGED <<art, job>>
  /\ refused' = IF f \notin {Good, NoAudioRoute} /\ ~f.retryable THEN refused \cup {run.art} ELSE refused
  /\ UNCHANGED <<config, restarts>>

-----------------------------------------------------------------------------
(* Jobs.                                                                   *)

\* A FINAL to be spoken is committed.
Create(a) ==
  /\ art[a] = "NONE" /\ \A b \in 1 .. a - 1 : art[b] # "NONE"
  /\ art' = [art EXCEPT ![a] = "PENDING"]
  /\ UNCHANGED <<config, job, run, refused, restarts>>

Due(a) == job[a].status \in {"PENDING", "RETRY_WAIT"}

Claim(a) ==
  /\ run.art = 0 /\ Due(a)
  /\ job' = [job EXCEPT ![a].status = "LEASED", ![a].attempts = @ + 1]
  /\ run' = [Idle EXCEPT !.art = a]
  /\ UNCHANGED <<config, art, refused, restarts>>

\* What pending_tts lists, whether or not a job is there or has ended.
Listed(a) == art[a] \in {"PENDING", "FAILED_GENERATION"}

\* The artifact's job is there and was frozen with another chain.
Conflicts(a) == Listed(a) /\ job[a].status # "NONE" /\ job[a].frozen # config

\* The idle tick enqueues the pending artifacts in order, up to the first whose
\* job conflicts; a job that waits for its retry is not due yet.
Reconcile ==
  /\ run.art = 0 /\ \A a \in Artifacts : job[a].status # "PENDING"
  /\ job' = [a \in Artifacts |->
               IF Listed(a) /\ job[a].status = "NONE" /\ \A b \in 1 .. a - 1 : ~Conflicts(b)
               THEN [status |-> "PENDING", frozen |-> config, attempts |-> 0] ELSE job[a]]
  /\ UNCHANGED <<config, art, run, refused, restarts>>

\* The process dies and is started again, with the same or another chain.
Restart(c) ==
  /\ restarts < MaxRestarts
  /\ config' = c /\ run' = Idle /\ restarts' = restarts + 1
  /\ UNCHANGED <<art, job, refused>>

\* Its lease has run out.
RecoverLease(a) ==
  /\ job[a].status = "LEASED" /\ run.art # a
  /\ ExhaustedEnds(a)
  /\ UNCHANGED <<config, run, refused, restarts>>

Work == ChainChanged \/ OutOfTime \/ \E f \in Outcomes, time \in 0 .. 1 : Call(f, time)

Next ==
  \/ Work \/ Reconcile
  \/ \E a \in Artifacts : Create(a) \/ Claim(a) \/ RecoverLease(a)
  \/ \E c \in Chains : Restart(c)

Spec == Init /\ [][Next]_vars

\* The worker thread: it executes, claims what is due, and reconciles when
\* nothing is; the scheduler recovers leases.
Working ==
  /\ Spec
  /\ WF_vars(Work) /\ WF_vars(Reconcile)
  /\ \A a \in Artifacts : SF_vars(Claim(a)) /\ WF_vars(RecoverLease(a))

-----------------------------------------------------------------------------
(* Properties.                                                             *)

\* No target is passed over or called again beyond its retries: the calls of
\* an execution run through the targets in order, each exhausted before the
\* next, under the chain the job was enqueued with.
InDeclaredOrder ==
  run.calls # <<>> =>
    /\ config = job[run.art].frozen
    /\ \A t \in 1 .. run.target :
         Cardinality({k \in DOMAIN run.calls : run.calls[k] = t})
           = (IF t < run.target THEN config[t] + 1 ELSE run.attempt)
    /\ \A k, l \in DOMAIN run.calls : k < l => run.calls[k] <= run.calls[l]

\* "Permanent server and auth failures must not silently switch providers":
\* once a provider refused an artifact, no provider is asked for it again, not
\* by a fallback, a retry of the job, or a process with another chain.
RefusedIsFinal == [][\A a \in refused : ~(run'.art = a /\ Len(run'.calls) > 0) /\ art'[a] # "READY"]_vars

\* Artifact and job come to the same end.
EndTogether ==
  \A a \in Artifacts :
    /\ job[a].status = "SUCCEEDED" <=> art[a] = "READY"
    /\ job[a].status = "FAILED_PERMANENT" => art[a] \in {"FAILED_GENERATION", "EXPIRED"}

\* No artifact waits for audio, and no job is left open.
AllEnded ==
  \A a \in Artifacts :
    /\ art[a] # "PENDING"
    /\ art[a] = "NONE" \/ job[a].status \in {"SUCCEEDED", "FAILED_PERMANENT"}

\* "Later eligible rows converge": every artifact comes to an end, whatever
\* became of those before it.  A job enqueued with another chain than the one
\* configured now refuses the idle tick for as long as its artifact is listed,
\* and an artifact whose synthesis failed is listed until it expires.
ArtifactsEnd == <>[]AllEnded

=============================================================================
