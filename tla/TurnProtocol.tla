---------------------------- MODULE TurnProtocol ----------------------------
(***************************************************************************)
(* The life of a client turn from acceptance to its end, in                *)
(* recorder_next/store.py and service.py: the stage jobs asr, route,       *)
(* hermes and history and their handlers, the router queue of the user,    *)
(* the ingress queue of the Hermes sessions, the versions of the FINAL     *)
(* event, the outbox with its acknowledgements and the grace period in     *)
(* which a late answer may still replace a Hermes error.                   *)
(*                                                                         *)
(* Jobs are those of JobContract (WorkerJobs implements it): attempts are  *)
(* numbered, a newer one may start whenever the queue believes the older   *)
(* one dead, and a job may fail for good at any time (deadline, attempts). *)
(* A handler runs as the transactions it makes, and may be overtaken or    *)
(* killed between any two of them.                                         *)
(*                                                                         *)
(* Time is reduced to what it decides: a lease or a grace period that is   *)
(* running may run out (LAPSED, ELAPSED).  All workers use one owner name, *)
(* as clients of the worker-control endpoint may; owner checks alone then  *)
(* keep nobody out.  All turns belong to one user.                         *)
(*                                                                         *)
(* A turn may ask for a schedule at any time before it has a FINAL: what   *)
(* create_schedule answers is a FINAL of the turn, and the stages of the   *)
(* turn go on as if nothing had happened (Schedules models the rest).      *)
(***************************************************************************)
EXTENDS Integers, Sequences, FiniteSets

CONSTANTS
  Turn, NoTurn,
  Voice,           \* the turns with an audio part
  Online,          \* the turns whose device acknowledges what it gets
  Worker,          \* threads that run stage handlers
  Session,         \* Hermes gateway sessions
  SessionOf,       \* [Turn -> Session], where the router sends a turn
  JobAttempts,     \* [Stage -> Nat], max_attempts at enqueue; 0 for jobs
                   \* that always meet their deadline before a worker
  HermesAttempts   \* hermes_max_attempts of the configuration

Stage == {"asr", "route", "hermes", "history"}

ASSUME Nulls == NoTurn \notin Turn
ASSUME TurnSets == IsFiniteSet(Turn) /\ Voice \subseteq Turn /\ Online \subseteq Turn
ASSUME Sessions == SessionOf \in [Turn -> Session]
ASSUME Attempts == JobAttempts \in [Stage -> Nat] /\ HermesAttempts \in Nat \ {0}

VARIABLES
  state,    \* turns.state
  seq,      \* turns.accepted_seq, 0 before acceptance
  asr,      \* turns.asr_generation and authoritative_asr_outcome
  router,   \* router_queue.state; LAPSED is IN_PROGRESS with its lease expired
  ingress,  \* session_ingress: status, attempt_count (its token), run bound
  job,      \* the worker job of each stage, as JobContract sees it
  events,   \* the ROUTED and FINAL events in turn_event_seq order
  acked,    \* positions of the FINALs whose outbox row is ACKED
  grace,    \* turns.grace_until
  running   \* what each worker holds in memory

queues == <<seq, router, ingress>>
vars == <<state, asr, queues, job, events, acked, grace, running>>

TurnStates == {"RECEIVING", "ACCEPTED", "PREPROCESSING", "HERMES_PENDING", "FINAL_READY",
               "LATE_RESULT_GRACE", "DELIVERED", "FAILED_PERMANENT", "EXPIRED"}
TERMINAL_TURN_STATES == {"DELIVERED", "FAILED_PERMANENT", "EXPIRED"}
AsrOutcomes == {"NONE", "VALID_TRANSCRIPT", "NO_SPEECH", "PROVIDER_ERROR"}
ScheduleFinals == {"confirmed", "schedule"}
Finals == {"success", "hermes", "routing", "asr", "no_speech"} \cup ScheduleFinals
Phases == {"ABSENT", "OPEN", "SUCCEEDED", "FAILED"}
Steps == {"start", "stage", "transcribe", "giveup", "decide", "submit", "submitted",
          "check", "query", "done", "raise", "fatal"}

NoJob == [phase |-> "ABSENT", current |-> 0, last |-> 0]
Idle == [turn |-> NoTurn, stage |-> "asr", token |-> 0, step |-> "idle", seen |-> 0]

TypeOK ==
  /\ state \in [Turn -> TurnStates]
  /\ seq \in [Turn -> Nat]
  /\ asr \in [Turn -> [generation: Nat, outcome: AsrOutcomes]]
  /\ router \in [Turn -> {"NONE", "QUEUED", "IN_PROGRESS", "LAPSED", "DONE", "FAILED"}]
  /\ ingress \in [Turn -> [status: {"NONE", "QUEUED", "IN_PROGRESS", "LAPSED", "SUBMITTED", "FAILED"},
                           token: Nat, bound: BOOLEAN]]
  /\ job \in [Turn -> [Stage -> [phase: Phases, current: Nat, last: Nat]]]
  /\ \A t \in Turn, s \in Stage : job[t][s].current <= job[t][s].last
                                  /\ job[t][s].last <= JobAttempts[s]
  /\ events \in [Turn -> Seq({"ROUTED"} \cup Finals)]
  /\ acked \in [Turn -> SUBSET Nat] /\ \A t \in Turn : acked[t] \subseteq DOMAIN events[t]
  /\ grace \in [Turn -> {"NONE", "RUNNING", "ELAPSED"}]
  /\ running \in [Worker -> {Idle} \cup
       [turn: Turn, stage: Stage, token: Nat, step: Steps, seen: Nat]]

Init ==
  /\ state = [t \in Turn |-> "RECEIVING"]
  /\ seq = [t \in Turn |-> 0]
  /\ asr = [t \in Turn |-> [generation |-> 0, outcome |-> "NONE"]]
  /\ router = [t \in Turn |-> "NONE"]
  /\ ingress = [t \in Turn |-> [status |-> "NONE", token |-> 0, bound |-> FALSE]]
  /\ job = [t \in Turn |-> [s \in Stage |-> NoJob]]
  /\ events = [t \in Turn |-> <<>>]
  /\ acked = [t \in Turn |-> {}]
  /\ grace = [t \in Turn |-> "NONE"]
  /\ running = [w \in Worker |-> Idle]

-----------------------------------------------------------------------------
(* What the rows say.                                                      *)

Last(t) == IF events[t] = <<>> THEN "NONE" ELSE events[t][Len(events[t])]

Routed(t) == events[t] # <<>> /\ events[t][1] = "ROUTED"

\* turns.final_outcome / final_error_kind: the kind of the newest FINAL.  Two
\* are a success: Hermes' answer and the confirmation of a schedule.
Final(t) == IF Last(t) \in Finals THEN Last(t) ELSE "NONE"

Answered(t) == Final(t) # "NONE"

Succeeded(t) == Final(t) \in {"success", "confirmed"}

\* Mutant of Live: the claim is not compared by token.
LiveByPhase(w) == job[running[w].turn][running[w].stage].phase = "OPEN"

\* The worker's claim of its job, fenced by token, is still the live one.
Live(w) ==
  LET j == job[running[w].turn][running[w].stage] IN
  j.phase = "OPEN" /\ j.current = running[w].token

At(w, t, s, step) == running[w].turn = t /\ running[w].stage = s /\ running[w].step = step

GoTo(w, step) == running' = [running EXCEPT ![w].step = step]
Remember(w, step, n) == running' = [running EXCEPT ![w].step = step, ![w].seen = n]

-----------------------------------------------------------------------------
(* Pieces of the transactions.                                             *)

\* _enqueue_worker_job_tx: an existing row is returned unchanged.
Opened(jobs, s) == IF jobs[s].phase = "ABSENT" THEN [jobs EXCEPT ![s].phase = "OPEN"] ELSE jobs

\* _insert_event_tx: a version of its own for every event of a turn.
Inserted(t, kind) == [events EXCEPT ![t] = Append(@, kind)]

\* _commit_protocol_final_tx
ProtocolFinal(t, kind, withGrace) ==
  /\ events' = Inserted(t, kind)
  /\ state' = [state EXCEPT ![t] = IF withGrace THEN "LATE_RESULT_GRACE" ELSE "FINAL_READY"]
  /\ grace' = [grace EXCEPT ![t] = IF withGrace THEN "RUNNING" ELSE "NONE"]

\* _project_terminal_job_tx for stage s of turn t; jobs is the turn's job
\* record with s already failed.
Project(t, s, jobs) ==
  \/ /\ Answered(t) \/ s = "history"
     /\ job' = [job EXCEPT ![t] = jobs]
     /\ UNCHANGED <<state, asr, router, ingress, events, grace>>
  \/ /\ ~Answered(t) /\ s = "hermes"
     /\ ProtocolFinal(t, "hermes", TRUE)
     /\ ingress' = [ingress EXCEPT ![t].status = "FAILED"]
     /\ job' = [job EXCEPT ![t] = Opened(jobs, "history")]
     /\ UNCHANGED <<asr, router>>
  \/ /\ ~Answered(t) /\ s \in {"asr", "route"}
     /\ ProtocolFinal(t, IF s = "asr" THEN "asr" ELSE "routing", FALSE)
     /\ asr' = IF s = "asr" THEN [asr EXCEPT ![t].outcome = "PROVIDER_ERROR"] ELSE asr
     /\ router' = IF router[t] \in {"QUEUED", "IN_PROGRESS", "LAPSED"}
                  THEN [router EXCEPT ![t] = "FAILED"] ELSE router
     /\ job' = [job EXCEPT ![t] = jobs]
     /\ UNCHANGED ingress

\* The job of stage s of turn t ends in failure.
FailFor(t, s) == Project(t, s, [job[t] EXCEPT ![s].phase = "FAILED", ![s].current = 0])

-----------------------------------------------------------------------------
(* Acceptance and the job queue.                                           *)

\* _enqueue_turn_stage
FirstStage(t) ==
  IF t \in Voice /\ asr[t].outcome \notin {"VALID_TRANSCRIPT", "NO_SPEECH"} THEN "asr" ELSE "route"

\* accept_turn of a turn with all its parts.
AcceptTurn(t) ==
  /\ state[t] = "RECEIVING"
  /\ state' = [state EXCEPT ![t] = "ACCEPTED"]
  /\ seq' = [seq EXCEPT ![t] = 1 + Cardinality({u \in Turn : seq[u] # 0})]
  /\ router' = [router EXCEPT ![t] = "QUEUED"]
  /\ job' = [job EXCEPT ![t] = Opened(@, FirstStage(t))]
  /\ UNCHANGED <<asr, ingress, events, acked, grace, running>>

\* claim_worker_job: a job that waits, or whose attempt is believed dead.
ClaimJob(w, t, s) ==
  /\ running[w] = Idle
  /\ job[t][s].phase = "OPEN" /\ job[t][s].last < JobAttempts[s]
  /\ LET n == job[t][s].last + 1 IN
       /\ job' = [job EXCEPT ![t][s].current = n, ![t][s].last = n]
       /\ running' = [running EXCEPT ![w] =
                        [turn |-> t, stage |-> s, token |-> n, step |-> "start", seen |-> 0]]
  /\ UNCHANGED <<state, asr, queues, events, acked, grace>>

\* A job runs into its deadline or out of attempts.
JobExpires(t, s) ==
  /\ job[t][s].phase = "OPEN"
  /\ FailFor(t, s)
  /\ UNCHANGED <<seq, acked, running>>

\* complete_worker_job
Complete(w) ==
  /\ running[w].step = "done"
  /\ LET t == running[w].turn
         s == running[w].stage
     IN job' = IF Live(w) THEN [job EXCEPT ![t][s].phase = "SUCCEEDED", ![t][s].current = 0] ELSE job
  /\ running' = [running EXCEPT ![w] = Idle]
  /\ UNCHANGED <<state, asr, queues, events, acked, grace>>

\* fail_worker_job after the handler raised: again later if the error is
\* retryable and attempts remain, else for good.
Fail(w) ==
  LET t == running[w].turn
      s == running[w].stage
  IN
  /\ running[w].step \in {"raise", "fatal"}
  /\ \/ /\ Live(w) /\ running[w].step = "raise" /\ running[w].token < JobAttempts[s]
        /\ job' = [job EXCEPT ![t][s].current = 0]
        /\ UNCHANGED <<state, asr, router, ingress, events, grace>>
     \/ /\ Live(w) /\ ~(running[w].step = "raise" /\ running[w].token < JobAttempts[s])
        /\ FailFor(t, s)
     \/ /\ ~Live(w)
        /\ UNCHANGED <<state, asr, router, ingress, job, events, grace>>
  /\ running' = [running EXCEPT ![w] = Idle]
  /\ UNCHANGED <<seq, acked>>

\* The process dies, or the handler meets a LeaseConflict and gives up.
Vanish(w) ==
  /\ running[w] # Idle
  /\ running' = [running EXCEPT ![w] = Idle]
  /\ UNCHANGED <<state, asr, queues, job, events, acked, grace>>

-----------------------------------------------------------------------------
(* The asr handler (run_asr with a provider chain).  Where a transaction    *)
(* is refused to a stale claim the handler ends: Vanish.                    *)

\* Mutant of Fence: effects are committed without a look at the claim.
Unfenced(w) == TRUE

\* _assert_worker_effect_tx, at the head of a transaction with an effect.
Fence(w) == Live(w)

\* It reads the turn; a turn that has its transcript is done.
AsrRead(w, t) ==
  /\ At(w, t, "asr", "start")
  /\ IF asr[t].outcome = "NONE" THEN Remember(w, "stage", asr[t].generation) ELSE GoTo(w, "done")
  /\ UNCHANGED <<state, asr, queues, job, events, acked, grace>>

\* set_asr_stage, a compare-and-swap on the generation it has read.
SetAsrStage(w, t) ==
  /\ At(w, t, "asr", "stage") /\ Fence(w)
  /\ asr[t] = [generation |-> running[w].seen, outcome |-> "NONE"]
  /\ asr' = [asr EXCEPT ![t].generation = @ + 1]
  /\ state' = IF state[t] \in {"ACCEPTED", "RETRY_WAIT"}
              THEN [state EXCEPT ![t] = "PREPROCESSING"] ELSE state
  /\ Remember(w, "transcribe", running[w].seen + 1)
  /\ UNCHANGED <<queues, job, events, acked, grace>>

\* commit_asr_result of an authoritative result.
CommitAsrResult(w, t, result) ==
  /\ At(w, t, "asr", "transcribe") /\ Fence(w)
  /\ asr[t].generation = running[w].seen
  /\ asr' = [asr EXCEPT ![t].outcome = result]
  /\ \/ /\ result = "VALID_TRANSCRIPT"
        /\ state' = IF state[t] \in {"ACCEPTED", "PREPROCESSING", "RETRY_WAIT"}
                    THEN [state EXCEPT ![t] = "ACCEPTED"] ELSE state
        /\ job' = [job EXCEPT ![t] = Opened(@, "route")]
        /\ UNCHANGED <<router, events, grace>>
     \/ /\ result = "NO_SPEECH"
        /\ ProtocolFinal(t, "no_speech", FALSE)
        /\ router' = [router EXCEPT ![t] = "DONE"]
        /\ UNCHANGED job
     \/ /\ result = "PROVIDER_ERROR"
        /\ ProtocolFinal(t, "asr", FALSE)
        /\ router' = [router EXCEPT ![t] = "FAILED"]
        /\ UNCHANGED job
  /\ GoTo(w, "done")
  /\ UNCHANGED <<seq, ingress, acked>>

\* A retryable provider failure: only a journal row is written.  The last
\* attempt gives up with an asr error instead of raising.
AsrUnavailable(w, t) ==
  /\ At(w, t, "asr", "transcribe") /\ Fence(w)
  /\ GoTo(w, IF running[w].token < JobAttempts["asr"] THEN "raise" ELSE "giveup")
  /\ UNCHANGED <<state, asr, queues, job, events, acked, grace>>

\* commit_protocol_error; a turn that has a FINAL keeps it (ErrorIgnored).
AsrGiveUp(w, t) ==
  /\ At(w, t, "asr", "giveup") /\ Fence(w)
  /\ ~Answered(t)
  /\ ProtocolFinal(t, "asr", FALSE)
  /\ GoTo(w, "done")
  /\ UNCHANGED <<asr, queues, job, acked>>

-----------------------------------------------------------------------------
(* The route handler (route_next).                                         *)

RouterBusy == {"QUEUED", "IN_PROGRESS", "LAPSED"}

Earlier(t, rows) ==
  {u \in Turn : seq[u] \in 1 .. seq[t] - 1 /\ rows[u] \notin {"DONE", "FAILED"}}

\* claim_router, without a look at the worker claim.  Rows of turns that have
\* a FINAL are settled first; an earlier row still pending blocks the turn.
ClaimRouter(w, t) ==
  LET rows == [u \in Turn |-> IF router[u] \in RouterBusy /\ Answered(u)
                              THEN "DONE" ELSE router[u]]
      free == rows[t] \in {"QUEUED", "LAPSED"} /\ Earlier(t, rows) = {}
  IN
  /\ At(w, t, "route", "start")
  /\ router' = IF free THEN [rows EXCEPT ![t] = "IN_PROGRESS"] ELSE rows
  /\ GoTo(w, IF free THEN "decide" ELSE "raise")
  /\ UNCHANGED <<state, asr, seq, ingress, job, events, acked, grace>>

\* commit_route: ROUTED event, route receipt, ingress row, run binding and
\* hermes job in one transaction.  Its branch for a turn that is routed
\* cannot be reached under a live router lease.
CommitRoute(w, t) ==
  /\ At(w, t, "route", "decide") /\ Fence(w)
  /\ router[t] = "IN_PROGRESS"
  /\ ~Routed(t) /\ state[t] \in {"ACCEPTED", "ROUTING", "RETRY_WAIT"}
  /\ events' = Inserted(t, "ROUTED")
  /\ ingress' = [ingress EXCEPT ![t].status = "QUEUED"]
  /\ state' = [state EXCEPT ![t] = "HERMES_PENDING"]
  /\ job' = [job EXCEPT ![t] = Opened(@, "hermes")]
  /\ router' = [router EXCEPT ![t] = "DONE"]
  /\ GoTo(w, "done")
  /\ UNCHANGED <<asr, seq, acked, grace>>

\* commit_route of a turn that got a FINAL meanwhile: it is not routed any more.
RouteAnswered(w, t) ==
  /\ At(w, t, "route", "decide") /\ Fence(w)
  /\ router[t] = "IN_PROGRESS"
  /\ ~Routed(t) /\ state[t] \in {"ROUTED", "HERMES_PENDING", "FINAL_READY", "DELIVERED"}
  /\ router' = [router EXCEPT ![t] = "DONE"]
  /\ GoTo(w, "done")
  /\ UNCHANGED <<state, asr, seq, ingress, job, events, acked, grace>>

\* commit_routing_error: the router raised or found no project.
CommitRoutingError(w, t) ==
  /\ At(w, t, "route", "decide") /\ Fence(w)
  /\ router[t] = "IN_PROGRESS" /\ ~Answered(t)
  /\ ProtocolFinal(t, "routing", FALSE)
  /\ router' = [router EXCEPT ![t] = "FAILED"]
  /\ GoTo(w, "done")
  /\ UNCHANGED <<asr, seq, ingress, job, acked>>

\* commit_route refuses the decision (stale project version, unknown project).
RouteRefused(w, t) ==
  /\ At(w, t, "route", "decide") /\ Fence(w)
  /\ GoTo(w, "fatal")
  /\ UNCHANGED <<state, asr, queues, job, events, acked, grace>>

-----------------------------------------------------------------------------
(* The hermes handler (process_next_hermes).                               *)

\* Mutant of Before: only the row being submitted is in the way.
BeforeRunning(t) ==
  {u \in Turn \ {t} : SessionOf[u] = SessionOf[t] /\ ingress[u].status \in {"IN_PROGRESS", "LAPSED"}}

\* Turns whose ingress row keeps the row of t from being claimed.
Before(t) ==
  {u \in Turn \ {t} :
     /\ SessionOf[u] = SessionOf[t]
     /\ \/ ingress[u].status \in {"IN_PROGRESS", "LAPSED"}
        \/ seq[u] < seq[t] /\ ingress[u].status = "QUEUED"}

\* claim_session_ingress, without a look at the worker claim.
ClaimIngress(w, t) ==
  /\ At(w, t, "hermes", "start")
  /\ IF ingress[t].status \in {"QUEUED", "LAPSED"} /\ Before(t) = {}
     THEN /\ ingress' = [ingress EXCEPT ![t].status = "IN_PROGRESS", ![t].token = @ + 1]
          /\ Remember(w, "submit", ingress[t].token + 1)
     ELSE GoTo(w, "raise") /\ UNCHANGED ingress
  /\ UNCHANGED <<state, asr, seq, router, job, events, acked, grace>>

HoldsIngress(w, t) == ingress[t].status = "IN_PROGRESS" /\ ingress[t].token = running[w].seen

\* bind_hermes_run, the callback of the submission: fenced by the ingress
\* lease alone.
BindRun(w, t) ==
  /\ At(w, t, "hermes", "submit") /\ HoldsIngress(w, t)
  /\ ingress' = [ingress EXCEPT ![t].bound = TRUE]
  /\ GoTo(w, "submitted")
  /\ UNCHANGED <<state, asr, seq, router, job, events, acked, grace>>

\* Mutant of TooLate: a late answer is always welcome.
NeverTooLate(t) == FALSE

TooLate(t) == Final(t) = "hermes" /\ state[t] \in {"EXPIRED", "FAILED_PERMANENT"}

\* _commit_hermes_result_tx of a result whose content is new.
HermesResult(t) ==
  /\ ~TooLate(t)
  /\ events' = Inserted(t, "success")
  /\ state' = [state EXCEPT ![t] = "FINAL_READY"]
  /\ grace' = [grace EXCEPT ![t] = "NONE"]
  /\ ingress' = [ingress EXCEPT ![t].status = "SUBMITTED"]

CommitHermesResult(w, t) ==
  /\ At(w, t, "hermes", "submitted") /\ Fence(w) /\ HoldsIngress(w, t)
  /\ HermesResult(t)
  /\ GoTo(w, "done")
  /\ UNCHANGED <<asr, seq, router, job, acked>>

\* Where the handler calls commit_hermes_error under the ingress lease: for an
\* input Hermes cannot take, without grace, and after the last attempt.
HermesFailed(w, t, withGrace) ==
  /\ running[w].turn = t /\ running[w].stage = "hermes" /\ HoldsIngress(w, t)
  /\ IF withGrace
     THEN running[w].step \in {"submit", "submitted"} /\ running[w].seen >= HermesAttempts
     ELSE running[w].step = "submit"

\* commit_hermes_error; with grace comes a history job.
CommitHermesError(w, t, withGrace) ==
  /\ HermesFailed(w, t, withGrace) /\ Fence(w)
  /\ ~Succeeded(t) /\ Final(t) # "hermes"
  /\ ProtocolFinal(t, "hermes", withGrace)
  /\ ingress' = [ingress EXCEPT ![t].status = "FAILED"]
  /\ job' = IF withGrace THEN [job EXCEPT ![t] = Opened(@, "history")] ELSE job
  /\ GoTo(w, "done")
  /\ UNCHANGED <<asr, seq, router, acked>>

\* commit_protocol_error, commit_routing_error and commit_hermes_error of a
\* turn whose FINAL they do not replace: nothing is written, and a router or
\* ingress row stays IN_PROGRESS until its lease ends.
ErrorIgnored(w, t) ==
  /\ \/ At(w, t, "asr", "giveup") /\ Answered(t)
     \/ At(w, t, "route", "decide") /\ router[t] = "IN_PROGRESS" /\ Answered(t)
     \/ /\ \E withGrace \in BOOLEAN : HermesFailed(w, t, withGrace)
        /\ Succeeded(t) \/ Final(t) = "hermes"
  /\ Fence(w)
  /\ GoTo(w, "done")
  /\ UNCHANGED <<state, asr, queues, job, events, acked, grace>>

\* release_session_ingress after an attempt without an answer.
ReleaseIngress(w, t) ==
  /\ running[w].turn = t /\ running[w].stage = "hermes" /\ Fence(w)
  /\ running[w].step \in {"submit", "submitted"} /\ running[w].seen < HermesAttempts
  /\ ingress' = IF ingress[t].status \in {"IN_PROGRESS", "LAPSED"} /\ ingress[t].token = running[w].seen
                THEN [ingress EXCEPT ![t].status = "QUEUED"] ELSE ingress
  /\ GoTo(w, "check")
  /\ UNCHANGED <<state, asr, seq, router, job, events, acked, grace>>

\* Mutant of HermesPending: releasing the row counts as success.
HermesReleased(w, t) ==
  /\ At(w, t, "hermes", "check")
  /\ GoTo(w, "done")
  /\ UNCHANGED <<state, asr, queues, job, events, acked, grace>>

\* The handler reads the turn once more: still pending is an error.
HermesPending(w, t) ==
  /\ At(w, t, "hermes", "check")
  /\ GoTo(w, IF state[t] = "HERMES_PENDING" /\ ~Answered(t) THEN "raise" ELSE "done")
  /\ UNCHANGED <<state, asr, queues, job, events, acked, grace>>

-----------------------------------------------------------------------------
(* The history handler: look for an answer that came late.                  *)

\* The receipt "already_terminal" is not one complete_worker_job accepts.
HistoryRead(w, t) ==
  /\ At(w, t, "history", "start")
  /\ GoTo(w, IF ~Succeeded(t) /\ state[t] \in {"LATE_RESULT_GRACE", "HERMES_PENDING"}
             THEN "query" ELSE "fatal")
  /\ UNCHANGED <<state, asr, queues, job, events, acked, grace>>

\* The query answers nothing that fits the bound run, or fails for good.
HistoryNothing(w, t) ==
  /\ At(w, t, "history", "query")
  /\ GoTo(w, "raise") \/ GoTo(w, "fatal")
  /\ UNCHANGED <<state, asr, queues, job, events, acked, grace>>

HistoryAnswer(w, t) ==
  /\ At(w, t, "history", "query") /\ Fence(w) /\ ingress[t].bound
  /\ HermesResult(t)
  /\ GoTo(w, "done")
  /\ UNCHANGED <<asr, seq, router, job, acked>>

\* The turn's grace period ended during the query: only an audit row.
LateResultIgnored(w, t) ==
  /\ At(w, t, "history", "query") /\ Fence(w) /\ ingress[t].bound
  /\ TooLate(t)
  /\ GoTo(w, "done")
  /\ UNCHANGED <<state, asr, queues, job, events, acked, grace>>

-----------------------------------------------------------------------------
(* Time, recovery, schedules, the device.                                  *)

\* create_schedule for the turn: the confirmation, or the error it records
\* when it refuses.  Neither settles the queue rows and jobs of the turn, and
\* a turn still being uploaded is never accepted after it.  (The
\* confirmation leaves grace_until alone: a turn without a FINAL has none.)
ScheduleFinal(t, kind) ==
  /\ kind \in ScheduleFinals
  /\ ~Answered(t)
  /\ kind = "confirmed" => state[t] \notin TERMINAL_TURN_STATES
  /\ ProtocolFinal(t, kind, FALSE)
  /\ UNCHANGED <<asr, queues, job, acked, running>>

LeaseRunsOut(t) ==
  /\ \/ router[t] = "IN_PROGRESS" /\ router' = [router EXCEPT ![t] = "LAPSED"] /\ UNCHANGED ingress
     \/ /\ ingress[t].status = "IN_PROGRESS"
        /\ ingress' = [ingress EXCEPT ![t].status = "LAPSED"] /\ UNCHANGED router
  /\ UNCHANGED <<state, asr, seq, job, events, acked, grace, running>>

GraceRunsOut(t) ==
  /\ grace[t] = "RUNNING" /\ grace' = [grace EXCEPT ![t] = "ELAPSED"]
  /\ UNCHANGED <<state, asr, queues, job, events, acked, running>>

LastAcked(t) == events[t] # <<>> /\ Len(events[t]) \in acked[t]

\* recover_scheduler, at every tick: lapsed leases are requeued, an elapsed grace
\* period ends the turn, and an accepted turn is sure to have its job.
Recover ==
  LET over == {t \in Turn : state[t] = "LATE_RESULT_GRACE" /\ Final(t) = "hermes" /\ grace[t] = "ELAPSED"} IN
  /\ over # {} \/ \E t \in Turn : router[t] = "LAPSED" \/ ingress[t].status = "LAPSED"
  /\ router' = [t \in Turn |-> IF router[t] = "LAPSED" THEN "QUEUED" ELSE router[t]]
  /\ ingress' = [t \in Turn |-> IF ingress[t].status = "LAPSED"
                                THEN [ingress[t] EXCEPT !.status = "QUEUED"] ELSE ingress[t]]
  /\ state' = [t \in Turn |-> IF t \notin over THEN state[t]
                              ELSE IF LastAcked(t) THEN "FAILED_PERMANENT" ELSE "EXPIRED"]
  /\ job' = [t \in Turn |-> IF state[t] = "ACCEPTED" THEN Opened(job[t], FirstStage(t)) ELSE job[t]]
  /\ UNCHANGED <<asr, seq, events, acked, grace, running>>

Newest(t, i) == i = Len(events[t])

\* ack_event of the FINAL at position i, in any order and any number of times.
\* Only the newest FINAL moves the turn.  The ACK of ROUTED touches nothing
\* but its own outbox row and is left out.
AckEvent(t, i) ==
  /\ t \in Online
  /\ i \in DOMAIN events[t] /\ events[t][i] # "ROUTED"
  /\ acked' = [acked EXCEPT ![t] = @ \cup {i}]
  /\ state' =
       IF ~Newest(t, i) THEN state
       ELSE CASE events[t][i] \in {"success", "confirmed"} -> [state EXCEPT ![t] = "DELIVERED"]
              [] events[t][i] \in {"routing", "asr"} -> [state EXCEPT ![t] = "FAILED_PERMANENT"]
              [] events[t][i] = "hermes" /\ state[t] \notin TERMINAL_TURN_STATES ->
                   [state EXCEPT ![t] = "LATE_RESULT_GRACE"]
              [] OTHER -> state
  /\ <<acked', state'>> # <<acked, state>>
  /\ UNCHANGED <<asr, queues, job, events, grace, running>>

Handler(w, t) ==
  \/ AsrRead(w, t) \/ SetAsrStage(w, t) \/ AsrUnavailable(w, t) \/ AsrGiveUp(w, t)
  \/ \E result \in AsrOutcomes \ {"NONE"} : CommitAsrResult(w, t, result)
  \/ ClaimRouter(w, t) \/ CommitRoute(w, t) \/ RouteAnswered(w, t)
  \/ CommitRoutingError(w, t) \/ RouteRefused(w, t)
  \/ ClaimIngress(w, t) \/ BindRun(w, t) \/ CommitHermesResult(w, t)
  \/ \E withGrace \in BOOLEAN : CommitHermesError(w, t, withGrace)
  \/ ErrorIgnored(w, t) \/ ReleaseIngress(w, t) \/ HermesPending(w, t)
  \/ HistoryRead(w, t) \/ HistoryNothing(w, t) \/ HistoryAnswer(w, t) \/ LateResultIgnored(w, t)

Next ==
  \/ \E t \in Turn :
       \/ AcceptTurn(t)
       \/ \E s \in Stage : JobExpires(t, s)
       \/ LeaseRunsOut(t) \/ GraceRunsOut(t)
       \/ \E kind \in ScheduleFinals : ScheduleFinal(t, kind)
       \/ \E i \in DOMAIN events[t] : AckEvent(t, i)
       \/ \E w \in Worker : Handler(w, t) \/ \E s \in Stage : ClaimJob(w, t, s)
  \/ \E w \in Worker : Complete(w) \/ Fail(w) \/ Vanish(w)
  \/ Recover

Spec == Init /\ [][Next]_vars

-----------------------------------------------------------------------------
(* Properties.                                                             *)

\* The stage whose job has to bring an accepted turn its next step.
StageOf(t) ==
  IF Routed(t) THEN "hermes"
  ELSE IF t \in Voice /\ asr[t].outcome # "VALID_TRANSCRIPT" THEN "asr"
  ELSE "route"

\* No accepted turn is forgotten: until it has a FINAL, the job of its stage
\* is open, through every crash between a handler's effect and its receipt,
\* every refused claim and every give-up (so that the attempts or the
\* deadline of that job bring about a FINAL at the latest).
NoTurnStranded ==
  \A t \in Turn : state[t] # "RECEIVING" /\ ~Answered(t) => job[t][StageOf(t)].phase = "OPEN"

\* Which FINAL may follow which on one turn: an answer replaces a Hermes
\* error, a routing or asr error that a left-over job put on a turn already
\* routed (see RoutingErrorMeansUnrouted), and what a schedule answered; the
\* errors of the later stages replace a schedule's FINAL as well, only that
\* a Hermes error does not replace a confirmation.
Replaces(t, new, old) ==
  \/ old = "ROUTED"
  \/ old = "hermes" /\ new = "success"
  \/ old \in {"routing", "asr"} /\ Routed(t) /\ new \in {"success", "hermes"}
  \/ old = "confirmed" /\ new \in {"success", "asr", "no_speech"}
  \/ old = "schedule" /\ new \in {"success", "hermes", "asr", "no_speech"}

\* The FINAL versions of a turn tell one story, whichever attempts, late
\* answers and schedule requests race for it: Hermes' answer is the last word
\* (never twice, never replaced by an error), a schedule answers only first,
\* and each other version is followed by those that may replace it.
FinalVersions ==
  \A t \in Turn : \A i \in 1 .. Len(events[t]) - 1 : Replaces(t, events[t][i + 1], events[t][i])

\* The state of a turn agrees with its newest FINAL and with what the device
\* has acknowledged, in whatever order versions and ACKs arrive: delivered or
\* failed only if exactly the newest version was acknowledged.
StateAgreesWithAcks ==
  \A t \in Turn :
    /\ state[t] = "DELIVERED" => Succeeded(t) /\ LastAcked(t)
    /\ state[t] = "FAILED_PERMANENT" => Final(t) \in {"hermes", "routing", "asr"} /\ LastAcked(t)
    /\ state[t] \in {"EXPIRED", "LATE_RESULT_GRACE"} => Final(t) = "hermes"
    /\ state[t] = "FINAL_READY" /\ LastAcked(t) => Final(t) \in {"no_speech", "schedule"}
    /\ state[t] = "HERMES_PENDING" => Routed(t) /\ ~Answered(t)

\* Neither a late answer nor a repeated or belated ACK revives a turn whose
\* answer was delivered or whose grace period has ended unacknowledged.  A
\* turn that only its schedule's confirmation delivered is taken up again by
\* the stages still at work on it, and by nothing but a new version of the
\* FINAL.
EndedTurnsStay ==
  [][\A t \in Turn :
       state[t] \in {"DELIVERED", "EXPIRED"} /\ state'[t] # state[t]
         => Final(t) = "confirmed" /\ Len(events'[t]) > Len(events[t])]_vars

\* Turns of a user are routed in the order they were accepted, whichever
\* route job is claimed first: before a turn is routed, every earlier one was
\* routed or has its FINAL.
RoutedInOrder ==
  \A t, u \in Turn :
    Routed(t) /\ seq[u] \in 1 .. seq[t] - 1 => Routed(u) \/ Answered(u)

\* A Hermes session works on one turn at a time and in order of acceptance,
\* across two queues: once a turn's ingress row has been claimed, no earlier
\* turn of the session can still be submitted.
SubmittedInOrder ==
  \A t, u \in Turn :
    ingress[t].token # 0 /\ SessionOf[u] = SessionOf[t] /\ seq[u] \in 1 .. seq[t] - 1
      => ingress[u].status \notin {"QUEUED", "IN_PROGRESS", "LAPSED"}

\* A turn, its FINAL versions, their deliveries and acknowledgements agree.
TurnsAgree == TypeOK /\ FinalVersions /\ StateAgreesWithAcks

\* Neither the routes nor the submissions of a session overtake one another.
TurnsInOrder == RoutedInOrder /\ SubmittedInOrder

Jobs == Turn \X Stage
Contract == INSTANCE JobContract WITH
  Job <- Jobs, Max <- [p \in Jobs |-> JobAttempts[p[2]]],
  phase <- [p \in Jobs |-> job[p[1]][p[2]].phase],
  current <- [p \in Jobs |-> job[p[1]][p[2]].current],
  last <- [p \in Jobs |-> job[p[1]][p[2]].last],
  committed <- [p \in Jobs |-> {}],
  handed <- [p \in Jobs |-> IF job[p[1]][p[2]].phase = "FAILED" THEN 1 ELSE 0]

\* What the handlers see of their jobs is what the queue promises: the steps
\* of this module are steps of JobContract, the specification WorkerJobs is
\* shown to implement.
JobsKeepContract == Contract!Spec

\* FINAL_ERROR_MESSAGES says of a routing error that the project of the
\* request could not be determined.  It does not hold: a worker that dies
\* after commit_route leaves its route job open, no later attempt can finish
\* it (claim_router finds the row DONE), and its failure puts a routing error
\* on a turn that Hermes is working on.
RoutingErrorMeansUnrouted ==
  \A t \in Turn : Routed(t) => \A i \in DOMAIN events[t] : events[t][i] # "routing"

=============================================================================
