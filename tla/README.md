# Recorder Next: TLA+ models and proofs

Recorder Next is a server (Python, SQLite, threads) between voice recorders and
an assistant called Hermes. A device uploads a *turn* (text, audio or both); the
server transcribes it, chooses the project and session it belongs to, submits it to
Hermes, delivers the answer and the speech made from it, and keeps trying through
crashes, timeouts and late answers. Around that it fires reminders, forwards what a
phone overhears, keeps diagnostics under consent, publishes updates, and drains when
it is told to stop. This directory models the parts of `src/recorder_next` in which
the order of concurrent steps, or the place of a crash, decides what happens. TLC
checks small instances of all of them; TLAPS proves every safety property the passing runs
check for every instance; what is only model-checked is liveness.

How to run, in this directory, for example:

    tlc -workers 2 -config MCTurnProtocol.cfg MCTurnProtocol
    tlapm TurnProtocolProofs.tla

## 1. The system

One process holds one `RecorderService` (service.py) over one `Store` (store.py)
whose further operations are in `FeatureGroups` (features.py). State is in SQLite
tables (schema.sql) and files. Every operation of the store is one transaction:
`Store._tx` opens `BEGIN IMMEDIATE` under a process-wide lock, so transactions are
atomic and totally ordered and the rest (provider calls, file writes, what a thread
remembers between two transactions) is not. Steps come from HTTP requests of devices,
HTTP worker-control calls, one background worker loop and one background scheduler
loop.

| component | state | operations | correct when | modelled in |
|---|---|---|---|---|
| Durable worker queue (features.py 1127-1666, `DurableWorker` 3664-3795) | `worker_jobs`, `worker_attempts` | enqueue, claim (with three sweeps), renew, effect fence, complete, fail, recover | one attempt in charge at a time; nothing committed by an attempt that lost its lease; every failure handed to the row that waits, once; every job ends | `WorkerJobs`, `JobContract` |
| Turn protocol (store.py 2270-3267, 4411-4775; service.py 487-910, 1071-1147, 1501-1633) | `turns`, `router_queue`, `route_receipts`, `session_ingress`, `hermes_run_bindings`, `final_versions`, `events`, `outbox` | accept, handlers of the stages asr, route, hermes, hermes_history, commit of results and errors, ACK, recover | no accepted turn is lost; at most one answer; order of acceptance kept per user and per session; state agrees with what the device acknowledged | `TurnProtocol`, `AsrFallback` |
| Hermes submission (service.py 1533-1633, adapters.py `HttpHermesGateway`) | one job, one ingress row, one run binding; the runs of the gateway | preflight, POST with its repetition, bind, poll, commit, history search | the answer is that of the one bound run | `HermesWire` |
| Upload (store.py 1352-2268, media.py) | `turn_parts`, `turn_chunks`, chunk and part files | create_turn, put_chunk, missing_sequences, finish_part, removal of transcribed audio | a part is finished only with exactly the bytes promised; a repeated chunk is harmless; audio goes once it is transcribed | `PartUpload`, `PartStore`, `MissingPages` |
| Managed files and cleanup receipts (features.py 691-1109, store.py 1121-1229) | files, `storage_cleanup_receipts` | prepare, claim, inspect, unlink, complete, release | no referenced file removed, none unreferenced without a receipt | `CleanupReceipts` in the modules that have files |
| TTS artifacts, relay, playback (store.py 2431-2462, 3312-3692) | `tts_artifacts`, `playback_journal` | create, set result, relay receipt, playback ACK, expire | audio is played or expires, never both; then it goes | `TtsPlayback` |
| Provider chains (adapters.py `ProviderChain`) | one call's targets and deadline; the chain frozen in a job | try targets in order, validate, freeze | only retryable failures move on, within the deadline; every artifact ends | `ProviderChain` |
| Schedules (store.py 3694-4409, service.py 379-423) | `schedules`, `schedule_occurrences`, parent turns | create with confirmation or failure receipt, claim due, commit, cancel, recover | a reminder is delivered once, to a device and project that are valid then; the user is told the truth about it | `Schedules` |
| Eavesdrop sessions (features.py 2397-2978, service.py 1149-1330) | `eavesdrop_sessions`, `_segments`, `_replies`, `_decisions` | start, pause, stop, append, process, deliver | silent segments stay local, nothing is delivered after the end, no answer is lost | `Eavesdrop` |
| Diagnostics (features.py 2980-3662) | `diagnostics_consents`, events, bundles, tombstones | consent, ingest, export, delete, purge | nothing kept without consent, deleted means gone, an export is complete | `Diagnostics`, `ExportPages` |
| Schema and migrations (store.py `_initialize`, `_migrate_c7_diagnostics`) | schema marker, legacy rows and files | reprojection of legacy diagnostics at start | no bundle lost, none called ready while raw, converted once | `DiagnosticsMigration` |
| Updates and history (features.py, groups 4 and 5) | `update_manifests`, `update_channels`; the accepted turns | publish, download; read in pages | what is announced is there; a reader misses nothing | `UpdateFeed`, `HistoryPages` |
| Service lifecycle (service.py 177-457, `__main__.py`, http.py) | admitted operations, background threads, handler slots, readiness | begin, end, start, stop, drain, exit, /healthz | shutdown ends; no operation runs after it; readiness is true | `ServiceLifecycle` |
| Wire and HTTP contracts, HTTP framing, configuration, projects, devices, attachments, helpers | rows with versions, or none | validation, CRUD | shapes, versions | section 6 |

Interactions. Accepting a turn enqueues an asr or a route job in the same
transaction. Each handler commits its effect and enqueues the next stage's job in one
transaction (asr -> route -> hermes), fenced by the worker's claim of its own job, and
*then* reports a receipt in another. A job that fails for good is *projected*
(`_project_terminal_job_tx`): the failure becomes a FINAL event of the turn, or the end
of a tts artifact, or a history job that looks for a late answer, or the end of an
eavesdrop decision. The scheduler loop requeues lapsed leases of jobs, router rows and
ingress rows, ends grace periods, recovers cleanup receipts, and fires reminders. A
device polls events and acknowledges them through the outbox.

What is hard. A worker may be overtaken or die between any two of its transactions,
in particular between the effect and the receipt. Lease tokens, not owner names, tell
attempts apart: the worker-control endpoint takes the name from its caller
(service.py:2115). Timestamps are read before the write lock is waited for
(features.py:199), so a transaction may work with an old time. Three different leases
(job, router row, ingress row) overlap, and not every transaction checks all three. A
turn may have several FINAL versions, whose ACKs come in any order. Files change at
once, rows with a commit, and a process may die between the two. A page of a list is
read while the list changes. `hazards` in PROJECT.json lists these with their lines
and the properties that are about them.

## 2. Modules

| module | content |
|---|---|
| `JobContract` | what the queue promises of a job, without clock, leases, owners |
| `WorkerJobs`, `MCWorkerJobs`, `WorkerJobsProofs` | the queue and its workers, with clock, leases and journal |
| `TurnProtocol`, `MCTurnProtocol`, `TurnProtocolProofs` | turns, their stage handlers, queues, FINALs and ACKs, over jobs that keep `JobContract` |
| `AsrFallback` | the asr handler where no provider chain is configured |
| `HermesWire` | one submission to Hermes from the claim to the FINAL, with the gateway |
| `Submissions` | what goes to Hermes: `Eavesdrop` and `HermesWire` side by side |
| `CleanupReceipts` | the life of one receipt: the operators the modules with files share |
| `PartStore`, `PartUpload`, `PartUploadProofs` | what an upload promises; the upload with its rows, files, receipts and crashes |
| `MissingPages` | a device that learns page by page which chunks to send |
| `TurnUpload` | `PartUpload` and `MissingPages` side by side |
| `TtsPlayback` | the audio of one answer |
| `ProviderChain`, `MCProviderChain` | the chain of providers under a tts job, and the idle tick |
| `Speech` | `WorkerJobs`, `TtsPlayback`, `ProviderChain` and `AsrFallback` side by side |
| `Schedules`, `MCSchedules`, `SchedulesProofs` | reminders and those who fire them |
| `Eavesdrop`, `EavesdropProofs` | one listening session with its forwarding jobs |
| `Diagnostics`, `DiagnosticsProofs`, `ExportPages`, `DiagnosticsMigration` | bundles under consent; the export; the start over an old schema |
| `DeviceDiagnostics` | these three side by side |
| `UpdateFeed`, `UpdateFeedProofs`, `HistoryPages` | one update channel with a device that downloads; the history read model |
| `Fetching` | these two side by side |
| `ServiceLifecycle`, `MCServiceLifecycle`, `ServiceLifecycleProofs` | the process |
| `MCPartUpload`, `MCSpeech`, `MCEavesdrop`, `MCDiagnostics`, `MCUpdateFeed` | instances for TLC of what belongs together |

`Speech`, `Submissions`, `TurnUpload`, `DeviceDiagnostics` and `Fetching` only put parts
together. Each EXTENDS the main module of a subsystem, INSTANCEs the smaller ones over
variables of their own, states the assumptions on their constants, and the properties
that the run of the subsystem checks and its proof module proves. The parts share no state
in these modules: where the code lets them meet, it is through jobs (`JobContract`), receipts
(`CleanupReceipts`) and the gateway's keys, and each part has its own of these.

`JobContract` is the seam between the queue and those who use it. `WorkerJobs`
implements it (`ImplementsContract`, checked and proved); `TurnProtocol` uses jobs only
in the way it allows (`JobsKeepContract`, checked and proved), so that leases, clocks
and sweeps do not multiply the states of the turn. `Eavesdrop`, `HermesWire`,
`AsrFallback` and `ProviderChain` use jobs in the same abstract form. `PartStore` is the
second abstract specification: what a device may rely on when it uploads. `PartUpload`
implements it with a refinement mapping that reads rows and files *together*, so a row
whose file is gone counts as not stored.

### WorkerJobs

One variable per column of `worker_jobs` that decides something (`status`, `owner`,
`attempt`, `lease`, `nextAt`, `deadline`, `lastError`), `outcome` for the rows of
`worker_attempts`, `projected` and `effect` as histories, `artifact` for the
`tts_artifacts` row of a tts job, and `running` for the claim a worker thread holds in
memory.

| action | code |
|---|---|
| `Enqueue` | `_enqueue_worker_job_tx`; a second call changes nothing and is no step |
| `ClaimNothing`, `ClaimJob` | `claim_worker_job` with its sweeps: overdue, tts artifact gone, attempts exhausted; then the oldest due job |
| `Renew` | `renew_worker_lease`, from the heartbeat |
| `AssertAuthority` | `assert_worker_effect_authority`, before provider calls |
| `CommitEffect` | any stage transaction that begins with `_assert_worker_effect_tx` |
| `SkipTts`, `SetTtsResult` | `generate_tts` and `set_tts_result` |
| `Complete`, `Fail` | `complete_worker_job`, `fail_worker_job` |
| `Recover` | `recover_worker_jobs` |
| `ExpireArtifacts` | `expire_tts_artifacts` |
| `Crash`, `Tick` | the process dies; time passes |

Every action takes its timestamp from `Stamps`, the instants at most `MaxWait` old:
the clock is read before the lock is waited for. The lease token is
`uuid5(job, attempt)`, so it is the attempt number. At the deadline the fence ends the
job and returns False; callers that raise roll that back (`CommitEffect`), callers that
return keep it (`AssertAuthority`, `SetTtsResult`): the model has both. A failed hermes
job may enqueue a history job within the same transaction (`Followers`); whether it
does depends on the turn, hence the choice.

### TurnProtocol

`state`, `seq`, `asr` and `grace` are columns of `turns`; `router` and `ingress` the
rows of the two queues; `events` the ROUTED and FINAL events in their order and `acked`
the outbox; `job` the stage jobs as `JobContract` sees them; `running` what a handler
has in memory: its claim, the transaction it comes to next and a number it has read (an
asr generation, an ingress token). A handler is the sequence of transactions it makes,
one action each:

| handler | actions |
|---|---|
| acceptance | `AcceptTurn` |
| queue | `ClaimJob`, `JobExpires`, `Complete`, `Fail` (through `Project`) |
| asr (`run_asr` with a provider chain) | `AsrRead`, `SetAsrStage`, `CommitAsrResult`, `AsrUnavailable`, `AsrGiveUp` |
| route (`route_next`) | `ClaimRouter`, `CommitRoute`, `RouteAnswered`, `CommitRoutingError`, `RouteRefused` |
| hermes (`process_next_hermes`) | `ClaimIngress`, `BindRun`, `CommitHermesResult`, `CommitHermesError`, `ReleaseIngress`, `HermesPending` |
| history | `HistoryRead`, `HistoryNothing`, `HistoryAnswer`, `LateResultIgnored` |
| create_schedule | `ScheduleFinal`, a confirmation or a failure receipt |
| everything else | `ErrorIgnored` (an error of any stage that a FINAL keeps back), `LeaseRunsOut`, `GraceRunsOut`, `Recover`, `AckEvent`, `Vanish` |

Time is what it decides: a lease or grace period that runs may run out, at any moment;
renewing one (`renew_session_ingress`) is no step of its own.
`ClaimRouter`, `ClaimIngress` and `BindRun` do not look at the worker's claim, as in
the code; the commits do (`Fence`). `Vanish` is a crash, and also a handler whose
transaction was refused (LeaseConflict, which the worker loop swallows).

A turn may ask for a schedule (`ScheduleFinal`), as a rule while Hermes works on it: the
confirmation is then its first FINAL, a success, and the answer of Hermes its second, since
`_commit_hermes_result_tx` looks only for a Hermes error that has come to its end. The
confirmation may have been acknowledged by then, and the turn leaves DELIVERED for
FINAL_READY. Neither the confirmation nor the failure receipt touches the queue rows and jobs
of the turn: its stages go on, and find a turn that has a FINAL. `Replaces` says which
version may follow which; `EndedTurnsStay` makes the exception for a turn its confirmation
delivered, and requires a new version for it.

Two simplifications change no property: the ACK of a ROUTED event only touches its
own outbox row and is left out, and all turns belong to one user, since router queues
of different users never meet.

`AsrFallback` is the same stage without a chain: `Read`, `SetStage`, `Ask`, `Commit`,
`Raise`, `GiveUp` are the steps of `run_asr`, which asks the providers of
`asr_fallback_order` one after the other and raises the generation of the turn before
each; `Unsupported` is `_commit_unsupported_audio`. `HermesWire` opens the step between
`ClaimIngress` and the commit: `Context`, `Preflight`, `Post` (whose request may be
lost, answered with nonsense, or arrive later: `PostUnanswered`, `PostMisanswered`,
`ArrivesLate`), `Bind`, `Poll`, `Commit`, `CommitError`, `Release`, `Check`, and the
history job with `History`, `HistoryFinds`, `HistoryCommits`. The gateway is modelled
from what `submit` relies on (`Takes`, `RunEnds`, `Forgets`, marked external).

### PartUpload, MissingPages, CleanupReceipts

`chunk` and `part` are the rows, `disk` the files, `receipt` the cleanup receipts (one
per path and content, as `_cleanup_receipt_id` names them), `turn` the row of the turn,
and `task` the operation that holds the write lock. `put_chunk` is `PreparePut`,
`WriteChunk`, `CommitChunk` or `RollBack`; `finish_part` is `PrepareFinish`, `LinkPart`,
`CommitPart`; the removal of transcribed audio `CommitTranscript`, `RemoveSource` or
`LeaveSource`, `RemoveRow`, `EndConverging`; recovery `RecoverReceipts`, `LeaseReceipt`,
`Judge`, `UnlinkLeftover`, `CompleteReceipt`. Between any two of them the process may
die (`Crash`), a file operation may fail, and a lease of a receipt may run out.
`CleanupReceipts` has the status table of a receipt (prepare, discard, claim, verdict),
with what `_cleanup_reference_state` and `_managed_file_state` found as its inputs;
`TtsPlayback`, `Diagnostics`, `DiagnosticsMigration` and `UpdateFeed` use it over their
own files.

The bytes of a part and of a turn, which `put_chunk` adds up in SQL (`SUM(byte_length)`), are
counted: `Octets` numbers the bytes of every stored row, and `Bytes` is the size of that set.

`MissingPages` is `missing_sequence_page` with both encodings, and a device that follows
`next_offset` while the chunks it reports arrive. An entry is the chunk it begins with: a
missing chunk in the encoding as a list, the first of a run of them in that as ranges
(`Units`, `Covers`); a page has the entries whose `Rank`, the number of those before, is
between `offset` and `offset + limit`.

### TtsPlayback, ProviderChain

`TtsPlayback` has the artifact, the journal of playback, the file and its two receipts
(`WriteAudio`, `CommitAudio`, `Relay`, `Expire`, `Acknowledge`, `RecoverOwn`,
`MarkDeleted`, ...). `ProviderChain` executes a chain call by call (`Call`, `Advance`):
each outcome (a status, a timeout, broken framing, an audio route that does not exist)
is classified as `_http_status_is_retryable`, `_provider_failure_for_http`, `_eligible`
and the handler classify it; `Create`, `Claim`, `Work`, `Reconcile` are the job around
it and the idle tick that enqueues what `pending_tts` lists; `Restart` starts the
process with another chain.

### Schedules

`schedule` and `occurrence` are the two rows of a reminder, `finals` the FINAL versions
of each parent turn, `turns` and `speech` what a delivery wrote, `active` the projects
and devices that are active, `refused` the create_schedule calls between their failure
and its receipt, `accepted` the users who have an accepted turn of a client, `preclaimed`
the occurrences whose turn id (a uuid5) a turn of a client already has, `pass` where each
scheduler is. `TurnAnswered` is what the stages of the parent turn make of it, before or after
`Create` and `RecordFailure`. `Commit` needs, besides a lease and active devices, a turn to
follow and a free id (`Followable`); without these it refuses for good. A scheduler is the background loop or a
call of `/v1/internal/scheduler/fire`; its pass is `Recover`, `Enqueued`, `Claim`,
`Commit` / `CommitReplays` / `CommitRefused`, `Fired`, and ends with `Succeeds` or
`Fails`, which computes the back-off of the loop. A pass reads the time once; `age` is
how long ago. The version columns are compared only within the transaction that reads
them and are left out.

### Eavesdrop

One session (`Start`, `Pause`, `Resume`, `Activate`, `BeginStop`, `Stop`, `Read`,
`Recover`), its segments (`Append`, and `AppendDies` between file and row), their
decisions and jobs, the handler (`ReadSegment`, `Mark`, `Submit`, `Post`, `Bind`, `Poll`,
`CommitResult`) and the runs of the gateway. `Trouble` names what may happen besides:
the owner stops, the session or the job or the run is too late, the run fails.

### Diagnostics, ExportPages, DiagnosticsMigration

`Diagnostics` is one device: `RecordOptIn`, ingest as `Prepare`, `Write`, `Commit`,
`RollBack`, `Replay`; `ListOrExport` with its expiry; `Delete`, `Sweep`, `Count` and
`Incomplete` of delete_diagnostics, `Purge`; recovery. Every bundle is stored under a
fresh handle, its device's id is kept as a digest. `ExportPages` has the order of the
export's union, its cursor and its limits, and a reader: the rows of a page are those
after the cursor for which everything up to them fits (`Accepted`). Its entries are events,
bundles and the tombstones either becomes by a deletion (`DeleteAll`) or at the end of its
retention (`Expire`, with which every request for a page begins).
`DiagnosticsMigration` is the start over an old schema: the recovery of what an earlier
start left (`Claim`, `Inspect`, `Recovered`), `Stage`, `Write`, `Swap`, `Finalize`,
`Mark`, each of which may be the last thing a start does. `Mark` also replaces the owners
of the tombstones by tokens (`_normalize_diagnostic_tombstones`), after which a further
conversion does not find the row of a tombstone (`Named`). That conversion comes if a
consent has no alias (`AliasLost`: given without an event id, or cleared by the purge) and the
start that meets it dies before its end.

### UpdateFeed, HistoryPages

`Look`, `Link`, `Commit` publish a generation; `Lease`, `Judge`, `Unlink`, `Finish`
recover what a failed publication left. Meanwhile a device downloads without the lock:
`Tell` is get_update_manifest, `Open` read_update_artifact, which hashes the file under
the descriptor it then sends from, `Send` one of the `Slabs` an artifact is sent in, and
after a `Disconnect` the device asks with Range and If-Range for the slabs it misses
(`From`). `HistoryPages` is `history_read_model` with its filters on type and project, its
limits on rows, parts and bytes and its cursor, while turns are accepted and archived,
transcribed (`Transcribed`), put into their project (`Routed`) and answered (`Reworded`). The
type of a turn (`TypeOf`) is read off its transcript first and its parts then, so a text with
audio becomes audio; `late` are the turns that came to be asked for behind the cursor. The loop over
the rows is told by the rows it stops at (`Stops`): what comes before the first of them is
scanned, and it alone decides whether a limit ends the page or refuses it. The scan of the
rows after the cursor has the same items, stop and cursor as the loop written out row by row:
both were compared on every state of the instances before the loop was dropped.

### ServiceLifecycle

`main` is where the main thread is, from `start_background_workers` to the exit code;
`loop` where each background thread is and `shown` what the service knows of it; `conn`
and `slots` the connections; `active` the count of operations; `shutdown`, `stop`,
`life`, `expired` the flags. Every block under the service's lock is one step. The
signal handler runs on the main thread between any two of its steps. What an iteration
or a request does is in the other modules: here it ends well, badly, or late. `health`
is the availability of the dependencies and `/healthz` the operator `VoiceReady`. `Refresh` is
`refresh_production_readiness`, called from outside or never.

## 3. Runs

A run checks several small worlds of one subsystem. Its MC module EXTENDS the main
module of the subsystem, INSTANCEs it with other constants, and the smaller modules
beside it, and adds one variable (`about`, `part`, `what` or `kind`) that is chosen at
the start and says which world the behaviour is in; what belongs to the others rests.
The properties a cfg names are conjunctions of named parts, stated in the module whose
variables they are about, in the one that puts parts together or, where they speak of worlds,
in the MC module. A behaviour of the MC module is one of the specifications the theorems
are about (with the smaller constants of its world, and sometimes fewer steps) while the other
parts stutter, so what is proved holds in it: the converse is what the worlds restrict.

| run | worlds | properties and their parts |
|---|---|---|
| `worker_jobs` | a hermes job with 2 attempts and the history job its failure may enqueue, 2 workers with one owner name, timestamps up to 1 s late, lease 2 s, deadlines 3 s and 2 s | `TypeOK`, `JournalAgrees`, `ProjectedOnce`, `SweepsAreDue` (LeaseHonoured, FailureReasonHolds), `TerminalIsFinal`, `StaleAttemptNeverCommits`, `ImplementsContract` |
| `turns` | one text turn with 2 attempts per stage, and a schedule it asks Hermes for; one recording with 2 asr attempts, and a schedule before it is routed; two text turns of one Hermes session, the earlier with a schedule; 2 workers each | `TurnsAgree` (TypeOK, FinalVersions, StateAgreesWithAcks), `NoTurnStranded`, `TurnsInOrder` (RoutedInOrder, SubmittedInOrder), `EndedTurnsStay`, `JobsKeepContract` |
| `uploads` | two chunks of two sizes into one part on a disk that fills; one chunk into an audio or a text part; one chunk of two contents and a clean-up that must end; a part of five chunks asked for page by page, one to three entries at a time | `FilesAreTrue` (TypeOK, LeftoversWatched, DeletedMeansGone), `CountsAreTrue` (LimitsHold, EncodingsAgree, HidesOnePerArrival), `StoredIsKept` (PartStore is implemented), `UploadsEnd` (LeftoversGo, SourceGoes, EverythingSent) |
| `schedules` | three requests of which two ask for one id, and answers of the turns that ask; two schedulers around the end of a 1 s lease; the loop alone without a failure (the id of the first reminder may be taken), and with one; a user whose first turn is accepted late | `RemindersAgree` (TypeOK, RowsAgree, DeliveredOnce), `PromisesKept` (PromiseKept, ArchivedIsQuiet), `DeliveryIsPermitted`, `RemindersArrive` (RemindersGoOut without a failure, RemindersAreSpoken with one) |
| `eavesdrop` | one segment and 2 workers; two segments whose ids and bytes collide; the same untroubled; one submission of a turn with 2 attempts, 2 POSTs each, 3 runs, 3 faults | `SegmentsAreTrue` (TypeOK, SilentStaysLocal, FilesAgree, DeliveredMeansAnswered, JobsAgree), `EndsAreFinal` (OutcomesStay, NothingAfterTheEnd, JobsKeepContract), `AnsweredByOneRun` (AnswerOfTheBoundRun, AskedOnce, BoundIsBound, AnswerStays), `AnswersArriveUntroubled` (AnswersArrive; SubmissionsEnd) |
| `diagnostics` | two ids under one consent event; one id under two; a request that comes again with other bytes, up to three bundles; an owner who insists on a deletion; an export of three events and a bundle at three times, two to a page; the start on the old schema with two bundles, and with consents that lose their alias | `RowsAreTrue` (TypeOK, RowsHaveFiles, ConsentOnRecord, OneRowPerAlias), `DeletedForGood` (DeletionIsTrue, FileGoesFirst, LeftoversWatched), `ExportComplete`, `ConversionIsSafe` (NothingLost, ReadyIsRedacted, StraysOnRecord, MarkedIsDone, StonesFollow, AliasesKept), `StoredWithConsent`, `DevicesEnd` (DeletedGoes, MigrationEnds) |
| `speech` | a tts job with late timestamps; the audio of one answer with two results and two acknowledgements; a chain with every way a call can end and an overall deadline of 3 s; three artifacts and restarts; a recording and three asr providers of which one is missing | `SpeechIsTrue` (NoOrphanArtifact; RetentionIsTrue, JournalAgrees), `ChainsAgree` (InDeclaredOrder, EndTogether; AskedInOrder, SuccessIsHeard), `EndingsStay` (ReadyAudioSurvives, EndedStays, RefusedIsFinal, HeardStays), `SpeechEnds` (EveryJobSettles, AudioGoes, ArtifactsEnd with one chain, RecordingsAnswered) |
| `service` | two connections and two slots; two connections that wait for one slot and a shutdown that must end; no connection but two dependencies that jobs take down, and somebody outside who may refresh them | `ExitIsSafe` (TypeOK, OperationsCounted, StoppedIsQuiet, ExitIsTrue, ReadyIsTrue), `NothingMoreAdmitted`, `ServiceSettles` (ShutdownEnds, HealthRecovers) |
| `fetching` | two generations of two names, contents and codes; two generations of one name while a device downloads; one publication repeated until it is there; a history of up to five turns of several sizes; one of four turns, two of them yet to be transcribed, routed and answered, read by type and by project; one of small turns that must be read to its end; three rows inspected per page | `FeedIsTrue` (TypeOK, ManifestsServed, LeftoversWatched, FeedInOrder, DownloadsTrue), `NothingMissed` (NothingSkipped, LateOnlyByChange, InOrder), `FetchersEnd` (PublicationResumes, ReadingEnds) |
| `turn_routing_error`, `schedules_starved`, `provider_stalled` | as `turns`, `schedules`; chains that change with a restart | violated: section 5 |

Deadlock checking is off everywhere: jobs, turns, uploads and the process itself end,
and then nothing happens any more.

### Why the bounds are enough

*Attempts and workers.* Attempts interact pairwise: a stale one and the current one.
Two workers and two attempts give every such pair, including a stale worker that
outlives the end of the job. Two jobs are enough for a claim of one to sweep the other
and for a failure to enqueue a job that the same claim takes. `MaxWait = 1` produces
timestamps older than another transaction's; `Horizon` bounds the clock and with it the
lease renewals. The real numbers (`max_attempts` 3 or 100, leases and grace of 30 s,
backoff up to 256 s) only stretch the same orders. In the world of two turns every job
runs once, because neither queue looks at attempts. No worker is free for the history
jobs of a recording, which meet their deadline (30 s), nor for those of the two turns,
which stay open: no other action looks at a history job that is not running.

*Files.* One lock holder at a time, so one path per reason for a conflict: two chunks of
one part (limits, retries), two parts (acceptance), one chunk twice with other bytes.
`MaxFaults` of one to three lets an operation die, its recovery die too, and once more
its repetition. Contents stand for bytes with their digest.

*Reminders.* Three requests: two that race for one id on two parent turns, and one on a
project and a device of its own that must not be held back. A lease of 1 s with a pass that
may take 1 s is the smallest in which a commit comes after its lease; in the worlds with
liveness it is 4 s against a back-off of at most 4 s, the code's 30 s against 30 s.

*Pages.* Five chunks, four entries of an export, five turns with pages of one to three entries:
every page boundary falls on, before and after an entry that changes between two pages. In the
export the bundle is large, and of the events only the first may be large or expires alone; four turns of which
two change their type and project are enough for one to change behind the cursor and one ahead.

*Schedules of a turn.* One schedule request per turn: a second finds a FINAL. It comes where it
meets most: ahead of the route of a recording, while Hermes works on a text, on the earlier of
two turns of a session.

*Process.* Both loops; two connections are enough for one to hold a slot while the other
waits, is refused, or ends after the deadline.

TypeOK of `WorkerJobs` bounds the attempt counter by the largest `max_attempts`, and
that of `TurnProtocol` by the job's own `JobAttempts`: they break if a claim forgets
to count.

### Fairness

Liveness is stated only under what the code's scheduling gives:

  - time passes, and a running lease runs out;
  - the worker loop claims and its handler goes on: `_background_worker_loop` goes on after
    any exception with a delay of at most 30 s, provider calls have timeouts, and
    `DurableWorker.run_once` turns every outcome of a handler into a complete or a fail;
  - the scheduler loop calls `recover` and fires again and again, and the process is
    started again after a crash (Restart): strong fairness where recovery may be kept
    away by another holder of the lock;
  - a user who must act for the property to make sense acts: a publication is repeated, an
    owner insists on a deletion, a device sends what is reported as missing, the service
    is started again;
  - faults come to an end: their number is bounded, or `<>[][~Fault]` says so. A process
    that crashes for ever at the same point is not excluded by the code.

No fairness of `Recover` is assumed for `EveryJobSettles`: jobs settle even if the
scheduler loop never gets as far as `recover_worker_jobs`, which happens in each tick in
which `recover_scheduler` raises. Nothing is assumed of the callers of routes, nor that
anybody refreshes the availability of a dependency: `HealthRecovers` says that the loops recover by
themselves, and a dependency that a job took down is its exception. Where a
world needs weaker conditions (no trouble in `AnswersArriveUntroubled`, one chain for
good in `ArtifactsEnd`), its run says so in its name.

## 4. Proofs

| module | theorem | statement |
|---|---|---|
| `WorkerJobsProofs` | `TypeCorrect` | `Spec => []TypeOK` |
| | `JournalCorrect` | `Spec => []JournalAgrees` |
| | `ProjectionCorrect` | `Spec => []ProjectedOnce` |
| | `TerminalCorrect` | `Spec => TerminalIsFinal` |
| | `FenceCorrect` | `Spec => StaleAttemptNeverCommits` |
| | `SweepsCorrect` | `Spec => []SweepsAreDue` |
| | `NoOrphans`, `AudioSurvives` | `Spec => []NoOrphanArtifact`, `Spec => ReadyAudioSurvives` |
| | `Refinement` | `Spec => ImplementsContract` |
| | `SpeechCorrect`, `ChainsCorrect` | `SpeechSafety => []SpeechIsTrue`, `SpeechSafety => []ChainsAgree` |
| | `EndingsCorrect` | `SpeechSafety => EndingsStay` |
| `TurnProtocolProofs` | `TypeCorrect` | `Spec => []TypeOK` |
| | `TurnsAreRemembered` | `Spec => []NoTurnStranded` |
| | `JobsAsPromised` | `Spec => JobsKeepContract` |
| | `VersionsAreOneStory`, `StatesAgree`, `TurnsTellTheTruth` | `Spec => []TurnsAgree` and its parts |
| | `EndedStays` | `Spec => EndedTurnsStay` |
| | `RoutesInOrder`, `SubmitsInOrder`, `OrderIsKept` | `Spec => []TurnsInOrder` and its parts |
| `SchedulesProofs` | `AgreementHolds` | `Spec => []RemindersAgree` |
| | `PromisesHold` | `Spec => []PromisesKept` |
| | `PermittedOnly` | `Spec => DeliveryIsPermitted` |
| `ServiceLifecycleProofs` | `ServiceIsSafe`, from `TypeCorrect`, `CountIsTrue`, `QuietWhenStopped`, `ExitsAsSaid`, `WellMeansLooping` | `Spec => []ExitIsSafe` |
| | `AdmissionEnds` | `Spec => NothingMoreAdmitted` |
| `PartUploadProofs` | `FilesCorrect` | `Spec => []FilesAreTrue` |
| | `CountsCorrect` | `Spec /\ Paging!Spec => []CountsAreTrue` |
| | `StorageIsKept` | `Spec => StoredIsKept`: PartUpload implements PartStore |
| `DiagnosticsProofs` | `RowsCorrect` | `Spec => []RowsAreTrue` |
| | `DeletionsHold` | `Spec => []DeletedForGood` |
| | `ConsentIsCurrent` | `Spec => StoredWithConsent` |
| | `ExportsComplete` | `Export!Spec => []ExportComplete` |
| | `ConversionCorrect` | `Migration!MigrationSafety => []ConversionIsSafe` |
| `EavesdropProofs` | `SegmentsCorrect` | `Spec => []SegmentsAreTrue` |
| | `EndsHold` | `Spec => EndsAreFinal`, with the refinement of JobContract |
| | `OneRunAnswers` | `Wire!WireSafety => AnsweredByOneRun` |
| `UpdateFeedProofs` | `FeedCorrect` | `Spec => []FeedIsTrue` |
| | `HistoryCorrect` | `History!Spec => []NothingMissed` |

The constants are any sets of jobs, workers, owners, turns (finite), sessions, requests,
projects, devices, loops, connections (finite), parts (finite), payloads, contents, chains,
answers, generations and ids, with any attempt limits, leases, deadlines, delays, sizes, declared
and maximal bytes, page sizes, numbers of chunks, rows, segments, runs, bundles and slabs, and
bounds on faults. What is assumed of them are the named ASSUMEs of the modules: types, nulls that
are no values, `max_attempts` between 1 and the limit the code validates, requests numbered in
the order of their times, that projects and devices have different names, that the parts of a
turn are finitely many, that a page and a scan have room for one entry, that a chain has
a target, that a call ends in one of the ways the code tells apart, and that a gateway sends a
request at least once. The theorems are about the modules' own specifications without the
restrictions the worlds of section 3 add; each inductive invariant below was an invariant of
a TLC run before it was proved.

**Worker queue.** `TypeOK` is not inductive alone: that the attempt counter stays in
`0..AttemptLimit` needs that a row inserted and claimed in the same transaction
(the history job) has had no attempts, which is part of `JournalAgrees`; and
`JournalAgrees` needs the types. So `TypeOK /\ JournalAgrees` is the inductive
invariant (lemma `Inductive`). An intermediate classification carries the rest:
`RowStep` says that whatever a transaction does, to each single job it does one of seven
things (insert, claim, give back, end well, end badly, commit an effect, leave alone).
`NextRow` proves this of every action, sweeps included; `RowKeepsJournal`,
`RowKeepsProjection` and `RowImplements` then work on seven cases for one job and no
longer on the SQL. `OneRunning` is the fact that makes the sweeps work: closing "all
RUNNING attempts" closes exactly the current one.

That a granted lease is honoured (`SweepsCorrect`) is a statement about two steps far
apart: what a worker was promised and who takes its job away. `LeaseInv` adds to types
and journal that no two workers hold one attempt (`AttemptsApart`), for tokens are
numbered per job and not per worker; `QueueStep` says for every action that a claim is
left alone, ended by its holder, renewed by it, or `Spent`: past its lease, past the
deadline, or for an artifact that is gone.

That a job which ends leaves no artifact waiting (`NoOrphans`) needs to know what a receipt
in a worker's hands means (`ReceiptTells`): the audio was produced or is gone, or the job has
ended meanwhile, since the handler that meets the deadline goes on to a receipt. `AudioStep`
says how an artifact and its job move together in every action; `AudioSurvives` is read off it.

**Speech.** Three invariants for the three parts beside the queue. `PlaybackInv` says what the
holder of the lock and each caller that acknowledges rely on: until its end an artifact has no
receipt, a READY artifact has its own bytes on disk, and what is unlinked under a lease is gone
until the receipt says so. `ChainInv` says of a running execution that its calls are those of the
chain frozen in the job, in order, each target before the current one called exactly its
retries + 1 times and the current one as often as its counter says (`ExecutionInOrder`), and of
each artifact that it ends together with its job (`OneTogether`). `FallbackInv` says what a worker
that still holds the job and asks may rely on (`HearerKnows`): nothing is heard and there is no
FINAL, the turn's generation is the one the worker has read, the last entry of the journal is a
failure of the provider before its own, and no entry has the generation it asks under. The
generations are bounded by the attempts times the providers (`SpentBy`). What an overtaken worker does is refused by the generation or by the
claim.

**No turn is forgotten.** `NoTurnStranded` speaks of the job of a turn's stage only; a
step that ends that job must be known to have left something behind. `Fine` says, of
every turn, which jobs there are at each stage and that a job which succeeded has moved
the turn on or answered it (`TurnFine`), and of every worker with a live claim, what the
turn looks like at the step it is at (`WorkerFine`): a worker that has reached the
transaction `done` of the route stage has a routed or answered turn behind it. With
`TypeOK` it is inductive. `JobsAsPromised` needs only the types.

**The versions of a turn.** That only replaceable versions are ever replaced depends on
what a handler *may still do*: a hermes job can only append where the ingress row lets it,
an asr job only while its outcome is open. A schedule's FINAL comes only to a turn without one,
so it is the first, or follows ROUTED, whatever the stages do; what they may write after it
follows from what they check. `Story` relates the ingress row and the newest
version (`IngressTells`), the transcript and the asr job (`TranscriptTells`), what each
worker has read (`WorkerStory`), and says that a claim is in one worker's hands only
(`OneEach`): without the last, two workers could both append the answer of one row.

**Order.** `InOrder` adds to the two properties that acceptance numbers are dense
(`Numbered`: the next number is greater than any given) and that a router row is only
claimed when all earlier ones are settled, and settled rows are routed or answered
(`QueuesTell`). Leases that lapse do not matter: LAPSED rows count as held.

**Reminders.** The inductive invariant is `TypeOK /\ RowsAgree /\ DeliveredOnce /\
PromisesKept` and that whoever is about to commit has a claim in hand. `RowMoves` lists
the six things a step does to a schedule and its occurrence together (make, cancel,
release, claim, fire, leave alone); `MovesKeep` proves the agreement for these, `RowStep`
and `OtherStep` turn them into the invariant, so that each action only shows which of
the six it does. `RowsAgree` is what `DeliveredOnce` needs at a commit: the code updates
the schedule under its own condition (claimed, by this owner), which could differ from
the occurrence's. `PromisesKept` rests on the first FINAL alone: what comes later is appended.

**Process.** `OperationsCounted` alone says nothing of `slots`, and `StoppedIsQuiet` is
not kept by a step of main unless one knows that main comes to `mark` only with the count
at zero and its threads joined (`MainKnows`), that no loop is started once it has been told
to stop (`LoopsBegin`), and that STOPPED is said after a shutdown request (`StoppedTells`);
for `ReadyIsTrue`, that a loop which is not there has not been shown alive (`LoopShown`).

**Upload.** `UploadInv` is TypeOK, what the rows of a turn say of each other (`TurnTrue`),
what the holder of the write lock relies on at each of its steps (`TaskTrue`: a live
receipt from prepare to commit; the chunks of a part are still those it assembled when the
row is written, `RowsAre`), that what a worker has noted for removal may go (`Letting`),
that a row has its file unless the file was let go (`RowsTrue`), `SourceGone` and
`LeftoversWatched`. The refinement of `PartStore` needs all of it: that a chunk once
stored stays readable is not kept by a recovery that unlinks, unless one knows that its
verdict "unlink" is given only for paths no row refers to, at the moment of the unlink and
not of the lease (`VerdictUnlink`, `VerdictComplete`).

**Counts.** `LimitsHold` is kept by a commit because the code compares the sizes under the same
write lock in which it inserts: the invariant `LimitsTrue` adds that a chunk which is written
still fits (`FitsPart`). The rows are counted by their octets, so a step adds the octets of one
chunk to a finite set (`OneMore`). For the pages, `PagesTrue` is inductive: an arrival may shift
the ranks of all later entries by one, or, where it splits a run, the other way, so what a round
can hide is bounded by what arrived during it (`HidesOnePerArrival`). That both encodings say
the same (`EncodingsAgree`) needs that each missing chunk lies in a run that has a first chunk:
an induction over naturals, used as "a set of naturals that is not empty has a least element"
(`LeastNatural`).

**Diagnostics.** `BundleInv` says of every bundle what its row, file and receipt know of
each other (`HandleTrue`), and of the ingest in progress that it is still authorized, since
consent changes only in its absence (`TaskTrue`), and that its alias is free. `DeletionIsTrue`
alone is not inductive: a caller who was told that his bundles are gone relied on a count of
open receipts, so the invariant must know that a deleted bundle's receipt is one that is
counted, and that what a call has deleted stays deleted.

**Export and conversion.** `ExportComplete`, with its types, is inductive as it stands: a page takes
all rows up to its cursor, and an entry that changes its place keeps it in front of the cursor or
is `late`. `UpgradeInv` says of every bundle what its row, its raw and its converted file and its
receipt know of each other at each step of the start (`RowTrue`, `FileTrue`, `StartTrue`); the rows
are swapped all at once, so no row is ahead of another (`AllAtOnce`). A tombstone with a plain owner
is found by the swap, and one with a token meets a further swap only if a consent has no alias
(`StonesFollow`). A start that dies anywhere
leaves a state of this invariant, in which the next one begins.

**Listening.** `SegmentInv` has one conjunct per segment (`SegTrue`) and one per worker
(`WorkTrue`). The facts that carry it: a job exists exactly if a decision was taken to
forward; a worker at `done` has seen the decision taken, so completing the job cannot leave
it open; a worker at `commit` has seen the run completed. `Moves` says what any step may do
to a segment's job and outcome. `NextTrue` proves invariant and moves together, and
`OutcomesStay`, `NothingAfterTheEnd` and the steps of `JobContract` follow from the moves.

**Submission.** `WireInv` says what each worker in the middle of a submission may rely on (the
run it holds is one of the gateway's, and one whose result it reads is completed:
`SubmitterTrue`), that the runs asked for are at most the keys the gateway forgot and the one it
keeps, and that the keys forgotten and the requests still travelling are among the mishaps
(`RunsAsked`), that the attempts of the row and of those about to claim it do not exceed the
job's (`AttemptsSpent`), and that an answer is of the bound run only, which is completed, and a
success exactly if it is of a run (`AnswerTrue`). A second run needs a key the gateway has
forgotten; that none starts once one is bound and no request is on its way counts the requests
under way, not only those answered.

**Update feed.** `FeedInv` adds to `FeedIsTrue` what a publication relies on between its
steps (a live receipt, or a file that was there before with the right bytes) and what a
device relies on (`DeviceTrue`): it knows a published row, and the descriptor it is served
from has that row's bytes, although the path may be unlinked meanwhile. `DownloadsTrue`, that
slabs of different connections fit together, follows because a published row never changes.

**History.** `NothingSkipped` and `InOrder` are kept by a page if all the device has is behind its
cursor while it reads on (`HistoryTrue`). `CursorTells` is what a page must show: everything that
matches up to the new cursor is on it, and nothing on it is past that. There are three cases: all
that was found fits, turns are taken off the end until it does, or nothing was found. In the
last the cursor is the last row inspected, and there is one, since a first row that is too much
refuses the request (`SomethingScanned`). Between the pages turns change: what makes a turn one that
is asked for makes it `late` if it is behind the cursor, and only a transcript (for audio) or a
route (for one project) does (`LateOnlyByChange`).

Only model-checked is what is temporal under fairness: `EveryJobSettles` and the other parts of
`SpeechEnds`, `UploadsEnd`, `RemindersArrive`, `AnswersArriveUntroubled`, `DevicesEnd`,
`ServiceSettles`, `FetchersEnd`. Liveness and ENABLED are out of the prover's reach. So is
induction over data, since the induction theorems of the library take an operator as a
parameter. The models avoid it: sums are sizes of sets or sums whose value the property does not
need, pages and scans are sets of rows with their first and last, and the one
induction over naturals is a fact about well-founded relations. In `HistoryPages` the bytes and
parts of rows are such sums (`MapThenSumSet`): `NothingMissed` holds whatever they come to, as it
is for the code, where they decide only where a page ends.

No module uses RECURSIVE operators.

## 5. What the models found

Three statements of the code's own texts and tests are false of what the code does.
Each has a run that shows the behaviour.

1. **A routing error on a routed turn** (`turn_routing_error`). A worker commits the
   route and dies, or meets the deadline, before its receipt. The hermes job exists and
   another worker is busy with it. The later attempts of the route job find the router
   row DONE, so `route_next` has nothing to do (service.py:1527), and they run out. The
   failure is projected: the turn still has no FINAL, so it gets the routing error,
   whose text (store.py:51) says that the project could not be determined. A Hermes
   result still replaces it. Should the hermes job fail now, its failure
   projects nothing, because the turn has a FINAL; its ingress row stays behind, queued
   for ever, and blocks later turns of that session (store.py:2836).
   A turn whose routing error was acknowledged is FAILED_PERMANENT and leaves that state
   when the answer comes; `EndedTurnsStay` is therefore stated of DELIVERED and EXPIRED.
2. **Reminders that starve** (`schedules_starved`). Failed passes make the delay of the
   scheduler loop as long as an occurrence's lease (both 30 s). From then on an
   occurrence that can never be committed (its device was revoked) is free again at the
   start of every pass, is claimed first by `ORDER BY scheduled_for`, its error ends the
   pass, and the delay stays: no later reminder of any user goes out.
3. **Speech that stalls** (`provider_stalled`). After a restart with another tts chain,
   enqueueing an artifact whose job exists raises ConflictError; the idle tick
   (service.py:1662) lists artifacts whose jobs have ended too, so each tick raises at
   the first of them and those behind it get no job until it expires.

### Observations

These contradict no text the repository states of itself, but a reader of the models
should know them; the models behave like the code in each.

*Turns.* If Hermes fails for a turn that its schedule's confirmation has answered, nothing is
written (store.py:3132): the job succeeds, and the ingress row, IN_PROGRESS and QUEUED again after
its lease, stays ahead of all later turns of the session, whose jobs run out of attempts. A
schedule requested for a turn still being uploaded takes the turn out of RECEIVING, and it is never
accepted. Between `commit_asr_result` and its receipt a worker may die: the transcript is
there and the route job open, but the asr job fails and the turn is told that its speech
was not recognised; the original that the text promises may be deleted. An input Hermes
cannot take is answered with an error and no grace period; its ACK moves the turn to
LATE_RESULT_GRACE all the same (store.py:3252), where it stays. A turn that ends in
no_speech stays FINAL_READY after its ACK. `_commit_unsupported_audio` asks for a stage
that `set_asr_stage` rejects, so no attempt row `unsupported_media` is written and the turn
is answered by the projection of the failing job. Renaming a project between the list the
router reads and the commit makes the routing error final.

*Hermes.* After submit the ingress row is read again into the claim that the commit compares
(`ingress = {**ingress, **bound_ingress}`), so the comparison of tokens is of the row with
itself; the owner's name and the claim of the job alone fence it. A gateway that forgets the
Idempotency-Key may start a second run; only the bound one is used, but the history search
then finds two messages and gives up.

*Upload.* The refusal of a retry discards the receipt of an earlier leftover of the same
bytes. A device that does not say `total_chunks` of an open part is told `complete` with
nothing missing; `missing_sequences` of removed audio lists every chunk while a page lists
none; `complete` may come with chunks never reported, and a second round is needed.

*Speech and providers.* A chain's deadline ends the job for good even if every failure was
passing; `tts_unavailable` says retryable but is not in `_eligible`; a 404 of a listener
without audio routes ends the chain instead of falling back. `accept_turn` of a turn whose asr
job exists raises ConflictError after a restart with another asr chain.

*Reminders.* Revoking a device leaves its schedules; they are claimed and refused until
their project is archived. So are those of a user with no accepted turn of a client, and those
whose turn id a client has taken (store.py:4233-4254), with all devices active
(tests/test_scheduled_final.py:180-233).

*Eavesdrop.* `submit` returning None is `malformed_response`, permanent. A stop between the
read of the session and the POST still forwards. The expiry that append and record_reply
write is rolled back by the error they raise.

*Diagnostics.* delete_diagnostics counts receipts of deletions and purges only. Purge gives up if any receipt of any operation is open, and nothing in src/ calls it:
retention is not bounded. An export misses a tombstone that is put behind its cursor, and a
page filled before the cursor is added is refused. With a consent without an alias (given without an event id, or cleared by the purge), a
start that dies between the first transaction of the migration and its last makes the next
one convert ready rows once more: new handles, and aliases that are digests of handles, so a
device's retry is no longer recognised (features.py:3616-3629 retains the random handle); the
tombstones, whose owners are tokens by then, get handles of no row (store.py:880-891). An
unreadable legacy file makes every start fail.

*Updates and history.* A reader of the history by type or by project misses a turn that is
transcribed or routed behind its cursor. A receipt whose path was later published with other bytes stays
BLOCKED. A leftover with other bytes refuses the publication until recovery. An item of the
history contains the user's message twice, so a text beyond half the page limit refuses every
page that starts with it; the limit on parts counts turns the filter drops.

*Process.* A second call of `request_shutdown` turns STOPPED back to DRAINING.
`last_iteration_success` is never reset. Nothing calls `refresh_production_readiness`: a
dependency that a failed job took down stays down until the process is started again, and
`HealthRecovers` makes it an exception.

## 6. Not modelled

Within the modelled components:
  - the worker-control endpoints with which an external worker completes or fails a
    job with a receipt of its own choice; the model's workers report what their handler
    did;
  - project creation by the router, the tts artifacts of a turn's events, and the content
    of results: a second result with the same content as the first is returned without
    effect, so the model lets only new content be a step;
  - path containment and symlink checks of the file helpers; temporary names, since
    `os.replace` and `linkat` publish a file whole or not at all;
  - attachments of an eavesdrop session and of a request to Hermes, the legacy chat
    route, reading back without a change of state;
  - diagnostic events as stored rows (they have no file and no receipt; the export has
    them), and redaction of content;
  - the wire formats, readiness probes and response parsing of the single providers;
  - iterations of the loops inside `ServiceLifecycle`, and its back-off delays.

Left out for good: `http_contract.py` and `api_models.py` (declarative validation of shapes:
pure functions), HTTP framing and routing by path, `config.py` (a file read once),
the statements that create and extend tables (atomic in SQLite), single-row
administration of projects, devices and attachments (one transaction with a version
check each), media checks, clock, canonical JSON, and the tests, the QA runner
(`src/run`) and deployment files, which are not part of the server.

## 7. Plan

Done: every module planned (queue, turn, upload, speech, reminders, eavesdrop, diagnostics,
drain, providers), and beyond it the Hermes wire, the asr fallback, the migration, the
export, the history, the update feed with its downloads, and the pages of missing chunks.
Proved: every invariant and every action property that a passing run checks, with the
refinements of `JobContract` (by the queue, the turn and listening) and of `PartStore`.

What would add most next:
 1. a refinement of the step between `ClaimIngress` and the commit in `TurnProtocol` by
    `HermesWire`, and of the asr stage by `AsrFallback`;
 2. the worker-control endpoints with receipts of the caller's choice;
 3. the parts that `Speech`, `Submissions` and `DeviceDiagnostics` put side by side over one set of
    receipts and jobs.
