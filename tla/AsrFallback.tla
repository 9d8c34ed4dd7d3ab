----------------------------- MODULE AsrFallback -----------------------------
(***************************************************************************)
(* service.run_asr without a provider chain: the asr job of one recording  *)
(* asks the providers of asr_fallback_order one after the other, under a   *)
(* generation of the turn that is raised before each; and the recording no *)
(* provider can take.  TurnProtocol has the turn around it, and a chain in *)
(* its place.                                                              *)
(***************************************************************************)
EXTENDS Integers, Sequences, SequencesExt

CONSTANTS
  Worker,
  Order,       \* asr_fallback_order
  Configured,  \* the stages of it that have a provider
  Attempts,    \* max_attempts of the job
  MaxFaults    \* deaths and lost leases (bound)

VARIABLES
  turn,     \* asr_generation and asr_stage, authoritative_asr_outcome, FINAL, route job
  journal,  \* asr_attempts: place in the order, generation, what was answered
  job,      \* the asr job: phase, attempts, worker whose claim is live
  worker,   \* what each worker holds in memory
  faults

vars == <<turn, journal, job, worker, faults>>

Nobody == "nobody"
Answers == {"transcript", "silence", "refused", "failing", "error"}
Resting == [step |-> "idle", index |-> 0, generation |-> 0, answer |-> "error"]
MaxGeneration == Attempts * Len(Order)

TypeOK ==
  /\ turn \in [generation: 0 .. MaxGeneration, stage: 0 .. Len(Order), taken: BOOLEAN,
               outcome: {"none", "VALID_TRANSCRIPT", "NO_SPEECH", "PROVIDER_ERROR"},
               final: {"none", "asr", "no_speech"}, route: BOOLEAN]
  /\ \A i \in DOMAIN journal : journal[i] \in
       [index: DOMAIN Order, generation: 1 .. MaxGeneration, answer: Answers]
  /\ job \in [phase: {"OPEN", "SUCCEEDED", "FAILED"}, attempts: 0 .. Attempts,
              by: Worker \cup {Nobody}]
  /\ worker \in [Worker -> [step: {"idle", "read", "stage", "ask", "commit", "raise", "giveup", "done"},
                            index: 0 .. Len(Order), generation: 0 .. MaxGeneration, answer: Answers]]
  /\ faults \in 0 .. MaxFaults

Init ==
  /\ turn \in [generation: {0}, stage: {0}, taken: BOOLEAN, outcome: {"none"}, final: {"none"},
               route: {FALSE}]
  /\ journal = <<>>
  /\ job = [phase |-> "OPEN", attempts |-> 0, by |-> Nobody]
  /\ worker = [w \in Worker |-> Resting]
  /\ faults = 0

At(w, step) == worker[w].step = step
GoTo(w, step) == worker' = [worker EXCEPT ![w].step = step]
Rests(w) == worker' = [worker EXCEPT ![w] = Resting]
Fault == faults < MaxFaults /\ faults' = faults + 1

\* _assert_worker_effect
Fenced(w) == job.by = w

-----------------------------------------------------------------------------
(* The job.                                                                *)

Claim(w) ==
  /\ At(w, "idle") /\ job.phase = "OPEN" /\ job.by = Nobody /\ job.attempts < Attempts
  /\ job' = [job EXCEPT !.attempts = @ + 1, !.by = w]
  /\ GoTo(w, "read")
  /\ UNCHANGED <<turn, journal, faults>>

\* commit_protocol_error: an error, unless there is a FINAL.
ProtocolError == [turn EXCEPT !.final = IF @ = "none" THEN "asr" ELSE @]

\* The job fails for good; _project_terminal_job_tx, over a transcript too.
FailForGood ==
  /\ job' = [job EXCEPT !.phase = "FAILED", !.by = Nobody]
  /\ turn' = IF turn.final = "none" THEN [turn EXCEPT !.final = "asr", !.outcome = "PROVIDER_ERROR"] ELSE turn

Expires ==
  /\ job.phase = "OPEN"
  /\ FailForGood
  /\ UNCHANGED <<journal, worker, faults>>

\* The lease of a worker that died, or of one that was stopped for too long.
Lapses ==
  /\ job.by # Nobody
  /\ IF At(job.by, "idle") THEN UNCHANGED faults ELSE Fault
  /\ IF job.attempts < Attempts
     THEN job' = [job EXCEPT !.by = Nobody] /\ UNCHANGED turn
     ELSE FailForGood
  /\ UNCHANGED <<journal, worker>>

Dies(w) ==
  /\ ~At(w, "idle") /\ Fault
  /\ Rests(w)
  /\ UNCHANGED <<turn, journal, job>>

\* LeaseConflict, wherever the handler looks at its claim.
GivesWay(w) ==
  /\ worker[w].step \notin {"idle", "ask"} /\ ~Fenced(w)
  /\ Rests(w)
  /\ UNCHANGED <<turn, journal, job, faults>>

Complete(w) ==
  /\ At(w, "done") /\ Fenced(w)
  /\ job' = [job EXCEPT !.phase = "SUCCEEDED", !.by = Nobody]
  /\ Rests(w)
  /\ UNCHANGED <<turn, journal, faults>>

-----------------------------------------------------------------------------
(* The handler.                                                            *)

Read(w) ==
  /\ At(w, "read") /\ Fenced(w)
  /\ turn.taken \/ turn.outcome # "none"
  /\ worker' = [worker EXCEPT
       ![w].step = IF turn.outcome # "none" THEN "done" ELSE IF Order = <<>> THEN "giveup" ELSE "stage",
       ![w].index = IF Order = <<>> THEN 0 ELSE 1, ![w].generation = turn.generation]
  /\ UNCHANGED <<turn, journal, job, faults>>

\* _commit_unsupported_audio: set_asr_stage does not know the stage
\* media-validation and raises, which ends the job.
Unsupported(w) ==
  /\ At(w, "read") /\ Fenced(w) /\ ~turn.taken /\ turn.outcome = "none"
  /\ FailForGood /\ Rests(w)
  /\ UNCHANGED <<journal, faults>>

\* set_asr_stage
SetStage(w) ==
  /\ At(w, "stage") /\ Fenced(w)
  /\ IF turn.generation = worker[w].generation /\ turn.outcome = "none"
     THEN /\ turn' = [turn EXCEPT !.generation = @ + 1, !.stage = worker[w].index]
          /\ worker' = [worker EXCEPT ![w].step = "ask", ![w].generation = @ + 1]
     ELSE GoTo(w, "done") /\ UNCHANGED turn
  /\ UNCHANGED <<journal, job, faults>>

\* transcribe: a stage without a provider is an error.
Ask(w) ==
  /\ At(w, "ask")
  /\ \E a \in IF Order[worker[w].index] \in Configured THEN Answers ELSE {"error"} :
       worker' = [worker EXCEPT ![w].step = "commit", ![w].answer = a]
  /\ UNCHANGED <<turn, journal, job, faults>>

\* The next provider is asked after a failure in passing, or none at all; not
\* after silence, nor after a refusal.
GoesOn(a, index) == a \in {"failing", "error"} /\ index < Len(Order)

\* What an answer makes of the turn; a transcript comes with the route job.
Outcome(a) ==
  CASE a = "transcript" -> [turn EXCEPT !.outcome = "VALID_TRANSCRIPT", !.route = TRUE]
    [] a = "silence"    -> [turn EXCEPT !.outcome = "NO_SPEECH", !.final = "no_speech"]
    [] OTHER            -> [turn EXCEPT !.outcome = "PROVIDER_ERROR", !.final = "asr"]

\* commit_asr_result under the generation and the stage that was asked; what
\* is not authoritative only leaves its row.  Under a live claim they are still
\* what they were.
Commit(w) ==
  LET a == worker[w].answer
      index == worker[w].index
  IN
  /\ At(w, "commit") /\ Fenced(w)
  /\ turn.generation = worker[w].generation /\ turn.stage = index
  /\ journal' = Append(journal, [index |-> index, generation |-> turn.generation, answer |-> a])
  /\ IF GoesOn(a, index)
     THEN worker' = [worker EXCEPT ![w].step = "stage", ![w].index = @ + 1] /\ UNCHANGED turn
     ELSE IF a = "failing" THEN GoTo(w, "raise") /\ UNCHANGED turn
     ELSE turn' = Outcome(a) /\ GoTo(w, IF a \in {"refused", "error"} THEN "giveup" ELSE "done")
  /\ UNCHANGED <<job, faults>>

\* The last provider failed in passing: once more, while attempts remain.
Raise(w) ==
  /\ At(w, "raise") /\ Fenced(w)
  /\ IF job.attempts < Attempts
     THEN job' = [job EXCEPT !.by = Nobody] /\ Rests(w)
     ELSE GoTo(w, "giveup") /\ UNCHANGED job
  /\ UNCHANGED <<turn, journal, faults>>

GiveUp(w) ==
  /\ At(w, "giveup") /\ Fenced(w)
  /\ turn' = ProtocolError
  /\ GoTo(w, "done")
  /\ UNCHANGED <<journal, job, faults>>

Handler(w) ==
  \/ Read(w) \/ Unsupported(w) \/ SetStage(w) \/ Ask(w) \/ Commit(w) \/ Raise(w) \/ GiveUp(w)
  \/ Complete(w) \/ GivesWay(w)

AsrNext ==
  \/ \E w \in Worker : Claim(w) \/ Handler(w) \/ Dies(w)
  \/ Expires \/ Lapses

AsrSafety == Init /\ [][AsrNext]_vars

AsrSpec ==
  /\ AsrSafety
  /\ WF_vars(\E w \in Worker : Claim(w))
  /\ \A w \in Worker : WF_vars(Handler(w))
  /\ WF_vars(Lapses /\ At(job.by, "idle"))

-----------------------------------------------------------------------------
(* Properties.                                                             *)

\* The providers are asked in the configured order, each because the one before
\* it failed in passing; nobody is asked after an authoritative answer, and no
\* answer of a provider asked under an older generation counts.
AskedInOrder ==
  /\ \A i \in DOMAIN journal :
       LET entry == journal[i] IN
       /\ entry.index > 1 =>
            i > 1 /\ journal[i - 1].index = entry.index - 1 /\ journal[i - 1].answer \in {"failing", "error"}
       /\ i < Len(journal) =>
            /\ entry.answer \in {"failing", "error"}
            /\ entry.generation < journal[i + 1].generation
            /\ entry.answer = "error" => entry.index < Len(Order)
  /\ turn.outcome \in {"VALID_TRANSCRIPT", "NO_SPEECH"} =>
       journal # <<>> /\ Last(journal).answer \in {"transcript", "silence"}

\* An asr job that succeeds has told the turn something.
SuccessIsHeard == job.phase = "SUCCEEDED" => turn.final # "none" \/ turn.route

\* What was heard stays, but for the failure of a job that did not live to
\* report it.
HeardStays ==
  [][/\ turn.final # "none" => turn'.final = turn.final
     /\ turn'.outcome # turn.outcome =>
          turn.outcome = "none" \/ (turn'.outcome = "PROVIDER_ERROR" /\ job'.phase = "FAILED")]_vars

\* Every recording is transcribed or answered.
RecordingsAnswered == <>(turn.final # "none" \/ turn.route)

=============================================================================
