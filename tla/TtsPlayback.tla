---------------------------- MODULE TtsPlayback ----------------------------
(***************************************************************************)
(* One spoken answer, in recorder_next/store.py: set_tts_result,           *)
(* expire_tts_artifacts, relay_tts_received, ack_playback and the recovery *)
(* of the cleanup receipts that expiry and playback leave.                 *)
(*                                                                         *)
(* The audio is generated by a worker that may try again, relayed by a     *)
(* phone, played by the device it is meant for, and expires; these meet in *)
(* any order.  Playback is acknowledged in three steps (a transaction, the *)
(* recovery of its receipt, another transaction), between which other      *)
(* calls run and the process may die.  Audio stands for the bytes of one   *)
(* generation with their digest.  What is not a step of its own holds the  *)
(* write lock (task) from its first to its last step.                      *)
(***************************************************************************)
EXTENDS Integers, FiniteSets, CleanupReceipts

CONSTANTS
  Audio,   \* what the provider may return
  Caller,  \* concurrent playback acknowledgements of the target device
  None

VARIABLES
  artifact,  \* tts_artifacts: status, retention_outcome and the audio of the row
  journal,   \* playback_journal.state
  disk,      \* the file of the artifact
  receipt,   \* the cleanup receipts, by operation and audio
  task,      \* the operation that holds the write lock
  call       \* where each acknowledgement is

vars == <<artifact, journal, disk, receipt, task, call>>

Receipt == {"tts_expiry_cleanup", "tts_playback_cleanup"} \X Audio
Statuses == {"PENDING", "READY", "FAILED_GENERATION", "PLAYED", "EXPIRED"}
Outcomes == {"none", "generation_failed", "expired", "delete_pending", "deleted_after_playback"}

Idle == [step |-> "idle", on |-> None, todo |-> {}, by |-> None]
Down == [Idle EXCEPT !.step = "down"]

TypeOK ==
  /\ artifact \in [status: Statuses, retention: Outcomes, audio: {None} \cup Audio]
  /\ journal \in {"NONE", "RELAY_RECEIVED", "PLAYED"}
  /\ disk \in {None} \cup Audio
  /\ receipt \in [Receipt -> Status]
  /\ task \in [step: {"down", "idle", "written", "recovering", "leased", "unlinked", "done"},
               on: {None} \cup Receipt \cup Audio, todo: SUBSET Receipt, by: {None} \cup Caller]
  /\ call \in [Caller -> {"idle", "recover", "deleted"}]

Init ==
  /\ artifact = [status |-> "PENDING", retention |-> "none", audio |-> None]
  /\ journal = "NONE"
  /\ disk = None
  /\ receipt = [r \in Receipt |-> "NONE"]
  /\ task = Idle
  /\ call = [c \in Caller |-> "idle"]

-----------------------------------------------------------------------------
(* Generation.                                                             *)

\* set_tts_result returns early unless the artifact still waits for audio.
Waiting == artifact.status \in {"PENDING", "FAILED_GENERATION"}

\* set_tts_result writes the file before its row, without a receipt.
WriteAudio(x) ==
  /\ task = Idle /\ Waiting
  /\ disk' = x
  /\ task' = [Idle EXCEPT !.step = "written", !.on = x]
  /\ UNCHANGED <<artifact, journal, receipt, call>>

CommitAudio ==
  /\ task.step = "written"
  /\ artifact' = [status |-> "READY", retention |-> "none", audio |-> task.on]
  /\ task' = Idle
  /\ UNCHANGED <<journal, disk, receipt, call>>

CommitFails ==
  /\ task.step = "written"
  /\ task' = Idle
  /\ UNCHANGED <<artifact, journal, disk, receipt, call>>

GenerationFails ==
  /\ task = Idle /\ Waiting
  /\ artifact' = [artifact EXCEPT !.status = "FAILED_GENERATION", !.retention = "generation_failed"]
  /\ UNCHANGED <<journal, disk, receipt, task, call>>

\* _project_terminal_tts_artifact_tx: the tts job ends without audio.
JobEnds ==
  /\ task = Idle /\ artifact.status = "PENDING"
  /\ artifact' = [artifact EXCEPT !.status = "EXPIRED", !.retention = "expired"]
  /\ UNCHANGED <<journal, disk, receipt, task, call>>

-----------------------------------------------------------------------------
(* Expiry, relay and playback.                                             *)

\* expire_tts_artifacts, when expires_at has passed or by mark_tts_expired: the
\* file is left to the receipt.
Expire ==
  /\ task = Idle
  /\ artifact.status \in {"PENDING", "READY", "FAILED_GENERATION"}
  /\ IF artifact.audio = None
     THEN artifact' = [artifact EXCEPT !.status = "EXPIRED", !.retention = "expired"]
          /\ UNCHANGED receipt
     ELSE artifact' = [artifact EXCEPT !.status = "EXPIRED", !.retention = "delete_pending"]
          /\ receipt' = [receipt EXCEPT ![<<"tts_expiry_cleanup", artifact.audio>>] = Prepared(@)]
  /\ UNCHANGED <<journal, disk, task, call>>

\* relay_tts_received: not after playback, and it completes nothing.
Relay ==
  /\ task = Idle
  /\ artifact.status = "READY" /\ journal # "PLAYED"
  /\ journal' = "RELAY_RECEIVED"
  /\ UNCHANGED <<artifact, disk, receipt, task, call>>

PlaybackReceipt == <<"tts_playback_cleanup", artifact.audio>>

Acknowledge(c) ==
  /\ task = Idle /\ call[c] = "idle"
  /\ artifact.status = "READY"
  /\ artifact' = [artifact EXCEPT !.status = "PLAYED", !.retention = "delete_pending"]
  /\ journal' = "PLAYED"
  /\ receipt' = [receipt EXCEPT ![PlaybackReceipt] = Prepared(@)]
  /\ call' = [call EXCEPT ![c] = "recover"]
  /\ UNCHANGED <<disk, task>>

\* An acknowledgement that comes again takes up the same receipt.
AcknowledgeAgain(c) ==
  /\ task = Idle /\ call[c] = "idle"
  /\ artifact.status = "PLAYED"
  /\ call' = [call EXCEPT ![c] = "recover"]
  /\ UNCHANGED <<artifact, journal, disk, receipt, task>>

\* Mutant of MarkDeleted: the first step is enough.
MarkDeletedEarly(c) ==
  /\ task = Idle /\ call[c] \in {"recover", "deleted"}
  /\ artifact' = [artifact EXCEPT !.retention =
                    IF artifact.status = "PLAYED" THEN "deleted_after_playback" ELSE @]
  /\ call' = [call EXCEPT ![c] = "idle"]
  /\ UNCHANGED <<journal, disk, receipt, task>>

\* The recovery of this call has completed the receipt.
MarkDeleted(c) ==
  /\ task = Idle /\ call[c] = "deleted"
  /\ artifact' = [artifact EXCEPT !.retention =
                    IF artifact.status = "PLAYED" THEN "deleted_after_playback" ELSE @]
  /\ call' = [call EXCEPT ![c] = "idle"]
  /\ UNCHANGED <<journal, disk, receipt, task>>

-----------------------------------------------------------------------------
(* Recovery: of one receipt by an acknowledgement, of all by the scheduler. *)

RecoverOwn(c) ==
  /\ task = Idle /\ call[c] = "recover"
  /\ task' = [Idle EXCEPT !.step = "recovering", !.by = c,
                          !.todo = {r \in {PlaybackReceipt} : Live(receipt[r])}]
  /\ call' = [call EXCEPT ![c] = "idle"]
  /\ UNCHANGED <<artifact, journal, disk, receipt>>

RecoverAll ==
  /\ task = Idle
  /\ \E r \in Receipt : Live(receipt[r])
  /\ task' = [Idle EXCEPT !.step = "recovering", !.todo = {r \in Receipt : Live(receipt[r])}]
  /\ UNCHANGED <<artifact, journal, disk, receipt, call>>

LeaseReceipt(r) ==
  /\ task.step = "recovering" /\ r \in task.todo
  /\ Claimable(receipt[r])
  /\ receipt' = [receipt EXCEPT ![r] = "CLAIMED"]
  /\ task' = [task EXCEPT !.step = "leased", !.on = r, !.todo = @ \ {r}]
  /\ UNCHANGED <<artifact, journal, disk, call>>

SkipReceipt(r) ==
  /\ task.step = "recovering" /\ r \in task.todo
  /\ ~Claimable(receipt[r])
  /\ task' = [task EXCEPT !.todo = @ \ {r}]
  /\ UNCHANGED <<artifact, journal, disk, receipt, call>>

\* Neither operation is a rollback: no row keeps recovery from the file.
VerdictOn(r) == Verdict("unowned", r[2], disk, None)

UnlinkAudio ==
  /\ task.step = "leased" /\ VerdictOn(task.on) = "unlink"
  /\ disk' = None
  /\ task' = [task EXCEPT !.step = "unlinked"]
  /\ UNCHANGED <<artifact, journal, receipt, call>>

\* The unlink raises, or the file is not the one to remove.
GiveUp ==
  /\ task.step = "leased" /\ VerdictOn(task.on) \in {"unlink", "block"}
  /\ receipt' = [receipt EXCEPT ![task.on] =
                   IF VerdictOn(task.on) = "unlink" THEN "PENDING" ELSE "BLOCKED"]
  /\ task' = [task EXCEPT !.step = "recovering", !.on = None]
  /\ UNCHANGED <<artifact, journal, disk, call>>

\* The claim is finished; a call that asked for the recovery learns of it.
CompleteReceipt ==
  /\ \/ task.step = "unlinked"
     \/ task.step = "leased" /\ VerdictOn(task.on) = "complete"
  /\ receipt' = [receipt EXCEPT ![task.on] = "NONE"]
  /\ IF task.by = None
     THEN task' = [task EXCEPT !.step = "recovering", !.on = None] /\ UNCHANGED call
     ELSE task' = Idle /\ call' = [call EXCEPT ![task.by] = "deleted"]
  /\ UNCHANGED <<artifact, journal, disk>>

EndRecovery ==
  /\ task.step = "recovering" /\ task.todo = {}
  /\ task' = Idle
  /\ UNCHANGED <<artifact, journal, disk, receipt, call>>

LeaseRunsOut(r) ==
  /\ receipt[r] = "CLAIMED" /\ task.on # r
  /\ receipt' = [receipt EXCEPT ![r] = "BLOCKED"]
  /\ UNCHANGED <<artifact, journal, disk, task, call>>

Crash ==
  /\ task # Down
  /\ task' = Down
  /\ call' = [c \in Caller |-> "idle"]
  /\ UNCHANGED <<artifact, journal, disk, receipt>>

Restart ==
  /\ task = Down
  /\ task' = Idle
  /\ UNCHANGED <<artifact, journal, disk, receipt, call>>

Next ==
  \/ \E x \in Audio : WriteAudio(x)
  \/ CommitAudio \/ CommitFails \/ GenerationFails \/ JobEnds
  \/ Expire \/ Relay
  \/ \E c \in Caller : Acknowledge(c) \/ AcknowledgeAgain(c) \/ RecoverOwn(c) \/ MarkDeleted(c)
  \/ RecoverAll \/ UnlinkAudio \/ GiveUp \/ CompleteReceipt \/ EndRecovery
  \/ \E r \in Receipt : LeaseReceipt(r) \/ SkipReceipt(r) \/ LeaseRunsOut(r)
  \/ Crash \/ Restart

Spec == Init /\ [][Next]_vars

Fault == Crash \/ CommitFails \/ GiveUp

TaskGoesOn ==
  \/ Restart \/ CommitAudio \/ UnlinkAudio \/ CompleteReceipt \/ EndRecovery
  \/ \E r \in Receipt : LeaseReceipt(r) \/ SkipReceipt(r)

\* The scheduler recovers again and again, a step that has begun goes on, and
\* after some time neither crashes nor the file system get in the way.
FairSpec ==
  /\ Spec
  /\ WF_vars(TaskGoesOn) /\ SF_vars(RecoverAll)
  /\ WF_vars(\E r \in Receipt : LeaseRunsOut(r))
  /\ <>[][~Fault]_vars

-----------------------------------------------------------------------------
(* Properties.                                                             *)

\* While an artifact is READY its audio can be read, whichever attempts,
\* crashes and clean-ups came before; and what says it was deleted is gone.
RetentionIsTrue ==
  /\ artifact.status = "READY" /\ task.step # "written" => disk = artifact.audio
  /\ artifact.retention = "deleted_after_playback" => disk = None

\* The journal and the artifact tell the same story of playback.
JournalAgrees == journal = "PLAYED" <=> artifact.status = "PLAYED"

\* PLAYED and EXPIRED exclude each other and are final: an expiry does not undo
\* a playback, nor a late result or relay an expiry.
EndedStays ==
  [][/\ artifact.status \in {"PLAYED", "EXPIRED"} =>
          artifact'.status = artifact.status /\ artifact'.audio = artifact.audio
     /\ journal = "PLAYED" => journal' = "PLAYED"]_vars

\* Audio that was played or that expired does not stay, whether or not the
\* acknowledgement that removes it is cut off.
AudioGoes == artifact.audio # None /\ artifact.status \in {"PLAYED", "EXPIRED"} ~> disk = None

=============================================================================
