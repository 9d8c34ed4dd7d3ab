----------------------------- MODULE PartUpload -----------------------------
(***************************************************************************)
(* The upload of one turn and the removal of its audio, in                 *)
(* recorder_next/store.py: create_turn, put_chunk, finish_part,            *)
(* accept_turn, the source clean-up of commit_asr_result and recover, with *)
(* the files they write and unlink and the cleanup receipts that guard     *)
(* them (features.py, recover_cleanup_receipts).                           *)
(*                                                                         *)
(* Every operation here that touches files holds the write lock of the     *)
(* store from its first to its last step, so at most one is in progress    *)
(* (task); what is hard is that the process may die between any two steps, *)
(* that a file operation may fail, and that the same request comes again,  *)
(* or another one for the same chunk.  Rows change with a commit, files at *)
(* once.                                                                   *)
(*                                                                         *)
(* A payload stands for the bytes of a chunk, a content (a sequence of     *)
(* payloads) for the bytes of a file together with its digest and size.    *)
(* Temporary names are left out: os.replace and linkat publish a file with *)
(* all its content or not at all.                                          *)
(***************************************************************************)
EXTENDS Integers, Sequences, FiniteSets, CleanupReceipts

CONSTANTS
  Part, Audio,   \* the declared parts, and those of kind audio
  Payload, Size, \* what a chunk may hold, and its bytes
  NumSeqs,       \* chunk numbers are 0 .. NumSeqs - 1
  Asserted,      \* the contents a finish request may assert by digest and size
  Declared,      \* [Part -> Nat or Undeclared], declared_bytes of the manifest
  Undeclared,
  PartLimit, TurnLimit,  \* max_audio_bytes and the like, max_turn_bytes
  DiskFills,     \* whether a put may be refused by free disk space or the
                 \* quota of the user, which change from one request to the next
  None           \* no payload, no content, no file, no receipt

ASSUME Kinds == Audio \subseteq Part /\ IsFiniteSet(Part)
ASSUME Sizes == Size \in [Payload -> Nat]
ASSUME NullsApart == None \notin Payload /\ None \notin Seq(Payload)
ASSUME Manifest == Declared \in [Part -> Nat \cup {Undeclared}]
ASSUME Bounds == NumSeqs \in Nat /\ PartLimit \in Nat /\ TurnLimit \in Nat
                 /\ Asserted \subseteq Seq(Payload)
ASSUME FillsOrNot == DiskFills \in BOOLEAN

VARIABLES
  turn,     \* state, whether there is a transcript, authoritative_asr_outcome
            \* and source_deleted
  part,     \* turn_parts: the content it was finished with, source_path set or not
  chunk,    \* turn_chunks: the payload of each row, None without a row
  disk,     \* what each path holds
  receipt,  \* storage_cleanup_receipts
  task,     \* the operation that holds the write lock
  frozen,   \* the clean-up targets a worker holds after commit_asr_result
  forgotten \* history: the receipts a refused put took from an earlier leftover

vars == <<turn, part, chunk, disk, receipt, task, frozen, forgotten>>

Seqs == 0 .. NumSeqs - 1
PartBin == -1                      \* the leaf part.bin; a chunk's leaf is its number
Path == Part \X (Seqs \cup {PartBin})
Content == {<<x>> : x \in Payload} \cup Asserted

\* A receipt, and a target of the source clean-up, name a path and the content
\* that may be removed there.
Receipt == {r \in [path: Path, content: Content] :
              IF r.path[2] = PartBin THEN r.content \in Asserted ELSE Len(r.content) = 1}
ChunkReceipt(p, s, x) == [path |-> <<p, s>>, content |-> <<x>>]
PartReceipt(p, w) == [path |-> <<p, PartBin>>, content |-> w]

Steps == {"down", "idle", "prepared", "written", "assembling", "linked",
          "recovering", "leased", "unlinked", "converging", "removed"}
Idle == [step |-> "idle", on |-> None, todo |-> {}]
Down == [Idle EXCEPT !.step = "down"]

TypeOK ==
  /\ turn \in [state: {"ABSENT", "RECEIVING", "ACCEPTED"}, transcript: BOOLEAN,
               outcome: {"NONE", "VALID_TRANSCRIPT", "PROVIDER_ERROR"}, source_deleted: BOOLEAN]
  /\ part \in [Part -> [whole: {None} \cup Asserted, source: BOOLEAN]]
  /\ chunk \in [Part -> [Seqs -> {None} \cup Payload]]
  /\ disk \in [Path -> {None} \cup Content]
  /\ receipt \in [Receipt -> Status]
  /\ task \in [step: Steps, on: {None} \cup Receipt, todo: SUBSET Receipt]
  /\ frozen \subseteq Receipt /\ forgotten \subseteq Receipt

Init ==
  /\ turn = [state |-> "ABSENT", transcript |-> FALSE, outcome |-> "NONE", source_deleted |-> FALSE]
  /\ part = [p \in Part |-> [whole |-> None, source |-> FALSE]]
  /\ chunk = [p \in Part |-> [s \in Seqs |-> None]]
  /\ disk = [path \in Path |-> None]
  /\ receipt = [r \in Receipt |-> "NONE"]
  /\ task = Idle
  /\ frozen = {} /\ forgotten = {}

-----------------------------------------------------------------------------
(* What the rows and the files say.                                        *)

Complete(p) == part[p].whole # None

\* The bytes of a content or of some numbered payloads, told apart and counted.
Octets(content) == UNION {{i} \X (1 .. Size[content[i]]) : i \in DOMAIN content}
Bytes(content) == Cardinality(Octets(content))

\* The payloads of the rows of a part, by their numbers.
Held(p) == [s \in {s \in Seqs : chunk[p][s] # None} |-> chunk[p][s]]

TurnBytes == Cardinality(UNION {{p} \X Octets(Held(p)) : p \in Part})

\* Mutant of FitsPart: the chunk at hand does not count.
FitsPartBefore(p, x) ==
  /\ Bytes(Held(p)) <= PartLimit /\ TurnBytes <= TurnLimit
  /\ Declared[p] # Undeclared => Bytes(Held(p)) <= Declared[p]

\* The limits _put_chunk checks again inside its transaction.
FitsPart(p, x) ==
  /\ Bytes(Held(p)) + Size[x] <= PartLimit /\ TurnBytes + Size[x] <= TurnLimit
  /\ Declared[p] # Undeclared => Bytes(Held(p)) + Size[x] <= Declared[p]

\* What _finish_part asks of the request before it looks at a chunk.
Finishable(w) == Bytes(w) <= PartLimit

\* The rows are the chunks 0 .. n - 1, their files hold what the rows say, and
\* together they are what the request asserts and the manifest declares.
Assembled(p, w) ==
  /\ Finishable(w)
  /\ Len(w) <= NumSeqs
  /\ \A s \in Seqs : IF s < Len(w)
                      THEN chunk[p][s] = w[s + 1] /\ disk[<<p, s>>] = <<w[s + 1]>>
                      ELSE chunk[p][s] = None
  /\ Declared[p] # Undeclared => Bytes(w) = Declared[p]

\* _cleanup_reference_state: the content a row expects at the path; a part that
\* is not COMPLETE does not refer to its own part.bin.
RefersTo(path) ==
  IF path[2] # PartBin
  THEN IF chunk[path[1]][path[2]] = None THEN None ELSE <<chunk[path[1]][path[2]]>>
  ELSE IF Complete(path[1]) /\ part[path[1]].source THEN part[path[1]].whole ELSE None

ReferenceOf(r) == CASE RefersTo(r.path) = None      -> "unowned"
                    [] RefersTo(r.path) = r.content -> "owned"
                    [] OTHER                        -> "conflict"

VerdictOn(r) == Verdict(ReferenceOf(r), r.content, disk[r.path], None)

\* _audio_cleanup_targets_tx: every file an audio part of the turn owns.
Targets == {r \in Receipt : r.path[1] \in Audio /\ RefersTo(r.path) = r.content}

-----------------------------------------------------------------------------
(* Requests of the device.                                                 *)

CreateTurn ==
  /\ task = Idle /\ turn.state = "ABSENT"
  /\ turn' = [turn EXCEPT !.state = "RECEIVING"]
  /\ part' = [p \in Part |-> [whole |-> None, source |-> TRUE]]
  /\ UNCHANGED <<chunk, disk, receipt, task, frozen, forgotten>>

\* put_chunk beyond its replays and early refusals: the rollback receipt is
\* committed before anything is written.
PreparePut(p, s, x) ==
  /\ task = Idle /\ turn.state = "RECEIVING"
  /\ ~Complete(p) /\ chunk[p][s] = None
  /\ LET r == ChunkReceipt(p, s, x) IN
     /\ receipt' = [receipt EXCEPT ![r] = Prepared(@)]
     /\ task' = [Idle EXCEPT !.step = "prepared", !.on = r]
     /\ forgotten' = forgotten \ {r}
  /\ UNCHANGED <<turn, part, chunk, disk, frozen>>

\* The transaction refuses before the write: a limit, the quota of the user, or
\* the free space of the disk.  The receipt is discarded, even where the file of
\* an earlier write, which failed or died, is at the path.
RefusePut ==
  /\ task.step = "prepared"
  /\ ~FitsPart(task.on.path[1], task.on.content[1]) \/ DiskFills
  /\ receipt' = [receipt EXCEPT ![task.on] = Discarded(@)]
  /\ forgotten' = IF disk[task.on.path] = task.on.content THEN forgotten \cup {task.on} ELSE forgotten
  /\ task' = Idle
  /\ UNCHANGED <<turn, part, chunk, disk, frozen>>

\* _safe_write: os.replace puts the chunk over whatever the path held.
WriteChunk ==
  /\ task.step = "prepared"
  /\ FitsPart(task.on.path[1], task.on.content[1])
  /\ disk' = [disk EXCEPT ![task.on.path] = task.on.content]
  /\ task' = [task EXCEPT !.step = "written"]
  /\ UNCHANGED <<turn, part, chunk, receipt, frozen, forgotten>>

CommitChunk ==
  /\ task.step = "written"
  /\ chunk' = [chunk EXCEPT ![task.on.path[1]][task.on.path[2]] = task.on.content[1]]
  /\ receipt' = [receipt EXCEPT ![task.on] = "NONE"]
  /\ task' = Idle
  /\ UNCHANGED <<turn, part, disk, frozen, forgotten>>

\* finish_part of a part that is not COMPLETE, asserting the content w.
PrepareFinish(p, w) ==
  /\ task = Idle /\ turn.state # "ABSENT"
  /\ ~Complete(p)
  /\ LET r == PartReceipt(p, w) IN
     /\ receipt' = [receipt EXCEPT ![r] = Prepared(@)]
     /\ task' = [Idle EXCEPT !.step = "assembling", !.on = r]
  /\ UNCHANGED <<turn, part, chunk, disk, frozen, forgotten>>

\* The chunks are read into an anonymous inode, compared with what was asserted
\* and declared, and linked; linkat replaces nothing.
LinkPart ==
  /\ task.step = "assembling"
  /\ Assembled(task.on.path[1], task.on.content)
  /\ disk[task.on.path] = None
  /\ disk' = [disk EXCEPT ![task.on.path] = task.on.content]
  /\ task' = [task EXCEPT !.step = "linked"]
  /\ UNCHANGED <<turn, part, chunk, receipt, frozen, forgotten>>

CommitPart ==
  /\ task.step = "linked"
  /\ part' = [part EXCEPT ![task.on.path[1]] = [whole |-> task.on.content, source |-> TRUE]]
  /\ receipt' = [receipt EXCEPT ![task.on] = "NONE"]
  /\ task' = Idle
  /\ UNCHANGED <<turn, chunk, disk, frozen, forgotten>>

\* The transaction of a put or a finish fails after the write was begun, before
\* or after the file was published: its own receipt is recovered at once.
RollBack ==
  /\ \/ task.step \in {"written", "assembling", "linked"}
     \/ task.step = "prepared" /\ FitsPart(task.on.path[1], task.on.content[1])
  /\ task' = [Idle EXCEPT !.step = "recovering", !.todo = {task.on}]
  /\ UNCHANGED <<turn, part, chunk, disk, receipt, frozen, forgotten>>

\* Mutant of AcceptTurn: one finished part is enough.
AcceptTurnEarly ==
  /\ task = Idle /\ turn.state = "RECEIVING"
  /\ \E p \in Part : Complete(p)
  /\ turn' = [turn EXCEPT !.state = "ACCEPTED"]
  /\ UNCHANGED <<part, chunk, disk, receipt, task, frozen, forgotten>>

AcceptTurn ==
  /\ task = Idle /\ turn.state = "RECEIVING"
  /\ \A p \in Part : Complete(p)
  /\ turn' = [turn EXCEPT !.state = "ACCEPTED"]
  /\ UNCHANGED <<part, chunk, disk, receipt, task, frozen, forgotten>>

-----------------------------------------------------------------------------
(* Recovery of receipts.                                                   *)

\* recover_cleanup_receipts without a selection, as the scheduler calls it.
RecoverReceipts ==
  /\ task = Idle
  /\ \E r \in Receipt : Live(receipt[r])
  /\ task' = [Idle EXCEPT !.step = "recovering", !.todo = {r \in Receipt : Live(receipt[r])}]
  /\ UNCHANGED <<turn, part, chunk, disk, receipt, frozen, forgotten>>

LeaseReceipt(r) ==
  /\ task.step = "recovering" /\ r \in task.todo
  /\ Claimable(receipt[r])
  /\ receipt' = [receipt EXCEPT ![r] = "CLAIMED"]
  /\ task' = [step |-> "leased", on |-> r, todo |-> task.todo \ {r}]
  /\ UNCHANGED <<turn, part, chunk, disk, frozen, forgotten>>

\* The lease of a process that died is still running, or the row is gone.
SkipReceipt(r) ==
  /\ task.step = "recovering" /\ r \in task.todo
  /\ ~Claimable(receipt[r])
  /\ task' = [task EXCEPT !.todo = @ \ {r}]
  /\ UNCHANGED <<turn, part, chunk, disk, receipt, frozen, forgotten>>

Judge(verdict, status) ==
  /\ task.step = "leased"
  /\ VerdictOn(task.on) = verdict
  /\ receipt' = [receipt EXCEPT ![task.on] = status]
  /\ task' = [task EXCEPT !.step = "recovering", !.on = None]
  /\ UNCHANGED <<turn, part, chunk, disk, frozen, forgotten>>

UnlinkLeftover ==
  /\ task.step = "leased" /\ VerdictOn(task.on) = "unlink"
  /\ disk' = [disk EXCEPT ![task.on.path] = None]
  /\ task' = [task EXCEPT !.step = "unlinked"]
  /\ UNCHANGED <<turn, part, chunk, receipt, frozen, forgotten>>

\* The unlink raises; the receipt waits for another recovery.
UnlinkFails == Judge("unlink", "PENDING")

CompleteReceipt ==
  /\ task.step = "unlinked"
  /\ receipt' = [receipt EXCEPT ![task.on] = "NONE"]
  /\ task' = [task EXCEPT !.step = "recovering", !.on = None]
  /\ UNCHANGED <<turn, part, chunk, disk, frozen, forgotten>>

EndRecovery ==
  /\ task.step = "recovering" /\ task.todo = {}
  /\ task' = Idle
  /\ UNCHANGED <<turn, part, chunk, disk, receipt, frozen, forgotten>>

\* 300 seconds later nobody honours the lease of a claimant that died.
LeaseRunsOut(r) ==
  /\ receipt[r] = "CLAIMED" /\ task.on # r
  /\ receipt' = [receipt EXCEPT ![r] = "BLOCKED"]
  /\ UNCHANGED <<turn, part, chunk, disk, task, frozen, forgotten>>

-----------------------------------------------------------------------------
(* Removal of transcribed audio.                                           *)

\* commit_asr_result: the transcript and the list of files to remove.
CommitTranscript ==
  /\ task = Idle /\ turn.state = "ACCEPTED" /\ turn.outcome = "NONE"
  /\ Audio # {}
  /\ turn' = [turn EXCEPT !.outcome = "VALID_TRANSCRIPT", !.transcript = TRUE]
  /\ frozen' = Targets
  /\ UNCHANGED <<part, chunk, disk, receipt, task, forgotten>>

\* The asr job runs out of time or attempts while the turn has no FINAL:
\* _project_terminal_job_tx writes PROVIDER_ERROR, over a transcript too.
AsrJobFails ==
  /\ task = Idle /\ turn.state = "ACCEPTED" /\ turn.outcome # "PROVIDER_ERROR"
  /\ Audio # {}
  /\ turn' = [turn EXCEPT !.outcome = "PROVIDER_ERROR"]
  /\ UNCHANGED <<part, chunk, disk, receipt, task, frozen, forgotten>>

\* The worker that committed goes on, or finds its claim lost and does not.
WorkerConverges ==
  /\ task = Idle /\ frozen # {}
  /\ task' = [Idle EXCEPT !.step = "converging", !.todo = frozen]
  /\ frozen' = {}
  /\ UNCHANGED <<turn, part, chunk, disk, receipt, forgotten>>

WorkerStops ==
  /\ frozen # {}
  /\ frozen' = {}
  /\ UNCHANGED <<turn, part, chunk, disk, receipt, task, forgotten>>

\* retry_source_deletion of recover: the targets are taken from the rows again.
RetryDeletion ==
  /\ task = Idle
  /\ turn.outcome = "VALID_TRANSCRIPT" /\ ~turn.source_deleted
  /\ task' = [Idle EXCEPT !.step = "converging", !.todo = Targets]
  /\ UNCHANGED <<turn, part, chunk, disk, receipt, frozen, forgotten>>

\* Mutant of RemoveSource: a file that is gone counts as another file.
RemoveSourceOnce(r) ==
  /\ task.step = "converging" /\ r \in task.todo
  /\ disk[r.path] = r.content
  /\ disk' = [disk EXCEPT ![r.path] = None]
  /\ task' = [step |-> "removed", on |-> r, todo |-> task.todo \ {r}]
  /\ UNCHANGED <<turn, part, chunk, receipt, frozen, forgotten>>

\* A file that is there must hold what the row said when it was frozen.
RemoveSource(r) ==
  /\ task.step = "converging" /\ r \in task.todo
  /\ disk[r.path] \in {None, r.content}
  /\ disk' = [disk EXCEPT ![r.path] = None]
  /\ task' = [step |-> "removed", on |-> r, todo |-> task.todo \ {r}]
  /\ UNCHANGED <<turn, part, chunk, receipt, frozen, forgotten>>

\* The unlink raises, or the file is another one: its row stays.
LeaveSource(r) ==
  /\ task.step = "converging" /\ r \in task.todo
  /\ disk[r.path] # None
  /\ task' = [task EXCEPT !.todo = @ \ {r}]
  /\ UNCHANGED <<turn, part, chunk, disk, receipt, frozen, forgotten>>

RemoveRow ==
  /\ task.step = "removed"
  /\ LET p == task.on.path[1]  leaf == task.on.path[2] IN
     IF leaf = PartBin
     THEN part' = [part EXCEPT ![p].source = FALSE] /\ UNCHANGED chunk
     ELSE chunk' = [chunk EXCEPT ![p][leaf] = None] /\ UNCHANGED part
  /\ task' = [task EXCEPT !.step = "converging", !.on = None]
  /\ UNCHANGED <<turn, disk, receipt, frozen, forgotten>>

\* Mutant of EndConverging: the parts alone decide.
EndConvergingEarly ==
  /\ task.step = "converging" /\ task.todo = {}
  /\ turn' = [turn EXCEPT !.source_deleted = turn.outcome = "VALID_TRANSCRIPT"
                                             /\ \A p \in Audio : ~part[p].source]
  /\ task' = Idle
  /\ UNCHANGED <<part, chunk, disk, receipt, frozen, forgotten>>

EndConverging ==
  /\ task.step = "converging" /\ task.todo = {}
  /\ turn' = [turn EXCEPT !.source_deleted =
                \/ turn.source_deleted
                \/ /\ turn.outcome = "VALID_TRANSCRIPT" /\ Targets = {}
                   /\ \A p \in Audio : ~part[p].source]
  /\ task' = Idle
  /\ UNCHANGED <<part, chunk, disk, receipt, frozen, forgotten>>

-----------------------------------------------------------------------------

\* The process dies; the next one starts with the rows and the files.
Crash ==
  /\ task # Down
  /\ task' = Down
  /\ frozen' = {}
  /\ UNCHANGED <<turn, part, chunk, disk, receipt, forgotten>>

Restart ==
  /\ task = Down
  /\ task' = Idle
  /\ UNCHANGED <<turn, part, chunk, disk, receipt, frozen, forgotten>>

Recovery ==
  \/ RecoverReceipts \/ EndRecovery \/ UnlinkLeftover \/ UnlinkFails \/ CompleteReceipt
  \/ Judge("complete", "NONE") \/ Judge("block", "BLOCKED")
  \/ \E r \in Receipt : LeaseReceipt(r) \/ SkipReceipt(r) \/ LeaseRunsOut(r)

Removal ==
  \/ CommitTranscript \/ AsrJobFails \/ WorkerConverges \/ WorkerStops
  \/ RetryDeletion \/ RemoveRow \/ EndConverging
  \/ \E r \in Receipt : RemoveSource(r) \/ LeaveSource(r)

Next ==
  \/ CreateTurn \/ AcceptTurn
  \/ \E p \in Part, s \in Seqs, x \in Payload : PreparePut(p, s, x)
  \/ \E p \in Part, w \in Asserted : PrepareFinish(p, w)
  \/ RefusePut \/ WriteChunk \/ CommitChunk \/ LinkPart \/ CommitPart \/ RollBack
  \/ Recovery \/ Removal \/ Crash \/ Restart

Spec == Init /\ [][Next]_vars

-----------------------------------------------------------------------------
(* Properties.                                                             *)

\* A file no row refers to is one that recovery still knows about: whatever
\* dies or fails between the write of a file and the commit of its row, a live
\* receipt names the path with exactly this content.  One thing undoes this: the
\* refusal of another put of the same chunk.
LeftoversWatched ==
  \A r \in Receipt :
    disk[r.path] = r.content /\ RefersTo(r.path) = None
      => Live(receipt[r]) \/ r \in forgotten

\* When the turn says that its source is deleted, no audio row is left, and an
\* audio file that is left is one that recovery still knows about.
DeletedMeansGone ==
  turn.source_deleted =>
    \A p \in Audio, leaf \in Seqs \cup {PartBin} :
      /\ RefersTo(<<p, leaf>>) = None
      /\ \A r \in Receipt :
           r.path = <<p, leaf>> /\ disk[r.path] = r.content
             => Live(receipt[r]) \/ r \in forgotten

\* Every file that no row refers to has a receipt, and a source that is called
\* deleted is gone.
FilesAreTrue == TypeOK /\ LeftoversWatched /\ DeletedMeansGone

\* No sequence of puts, retries and crashes gets more bytes into the rows than
\* the manifest and the limits allow.
LimitsHold ==
  /\ TurnBytes <= TurnLimit
  /\ \A p \in Part :
       /\ Bytes(Held(p)) <= PartLimit
       /\ Declared[p] # Undeclared => Bytes(Held(p)) <= Declared[p]

\* What a device can read: the row with the file it names.
Stored(p, s) ==
  IF chunk[p][s] = None \/ disk[<<p, s>>] = None THEN None ELSE Head(disk[<<p, s>>])
Readable(p) ==
  IF Complete(p) /\ part[p].source THEN disk[<<p, PartBin>>] ELSE None
StoredNow == [p \in Part |-> [s \in Seqs |-> Stored(p, s)]]
WholeNow == [p \in Part |-> part[p].whole]
ReadableNow == [p \in Part |-> Readable(p)]

\* With rows and files read together, the upload keeps what PartStore promises:
\* neither a crash nor a recovery nor another request takes a stored chunk or a
\* finished part away or changes it, until a transcript is committed.
Contract == INSTANCE PartStore WITH
  stored <- StoredNow, whole <- WholeNow, readable <- ReadableNow,
  accepted <- turn.state = "ACCEPTED", released <- turn.transcript

StoredIsKept == Contract!Spec

-----------------------------------------------------------------------------
(* Fairness: an operation that has begun goes on, the scheduler calls      *)
(* recover again and again, and after some time neither crashes nor the    *)
(* file system gets in the way any more.                                   *)

Fault == Crash \/ UnlinkFails \/ \E r \in Receipt : LeaveSource(r)

TaskGoesOn ==
  \/ Restart \/ RefusePut \/ CommitChunk \/ CommitPart \/ RollBack
  \/ EndRecovery \/ UnlinkLeftover \/ CompleteReceipt
  \/ Judge("complete", "NONE") \/ Judge("block", "BLOCKED")
  \/ RemoveRow \/ EndConverging
  \/ \E r \in Receipt : LeaseReceipt(r) \/ SkipReceipt(r) \/ RemoveSource(r)

Fairness ==
  /\ WF_vars(TaskGoesOn)
  /\ WF_vars(\E r \in Receipt : LeaseRunsOut(r))
  /\ SF_vars(RecoverReceipts) /\ SF_vars(RetryDeletion)
  /\ <>[][~Fault]_vars

FairSpec == Spec /\ Fairness

\* A leftover does not stay: the file of a write that never got its row is in
\* the end removed, replaced, or committed after all.
LeftoversGo ==
  \A r \in Receipt :
    disk[r.path] = r.content /\ RefersTo(r.path) = None
      ~> ~(disk[r.path] = r.content /\ RefersTo(r.path) = None)

\* Audio that was transcribed does not stay, however often its removal is cut
\* off half way, unless the failing asr job takes the transcript back.
SourceGoes ==
  turn.outcome = "VALID_TRANSCRIPT"
    ~> turn.source_deleted \/ turn.outcome # "VALID_TRANSCRIPT"

=============================================================================
