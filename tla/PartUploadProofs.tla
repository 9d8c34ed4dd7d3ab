-------------------------- MODULE PartUploadProofs --------------------------
(***************************************************************************)
(* Theorems about TurnUpload for any parts, payloads, limits, declared     *)
(* sizes and number of chunks, and pages of any size.                      *)
(***************************************************************************)
EXTENDS TurnUpload, FiniteSetTheorems, WellFoundedInduction, TLAPS

Tasks == [step: Steps, on: {None} \cup Receipt, todo: SUBSET Receipt]
Turns == [state: {"ABSENT", "RECEIVING", "ACCEPTED"}, transcript: BOOLEAN,
          outcome: {"NONE", "VALID_TRANSCRIPT", "PROVIDER_ERROR"}, source_deleted: BOOLEAN]

\* The rows of the turn go together.
TurnTrue ==
  /\ turn.state = "ABSENT" =>
       \A p \in Part : ~Complete(p) /\ \A s \in Seqs : chunk[p][s] = None
  /\ turn.state = "ACCEPTED" => \A p \in Part : Complete(p)
  /\ turn.outcome # "NONE" \/ turn.source_deleted => turn.state = "ACCEPTED"
  /\ turn.transcript => turn.outcome # "NONE"
  /\ turn.outcome = "VALID_TRANSCRIPT" => turn.transcript

\* The rows are the chunks of this content.
RowsAre(p, w) ==
  /\ Len(w) <= NumSeqs
  /\ \A s \in Seqs : IF s < Len(w) THEN chunk[p][s] = w[s + 1] /\ disk[<<p, s>>] = <<w[s + 1]>>
                                   ELSE chunk[p][s] = None

\* These files may be let go.
Letting(targets) == \A r \in targets : turn.transcript /\ r.path[1] \in Audio

\* What the holder of the write lock relies on from step to step.
TaskTrue ==
  /\ task.step \in {"prepared", "written", "assembling", "linked"} =>
       task.on \in Receipt /\ Live(receipt[task.on]) /\ ~Complete(task.on.path[1])
  /\ task.step \in {"prepared", "written"} =>
       /\ turn.state = "RECEIVING" /\ task.on.path[2] \in Seqs
       /\ chunk[task.on.path[1]][task.on.path[2]] = None
  /\ task.step \in {"assembling", "linked"} =>
       turn.state # "ABSENT" /\ task.on.path[2] = PartBin
  /\ task.step \in {"written", "linked"} => disk[task.on.path] = task.on.content
  /\ task.step = "linked" => RowsAre(task.on.path[1], task.on.content)
  /\ task.step \in {"leased", "unlinked", "removed"} => task.on \in Receipt
  /\ task.step \in {"unlinked", "removed"} => disk[task.on.path] = None
  /\ task.step \in {"converging", "removed"} => Letting(task.todo)
  /\ task.step = "removed" => Letting({task.on})

\* A row has its file, with what the row says, or its file was let go.
Kept(p, path, content) ==
  disk[path] = content \/ (turn.transcript /\ p \in Audio /\ disk[path] = None)
RowsTrue ==
  \A p \in Part :
    /\ \A s \in Seqs : chunk[p][s] # None => Kept(p, <<p, s>>, <<chunk[p][s]>>)
    /\ Complete(p) /\ part[p].source => Kept(p, <<p, PartBin>>, part[p].whole)

\* A source that is called deleted has no rows.
SourceGone ==
  turn.source_deleted =>
    \A p \in Audio, leaf \in Seqs \cup {PartBin} : RefersTo(<<p, leaf>>) = None

UploadInv ==
  TypeOK /\ TurnTrue /\ TaskTrue /\ Letting(frozen) /\ RowsTrue /\ SourceGone /\ LeftoversWatched

-----------------------------------------------------------------------------
(* Receipts and paths.                                                     *)

LEMMA TypeParts ==
  TypeOK <=>
  /\ turn \in Turns
  /\ part \in [Part -> [whole: {None} \cup Asserted, source: BOOLEAN]]
  /\ chunk \in [Part -> [Seqs -> {None} \cup Payload]]
  /\ disk \in [Path -> {None} \cup Content]
  /\ receipt \in [Receipt -> Status]
  /\ task \in Tasks
  /\ frozen \subseteq Receipt /\ forgotten \subseteq Receipt
BY DEF TypeOK, Turns, Tasks

LEMMA Leaves == PartBin \notin Seqs
BY Bounds DEF PartBin, Seqs

LEMMA Contents ==
  /\ Content \subseteq Seq(Payload) /\ Asserted \subseteq Content
  /\ None \notin Content /\ None \notin Asserted
<1>1. \A x \in Payload : <<x>> \in Seq(Payload)
  OBVIOUS
<1>2. Content \subseteq Seq(Payload)
  BY <1>1, Bounds DEF Content
<1>3. Asserted \subseteq Content
  BY DEF Content
<1> QED BY <1>2, <1>3, NullsApart

LEMMA ReceiptFacts ==
  ASSUME NEW r \in Receipt
  PROVE  /\ r.path \in Path /\ r.path[1] \in Part /\ r.path[2] \in Seqs \cup {PartBin}
         /\ r.path = <<r.path[1], r.path[2]>>
         /\ r.content \in Content /\ r.content # None
         /\ r = [path |-> r.path, content |-> r.content]
<1>1. r \in [path: Path, content: Content]
  BY DEF Receipt
<1>2. r.path \in Path /\ r.content \in Content /\ r = [path |-> r.path, content |-> r.content]
  BY <1>1
<1>3. /\ r.path[1] \in Part /\ r.path[2] \in Seqs \cup {PartBin}
      /\ r.path = <<r.path[1], r.path[2]>>
  BY <1>2 DEF Path
<1> QED BY <1>2, <1>3, Contents

LEMMA ChunkReceipts ==
  ASSUME NEW r \in Receipt, r.path[2] \in Seqs
  PROVE  r.content[1] \in Payload /\ r.content = <<r.content[1]>>
<1>1. Len(r.content) = 1 /\ r.content \in Seq(Payload)
  BY ReceiptFacts, Contents, Leaves DEF Receipt
<1> QED BY <1>1

LEMMA PartReceipts ==
  ASSUME NEW r \in Receipt, r.path[2] = PartBin
  PROVE  r.content \in Asserted
BY DEF Receipt

LEMMA SameReceipt ==
  ASSUME NEW r \in Receipt, NEW q \in Receipt, r.path = q.path, r.content = q.content
  PROVE  r = q
BY ReceiptFacts

LEMMA ChunkReceiptIs ==
  ASSUME NEW p \in Part, NEW s \in Seqs, NEW x \in Payload
  PROVE  /\ ChunkReceipt(p, s, x) \in Receipt
         /\ ChunkReceipt(p, s, x).path = <<p, s>> /\ ChunkReceipt(p, s, x).content = <<x>>
<1>1. <<p, s>> \in Path /\ <<x>> \in Content /\ Len(<<x>>) = 1
  BY DEF Path, Content
<1> QED BY <1>1, Leaves DEF ChunkReceipt, Receipt

LEMMA PartReceiptIs ==
  ASSUME NEW p \in Part, NEW w \in Asserted
  PROVE  /\ PartReceipt(p, w) \in Receipt
         /\ PartReceipt(p, w).path = <<p, PartBin>> /\ PartReceipt(p, w).content = w
<1>1. <<p, PartBin>> \in Path /\ w \in Content
  BY Contents DEF Path
<1> QED BY <1>1 DEF PartReceipt, Receipt

\* What a path refers to, if anything, is a content, and a receipt names both.
LEMMA Referred ==
  ASSUME TypeOK, NEW p \in Part, NEW leaf \in Seqs \cup {PartBin},
         RefersTo(<<p, leaf>>) # None
  PROVE  \E r \in Receipt : r.path = <<p, leaf>> /\ r.content = RefersTo(<<p, leaf>>)
<1>1. CASE leaf \in Seqs
  <2>1. chunk[p][leaf] \in Payload /\ RefersTo(<<p, leaf>>) = <<chunk[p][leaf]>>
    BY <1>1, Leaves, TypeParts DEF RefersTo
  <2> QED BY <1>1, <2>1, ChunkReceiptIs
<1>2. CASE leaf = PartBin
  <2>1. part[p].whole \in Asserted /\ RefersTo(<<p, leaf>>) = part[p].whole
    BY <1>2, TypeParts DEF RefersTo, Complete
  <2> QED BY <1>2, <2>1, PartReceiptIs
<1> QED BY <1>1, <1>2

LEMMA VerdictUnlink ==
  ASSUME NEW r, VerdictOn(r) = "unlink"
  PROVE  RefersTo(r.path) = None
<1>1. ReferenceOf(r) \in {"unowned", "owned", "conflict"}
  BY DEF ReferenceOf
<1>2. ReferenceOf(r) = "unowned"
  BY <1>1 DEF VerdictOn, Verdict
<1> QED BY <1>2 DEF ReferenceOf

LEMMA VerdictComplete ==
  ASSUME NEW r, VerdictOn(r) = "complete"
  PROVE  RefersTo(r.path) = r.content \/ disk[r.path] = None
<1>1. ReferenceOf(r) \in {"unowned", "owned", "conflict"}
  BY DEF ReferenceOf
<1>2. CASE ReferenceOf(r) = "unowned"
  BY <1>2 DEF VerdictOn, Verdict
<1>3. CASE ReferenceOf(r) = "owned"
  BY <1>3 DEF ReferenceOf
<1>4. CASE ReferenceOf(r) = "conflict"
  BY <1>4 DEF VerdictOn, Verdict
<1> QED BY <1>1, <1>2, <1>3, <1>4

LEMMA IdleTyped ==
  /\ Idle \in Tasks /\ Down \in Tasks
  /\ Idle.step = "idle" /\ Down.step = "down" /\ Idle # Down
<1>1. Idle \in Tasks
  BY DEF Idle, Tasks, Steps
<1> QED BY <1>1 DEF Idle, Down, Tasks, Steps

-----------------------------------------------------------------------------
(* Steps that change neither rows nor files.                               *)

\* No leftover loses its receipt.
StillWatched ==
  \A r \in Receipt :
    (Live(receipt[r]) \/ r \in forgotten) /\ disk[r.path] = r.content /\ RefersTo(r.path) = None
      => Live(receipt'[r]) \/ r \in forgotten'

LEMMA QuietStep ==
  ASSUME UploadInv, UNCHANGED <<turn, part, chunk, disk>>,
         receipt' \in [Receipt -> Status], task' \in Tasks,
         frozen' \subseteq Receipt, forgotten' \subseteq Receipt,
         TaskTrue', Letting(frozen)', StillWatched
  PROVE  UploadInv'
<1>0. TypeOK
  BY DEF UploadInv
<1>1. TypeOK'
  BY <1>0, TypeParts DEF TypeOK, Turns, Tasks
<1>2. \A path : RefersTo(path)' = RefersTo(path)
  BY DEF RefersTo, Complete
<1>3. TurnTrue' /\ RowsTrue'
  BY DEF UploadInv, TurnTrue, RowsTrue, Kept, Complete
<1>4. SourceGone'
  BY <1>2 DEF UploadInv, SourceGone
<1>5. LeftoversWatched'
  BY <1>2 DEF UploadInv, LeftoversWatched, StillWatched
<1> QED BY <1>1, <1>3, <1>4, <1>5 DEF UploadInv

\* A task that asks nothing of the rows or the files.
LEMMA Resting ==
  ASSUME task'.step \in {"down", "idle", "recovering"}
  PROVE  TaskTrue'
BY DEF TaskTrue

LEMMA TaskOn ==
  ASSUME NEW step \in Steps, NEW on \in {None} \cup Receipt,
         task' = [Idle EXCEPT !.step = step, !.on = on]
  PROVE  task' \in Tasks /\ task'.step = step /\ task'.on = on
BY IdleTyped DEF Tasks

LEMMA TaskTodo ==
  ASSUME NEW step \in Steps, NEW todo \in SUBSET Receipt,
         task' = [Idle EXCEPT !.step = step, !.todo = todo]
  PROVE  task' \in Tasks /\ task'.step = step /\ task'.todo = todo
BY IdleTyped DEF Tasks

LEMMA NoneLetting == Letting({})
BY DEF Letting

LEMMA PreparePutTrue ==
  ASSUME UploadInv, NEW p \in Part, NEW s \in Seqs, NEW x \in Payload, PreparePut(p, s, x)
  PROVE  UploadInv'
<1> DEFINE r == ChunkReceipt(p, s, x)
<1>t. TypeOK
  BY DEF UploadInv
<1>0. /\ UNCHANGED <<turn, part, chunk, disk, frozen>> /\ forgotten' = forgotten \ {r}
      /\ receipt' = [receipt EXCEPT ![r] = "PENDING"]
      /\ task' = [Idle EXCEPT !.step = "prepared", !.on = r]
      /\ turn.state = "RECEIVING" /\ ~Complete(p) /\ chunk[p][s] = None
  BY DEF PreparePut, Prepared
<1>1. r \in Receipt /\ r.path = <<p, s>> /\ r.path[1] = p /\ r.path[2] = s
  BY ChunkReceiptIs
<1> HIDE DEF r
<1>2. task' \in Tasks /\ task'.step = "prepared" /\ task'.on = r
  BY <1>0, <1>1, TaskOn DEF Steps
<1>3. /\ receipt' \in [Receipt -> Status] /\ receipt'[r] = "PENDING"
      /\ \A q \in Receipt : q # r => receipt'[q] = receipt[q]
  BY <1>t, <1>0, <1>1, TypeParts DEF Status
<1>4. Letting(frozen)' /\ forgotten' \subseteq Receipt /\ frozen' \subseteq Receipt
  BY <1>t, <1>0, TypeParts DEF UploadInv, Letting
<1>5. StillWatched
  BY <1>0, <1>3 DEF StillWatched, Live
<1>6. TaskTrue'
  BY <1>0, <1>1, <1>2, <1>3 DEF TaskTrue, Live, Complete
<1> QED BY <1>0, <1>2, <1>3, <1>4, <1>5, <1>6, QuietStep

LEMMA PrepareFinishTrue ==
  ASSUME UploadInv, NEW p \in Part, NEW w \in Asserted, PrepareFinish(p, w)
  PROVE  UploadInv'
<1> DEFINE r == PartReceipt(p, w)
<1>t. TypeOK
  BY DEF UploadInv
<1>0. /\ UNCHANGED <<turn, part, chunk, disk, frozen, forgotten>>
      /\ receipt' = [receipt EXCEPT ![r] = "PENDING"]
      /\ task' = [Idle EXCEPT !.step = "assembling", !.on = r]
      /\ turn.state # "ABSENT" /\ ~Complete(p)
  BY DEF PrepareFinish, Prepared
<1>1. r \in Receipt /\ r.path = <<p, PartBin>> /\ r.path[1] = p /\ r.path[2] = PartBin
  BY PartReceiptIs
<1> HIDE DEF r
<1>2. task' \in Tasks /\ task'.step = "assembling" /\ task'.on = r
  BY <1>0, <1>1, TaskOn DEF Steps
<1>3. /\ receipt' \in [Receipt -> Status] /\ receipt'[r] = "PENDING"
      /\ \A q \in Receipt : q # r => receipt'[q] = receipt[q]
  BY <1>t, <1>0, <1>1, TypeParts DEF Status
<1>4. Letting(frozen)' /\ forgotten' \subseteq Receipt /\ frozen' \subseteq Receipt
  BY <1>t, <1>0, TypeParts DEF UploadInv, Letting
<1>5. StillWatched
  BY <1>0, <1>3 DEF StillWatched, Live
<1>6. TaskTrue'
  BY <1>0, <1>1, <1>2, <1>3 DEF TaskTrue, Live, Complete
<1> QED BY <1>0, <1>2, <1>3, <1>4, <1>5, <1>6, QuietStep

LEMMA RefusePutTrue ==
  ASSUME UploadInv, RefusePut
  PROVE  UploadInv'
<1> DEFINE r == task.on
<1>t. TypeOK /\ TaskTrue
  BY DEF UploadInv
<1>0. /\ UNCHANGED <<turn, part, chunk, disk, frozen>> /\ task' = Idle
      /\ receipt' = [receipt EXCEPT ![r] = Discarded(receipt[r])]
      /\ forgotten' = IF disk[r.path] = r.content THEN forgotten \cup {r} ELSE forgotten
      /\ task.step = "prepared"
  BY DEF RefusePut
<1>1. r \in Receipt
  BY <1>t, <1>0 DEF TaskTrue
<1> HIDE DEF r
<1>2. task' \in Tasks /\ TaskTrue'
  BY <1>0, IdleTyped, Resting
<1>3. /\ receipt' \in [Receipt -> Status]
      /\ \A q \in Receipt : q # r => receipt'[q] = receipt[q]
  BY <1>t, <1>0, <1>1, TypeParts DEF Status, Discarded
<1>4. Letting(frozen)' /\ forgotten' \subseteq Receipt /\ frozen' \subseteq Receipt
  BY <1>t, <1>0, <1>1, TypeParts DEF UploadInv, Letting
<1>5. StillWatched
  BY <1>0, <1>1, <1>3 DEF StillWatched
<1> QED BY <1>0, <1>2, <1>3, <1>4, <1>5, QuietStep

LEMMA RollBackTrue ==
  ASSUME UploadInv, RollBack
  PROVE  UploadInv'
<1>t. TypeOK /\ TaskTrue
  BY DEF UploadInv
<1>0. /\ UNCHANGED <<turn, part, chunk, disk, receipt, frozen, forgotten>>
      /\ task' = [Idle EXCEPT !.step = "recovering", !.todo = {task.on}]
      /\ task.step \in {"prepared", "written", "assembling", "linked"}
  BY DEF RollBack
<1>1. {task.on} \in SUBSET Receipt
  BY <1>t, <1>0 DEF TaskTrue
<1>2. task' \in Tasks /\ TaskTrue'
  BY <1>0, <1>1, TaskTodo, Resting DEF Steps
<1>3. receipt' \in [Receipt -> Status] /\ forgotten' \subseteq Receipt /\ frozen' \subseteq Receipt
  BY <1>t, <1>0, TypeParts
<1>4. Letting(frozen)' /\ StillWatched
  BY <1>0 DEF UploadInv, Letting, StillWatched
<1> QED BY <1>0, <1>2, <1>3, <1>4, QuietStep

LEMMA RecoverReceiptsTrue ==
  ASSUME UploadInv, RecoverReceipts
  PROVE  UploadInv'
<1> DEFINE todo == {r \in Receipt : Live(receipt[r])}
<1>t. TypeOK
  BY DEF UploadInv
<1>0. /\ UNCHANGED <<turn, part, chunk, disk, receipt, frozen, forgotten>>
      /\ task' = [Idle EXCEPT !.step = "recovering", !.todo = todo]
  BY DEF RecoverReceipts
<1>1. todo \in SUBSET Receipt
  OBVIOUS
<1> HIDE DEF todo
<1>2. task' \in Tasks /\ TaskTrue'
  BY <1>0, <1>1, TaskTodo, Resting DEF Steps
<1>3. receipt' \in [Receipt -> Status] /\ forgotten' \subseteq Receipt /\ frozen' \subseteq Receipt
  BY <1>t, <1>0, TypeParts
<1>4. Letting(frozen)' /\ StillWatched
  BY <1>0 DEF UploadInv, Letting, StillWatched
<1> QED BY <1>0, <1>2, <1>3, <1>4, QuietStep

LEMMA LeaseReceiptTrue ==
  ASSUME UploadInv, NEW r \in Receipt, LeaseReceipt(r)
  PROVE  UploadInv'
<1>t. TypeOK
  BY DEF UploadInv
<1>0. /\ UNCHANGED <<turn, part, chunk, disk, frozen, forgotten>>
      /\ receipt' = [receipt EXCEPT ![r] = "CLAIMED"]
      /\ task' = [step |-> "leased", on |-> r, todo |-> task.todo \ {r}]
  BY DEF LeaseReceipt
<1>1. task.todo \in SUBSET Receipt
  BY <1>t, TypeParts DEF Tasks
<1>2. task' \in Tasks
  BY <1>0, <1>1 DEF Tasks, Steps
<1>3. TaskTrue'
  BY <1>0 DEF TaskTrue
<1>4. /\ receipt' \in [Receipt -> Status] /\ receipt'[r] = "CLAIMED"
      /\ \A q \in Receipt : q # r => receipt'[q] = receipt[q]
  BY <1>t, <1>0, TypeParts DEF Status
<1>5. forgotten' \subseteq Receipt /\ frozen' \subseteq Receipt
  BY <1>t, <1>0, TypeParts
<1>6. Letting(frozen)' /\ StillWatched
  BY <1>0, <1>4 DEF UploadInv, Letting, StillWatched, Live
<1> QED BY <1>0, <1>2, <1>3, <1>4, <1>5, <1>6, QuietStep

LEMMA SkipReceiptTrue ==
  ASSUME UploadInv, NEW r \in Receipt, SkipReceipt(r)
  PROVE  UploadInv'
<1>t. TypeOK /\ task \in Tasks
  BY TypeParts DEF UploadInv
<1>0. /\ UNCHANGED <<turn, part, chunk, disk, receipt, frozen, forgotten>>
      /\ task' = [task EXCEPT !.todo = task.todo \ {r}]
      /\ task.step = "recovering"
  BY DEF SkipReceipt
<1>1. task' \in Tasks /\ task'.step = "recovering"
  BY <1>t, <1>0 DEF Tasks
<1>2. TaskTrue'
  BY <1>1, Resting
<1>3. receipt' \in [Receipt -> Status] /\ forgotten' \subseteq Receipt /\ frozen' \subseteq Receipt
  BY <1>t, <1>0, TypeParts
<1>4. Letting(frozen)' /\ StillWatched
  BY <1>0 DEF UploadInv, Letting, StillWatched
<1> QED BY <1>0, <1>1, <1>2, <1>3, <1>4, QuietStep

\* What a recovery does with its receipt leaves it live, or there is no
\* leftover to watch.
LEMMA ReceiptGoesOn ==
  ASSUME UploadInv, NEW status \in Status, task.step \in {"leased", "unlinked"},
         \/ Live(status)
         \/ disk[task.on.path] # task.on.content
         \/ RefersTo(task.on.path) # None,
         receipt' = [receipt EXCEPT ![task.on] = status],
         task' = [task EXCEPT !.step = "recovering", !.on = None],
         UNCHANGED <<turn, part, chunk, disk, frozen, forgotten>>
  PROVE  UploadInv'
<1> DEFINE r == task.on
<1>t. TypeOK /\ task \in Tasks /\ r \in Receipt
  BY TypeParts DEF UploadInv, TaskTrue
<1>1. task' \in Tasks /\ task'.step = "recovering"
  BY <1>t DEF Tasks, Steps
<1>2. TaskTrue'
  BY <1>1, Resting
<1>0. receipt' = [receipt EXCEPT ![r] = status]
  OBVIOUS
<1>3. \/ Live(status)
      \/ disk[r.path] # r.content
      \/ RefersTo(r.path) # None
  OBVIOUS
<1> HIDE DEF r
<1>4. /\ receipt' \in [Receipt -> Status] /\ receipt'[r] = status
      /\ \A q \in Receipt : q # r => receipt'[q] = receipt[q]
  BY <1>t, <1>0, TypeParts
<1>5. forgotten' \subseteq Receipt /\ frozen' \subseteq Receipt
  BY <1>t, TypeParts
<1>6. Letting(frozen)' /\ StillWatched
  BY <1>3, <1>4 DEF UploadInv, Letting, StillWatched
<1> QED BY <1>1, <1>2, <1>4, <1>5, <1>6, QuietStep

LEMMA RecoveryTrue ==
  ASSUME UploadInv,
         \/ Judge("complete", "NONE") \/ Judge("block", "BLOCKED")
         \/ UnlinkFails \/ CompleteReceipt
  PROVE  UploadInv'
<1>s. "NONE" \in Status /\ "BLOCKED" \in Status /\ "PENDING" \in Status
  BY DEF Status
<1>l. Live("BLOCKED") /\ Live("PENDING")
  BY DEF Live
<1>t. TaskTrue
  BY DEF UploadInv
<1>1. CASE Judge("complete", "NONE")
  <2>1. task.step = "leased" /\ VerdictOn(task.on) = "complete"
    BY <1>1 DEF Judge
  <2>2. disk[task.on.path] # task.on.content \/ RefersTo(task.on.path) # None
    BY <2>1, <1>t, VerdictComplete, ReceiptFacts DEF TaskTrue
  <2> QED BY <1>1, <1>s, <2>1, <2>2, ReceiptGoesOn DEF Judge
<1>2. CASE Judge("block", "BLOCKED")
  BY <1>2, <1>s, <1>l, ReceiptGoesOn DEF Judge
<1>3. CASE UnlinkFails
  BY <1>3, <1>s, <1>l, ReceiptGoesOn DEF Judge, UnlinkFails
<1>4. CASE CompleteReceipt
  <2>1. task.step = "unlinked" /\ disk[task.on.path] # task.on.content
    BY <1>4, <1>t, ReceiptFacts DEF TaskTrue, CompleteReceipt
  <2> QED BY <1>4, <1>s, <2>1, ReceiptGoesOn DEF CompleteReceipt
<1> QED BY <1>1, <1>2, <1>3, <1>4

LEMMA LeaseRunsOutTrue ==
  ASSUME UploadInv, NEW r \in Receipt, LeaseRunsOut(r)
  PROVE  UploadInv'
<1>t. TypeOK /\ task \in Tasks
  BY TypeParts DEF UploadInv
<1>0. /\ UNCHANGED <<turn, part, chunk, disk, task, frozen, forgotten>>
      /\ receipt' = [receipt EXCEPT ![r] = "BLOCKED"]
  BY DEF LeaseRunsOut
<1>1. /\ receipt' \in [Receipt -> Status] /\ receipt'[r] = "BLOCKED"
      /\ \A q \in Receipt : q # r => receipt'[q] = receipt[q]
  BY <1>t, <1>0, TypeParts DEF Status
<1>2. \A q \in Receipt : Live(receipt[q]) => Live(receipt[q])'
  BY <1>1 DEF Live
<1>3. \A p, w : RowsAre(p, w)' = RowsAre(p, w)
  BY <1>0 DEF RowsAre
<1>4. \A targets : Letting(targets) = (Letting(targets))'
  BY <1>0 DEF Letting
<1>5. TaskTrue'
  BY <1>0, <1>2, <1>3, <1>4 DEF UploadInv, TaskTrue, Complete, Letting
<1>6. forgotten' \subseteq Receipt /\ frozen' \subseteq Receipt /\ task' \in Tasks
  BY <1>t, <1>0, TypeParts
<1>7. Letting(frozen)' /\ StillWatched
  BY <1>0, <1>1 DEF UploadInv, Letting, StillWatched, Live
<1> QED BY <1>0, <1>1, <1>5, <1>6, <1>7, QuietStep

\* The task and what a worker holds are all that changes, and the task rests.
LEMMA RestTrue ==
  ASSUME UploadInv, UNCHANGED <<turn, part, chunk, disk, receipt, forgotten>>,
         task' \in Tasks, task'.step \in {"down", "idle", "recovering"},
         frozen' \in {frozen, {}}
  PROVE  UploadInv'
<1>1. receipt' \in [Receipt -> Status] /\ forgotten' \subseteq Receipt /\ frozen' \subseteq Receipt
  BY TypeParts DEF UploadInv
<1>2. Letting(frozen)' /\ StillWatched
  BY DEF UploadInv, Letting, StillWatched
<1> QED BY <1>1, <1>2, Resting, QuietStep

LEMMA WorkersTrue ==
  ASSUME UploadInv, \/ EndRecovery \/ WorkerStops \/ Crash \/ Restart
  PROVE  UploadInv'
<1>t. task \in Tasks
  BY TypeParts DEF UploadInv
<1>1. CASE EndRecovery
  BY <1>1, IdleTyped, RestTrue DEF EndRecovery
<1>2. CASE Crash
  BY <1>2, IdleTyped, RestTrue DEF Crash
<1>3. CASE Restart
  BY <1>3, IdleTyped, RestTrue DEF Restart
<1>4. CASE WorkerStops
  <2>0. UNCHANGED <<turn, part, chunk, disk, receipt, task, forgotten>> /\ frozen' = {}
    BY <1>4 DEF WorkerStops
  <2>1. \A p, w : RowsAre(p, w)' = RowsAre(p, w)
    BY <2>0 DEF RowsAre
  <2>2. TaskTrue'
    BY <2>0, <2>1 DEF UploadInv, TaskTrue, Complete, Letting
  <2>3. receipt' \in [Receipt -> Status] /\ forgotten' \subseteq Receipt /\ task' \in Tasks
    BY <1>t, <2>0, TypeParts DEF UploadInv
  <2>4. Letting(frozen)' /\ StillWatched
    BY <2>0 DEF Letting, StillWatched
  <2> QED BY <2>0, <2>2, <2>3, <2>4, QuietStep
<1> QED BY <1>1, <1>2, <1>3, <1>4

\* The removal begins with files that may be let go.
LEMMA ConvergingTrue ==
  ASSUME UploadInv, NEW todo \in SUBSET Receipt, Letting(todo),
         task' = [Idle EXCEPT !.step = "converging", !.todo = todo],
         UNCHANGED <<turn, part, chunk, disk, receipt, forgotten>>, frozen' \in {frozen, {}}
  PROVE  UploadInv'
<1>1. task' \in Tasks /\ task'.step = "converging" /\ task'.todo = todo
  BY TaskTodo DEF Steps
<1>2. TaskTrue'
  BY <1>1 DEF TaskTrue, Letting
<1>3. receipt' \in [Receipt -> Status] /\ forgotten' \subseteq Receipt /\ frozen' \subseteq Receipt
  BY TypeParts DEF UploadInv
<1>4. Letting(frozen)' /\ StillWatched
  BY DEF UploadInv, Letting, StillWatched
<1> QED BY <1>1, <1>2, <1>3, <1>4, QuietStep

LEMMA TargetsLetting ==
  ASSUME turn.transcript
  PROVE  Letting(Targets) /\ Targets \in SUBSET Receipt
BY DEF Letting, Targets

LEMMA RemovalBegins ==
  ASSUME UploadInv, \/ WorkerConverges \/ RetryDeletion
  PROVE  UploadInv'
<1>1. CASE WorkerConverges
  <2>1. frozen \in SUBSET Receipt /\ Letting(frozen)
    BY TypeParts DEF UploadInv
  <2> QED BY <1>1, <2>1, ConvergingTrue DEF WorkerConverges
<1>2. CASE RetryDeletion
  <2>1. turn.transcript
    BY <1>2 DEF RetryDeletion, UploadInv, TurnTrue
  <2> QED BY <1>2, <2>1, TargetsLetting, ConvergingTrue DEF RetryDeletion
<1> QED BY <1>1, <1>2

LEMMA LeaveSourceTrue ==
  ASSUME UploadInv, NEW r \in Receipt, LeaveSource(r)
  PROVE  UploadInv'
<1>t. TypeOK /\ task \in Tasks /\ TaskTrue
  BY TypeParts DEF UploadInv
<1>0. /\ UNCHANGED <<turn, part, chunk, disk, receipt, frozen, forgotten>>
      /\ task' = [task EXCEPT !.todo = task.todo \ {r}] /\ task.step = "converging"
  BY DEF LeaveSource
<1>1. task' \in Tasks /\ task'.step = "converging" /\ task'.todo \subseteq task.todo
  BY <1>t, <1>0 DEF Tasks
<1>2. TaskTrue'
  BY <1>t, <1>0, <1>1 DEF TaskTrue, Letting
<1>3. receipt' \in [Receipt -> Status] /\ forgotten' \subseteq Receipt /\ frozen' \subseteq Receipt
  BY <1>t, <1>0, TypeParts
<1>4. Letting(frozen)' /\ StillWatched
  BY <1>0 DEF UploadInv, Letting, StillWatched
<1> QED BY <1>0, <1>1, <1>2, <1>3, <1>4, QuietStep

-----------------------------------------------------------------------------
(* Steps that change a file.                                               *)

LEMMA RowRefers ==
  ASSUME TypeOK, NEW p \in Part
  PROVE  /\ \A s \in Seqs : /\ chunk[p][s] # None => RefersTo(<<p, s>>) # None
                            /\ chunk[p][s] = None => RefersTo(<<p, s>>) = None
         /\ Complete(p) /\ part[p].source
              => RefersTo(<<p, PartBin>>) # None /\ RefersTo(<<p, PartBin>>) = part[p].whole
         /\ ~(Complete(p) /\ part[p].source) => RefersTo(<<p, PartBin>>) = None
<1>1. ASSUME NEW s \in Seqs
      PROVE  /\ chunk[p][s] # None => RefersTo(<<p, s>>) # None
             /\ chunk[p][s] = None => RefersTo(<<p, s>>) = None
  <2>1. RefersTo(<<p, s>>) = IF chunk[p][s] = None THEN None ELSE <<chunk[p][s]>>
    BY Leaves DEF RefersTo
  <2>2. chunk[p][s] # None => <<chunk[p][s]>> \in Content
    BY TypeParts DEF Content
  <2> QED BY <2>1, <2>2, Contents
<1>2. RefersTo(<<p, PartBin>>) = IF Complete(p) /\ part[p].source THEN part[p].whole ELSE None
  BY DEF RefersTo
<1> QED BY <1>1, <1>2 DEF Complete

\* A file is put where nothing refers to, under a live receipt; it is removed
\* where nothing refers to, or where it may be let go.
LEMMA FileStep ==
  ASSUME UploadInv, NEW r \in Receipt, NEW c \in {None, r.content},
         disk' = [disk EXCEPT ![r.path] = c],
         UNCHANGED <<turn, part, chunk, receipt, frozen, forgotten>>,
         task' \in Tasks, TaskTrue',
         RefersTo(r.path) = None \/ (c = None /\ Letting({r})),
         c = r.content => Live(receipt[r])
  PROVE  UploadInv'
<1>t. TypeOK
  BY DEF UploadInv
<1>1. r.path \in Path /\ c \in {None} \cup Content
  BY ReceiptFacts
<1>2. /\ disk' \in [Path -> {None} \cup Content] /\ disk'[r.path] = c
      /\ \A path \in Path : path # r.path => disk'[path] = disk[path]
  BY <1>t, <1>1, TypeParts
<1>3. TypeOK'
  BY <1>t, <1>2, TypeParts DEF TypeOK, Turns, Tasks
<1>4. \A path : RefersTo(path)' = RefersTo(path)
  BY DEF RefersTo, Complete
<1>5. TurnTrue' /\ Letting(frozen)'
  BY DEF UploadInv, TurnTrue, Letting, Complete
<1>6. SourceGone'
  BY <1>4 DEF UploadInv, SourceGone
<1>7. RowsTrue'
  <2>1. SUFFICES ASSUME NEW p \in Part
                 PROVE  /\ \A s \in Seqs : chunk[p][s] # None
                             => (Kept(p, <<p, s>>, <<chunk[p][s]>>))'
                        /\ Complete(p) /\ part[p].source
                             => (Kept(p, <<p, PartBin>>, part[p].whole))'
    BY DEF RowsTrue, Complete
  <2>2. RefersTo(r.path) # None => c = None /\ turn.transcript /\ r.path[1] \in Audio
    BY DEF Letting
  <2>3. ASSUME NEW s \in Seqs, chunk[p][s] # None
        PROVE  (Kept(p, <<p, s>>, <<chunk[p][s]>>))'
    <3>1. Kept(p, <<p, s>>, <<chunk[p][s]>>) /\ RefersTo(<<p, s>>) # None /\ <<p, s>> \in Path
      BY <1>t, <2>3, RowRefers DEF UploadInv, RowsTrue, Path
    <3>2. CASE <<p, s>> = r.path
      BY <3>1, <3>2, <2>2, <1>2 DEF Kept
    <3>3. CASE <<p, s>> # r.path
      BY <3>1, <3>3, <1>2 DEF Kept
    <3> QED BY <3>2, <3>3
  <2>4. ASSUME Complete(p), part[p].source
        PROVE  (Kept(p, <<p, PartBin>>, part[p].whole))'
    <3>1. /\ Kept(p, <<p, PartBin>>, part[p].whole)
          /\ RefersTo(<<p, PartBin>>) # None /\ <<p, PartBin>> \in Path
      BY <1>t, <2>4, RowRefers DEF UploadInv, RowsTrue, Path
    <3>2. CASE <<p, PartBin>> = r.path
      BY <3>1, <3>2, <2>2, <1>2 DEF Kept
    <3>3. CASE <<p, PartBin>> # r.path
      BY <3>1, <3>3, <1>2 DEF Kept
    <3> QED BY <3>2, <3>3
  <2> QED BY <2>3, <2>4
<1>8. LeftoversWatched'
  <2>1. SUFFICES ASSUME NEW q \in Receipt, disk'[q.path] = q.content, RefersTo(q.path) = None
                 PROVE  Live(receipt[q]) \/ q \in forgotten
    BY <1>4 DEF LeftoversWatched, Live
  <2>2. q.path \in Path /\ q.content # None
    BY ReceiptFacts
  <2>3. CASE q.path = r.path
    <3>1. q.content = c /\ c = r.content
      BY <1>2, <2>1, <2>2, <2>3
    <3> QED BY <3>1, <2>3, SameReceipt
  <2>4. CASE q.path # r.path
    BY <1>2, <2>1, <2>2, <2>4 DEF UploadInv, LeftoversWatched
  <2> QED BY <2>3, <2>4
<1> QED BY <1>3, <1>5, <1>6, <1>7, <1>8 DEF UploadInv

LEMMA WriteChunkTrue ==
  ASSUME UploadInv, WriteChunk
  PROVE  UploadInv'
<1> DEFINE r == task.on
<1>t. TypeOK /\ task \in Tasks /\ TaskTrue
  BY TypeParts DEF UploadInv
<1>0. /\ UNCHANGED <<turn, part, chunk, receipt, frozen, forgotten>>
      /\ disk' = [disk EXCEPT ![r.path] = r.content]
      /\ task' = [task EXCEPT !.step = "written"] /\ task.step = "prepared"
  BY DEF WriteChunk
<1>1. /\ r \in Receipt /\ Live(receipt[r]) /\ ~Complete(r.path[1])
      /\ turn.state = "RECEIVING" /\ r.path[2] \in Seqs /\ chunk[r.path[1]][r.path[2]] = None
  BY <1>t, <1>0 DEF TaskTrue
<1>2. task' \in Tasks /\ task'.step = "written" /\ task'.on = r
  BY <1>t, <1>0 DEF Tasks, Steps
<1> HIDE DEF r
<1>3. r.path \in Path /\ r.path[1] \in Part /\ r.path = <<r.path[1], r.path[2]>>
  BY <1>1, ReceiptFacts
<1>4. disk'[r.path] = r.content
  BY <1>0, <1>3, <1>t, TypeParts
<1>5. RefersTo(r.path) = None
  BY <1>t, <1>1, <1>3, RowRefers
<1>6. TaskTrue'
  BY <1>0, <1>1, <1>2, <1>4 DEF TaskTrue, Complete
<1> QED BY <1>0, <1>1, <1>2, <1>5, <1>6, FileStep

LEMMA LinkPartTrue ==
  ASSUME UploadInv, LinkPart
  PROVE  UploadInv'
<1> DEFINE r == task.on
<1>t. TypeOK /\ task \in Tasks /\ TaskTrue
  BY TypeParts DEF UploadInv
<1>0. /\ UNCHANGED <<turn, part, chunk, receipt, frozen, forgotten>>
      /\ disk' = [disk EXCEPT ![r.path] = r.content]
      /\ task' = [task EXCEPT !.step = "linked"] /\ task.step = "assembling"
      /\ RowsAre(r.path[1], r.content)
  BY DEF LinkPart, Assembled, RowsAre
<1>1. /\ r \in Receipt /\ Live(receipt[r]) /\ ~Complete(r.path[1])
      /\ turn.state # "ABSENT" /\ r.path[2] = PartBin
  BY <1>t, <1>0 DEF TaskTrue
<1>2. task' \in Tasks /\ task'.step = "linked" /\ task'.on = r
  BY <1>t, <1>0 DEF Tasks, Steps
<1> HIDE DEF r
<1>3. r.path \in Path /\ r.path[1] \in Part /\ r.path = <<r.path[1], r.path[2]>>
  BY <1>1, ReceiptFacts
<1>4. /\ disk'[r.path] = r.content
      /\ \A s \in Seqs : <<r.path[1], s>> \in Path /\ <<r.path[1], s>> # r.path
      /\ \A path \in Path : path # r.path => disk'[path] = disk[path]
  BY <1>0, <1>1, <1>3, <1>t, TypeParts, Leaves DEF Path
<1>5. RefersTo(r.path) = None
  BY <1>t, <1>1, <1>3, RowRefers
<1>6. (RowsAre(task.on.path[1], task.on.content))'
  <2> DEFINE p == r.path[1]  w == r.content
  <2>1. /\ Len(w) <= NumSeqs
        /\ \A s \in Seqs : IF s < Len(w) THEN chunk[p][s] = w[s + 1] /\ disk[<<p, s>>] = <<w[s + 1]>>
                                         ELSE chunk[p][s] = None
    BY <1>0 DEF RowsAre
  <2>2. \A s \in Seqs : disk'[<<p, s>>] = disk[<<p, s>>]
    BY <1>4
  <2> HIDE DEF p, w
  <2>3. /\ Len(w) <= NumSeqs
        /\ \A s \in Seqs : IF s < Len(w) THEN chunk'[p][s] = w[s + 1] /\ disk'[<<p, s>>] = <<w[s + 1]>>
                                         ELSE chunk'[p][s] = None
    BY <1>0, <2>1, <2>2
  <2> QED BY <1>2, <2>3 DEF RowsAre, p, w
<1>7. TaskTrue'
  BY <1>0, <1>1, <1>2, <1>4, <1>6 DEF TaskTrue, Complete
<1> QED BY <1>0, <1>1, <1>2, <1>5, <1>7, FileStep

LEMMA UnlinkLeftoverTrue ==
  ASSUME UploadInv, UnlinkLeftover
  PROVE  UploadInv'
<1> DEFINE r == task.on
<1>t. TypeOK /\ task \in Tasks /\ TaskTrue
  BY TypeParts DEF UploadInv
<1>0. /\ UNCHANGED <<turn, part, chunk, receipt, frozen, forgotten>>
      /\ disk' = [disk EXCEPT ![r.path] = None]
      /\ task' = [task EXCEPT !.step = "unlinked"] /\ task.step = "leased"
      /\ VerdictOn(r) = "unlink"
  BY DEF UnlinkLeftover
<1>1. r \in Receipt
  BY <1>t, <1>0 DEF TaskTrue
<1>2. task' \in Tasks /\ task'.step = "unlinked" /\ task'.on = r
  BY <1>t, <1>0 DEF Tasks, Steps
<1> HIDE DEF r
<1>3. r.path \in Path /\ r.content # None
  BY <1>1, ReceiptFacts
<1>4. disk'[r.path] = None
  BY <1>0, <1>3, <1>t, TypeParts
<1>5. RefersTo(r.path) = None
  BY <1>0, VerdictUnlink
<1>6. TaskTrue'
  BY <1>0, <1>1, <1>2, <1>4 DEF TaskTrue
<1> QED BY <1>0, <1>1, <1>2, <1>3, <1>5, <1>6, FileStep

LEMMA RemoveSourceTrue ==
  ASSUME UploadInv, NEW r \in Receipt, RemoveSource(r)
  PROVE  UploadInv'
<1>t. TypeOK /\ task \in Tasks /\ TaskTrue
  BY TypeParts DEF UploadInv
<1>0. /\ UNCHANGED <<turn, part, chunk, receipt, frozen, forgotten>>
      /\ disk' = [disk EXCEPT ![r.path] = None]
      /\ task' = [step |-> "removed", on |-> r, todo |-> task.todo \ {r}]
      /\ task.step = "converging" /\ r \in task.todo
  BY DEF RemoveSource
<1>1. Letting({r}) /\ Letting(task.todo \ {r})
  BY <1>t, <1>0 DEF TaskTrue, Letting
<1>2. task.todo \ {r} \in SUBSET Receipt
  BY <1>t DEF Tasks
<1>3. /\ task' \in Tasks /\ task'.step = "removed" /\ task'.on = r
      /\ task'.todo = task.todo \ {r}
  BY <1>0, <1>2 DEF Tasks, Steps
<1>4. r.path \in Path /\ r.content # None
  BY ReceiptFacts
<1>5. disk'[r.path] = None
  BY <1>0, <1>4, <1>t, TypeParts
<1>6. Letting(task.todo)' /\ (Letting({task.on}))'
  BY <1>0, <1>1, <1>3 DEF Letting
<1>7. TaskTrue'
  BY <1>0, <1>3, <1>5, <1>6 DEF TaskTrue
<1> QED BY <1>0, <1>1, <1>3, <1>4, <1>7, FileStep

-----------------------------------------------------------------------------
(* Steps that change a row.                                                *)

LEMMA TurnStep ==
  ASSUME UploadInv, turn' \in Turns, TurnTrue', SourceGone',
         turn.transcript => turn'.transcript,
         UNCHANGED <<part, chunk, disk, receipt, forgotten>>,
         task' = Idle, frozen' \subseteq Receipt, Letting(frozen)'
  PROVE  UploadInv'
<1>1. task' \in Tasks /\ TaskTrue'
  BY IdleTyped, Resting
<1>2. TypeOK'
  BY <1>1, TypeParts DEF UploadInv, TypeOK, Turns, Tasks
<1>3. RowsTrue'
  <2>1. \A p, path, content : Kept(p, path, content) => (Kept(p, path, content))'
    BY DEF Kept
  <2> QED BY <2>1 DEF UploadInv, RowsTrue, Complete
<1>4. LeftoversWatched'
  <2>1. \A path : RefersTo(path)' = RefersTo(path)
    BY DEF RefersTo, Complete
  <2> QED BY <2>1 DEF UploadInv, LeftoversWatched
<1> QED BY <1>1, <1>2, <1>3, <1>4 DEF UploadInv

LEMMA AcceptTurnTrue ==
  ASSUME UploadInv, AcceptTurn
  PROVE  UploadInv'
<1>t. turn \in Turns /\ frozen \subseteq Receipt
  BY TypeParts DEF UploadInv
<1>0. /\ UNCHANGED <<part, chunk, disk, receipt, task, frozen, forgotten>> /\ task' = Idle
      /\ turn' = [turn EXCEPT !.state = "ACCEPTED"]
      /\ \A p \in Part : Complete(p)
  BY DEF AcceptTurn
<1>1. /\ turn' \in Turns /\ turn'.state = "ACCEPTED" /\ turn'.transcript = turn.transcript
      /\ turn'.outcome = turn.outcome /\ turn'.source_deleted = turn.source_deleted
  BY <1>t, <1>0 DEF Turns
<1>2. TurnTrue'
  BY <1>0, <1>1 DEF UploadInv, TurnTrue, Complete
<1>3. SourceGone'
  BY <1>0, <1>1 DEF UploadInv, SourceGone, RefersTo, Complete
<1>4. Letting(frozen)'
  BY <1>0, <1>1 DEF UploadInv, Letting
<1> QED BY <1>t, <1>0, <1>1, <1>2, <1>3, <1>4, TurnStep

LEMMA CommitTranscriptTrue ==
  ASSUME UploadInv, CommitTranscript
  PROVE  UploadInv'
<1>t. turn \in Turns
  BY TypeParts DEF UploadInv
<1>0. /\ UNCHANGED <<part, chunk, disk, receipt, task, forgotten>> /\ task' = Idle
      /\ turn' = [turn EXCEPT !.outcome = "VALID_TRANSCRIPT", !.transcript = TRUE]
      /\ turn.state = "ACCEPTED" /\ frozen' = Targets
  BY DEF CommitTranscript
<1>1. /\ turn' \in Turns /\ turn'.state = turn.state /\ turn'.transcript
      /\ turn'.outcome = "VALID_TRANSCRIPT" /\ turn'.source_deleted = turn.source_deleted
  BY <1>t, <1>0 DEF Turns
<1>2. TurnTrue'
  BY <1>0, <1>1 DEF UploadInv, TurnTrue, Complete
<1>3. SourceGone'
  BY <1>0, <1>1 DEF UploadInv, SourceGone, RefersTo, Complete
<1>4. Letting(frozen)' /\ frozen' \subseteq Receipt
  BY <1>0, <1>1 DEF Letting, Targets
<1> QED BY <1>0, <1>1, <1>2, <1>3, <1>4, TurnStep

LEMMA AsrJobFailsTrue ==
  ASSUME UploadInv, AsrJobFails
  PROVE  UploadInv'
<1>t. turn \in Turns /\ frozen \subseteq Receipt
  BY TypeParts DEF UploadInv
<1>0. /\ UNCHANGED <<part, chunk, disk, receipt, task, frozen, forgotten>> /\ task' = Idle
      /\ turn' = [turn EXCEPT !.outcome = "PROVIDER_ERROR"] /\ turn.state = "ACCEPTED"
  BY DEF AsrJobFails
<1>1. /\ turn' \in Turns /\ turn'.state = turn.state /\ turn'.transcript = turn.transcript
      /\ turn'.outcome = "PROVIDER_ERROR" /\ turn'.source_deleted = turn.source_deleted
  BY <1>t, <1>0 DEF Turns
<1>2. TurnTrue'
  BY <1>0, <1>1 DEF UploadInv, TurnTrue, Complete
<1>3. SourceGone'
  BY <1>0, <1>1 DEF UploadInv, SourceGone, RefersTo, Complete
<1>4. Letting(frozen)'
  BY <1>0, <1>1 DEF UploadInv, Letting
<1> QED BY <1>t, <1>0, <1>1, <1>2, <1>3, <1>4, TurnStep

\* Without targets no audio row is left.
LEMMA NoTargets ==
  ASSUME TypeOK, Targets = {}
  PROVE  \A p \in Audio, leaf \in Seqs \cup {PartBin} : RefersTo(<<p, leaf>>) = None
<1> SUFFICES ASSUME NEW p \in Audio, NEW leaf \in Seqs \cup {PartBin}, RefersTo(<<p, leaf>>) # None
             PROVE  FALSE
  OBVIOUS
<1>1. PICK r \in Receipt : r.path = <<p, leaf>> /\ r.content = RefersTo(<<p, leaf>>)
  BY Referred, Kinds
<1> QED BY <1>1 DEF Targets

LEMMA EndConvergingTrue ==
  ASSUME UploadInv, EndConverging
  PROVE  UploadInv'
<1> DEFINE gone == \/ turn.source_deleted
                   \/ /\ turn.outcome = "VALID_TRANSCRIPT" /\ Targets = {}
                      /\ \A p \in Audio : ~part[p].source
<1>t. TypeOK /\ turn \in Turns /\ frozen \subseteq Receipt
  BY TypeParts DEF UploadInv
<1>0. /\ UNCHANGED <<part, chunk, disk, receipt, frozen, forgotten>> /\ task' = Idle
      /\ turn' = [turn EXCEPT !.source_deleted = gone]
  BY DEF EndConverging
<1>g. gone \in BOOLEAN /\ (gone => turn.source_deleted \/ turn.outcome = "VALID_TRANSCRIPT")
  BY <1>t DEF Turns
<1>h. gone => turn.source_deleted \/ Targets = {}
  OBVIOUS
<1> HIDE DEF gone
<1>1. /\ turn' \in Turns /\ turn'.state = turn.state /\ turn'.transcript = turn.transcript
      /\ turn'.outcome = turn.outcome /\ turn'.source_deleted = gone
  BY <1>t, <1>0, <1>g DEF Turns
<1>2. TurnTrue'
  BY <1>0, <1>1, <1>g DEF UploadInv, TurnTrue, Complete
<1>3. SourceGone'
  <2>1. \A path : RefersTo(path)' = RefersTo(path)
    BY <1>0 DEF RefersTo, Complete
  <2>2. CASE turn.source_deleted
    BY <2>1, <2>2 DEF UploadInv, SourceGone
  <2>3. CASE Targets = {}
    BY <2>1, <2>3, <1>t, NoTargets DEF SourceGone
  <2>4. CASE ~gone
    BY <1>1, <2>4 DEF SourceGone
  <2> QED BY <1>h, <2>2, <2>3, <2>4
<1>4. Letting(frozen)'
  BY <1>0, <1>1 DEF UploadInv, Letting
<1> QED BY <1>t, <1>0, <1>1, <1>2, <1>3, <1>4, TurnStep

LEMMA CreateTurnTrue ==
  ASSUME UploadInv, CreateTurn
  PROVE  UploadInv'
<1>t. TypeOK /\ turn \in Turns /\ TurnTrue
  BY TypeParts DEF UploadInv
<1>0. /\ UNCHANGED <<chunk, disk, receipt, task, frozen, forgotten>> /\ task = Idle
      /\ turn' = [turn EXCEPT !.state = "RECEIVING"] /\ turn.state = "ABSENT"
      /\ part' = [p \in Part |-> [whole |-> None, source |-> TRUE]]
  BY DEF CreateTurn
<1>1. /\ turn' \in Turns /\ turn'.state = "RECEIVING" /\ turn'.transcript = turn.transcript
      /\ turn'.outcome = turn.outcome /\ turn'.source_deleted = turn.source_deleted
  BY <1>t, <1>0 DEF Turns
<1>2. \A p \in Part : /\ ~Complete(p) /\ ~(Complete(p))'
                      /\ \A s \in Seqs : chunk[p][s] = None
  BY <1>t, <1>0 DEF TurnTrue, Complete
<1>3. part' \in [Part -> [whole: {None} \cup Asserted, source: BOOLEAN]]
  BY <1>0
<1>4. TypeOK' /\ TaskTrue'
  BY <1>t, <1>0, <1>1, <1>3, TypeParts, IdleTyped, Resting DEF TypeOK, Turns
<1>5. \A path \in Path : RefersTo(path)' = RefersTo(path)
  <2>1. \A path \in Path : path[1] \in Part
    BY DEF Path
  <2> QED BY <1>0, <1>2, <2>1 DEF RefersTo
<1>6. TurnTrue'
  <2>1. turn.outcome = "NONE" /\ ~turn.source_deleted /\ ~turn.transcript
    BY <1>t, <1>0 DEF TurnTrue
  <2> QED BY <1>1, <2>1 DEF TurnTrue
<1>7. Letting(frozen)'
  BY <1>0, <1>1 DEF UploadInv, Letting
<1>8. RowsTrue'
  BY <1>0, <1>2 DEF RowsTrue
<1>9. SourceGone'
  BY <1>t, <1>0, <1>1 DEF TurnTrue, SourceGone
<1>10. LeftoversWatched'
  BY <1>0, <1>5, ReceiptFacts DEF UploadInv, LeftoversWatched
<1> QED BY <1>4, <1>6, <1>7, <1>8, <1>9, <1>10 DEF UploadInv

\* The row of a chunk or of a part is written, or taken away, together with its
\* receipt, and the file at its path is what the row will say.
LEMMA RowStep ==
  ASSUME UploadInv, NEW r \in Receipt, NEW c \in {None, r.content},
         part' \in [Part -> [whole: {None} \cup Asserted, source: BOOLEAN]],
         chunk' \in [Part -> [Seqs -> {None} \cup Payload]],
         receipt' \in [Receipt -> Status], task' \in Tasks, TaskTrue', TurnTrue',
         UNCHANGED <<turn, disk, frozen, forgotten>>,
         disk[r.path] = c, RefersTo(r.path)' = c,
         \A path \in Path : path # r.path => RefersTo(path)' = RefersTo(path),
         \A q \in Receipt : q # r => receipt'[q] = receipt[q],
         c = None \/ ~turn.source_deleted
  PROVE  UploadInv'
<1>t. TypeOK
  BY DEF UploadInv
<1>1. TypeOK'
  BY <1>t, TypeParts DEF TypeOK, Turns, Tasks
<1>2. Letting(frozen)'
  BY DEF UploadInv, Letting
<1>3. RowsTrue'
  <2>1. SUFFICES ASSUME NEW p \in Part
                 PROVE  /\ \A s \in Seqs : chunk'[p][s] # None
                             => (Kept(p, <<p, s>>, <<chunk[p][s]>>))'
                        /\ (Complete(p) /\ part[p].source)'
                             => (Kept(p, <<p, PartBin>>, part[p].whole))'
    BY DEF RowsTrue
  <2>2. \A path \in Path : \A content : Kept(p, path, content) => (Kept(p, path, content))'
    BY DEF Kept
  <2>3. ASSUME NEW s \in Seqs, chunk'[p][s] # None
        PROVE  (Kept(p, <<p, s>>, <<chunk[p][s]>>))'
    <3>1. RefersTo(<<p, s>>)' = <<chunk'[p][s]>> /\ <<p, s>> \in Path
      BY <2>3, Leaves DEF RefersTo, Path
    <3>2. CASE <<p, s>> = r.path
      BY <3>1, <3>2 DEF Kept
    <3>3. CASE <<p, s>> # r.path
      <4>1. RefersTo(<<p, s>>) = <<chunk'[p][s]>> /\ RefersTo(<<p, s>>) # None
        <5>1. <<chunk'[p][s]>> \in Content
          BY <2>3 DEF Content
        <5> QED BY <3>1, <3>3, <5>1, Contents
      <4>2. chunk[p][s] # None /\ <<chunk[p][s]>> = <<chunk'[p][s]>>
        BY <4>1, Leaves DEF RefersTo
      <4>3. Kept(p, <<p, s>>, <<chunk'[p][s]>>)
        BY <4>2 DEF UploadInv, RowsTrue
      <4> QED BY <3>1, <4>3, <2>2 DEF Kept
    <3> QED BY <3>2, <3>3
  <2>4. ASSUME (Complete(p) /\ part[p].source)'
        PROVE  (Kept(p, <<p, PartBin>>, part[p].whole))'
    <3>1. RefersTo(<<p, PartBin>>)' = part'[p].whole /\ <<p, PartBin>> \in Path
      BY <2>4 DEF RefersTo, Path
    <3>2. CASE <<p, PartBin>> = r.path
      BY <3>1, <3>2 DEF Kept
    <3>3. CASE <<p, PartBin>> # r.path
      <4>1. RefersTo(<<p, PartBin>>) = part'[p].whole /\ RefersTo(<<p, PartBin>>) # None
        BY <2>4, <3>1, <3>3 DEF Complete
      <4>2. Complete(p) /\ part[p].source /\ part[p].whole = part'[p].whole
        BY <4>1 DEF RefersTo
      <4>3. Kept(p, <<p, PartBin>>, part'[p].whole)
        BY <4>2 DEF UploadInv, RowsTrue
      <4> QED BY <3>1, <4>3, <2>2 DEF Kept
    <3> QED BY <3>2, <3>3
  <2> QED BY <2>3, <2>4
<1>4. SourceGone'
  <2>1. SUFFICES ASSUME turn.source_deleted, NEW p \in Audio, NEW leaf \in Seqs \cup {PartBin}
                 PROVE  RefersTo(<<p, leaf>>)' = None
    BY DEF SourceGone
  <2>2. RefersTo(<<p, leaf>>) = None /\ c = None /\ <<p, leaf>> \in Path
    BY <2>1, Kinds DEF UploadInv, SourceGone, Path
  <2> QED BY <2>2
<1>5. LeftoversWatched'
  <2>1. SUFFICES ASSUME NEW q \in Receipt, disk[q.path] = q.content, RefersTo(q.path)' = None
                 PROVE  Live(receipt[q])' \/ q \in forgotten
    BY DEF LeftoversWatched
  <2>2. q.path \in Path /\ q.content # None
    BY ReceiptFacts
  <2>3. q.path # r.path
    BY <2>1, <2>2
  <2>4. RefersTo(q.path) = None /\ receipt'[q] = receipt[q]
    BY <2>1, <2>2, <2>3
  <2> QED BY <2>1, <2>4 DEF UploadInv, LeftoversWatched
<1> QED BY <1>1, <1>2, <1>3, <1>4, <1>5 DEF UploadInv

\* One row changes, and no other.
SetsChunk(p, row) == chunk' = [chunk EXCEPT ![p] = row] /\ part' = part
SetsPart(p, row) == part' = [part EXCEPT ![p] = row] /\ chunk' = chunk

\* One chunk row changes.
LEMMA ChunkRowSet ==
  ASSUME TypeOK, NEW p \in Part, NEW s \in Seqs, NEW x \in {None} \cup Payload, NEW row,
         row = [chunk[p] EXCEPT ![s] = x], SetsChunk(p, row)
  PROVE  /\ chunk' \in [Part -> [Seqs -> {None} \cup Payload]]
         /\ chunk'[p][s] = x
         /\ \A path \in Path : path = <<p, s>> =>
              RefersTo(path)' = IF x = None THEN None ELSE <<x>>
         /\ \A path \in Path : path # <<p, s>> => RefersTo(path)' = RefersTo(path)
<1>0. /\ chunk \in [Part -> [Seqs -> {None} \cup Payload]]
      /\ chunk' = [chunk EXCEPT ![p] = row] /\ part' = part
  BY TypeParts DEF SetsChunk
<1>1. /\ row \in [Seqs -> {None} \cup Payload] /\ row[s] = x
      /\ \A n \in Seqs : n # s => row[n] = chunk[p][n]
  BY <1>0
<1>3. /\ chunk' \in [Part -> [Seqs -> {None} \cup Payload]]
      /\ chunk'[p] = row /\ \A q \in Part : q # p => chunk'[q] = chunk[q]
  BY <1>0, <1>1
<1>4. ASSUME NEW path \in Path, path = <<p, s>>
      PROVE  RefersTo(path)' = IF x = None THEN None ELSE <<x>>
  BY <1>0, <1>1, <1>3, <1>4, Leaves DEF RefersTo
<1>5. ASSUME NEW path \in Path, path # <<p, s>>
      PROVE  RefersTo(path)' = RefersTo(path)
  <2>1. /\ path[1] \in Part /\ path[2] \in Seqs \cup {PartBin}
        /\ path[1] # p \/ path[2] # s
    BY <1>5 DEF Path
  <2>2. CASE path[2] = PartBin
    BY <1>0, <2>2 DEF RefersTo, Complete
  <2>3. CASE path[2] \in Seqs
    <3>1. chunk'[path[1]][path[2]] = chunk[path[1]][path[2]]
      BY <1>1, <1>3, <2>1, <2>3
    <3> QED BY <3>1, <2>3, Leaves DEF RefersTo
  <2> QED BY <2>1, <2>2, <2>3
<1> QED BY <1>1, <1>3, <1>4, <1>5

\* One row of a part changes.
LEMMA PartRowSet ==
  ASSUME TypeOK, NEW p \in Part, NEW row \in [whole: {None} \cup Asserted, source: BOOLEAN],
         SetsPart(p, row)
  PROVE  /\ part' \in [Part -> [whole: {None} \cup Asserted, source: BOOLEAN]]
         /\ part'[p] = row /\ \A q \in Part : q # p => part'[q] = part[q]
         /\ \A path \in Path : path = <<p, PartBin>> =>
              RefersTo(path)' = IF row.whole # None /\ row.source THEN row.whole ELSE None
         /\ \A path \in Path : path # <<p, PartBin>> => RefersTo(path)' = RefersTo(path)
<1>0. /\ part \in [Part -> [whole: {None} \cup Asserted, source: BOOLEAN]]
      /\ part' = [part EXCEPT ![p] = row] /\ chunk' = chunk
  BY TypeParts DEF SetsPart
<1>1. /\ part' \in [Part -> [whole: {None} \cup Asserted, source: BOOLEAN]]
      /\ part'[p] = row /\ \A q \in Part : q # p => part'[q] = part[q]
  BY <1>0
<1>2. ASSUME NEW path \in Path, path = <<p, PartBin>>
      PROVE  RefersTo(path)' = IF row.whole # None /\ row.source THEN row.whole ELSE None
  BY <1>0, <1>1, <1>2 DEF RefersTo, Complete
<1>3. ASSUME NEW path \in Path, path # <<p, PartBin>>
      PROVE  RefersTo(path)' = RefersTo(path)
  <2>1. /\ path[1] \in Part /\ path[2] \in Seqs \cup {PartBin}
        /\ path[1] # p \/ path[2] # PartBin
    BY <1>3 DEF Path
  <2>2. CASE path[2] = PartBin
    BY <1>0, <1>1, <2>1, <2>2 DEF RefersTo, Complete
  <2>3. CASE path[2] # PartBin
    BY <1>0, <2>3 DEF RefersTo
  <2> QED BY <2>2, <2>3
<1> QED BY <1>1, <1>2, <1>3

LEMMA CommitChunkTrue ==
  ASSUME UploadInv, CommitChunk
  PROVE  UploadInv'
<1>t. TypeOK /\ TaskTrue /\ TurnTrue
  BY DEF UploadInv
<1>a. task.step = "written" /\ task.on \in Receipt /\ task.on.path[2] \in Seqs
  BY <1>t DEF TaskTrue, CommitChunk
<1>r. PICK r \in Receipt : r = task.on
  BY <1>a
<1>2. PICK p \in Part, s \in Seqs, x \in Payload :
        /\ p = r.path[1] /\ s = r.path[2] /\ x = r.content[1]
        /\ r.path = <<p, s>> /\ r.content = <<x>>
  BY <1>a, <1>r, ReceiptFacts, ChunkReceipts
<1>0. /\ UNCHANGED <<turn, part, disk, frozen, forgotten>> /\ task' = Idle
      /\ chunk' = [chunk EXCEPT ![p][s] = x]
      /\ receipt' = [receipt EXCEPT ![r] = "NONE"]
  BY <1>r, <1>2 DEF CommitChunk
<1>1. turn.state = "RECEIVING" /\ disk[r.path] = r.content
  BY <1>t, <1>a, <1>r DEF TaskTrue
<1>3. x # None /\ r.path \in Path
  BY <1>2, NullsApart DEF Path
<1>c. PICK row : row = [chunk[p] EXCEPT ![s] = x]
  OBVIOUS
<1>d. SetsChunk(p, row)
  BY <1>0, <1>c DEF SetsChunk
<1>4. /\ chunk' \in [Part -> [Seqs -> {None} \cup Payload]]
      /\ RefersTo(r.path)' = r.content
      /\ \A path \in Path : path # r.path => RefersTo(path)' = RefersTo(path)
  BY <1>t, <1>2, <1>3, <1>c, <1>d, ChunkRowSet
<1>5. /\ receipt' \in [Receipt -> Status]
      /\ \A q \in Receipt : q # r => receipt'[q] = receipt[q]
  BY <1>t, <1>0, TypeParts DEF Status
<1>6. task' \in Tasks /\ TaskTrue'
  BY <1>0, IdleTyped, Resting
<1>7. TurnTrue'
  BY <1>t, <1>0, <1>1 DEF TurnTrue, Complete
<1>8. part' \in [Part -> [whole: {None} \cup Asserted, source: BOOLEAN]] /\ ~turn.source_deleted
  BY <1>t, <1>0, <1>1, TypeParts DEF TurnTrue
<1> QED BY <1>0, <1>1, <1>4, <1>5, <1>6, <1>7, <1>8, RowStep

LEMMA CommitPartTrue ==
  ASSUME UploadInv, CommitPart
  PROVE  UploadInv'
<1>t. TypeOK /\ TaskTrue /\ TurnTrue
  BY DEF UploadInv
<1>a. task.step = "linked" /\ task.on \in Receipt /\ task.on.path[2] = PartBin
  BY <1>t DEF TaskTrue, CommitPart
<1>r. PICK r \in Receipt : r = task.on
  BY <1>a
<1>p. PICK p \in Part : p = r.path[1] /\ r.path = <<p, PartBin>>
  BY <1>a, <1>r, ReceiptFacts
<1>w. PICK row \in [whole: {None} \cup Asserted, source: BOOLEAN] :
        row = [whole |-> r.content, source |-> TRUE]
  BY <1>a, <1>r, PartReceipts
<1>0. /\ UNCHANGED <<turn, chunk, disk, frozen, forgotten>> /\ task' = Idle
      /\ part' = [part EXCEPT ![p] = row]
      /\ SetsPart(p, row)
      /\ receipt' = [receipt EXCEPT ![r] = "NONE"]
  BY <1>r, <1>p, <1>w DEF CommitPart, SetsPart
<1>1. turn.state # "ABSENT" /\ disk[r.path] = r.content /\ ~Complete(p)
  BY <1>t, <1>a, <1>r, <1>p DEF TaskTrue
<1>2. row.whole = r.content /\ row.source = TRUE /\ r.content # None /\ r.path \in Path
  BY <1>w, ReceiptFacts
<1>3. /\ part' \in [Part -> [whole: {None} \cup Asserted, source: BOOLEAN]]
      /\ part'[p] = row /\ \A q \in Part : q # p => part'[q] = part[q]
      /\ RefersTo(r.path)' = r.content
      /\ \A path \in Path : path # r.path => RefersTo(path)' = RefersTo(path)
  BY <1>t, <1>0, <1>2, <1>p, PartRowSet
<1>4. /\ receipt' \in [Receipt -> Status]
      /\ \A q \in Receipt : q # r => receipt'[q] = receipt[q]
  BY <1>t, <1>0, TypeParts DEF Status
<1>5. task' \in Tasks /\ TaskTrue'
  BY <1>0, IdleTyped, Resting
<1>6. turn.state # "ACCEPTED"
  BY <1>t, <1>1 DEF TurnTrue
<1>7. TurnTrue' /\ ~turn.source_deleted
  BY <1>t, <1>0, <1>1, <1>6 DEF TurnTrue
<1>8. chunk' \in [Part -> [Seqs -> {None} \cup Payload]]
  BY <1>t, <1>0, TypeParts
<1> QED BY <1>0, <1>1, <1>3, <1>4, <1>5, <1>7, <1>8, RowStep

LEMMA RemoveRowTrue ==
  ASSUME UploadInv, RemoveRow
  PROVE  UploadInv'
<1>t. TypeOK /\ TaskTrue /\ TurnTrue /\ task \in Tasks
  BY TypeParts DEF UploadInv
<1>a. task.step = "removed" /\ task.on \in Receipt
  BY <1>t DEF TaskTrue, RemoveRow
<1>r. PICK r \in Receipt : r = task.on
  BY <1>a
<1>2. PICK p \in Part, s \in Seqs \cup {PartBin} :
        p = r.path[1] /\ s = r.path[2] /\ r.path = <<p, s>> /\ r.path \in Path
  BY ReceiptFacts
<1>0. /\ UNCHANGED <<turn, disk, receipt, frozen, forgotten>>
      /\ task' = [task EXCEPT !.step = "converging", !.on = None]
      /\ IF s = PartBin THEN part' = [part EXCEPT ![p].source = FALSE] /\ chunk' = chunk
                        ELSE chunk' = [chunk EXCEPT ![p][s] = None] /\ part' = part
  BY <1>r, <1>2 DEF RemoveRow
<1>1. disk[r.path] = None /\ Letting(task.todo)
  BY <1>t, <1>a, <1>r DEF TaskTrue
<1>3. task' \in Tasks /\ task'.step = "converging" /\ task'.todo = task.todo
  BY <1>t, <1>0 DEF Tasks, Steps
<1>4. TaskTrue'
  BY <1>0, <1>1, <1>3 DEF TaskTrue, Letting
<1>5. receipt' \in [Receipt -> Status] /\ \A q \in Receipt : q # r => receipt'[q] = receipt[q]
  BY <1>t, <1>0, TypeParts
<1>6. /\ part' \in [Part -> [whole: {None} \cup Asserted, source: BOOLEAN]]
      /\ chunk' \in [Part -> [Seqs -> {None} \cup Payload]]
      /\ RefersTo(r.path)' = None
      /\ \A path \in Path : path # r.path => RefersTo(path)' = RefersTo(path)
      /\ \A q \in Part : (Complete(q))' = Complete(q)
      /\ \A q \in Part : \A n \in Seqs : chunk[q][n] = None => chunk'[q][n] = None
  <2>1. CASE s = PartBin
    <3>r. PICK row : row = [part[p] EXCEPT !.source = FALSE]
      OBVIOUS
    <3>1. /\ SetsPart(p, row) /\ chunk' = chunk
          /\ part[p] \in [whole: {None} \cup Asserted, source: BOOLEAN]
      BY <1>t, <1>0, <1>2, <2>1, <3>r, TypeParts DEF SetsPart
    <3>2. /\ row \in [whole: {None} \cup Asserted, source: BOOLEAN]
          /\ row.whole = part[p].whole /\ row.source = FALSE
      BY <3>1, <3>r
    <3> QED BY <1>t, <1>2, <2>1, <3>1, <3>2, PartRowSet, TypeParts DEF Complete
  <2>2. CASE s \in Seqs
    <3>r. PICK row : row = [chunk[p] EXCEPT ![s] = None]
      OBVIOUS
    <3>1. SetsChunk(p, row) /\ part' = part
      BY <1>0, <2>2, <3>r, Leaves DEF SetsChunk
    <3>2. /\ chunk' \in [Part -> [Seqs -> {None} \cup Payload]] /\ chunk'[p][s] = None
          /\ RefersTo(r.path)' = None
          /\ \A path \in Path : path # r.path => RefersTo(path)' = RefersTo(path)
      BY <1>t, <1>2, <2>2, <3>r, <3>1, ChunkRowSet
    <3>3. ASSUME NEW q \in Part, NEW n \in Seqs, chunk[q][n] = None
          PROVE  chunk'[q][n] = None
      <4>1. RefersTo(<<q, n>>) = None /\ <<q, n>> \in Path
        BY <3>3, Leaves DEF RefersTo, Path
      <4>2. RefersTo(<<q, n>>)' = None
        BY <3>2, <4>1
      <4>3. chunk'[q][n] # None => RefersTo(<<q, n>>)' = <<chunk'[q][n]>> /\ <<chunk'[q][n]>> \in Content
        BY <3>2, Leaves DEF RefersTo, Content
      <4> QED BY <4>2, <4>3, Contents
    <3>4. part' \in [Part -> [whole: {None} \cup Asserted, source: BOOLEAN]]
      BY <1>t, <3>1, TypeParts
    <3> QED BY <3>1, <3>2, <3>3, <3>4 DEF Complete
  <2> QED BY <1>2, <2>1, <2>2
<1>7. TurnTrue'
  BY <1>t, <1>0, <1>6 DEF TurnTrue
<1> QED BY <1>0, <1>1, <1>3, <1>4, <1>5, <1>6, <1>7, RowStep

-----------------------------------------------------------------------------
(* The inductive invariant, and what it means for files.                   *)

LEMMA InitTrue == Init => UploadInv
<1> SUFFICES ASSUME Init PROVE UploadInv
  OBVIOUS
<1>1. turn \in Turns
  BY DEF Init, Turns
<1>2. part \in [Part -> [whole: {None} \cup Asserted, source: BOOLEAN]]
  BY DEF Init
<1>3. /\ chunk \in [Part -> [Seqs -> {None} \cup Payload]]
      /\ disk \in [Path -> {None} \cup Content] /\ receipt \in [Receipt -> Status]
      /\ frozen \subseteq Receipt /\ forgotten \subseteq Receipt
  BY DEF Init, Status
<1>4. TypeOK
  BY <1>1, <1>2, <1>3, IdleTyped, TypeParts DEF Init
<1>5. TurnTrue
  BY DEF Init, TurnTrue, Complete
<1>6. TaskTrue /\ Letting(frozen)
  BY IdleTyped DEF Init, TaskTrue, Letting
<1>7. RowsTrue /\ SourceGone
  BY DEF Init, RowsTrue, SourceGone, Complete
<1>8. LeftoversWatched
  BY ReceiptFacts DEF Init, LeftoversWatched
<1> QED BY <1>4, <1>5, <1>6, <1>7, <1>8 DEF UploadInv

LEMMA NextTrue == UploadInv /\ [Next]_vars => UploadInv'
<1> SUFFICES ASSUME UploadInv, [Next]_vars PROVE UploadInv'
  OBVIOUS
<1>1. CASE UNCHANGED vars
  BY <1>1 DEF vars, UploadInv, TypeOK, TurnTrue, TaskTrue, Letting, RowsTrue, Kept, SourceGone,
              LeftoversWatched, RowsAre, RefersTo, Complete
<1>2. CASE CreateTurn \/ AcceptTurn
  BY <1>2, CreateTurnTrue, AcceptTurnTrue
<1>3. CASE \E p \in Part, s \in Seqs, x \in Payload : PreparePut(p, s, x)
  BY <1>3, PreparePutTrue
<1>4. CASE \E p \in Part, w \in Asserted : PrepareFinish(p, w)
  BY <1>4, PrepareFinishTrue
<1>5. CASE RefusePut \/ WriteChunk \/ CommitChunk \/ LinkPart \/ CommitPart \/ RollBack
  BY <1>5, RefusePutTrue, WriteChunkTrue, CommitChunkTrue, LinkPartTrue, CommitPartTrue, RollBackTrue
<1>6. CASE Recovery
  BY <1>6, RecoverReceiptsTrue, WorkersTrue, UnlinkLeftoverTrue, RecoveryTrue,
     LeaseReceiptTrue, SkipReceiptTrue, LeaseRunsOutTrue DEF Recovery
<1>7. CASE Removal
  BY <1>7, CommitTranscriptTrue, AsrJobFailsTrue, RemovalBegins, WorkersTrue, RemoveRowTrue,
     EndConvergingTrue, RemoveSourceTrue, LeaveSourceTrue DEF Removal
<1>8. CASE Crash \/ Restart
  BY <1>8, WorkersTrue
<1> QED BY <1>1, <1>2, <1>3, <1>4, <1>5, <1>6, <1>7, <1>8 DEF Next

LEMMA Inductive == Spec => []UploadInv
BY InitTrue, NextTrue, PTL DEF Spec

LEMMA InvFiles == UploadInv => FilesAreTrue
<1> SUFFICES ASSUME UploadInv PROVE FilesAreTrue
  OBVIOUS
<1>1. DeletedMeansGone
  <2>1. SUFFICES ASSUME turn.source_deleted, NEW p \in Audio, NEW leaf \in Seqs \cup {PartBin}
                 PROVE  /\ RefersTo(<<p, leaf>>) = None
                        /\ \A r \in Receipt : r.path = <<p, leaf>> /\ disk[r.path] = r.content
                                                => Live(receipt[r]) \/ r \in forgotten
    BY DEF DeletedMeansGone
  <2>2. RefersTo(<<p, leaf>>) = None
    BY <2>1 DEF UploadInv, SourceGone
  <2> QED BY <2>2 DEF UploadInv, LeftoversWatched
<1> QED BY <1>1 DEF UploadInv, FilesAreTrue

\* Every file on disk that no row refers to is named by a live receipt, unless a
\* refused put took it, and a turn whose source is called deleted has neither a row
\* of its audio nor, but for such leftovers, a file: in every state of every upload,
\* wherever put_chunk, finish_part, the removal and recover_cleanup_receipts die.
THEOREM FilesCorrect == Spec => []FilesAreTrue
BY Inductive, InvFiles, PTL

-----------------------------------------------------------------------------
(* The upload keeps what PartStore promises.                               *)

LEMMA NowFacts ==
  /\ \A p \in Part : WholeNow[p] = part[p].whole /\ ReadableNow[p] = Readable(p)
  /\ \A p \in Part, s \in Seqs : StoredNow[p][s] = Stored(p, s)
BY DEF WholeNow, ReadableNow, StoredNow

\* Where nothing refers to, nothing can be read.
LEMMA Unreferred ==
  ASSUME TypeOK, NEW p \in Part
  PROVE  /\ \A s \in Seqs : RefersTo(<<p, s>>) = None => Stored(p, s) = None
         /\ RefersTo(<<p, PartBin>>) = None => Readable(p) = None
BY RowRefers DEF Stored, Readable

StoredKept == \A p \in Part, s \in Seqs : Stored(p, s)' = Stored(p, s)
ReadableKept == \A p \in Part : Readable(p)' = Readable(p)
WholeKept == \A p \in Part : part'[p].whole = part[p].whole

LEMMA NowKept ==
  /\ StoredKept => StoredNow' = StoredNow
  /\ ReadableKept => ReadableNow' = ReadableNow
  /\ WholeKept => WholeNow' = WholeNow
<1>1. StoredKept => StoredNow' = StoredNow
  BY DEF StoredKept, StoredNow
<1>2. ReadableKept => ReadableNow' = ReadableNow
  BY DEF ReadableKept, ReadableNow
<1>3. WholeKept => WholeNow' = WholeNow
  BY DEF WholeKept, WholeNow
<1> QED BY <1>1, <1>2, <1>3

LEMMA Stutters ==
  ASSUME StoredKept, ReadableKept, WholeKept,
         (turn.state = "ACCEPTED") = (turn'.state = "ACCEPTED"), turn'.transcript = turn.transcript
  PROVE  UNCHANGED Contract!vars
BY NowKept DEF Contract!vars

LEMMA SameRowsAndFiles ==
  ASSUME UNCHANGED <<part, chunk, disk>>
  PROVE  StoredKept /\ ReadableKept /\ WholeKept
BY DEF StoredKept, ReadableKept, WholeKept, Stored, Readable, Complete

\* A file changes where nothing refers to.
LEMMA FileStutters ==
  ASSUME TypeOK, NEW r \in Receipt, RefersTo(r.path) = None,
         \A path \in Path : path # r.path => disk'[path] = disk[path],
         UNCHANGED <<turn, part, chunk>>
  PROVE  UNCHANGED Contract!vars
<1>1. ASSUME NEW p \in Part, NEW s \in Seqs
      PROVE  Stored(p, s)' = Stored(p, s)
  <2>1. <<p, s>> \in Path
    BY DEF Path
  <2>2. CASE <<p, s>> = r.path
    <3>1. chunk[p][s] = None
      BY <2>2, RowRefers
    <3> QED BY <3>1 DEF Stored
  <2>3. CASE <<p, s>> # r.path
    BY <2>1, <2>3 DEF Stored
  <2> QED BY <2>2, <2>3
<1>2. ASSUME NEW p \in Part
      PROVE  Readable(p)' = Readable(p)
  <2>1. <<p, PartBin>> \in Path
    BY DEF Path
  <2>2. CASE <<p, PartBin>> = r.path
    <3>1. ~(Complete(p) /\ part[p].source)
      BY <2>2, RowRefers
    <3> QED BY <3>1 DEF Readable, Complete
  <2>3. CASE <<p, PartBin>> # r.path
    BY <2>1, <2>3 DEF Readable, Complete
  <2> QED BY <2>2, <2>3
<1>3. StoredKept /\ ReadableKept /\ WholeKept
  BY <1>1, <1>2 DEF StoredKept, ReadableKept, WholeKept
<1> QED BY <1>3, Stutters

LEMMA OtherFiles ==
  ASSUME TypeOK, NEW path \in Path, NEW c, disk' = [disk EXCEPT ![path] = c]
  PROVE  disk'[path] = c /\ \A q \in Path : q # path => disk'[q] = disk[q]
BY TypeParts

LEMMA FilesKept ==
  ASSUME UploadInv, WriteChunk \/ LinkPart \/ UnlinkLeftover
  PROVE  UNCHANGED Contract!vars
<1>t. TypeOK /\ TaskTrue
  BY DEF UploadInv
<1>1. task.on \in Receipt /\ UNCHANGED <<turn, part, chunk>>
  BY <1>t DEF TaskTrue, WriteChunk, LinkPart, UnlinkLeftover
<1>2. PICK r \in Receipt : r = task.on
  BY <1>1
<1>3. r.path \in Path /\ r.path[1] \in Part /\ r.path = <<r.path[1], r.path[2]>>
  BY ReceiptFacts
<1>4. \A path \in Path : path # r.path => disk'[path] = disk[path]
  BY <1>t, <1>2, <1>3, OtherFiles DEF WriteChunk, LinkPart, UnlinkLeftover
<1>5. RefersTo(r.path) = None
  <2>1. CASE WriteChunk
    <3>1. r.path[2] \in Seqs /\ chunk[r.path[1]][r.path[2]] = None
      BY <1>t, <1>2, <2>1 DEF TaskTrue, WriteChunk
    <3> QED BY <1>t, <1>3, <3>1, RowRefers
  <2>2. CASE LinkPart
    <3>1. r.path[2] = PartBin /\ ~Complete(r.path[1])
      BY <1>t, <1>2, <2>2 DEF TaskTrue, LinkPart
    <3> QED BY <1>t, <1>3, <3>1, RowRefers
  <2>3. CASE UnlinkLeftover
    BY <1>2, <2>3, VerdictUnlink DEF UnlinkLeftover
  <2> QED BY <2>1, <2>2, <2>3
<1> QED BY <1>t, <1>1, <1>4, <1>5, FileStutters

LEMMA StoredSet ==
  ASSUME NEW p \in Part, NEW s \in Seqs, NEW x, Stored(p, s)' = x,
         \A q \in Part, n \in Seqs : <<q, n>> # <<p, s>> => Stored(q, n)' = Stored(q, n)
  PROVE  StoredNow' = [StoredNow EXCEPT ![p][s] = x]
<1>1. PICK row : row = [StoredNow[p] EXCEPT ![s] = x]
  OBVIOUS
<1>2. StoredNow \in [Part -> [Seqs -> {Stored(q, n) : q \in Part, n \in Seqs}]]
  BY DEF StoredNow
<1>3. row = [n \in Seqs |-> IF n = s THEN x ELSE Stored(p, n)]
  BY <1>1, NowFacts DEF StoredNow
<1>4. row = [n \in Seqs |-> Stored(p, n)']
  BY <1>3
<1>5. StoredNow' = [StoredNow EXCEPT ![p] = row]
  <2>1. StoredNow' = [q \in Part |-> [n \in Seqs |-> Stored(q, n)']]
    BY DEF StoredNow
  <2>2. [StoredNow EXCEPT ![p] = row]
          = [q \in Part |-> IF q = p THEN row ELSE [n \in Seqs |-> Stored(q, n)]]
    BY DEF StoredNow
  <2>3. ASSUME NEW q \in Part
        PROVE  [n \in Seqs |-> Stored(q, n)']
                 = IF q = p THEN row ELSE [n \in Seqs |-> Stored(q, n)]
    BY <1>4
  <2> QED BY <2>1, <2>2, <2>3
<1> QED BY <1>1, <1>5

LEMMA ReadableSet ==
  ASSUME NEW p \in Part, NEW w, Readable(p)' = w,
         \A q \in Part : q # p => Readable(q)' = Readable(q)
  PROVE  ReadableNow' = [ReadableNow EXCEPT ![p] = w]
BY DEF ReadableNow

LEMMA RemoveSourceKept ==
  ASSUME UploadInv, NEW r \in Receipt, RemoveSource(r)
  PROVE  Contract!Next \/ UNCHANGED Contract!vars
<1>t. TypeOK /\ TaskTrue
  BY DEF UploadInv
<1>0. UNCHANGED <<turn, part, chunk>> /\ turn.transcript /\ r.path[1] \in Audio
  BY <1>t DEF RemoveSource, TaskTrue, Letting
<1>1. PICK p \in Part, leaf \in Seqs \cup {PartBin} : p = r.path[1] /\ r.path = <<p, leaf>>
  BY ReceiptFacts
<1>2. /\ r.path \in Path /\ disk'[r.path] = None
      /\ \A path \in Path : path # r.path => disk'[path] = disk[path]
  BY <1>t, ReceiptFacts, OtherFiles DEF RemoveSource
<1>3. WholeNow' = WholeNow
  BY <1>0, NowKept DEF WholeKept
<1>4. ASSUME NEW q \in Part, NEW n \in Seqs, <<q, n>> # <<p, leaf>>
      PROVE  Stored(q, n)' = Stored(q, n)
  <2>1. disk'[<<q, n>>] = disk[<<q, n>>]
    BY <1>1, <1>2, <1>4 DEF Path
  <2> QED BY <1>0, <2>1 DEF Stored
<1>5. ASSUME NEW q \in Part, <<q, PartBin>> # <<p, leaf>>
      PROVE  Readable(q)' = Readable(q)
  <2>1. disk'[<<q, PartBin>>] = disk[<<q, PartBin>>]
    BY <1>1, <1>2, <1>5 DEF Path
  <2> QED BY <1>0, <2>1 DEF Readable, Complete
<1>6. CASE leaf = PartBin
  <2>1. Readable(p)' = None
    BY <1>1, <1>2, <1>6 DEF Readable
  <2>2. ReadableNow' = [ReadableNow EXCEPT ![p] = None]
    BY <1>5, <1>6, <2>1, ReadableSet
  <2>3. StoredNow' = StoredNow
    BY <1>4, <1>6, Leaves, NowKept DEF StoredKept
  <2>4. Contract!LetGo(p)
    BY <1>0, <1>1, <1>3, <2>2, <2>3 DEF Contract!LetGo
  <2> QED BY <2>4 DEF Contract!Next
<1>7. CASE leaf \in Seqs
  <2>1. Stored(p, leaf)' = None
    BY <1>1, <1>2, <1>7 DEF Stored
  <2>2. StoredNow' = [StoredNow EXCEPT ![p][leaf] = None]
    BY <1>4, <1>7, <2>1, StoredSet
  <2>3. ReadableNow' = ReadableNow
    BY <1>5, <1>7, Leaves, NowKept DEF ReadableKept
  <2>4. Contract!LetGo(p)
    BY <1>0, <1>1, <1>3, <1>7, <2>2, <2>3 DEF Contract!LetGo, Contract!Seqs, Seqs
  <2> QED BY <2>4 DEF Contract!Next
<1> QED BY <1>6, <1>7

LEMMA CommitChunkKept ==
  ASSUME UploadInv, CommitChunk
  PROVE  Contract!Next
<1>t. TypeOK /\ TaskTrue /\ TurnTrue
  BY DEF UploadInv
<1>a. /\ task.step = "written" /\ task.on \in Receipt /\ task.on.path[2] \in Seqs
      /\ ~Complete(task.on.path[1]) /\ turn.state = "RECEIVING"
      /\ disk[task.on.path] = task.on.content
      /\ chunk[task.on.path[1]][task.on.path[2]] = None
  BY <1>t DEF TaskTrue, CommitChunk
<1>r. PICK r \in Receipt : r = task.on
  BY <1>a
<1>1. PICK p \in Part, s \in Seqs, x \in Payload :
        /\ p = r.path[1] /\ s = r.path[2] /\ x = r.content[1]
        /\ r.path = <<p, s>> /\ r.content = <<x>>
  BY <1>a, <1>r, ReceiptFacts, ChunkReceipts
<1>0. /\ UNCHANGED <<turn, part, disk>>
      /\ chunk' = [chunk EXCEPT ![p][s] = x]
  BY <1>r, <1>1 DEF CommitChunk
<1>2. PICK row : row = [chunk[p] EXCEPT ![s] = x]
  OBVIOUS
<1>3. /\ row[s] = x /\ \A n \in Seqs : n # s => row[n] = chunk[p][n]
      /\ chunk' = [chunk EXCEPT ![p] = row]
  BY <1>t, <1>0, <1>2, TypeParts
<1>4. chunk'[p] = row /\ \A q \in Part : q # p => chunk'[q] = chunk[q]
  BY <1>t, <1>3, TypeParts
<1>5. Stored(p, s)' = x
  <2>1. disk'[<<p, s>>] = <<x>> /\ <<x>> # None /\ x # None
    <3>1. <<x>> \in Content
      BY DEF Content
    <3> QED BY <1>a, <1>r, <1>0, <1>1, <3>1, Contents, NullsApart
  <2> QED BY <1>3, <1>4, <2>1 DEF Stored
<1>6. ASSUME NEW q \in Part, NEW n \in Seqs, <<q, n>> # <<p, s>>
      PROVE  Stored(q, n)' = Stored(q, n)
  <2>1. chunk'[q][n] = chunk[q][n]
    BY <1>3, <1>4, <1>6
  <2> QED BY <1>0, <2>1 DEF Stored
<1>7. StoredNow' = [StoredNow EXCEPT ![p][s] = x]
  BY <1>5, <1>6, StoredSet
<1>8. ReadableNow' = ReadableNow /\ WholeNow' = WholeNow
  BY <1>0, NowKept DEF ReadableKept, WholeKept, Readable, Complete
<1>9. StoredNow[p][s] = None /\ WholeNow[p] = None /\ turn.state # "ACCEPTED"
  <2>1. chunk[p][s] = None /\ ~Complete(p)
    BY <1>a, <1>r, <1>1
  <2> QED BY <1>a, <2>1, NowFacts DEF Stored, Complete
<1>10. Contract!Store(p, s, x)
  BY <1>0, <1>7, <1>8, <1>9 DEF Contract!Store
<1> QED BY <1>10 DEF Contract!Next, Contract!Seqs, Seqs

LEMMA CommitPartKept ==
  ASSUME UploadInv, CommitPart
  PROVE  Contract!Next
<1>t. TypeOK /\ TaskTrue /\ TurnTrue
  BY DEF UploadInv
<1>a. /\ task.step = "linked" /\ task.on \in Receipt /\ task.on.path[2] = PartBin
      /\ ~Complete(task.on.path[1]) /\ turn.state # "ABSENT"
      /\ disk[task.on.path] = task.on.content
      /\ RowsAre(task.on.path[1], task.on.content)
  BY <1>t DEF TaskTrue, CommitPart
<1>r. PICK r \in Receipt : r = task.on
  BY <1>a
<1>p. PICK p \in Part : p = r.path[1] /\ r.path = <<p, PartBin>>
  BY <1>a, <1>r, ReceiptFacts
<1>w. PICK w \in Asserted : w = r.content
  BY <1>a, <1>r, PartReceipts
<1>1. w \in Seq(Payload) /\ w # None
  BY Contents
<1>0. /\ UNCHANGED <<turn, chunk, disk>>
      /\ part' = [part EXCEPT ![p] = [whole |-> w, source |-> TRUE]]
  BY <1>r, <1>p, <1>w DEF CommitPart
<1>2. /\ part'[p] = [whole |-> w, source |-> TRUE]
      /\ \A q \in Part : q # p => part'[q] = part[q]
  BY <1>t, <1>0, TypeParts
<1>3. StoredNow' = StoredNow
  BY <1>0, NowKept DEF StoredKept, Stored
<1>4. WholeNow' = [WholeNow EXCEPT ![p] = w]
  <2>1. part'[p].whole = w /\ \A q \in Part : q # p => part'[q].whole = part[q].whole
    BY <1>2
  <2> QED BY <2>1 DEF WholeNow
<1>5. ReadableNow' = [ReadableNow EXCEPT ![p] = w]
  <2>1. Readable(p)' = w
    BY <1>a, <1>r, <1>p, <1>w, <1>0, <1>1, <1>2 DEF Readable, Complete
  <2>2. \A q \in Part : q # p => Readable(q)' = Readable(q)
    BY <1>0, <1>2 DEF Readable, Complete
  <2> QED BY <2>1, <2>2, ReadableSet
<1>6. /\ Len(w) \in 0 .. NumSeqs
      /\ \A s \in Seqs : IF s < Len(w) THEN Stored(p, s) = w[s + 1] /\ w[s + 1] # None
                                       ELSE Stored(p, s) = None
  <2>1. /\ Len(w) <= NumSeqs
        /\ \A s \in Seqs : IF s < Len(w)
             THEN chunk[p][s] = w[s + 1] /\ disk[<<p, s>>] = <<w[s + 1]>>
             ELSE chunk[p][s] = None
    BY <1>a, <1>r, <1>p, <1>w DEF RowsAre
  <2>2. Len(w) \in 0 .. NumSeqs
    BY <1>1, <2>1, Bounds
  <2>3. ASSUME NEW s \in Seqs, s < Len(w)
        PROVE  Stored(p, s) = w[s + 1] /\ w[s + 1] # None
    <3>1. w[s + 1] \in Payload
      BY <1>1, <2>3, Bounds DEF Seqs
    <3>2. w[s + 1] # None /\ <<w[s + 1]>> \in Content
      BY <3>1, NullsApart DEF Content
    <3>3. <<w[s + 1]>> # None
      BY <3>2, Contents
    <3> QED BY <2>1, <2>3, <3>2, <3>3 DEF Stored
  <2>4. ASSUME NEW s \in Seqs, ~(s < Len(w))
        PROVE  Stored(p, s) = None
    BY <2>1, <2>4 DEF Stored
  <2> QED BY <2>2, <2>3, <2>4
<1>7. PICK n \in 0 .. NumSeqs : n = Len(w)
  BY <1>6
<1>8. /\ \A s \in Seqs : (StoredNow[p][s] # None) <=> (s < n)
      /\ w = [i \in 1 .. n |-> StoredNow[p][i - 1]]
  <2>1. \A s \in Seqs : (StoredNow[p][s] # None) <=> (s < n)
    BY <1>6, <1>7, NowFacts
  <2>2. ASSUME NEW i \in 1 .. n
        PROVE  w[i] = StoredNow[p][i - 1]
    <3>1. i - 1 \in Seqs /\ i - 1 < Len(w) /\ (i - 1) + 1 = i
      BY <1>7, Bounds DEF Seqs
    <3>2. Stored(p, i - 1) = w[(i - 1) + 1]
      BY <1>6, <3>1
    <3> QED BY <3>1, <3>2, NowFacts
  <2>3. w = [i \in 1 .. n |-> w[i]]
    BY <1>1, <1>7
  <2> QED BY <2>1, <2>2, <2>3
<1>9. WholeNow[p] = None /\ WholeNow'[p] = w
  BY <1>a, <1>r, <1>p, <1>2, NowFacts DEF WholeNow, Complete
<1>10. Contract!Finish(p)
  BY <1>0, <1>3, <1>4, <1>5, <1>8, <1>9 DEF Contract!Finish, Contract!Seqs, Seqs
<1> QED BY <1>10 DEF Contract!Next

LEMMA RemoveRowKept ==
  ASSUME UploadInv, RemoveRow
  PROVE  UNCHANGED Contract!vars
<1>t. TypeOK /\ TaskTrue
  BY DEF UploadInv
<1>a. task.step = "removed" /\ task.on \in Receipt /\ disk[task.on.path] = None
  BY <1>t DEF TaskTrue, RemoveRow
<1>r. PICK r \in Receipt : r = task.on
  BY <1>a
<1>1. PICK p \in Part, s \in Seqs \cup {PartBin} :
        p = r.path[1] /\ s = r.path[2] /\ r.path = <<p, s>>
  BY ReceiptFacts
<1>0. /\ UNCHANGED <<turn, disk>>
      /\ IF s = PartBin THEN part' = [part EXCEPT ![p].source = FALSE] /\ chunk' = chunk
                        ELSE chunk' = [chunk EXCEPT ![p][s] = None] /\ part' = part
  BY <1>r, <1>1 DEF RemoveRow
<1>2. CASE s = PartBin
  <2>r. PICK row : row = [part[p] EXCEPT !.source = FALSE]
    OBVIOUS
  <2>1. /\ part'[p] = row /\ row.whole = part[p].whole
        /\ \A q \in Part : q # p => part'[q] = part[q]
    BY <1>t, <1>0, <1>2, <2>r, TypeParts
  <2>2. WholeKept
    BY <2>1 DEF WholeKept
  <2>3. StoredKept
    BY <1>0, <1>2 DEF StoredKept, Stored
  <2>4. ASSUME NEW q \in Part
        PROVE  Readable(q)' = Readable(q)
    <3>1. CASE q = p
      BY <1>a, <1>r, <1>0, <1>1, <1>2, <3>1 DEF Readable
    <3>2. CASE q # p
      BY <1>0, <2>1, <3>2 DEF Readable, Complete
    <3> QED BY <3>1, <3>2
  <2> QED BY <1>0, <2>2, <2>3, <2>4, Stutters DEF ReadableKept
<1>3. CASE s \in Seqs
  <2>0. chunk' = [chunk EXCEPT ![p][s] = None] /\ part' = part
    BY <1>0, <1>3, Leaves
  <2>r. PICK row : row = [chunk[p] EXCEPT ![s] = None]
    OBVIOUS
  <2>1. chunk' = [chunk EXCEPT ![p] = row]
    BY <2>0, <2>r
  <2>2. /\ chunk'[p] = row /\ \A q \in Part : q # p => chunk'[q] = chunk[q]
        /\ \A n \in Seqs : n # s => row[n] = chunk[p][n]
    BY <1>t, <2>1, <2>r, TypeParts
  <2>3. ASSUME NEW q \in Part, NEW n \in Seqs
        PROVE  Stored(q, n)' = Stored(q, n)
    <3>1. CASE <<q, n>> = <<p, s>>
      BY <1>a, <1>r, <1>0, <1>1, <3>1 DEF Stored
    <3>2. CASE <<q, n>> # <<p, s>>
      <4>1. chunk'[q][n] = chunk[q][n]
        BY <2>2, <3>2
      <4> QED BY <1>0, <4>1 DEF Stored
    <3> QED BY <3>1, <3>2
  <2>4. ReadableKept /\ WholeKept
    BY <1>0, <2>0 DEF ReadableKept, WholeKept, Readable, Complete
  <2> QED BY <1>0, <2>3, <2>4, Stutters DEF StoredKept
<1> QED BY <1>1, <1>2, <1>3

LEMMA CreateTurnKept ==
  ASSUME UploadInv, CreateTurn
  PROVE  UNCHANGED Contract!vars
<1>t. turn \in Turns /\ TurnTrue
  BY TypeParts DEF UploadInv
<1>0. /\ UNCHANGED <<chunk, disk>> /\ turn' = [turn EXCEPT !.state = "RECEIVING"]
      /\ part' = [p \in Part |-> [whole |-> None, source |-> TRUE]] /\ turn.state = "ABSENT"
  BY DEF CreateTurn
<1>1. \A p \in Part : part[p].whole = None /\ part'[p].whole = None
  BY <1>t, <1>0 DEF TurnTrue, Complete
<1>2. WholeKept
  BY <1>1 DEF WholeKept
<1>3. ReadableKept
  BY <1>1 DEF ReadableKept, Readable, Complete
<1>4. StoredKept
  BY <1>0 DEF StoredKept, Stored
<1>5. turn'.transcript = turn.transcript /\ turn'.state = "RECEIVING"
  BY <1>t, <1>0 DEF Turns
<1> QED BY <1>0, <1>2, <1>3, <1>4, <1>5, Stutters

\* What the asr job and the removal write of the turn is not promised, but for
\* the transcript.
LEMMA TurnKept ==
  ASSUME UploadInv, AcceptTurn \/ CommitTranscript \/ AsrJobFails \/ EndConverging
  PROVE  Contract!Next \/ UNCHANGED Contract!vars
<1>t. turn \in Turns /\ TurnTrue
  BY TypeParts DEF UploadInv
<1>1. UNCHANGED <<part, chunk, disk>>
  BY DEF AcceptTurn, CommitTranscript, AsrJobFails, EndConverging
<1>2. UNCHANGED <<StoredNow, WholeNow, ReadableNow>>
  BY <1>1, SameRowsAndFiles, NowKept
<1>3. CASE AcceptTurn
  <2>1. turn'.state = "ACCEPTED" /\ turn'.transcript = turn.transcript /\ turn.state # "ACCEPTED"
    BY <1>t, <1>3 DEF AcceptTurn, Turns
  <2>2. \A p \in Part : WholeNow[p] # None
    BY <1>3, NowFacts DEF AcceptTurn, Complete
  <2>3. Contract!Accept
    BY <1>2, <2>1, <2>2 DEF Contract!Accept
  <2> QED BY <2>3 DEF Contract!Next
<1>4. CASE CommitTranscript
  <2>1. turn'.state = "ACCEPTED" /\ turn'.transcript /\ turn.state = "ACCEPTED"
    BY <1>t, <1>4 DEF CommitTranscript, Turns
  <2>2. turn.transcript = FALSE /\ turn'.transcript = TRUE
    BY <1>t, <1>4 DEF CommitTranscript, TurnTrue, Turns
  <2>3. Contract!Release
    BY <1>2, <2>1, <2>2 DEF Contract!Release
  <2> QED BY <2>3 DEF Contract!Next
<1>5. CASE AsrJobFails \/ EndConverging
  <2>1. turn'.state = turn.state /\ turn'.transcript = turn.transcript
    BY <1>t, <1>5 DEF AsrJobFails, EndConverging, Turns
  <2> QED BY <1>1, <2>1, SameRowsAndFiles, Stutters
<1> QED BY <1>3, <1>4, <1>5

LEMMA RestKept ==
  ASSUME UNCHANGED <<turn, part, chunk, disk>>
  PROVE  UNCHANGED Contract!vars
BY SameRowsAndFiles, Stutters

LEMMA StepKept == UploadInv /\ [Next]_vars => [Contract!Next]_Contract!vars
<1> SUFFICES ASSUME UploadInv, [Next]_vars
             PROVE  Contract!Next \/ UNCHANGED Contract!vars
  OBVIOUS
<1>1. CASE UNCHANGED vars
  BY <1>1, RestKept DEF vars
<1>2. CASE CreateTurn \/ AcceptTurn
  BY <1>2, CreateTurnKept, TurnKept
<1>3. CASE \E p \in Part, s \in Seqs, x \in Payload : PreparePut(p, s, x)
  BY <1>3, RestKept DEF PreparePut
<1>4. CASE \E p \in Part, w \in Asserted : PrepareFinish(p, w)
  BY <1>4, RestKept DEF PrepareFinish
<1>5. CASE RefusePut \/ WriteChunk \/ CommitChunk \/ LinkPart \/ CommitPart \/ RollBack
  <2>1. RefusePut \/ RollBack => UNCHANGED <<turn, part, chunk, disk>>
    BY DEF RefusePut, RollBack
  <2> QED BY <1>5, <2>1, RestKept, FilesKept, CommitChunkKept, CommitPartKept
<1>6. CASE Recovery
  <2>1. ASSUME NEW r \in Receipt, LeaseReceipt(r) \/ SkipReceipt(r) \/ LeaseRunsOut(r)
        PROVE  UNCHANGED <<turn, part, chunk, disk>>
    BY <2>1 DEF LeaseReceipt, SkipReceipt, LeaseRunsOut
  <2>2. ASSUME \/ RecoverReceipts \/ EndRecovery \/ UnlinkFails \/ CompleteReceipt
               \/ Judge("complete", "NONE") \/ Judge("block", "BLOCKED")
        PROVE  UNCHANGED <<turn, part, chunk, disk>>
    BY <2>2 DEF RecoverReceipts, EndRecovery, UnlinkFails, CompleteReceipt, Judge
  <2> QED BY <1>6, <2>1, <2>2, RestKept, FilesKept DEF Recovery
<1>7. CASE Removal
  <2>1. ASSUME NEW r \in Receipt, LeaveSource(r)
        PROVE  UNCHANGED <<turn, part, chunk, disk>>
    BY <2>1 DEF LeaveSource
  <2>2. ASSUME WorkerConverges \/ WorkerStops \/ RetryDeletion
        PROVE  UNCHANGED <<turn, part, chunk, disk>>
    BY <2>2 DEF WorkerConverges, WorkerStops, RetryDeletion
  <2> QED BY <1>7, <2>1, <2>2, RestKept, TurnKept, RemoveRowKept, RemoveSourceKept DEF Removal
<1>8. CASE Crash \/ Restart
  BY <1>8, RestKept DEF Crash, Restart
<1> QED BY <1>1, <1>2, <1>3, <1>4, <1>5, <1>6, <1>7, <1>8 DEF Next

LEMMA InitKept == Init => Contract!Init
<1> SUFFICES ASSUME Init PROVE Contract!Init
  OBVIOUS
<1>1. \A p \in Part, s \in Seqs : Stored(p, s) = None
  BY DEF Init, Stored
<1>2. \A p \in Part : part[p].whole = None /\ Readable(p) = None
  BY DEF Init, Readable, Complete
<1>3. StoredNow = [p \in Part |-> [s \in Seqs |-> None]]
  BY <1>1 DEF StoredNow
<1>4. /\ WholeNow = [p \in Part |-> None]
      /\ ReadableNow = [p \in Part |-> None]
  BY <1>2 DEF WholeNow, ReadableNow
<1>5. (turn.state = "ACCEPTED") = FALSE /\ turn.transcript = FALSE
  BY DEF Init
<1> QED BY <1>3, <1>4, <1>5 DEF Contract!Init, Contract!Seqs, Seqs

\* The upload implements PartStore: a stored chunk stays readable and is never
\* replaced, a part is finished once as the concatenation of its chunks, a turn is
\* accepted when every part is finished, and only audio with a committed transcript
\* is let go, whatever dies, fails, repeats or races in put_chunk, finish_part,
\* accept_turn and the clean-up of commit_asr_result and recover.
THEOREM StorageIsKept == Spec => StoredIsKept
BY Inductive, InitKept, StepKept, PTL DEF Spec, StoredIsKept, Contract!Spec

-----------------------------------------------------------------------------
(* No upload gets more bytes into the rows than the limits allow.  The     *)
(* octets of finitely many rows are a finite set, and a step adds those of *)
(* one chunk at most: the one it was checked for.                          *)

LEMMA OneMore ==
  ASSUME NEW S, IsFiniteSet(S), NEW x
  PROVE  /\ IsFiniteSet(S \cup {x}) /\ Cardinality(S) \in Nat
         /\ Cardinality(S \cup {x}) \in Nat /\ Cardinality(S \cup {x}) <= Cardinality(S) + 1
<1>1. Cardinality(S) \in Nat
  BY FS_CardinalityType
<1> QED BY <1>1, FS_AddElement

LEMMA FiniteUnion ==
  ASSUME NEW D, IsFiniteSet(D), NEW f, f = [s \in D |-> f[s]], \A s \in D : IsFiniteSet(f[s])
  PROVE  IsFiniteSet(UNION {f[s] : s \in D})
<1>1. PICK T : T = {f[s] : s \in D}
  OBVIOUS
<1>2. f \in Surjection(D, T)
  BY <1>1 DEF Surjection
<1>3. IsFiniteSet(T)
  BY <1>2, FS_Surjection
<1>4. \A S \in T : IsFiniteSet(S)
  BY <1>1
<1>5. IsFiniteSet(UNION T)
  BY <1>3, <1>4, FS_UNION
<1> QED BY <1>1, <1>5

LimitsTrue ==
  /\ LimitsHold
  /\ task.step = "written" => FitsPart(task.on.path[1], task.on.content[1])

\* What a step that touches no row does to the counts.
LEMMA SameRows ==
  ASSUME chunk' = chunk
  PROVE  /\ \A p : Held(p)' = Held(p) /\ Octets(Held(p))' = Octets(Held(p))
         /\ TurnBytes' = TurnBytes /\ LimitsHold' = LimitsHold
         /\ \A p, x : FitsPart(p, x)' = FitsPart(p, x)
<1>1. \A p : /\ Held(p)' = Held(p) /\ Octets(Held(p))' = Octets(Held(p))
             /\ Bytes(Held(p))' = Bytes(Held(p))
  BY DEF Held, Octets, Bytes
<1>2. TurnBytes' = TurnBytes
  BY <1>1 DEF TurnBytes
<1> QED BY <1>1, <1>2 DEF LimitsHold, FitsPart

\* The bytes of a part are finitely many, and so are those of the turn.
LEMMA FinitelyMany ==
  ASSUME TypeOK
  PROVE  /\ \A p \in Part : IsFiniteSet(Octets(Held(p))) /\ Bytes(Held(p)) \in Nat
         /\ IsFiniteSet(UNION {{p} \X Octets(Held(p)) : p \in Part}) /\ TurnBytes \in Nat
<1>1. ASSUME NEW p \in Part PROVE IsFiniteSet(Octets(Held(p)))
  <2> DEFINE D == DOMAIN Held(p)
             O(s) == {s} \X (1 .. Size[Held(p)[s]])
  <2>1. D \subseteq Seqs /\ \A s \in D : Held(p)[s] \in Payload
    <3>1. D = {s \in Seqs : chunk[p][s] # None}
      BY DEF Held
    <3>2. \A s \in D : Held(p)[s] = chunk[p][s]
      BY <3>1 DEF Held
    <3> QED BY <3>1, <3>2 DEF TypeOK
  <2>2. IsFiniteSet(Seqs)
    BY Bounds, FS_Interval DEF Seqs
  <2>3. IsFiniteSet(D)
    BY <2>1, <2>2, FS_Subset
  <2>4. ASSUME NEW s \in D PROVE IsFiniteSet(O(s))
    <3>1. Size[Held(p)[s]] \in Nat
      BY <2>1, Sizes
    <3>2. IsFiniteSet(1 .. Size[Held(p)[s]])
      BY <3>1, FS_Interval
    <3> QED BY <3>2, FS_Singleton, FS_Product
  <2>5. PICK f : f = [s \in D |-> O(s)]
    OBVIOUS
  <2>6. f = [s \in D |-> f[s]] /\ \A s \in D : f[s] = O(s) /\ IsFiniteSet(f[s])
    BY <2>4, <2>5
  <2>7. UNION {f[s] : s \in D} = Octets(Held(p))
    BY <2>6 DEF Octets
  <2> HIDE DEF D, O
  <2>8. IsFiniteSet(UNION {f[s] : s \in D})
    BY <2>3, <2>6, FiniteUnion
  <2> QED BY <2>7, <2>8
<1>2. IsFiniteSet(UNION {{p} \X Octets(Held(p)) : p \in Part})
  <2> DEFINE O(p) == {p} \X Octets(Held(p))
  <2>1. \A p \in Part : IsFiniteSet(O(p))
    BY <1>1, FS_Singleton, FS_Product
  <2>2. PICK f : f = [p \in Part |-> O(p)]
    OBVIOUS
  <2>3. f = [p \in Part |-> f[p]] /\ \A p \in Part : f[p] = O(p) /\ IsFiniteSet(f[p])
    BY <2>1, <2>2
  <2>4. UNION {f[p] : p \in Part} = UNION {{p} \X Octets(Held(p)) : p \in Part}
    BY <2>3
  <2> HIDE DEF O
  <2>5. IsFiniteSet(UNION {f[p] : p \in Part})
    BY <2>3, Kinds, FiniteUnion
  <2> QED BY <2>4, <2>5
<1> QED BY <1>1, <1>2, FS_CardinalityType DEF Bytes, TurnBytes

LEMMA ManyMore ==
  ASSUME NEW S, IsFiniteSet(S), NEW T, IsFiniteSet(T), NEW U, U \subseteq S \cup T
  PROVE  /\ IsFiniteSet(U) /\ Cardinality(U) \in Nat
         /\ Cardinality(U) <= Cardinality(S) + Cardinality(T)
<1>1. IsFiniteSet(S \cup T) /\ Cardinality(S \cup T) <= Cardinality(S) + Cardinality(T)
  <2>1. IsFiniteSet(S \cap T)
    BY FS_Intersection
  <2>3. Cardinality(S \cup T) = Cardinality(S) + Cardinality(T) - Cardinality(S \cap T)
        /\ IsFiniteSet(S \cup T)
    BY FS_Union
  <2>2. Cardinality(S) \in Nat /\ Cardinality(T) \in Nat /\ Cardinality(S \cap T) \in Nat
    BY <2>1, FS_CardinalityType
  <2> QED BY <2>2, <2>3
<1>2. Cardinality(S) \in Nat /\ Cardinality(T) \in Nat /\ Cardinality(S \cup T) \in Nat
  BY <1>1, FS_CardinalityType
<1>3. IsFiniteSet(U) /\ Cardinality(U) <= Cardinality(S \cup T) /\ Cardinality(U) \in Nat
  BY <1>1, FS_Subset, FS_CardinalityType
<1> QED BY <1>1, <1>2, <1>3

\* A row that is taken away or set leaves the other octets as they are.
LEMMA OctetsGrow ==
  ASSUME TypeOK, NEW q \in Part, NEW s \in Seqs, NEW x,
         chunk' = [chunk EXCEPT ![q][s] = x]
  PROVE  \A p \in Part : Octets(Held(p))' \subseteq
           Octets(Held(p)) \cup (IF p = q /\ x # None THEN {s} \X (1 .. Size[x]) ELSE {})
<1> SUFFICES ASSUME NEW p \in Part, NEW o \in Octets(Held(p))'
             PROVE  o \in Octets(Held(p)) \cup
                         (IF p = q /\ x # None THEN {s} \X (1 .. Size[x]) ELSE {})
  OBVIOUS
<1>1. /\ \A r : r \in DOMAIN Held(p) <=> r \in Seqs /\ chunk[p][r] # None
      /\ \A r \in Seqs : chunk[p][r] # None => Held(p)[r] = chunk[p][r]
  BY DEF Held
<1>2. /\ \A r : r \in DOMAIN Held(p)' <=> r \in Seqs /\ chunk'[p][r] # None
      /\ \A r \in Seqs : chunk'[p][r] # None => Held(p)'[r] = chunk'[p][r]
  BY DEF Held, Seqs
<1>3. PICK r \in DOMAIN Held(p)' : o \in {r} \X (1 .. Size[Held(p)'[r]])
  BY DEF Octets
<1>4. r \in Seqs /\ chunk'[p][r] # None /\ o \in {r} \X (1 .. Size[chunk'[p][r]])
  BY <1>2, <1>3
<1>5. chunk'[p][r] = IF p = q /\ r = s THEN x ELSE chunk[p][r]
  BY <1>4 DEF TypeOK
<1>6. CASE p = q /\ r = s
  BY <1>4, <1>5, <1>6
<1>7. CASE ~(p = q /\ r = s)
  <2>1. r \in DOMAIN Held(p) /\ Held(p)[r] = chunk[p][r]
    BY <1>1, <1>4, <1>5, <1>7
  <2>2. o \in {r} \X (1 .. Size[Held(p)[r]])
    BY <1>4, <1>5, <1>7, <2>1
  <2> QED BY <2>1, <2>2 DEF Octets
<1> QED BY <1>6, <1>7

\* So the counts grow by the size of the chunk at most.
LEMMA CountsGrow ==
  ASSUME TypeOK, NEW q \in Part, NEW s \in Seqs, NEW x \in {None} \cup Payload,
         chunk' = [chunk EXCEPT ![q][s] = x]
  PROVE  LET more == IF x = None THEN 0 ELSE Size[x] IN
         /\ TurnBytes' \in Nat /\ TurnBytes' <= TurnBytes + more
         /\ \A p \in Part : /\ Bytes(Held(p))' \in Nat
                            /\ Bytes(Held(p))' <= Bytes(Held(p)) + (IF p = q THEN more ELSE 0)
<1> DEFINE New == IF x # None THEN {s} \X (1 .. Size[x]) ELSE {}
           more == IF x = None THEN 0 ELSE Size[x]
<1>1. IsFiniteSet(New) /\ Cardinality(New) = more /\ more \in Nat
  <2>1. CASE x = None
    BY <2>1, FS_EmptySet
  <2>2. CASE x # None
    <3>1. Size[x] \in Nat
      BY <2>2, Sizes
    <3>2. IsFiniteSet(1 .. Size[x]) /\ Cardinality(1 .. Size[x]) = Size[x]
      BY <3>1, FS_Interval
    <3>3. IsFiniteSet({s}) /\ Cardinality({s}) = 1
      BY FS_Singleton
    <3>4. /\ IsFiniteSet({s} \X (1 .. Size[x]))
          /\ Cardinality({s} \X (1 .. Size[x])) = Cardinality({s}) * Cardinality(1 .. Size[x])
      BY <3>2, <3>3, FS_Product
    <3> QED BY <2>2, <3>1, <3>2, <3>3, <3>4
  <2> QED BY <2>1, <2>2
<1>2. \A p \in Part : /\ p = q => Octets(Held(p))' \subseteq Octets(Held(p)) \cup New
                      /\ p # q => Octets(Held(p))' \subseteq Octets(Held(p))
  BY OctetsGrow
<1> HIDE DEF New, more
<1>3. ASSUME NEW p \in Part
      PROVE  /\ Bytes(Held(p))' \in Nat
             /\ Bytes(Held(p))' <= Bytes(Held(p)) + (IF p = q THEN more ELSE 0)
  <2>1. IsFiniteSet(Octets(Held(p))) /\ Bytes(Held(p)) \in Nat
    BY FinitelyMany
  <2>2. Bytes(Held(p)) = Cardinality(Octets(Held(p)))
        /\ Bytes(Held(p))' = Cardinality(Octets(Held(p))')
    BY DEF Bytes
  <2>3. CASE p = q
    <3>1. /\ Cardinality(Octets(Held(p))') \in Nat
          /\ Cardinality(Octets(Held(p))') <= Cardinality(Octets(Held(p))) + Cardinality(New)
      BY <1>1, <1>2, <2>1, <2>3, ManyMore
    <3> QED BY <1>1, <2>2, <2>3, <3>1
  <2>4. CASE p # q
    <3>1. /\ Cardinality(Octets(Held(p))') \in Nat
          /\ Cardinality(Octets(Held(p))') <= Cardinality(Octets(Held(p)))
      BY <1>2, <2>1, <2>4, FS_Subset, FS_CardinalityType
    <3> QED BY <2>1, <2>2, <2>4, <3>1
  <2> QED BY <2>3, <2>4
<1>4. TurnBytes' \in Nat /\ TurnBytes' <= TurnBytes + more
  <2> DEFINE All == UNION {{p} \X Octets(Held(p)) : p \in Part}
             AllThen == UNION {{p} \X Octets(Held(p))' : p \in Part}
  <2>1. IsFiniteSet({q} \X New) /\ Cardinality({q} \X New) = more
    <3>1. IsFiniteSet({q}) /\ Cardinality({q}) = 1
      BY FS_Singleton
    <3>2. Cardinality({q} \X New) = Cardinality({q}) * Cardinality(New) /\ IsFiniteSet({q} \X New)
      BY <1>1, <3>1, FS_Product
    <3> QED BY <1>1, <3>1, <3>2
  <2>2. AllThen \subseteq All \cup ({q} \X New)
    <3>1. ASSUME NEW o \in AllThen PROVE o \in All \cup ({q} \X New)
      <4>1. PICK p \in Part : o \in {p} \X Octets(Held(p))'
        OBVIOUS
      <4>2. CASE p = q
        BY <1>2, <4>1, <4>2
      <4>3. CASE p # q
        BY <1>2, <4>1, <4>3
      <4> QED BY <4>2, <4>3
    <3> QED BY <3>1
  <2>3. IsFiniteSet(All) /\ TurnBytes = Cardinality(All) /\ TurnBytes \in Nat
    BY FinitelyMany DEF TurnBytes
  <2>4. TurnBytes' = Cardinality(AllThen)
    BY DEF TurnBytes
  <2> HIDE DEF All, AllThen
  <2>5. Cardinality(AllThen) \in Nat
        /\ Cardinality(AllThen) <= Cardinality(All) + Cardinality({q} \X New)
    BY <2>1, <2>2, <2>3, ManyMore
  <2> QED BY <1>1, <2>1, <2>3, <2>4, <2>5
<1> QED BY <1>3, <1>4 DEF more

LEMMA LimitsInit == Init => LimitsTrue
<1> SUFFICES ASSUME Init PROVE LimitsTrue
  OBVIOUS
<1>1. \A p \in Part : Octets(Held(p)) = {}
  <2>1. \A p \in Part : DOMAIN Held(p) = {}
    BY DEF Init, Held
  <2> QED BY <2>1 DEF Octets
<1>2. /\ UNION {{p} \X Octets(Held(p)) : p \in Part} = {}
      /\ \A p \in Part : Bytes(Held(p)) = 0 /\ TurnBytes = 0
  <2>1. UNION {{p} \X Octets(Held(p)) : p \in Part} = {}
    BY <1>1
  <2> QED BY <1>1, <2>1, FS_EmptySet DEF Bytes, TurnBytes
<1>3. TurnBytes = 0
  BY <1>2, FS_EmptySet DEF TurnBytes
<1>4. task.step # "written"
  BY DEF Init, Idle
<1>5. \A p \in Part : Declared[p] # Undeclared => Declared[p] \in Nat
  BY Manifest
<1> QED BY <1>2, <1>3, <1>4, <1>5, Bounds DEF LimitsTrue, LimitsHold

\* A step that touches no row, and writes no chunk.
LEMMA QuietLimits ==
  ASSUME LimitsTrue, chunk' = chunk, task' = task \/ task'.step # "written"
  PROVE  LimitsTrue'
<1>1. LimitsHold'
  BY SameRows DEF LimitsTrue
<1>2. ASSUME task'.step = "written" PROVE FitsPart(task.on.path[1], task.on.content[1])' 
  <2>1. task' = task
    BY <1>2
  <2> QED BY <1>2, <2>1, SameRows DEF LimitsTrue
<1> QED BY <1>1, <1>2 DEF LimitsTrue

LEMMA WriteLimits ==
  ASSUME LimitsTrue, UploadInv, WriteChunk
  PROVE  LimitsTrue'
<1>1. /\ chunk' = chunk /\ task'.on = task.on
      /\ FitsPart(task.on.path[1], task.on.content[1])
  BY TypeParts DEF WriteChunk, UploadInv, Tasks
<1> QED BY <1>1, SameRows DEF LimitsTrue

LEMMA CommitLimits ==
  ASSUME LimitsTrue, UploadInv, CommitChunk
  PROVE  LimitsTrue'
<1>1. /\ TypeOK /\ task.on \in Receipt /\ task.on.path[2] \in Seqs
      /\ FitsPart(task.on.path[1], task.on.content[1])
      /\ chunk' = [chunk EXCEPT ![task.on.path[1]][task.on.path[2]] = task.on.content[1]]
      /\ task'.step = "idle" /\ LimitsHold
  BY DEF UploadInv, TaskTrue, CommitChunk, LimitsTrue, Idle
<1>2. PICK q \in Part, s \in Seqs, x \in Payload :
        q = task.on.path[1] /\ s = task.on.path[2] /\ x = task.on.content[1]
  BY <1>1, ReceiptFacts, ChunkReceipts
<1>3. x # None /\ x \in {None} \cup Payload /\ Size[x] \in Nat
  BY NullsApart, Sizes
<1>4. /\ TurnBytes' \in Nat /\ TurnBytes' <= TurnBytes + Size[x]
      /\ \A p \in Part : /\ Bytes(Held(p))' \in Nat
                         /\ Bytes(Held(p))' <= Bytes(Held(p)) + (IF p = q THEN Size[x] ELSE 0)
  BY <1>1, <1>2, <1>3, CountsGrow
<1>5. TurnBytes \in Nat /\ \A p \in Part : Bytes(Held(p)) \in Nat
  BY <1>1, FinitelyMany
<1>6. FitsPart(q, x) /\ PartLimit \in Nat /\ TurnLimit \in Nat
  BY <1>1, <1>2, Bounds
<1>7. TurnBytes' <= TurnLimit
  BY <1>3, <1>4, <1>5, <1>6 DEF FitsPart
<1>8. ASSUME NEW p \in Part
      PROVE  /\ Bytes(Held(p))' <= PartLimit
             /\ Declared[p] # Undeclared => Bytes(Held(p))' <= Declared[p]
  <2>1. Declared[p] # Undeclared => Declared[p] \in Nat
    BY Manifest
  <2>2. /\ Bytes(Held(p)) <= PartLimit
        /\ Declared[p] # Undeclared => Bytes(Held(p)) <= Declared[p]
    BY DEF LimitsTrue, LimitsHold
  <2>3. CASE p = q
    BY <1>3, <1>4, <1>5, <1>6, <2>1, <2>3 DEF FitsPart
  <2>4. CASE p # q
    BY <1>4, <1>5, <1>6, <2>1, <2>2, <2>4
  <2> QED BY <2>3, <2>4
<1>9. LimitsHold'
  BY <1>7, <1>8 DEF LimitsHold
<1> QED BY <1>1, <1>9 DEF LimitsTrue

LEMMA RemoveLimits ==
  ASSUME LimitsTrue, UploadInv, RemoveRow
  PROVE  LimitsTrue'
<1>1. /\ TypeOK /\ task.on \in Receipt /\ task.step = "removed" /\ LimitsHold
      /\ task'.step = "converging"
  BY TypeParts DEF UploadInv, TaskTrue, RemoveRow, LimitsTrue, Tasks
<1>2. PICK q \in Part, s \in Seqs \cup {PartBin} : q = task.on.path[1] /\ s = task.on.path[2]
  BY <1>1, ReceiptFacts
<1>3. CASE chunk' = chunk
  BY <1>1, <1>3, QuietLimits
<1>4. CASE chunk' # chunk
  <2>1. s \in Seqs /\ chunk' = [chunk EXCEPT ![q][s] = None]
    BY <1>2, <1>4 DEF RemoveRow
  <2>2. /\ TurnBytes' \in Nat /\ TurnBytes' <= TurnBytes + 0
        /\ \A p \in Part : /\ Bytes(Held(p))' \in Nat
                           /\ Bytes(Held(p))' <= Bytes(Held(p)) + (IF p = q THEN 0 ELSE 0)
    BY <1>1, <2>1, CountsGrow
  <2>3. TurnBytes \in Nat /\ \A p \in Part : Bytes(Held(p)) \in Nat
    BY <1>1, FinitelyMany
  <2>4. TurnBytes' <= TurnLimit
    BY <1>1, <2>2, <2>3, Bounds DEF LimitsHold
  <2>5. ASSUME NEW p \in Part
        PROVE  /\ Bytes(Held(p))' <= PartLimit
               /\ Declared[p] # Undeclared => Bytes(Held(p))' <= Declared[p]
    <3>1. Declared[p] # Undeclared => Declared[p] \in Nat
      BY Manifest
    <3>2. /\ Bytes(Held(p)) <= PartLimit
          /\ Declared[p] # Undeclared => Bytes(Held(p)) <= Declared[p]
      BY DEF LimitsTrue, LimitsHold
    <3>3. Bytes(Held(p))' \in Nat /\ Bytes(Held(p))' <= Bytes(Held(p)) /\ Bytes(Held(p)) \in Nat
      BY <2>2, <2>3
    <3> QED BY <3>1, <3>2, <3>3, Bounds
  <2> QED BY <1>1, <2>4, <2>5 DEF LimitsTrue, LimitsHold
<1> QED BY <1>3, <1>4

\* All other steps are such steps.
LEMMA OtherLimits ==
  ASSUME UploadInv, LimitsTrue, Next, ~WriteChunk, ~CommitChunk, ~RemoveRow
  PROVE  LimitsTrue'
<1>t. task \in [step: Steps, on: {None} \cup Receipt, todo: SUBSET Receipt]
  BY TypeParts DEF UploadInv, Tasks
<1>1. ASSUME CreateTurn \/ AcceptTurn \/ CommitTranscript \/ AsrJobFails \/ WorkerStops
             \/ \E r \in Receipt : LeaseRunsOut(r)
      PROVE  chunk' = chunk /\ task' = task
  BY <1>1 DEF CreateTurn, AcceptTurn, CommitTranscript, AsrJobFails, WorkerStops, LeaseRunsOut
<1>2. ASSUME RefusePut \/ CommitPart \/ Crash \/ Restart \/ EndRecovery \/ EndConverging
      PROVE  chunk' = chunk /\ task'.step # "written"
  BY <1>2 DEF RefusePut, CommitPart, Crash, Restart, EndRecovery, EndConverging, Idle, Down
<1>3. ASSUME \/ RollBack \/ RecoverReceipts \/ WorkerConverges \/ RetryDeletion
             \/ \E p \in Part, s \in Seqs, x \in Payload : PreparePut(p, s, x)
             \/ \E p \in Part, w \in Asserted : PrepareFinish(p, w)
      PROVE  chunk' = chunk /\ task'.step # "written"
  BY <1>3 DEF RollBack, RecoverReceipts, WorkerConverges, RetryDeletion, PreparePut,
     PrepareFinish, Idle
<1>4. ASSUME LinkPart \/ UnlinkLeftover \/ CompleteReceipt
      PROVE  chunk' = chunk /\ task'.step # "written"
  BY <1>t, <1>4 DEF LinkPart, UnlinkLeftover, CompleteReceipt
<1>5. ASSUME NEW v, NEW u, Judge(v, u)
      PROVE  chunk' = chunk /\ task'.step # "written"
  BY <1>t, <1>5 DEF Judge
<1>6. ASSUME NEW r \in Receipt, LeaseReceipt(r) \/ RemoveSource(r)
      PROVE  chunk' = chunk /\ task'.step # "written"
  BY <1>6 DEF LeaseReceipt, RemoveSource
<1>7. ASSUME NEW r \in Receipt, SkipReceipt(r) \/ LeaveSource(r)
      PROVE  chunk' = chunk /\ task'.step # "written"
  <2>1. task.step # "written" /\ task' = [task EXCEPT !.todo = @ \ {r}] /\ chunk' = chunk
    BY <1>7 DEF SkipReceipt, LeaveSource
  <2>2. task'.step = task.step
    BY <1>t, <2>1
  <2> QED BY <2>1, <2>2
<1>8. CASE Recovery
  <2>1. chunk' = chunk /\ (task' = task \/ task'.step # "written")
    BY <1>8, <1>1, <1>2, <1>3, <1>4, <1>5, <1>6, <1>7 DEF Recovery, UnlinkFails
  <2> QED BY <2>1, QuietLimits
<1>9. CASE Removal
  <2>1. chunk' = chunk /\ (task' = task \/ task'.step # "written")
    BY <1>9, <1>1, <1>2, <1>3, <1>6, <1>7 DEF Removal
  <2> QED BY <2>1, QuietLimits
<1>10. CASE ~Recovery /\ ~Removal
  <2>1. chunk' = chunk /\ (task' = task \/ task'.step # "written")
    BY <1>10, <1>1, <1>2, <1>3, <1>4 DEF Next
  <2> QED BY <2>1, QuietLimits
<1> QED BY <1>8, <1>9, <1>10

LEMMA LimitsNext == LimitsTrue /\ UploadInv /\ [Next]_vars => LimitsTrue'
<1> SUFFICES ASSUME LimitsTrue, UploadInv, [Next]_vars PROVE LimitsTrue'
  OBVIOUS
<1>1. CASE UNCHANGED vars
  BY <1>1, QuietLimits DEF vars
<1> QED BY <1>1, WriteLimits, CommitLimits, RemoveLimits, OtherLimits

LEMMA LimitsInductive == Spec => []LimitsTrue
BY Inductive, LimitsInit, LimitsNext, PTL DEF Spec
-----------------------------------------------------------------------------
(* The pages of the missing chunks.                                        *)

LEMMA SameSizes == \A S : Paging!Cardinality(S) = Cardinality(S)
BY DEF Paging!Cardinality, Cardinality

\* A set of naturals that is not empty has a least element.
LEMMA LeastNatural ==
  ASSUME NEW T, T \subseteq Nat, T # {}
  PROVE  \E n \in T : \A m \in T : n <= m
<1> DEFINE R == OpToRel(<, Nat)
<1>1. IsWellFoundedOn(R, Nat)
  BY NatLessThanWellFounded
<1>2. \A m, n \in Nat : m < n => <<m, n>> \in R
  BY DEF OpToRel
<1> HIDE DEF R
<1>3. PICK n \in T : \A m \in T : ~(<<m, n>> \in R)
  BY <1>1, WFMin
<1>4. ASSUME NEW m \in T PROVE n <= m
  <2>1. m \in Nat /\ n \in Nat /\ ~(m < n)
    BY <1>2, <1>3
  <2> QED BY <2>1
<1> QED BY <1>4

PagesTrue ==
  /\ Paging!TypeOK
  /\ progress = "open" => arrived \subseteq have
  /\ progress = "complete" => have = Paging!Chunks
  /\ Paging!HidesOnePerArrival

LEMMA TypedPages ==
  ASSUME Paging!TypeOK
  PROVE  offset \in Nat /\ asking.limit \in Nat /\ asking.limit > 0
<1>1. asking.limit \in Limits
  BY DEF Paging!TypeOK
<1>2. asking.limit \in Nat \ {0}
  BY <1>1, PageConstants
<1>3. offset \in 0 .. Expected
  BY DEF Paging!TypeOK
<1> QED BY <1>2, <1>3, PageConstants

LEMMA UnitsAre ==
  ASSUME Paging!TypeOK
  PROVE  Paging!Units \subseteq Paging!Chunks /\ Paging!Chunks \subseteq Nat
         /\ \A n \in Paging!Units : n \notin have
BY PageConstants DEF Paging!Units, Paging!Runs, Paging!Missing, Paging!Begins, Paging!Chunks

LEMMA ChunksFinite == \A S \in SUBSET Paging!Chunks : IsFiniteSet(S) /\ Cardinality(S) \in Nat
                                               /\ Cardinality(S) <= Expected
<1>1. IsFiniteSet(Paging!Chunks) /\ Cardinality(Paging!Chunks) = Expected
  BY PageConstants, FS_Interval DEF Paging!Chunks
<1> QED BY <1>1, FS_Subset, FS_CardinalityType

\* The entries below one of them.
Below(n) == {m \in Paging!Units : m < n}

LEMMA BelowIs ==
  ASSUME Paging!TypeOK, NEW n
  PROVE  /\ Below(n) \subseteq Paging!Chunks /\ IsFiniteSet(Below(n))
         /\ Paging!Rank(n) = Cardinality(Below(n)) /\ Paging!Rank(n) \in Nat
<1>1. Below(n) \subseteq Paging!Chunks
  BY UnitsAre DEF Below
<1> QED BY <1>1, ChunksFinite, SameSizes DEF Below, Paging!Rank

\* Ranks go up with the entries, and no two entries have the same.
LEMMA RanksRise ==
  ASSUME Paging!TypeOK, NEW m \in Paging!Units, NEW n \in Paging!Units, m < n
  PROVE  Paging!Rank(m) < Paging!Rank(n)
<1>1. m \in Nat /\ n \in Nat /\ Paging!Units \subseteq Nat
  BY UnitsAre
<1>2. Below(m) \cup {m} \subseteq Below(n) /\ m \notin Below(m)
  <2>1. ~(m < m) /\ \A k \in Paging!Units : k < m => k < n
    BY <1>1
  <2> QED BY <2>1 DEF Below
<1>3. /\ IsFiniteSet(Below(m) \cup {m})
      /\ Cardinality(Below(m) \cup {m}) = Paging!Rank(m) + 1
  BY <1>2, BelowIs, FS_AddElement
<1>4. Cardinality(Below(m) \cup {m}) <= Cardinality(Below(n))
  BY <1>2, BelowIs, FS_Subset
<1> QED BY <1>3, <1>4, BelowIs

LEMMA RanksApart ==
  ASSUME Paging!TypeOK, NEW m \in Paging!Units, NEW n \in Paging!Units,
         Paging!Rank(m) = Paging!Rank(n)
  PROVE  m = n
<1>1. m \in Nat /\ n \in Nat
  BY UnitsAre
<1>2. Paging!Rank(m) \in Nat /\ Paging!Rank(n) \in Nat
  BY BelowIs
<1>3. ~(m < n) /\ ~(n < m)
  BY <1>2, RanksRise
<1> QED BY <1>1, <1>3

LEMMA PageFits ==
  ASSUME Paging!TypeOK
  PROVE  /\ Paging!Page \subseteq Paging!Chunks /\ Cardinality(Paging!Page) \in Nat
         /\ Cardinality(Paging!Page) <= asking.limit
<1>t. offset \in Nat /\ asking.limit \in Nat /\ asking.limit > 0
  BY TypedPages
<1>1. Paging!Page \subseteq Paging!Units /\ Paging!Page \subseteq Paging!Chunks
  BY UnitsAre DEF Paging!Page
<1> DEFINE Slots == offset .. (offset + asking.limit - 1)
           rank == [n \in Paging!Page |-> Paging!Rank(n)]
<1>2. IsFiniteSet(Slots) /\ Cardinality(Slots) = asking.limit
  <2>1. /\ offset \in Int /\ offset + asking.limit - 1 \in Int
        /\ ~(offset > offset + asking.limit - 1)
        /\ (offset + asking.limit - 1) - offset + 1 = asking.limit
    BY <1>t
  <2> QED BY <2>1, FS_Interval
<1>3. \A n \in Paging!Page : Paging!Rank(n) \in Slots
  BY <1>t, BelowIs DEF Paging!Page
<1>4. rank \in Injection(Paging!Page, Slots)
  <2>1. rank \in [Paging!Page -> Slots]
    BY <1>3
  <2>2. \A m, n \in Paging!Page : rank[m] = rank[n] => m = n
    BY <1>1, RanksApart
  <2> HIDE DEF rank, Slots
  <2> QED BY <2>1, <2>2, Zenon DEF Injection, IsInjective
<1> HIDE DEF Slots, rank
<1>5. Cardinality(Paging!Page) <= Cardinality(Slots)
  BY <1>2, <1>4, FS_Injection
<1> QED BY <1>1, <1>2, <1>5, ChunksFinite

LEMMA PassedIs ==
  ASSUME Paging!TypeOK
  PROVE  Paging!Passed \subseteq Paging!Chunks /\ IsFiniteSet(Paging!Passed)
         /\ Cardinality(Paging!Passed) \in Nat
<1>1. Paging!Passed \subseteq Paging!Chunks
  BY UnitsAre DEF Paging!Passed
<1> QED BY <1>1, ChunksFinite

\* Nothing is missing of what is complete or removed.
LEMMA NothingLeft ==
  ASSUME Paging!TypeOK, progress = "removed" \/ have = Paging!Chunks
  PROVE  Paging!Units = {} /\ Paging!Passed = {}
BY DEF Paging!Units, Paging!Runs, Paging!Missing, Paging!Passed

LEMMA FewerPassed ==
  ASSUME PagesTrue, Paging!TypeOK', arrived' = arrived, Paging!Passed' \subseteq Paging!Passed
  PROVE  Paging!HidesOnePerArrival'
<1>1. Paging!TypeOK /\ Paging!TypeOK'
  BY DEF PagesTrue
<1>2. IsFiniteSet(Paging!Passed) /\ Cardinality(Paging!Passed) \in Nat
  BY <1>1, PassedIs
<1>3. Cardinality(Paging!Passed') <= Cardinality(Paging!Passed)
      /\ Cardinality(Paging!Passed') \in Nat
  BY <1>2, FS_Subset, FS_CardinalityType
<1>4. Cardinality(arrived) \in Nat
  BY <1>1, ChunksFinite DEF Paging!TypeOK
<1> QED BY <1>2, <1>3, <1>4, SameSizes DEF PagesTrue, Paging!HidesOnePerArrival

\* What comes before an entry when a chunk has arrived.
LEMMA SameUnits ==
  ASSUME UNCHANGED <<have, progress, asking>>
  PROVE  Paging!Units' = Paging!Units
         /\ \A n : Paging!Rank(n)' = Paging!Rank(n) /\ Paging!Covers(n)' = Paging!Covers(n)
         /\ Paging!Known' = Paging!Known
BY SameSizes DEF Paging!Units, Paging!Runs, Paging!Missing, Paging!Known, Paging!Begins,
   Paging!RunFrom, Paging!Rank, Paging!Covers

LEMMA AskOnTrue ==
  ASSUME PagesTrue, Paging!AskOn
  PROVE  PagesTrue'
<1>t. /\ Paging!TypeOK /\ Paging!Page \subseteq Paging!Units
      /\ Paging!Units \subseteq Paging!Chunks /\ Paging!Page \subseteq Paging!Chunks
      /\ Cardinality(Paging!Page) \in Nat /\ Cardinality(Paging!Page) <= asking.limit
      /\ offset \in Nat /\ asking.limit \in Nat
  BY PageFits, UnitsAre, TypedPages DEF PagesTrue, Paging!Page
<1>0. /\ UNCHANGED <<have, progress, asking, arrived, round>>
      /\ reported' = reported \cup Paging!Reports
      /\ Paging!NextOffset # -1 /\ offset' = Paging!NextOffset
  BY DEF Paging!AskOn
<1>1. offset' = offset + Cardinality(Paging!Page) /\ offset' < Cardinality(Paging!Units)
  BY <1>0, SameSizes DEF Paging!NextOffset
<1>2. Paging!Reports \subseteq Paging!Chunks
  <2>1. \A n \in Paging!Page : Paging!Covers(n) \subseteq Paging!Chunks
    BY <1>t, PageConstants DEF Paging!Covers, Paging!RunFrom, Paging!Chunks
  <2> QED BY <2>1 DEF Paging!Reports
<1>3. Paging!TypeOK'
  <2>1. Cardinality(Paging!Units) \in Nat /\ Cardinality(Paging!Units) <= Expected
    BY <1>t, ChunksFinite
  <2>2. offset' \in Nat /\ offset' <= Expected
    BY <1>t, <1>1, <2>1, PageConstants
  <2>3. offset' \in 0 .. Expected
    BY <2>2, PageConstants
  <2> QED BY <1>t, <1>0, <1>2, <2>3 DEF Paging!TypeOK, Paging!Chunks
<1>4. Paging!Passed' \subseteq Paging!Passed
  <2>1. SUFFICES ASSUME NEW n \in Paging!Passed' PROVE n \in Paging!Passed
    OBVIOUS
  <2>2. /\ n \in Paging!Units /\ Paging!Rank(n) < offset' /\ ~(Paging!Covers(n) \subseteq reported')
    BY <1>0, SameUnits DEF Paging!Passed
  <2>3. Paging!Rank(n) \in Nat
    BY <1>t, BelowIs
  <2>4. CASE Paging!Rank(n) < offset
    BY <1>0, <2>2, <2>4 DEF Paging!Passed
  <2>5. CASE offset <= Paging!Rank(n)
    <3>1. Paging!Rank(n) < offset + asking.limit
      BY <1>t, <1>1, <2>2, <2>3
    <3>2. n \in Paging!Page
      BY <2>2, <2>5, <3>1 DEF Paging!Page
    <3> QED BY <1>0, <2>2, <3>2 DEF Paging!Reports
  <2> QED BY <1>t, <2>3, <2>4, <2>5
<1>5. Paging!HidesOnePerArrival'
  BY <1>0, <1>3, <1>4, FewerPassed
<1> QED BY <1>0, <1>3, <1>5 DEF PagesTrue, Paging!Chunks

LEMMA AskLastTrue ==
  ASSUME PagesTrue, Paging!AskLast
  PROVE  PagesTrue'
<1>t. Paging!TypeOK /\ offset' = 0 /\ reported' = {} /\ arrived' = {} /\ round' \in {"on", "done"}
      /\ UNCHANGED <<have, progress, asking>>
  BY DEF PagesTrue, Paging!AskLast
<1>1. Paging!TypeOK'
  BY <1>t, PageConstants DEF Paging!TypeOK, Paging!Chunks
<1>2. \A n : Paging!Rank(n)' \in Nat
  BY <1>t, SameUnits, BelowIs
<1>3. Paging!Passed' = {}
  BY <1>t, <1>2 DEF Paging!Passed
<1>4. Paging!HidesOnePerArrival'
  BY <1>t, <1>3, FS_EmptySet, SameSizes DEF Paging!HidesOnePerArrival
<1> QED BY <1>t, <1>1, <1>4 DEF PagesTrue, Paging!Chunks

LEMMA AskEndTrue ==
  ASSUME PagesTrue, Paging!AskEnd
  PROVE  PagesTrue'
<1>t. Paging!TypeOK /\ reported' = reported \cup Paging!Reports
      /\ UNCHANGED <<have, progress, asking, offset, arrived, round>>
  BY DEF PagesTrue, Paging!AskEnd
<1>1. Paging!Reports \subseteq Paging!Chunks
  <2>1. \A n \in Paging!Page : Paging!Covers(n) \subseteq Paging!Chunks
    BY <1>t, PageFits, PageConstants DEF Paging!Covers, Paging!RunFrom, Paging!Chunks
  <2> QED BY <2>1 DEF Paging!Reports
<1>2. Paging!TypeOK'
  BY <1>t, <1>1 DEF Paging!TypeOK, Paging!Chunks
<1>3. Paging!Passed' \subseteq Paging!Passed
  BY <1>t, SameUnits DEF Paging!Passed
<1>4. Paging!HidesOnePerArrival'
  BY <1>t, <1>2, <1>3, FewerPassed
<1> QED BY <1>t, <1>2, <1>4 DEF PagesTrue, Paging!Chunks

\* A part that is finished or removed has nothing missing.
LEMMA EndTrue ==
  ASSUME PagesTrue, Paging!Finish \/ Paging!DeleteAudio
  PROVE  PagesTrue'
<1>t. Paging!TypeOK /\ UNCHANGED <<asking, offset, reported, arrived, round>>
  BY DEF PagesTrue, Paging!Finish, Paging!DeleteAudio
<1>1. \/ progress' = "complete" /\ have' = Paging!Chunks
      \/ progress' = "removed" /\ have' = {}
  BY DEF Paging!Finish, Paging!DeleteAudio
<1>2. Paging!TypeOK' /\ Paging!Chunks' = Paging!Chunks
  BY <1>t, <1>1 DEF Paging!TypeOK, Paging!Chunks
<1>3. Paging!Units' = {}
  BY <1>1, <1>2 DEF Paging!Units, Paging!Runs, Paging!Missing
<1>4. Paging!Passed' = {}
  BY <1>3 DEF Paging!Passed
<1>5. Paging!HidesOnePerArrival'
  BY <1>t, <1>2, <1>4, FewerPassed
<1> QED BY <1>1, <1>2, <1>5 DEF PagesTrue

\* When a chunk arrives, its entry may go or begin with the next chunk.
LEMMA SendUnits ==
  ASSUME PagesTrue, NEW n \in Paging!Chunks, Paging!Send(n)
  PROVE  /\ Paging!Units \ {n} \subseteq Paging!Units'
         /\ Paging!Units' \subseteq Paging!Units \cup {n + 1}
         /\ \A m : Paging!Covers(m)' \subseteq Paging!Covers(m)
<1>0. /\ have' = have \cup {n} /\ progress = "open"
      /\ UNCHANGED <<progress, asking, offset, reported, round>>
      /\ Paging!Known' = Paging!Known /\ Paging!Chunks' = Paging!Chunks
  BY DEF Paging!Send, Paging!Known, Paging!Chunks
<1>1. Paging!Chunks \subseteq Nat
  BY PageConstants DEF Paging!Chunks
<1>2. \A m : /\ Paging!RunFrom(m)' \subseteq Paging!RunFrom(m)
             /\ Paging!Covers(m)' \subseteq Paging!Covers(m)
  BY <1>0 DEF Paging!RunFrom, Paging!Covers
<1>3. Paging!Missing' = Paging!Missing \ {n}
  BY <1>0 DEF Paging!Missing
<1>4. Paging!Runs \ {n} \subseteq Paging!Runs'
  BY <1>0, <1>3 DEF Paging!Runs, Paging!Begins
<1>5. ASSUME NEW m \in Paging!Runs', m # n + 1 PROVE m \in Paging!Runs
  <2>1. m \in Paging!Missing /\ Paging!Missing \subseteq Paging!Chunks /\ m \in Nat /\ n \in Nat
    BY <1>1, <1>3 DEF Paging!Runs, Paging!Missing
  <2>2. m - 1 # n
    BY <1>5, <2>1
  <2> QED BY <1>0, <2>1, <2>2 DEF Paging!Runs, Paging!Begins
<1>6. CASE asking.encoding = "ranges"
  BY <1>0, <1>2, <1>4, <1>5, <1>6 DEF Paging!Units
<1>7. CASE asking.encoding # "ranges"
  BY <1>0, <1>2, <1>3, <1>7 DEF Paging!Units
<1> QED BY <1>6, <1>7

\* An arrival hides at most one entry.
LEMMA SendHides ==
  ASSUME PagesTrue, NEW n \in Paging!Chunks, Paging!Send(n), Paging!TypeOK'
  PROVE  \E k : Paging!Passed' \subseteq Paging!Passed \cup {k}
<1>t. Paging!TypeOK /\ Paging!Chunks \subseteq Nat /\ Paging!Units \subseteq Paging!Chunks
      /\ n \in Nat
      /\ offset \in Nat /\ offset' = offset /\ reported' = reported
  BY UnitsAre, TypedPages DEF PagesTrue, Paging!Send
<1>u. /\ Paging!Units \ {n} \subseteq Paging!Units'
      /\ Paging!Units' \subseteq Paging!Units \cup {n + 1}
      /\ \A m : Paging!Covers(m)' \subseteq Paging!Covers(m)
  BY SendUnits
<1>b. \A m : /\ IsFiniteSet(Below(m))
             /\ Paging!Rank(m) = Cardinality(Below(m)) /\ Paging!Rank(m) \in Nat
             /\ IsFiniteSet(Below(m)')
             /\ Paging!Rank(m)' = Cardinality(Below(m)') /\ Paging!Rank(m)' \in Nat
  <2>1. IsFiniteSet(Paging!Units \cup {n + 1})
    BY <1>t, ChunksFinite, OneMore
  <2>2. ASSUME NEW m PROVE IsFiniteSet(Below(m)') /\ Paging!Rank(m)' = Cardinality(Below(m)')
    <3>1. Below(m)' \subseteq Paging!Units \cup {n + 1}
      BY <1>u DEF Below
    <3> QED BY <2>1, <3>1, FS_Subset, SameSizes DEF Below, Paging!Rank
  <2>3. \A m : Paging!Rank(m)' \in Nat
    BY <2>2, FS_CardinalityType
  <2> QED BY <1>t, <2>2, <2>3, BelowIs
<1>1. CASE n + 1 \in Paging!Units' \ Paging!Units
  <2>1. ASSUME NEW m \in Paging!Units' \cap Paging!Units PROVE Paging!Rank(m) <= Paging!Rank(m)'
    <3> DEFINE D == Below(m)' \ {n + 1}
    <3>m. m \in Nat /\ m # n + 1
      BY <1>t, <1>1
    <3>1. CASE n < m
      <4>1. n + 1 \in Below(m)'
        BY <1>t, <1>1, <3>1, <3>m DEF Below
      <4>2. IsFiniteSet(D) /\ Cardinality(D) = Paging!Rank(m)' - 1
        BY <1>b, <4>1, FS_RemoveElement
      <4>3. IsFiniteSet(D \cup {n}) /\ Cardinality(D \cup {n}) <= Paging!Rank(m)'
        <5>1. Cardinality(D \cup {n}) <= Cardinality(D) + 1 /\ IsFiniteSet(D \cup {n})
          BY <4>2, OneMore
        <5> QED BY <1>b, <4>2, <5>1
      <4>4. Below(m) \subseteq D \cup {n}
        BY <1>u, <1>1 DEF Below
      <4> HIDE DEF D
      <4>5. Cardinality(Below(m)) <= Cardinality(D \cup {n})
        BY <4>3, <4>4, FS_Subset
      <4>6. Cardinality(D \cup {n}) \in Nat
        BY <4>3, FS_CardinalityType
      <4> QED BY <1>b, <4>3, <4>5, <4>6
    <3>2. CASE ~(n < m)
      <4>1. Below(m) \subseteq Below(m)'
        BY <1>u, <3>2 DEF Below
      <4> QED BY <1>b, <4>1, FS_Subset
    <3> QED BY <3>1, <3>2
  <2>2. ASSUME NEW m \in Paging!Passed', m # n + 1 PROVE m \in Paging!Passed
    <3>1. m \in Paging!Units' \cap Paging!Units /\ Paging!Rank(m)' < offset
          /\ ~(Paging!Covers(m) \subseteq reported)
      BY <1>t, <1>u, <2>2 DEF Paging!Passed
    <3>2. Paging!Rank(m) < offset
      BY <1>t, <1>b, <2>1, <3>1
    <3> QED BY <3>1, <3>2 DEF Paging!Passed
  <2> QED BY <2>2
<1>2. CASE n + 1 \notin Paging!Units' \ Paging!Units
  <2>u. Paging!Units' \subseteq Paging!Units
    BY <1>u, <1>2
  <2>1. ASSUME NEW m PROVE Paging!Rank(m) <= Paging!Rank(m)' + 1
    <3>1. Below(m) \subseteq Below(m)' \cup {n}
      BY <1>u DEF Below
    <3>2. /\ IsFiniteSet(Below(m)' \cup {n})
          /\ Cardinality(Below(m)' \cup {n}) <= Paging!Rank(m)' + 1
      BY <1>b, OneMore
    <3>3. Cardinality(Below(m)' \cup {n}) \in Nat
      BY <3>2, FS_CardinalityType
    <3>4. Cardinality(Below(m)) <= Cardinality(Below(m)' \cup {n})
      BY <3>1, <3>2, FS_Subset
    <3> QED BY <1>b, <3>2, <3>3, <3>4
  <2>2. ASSUME NEW m \in Paging!Passed', m \notin Paging!Passed PROVE m \in Paging!Units
               /\ Paging!Rank(m) = offset
    <3>1. m \in Paging!Units /\ Paging!Rank(m)' < offset /\ ~(Paging!Covers(m) \subseteq reported)
      BY <1>t, <1>u, <2>u DEF Paging!Passed
    <3>2. ~(Paging!Rank(m) < offset)
      BY <2>2, <3>1 DEF Paging!Passed
    <3>3. Paging!Rank(m) = offset
      BY <1>t, <1>b, <2>1, <3>1, <3>2
    <3> QED BY <3>1, <3>3
  <2>3. CASE Paging!Passed' \subseteq Paging!Passed
    BY <2>3
  <2>4. CASE ~(Paging!Passed' \subseteq Paging!Passed)
    <3>1. PICK k \in Paging!Passed' : k \notin Paging!Passed
      BY <2>4
    <3>2. \A m \in Paging!Passed' : m \notin Paging!Passed => m = k
      BY <1>t, <2>2, <3>1, RanksApart
    <3> QED BY <3>2
  <2> QED BY <2>3, <2>4
<1> QED BY <1>1, <1>2

LEMMA SendTrue ==
  ASSUME PagesTrue, NEW n \in Paging!Chunks, Paging!Send(n)
  PROVE  PagesTrue'
<1>0. /\ have' = have \cup {n} /\ arrived' = arrived \cup {n} /\ n \notin have /\ progress = "open"
      /\ UNCHANGED <<progress, asking, offset, reported, round>>
      /\ Paging!TypeOK /\ Paging!Chunks' = Paging!Chunks
      /\ arrived \subseteq have
  BY DEF Paging!Send, PagesTrue, Paging!Chunks
<1>1. Paging!TypeOK'
  BY <1>0 DEF Paging!TypeOK
<1>2. PICK k : Paging!Passed' \subseteq Paging!Passed \cup {k}
  BY <1>1, SendHides
<1>3. IsFiniteSet(Paging!Passed) /\ Cardinality(Paging!Passed) \in Nat
  BY <1>0, PassedIs
<1>4. IsFiniteSet(Paging!Passed \cup {k})
      /\ Cardinality(Paging!Passed \cup {k}) <= Cardinality(Paging!Passed) + 1
  BY <1>3, OneMore
<1>5. Cardinality(Paging!Passed') <= Cardinality(Paging!Passed \cup {k})
      /\ Cardinality(Paging!Passed') \in Nat
      /\ Cardinality(Paging!Passed \cup {k}) \in Nat
  BY <1>2, <1>4, FS_Subset, FS_CardinalityType
<1>6. IsFiniteSet(arrived) /\ Cardinality(arrived) \in Nat
  BY <1>0, ChunksFinite DEF Paging!TypeOK
<1>7. Cardinality(arrived') = Cardinality(arrived) + 1
  BY <1>0, <1>6, FS_AddElement
<1>8. Cardinality(Paging!Passed) <= Cardinality(arrived)
  BY SameSizes DEF PagesTrue, Paging!HidesOnePerArrival
<1>9. Paging!HidesOnePerArrival'
  BY <1>3, <1>4, <1>5, <1>6, <1>7, <1>8, SameSizes DEF Paging!HidesOnePerArrival
<1> QED BY <1>0, <1>1, <1>9 DEF PagesTrue

LEMMA PagesInit == Paging!Init => PagesTrue
<1> SUFFICES ASSUME Paging!Init PROVE PagesTrue
  OBVIOUS
<1>1. Paging!TypeOK /\ arrived = {} /\ offset = 0 /\ progress = "open"
  BY PageConstants DEF Paging!Init, Paging!TypeOK
<1>2. Paging!Passed = {}
  BY <1>1, BelowIs DEF Paging!Passed
<1> QED BY <1>1, <1>2, FS_EmptySet, SameSizes DEF PagesTrue, Paging!HidesOnePerArrival

LEMMA PagesNext == PagesTrue /\ [Paging!Next]_Paging!vars => PagesTrue'
<1> SUFFICES ASSUME PagesTrue, [Paging!Next]_Paging!vars PROVE PagesTrue'
  OBVIOUS
<1>1. CASE UNCHANGED Paging!vars
  <2>1. UNCHANGED <<have, progress, asking, offset, reported, arrived, round>>
    BY <1>1 DEF Paging!vars
  <2>2. Paging!Passed' = Paging!Passed
    BY <2>1, SameUnits DEF Paging!Passed
  <2> QED BY <2>1, <2>2, SameSizes DEF PagesTrue, Paging!TypeOK, Paging!HidesOnePerArrival,
             Paging!Chunks
<1> QED BY <1>1, AskOnTrue, AskLastTrue, AskEndTrue, EndTrue, SendTrue DEF Paging!Next

LEMMA PagesInductive == Paging!Spec => []PagesTrue
BY PagesInit, PagesNext, PTL DEF Paging!Spec

\* The runs of missing chunks are the missing chunks, and apart.
LEMMA EncodingsAlways ==
  ASSUME Paging!TypeOK
  PROVE  Paging!EncodingsAgree
<1>c. Paging!Chunks \subseteq Nat /\ Paging!Runs \subseteq Paging!Missing
      /\ Paging!Missing \subseteq Paging!Chunks
  BY PageConstants DEF Paging!Chunks, Paging!Runs, Paging!Missing
<1>1. ASSUME NEW n \in Paging!Runs PROVE Paging!RunFrom(n) \subseteq Paging!Missing
  <2>1. ASSUME NEW m \in Paging!RunFrom(n) PROVE m \in Paging!Missing
    <3>1. n \in Nat /\ m \in n .. Expected - 1 /\ n .. m \cap have = {}
      BY <1>c DEF Paging!RunFrom
    <3>2. m \in n .. m /\ m \in Paging!Chunks
      BY <3>1, PageConstants DEF Paging!Chunks
    <3> QED BY <1>c, <3>1, <3>2 DEF Paging!Missing
  <2> QED BY <2>1
<1>2. ASSUME NEW m \in Paging!Missing PROVE \E n \in Paging!Runs : m \in Paging!RunFrom(n)
  <2> DEFINE T == {k \in 0 .. m : k .. m \cap have = {}}
  <2>m. m \in Nat /\ m <= Expected - 1 /\ m \notin have
    BY <1>c, PageConstants DEF Paging!Missing, Paging!Chunks
  <2>1. m \in T
    BY <2>m
  <2>2. T \subseteq Nat
    OBVIOUS
  <2>3. PICK n \in T : \A k \in T : n <= k
    <3> HIDE DEF T
    <3> QED BY <2>1, <2>2, LeastNatural
  <2>4. n \in Nat /\ n <= m /\ n .. m \cap have = {} /\ n \notin have
    BY <2>m, <2>3
  <2>5. n \in Paging!Missing
    BY <1>c, <2>m, <2>4, PageConstants DEF Paging!Missing, Paging!Chunks
  <2>6. n = 0 \/ n - 1 \in have
    <3> SUFFICES ASSUME n # 0, n - 1 \notin have PROVE FALSE
      OBVIOUS
    <3>1. n - 1 \in 0 .. m
      BY <2>m, <2>4
    <3>2. \A k \in (n - 1) .. m : k = n - 1 \/ k \in n .. m
      BY <2>m, <2>4
    <3>3. n - 1 \in T
      BY <2>4, <3>1, <3>2
    <3> QED BY <2>3, <2>4, <3>3
  <2>7. m \in Paging!RunFrom(n)
    BY <2>m, <2>4, PageConstants DEF Paging!RunFrom
  <2> QED BY <2>4, <2>5, <2>6, <2>7 DEF Paging!Runs, Paging!Begins
<1>3. ASSUME NEW m \in Paging!Runs, NEW n \in Paging!Runs, m < n,
             NEW a \in Paging!RunFrom(m), NEW b \in Paging!RunFrom(n)
      PROVE  a + 1 < b
  <2>1. /\ m \in Nat /\ n \in Nat /\ a \in m .. Expected - 1 /\ b \in n .. Expected - 1
        /\ m .. a \cap have = {}
    BY <1>c DEF Paging!RunFrom
  <2>2. n - 1 \in have
    BY <1>3, <2>1 DEF Paging!Runs, Paging!Begins
  <2>3. n - 1 \notin m .. a
    BY <2>1, <2>2
  <2> QED BY <1>3, <2>1, <2>3, PageConstants
<1> QED BY <1>1, <1>2, <1>3 DEF Paging!EncodingsAgree

\* The rows of a turn never hold more bytes than the part limit, the turn limit
\* and the manifest allow; and the pages of missing chunks say the same in both
\* encodings and hide no more entries from a round than chunks arrived during it:
\* whatever is sent when, and wherever put_chunk and the removal die.
THEOREM CountsCorrect == Spec /\ Paging!Spec => []CountsAreTrue
<1>1. LimitsTrue /\ PagesTrue => CountsAreTrue
  BY EncodingsAlways DEF LimitsTrue, PagesTrue, CountsAreTrue
<1> QED BY <1>1, LimitsInductive, PagesInductive, PTL

=============================================================================
