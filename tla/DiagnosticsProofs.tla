-------------------------- MODULE DiagnosticsProofs --------------------------
(***************************************************************************)
(* Theorems about Diagnostics for any number of bundles, consent events,   *)
(* failures, device ids and contents; and about the conversion of any      *)
(* number of bundles of the old schema, however often it is cut short, and *)
(* the export of any number of events in pages of any size.                *)
(***************************************************************************)
EXTENDS DeviceDiagnostics, TLAPS

Consents == [newest: 0 .. MaxConsents, current: BOOLEAN, enabled: BOOLEAN,
             expired: BOOLEAN, kept: SUBSET Event]
Rows == [state: {"NONE", "LIVE", "DELETED", "PURGED"}, alias: Alias \cup {None},
         content: Content \cup {None}, consent: 0 .. MaxConsents,
         late: BOOLEAN, tombstone: {"NONE", "KEPT", "DUE"}]
Receipts == [status: Status, counted: BOOLEAN]
Steps == {"down", "idle", "prepared", "written", "recovering", "leased", "unlinked"}
Tasks == [step: Steps, on: 0 .. MaxBundles, alias: Alias \cup {None},
          content: Content \cup {None}, consent: 0 .. MaxConsents, todo: SUBSET Handle]
Callers == [at: {"none", "delete", "delete recovers", "counting",
                 "purge", "purge recovers", "sweeping"}, of: SUBSET Handle]

Typed ==
  /\ consent \in Consents
  /\ row \in [Handle -> Rows]
  /\ file \in [Handle -> Content \cup {None}]
  /\ receipt \in [Handle -> Receipts]
  /\ task \in Tasks
  /\ caller \in Callers
  /\ promised \subseteq Handle
  /\ faults \in 0 .. MaxFaults

Alive == {"LIVE", "DELETED"}

\* What a bundle's row, file and receipt say of each other.  A deleted bundle's
\* receipt is one that delete_diagnostics counts, and what a call has deleted
\* stays deleted.
HandleTrue(h) ==
  /\ row[h].state = "LIVE" => file[h] = row[h].content /\ receipt[h] = NoReceipt
  /\ row[h].state \in Alive => row[h].consent \in consent.kept
  /\ row[h].state = "PURGED" => file[h] = None
  /\ file[h] # None /\ row[h].state # "LIVE" => Live(receipt[h].status)
  /\ row[h].state = "DELETED" /\ Live(receipt[h].status) => receipt[h].counted
  /\ h \in caller.of \cup promised => row[h].state \in {"DELETED", "PURGED"}
  /\ h \in promised => file[h] = None

\* The current consent event is on record.
ConsentTrue == consent.current => consent.newest \in consent.kept

\* The ingest that holds the write lock was authorized, and still is: consent
\* changes only in its absence.  Nothing else has its handle or its alias.
TaskTrue ==
  /\ task.step \in {"prepared", "written"} =>
       /\ task.on \in Handle /\ row[task.on].state = "NONE"
       /\ receipt[task.on].status = "PENDING"
       /\ consent.current /\ consent.enabled /\ task.consent = consent.newest
  /\ task.step = "prepared" => file[task.on] = None
  /\ task.step = "written" => file[task.on] = task.content /\ Stored(task.alias) = {}
  /\ task.step \in {"leased", "unlinked"} =>
       task.on \in Handle /\ receipt[task.on].status = "CLAIMED"
  /\ task.step = "unlinked" => file[task.on] = None

BundleInv ==
  /\ Typed /\ ConsentTrue /\ TaskTrue
  /\ \A h \in Handle : HandleTrue(h)
  /\ OneRowPerAlias

-----------------------------------------------------------------------------

LEMMA TypeParts == BundleInv => TypeOK
BY DEF BundleInv, TypeOK, Typed, TaskTrue, Consents, Rows, Receipts, Tasks, Steps, Callers

LEMMA Numbers ==
  /\ Handle \subseteq 0 .. MaxBundles /\ Event \subseteq 0 .. MaxConsents
  /\ 0 \notin Handle /\ 0 \in 0 .. MaxBundles /\ 0 \in 0 .. MaxConsents
BY Bounds DEF Handle, Event

LEMMA IdleTyped ==
  /\ IdleTask \in Tasks /\ Down \in Tasks /\ IdleTask.step = "idle" /\ Down.step = "down"
  /\ NoCall \in Callers /\ NoCall.of = {}
<1>1. IdleTask \in Tasks /\ IdleTask.step = "idle"
  BY Numbers DEF IdleTask, Tasks, Steps
<1> HIDE DEF IdleTask
<1>2. Down \in Tasks /\ Down.step = "down"
  BY <1>1 DEF Down, Tasks, Steps
<1>3. NoCall \in Callers /\ NoCall.of = {}
  BY DEF NoCall, Callers
<1> QED BY <1>1, <1>2, <1>3

LEMMA NothingTyped ==
  /\ NoReceipt \in Receipts /\ ~Live(NoReceipt.status)
  /\ NoRow \in Rows /\ NoRow.state = "NONE"
<1>1. NoReceipt \in Receipts /\ ~Live(NoReceipt.status)
  BY DEF NoReceipt, Receipts, Status, Live
<1>2. NoRow \in Rows /\ NoRow.state = "NONE"
  BY Numbers DEF NoRow, Rows
<1> QED BY <1>1, <1>2

-----------------------------------------------------------------------------
(* What a step leaves alone.                                               *)

LEMMA Untouched ==
  ASSUME NEW h \in Handle, HandleTrue(h), row'[h] = row[h], file'[h] = file[h],
         receipt'[h] = receipt[h], consent.kept \subseteq consent'.kept,
         h \in caller'.of => h \in caller.of, promised' = promised
  PROVE  HandleTrue(h)'
BY DEF HandleTrue

\* Rows that only age.
RowsAge ==
  \A h \in Handle :
    row'[h].state \in Alive => row[h].state \in Alive /\ row'[h].alias = row[h].alias

LEMMA AgedRows ==
  ASSUME RowsAge, OneRowPerAlias
  PROVE  OneRowPerAlias'
BY DEF RowsAge, OneRowPerAlias, Alive

\* A task that asks nothing of the rows or the files.
LEMMA Resting ==
  ASSUME task'.step \in {"down", "idle", "recovering"}
  PROVE  TaskTrue'
BY DEF TaskTrue

\* A step that changes no row, file or receipt.
LEMMA QuietStep ==
  ASSUME BundleInv, UNCHANGED <<row, file, receipt, promised>>, Typed', ConsentTrue', TaskTrue',
         consent.kept \subseteq consent'.kept, caller'.of \subseteq caller.of
  PROVE  BundleInv'
<1>1. \A h \in Handle : HandleTrue(h)'
  <2> TAKE h \in Handle
  <2> QED BY Untouched DEF BundleInv
<1>2. OneRowPerAlias'
  BY AgedRows DEF BundleInv, RowsAge
<1> QED BY <1>1, <1>2 DEF BundleInv

LEMMA TaskTodo ==
  ASSUME NEW step \in Steps, NEW todo \in SUBSET Handle,
         task' = [IdleTask EXCEPT !.step = step, !.todo = todo]
  PROVE  task' \in Tasks /\ task'.step = step /\ task'.todo = todo
BY IdleTyped DEF Tasks

-----------------------------------------------------------------------------
(* Consent, and the steps of tasks and callers that touch no bundle.       *)

LEMMA RecordOptInTrue ==
  ASSUME BundleInv, NEW enabled \in BOOLEAN, RecordOptIn(enabled)
  PROVE  BundleInv'
<1>0. /\ UNCHANGED <<row, file, receipt, task, caller, promised, faults>>
      /\ task.step = "idle" /\ consent.newest < MaxConsents
      /\ consent' = [newest |-> consent.newest + 1, current |-> TRUE, enabled |-> enabled,
                     expired |-> FALSE, kept |-> consent.kept \cup {consent.newest + 1}]
  BY DEF RecordOptIn, Free
<1>1. consent.newest \in 0 .. MaxConsents /\ consent.kept \in SUBSET Event
  BY DEF BundleInv, Typed, Consents
<1>2. consent.newest + 1 \in Event /\ consent.newest + 1 \in 0 .. MaxConsents
  BY <1>0, <1>1, Bounds DEF Event
<1>3. consent' \in Consents /\ ConsentTrue' /\ consent.kept \subseteq consent'.kept
  BY <1>0, <1>1, <1>2 DEF Consents, ConsentTrue
<1>4. Typed'
  BY <1>0, <1>3 DEF BundleInv, Typed
<1>5. TaskTrue'
  BY <1>0, Resting
<1> QED BY <1>0, <1>3, <1>4, <1>5, QuietStep

LEMMA ConsentExpiresTrue ==
  ASSUME BundleInv, ConsentExpires
  PROVE  BundleInv'
<1>0. /\ UNCHANGED <<row, file, receipt, task, caller, promised, faults>>
      /\ consent' = [consent EXCEPT !.expired = TRUE]
  BY DEF ConsentExpires
<1>1. consent \in Consents
  BY DEF BundleInv, Typed
<1>2. /\ consent' \in Consents /\ consent'.kept = consent.kept
      /\ consent'.current = consent.current /\ consent'.enabled = consent.enabled
      /\ consent'.newest = consent.newest
  BY <1>0, <1>1 DEF Consents
<1>3. Typed' /\ ConsentTrue'
  BY <1>0, <1>2 DEF BundleInv, Typed, ConsentTrue
<1>4. TaskTrue'
  BY <1>0, <1>2 DEF BundleInv, TaskTrue, Stored
<1> QED BY <1>0, <1>2, <1>3, <1>4, QuietStep

\* A task that begins, or ends, while the rest of the state stands.
LEMMA TaskStep ==
  ASSUME BundleInv, UNCHANGED <<consent, row, file, receipt, promised>>,
         task' \in Tasks, task'.step \in {"down", "idle", "recovering"},
         caller' \in Callers, caller'.of \subseteq caller.of, faults' \in 0 .. MaxFaults
  PROVE  BundleInv'
<1>1. Typed' /\ ConsentTrue'
  BY DEF BundleInv, Typed, ConsentTrue
<1>2. TaskTrue'
  BY Resting
<1> QED BY <1>1, <1>2, QuietStep

LEMMA CallerMoves ==
  ASSUME BundleInv, NEW at \in {"none", "delete", "delete recovers", "counting",
                                "purge", "purge recovers", "sweeping"},
         caller' = [caller EXCEPT !.at = at]
  PROVE  caller' \in Callers /\ caller'.of = caller.of
BY DEF BundleInv, Typed, Callers

LEMMA FaultCounted ==
  ASSUME BundleInv, Fault
  PROVE  faults' \in 0 .. MaxFaults
BY Bounds DEF BundleInv, Typed, Fault

LEMMA StartRecoveryTrue ==
  ASSUME BundleInv, StartRecovery
  PROVE  BundleInv'
<1> DEFINE open == {h \in Handle : Live(receipt[h].status)}
           at == IF caller.at = "delete" THEN "delete recovers" ELSE "purge recovers"
<1>0. /\ UNCHANGED <<consent, row, file, receipt, promised, faults>>
      /\ task' = [IdleTask EXCEPT !.step = "recovering", !.todo = open]
      /\ caller' = [caller EXCEPT !.at = at]
  BY DEF StartRecovery
<1>1. open \in SUBSET Handle
  OBVIOUS
<1>2. task' \in Tasks /\ task'.step = "recovering"
  BY <1>0, <1>1, TaskTodo DEF Steps
<1>3. caller' \in Callers /\ caller'.of = caller.of
  BY <1>0, CallerMoves
<1>4. faults' \in 0 .. MaxFaults
  BY <1>0 DEF BundleInv, Typed
<1> QED BY <1>0, <1>2, <1>3, <1>4, TaskStep

LEMMA IngestFailsTrue ==
  ASSUME BundleInv, IngestFails
  PROVE  BundleInv'
<1>0. /\ UNCHANGED <<consent, row, file, receipt, caller, promised>> /\ Fault
      /\ task.step \in {"prepared", "written"}
      /\ task' = [IdleTask EXCEPT !.step = "recovering", !.todo = {task.on}]
  BY DEF IngestFails, RollBack
<1>1. {task.on} \in SUBSET Handle
  BY <1>0 DEF BundleInv, TaskTrue
<1>2. task' \in Tasks /\ task'.step = "recovering"
  BY <1>0, <1>1, TaskTodo DEF Steps
<1>3. caller' \in Callers /\ caller'.of = caller.of
  BY <1>0 DEF BundleInv, Typed
<1> QED BY <1>0, <1>2, <1>3, FaultCounted, TaskStep

LEMMA EndRecoveryTrue ==
  ASSUME BundleInv, EndRecovery
  PROVE  BundleInv'
<1>0. /\ UNCHANGED <<consent, row, file, receipt, promised, faults>> /\ task' = IdleTask
      /\ \/ caller' = [caller EXCEPT !.at = "counting"]
         \/ caller' = NoCall
         \/ caller' = [caller EXCEPT !.at = "sweeping"]
         \/ caller' = caller
  BY DEF EndRecovery
<1>1. caller' \in Callers /\ caller'.of \subseteq caller.of
  <2>1. CASE caller' = [caller EXCEPT !.at = "counting"]
    BY <2>1, CallerMoves
  <2>2. CASE caller' = NoCall
    BY <2>2, IdleTyped
  <2>3. CASE caller' = [caller EXCEPT !.at = "sweeping"]
    BY <2>3, CallerMoves
  <2>4. CASE caller' = caller
    BY <2>4 DEF BundleInv, Typed
  <2> QED BY <1>0, <2>1, <2>2, <2>3, <2>4
<1>2. faults' \in 0 .. MaxFaults
  BY <1>0 DEF BundleInv, Typed
<1> QED BY <1>0, <1>1, <1>2, IdleTyped, TaskStep

LEMMA CrashTrue ==
  ASSUME BundleInv, Crash
  PROVE  BundleInv'
<1>0. UNCHANGED <<consent, row, file, receipt, promised>> /\ task' = Down /\ caller' = NoCall /\ Fault
  BY DEF Crash
<1> QED BY <1>0, FaultCounted, IdleTyped, TaskStep

LEMMA RestartTrue ==
  ASSUME BundleInv, Restart
  PROVE  BundleInv'
<1> DEFINE open == {h \in Handle : Live(receipt[h].status)}
<1>0. /\ UNCHANGED <<consent, row, file, receipt, caller, promised, faults>>
      /\ task' = [IdleTask EXCEPT !.step = "recovering", !.todo = open]
  BY DEF Restart
<1>1. open \in SUBSET Handle
  OBVIOUS
<1>2. task' \in Tasks /\ task'.step = "recovering"
  BY <1>0, <1>1, TaskTodo DEF Steps
<1>3. caller' \in Callers /\ caller'.of = caller.of /\ faults' \in 0 .. MaxFaults
  BY <1>0 DEF BundleInv, Typed
<1> QED BY <1>0, <1>2, <1>3, TaskStep

\* What a call has deleted is deleted, so that no file is there unless a
\* receipt that the call counts is open.
LEMMA CountTrue ==
  ASSUME BundleInv, Count
  PROVE  BundleInv'
<1>0. /\ UNCHANGED <<consent, row, file, receipt, task, faults>> /\ caller' = NoCall
      /\ promised' = IF Incomplete = {} THEN promised \cup caller.of ELSE promised
  BY DEF Count
<1>1. promised' \subseteq promised \cup caller.of
  BY <1>0
<1>2. Typed' /\ ConsentTrue' /\ TaskTrue'
  <2>1. Typed'
    BY <1>0, <1>1, IdleTyped DEF BundleInv, Typed, Callers
  <2>2. ConsentTrue' /\ TaskTrue'
    BY <1>0 DEF BundleInv, ConsentTrue, TaskTrue, Stored
  <2> QED BY <2>1, <2>2
<1>3. ASSUME NEW h \in Handle
      PROVE  HandleTrue(h)'
  <2>1. HandleTrue(h)
    BY DEF BundleInv
  <2>2. h \in caller'.of \cup promised' => h \in caller.of \cup promised
    BY <1>0, <1>1, IdleTyped
  <2>3. h \in promised' => file'[h] = None
    <3>1. CASE h \in promised
      BY <1>0, <2>1, <3>1 DEF HandleTrue
    <3>2. CASE h \notin promised /\ h \in promised'
      <4>1. Incomplete = {} /\ h \in caller.of
        BY <1>0, <3>2
      <4>2. ~(receipt[h].counted /\ Live(receipt[h].status))
        BY <4>1 DEF Incomplete
      <4> QED BY <1>0, <2>1, <4>1, <4>2 DEF HandleTrue
    <3> QED BY <3>1, <3>2
  <2> QED BY <1>0, <2>1, <2>2, <2>3 DEF HandleTrue
<1>4. OneRowPerAlias'
  BY <1>0, AgedRows DEF BundleInv, RowsAge
<1> QED BY <1>2, <1>3, <1>4 DEF BundleInv

-----------------------------------------------------------------------------
(* One receipt, or one file.                                               *)

\* The files and receipts of other handles stand, and no row changes.
OnlyAt(h) ==
  \A g \in Handle : g # h => file'[g] = file[g] /\ receipt'[g] = receipt[g]

LEMMA StepAt ==
  ASSUME BundleInv, NEW h \in Handle, OnlyAt(h),
         UNCHANGED <<consent, row, caller, promised>>,
         file' \in [Handle -> Content \cup {None}], receipt' \in [Handle -> Receipts],
         task' \in Tasks, faults' \in 0 .. MaxFaults, TaskTrue', HandleTrue(h)'
  PROVE  BundleInv'
<1>1. Typed' /\ ConsentTrue'
  BY DEF BundleInv, Typed, ConsentTrue
<1>2. ASSUME NEW g \in Handle
      PROVE  HandleTrue(g)'
  <2>1. CASE g = h
    BY <2>1
  <2>2. CASE g # h
    BY <2>2, Untouched DEF BundleInv, OnlyAt
  <2> QED BY <2>1, <2>2
<1>3. OneRowPerAlias'
  BY AgedRows DEF BundleInv, RowsAge
<1> QED BY <1>1, <1>2, <1>3 DEF BundleInv

SetsReceipt(h, some) == receipt' = [receipt EXCEPT ![h] = some]

LEMMA ReceiptSet ==
  ASSUME BundleInv, NEW h \in Handle, NEW some \in Receipts, SetsReceipt(h, some)
  PROVE  /\ receipt' \in [Handle -> Receipts] /\ receipt'[h] = some
         /\ \A g \in Handle : g # h => receipt'[g] = receipt[g]
BY DEF SetsReceipt, BundleInv, Typed

LEMMA PrepareTrue ==
  ASSUME BundleInv, NEW alias \in Alias, NEW content \in Content, NEW e \in Event,
         NEW h \in Handle, Prepare(alias, content, e, h)
  PROVE  BundleInv'
<1> DEFINE pending == [status |-> "PENDING", counted |-> FALSE]
<1>0. /\ UNCHANGED <<consent, row, file, caller, promised, faults>>
      /\ SetsReceipt(h, pending)
      /\ task' = [IdleTask EXCEPT !.step = "prepared", !.on = h, !.alias = alias,
                                  !.content = content, !.consent = e]
      /\ Authorized(e) /\ h \in Fresh
  BY DEF Prepare, Prepared, SetsReceipt
<1>1. pending \in Receipts /\ pending.status = "PENDING"
  BY DEF Receipts, Status
<1> HIDE DEF pending
<1>2. receipt' \in [Handle -> Receipts] /\ receipt'[h] = pending /\ OnlyAt(h)
  BY <1>0, <1>1, ReceiptSet DEF OnlyAt
<1>3. /\ task' \in Tasks /\ task'.step = "prepared" /\ task'.on = h
      /\ task'.consent = e
  BY <1>0, IdleTyped, Numbers DEF Tasks, Steps
<1>4. row[h].state = "NONE" /\ file[h] = None
  BY <1>0 DEF Fresh
<1>5. TaskTrue'
  BY <1>0, <1>1, <1>2, <1>3, <1>4 DEF TaskTrue, Authorized
<1>6. HandleTrue(h)'
  BY <1>0, <1>1, <1>2, <1>4 DEF BundleInv, HandleTrue, Live, Alive
<1>7. file' \in [Handle -> Content \cup {None}] /\ faults' \in 0 .. MaxFaults
  BY <1>0 DEF BundleInv, Typed
<1> QED BY <1>0, <1>2, <1>3, <1>5, <1>6, <1>7, StepAt

\* The handle of a prepared ingest has no file that its receipt would watch.
LEMMA ReplayTrue ==
  ASSUME BundleInv, Replay
  PROVE  BundleInv'
<1>0. /\ UNCHANGED <<consent, row, file, caller, promised, faults>>
      /\ task.step = "prepared"
      /\ \/ SetsReceipt(task.on, NoReceipt) /\ task' = IdleTask
         \/ /\ UNCHANGED receipt
            /\ task' = [IdleTask EXCEPT !.step = "recovering", !.todo = {task.on}]
  BY DEF Replay, RollBack, SetsReceipt
<1>1. PICK h \in Handle : h = task.on
  BY <1>0 DEF BundleInv, TaskTrue
<1>2. row[h].state = "NONE" /\ file[h] = None /\ HandleTrue(h)
  BY <1>0, <1>1 DEF BundleInv, TaskTrue
<1>3. file' \in [Handle -> Content \cup {None}] /\ faults' \in 0 .. MaxFaults
  BY <1>0 DEF BundleInv, Typed
<1>4. CASE SetsReceipt(task.on, NoReceipt) /\ task' = IdleTask
  <2>1. receipt' \in [Handle -> Receipts] /\ receipt'[h] = NoReceipt /\ OnlyAt(h)
    BY <1>0, <1>1, <1>4, NothingTyped, ReceiptSet DEF OnlyAt
  <2>2. HandleTrue(h)'
    BY <1>0, <1>2, <2>1 DEF HandleTrue, Alive
  <2>3. TaskTrue' /\ task' \in Tasks
    BY <1>4, IdleTyped, Resting
  <2> QED BY <1>0, <1>3, <2>1, <2>2, <2>3, StepAt
<1>5. CASE /\ UNCHANGED receipt
           /\ task' = [IdleTask EXCEPT !.step = "recovering", !.todo = {task.on}]
  <2>1. {task.on} \in SUBSET Handle
    BY <1>1
  <2>2. task' \in Tasks /\ task'.step = "recovering"
    BY <1>5, <2>1, TaskTodo DEF Steps
  <2>3. caller' \in Callers /\ caller'.of = caller.of
    BY <1>0 DEF BundleInv, Typed
  <2> QED BY <1>0, <1>3, <1>5, <2>2, <2>3, TaskStep
<1> QED BY <1>0, <1>4, <1>5

SetsFile(h, some) == file' = [file EXCEPT ![h] = some]

LEMMA FileSet ==
  ASSUME BundleInv, NEW h \in Handle, NEW some \in Content \cup {None}, SetsFile(h, some)
  PROVE  /\ file' \in [Handle -> Content \cup {None}] /\ file'[h] = some
         /\ \A g \in Handle : g # h => file'[g] = file[g]
BY DEF SetsFile, BundleInv, Typed

\* The task goes on to another step, on the same handle.
LEMMA TaskGoesOn ==
  ASSUME BundleInv, NEW step \in Steps, task' = [task EXCEPT !.step = step]
  PROVE  /\ task' \in Tasks /\ task'.step = step /\ task'.on = task.on
         /\ task'.alias = task.alias /\ task'.content = task.content
         /\ task'.consent = task.consent
BY DEF BundleInv, Typed, Tasks

LEMMA WriteTrue ==
  ASSUME BundleInv, Write
  PROVE  BundleInv'
<1>0. /\ UNCHANGED <<consent, row, receipt, caller, promised, faults>>
      /\ task.step = "prepared" /\ Stored(task.alias) = {}
      /\ SetsFile(task.on, task.content)
      /\ task' = [task EXCEPT !.step = "written"]
  BY DEF Write, SetsFile
<1>1. PICK h \in Handle : h = task.on
  BY <1>0 DEF BundleInv, TaskTrue
<1>2. /\ row[h].state = "NONE" /\ receipt[h].status = "PENDING" /\ HandleTrue(h)
      /\ consent.current /\ consent.enabled /\ task.consent = consent.newest
      /\ task.content \in Content \cup {None}
  BY <1>0, <1>1 DEF BundleInv, TaskTrue, Typed, Tasks
<1>3. file' \in [Handle -> Content \cup {None}] /\ file'[h] = task.content /\ OnlyAt(h)
  BY <1>0, <1>1, <1>2, FileSet DEF OnlyAt
<1>4. /\ task' \in Tasks /\ task'.step = "written" /\ task'.on = h
      /\ task'.alias = task.alias /\ task'.content = task.content
      /\ task'.consent = task.consent
  BY <1>0, <1>1, TaskGoesOn DEF Steps
<1>5. Stored(task.alias)' = {}
  BY <1>0, <1>4 DEF Stored
<1>6. TaskTrue'
  BY <1>0, <1>2, <1>3, <1>4, <1>5 DEF TaskTrue, Stored
<1>7. HandleTrue(h)'
  BY <1>0, <1>2, <1>3 DEF HandleTrue, Live, Alive
<1>8. receipt' \in [Handle -> Receipts] /\ faults' \in 0 .. MaxFaults
  BY <1>0 DEF BundleInv, Typed
<1> QED BY <1>0, <1>3, <1>4, <1>6, <1>7, <1>8, StepAt

-----------------------------------------------------------------------------
(* Recovery.                                                               *)

SetsStatus(h, status) == receipt' = [receipt EXCEPT ![h].status = status]

LEMMA StatusSet ==
  ASSUME BundleInv, NEW h \in Handle, NEW status \in Status, SetsStatus(h, status)
  PROVE  /\ receipt' \in [Handle -> Receipts]
         /\ receipt'[h].status = status /\ receipt'[h].counted = receipt[h].counted
         /\ \A g \in Handle : g # h => receipt'[g] = receipt[g]
<1>1. receipt \in [Handle -> Receipts] /\ receipt[h] \in Receipts
  BY DEF BundleInv, Typed
<1>2. PICK some : some = [receipt[h] EXCEPT !.status = status]
  OBVIOUS
<1>3. some \in Receipts /\ some.status = status /\ some.counted = receipt[h].counted
  BY <1>1, <1>2 DEF Receipts
<1>4. receipt' = [receipt EXCEPT ![h] = some]
  BY <1>2 DEF SetsStatus
<1> QED BY <1>1, <1>3, <1>4

\* A receipt stays a live one through a change of its status.
LEMMA StillLive ==
  ASSUME NEW h \in Handle, HandleTrue(h), UNCHANGED <<consent, row, file, caller, promised>>,
         Live(receipt[h].status), receipt'[h].status # "NONE",
         receipt'[h].counted = receipt[h].counted
  PROVE  HandleTrue(h)'
<1>1. row[h].state # "LIVE"
  BY NothingTyped DEF HandleTrue
<1> QED BY <1>1 DEF HandleTrue, Live

LEMMA LeaseTrue ==
  ASSUME BundleInv, NEW h \in Handle, Lease(h)
  PROVE  BundleInv'
<1> DEFINE rest == task.todo \ {h}
<1>0. /\ UNCHANGED <<consent, row, file, caller, promised, faults>>
      /\ task.step = "recovering"
      /\ \/ /\ Claimable(receipt[h].status) /\ SetsStatus(h, "CLAIMED")
            /\ task' = [task EXCEPT !.step = "leased", !.on = h, !.todo = rest]
         \/ UNCHANGED receipt /\ task' = [task EXCEPT !.todo = rest]
  BY DEF Lease, SetsStatus
<1>1. rest \in SUBSET Handle /\ task \in Tasks
  BY DEF BundleInv, Typed, Tasks
<1> HIDE DEF rest
<1>2. file' \in [Handle -> Content \cup {None}] /\ faults' \in 0 .. MaxFaults
  BY <1>0 DEF BundleInv, Typed
<1>3. CASE /\ Claimable(receipt[h].status) /\ SetsStatus(h, "CLAIMED")
           /\ task' = [task EXCEPT !.step = "leased", !.on = h, !.todo = rest]
  <2>1. /\ receipt' \in [Handle -> Receipts] /\ receipt'[h].status = "CLAIMED"
        /\ receipt'[h].counted = receipt[h].counted /\ OnlyAt(h)
    BY <1>0, <1>3, StatusSet DEF OnlyAt, Status
  <2>2. task' \in Tasks /\ task'.step = "leased" /\ task'.on = h
    BY <1>1, <1>3, Numbers DEF Tasks, Steps
  <2>3. TaskTrue'
    BY <2>1, <2>2 DEF TaskTrue
  <2>4. HandleTrue(h)'
    BY <1>0, <1>3, <2>1, StillLive DEF BundleInv, Claimable, Live
  <2> QED BY <1>0, <1>2, <2>1, <2>2, <2>3, <2>4, StepAt
<1>4. CASE UNCHANGED receipt /\ task' = [task EXCEPT !.todo = rest]
  <2>1. task' \in Tasks /\ task'.step = "recovering"
    BY <1>0, <1>1, <1>4 DEF Tasks
  <2>2. caller' \in Callers /\ caller'.of = caller.of
    BY <1>0 DEF BundleInv, Typed
  <2> QED BY <1>0, <1>2, <1>4, <2>1, <2>2, TaskStep
<1> QED BY <1>0, <1>3, <1>4

LEMMA InspectTrue ==
  ASSUME BundleInv, Inspect
  PROVE  BundleInv'
<1>0. /\ UNCHANGED <<consent, row, receipt, caller, promised, faults>>
      /\ task.step = "leased" /\ task' = [task EXCEPT !.step = "unlinked"]
      /\ \/ SetsFile(task.on, None)
         \/ UNCHANGED file /\ Verdict("unowned", file[task.on], file[task.on], None) # "unlink"
  BY DEF Inspect, SetsFile
<1>1. PICK h \in Handle : h = task.on
  BY <1>0 DEF BundleInv, TaskTrue
<1>2. receipt[h].status = "CLAIMED" /\ HandleTrue(h)
  BY <1>0, <1>1 DEF BundleInv, TaskTrue
<1>3. file' \in [Handle -> Content \cup {None}] /\ file'[h] = None /\ OnlyAt(h)
  <2>1. CASE SetsFile(task.on, None)
    BY <1>0, <1>1, <2>1, FileSet DEF OnlyAt
  <2>2. CASE UNCHANGED file /\ Verdict("unowned", file[task.on], file[task.on], None) # "unlink"
    <3>1. file[h] = None
      BY <1>1, <2>2 DEF Verdict
    <3> QED BY <1>0, <2>2, <3>1 DEF OnlyAt, BundleInv, Typed
  <2> QED BY <1>0, <2>1, <2>2
<1>4. task' \in Tasks /\ task'.step = "unlinked" /\ task'.on = h
  BY <1>0, <1>1, TaskGoesOn DEF Steps
<1>5. TaskTrue'
  BY <1>0, <1>2, <1>3, <1>4 DEF TaskTrue
<1>6. HandleTrue(h)'
  <2>1. row[h].state # "LIVE"
    BY <1>2, NothingTyped DEF HandleTrue, Live
  <2> QED BY <1>0, <1>2, <1>3, <2>1 DEF HandleTrue
<1>7. receipt' \in [Handle -> Receipts] /\ faults' \in 0 .. MaxFaults
  BY <1>0 DEF BundleInv, Typed
<1> QED BY <1>0, <1>3, <1>4, <1>5, <1>6, <1>7, StepAt

LEMMA BackToRecovery ==
  ASSUME BundleInv, task' = [task EXCEPT !.step = "recovering", !.on = 0]
  PROVE  task' \in Tasks /\ task'.step = "recovering" /\ TaskTrue'
<1>1. task' \in Tasks /\ task'.step = "recovering"
  BY Numbers DEF BundleInv, Typed, Tasks, Steps
<1> QED BY <1>1, Resting

LEMMA UnlinkFailsTrue ==
  ASSUME BundleInv, UnlinkFails
  PROVE  BundleInv'
<1>0. /\ UNCHANGED <<consent, row, file, caller, promised>> /\ Fault
      /\ task.step = "leased" /\ SetsStatus(task.on, "PENDING")
      /\ task' = [task EXCEPT !.step = "recovering", !.on = 0]
  BY DEF UnlinkFails, SetsStatus
<1>1. PICK h \in Handle : h = task.on
  BY <1>0 DEF BundleInv, TaskTrue
<1>2. receipt[h].status = "CLAIMED" /\ HandleTrue(h)
  BY <1>0, <1>1 DEF BundleInv, TaskTrue
<1>3. /\ receipt' \in [Handle -> Receipts] /\ receipt'[h].status = "PENDING"
      /\ receipt'[h].counted = receipt[h].counted /\ OnlyAt(h)
  BY <1>0, <1>1, StatusSet DEF OnlyAt, Status
<1>4. HandleTrue(h)'
  BY <1>0, <1>2, <1>3, StillLive DEF Live
<1>5. file' \in [Handle -> Content \cup {None}]
  BY <1>0 DEF BundleInv, Typed
<1> QED BY <1>0, <1>3, <1>4, <1>5, BackToRecovery, FaultCounted, StepAt

LEMMA FinishTrue ==
  ASSUME BundleInv, Finish
  PROVE  BundleInv'
<1>0. /\ UNCHANGED <<consent, row, file, caller, promised, faults>>
      /\ task.step = "unlinked" /\ SetsReceipt(task.on, NoReceipt)
      /\ task' = [task EXCEPT !.step = "recovering", !.on = 0]
  BY DEF Finish, SetsReceipt
<1>1. PICK h \in Handle : h = task.on
  BY <1>0 DEF BundleInv, TaskTrue
<1>2. receipt[h].status = "CLAIMED" /\ file[h] = None /\ HandleTrue(h)
  BY <1>0, <1>1 DEF BundleInv, TaskTrue
<1>3. receipt' \in [Handle -> Receipts] /\ receipt'[h] = NoReceipt /\ OnlyAt(h)
  BY <1>0, <1>1, NothingTyped, ReceiptSet DEF OnlyAt
<1>4. HandleTrue(h)'
  BY <1>0, <1>2, <1>3, NothingTyped DEF HandleTrue
<1>5. file' \in [Handle -> Content \cup {None}] /\ faults' \in 0 .. MaxFaults
  BY <1>0 DEF BundleInv, Typed
<1> QED BY <1>0, <1>3, <1>4, <1>5, BackToRecovery, StepAt

LEMMA LeaseRunsOutTrue ==
  ASSUME BundleInv, NEW h \in Handle, LeaseRunsOut(h)
  PROVE  BundleInv'
<1>0. /\ UNCHANGED <<consent, row, file, task, caller, promised, faults>>
      /\ receipt[h].status = "CLAIMED" /\ task.step \notin {"leased", "unlinked"}
      /\ SetsStatus(h, "BLOCKED")
  BY DEF LeaseRunsOut, SetsStatus
<1>1. HandleTrue(h)
  BY DEF BundleInv
<1>2. /\ receipt' \in [Handle -> Receipts] /\ receipt'[h].status = "BLOCKED"
      /\ receipt'[h].counted = receipt[h].counted /\ OnlyAt(h)
  BY <1>0, StatusSet DEF OnlyAt, Status
<1>3. HandleTrue(h)'
  BY <1>0, <1>1, <1>2, StillLive DEF Live
<1>4. TaskTrue'
  <2>1. TaskTrue
    BY DEF BundleInv
  <2>2. task.step \in {"prepared", "written"} => task.on # h /\ task.on \in Handle
    BY <1>0, <2>1 DEF TaskTrue
  <2>3. task.step \in {"prepared", "written"} => receipt'[task.on] = receipt[task.on]
    BY <1>2, <2>2 DEF OnlyAt
  <2> QED BY <1>0, <2>1, <2>3 DEF TaskTrue, Stored
<1>5. file' \in [Handle -> Content \cup {None}] /\ task' \in Tasks /\ faults' \in 0 .. MaxFaults
  BY <1>0 DEF BundleInv, Typed
<1> QED BY <1>0, <1>2, <1>3, <1>4, <1>5, StepAt

-----------------------------------------------------------------------------
(* Rows.                                                                   *)

LEMMA CommitTrue ==
  ASSUME BundleInv, Commit
  PROVE  BundleInv'
<1> DEFINE new == [NoRow EXCEPT !.state = "LIVE", !.alias = task.alias,
                                !.content = task.content, !.consent = task.consent]
<1>0. /\ UNCHANGED <<consent, file, caller, promised, faults>> /\ task' = IdleTask
      /\ task.step = "written" /\ SetsReceipt(task.on, NoReceipt)
      /\ row' = [row EXCEPT ![task.on] = new]
  BY DEF Commit, SetsReceipt
<1>1. PICK h \in Handle : h = task.on
  BY <1>0 DEF BundleInv, TaskTrue
<1>2. /\ row[h].state = "NONE" /\ file[h] = task.content /\ Stored(task.alias) = {}
      /\ consent.current /\ task.consent = consent.newest /\ HandleTrue(h)
      /\ consent.newest \in consent.kept
  BY <1>0, <1>1 DEF BundleInv, TaskTrue, ConsentTrue
<1>3. /\ new \in Rows /\ new.state = "LIVE" /\ new.alias = task.alias
      /\ new.content = task.content /\ new.consent = task.consent
  BY NothingTyped DEF BundleInv, Typed, Tasks, Rows
<1> HIDE DEF new
<1>4. /\ row' \in [Handle -> Rows] /\ row'[h] = new
      /\ \A g \in Handle : g # h => row'[g] = row[g]
  BY <1>0, <1>1, <1>3 DEF BundleInv, Typed
<1>5. /\ receipt' \in [Handle -> Receipts] /\ receipt'[h] = NoReceipt
      /\ \A g \in Handle : g # h => receipt'[g] = receipt[g]
  BY <1>0, <1>1, NothingTyped, ReceiptSet
<1>6. Typed' /\ ConsentTrue' /\ TaskTrue'
  <2>1. Typed' /\ ConsentTrue'
    BY <1>0, <1>4, <1>5, IdleTyped DEF BundleInv, Typed, ConsentTrue
  <2>2. TaskTrue'
    BY <1>0, IdleTyped, Resting
  <2> QED BY <2>1, <2>2
<1>7. ASSUME NEW g \in Handle
      PROVE  HandleTrue(g)'
  <2>1. CASE g = h
    <3>1. g \notin caller.of \cup promised
      BY <1>2, <2>1 DEF HandleTrue
    <3> QED BY <1>0, <1>2, <1>3, <1>4, <1>5, <2>1, <3>1 DEF HandleTrue
  <2>2. CASE g # h
    BY <1>0, <1>4, <1>5, <2>2, Untouched DEF BundleInv
  <2> QED BY <2>1, <2>2
<1>8. OneRowPerAlias'
  <2>1. \A g \in Handle : row[g].state \in Alive => row[g].alias # task.alias
    BY <1>2 DEF Stored, Alive
  <2>2. OneRowPerAlias
    BY DEF BundleInv
  <2>3. ASSUME NEW f \in Handle, NEW g \in Handle, row'[f].alias = row'[g].alias,
               {row'[f].state, row'[g].state} \subseteq Alive
        PROVE  f = g
    <3>1. CASE f = h \/ g = h
      BY <1>3, <1>4, <2>1, <2>3, <3>1
    <3>2. CASE f # h /\ g # h
      BY <1>4, <2>2, <2>3, <3>2 DEF OneRowPerAlias, Alive
    <3> QED BY <3>1, <3>2
  <2> QED BY <2>3 DEF OneRowPerAlias, Alive
<1> QED BY <1>6, <1>7, <1>8 DEF BundleInv

\* Time passes for a row: its retention ends, or its tombstone's.
LEMMA RowDated ==
  ASSUME BundleInv, NEW h \in Handle, NEW some \in Rows, row' = [row EXCEPT ![h] = some],
         some.state = row[h].state, some.alias = row[h].alias,
         some.content = row[h].content, some.consent = row[h].consent,
         UNCHANGED <<consent, file, receipt, task, caller, promised, faults>>
  PROVE  BundleInv'
<1>1. /\ row' \in [Handle -> Rows]
      /\ \A g \in Handle : /\ row'[g].state = row[g].state /\ row'[g].alias = row[g].alias
                           /\ row'[g].content = row[g].content /\ row'[g].consent = row[g].consent
  BY DEF BundleInv, Typed
<1>2. Typed' /\ ConsentTrue'
  BY <1>1 DEF BundleInv, Typed, ConsentTrue
<1>3. TaskTrue'
  BY <1>1 DEF BundleInv, TaskTrue, Stored
<1>4. ASSUME NEW g \in Handle
      PROVE  HandleTrue(g)'
  BY <1>1 DEF BundleInv, HandleTrue
<1>5. OneRowPerAlias'
  BY <1>1, AgedRows DEF BundleInv, RowsAge
<1> QED BY <1>2, <1>3, <1>4, <1>5 DEF BundleInv

LEMMA RetentionEndsTrue ==
  ASSUME BundleInv, NEW h \in Handle, RetentionEnds(h)
  PROVE  BundleInv'
<1>1. PICK some : some = [row[h] EXCEPT !.late = TRUE]
  OBVIOUS
<1>2. row[h] \in Rows
  BY DEF BundleInv, Typed
<1>3. /\ some \in Rows /\ some.state = row[h].state /\ some.alias = row[h].alias
      /\ some.content = row[h].content /\ some.consent = row[h].consent
  BY <1>1, <1>2 DEF Rows
<1>4. /\ row' = [row EXCEPT ![h] = some]
      /\ UNCHANGED <<consent, file, receipt, task, caller, promised, faults>>
  BY <1>1 DEF RetentionEnds
<1> QED BY <1>3, <1>4, RowDated

LEMMA TombstoneDueTrue ==
  ASSUME BundleInv, NEW h \in Handle, TombstoneDue(h)
  PROVE  BundleInv'
<1>1. PICK some : some = [row[h] EXCEPT !.tombstone = "DUE"]
  OBVIOUS
<1>2. row[h] \in Rows
  BY DEF BundleInv, Typed
<1>3. /\ some \in Rows /\ some.state = row[h].state /\ some.alias = row[h].alias
      /\ some.content = row[h].content /\ some.consent = row[h].consent
  BY <1>1, <1>2 DEF Rows
<1>4. /\ row' = [row EXCEPT ![h] = some]
      /\ UNCHANGED <<consent, file, receipt, task, caller, promised, faults>>
  BY <1>1 DEF TombstoneDue
<1> QED BY <1>3, <1>4, RowDated

\* Some live rows get a tombstone and their files a receipt that is counted;
\* the call that does it may be about deleted rows only.
LEMMA BuriedTrue ==
  ASSUME BundleInv, NEW some \in SUBSET LiveRows, task.step = "idle",
         row' = Buried(some), receipt' = Scrubbed(some),
         UNCHANGED <<file, task, promised, faults>>, consent' \in Consents,
         consent'.kept = consent.kept, ConsentTrue', caller' \in Callers,
         \A h \in caller'.of : row'[h].state \in {"DELETED", "PURGED"}
  PROVE  BundleInv'
<1>0. \A h \in Handle : row[h] \in Rows /\ receipt[h] \in Receipts
  BY DEF BundleInv, Typed
<1>1. ASSUME NEW h \in Handle, h \in some
      PROVE  /\ row'[h] \in Rows /\ row[h].state = "LIVE" /\ row'[h].state = "DELETED"
             /\ row'[h].alias = row[h].alias /\ row'[h].consent = row[h].consent
             /\ receipt'[h] = [status |-> "PENDING", counted |-> TRUE]
             /\ receipt'[h] \in Receipts
  <2>1. row'[h] = [row[h] EXCEPT !.state = "DELETED", !.tombstone = "KEPT"]
    BY <1>1 DEF Buried
  <2>2. /\ row'[h] \in Rows /\ row'[h].state = "DELETED"
        /\ row'[h].alias = row[h].alias /\ row'[h].consent = row[h].consent
    BY <1>0, <2>1 DEF Rows
  <2>3. receipt'[h] = [status |-> "PENDING", counted |-> TRUE]
    BY <1>1 DEF Scrubbed, Prepared
  <2>4. receipt'[h] \in Receipts
    BY <2>3 DEF Receipts, Status
  <2> QED BY <1>1, <2>2, <2>3, <2>4 DEF LiveRows
<1>2. ASSUME NEW h \in Handle, h \notin some
      PROVE  row'[h] = row[h] /\ receipt'[h] = receipt[h]
  BY <1>2 DEF Buried, Scrubbed
<1>3. Typed'
  <2>1. row' \in [Handle -> Rows]
    BY <1>0, <1>1, <1>2 DEF Buried
  <2>2. receipt' \in [Handle -> Receipts]
    BY <1>0, <1>1, <1>2 DEF Scrubbed
  <2> QED BY <2>1, <2>2 DEF BundleInv, Typed
<1>4. TaskTrue'
  BY Resting
<1>5. ASSUME NEW h \in Handle
      PROVE  HandleTrue(h)'
  <2>1. HandleTrue(h)
    BY DEF BundleInv
  <2>2. CASE h \in some
    <3>1. h \notin promised
      BY <1>1, <2>1, <2>2 DEF HandleTrue
    <3>2. Live(receipt'[h].status) /\ receipt'[h].counted
      BY <1>1, <2>2 DEF Live
    <3> QED BY <1>1, <2>1, <2>2, <3>1, <3>2 DEF HandleTrue, Alive
  <2>3. CASE h \notin some
    BY <1>2, <2>1, <2>3 DEF HandleTrue
  <2> QED BY <2>2, <2>3
<1>6. OneRowPerAlias'
  <2>1. RowsAge
    BY <1>1, <1>2 DEF RowsAge, Alive
  <2> QED BY <2>1, AgedRows DEF BundleInv
<1> QED BY <1>3, <1>4, <1>5, <1>6 DEF BundleInv

\* What is buried stays what it is, a row of a call included.
LEMMA StillDeleted ==
  ASSUME BundleInv, NEW some \in SUBSET LiveRows, row' = Buried(some), NEW h \in caller.of
  PROVE  row'[h].state \in {"DELETED", "PURGED"}
<1>1. h \in Handle /\ HandleTrue(h)
  BY DEF BundleInv, Typed, Callers
<1>2. row[h].state \in {"DELETED", "PURGED"}
  BY <1>1 DEF HandleTrue
<1> QED BY <1>1, <1>2 DEF Buried, LiveRows

LEMMA ListOrExportTrue ==
  ASSUME BundleInv, ListOrExport
  PROVE  BundleInv'
<1>0. /\ UNCHANGED <<consent, file, task, caller, promised, faults>> /\ task.step = "idle"
      /\ row' = Buried(LateRows) /\ receipt' = Scrubbed(LateRows)
  BY DEF ListOrExport, Free
<1>1. LateRows \in SUBSET LiveRows
  BY DEF LateRows
<1>2. /\ consent' \in Consents /\ consent'.kept = consent.kept /\ ConsentTrue'
      /\ caller' \in Callers
  BY <1>0 DEF BundleInv, Typed, ConsentTrue
<1>3. \A h \in caller'.of : row'[h].state \in {"DELETED", "PURGED"}
  BY <1>0, <1>1, StillDeleted
<1> QED BY <1>0, <1>1, <1>2, <1>3, BuriedTrue

LEMMA DeleteTrue ==
  ASSUME BundleInv, Delete
  PROVE  BundleInv'
<1> DEFINE of == {h \in Handle : row[h].state \in {"LIVE", "DELETED"}}
<1>0. /\ UNCHANGED <<file, task, promised, faults>> /\ task.step = "idle"
      /\ row' = Buried(LiveRows) /\ receipt' = Scrubbed(LiveRows)
      /\ consent' = [consent EXCEPT !.current = FALSE]
      /\ caller' = [at |-> "delete", of |-> of]
  BY DEF Delete, Free
<1>1. /\ consent' \in Consents /\ consent'.kept = consent.kept /\ consent'.current = FALSE
  BY <1>0 DEF BundleInv, Typed, Consents
<1>2. ConsentTrue'
  BY <1>1 DEF ConsentTrue
<1>3. caller' \in Callers /\ caller'.of = of
  BY <1>0 DEF Callers
<1>4. \A h \in of : row'[h].state \in {"DELETED", "PURGED"}
  <2>1. row \in [Handle -> Rows]
    BY DEF BundleInv, Typed
  <2> QED BY <1>0, <2>1 DEF Buried, LiveRows, Rows
<1>5. LiveRows \in SUBSET LiveRows
  OBVIOUS
<1> QED BY <1>0, <1>1, <1>2, <1>3, <1>4, <1>5, BuriedTrue

LEMMA PurgeTrue ==
  ASSUME BundleInv, Purge
  PROVE  BundleInv'
<1>0. /\ UNCHANGED <<consent, file, task, promised, faults>> /\ task.step = "idle"
      /\ row' = Buried(LateRows) /\ receipt' = Scrubbed(LateRows)
      /\ caller' = [at |-> "purge", of |-> {}]
  BY DEF Purge, Free
<1>1. LateRows \in SUBSET LiveRows
  BY DEF LateRows
<1>2. consent' \in Consents /\ consent'.kept = consent.kept /\ ConsentTrue'
  BY <1>0 DEF BundleInv, Typed, ConsentTrue
<1>3. caller' \in Callers /\ caller'.of = {}
  BY <1>0 DEF Callers
<1> QED BY <1>0, <1>1, <1>2, <1>3, BuriedTrue

\* A row goes when its receipt is done, and so when its file is gone; a
\* consent event goes when no row that stays names it.
LEMMA SweepTrue ==
  ASSUME BundleInv, Sweep
  PROVE  BundleInv'
<1>0. /\ UNCHANGED <<file, receipt, task, promised, faults>> /\ task.step = "idle"
      /\ caller' = NoCall
      /\ row' = [h \in Handle |-> IF h \in Finished THEN [NoRow EXCEPT !.state = "PURGED"]
                                  ELSE row[h]]
      /\ \E some \in SUBSET Outdated(Finished, row') :
           consent' = [consent EXCEPT !.kept = @ \ some]
  BY DEF Sweep, Free
<1>1. PICK some \in SUBSET Outdated(Finished, row') :
        consent' = [consent EXCEPT !.kept = @ \ some]
  BY <1>0
<1>2. consent \in Consents
  BY DEF BundleInv, Typed
<1>3. /\ consent' \in Consents /\ consent'.kept = consent.kept \ some
      /\ consent'.current = consent.current /\ consent'.newest = consent.newest
  BY <1>1, <1>2 DEF Consents
<1>4. ASSUME NEW h \in Handle, row'[h].state \in Alive, row'[h].consent \in consent.kept
      PROVE  row'[h].consent \in consent'.kept
  <2>1. row'[h].consent \notin Outdated(Finished, row')
    BY <1>4 DEF Outdated, Alive
  <2> QED BY <1>1, <1>3, <1>4, <2>1
<1>5. ConsentTrue'
  <2>1. consent.current => consent.newest \notin Outdated(Finished, row')
    BY DEF Outdated
  <2> QED BY <1>1, <1>3, <2>1 DEF BundleInv, ConsentTrue
<1>6. [NoRow EXCEPT !.state = "PURGED"] \in Rows /\ [NoRow EXCEPT !.state = "PURGED"].state = "PURGED"
  BY NothingTyped DEF Rows
<1>7. ASSUME NEW h \in Handle
      PROVE  /\ row'[h] \in Rows
             /\ \/ row'[h] = row[h]
                \/ /\ row[h].state = "DELETED" /\ ~Live(receipt[h].status)
                   /\ row'[h].state = "PURGED"
  BY <1>0, <1>6 DEF BundleInv, Typed, Finished
<1>8. Typed'
  <2>1. row' \in [Handle -> Rows]
    BY <1>0, <1>7
  <2> QED BY <1>0, <1>3, <2>1, IdleTyped DEF BundleInv, Typed
<1>9. TaskTrue'
  BY <1>0, Resting
<1>10. ASSUME NEW h \in Handle
       PROVE  HandleTrue(h)'
  <2>1. HandleTrue(h) /\ caller'.of = {}
    BY <1>0, IdleTyped DEF BundleInv
  <2>2. CASE row'[h] = row[h]
    BY <1>0, <1>4, <2>1, <2>2 DEF HandleTrue
  <2>3. CASE /\ row[h].state = "DELETED" /\ ~Live(receipt[h].status)
             /\ row'[h].state = "PURGED"
    BY <1>0, <2>1, <2>3 DEF HandleTrue, Alive
  <2> QED BY <1>7, <2>2, <2>3
<1>11. OneRowPerAlias'
  <2>1. RowsAge
    BY <1>7 DEF RowsAge, Alive
  <2> QED BY <2>1, AgedRows DEF BundleInv
<1> QED BY <1>5, <1>8, <1>9, <1>10, <1>11 DEF BundleInv

-----------------------------------------------------------------------------

LEMMA InitTrue == Init => BundleInv
<1> SUFFICES ASSUME Init
             PROVE  BundleInv
  OBVIOUS
<1>0. /\ consent = [newest |-> 0, current |-> FALSE, enabled |-> FALSE, expired |-> FALSE, kept |-> {}]
      /\ row = [h \in Handle |-> NoRow] /\ file = [h \in Handle |-> None]
      /\ receipt = [h \in Handle |-> NoReceipt]
      /\ task = IdleTask /\ caller = NoCall /\ promised = {} /\ faults = 0
  BY DEF Init
<1>1. consent \in Consents /\ ConsentTrue
  BY <1>0, Numbers DEF Consents, ConsentTrue
<1>2. Typed
  BY <1>0, <1>1, NothingTyped, IdleTyped, Bounds DEF Typed
<1>3. TaskTrue
  BY <1>0, IdleTyped DEF TaskTrue
<1>4. ASSUME NEW h \in Handle
      PROVE  HandleTrue(h)
  BY <1>0, NothingTyped, IdleTyped DEF HandleTrue, Alive
<1>5. OneRowPerAlias
  BY <1>0, NothingTyped DEF OneRowPerAlias
<1> QED BY <1>1, <1>2, <1>3, <1>4, <1>5 DEF BundleInv

LEMMA NextTrue == BundleInv /\ [Next]_vars => BundleInv'
<1> SUFFICES ASSUME BundleInv, [Next]_vars
             PROVE  BundleInv'
  OBVIOUS
<1>1. CASE Locked
  <2>1. ASSUME NEW h \in Handle, Lease(h) PROVE BundleInv'
    BY <2>1, LeaseTrue
  <2> QED BY <1>1, <2>1, ReplayTrue, WriteTrue, CommitTrue, InspectTrue, FinishTrue,
             EndRecoveryTrue, RestartTrue DEF Locked
<1>2. CASE StartRecovery \/ Count \/ Sweep
  BY <1>2, StartRecoveryTrue, CountTrue, SweepTrue
<1>3. ASSUME NEW enabled \in BOOLEAN, RecordOptIn(enabled)
      PROVE  BundleInv'
  BY <1>3, RecordOptInTrue
<1>4. CASE ConsentExpires
  BY <1>4, ConsentExpiresTrue
<1>5. ASSUME NEW alias \in Alias, NEW content \in Content, NEW e \in Event, NEW h \in Handle,
             Prepare(alias, content, e, h)
      PROVE  BundleInv'
  BY <1>5, PrepareTrue
<1>6. ASSUME NEW h \in Handle, RetentionEnds(h) \/ TombstoneDue(h) \/ LeaseRunsOut(h)
      PROVE  BundleInv'
  BY <1>6, RetentionEndsTrue, TombstoneDueTrue, LeaseRunsOutTrue
<1>7. CASE ListOrExport \/ Delete \/ Purge
  BY <1>7, ListOrExportTrue, DeleteTrue, PurgeTrue
<1>8. CASE IngestFails \/ UnlinkFails \/ Crash
  BY <1>8, IngestFailsTrue, UnlinkFailsTrue, CrashTrue
<1>9. CASE UNCHANGED vars
  <2>1. /\ UNCHANGED <<consent, row, file, receipt, task, caller, promised, faults>>
    BY <1>9 DEF vars
  <2>2. Typed' /\ ConsentTrue'
    BY <2>1 DEF BundleInv, Typed, ConsentTrue
  <2>3. TaskTrue'
    BY <2>1 DEF BundleInv, TaskTrue, Stored
  <2> QED BY <2>1, <2>2, <2>3, QuietStep
<1> QED BY <1>1, <1>2, <1>3, <1>4, <1>5, <1>6, <1>7, <1>8, <1>9 DEF Next

LEMMA BundlesHold == Spec => []BundleInv
BY InitTrue, NextTrue, PTL DEF Spec

\* For any number of bundles and failures: a bundle that can be listed has its
\* bytes and no receipt, its consent event is on record, and a device's id
\* stands for one row, through retries, recovery and purges (RowsAreTrue).
THEOREM RowsCorrect == Spec => []RowsAreTrue
<1>1. BundleInv => RowsAreTrue
  <2> SUFFICES ASSUME BundleInv
               PROVE  RowsAreTrue
    OBVIOUS
  <2>1. RowsHaveFiles
    BY DEF BundleInv, HandleTrue, RowsHaveFiles
  <2>2. ConsentOnRecord
    BY DEF BundleInv, HandleTrue, ConsentOnRecord, Alive
  <2> QED BY <2>1, <2>2, TypeParts DEF BundleInv, RowsAreTrue
<1> QED BY <1>1, BundlesHold, PTL

\* A deletion that was reported complete has happened for every bundle it was
\* about, a row outlives its file, and a file without a row has a receipt, for
\* any order of failures, deaths and recoveries (DeletedForGood).
THEOREM DeletionsHold == Spec => []DeletedForGood
<1>1. BundleInv => DeletedForGood
  <2> SUFFICES ASSUME BundleInv
               PROVE  DeletedForGood
    OBVIOUS
  <2>1. promised \subseteq Handle /\ \A h \in Handle : HandleTrue(h)
    BY DEF BundleInv, Typed
  <2>2. DeletionIsTrue
    BY <2>1 DEF HandleTrue, DeletionIsTrue
  <2>3. FileGoesFirst /\ LeftoversWatched
    BY <2>1 DEF HandleTrue, FileGoesFirst, LeftoversWatched
  <2> QED BY <2>2, <2>3 DEF DeletedForGood
<1> QED BY <1>1, BundlesHold, PTL

\* A new row is the work of the ingest that holds the write lock.
LEMMA OnlyCommitStores ==
  ASSUME BundleInv, [Next]_vars, NEW h \in Handle, row[h].state = "NONE", row'[h].state = "LIVE"
  PROVE  Commit
<1>0. row \in [Handle -> Rows] /\ row' # row
  BY DEF BundleInv, Typed
<1>1. ASSUME NEW some \in SUBSET LiveRows, row' = Buried(some)
      PROVE  FALSE
  BY <1>1 DEF Buried, LiveRows
<1>2. ~(ListOrExport \/ Delete \/ Purge)
  BY <1>1 DEF ListOrExport, Delete, Purge, LateRows
<1>3. ~Sweep
  BY DEF Sweep, Finished
<1>4. ASSUME NEW g \in Handle, RetentionEnds(g) \/ TombstoneDue(g)
      PROVE  FALSE
  BY <1>0, <1>4 DEF RetentionEnds, TombstoneDue, Rows
<1>5. ~(Replay \/ Write \/ Inspect \/ Finish \/ EndRecovery \/ Restart)
  BY <1>0 DEF Replay, Write, Inspect, Finish, EndRecovery, Restart
<1>6. \A g \in Handle : ~Lease(g) /\ ~LeaseRunsOut(g)
  BY <1>0 DEF Lease, LeaseRunsOut
<1>7. ~(StartRecovery \/ Count \/ ConsentExpires \/ IngestFails \/ UnlinkFails \/ Crash)
  BY <1>0 DEF StartRecovery, Count, ConsentExpires, IngestFails, UnlinkFails, Crash
<1>8. \A enabled \in BOOLEAN : ~RecordOptIn(enabled)
  BY <1>0 DEF RecordOptIn
<1>9. \A alias \in Alias, content \in Content, e \in Event, g \in Handle :
        ~Prepare(alias, content, e, g)
  BY <1>0 DEF Prepare
<1>10. Next
  BY <1>0 DEF vars
<1> QED BY <1>2, <1>3, <1>4, <1>5, <1>6, <1>7, <1>8, <1>9, <1>10 DEF Next, Locked

\* Whatever requests come between an ingest's check and its commit, the row is
\* stored under the event that is current at that moment (StoredWithConsent).
THEOREM ConsentIsCurrent == Spec => StoredWithConsent
<1> DEFINE Stores == \A h \in Handle : row[h].state = "NONE" /\ row'[h].state = "LIVE"
              => consent.current /\ consent.enabled /\ row'[h].consent = consent.newest
<1>1. BundleInv /\ [Next]_vars => [Stores]_vars
  <2> SUFFICES ASSUME BundleInv, [Next]_vars, NEW h \in Handle,
                      row[h].state = "NONE", row'[h].state = "LIVE"
               PROVE  consent.current /\ consent.enabled /\ row'[h].consent = consent.newest
    OBVIOUS
  <2>1. Commit
    BY OnlyCommitStores
  <2>2. /\ task.on \in Handle /\ consent.current /\ consent.enabled
        /\ task.consent = consent.newest
    BY <2>1 DEF Commit, BundleInv, TaskTrue
  <2>3. row \in [Handle -> Rows]
    BY DEF BundleInv, Typed
  <2>4. PICK new : /\ new = [NoRow EXCEPT !.state = "LIVE", !.alias = task.alias,
                                          !.content = task.content, !.consent = task.consent]
                   /\ row' = [row EXCEPT ![task.on] = new]
    BY <2>1 DEF Commit
  <2>5. new.consent = task.consent
    BY <2>4, NothingTyped DEF Rows
  <2>6. h = task.on
    BY <2>3, <2>4
  <2> QED BY <2>2, <2>3, <2>4, <2>5, <2>6
<1> QED BY <1>1, BundlesHold, PTL DEF Spec, StoredWithConsent

-----------------------------------------------------------------------------
(* The export (ExportPages).                                               *)

\* What the export reads, and the keys of its order.  ExportComplete is inductive.
EventRecords == [state: {"ABSENT", "LIVE", "DELETED"}, at: {0} \cup Times, bytes: {0, Small, Large}]
Key == Nat \X Nat \X Nat

LEMMA KeysOrdered ==
  ASSUME NEW k \in Key, NEW l \in Key, NEW m \in Key
  PROVE  /\ Export!Before(k, l) /\ Export!Before(l, m) => Export!Before(k, m)
         /\ Export!Before(k, l) \/ k = l \/ Export!Before(l, k)
         /\ ~Export!Before(k, k)
BY DEF Export!Before, Key

LEMMA KeysAre ==
  ASSUME Export!TypeOK
  PROVE  cursor \in Key
         /\ \A e \in Export!Entity : Export!KeyOf(e) \in Key /\ Export!KeyOf(e)[3] = e
<1>1. Export!Entity \subseteq Nat /\ {0} \cup Times \subseteq Nat
  BY ExportConstants DEF Export!Entity
<1>2. cursor \in Key
  <2>1. 0 .. MaxEvents \subseteq Nat
    BY ExportConstants
  <2> QED BY <1>1, <2>1 DEF Export!TypeOK, Key
<1>3. ASSUME NEW e \in Export!Entity PROVE Export!KeyOf(e) \in Key /\ Export!KeyOf(e)[3] = e
  BY <1>1 DEF Export!TypeOK, Export!KeyOf, Export!PlaceOf, Export!SortType, Key
<1> QED BY <1>2, <1>3

\* A page is an initial part of the rows.
LEMMA PageIsPrefix ==
  ASSUME Export!TypeOK, NEW last \in Export!Accepted, NEW e \in Export!Entity, Export!After(e),
         ~Export!Before(Export!KeyOf(last), Export!KeyOf(e))
  PROVE  e \in Export!Accepted
<1>1. last \in Export!Rows /\ e \in Export!Rows /\ last \in Export!Entity
  BY DEF Export!Accepted, Export!Rows
<1>2. e = last \/ Export!Before(Export!KeyOf(e), Export!KeyOf(last))
  BY <1>1, KeysAre, KeysOrdered
<1>3. ASSUME NEW d \in Export!UpTo(e) PROVE d \in Export!UpTo(last)
  <2>1. d \in Export!Rows /\ d \in Export!Entity
    BY DEF Export!UpTo, Export!Rows
  <2> QED BY <1>1, <1>2, <2>1, KeysAre, KeysOrdered DEF Export!UpTo
<1> QED BY <1>1, <1>3 DEF Export!Accepted

LEMMA AnswerTyped ==
  ASSUME Export!TypeOK, Export!Answer, UNCHANGED <<event, clock, late>> PROVE Export!TypeOK'
<1>1. Export!Accepted \subseteq Export!Entity
      /\ \A e \in Export!Accepted : event[e].state # "ABSENT"
  BY DEF Export!Accepted, Export!Rows, Export!After
<1>2. ASSUME NEW e \in Export!Entity, event[e].state # "ABSENT"
      PROVE  Export!KeyOf(e) \in ({0} \cup Times) \X (0 .. 2) \X (0 .. MaxEvents)
  <2>1. e \in 0 .. MaxEvents /\ event[e].at \in {0} \cup Times
    BY ExportConstants DEF Export!Entity, Export!TypeOK
  <2> QED BY <2>1 DEF Export!KeyOf, Export!PlaceOf, Export!SortType
<1>3. cursor' \in ({0} \cup Times) \X (0 .. 2) \X (0 .. MaxEvents)
  <2>1. CASE UNCHANGED cursor
    BY <2>1 DEF Export!TypeOK
  <2>2. CASE \E last \in Export!Accepted : cursor' = Export!KeyOf(last)
    BY <1>1, <1>2, <2>2
  <2> QED BY <2>1, <2>2 DEF Export!Answer
<1>4. got' \subseteq Export!Entity /\ learned' \subseteq Export!Entity
      /\ reading' \in {"on", "done", "refused"}
      /\ \A e \in learned' : event[e].state = "DELETED"
  BY <1>1 DEF Export!Answer, Export!TypeOK
<1> QED BY <1>3, <1>4 DEF Export!TypeOK

LEMMA AskExports == ASSUME ExportComplete, Export!Ask PROVE ExportComplete'
<1>1. UNCHANGED <<event, clock, late>> /\ reading = "on"
  BY DEF Export!Ask
<1>2. CASE Export!Exceeds /\ reading' = "refused" /\ UNCHANGED <<cursor, got, learned>>
  <2>1. Export!TypeOK'
    BY <1>1, <1>2 DEF ExportComplete, Export!TypeOK
  <2>2. Export!ExportComplete'
    BY <1>1, <1>2 DEF ExportComplete, Export!ExportComplete, Export!KeyOf, Export!PlaceOf, Export!SortType
  <2> QED BY <2>1, <2>2 DEF ExportComplete
<1>3. CASE ~Export!Exceeds /\ Export!Answer
  <2>1. Export!TypeOK'
    BY <1>1, <1>3, AnswerTyped DEF ExportComplete
  <2>2. \A e \in Export!Accepted : e \in IF event[e].state = "LIVE" THEN got' ELSE learned'
    <3>1. ASSUME NEW e \in Export!Accepted PROVE event[e].state \in {"LIVE", "DELETED"}
      BY DEF Export!Accepted, Export!Rows, Export!After, ExportComplete, Export!TypeOK
    <3> QED BY <1>3, <3>1 DEF Export!Answer
  <2>3. got \subseteq got' /\ learned \subseteq learned'
    BY <1>3 DEF Export!Answer
  <2>4. ASSUME NEW e \in Export!Entity, event[e].state # "ABSENT",
               reading' = "done" \/ ~Export!Before(cursor', Export!KeyOf(e)),
               e \notin Export!Accepted
        PROVE  ~Export!Before(cursor, Export!KeyOf(e))
    <3>1. SUFFICES ASSUME Export!After(e) PROVE FALSE
      BY <2>4 DEF Export!After
    <3>2. e \in Export!Rows
      BY <3>1 DEF Export!Rows
    <3>3. Export!Truncated /\ reading' = reading
      BY <1>3, <2>4, <3>2 DEF Export!Answer, Export!Truncated
    <3>4. PICK last \in Export!Accepted : cursor' = Export!KeyOf(last)
      BY <1>3, <3>3 DEF Export!Answer
    <3>5. ~Export!Before(Export!KeyOf(last), Export!KeyOf(e))
      BY <1>1, <2>4, <3>3, <3>4
    <3> QED BY <2>4, <3>1, <3>5, PageIsPrefix DEF ExportComplete
  <2>5. ASSUME NEW e \in Export!Entity \ late, event[e].state # "ABSENT",
               reading' = "done" \/ ~Export!Before(cursor', Export!KeyOf(e))
        PROVE  e \in IF event[e].state = "LIVE" THEN got' ELSE learned'
    <3>1. CASE e \in Export!Accepted
      BY <2>2, <3>1
    <3>2. CASE e \notin Export!Accepted
      <4>1. e \in IF event[e].state = "LIVE" THEN got ELSE learned
        BY <2>4, <2>5, <3>2 DEF ExportComplete, Export!ExportComplete
      <4> QED BY <2>3, <4>1
    <3> QED BY <3>1, <3>2
  <2>6. Export!ExportComplete'
    BY <1>1, <2>5 DEF Export!ExportComplete, Export!KeyOf, Export!PlaceOf, Export!SortType
  <2> QED BY <2>1, <2>6 DEF ExportComplete
<1> QED BY <1>2, <1>3 DEF Export!Ask

\* Where rows change, who was behind the cursor was there before, or is late.
LEMMA ChangeExports ==
  ASSUME ExportComplete, reading = "on", NEW new, Export!Change(new),
         new \in [Export!Entity -> EventRecords],
         \A e \in Export!Entity : event[e].state = "DELETED" => new[e] = event[e]
  PROVE  ExportComplete'
<1>1. /\ event' = new /\ late' = late \cup Export!Behind(new)
      /\ UNCHANGED <<clock, cursor, got, learned, reading>>
  BY DEF Export!Change
<1>2. Export!TypeOK'
  <2>1. late' \subseteq Export!Entity
    BY <1>1 DEF ExportComplete, Export!TypeOK, Export!Behind
  <2>2. \A e \in learned : new[e].state = "DELETED"
    BY DEF ExportComplete, Export!TypeOK
  <2> QED BY <1>1, <2>1, <2>2 DEF ExportComplete, Export!TypeOK, EventRecords
<1>3. ASSUME NEW e \in Export!Entity \ late', event'[e].state # "ABSENT",
             ~Export!Before(cursor', Export!KeyOf(e)')
      PROVE  e \in IF event'[e].state = "LIVE" THEN got' ELSE learned'
  <2>1. Export!KeyOf(e)' = Export!PlaceOf(new[e], e)
    BY <1>1 DEF Export!KeyOf
  <2>2. new[e] = event[e]
    BY <1>1, <1>3, <2>1 DEF Export!Behind
  <2>3. Export!KeyOf(e)' = Export!KeyOf(e)
    BY <2>1, <2>2 DEF Export!KeyOf
  <2> QED BY <1>1, <1>3, <2>2, <2>3 DEF ExportComplete, Export!ExportComplete
<1>4. Export!ExportComplete'
  BY <1>1, <1>3 DEF Export!ExportComplete
<1> QED BY <1>2, <1>4 DEF ExportComplete

LEMMA NextExports == ASSUME ExportComplete, [Export!Next]_Export!vars PROVE ExportComplete'
<1>1. CASE UNCHANGED Export!vars
  BY <1>1 DEF Export!vars, ExportComplete, Export!TypeOK, Export!ExportComplete, Export!KeyOf,
     Export!PlaceOf, Export!SortType
<1>2. CASE Export!Tick
  BY <1>2 DEF Export!Tick, ExportComplete, Export!TypeOK, Export!ExportComplete, Export!KeyOf,
     Export!PlaceOf, Export!SortType
<1>3. CASE Export!DeleteAll
  <2> DEFINE new == [e \in Export!Entity |-> IF event[e].state = "LIVE"
                                             THEN Export!Tombstone ELSE event[e]]
  <2>1. reading = "on" /\ Export!Change(new)
    BY <1>3 DEF Export!DeleteAll
  <2>2. ASSUME NEW e \in Export!Entity
        PROVE  /\ new[e] \in EventRecords
               /\ event[e].state = "DELETED" => new[e] = event[e]
    BY DEF ExportComplete, Export!TypeOK, EventRecords, Export!Tombstone
  <2>3. new \in [Export!Entity -> EventRecords]
    BY <2>2
  <2> HIDE DEF new
  <2> QED BY <2>1, <2>2, <2>3, ChangeExports
<1>4. CASE \E e \in Export!Entity, t \in Times, bytes \in {Small, Large} :
             Export!Ingest(e, t, bytes)
  <2>1. PICK e \in Export!Entity, t \in Times, bytes \in {Small, Large} : Export!Ingest(e, t, bytes)
    BY <1>4
  <2> DEFINE new == [event EXCEPT ![e] = [state |-> "LIVE", at |-> t, bytes |-> bytes]]
  <2>2. reading = "on" /\ Export!Change(new) /\ event[e].state = "ABSENT"
    BY <2>1 DEF Export!Ingest
  <2>3. new \in [Export!Entity -> EventRecords]
    BY DEF ExportComplete, Export!TypeOK, EventRecords
  <2>4. \A d \in Export!Entity : event[d].state = "DELETED" => new[d] = event[d]
    BY <2>2 DEF ExportComplete, Export!TypeOK
  <2> HIDE DEF new
  <2> QED BY <2>2, <2>3, <2>4, ChangeExports
<1>5. CASE \E e \in Export!Entity : Export!Expire(e)
  <2>1. PICK e \in Export!Entity : Export!Expire(e)
    BY <1>5
  <2> DEFINE new == [event EXCEPT ![e] = Export!Tombstone]
  <2>2. reading = "on" /\ Export!Change(new) /\ event[e].state = "LIVE"
    BY <2>1 DEF Export!Expire
  <2>3. new \in [Export!Entity -> EventRecords]
    BY DEF ExportComplete, Export!TypeOK, EventRecords, Export!Tombstone
  <2>4. \A d \in Export!Entity : event[d].state = "DELETED" => new[d] = event[d]
    BY <2>2 DEF ExportComplete, Export!TypeOK
  <2> HIDE DEF new
  <2> QED BY <2>2, <2>3, <2>4, ChangeExports
<1> QED BY <1>1, <1>2, <1>3, <1>4, <1>5, AskExports DEF Export!Next

LEMMA InitExports == Export!Init => ExportComplete
<1> SUFFICES ASSUME Export!Init PROVE ExportComplete
  OBVIOUS
<1>1. Export!TypeOK
  <2>1. Export!Bottom \in ({0} \cup Times) \X (0 .. 2) \X (0 .. MaxEvents)
    BY ExportConstants DEF Export!Bottom
  <2> QED BY <2>1 DEF Export!Init, Export!TypeOK, Export!Absent
<1>2. Export!ExportComplete
  BY DEF Export!Init, Export!ExportComplete, Export!Absent
<1> QED BY <1>1, <1>2 DEF ExportComplete

\* Who follows the cursor to the end has every event there is and the tombstone
\* of every one that is gone, whatever the limits of a page are, and whatever
\* arrives and is deleted between pages, unless it took its place behind the
\* cursor.
THEOREM ExportsComplete == Export!Spec => []ExportComplete
BY InitExports, NextExports, PTL DEF Export!Spec, ExportComplete

-----------------------------------------------------------------------------
(* The conversion of an older schema (DiagnosticsMigration).               *)

\* What the variables of DiagnosticsMigration hold.
OldRows == [state: {"LEGACY", "MIGRATING", "READY"}, handle: Migration!Draw,
            alias: Migration!Draw \cup {-1}, deleted: BOOLEAN, path: Migration!Draw \cup {-1},
            from: Migration!Draw \cup {-1}]
Starts == [step: Migration!Steps, todo: SUBSET (Migration!Slip \cup Migration!Path),
           on: Migration!Slip \cup {Migration!Idle}, force: BOOLEAN]
OldContents == {"none", "raw", "redacted"}

UpgradeTyped ==
  /\ version \in {4, 5} /\ consents \in [nameless: BOOLEAN, unnamed: BOOLEAN]
  /\ drawn \in Migration!Draw /\ mishaps \in 0 .. MaxMishaps
  /\ entry \in [OldBundle -> OldRows]
  /\ stone \in [names: [OldBundle -> Migration!Draw \cup {-1}], plain: BOOLEAN]
  /\ disk \in [Migration!Path -> OldContents] /\ slip \in [Migration!Slip -> Migration!Status]
  /\ start \in Starts

\* A row is as the old schema left it, or has been converted: then it has a
\* handle of its own, and a path if it is live.
RowTrue(b) ==
  /\ entry[b].state = "LEGACY" =>
       /\ entry[b].handle = 0 /\ entry[b].path = 0 /\ entry[b].alias = -1 /\ entry[b].from = -1
       /\ stone.plain
  /\ entry[b].state # "LEGACY" =>
       /\ entry[b].handle > 0 /\ entry[b].path = (IF entry[b].deleted THEN -1 ELSE entry[b].handle)
       /\ ~consents.nameless => ~consents.unnamed
  /\ entry[b].handle <= drawn
  /\ entry[b].deleted => stone.names[b] = entry[b].handle \/ (consents.nameless /\ ~stone.plain)
  /\ ~consents.nameless => entry[b].alias \in {-1, 0}
  /\ entry[b].state = "READY" \/ (entry[b].state = "MIGRATING" /\ entry[b].from # 0) =>
       disk[<<b, 0>>] # "raw"
  /\ ~entry[b].deleted =>
       disk[<<b, entry[b].path>>] = IF entry[b].path = 0 THEN "raw" ELSE "redacted"

\* All rows are converted in one transaction.
AllAtOnce ==
  \/ \A b \in OldBundle : entry[b].state = "LEGACY"
  \/ \A b \in OldBundle : entry[b].state # "LEGACY"

\* A file no row names is on record; what is to be cleaned up is no row's.
FileTrue(b, k) ==
  /\ disk[<<b, k>>] # "none" /\ entry[b].path # k =>
       slip[<<"stage", <<b, k>>>>] # "NONE" \/ slip[<<"cleanup", <<b, k>>>>] # "NONE"
  /\ slip[<<"cleanup", <<b, k>>>>] # "NONE" => entry[b].path # k /\ k < drawn
  /\ k = 0 => slip[<<"stage", <<b, k>>>>] = "NONE"

\* New files are written for the rows there are, under handles not used before.
Staging ==
  /\ start.todo \subseteq {<<b, drawn>> : b \in Migration!LiveBundles}
  /\ drawn > 0
  /\ \A b \in OldBundle : entry[b].path < drawn
  /\ \A b \in Migration!LiveBundles :
       /\ slip[<<"stage", <<b, drawn>>>>] # "NONE"
       /\ <<b, drawn>> \notin start.todo => disk[<<b, drawn>>] = "redacted"
  /\ \/ \A b \in OldBundle : entry[b].state = "LEGACY"
     \/ consents.nameless /\ \A b \in OldBundle : entry[b].state = "READY"

StartTrue ==
  /\ start.on # Migration!Idle => start.step \in Migration!Recovering /\ slip[start.on] = "CLAIMED"
  /\ start.step \in Migration!Recovering => start.todo \subseteq Migration!Slip
  /\ start.step = "staging" => Staging
  /\ start.step \in {"settling", "finishing", "marking"} =>
       \A b \in OldBundle : entry[b].state # "LEGACY"
  /\ version = 5 => /\ start.step \in {"up", "down"}
                    /\ \A s \in Migration!Slip : slip[s] = "NONE"
                    /\ \A b \in OldBundle : entry[b].state = "READY"

UpgradeInv ==
  /\ UpgradeTyped /\ AllAtOnce /\ StartTrue
  /\ \A b \in OldBundle : RowTrue(b)
  /\ \A b \in OldBundle, k \in Migration!Draw : FileTrue(b, k)

LEMMA OwnersAre ==
  ASSUME NEW b \in OldBundle, NEW k \in Migration!Draw
  PROVE  Migration!Owners(<<b, k>>) = {} <=> entry[b].path # k
BY DEF Migration!Owners

LEMMA InitUpgrade == Migration!MigrationInit => UpgradeInv
<1> SUFFICES ASSUME Migration!MigrationInit PROVE UpgradeInv
  OBVIOUS
<1>1. 0 \in Migration!Draw /\ 0 \in 0 .. MaxMishaps
  BY UpgradeConstants DEF Migration!Draw
<1>2. entry \in [OldBundle -> OldRows]
  <2>1. \A d \in BOOLEAN : [state |-> "LEGACY", handle |-> 0, alias |-> -1, deleted |-> d,
                            path |-> 0, from |-> -1] \in OldRows
    BY <1>1 DEF OldRows
  <2> QED BY <2>1 DEF Migration!MigrationInit
<1>3. start \in Starts
  BY DEF Migration!MigrationInit, Migration!Gone, Starts, Migration!Steps
<1>4. UpgradeTyped
  BY <1>1, <1>2, <1>3 DEF Migration!MigrationInit, UpgradeTyped, OldContents, Migration!Status
<1>5. ASSUME NEW b \in OldBundle
      PROVE  /\ entry[b].state = "LEGACY" /\ entry[b].handle = 0 /\ entry[b].path = 0
             /\ entry[b].alias = -1 /\ entry[b].from = -1
  BY DEF Migration!MigrationInit
<1>6. ASSUME NEW b \in OldBundle PROVE RowTrue(b)
  BY <1>5 DEF RowTrue, Migration!MigrationInit
<1>7. ASSUME NEW b \in OldBundle, NEW k \in Migration!Draw PROVE FileTrue(b, k)
  <2>1. k # 0 => disk[<<b, k>>] = "none"
    BY DEF Migration!MigrationInit, Migration!Path, Migration!Draw
  <2> QED BY <1>5, <2>1 DEF Migration!MigrationInit, FileTrue, Migration!Slip, Migration!Path,
             Migration!Operation
<1>8. AllAtOnce /\ StartTrue
  BY <1>5 DEF AllAtOnce, StartTrue, Migration!MigrationInit, Migration!Gone, Migration!Recovering
<1> QED BY <1>4, <1>6, <1>7, <1>8 DEF UpgradeInv

\* Nothing but the start, and the status of receipts that stay on record.
LEMMA RecordsStay ==
  ASSUME UpgradeInv, UNCHANGED <<entry, stone, consents, disk, drawn>>,
         \A s \in Migration!Slip : slip'[s] # "NONE" <=> slip[s] # "NONE"
  PROVE  /\ AllAtOnce' /\ \A b \in OldBundle : RowTrue(b)'
         /\ \A b \in OldBundle, k \in Migration!Draw : FileTrue(b, k)'
         /\ Staging /\ start'.todo = start.todo => Staging'
<1>1. \A b \in OldBundle : RowTrue(b)'
  BY DEF UpgradeInv, RowTrue
<1>2. ASSUME NEW b \in OldBundle, NEW k \in Migration!Draw PROVE FileTrue(b, k)'
  <2>1. <<"stage", <<b, k>>>> \in Migration!Slip /\ <<"cleanup", <<b, k>>>> \in Migration!Slip
    BY DEF Migration!Slip, Migration!Operation, Migration!Path
  <2> QED BY <2>1 DEF UpgradeInv, FileTrue
<1>3. AllAtOnce'
  BY DEF UpgradeInv, AllAtOnce
<1>4. ASSUME Staging, start'.todo = start.todo PROVE Staging'
  <2>1. \A b \in OldBundle : <<"stage", <<b, drawn>>>> \in Migration!Slip
    BY DEF Migration!Slip, Migration!Operation, Migration!Path, UpgradeInv, UpgradeTyped
  <2> QED BY <1>4, <2>1 DEF Staging, Migration!LiveBundles
<1> QED BY <1>1, <1>2, <1>3, <1>4

LEMMA UpgradeKnows ==
  ASSUME UpgradeInv
  PROVE  /\ start \in Starts /\ slip \in [Migration!Slip -> Migration!Status]
         /\ disk \in [Migration!Path -> OldContents]
         /\ entry \in [OldBundle -> OldRows] /\ mishaps \in 0 .. MaxMishaps /\ version \in {4, 5}
         /\ drawn \in Nat /\ drawn \in Migration!Draw
         /\ \A b \in OldBundle : entry[b] \in OldRows /\ RowTrue(b) /\ entry[b].path < drawn + 1
BY UpgradeConstants DEF UpgradeInv, UpgradeTyped, Migration!Draw, OldRows, RowTrue

LEMMA MishapIs == ASSUME UpgradeInv, Migration!Mishap PROVE mishaps' \in 0 .. MaxMishaps
BY UpgradeConstants DEF UpgradeInv, UpgradeTyped, Migration!Mishap

\* Only the start goes on.
LEMMA StartMoves ==
  ASSUME UpgradeInv, UNCHANGED <<entry, stone, consents, disk, slip, drawn>>,
         mishaps' \in 0 .. MaxMishaps, version' \in {4, 5}, start' \in Starts,
         start'.on = Migration!Idle, start'.step # "staging",
         start'.step \in Migration!Recovering => start'.todo \subseteq Migration!Slip,
         start'.step \in {"settling", "finishing", "marking"} =>
           \A b \in OldBundle : entry[b].state # "LEGACY",
         version' = 5 => /\ start'.step \in {"up", "down"}
                         /\ \A s \in Migration!Slip : slip[s] = "NONE"
                         /\ \A b \in OldBundle : entry[b].state = "READY"
  PROVE  UpgradeInv'
<1>1. UpgradeTyped'
  BY DEF UpgradeInv, UpgradeTyped
<1>2. StartTrue'
  BY DEF StartTrue, Migration!Recovering
<1> QED BY <1>1, <1>2, RecordsStay DEF UpgradeInv

LEMMA OldMarker == ASSUME UpgradeInv, start.step \notin {"up", "down"} PROVE version = 4
BY UpgradeKnows DEF UpgradeInv, StartTrue

LEMMA GoneIs == Migration!Gone \in Starts /\ Migration!Gone.on = Migration!Idle
                /\ Migration!Gone.step = "down"
BY DEF Migration!Gone, Starts, Migration!Steps

LEMMA RecoveredUpgrade == ASSUME UpgradeInv, Migration!Recovered PROVE UpgradeInv'
<1>1. start \in Starts /\ start.on = Migration!Idle /\ start.todo = {}
      /\ start.step \in Migration!Recovering /\ version = 4
  BY UpgradeKnows, OldMarker DEF Migration!Recovered, Migration!Recovering
<1>2. start' \in Starts /\ start'.on = Migration!Idle
      /\ start'.step \in {"deciding", "finishing", "up", "down"}
  BY <1>1, GoneIs DEF Migration!Recovered, Starts, Migration!Steps, Migration!Recovering,
     Migration!At
<1>3. UNCHANGED <<version, entry, stone, consents, disk, slip, drawn, mishaps>>
  BY DEF Migration!Recovered
<1>4. start'.step \notin Migration!Recovering /\ start'.step # "staging" /\ version' = 4
  BY <1>1, <1>2, <1>3 DEF Migration!Recovering
<1>5. mishaps' \in 0 .. MaxMishaps /\ version' \in {4, 5}
  BY <1>3, UpgradeKnows
<1>6. start'.step = "finishing" => start.step = "settling"
  BY <1>1 DEF Migration!Recovered, Migration!Recovering, Migration!At, Migration!Gone, Starts
<1>7. start'.step \in {"settling", "finishing", "marking"} =>
        \A b \in OldBundle : entry[b].state # "LEGACY"
  BY <1>2, <1>6 DEF UpgradeInv, StartTrue
<1> QED BY <1>2, <1>3, <1>4, <1>5, <1>7, StartMoves

LEMMA OpenUpgrade == ASSUME UpgradeInv, Migration!Open PROVE UpgradeInv'
<1>1. Migration!Unfinished \subseteq Migration!Slip
  BY DEF Migration!Unfinished
<1>2. start' \in Starts /\ start'.on = Migration!Idle /\ start'.step = "recovering"
      /\ start'.todo = Migration!Unfinished
  BY <1>1, UpgradeKnows DEF Migration!Open, Starts, Migration!Steps
<1> QED BY <1>1, <1>2, UpgradeKnows, StartMoves DEF Migration!Open

LEMMA FinishesUpgrade == ASSUME UpgradeInv, Migration!Finishes PROVE UpgradeInv'
<1>1. start \in Starts /\ start.step = "deciding" /\ start.on = Migration!Idle /\ version = 4
  BY UpgradeKnows, OldMarker DEF Migration!Finishes, Migration!At, UpgradeInv, StartTrue,
     Migration!Recovering
<1>2. start' \in Starts /\ start'.on = Migration!Idle /\ start'.step = "finishing"
  BY <1>1 DEF Migration!Finishes, Starts, Migration!Steps
<1>3. \A b \in OldBundle : entry[b].state # "LEGACY"
  BY DEF Migration!Finishes, Migration!Reprojects, Migration!Migrating, Migration!Old,
     UpgradeInv, AllAtOnce
<1> QED BY <1>1, <1>2, <1>3, UpgradeKnows, StartMoves DEF Migration!Finishes, Migration!Recovering

LEMMA StagingFailsUpgrade == ASSUME UpgradeInv, Migration!StagingFails PROVE UpgradeInv'
<1>1. start \in Starts /\ start.step = "staging" /\ start.on = Migration!Idle /\ version = 4
  BY UpgradeKnows, OldMarker DEF Migration!StagingFails, Migration!At, UpgradeInv, StartTrue,
     Migration!Recovering
<1> DEFINE todo == {<<"stage", <<b, drawn>>>> : b \in Migration!LiveBundles}
<1>2. todo \subseteq Migration!Slip
  BY UpgradeKnows DEF Migration!Slip, Migration!Path, Migration!Operation, Migration!LiveBundles
<1>3. start' = [start EXCEPT !.step = "undoing", !.todo = todo]
  BY DEF Migration!StagingFails
<1> HIDE DEF todo
<1>4. start' \in Starts /\ start'.on = Migration!Idle /\ start'.step = "undoing"
      /\ start'.todo = todo
  BY <1>1, <1>2, <1>3 DEF Starts, Migration!Steps
<1> QED BY <1>1, <1>2, <1>4, UpgradeKnows, MishapIs, StartMoves DEF Migration!StagingFails

LEMMA MarkUpgrade == ASSUME UpgradeInv, Migration!Mark PROVE UpgradeInv'
<1>1. start' \in Starts /\ start'.on = Migration!Idle /\ start'.step = "up"
  BY DEF Migration!Mark, Migration!Gone, Starts, Migration!Steps
<1>2. version' \in {4, 5}
  BY DEF Migration!Mark
<1>3. ASSUME version' = 5
      PROVE  /\ \A s \in Migration!Slip : slip[s] = "NONE"
             /\ \A b \in OldBundle : entry[b].state = "READY"
  <2>1. ~Migration!Old /\ Migration!Unfinished = {}
    BY <1>3 DEF Migration!Mark, Migration!Done
  <2> QED BY <2>1 DEF Migration!Old, Migration!Unfinished, Migration!Pending, Migration!Live
<1>4. /\ UNCHANGED <<entry, consents, disk, slip, drawn, mishaps>>
      /\ stone' = [stone EXCEPT !.plain = FALSE]
      /\ \A b \in OldBundle : entry[b].state # "LEGACY"
  BY DEF Migration!Mark, Migration!At, UpgradeInv, StartTrue
<1>5. stone' \in [names: [OldBundle -> Migration!Draw \cup {-1}], plain: BOOLEAN]
      /\ stone'.names = stone.names /\ stone'.plain = FALSE
  BY <1>4 DEF UpgradeInv, UpgradeTyped
<1>6. UpgradeTyped'
  BY <1>1, <1>2, <1>4, <1>5 DEF UpgradeInv, UpgradeTyped
<1>7. StartTrue'
  BY <1>1, <1>3, <1>4 DEF StartTrue, Migration!Recovering
<1>8. ASSUME NEW b \in OldBundle PROVE RowTrue(b)'
  BY <1>4, <1>5 DEF UpgradeInv, RowTrue
<1>9. \A b \in OldBundle, k \in Migration!Draw : FileTrue(b, k)'
  BY <1>4 DEF UpgradeInv, FileTrue
<1>10. AllAtOnce'
  BY <1>4 DEF AllAtOnce
<1> QED BY <1>6, <1>7, <1>8, <1>9, <1>10 DEF UpgradeInv

LEMMA SweepUpgrade == ASSUME UpgradeInv, Migration!Sweep PROVE UpgradeInv'
<1>1. Migration!Unfinished \subseteq Migration!Slip
  BY DEF Migration!Unfinished
<1>2. start \in Starts /\ start.step = "up" /\ start.on = Migration!Idle
  BY UpgradeKnows DEF Migration!Sweep, Migration!At, UpgradeInv, StartTrue, Migration!Recovering
<1>3. start' \in Starts /\ start'.on = Migration!Idle /\ start'.step = "sweeping"
      /\ start'.todo = Migration!Unfinished
  BY <1>1, <1>2 DEF Migration!Sweep, Starts, Migration!Steps
<1>4. version # 5
  BY DEF Migration!Sweep, UpgradeInv, StartTrue, Migration!Unfinished, Migration!Pending,
     Migration!Live
<1> QED BY <1>1, <1>3, <1>4, UpgradeKnows, StartMoves DEF Migration!Sweep

LEMMA StopUpgrade == ASSUME UpgradeInv, Migration!Stop PROVE UpgradeInv'
<1>1. version = 5 => /\ \A s \in Migration!Slip : slip[s] = "NONE"
                     /\ \A b \in OldBundle : entry[b].state = "READY"
  BY DEF UpgradeInv, StartTrue
<1> QED BY <1>1, GoneIs, UpgradeKnows, StartMoves DEF Migration!Stop, Migration!Recovering

LEMMA DieUpgrade == ASSUME UpgradeInv, Migration!Die PROVE UpgradeInv'
<1>1. version = 4
  BY OldMarker DEF Migration!Die
<1> QED BY <1>1, GoneIs, UpgradeKnows, MishapIs, StartMoves DEF Migration!Die,
           Migration!Recovering

\* A receipt that stays on record changes its status.
LEMMA StatusMoves ==
  ASSUME UpgradeInv, UNCHANGED <<version, entry, stone, consents, disk, drawn>>,
         NEW s \in Migration!Slip, slip[s] # "NONE", NEW st \in Migration!Status, st # "NONE",
         slip' = [slip EXCEPT ![s] = st], mishaps' \in 0 .. MaxMishaps, start' \in Starts,
         start'.step = start.step,
         start.step \in Migration!Recovering => start'.todo \subseteq Migration!Slip,
         start.step = "staging" => start'.todo = start.todo,
         start'.on # Migration!Idle =>
            start.step \in Migration!Recovering /\ slip'[start'.on] = "CLAIMED"
  PROVE  UpgradeInv'
<1>1. version = 4
  BY UpgradeKnows DEF UpgradeInv, StartTrue
<1>2. \A z \in Migration!Slip : slip'[z] # "NONE" <=> slip[z] # "NONE"
  BY UpgradeKnows
<1>3. UpgradeTyped'
  BY UpgradeKnows DEF UpgradeInv, UpgradeTyped
<1>4. StartTrue'
  BY <1>1, <1>2, RecordsStay DEF UpgradeInv, StartTrue
<1> QED BY <1>2, <1>3, <1>4, RecordsStay DEF UpgradeInv

LEMMA ClaimUpgrade == ASSUME UpgradeInv, Migration!Claim PROVE UpgradeInv'
<1>1. start \in Starts /\ start.step \in Migration!Recovering /\ start.on = Migration!Idle
      /\ start.todo \subseteq Migration!Slip /\ version = 4
  BY UpgradeKnows, OldMarker DEF Migration!Claim, UpgradeInv, StartTrue, Migration!Recovering
<1>2. PICK s \in start.todo :
        IF Migration!Claimable(slip[s])
        THEN /\ slip' = [slip EXCEPT ![s] = "CLAIMED"]
             /\ start' = [start EXCEPT !.todo = @ \ {s}, !.on = s]
        ELSE start' = [start EXCEPT !.todo = @ \ {s}] /\ UNCHANGED slip
  BY DEF Migration!Claim
<1>3. CASE Migration!Claimable(slip[s])
  <2>1. /\ start' \in Starts /\ start'.step = start.step /\ start'.todo \subseteq Migration!Slip
        /\ start'.on = s
    <3>1. start' = [start EXCEPT !.todo = @ \ {s}, !.on = s]
      BY <1>2, <1>3
    <3>2. start.todo \ {s} \in SUBSET (Migration!Slip \cup Migration!Path)
          /\ s \in Migration!Slip \cup {Migration!Idle}
      BY <1>1
    <3> QED BY <1>1, <3>1, <3>2 DEF Starts
  <2>2. slip[s] # "NONE" /\ slip' = [slip EXCEPT ![s] = "CLAIMED"]
    BY <1>2, <1>3 DEF Migration!Claimable
  <2>3. slip'[s] = "CLAIMED"
    BY <1>1, <2>2, UpgradeKnows
  <2>4. s \in Migration!Slip /\ "CLAIMED" \in Migration!Status
    BY <1>1 DEF Migration!Status
  <2> QED BY <1>1, <2>1, <2>2, <2>3, <2>4, UpgradeKnows, StatusMoves DEF Migration!Claim,
             Migration!Recovering
<1>4. CASE ~Migration!Claimable(slip[s])
  <2>1. /\ start' \in Starts /\ start'.step = start.step /\ start'.todo \subseteq Migration!Slip
        /\ start'.on = Migration!Idle /\ slip' = slip
    BY <1>1, <1>2, <1>4 DEF Starts
  <2>2. start'.step \in {"settling", "finishing", "marking"} =>
          \A b \in OldBundle : entry[b].state # "LEGACY"
    BY <2>1 DEF UpgradeInv, StartTrue
  <2> QED BY <1>1, <2>1, <2>2, UpgradeKnows, StartMoves DEF Migration!Claim, Migration!Recovering
<1> QED BY <1>3, <1>4

\* The receipt at hand.
LEMMA AtHand ==
  ASSUME UpgradeInv, start.on # Migration!Idle
  PROVE  /\ start \in Starts /\ start.on \in Migration!Slip /\ start.step \in Migration!Recovering
         /\ slip[start.on] = "CLAIMED" /\ start.todo \subseteq Migration!Slip /\ version = 4
         /\ [start EXCEPT !.on = Migration!Idle] \in Starts
<1>1. start \in Starts /\ start.on \in Migration!Slip /\ start.step \in Migration!Recovering
      /\ slip[start.on] = "CLAIMED" /\ start.todo \subseteq Migration!Slip
  BY UpgradeKnows DEF UpgradeInv, StartTrue, Starts
<1>2. version = 4
  BY <1>1, OldMarker DEF Migration!Recovering
<1> QED BY <1>1, <1>2 DEF Starts

LEMMA InspectionFailsUpgrade == ASSUME UpgradeInv, Migration!InspectionFails PROVE UpgradeInv'
<1>1. start.on # Migration!Idle /\ start' = [start EXCEPT !.on = Migration!Idle]
      /\ slip' = [slip EXCEPT ![start.on] = "PENDING"]
  BY DEF Migration!InspectionFails
<1>2. start'.step = start.step /\ start'.todo = start.todo /\ start'.on = Migration!Idle
  BY <1>1, AtHand DEF Starts
<1>3. "PENDING" \in Migration!Status
  BY DEF Migration!Status
<1>4. /\ UNCHANGED <<version, entry, stone, consents, disk, drawn>>
      /\ mishaps' \in 0 .. MaxMishaps
  BY MishapIs DEF Migration!InspectionFails
<1>5. /\ start.on \in Migration!Slip /\ slip[start.on] # "NONE"
      /\ start.step \in Migration!Recovering
      /\ start.todo \subseteq Migration!Slip /\ start' \in Starts
  BY <1>1, AtHand
<1>6. start.step # "staging"
  BY <1>5 DEF Migration!Recovering
<1> QED BY <1>1, <1>2, <1>3, <1>4, <1>5, <1>6, StatusMoves

LEMMA LeaseRunsOutUpgrade ==
  ASSUME UpgradeInv, NEW s \in Migration!Slip, Migration!LeaseRunsOut(s) PROVE UpgradeInv'
<1>1. slip[s] = "CLAIMED" /\ start.on # s /\ slip' = [slip EXCEPT ![s] = "BLOCKED"]
      /\ start' = start /\ mishaps' = mishaps
  BY DEF Migration!LeaseRunsOut
<1>2. "BLOCKED" \in Migration!Status
  BY DEF Migration!Status
<1>3. start.on # Migration!Idle => slip'[start.on] = "CLAIMED"
  BY <1>1, AtHand, UpgradeKnows
<1>4. start.step \in Migration!Recovering => start.todo \subseteq Migration!Slip
  BY DEF UpgradeInv, StartTrue
<1>5. /\ UNCHANGED <<version, entry, stone, consents, disk, drawn>> /\ start \in Starts
      /\ mishaps' \in 0 .. MaxMishaps
  BY <1>1, UpgradeKnows DEF Migration!LeaseRunsOut
<1>6. start'.on # Migration!Idle =>
            start.step \in Migration!Recovering /\ slip'[start'.on] = "CLAIMED"
  BY <1>1, <1>3, AtHand
<1> QED BY <1>1, <1>2, <1>4, <1>5, <1>6, StatusMoves

LEMMA SlipIs ==
  ASSUME NEW s \in Migration!Slip
  PROVE  \E o \in Migration!Operation, b \in OldBundle, k \in Migration!Draw : s = <<o, <<b, k>>>>
BY DEF Migration!Slip, Migration!Path

LEMMA SlipOf ==
  ASSUME NEW b \in OldBundle, NEW k \in Migration!Draw
  PROVE  <<"stage", <<b, k>>>> \in Migration!Slip /\ <<"cleanup", <<b, k>>>> \in Migration!Slip
         /\ <<b, k>> \in Migration!Path
BY DEF Migration!Slip, Migration!Path, Migration!Operation

\* What recovery completes names no stray file.
LEMMA CompletedIs ==
  ASSUME UpgradeInv, start.on # Migration!Idle, Migration!Judgement(start.on) = "complete",
         NEW b \in OldBundle, NEW k \in Migration!Draw, start.on[2] = <<b, k>>
  PROVE  disk[<<b, k>>] = "none" \/ entry[b].path = k
<1>1. start.on \in Migration!Slip
  BY AtHand
<1>2. CASE Migration!Referred(start.on) = "owned"
  BY <1>2, OwnersAre DEF Migration!Referred
<1>3. CASE Migration!Referred(start.on) = "unowned"
  BY <1>3 DEF Migration!Judgement, Migration!Verdict
<1> QED BY <1>2, <1>3 DEF Migration!Referred

LEMMA CompleteUpgrade ==
  ASSUME UpgradeInv, Migration!Inspect, Migration!Judgement(start.on) = "complete" PROVE UpgradeInv'
<1>1. /\ start.on # Migration!Idle /\ slip' = [slip EXCEPT ![start.on] = "NONE"]
      /\ start' = [start EXCEPT !.on = Migration!Idle]
      /\ UNCHANGED <<version, entry, stone, consents, disk, drawn, mishaps>>
  BY DEF Migration!Inspect
<1>2. start' \in Starts /\ start'.on = Migration!Idle /\ start'.step = start.step
      /\ start'.todo = start.todo
  BY <1>1, AtHand DEF Starts
<1>3. slip' \in [Migration!Slip -> Migration!Status] /\ \A s \in Migration!Slip :
           slip'[s] = IF s = start.on THEN "NONE" ELSE slip[s]
  BY <1>1, AtHand, UpgradeKnows DEF Migration!Status
<1>4. UpgradeTyped'
  BY <1>1, <1>2, <1>3 DEF UpgradeInv, UpgradeTyped
<1>5. StartTrue'
  <2>1. start'.step \in {"settling", "finishing", "marking"} =>
          \A b \in OldBundle : entry'[b].state # "LEGACY"
    BY <1>1, <1>2 DEF UpgradeInv, StartTrue
  <2> QED BY <1>1, <1>2, <2>1, AtHand DEF StartTrue, Migration!Recovering
<1>6. AllAtOnce' /\ \A b \in OldBundle : RowTrue(b)'
  BY <1>1 DEF UpgradeInv, AllAtOnce, RowTrue
<1>7. ASSUME NEW b \in OldBundle, NEW k \in Migration!Draw PROVE FileTrue(b, k)'
  <2>1. FileTrue(b, k)
    BY DEF UpgradeInv
  <2>2. CASE start.on[2] = <<b, k>>
    <3>1. disk[<<b, k>>] = "none" \/ entry[b].path = k
      BY <1>1, <2>2, CompletedIs
    <3>2. slip'[<<"stage", <<b, k>>>>] \in {"NONE", slip[<<"stage", <<b, k>>>>]}
          /\ slip'[<<"cleanup", <<b, k>>>>] \in {"NONE", slip[<<"cleanup", <<b, k>>>>]}
      BY <1>3, SlipOf
    <3> QED BY <1>1, <2>1, <3>1, <3>2 DEF FileTrue
  <2>3. CASE start.on[2] # <<b, k>>
    <3>1. slip'[<<"stage", <<b, k>>>>] = slip[<<"stage", <<b, k>>>>]
          /\ slip'[<<"cleanup", <<b, k>>>>] = slip[<<"cleanup", <<b, k>>>>]
      BY <1>3, <2>3, SlipOf
    <3> QED BY <1>1, <2>1, <3>1 DEF FileTrue
  <2> QED BY <2>2, <2>3
<1> QED BY <1>4, <1>5, <1>6, <1>7 DEF UpgradeInv

LEMMA BlockUpgrade ==
  ASSUME UpgradeInv, Migration!Inspect, Migration!Judgement(start.on) = "block" PROVE UpgradeInv'
<1>1. /\ start.on # Migration!Idle /\ slip' = [slip EXCEPT ![start.on] = "BLOCKED"]
      /\ start' = [start EXCEPT !.on = Migration!Idle]
      /\ UNCHANGED <<version, entry, stone, consents, disk, drawn, mishaps>>
  BY DEF Migration!Inspect
<1>2. start'.step = start.step /\ start'.todo = start.todo /\ start'.on = Migration!Idle
  BY <1>1, AtHand DEF Starts
<1>3. "BLOCKED" \in Migration!Status
  BY DEF Migration!Status
<1> QED BY <1>1, <1>2, <1>3, AtHand, UpgradeKnows, StatusMoves

\* What recovery unlinks is no row's file.
LEMMA UnlinkedIs ==
  ASSUME UpgradeInv, start.on # Migration!Idle,
         Migration!Judgement(start.on) \notin {"complete", "block"},
         NEW b \in OldBundle, NEW k \in Migration!Draw, start.on[2] = <<b, k>>
  PROVE  entry[b].path # k
<1>1. start.on \in Migration!Slip /\ slip[start.on] = "CLAIMED"
  BY AtHand
<1>2. Migration!Referred(start.on) = "unowned"
  BY DEF Migration!Judgement, Migration!Verdict, Migration!Referred
<1>3. CASE start.on[1] = "stage"
  BY <1>2, <1>3, OwnersAre DEF Migration!Referred
<1>4. CASE start.on[1] = "cleanup"
  <2>1. start.on = <<"cleanup", <<b, k>>>>
    BY <1>1, <1>4 DEF Migration!Slip
  <2> QED BY <1>1, <2>1 DEF UpgradeInv, FileTrue
<1> QED BY <1>1, <1>3, <1>4 DEF Migration!Slip, Migration!Operation

LEMMA UnlinkUpgrade ==
  ASSUME UpgradeInv, Migration!Inspect,
         Migration!Judgement(start.on) \notin {"complete", "block"}
  PROVE  UpgradeInv'
<1>1. /\ start.on # Migration!Idle /\ disk' = [disk EXCEPT ![start.on[2]] = "none"]
      /\ UNCHANGED <<version, entry, stone, consents, slip, start, drawn, mishaps>>
  BY DEF Migration!Inspect
<1>2. PICK o \in Migration!Operation, b \in OldBundle, k \in Migration!Draw :
           start.on = <<o, <<b, k>>>>
  BY <1>1, AtHand, SlipIs
<1>3. entry[b].path # k
  BY <1>1, <1>2, UnlinkedIs
<1>4. disk' \in [Migration!Path -> OldContents]
      /\ \A p \in Migration!Path : disk'[p] = IF p = <<b, k>> THEN "none" ELSE disk[p]
  <2>1. disk' = [disk EXCEPT ![<<b, k>>] = "none"]
    BY <1>1, <1>2
  <2>2. disk \in [Migration!Path -> OldContents] /\ "none" \in OldContents
    BY UpgradeKnows DEF OldContents
  <2> QED BY <2>1, <2>2
<1>5. UpgradeTyped'
  BY <1>1, <1>4 DEF UpgradeInv, UpgradeTyped
<1>6. StartTrue'
  <2>1. start.step \in Migration!Recovering /\ version = 4 /\ slip[start.on] = "CLAIMED"
        /\ start.todo \subseteq Migration!Slip
    BY <1>1, AtHand
  <2>2. start'.step \in {"settling", "finishing", "marking"} =>
          \A a \in OldBundle : entry'[a].state # "LEGACY"
    BY <1>1 DEF UpgradeInv, StartTrue
  <2> QED BY <1>1, <2>1, <2>2 DEF StartTrue, Migration!Recovering
<1>7. AllAtOnce'
  BY <1>1 DEF UpgradeInv, AllAtOnce
<1>8. ASSUME NEW a \in OldBundle PROVE RowTrue(a)'
  <2>1. RowTrue(a) /\ entry[a] \in OldRows
    BY UpgradeKnows
  <2>2. <<a, 0>> \in Migration!Path /\ disk'[<<a, 0>>] \in {"none", disk[<<a, 0>>]}
    <3>1. 0 \in Migration!Draw
      BY UpgradeConstants DEF Migration!Draw
    <3> QED BY <1>4, <3>1, SlipOf
  <2>3. ~entry[a].deleted => entry[a].path \in Migration!Draw
    BY <2>1 DEF RowTrue, OldRows, Migration!Draw
  <2>4. ~entry[a].deleted => disk'[<<a, entry[a].path>>] = disk[<<a, entry[a].path>>]
    BY <1>3, <1>4, <2>3, SlipOf
  <2> QED BY <1>1, <2>1, <2>2, <2>4 DEF RowTrue
<1>9. ASSUME NEW a \in OldBundle, NEW j \in Migration!Draw PROVE FileTrue(a, j)'
  <2>1. FileTrue(a, j) /\ disk'[<<a, j>>] \in {"none", disk[<<a, j>>]}
    BY <1>4, SlipOf DEF UpgradeInv
  <2> QED BY <1>1, <2>1 DEF FileTrue
<1> QED BY <1>5, <1>6, <1>7, <1>8, <1>9 DEF UpgradeInv

LEMMA InspectUpgrade == ASSUME UpgradeInv, Migration!Inspect PROVE UpgradeInv'
BY CompleteUpgrade, BlockUpgrade, UnlinkUpgrade

\* Whoever converts the rows has legacy rows only, or ready ones of devices
\* that consented without an id.
LEMMA ConvertsAll ==
  ASSUME UpgradeInv, Migration!Reprojects
  PROVE  \/ \A b \in OldBundle : entry[b].state = "LEGACY"
         \/ consents.nameless /\ \A b \in OldBundle : entry[b].state = "READY"
<1>1. \A b \in OldBundle : entry[b].state \in {"LEGACY", "MIGRATING", "READY"}
                           /\ entry[b].state # "MIGRATING"
  BY UpgradeKnows DEF OldRows, Migration!Reprojects, Migration!Migrating
<1>2. CASE \E b \in OldBundle : entry[b].state # "READY"
  BY <1>1, <1>2 DEF UpgradeInv, AllAtOnce
<1>3. CASE \A b \in OldBundle : entry[b].state = "READY"
  <2>1. consents.unnamed
    BY <1>3 DEF Migration!Reprojects, Migration!Old
  <2>2. ASSUME NEW b \in OldBundle PROVE consents.nameless
    BY <1>3, <2>1, UpgradeKnows DEF RowTrue
  <2> QED BY <1>3, <2>2
<1> QED BY <1>2, <1>3

LEMMA StageUpgrade == ASSUME UpgradeInv, Migration!Stage PROVE UpgradeInv'
<1> DEFINE staged == {<<b, drawn + 1>> : b \in Migration!LiveBundles}
<1>1. /\ start.step = "deciding" /\ Migration!Reprojects /\ drawn < MaxDraws /\ drawn' = drawn + 1
      /\ slip' = Migration!Guarded(staged)
      /\ start' = [start EXCEPT !.step = "staging", !.todo = staged]
      /\ UNCHANGED <<version, entry, stone, consents, disk, mishaps>>
  BY DEF Migration!Stage, Migration!At
<1>2. drawn \in Nat /\ drawn + 1 \in Migration!Draw /\ drawn + 1 > 0
  BY <1>1, UpgradeKnows, UpgradeConstants DEF Migration!Draw
<1>3. staged \subseteq Migration!Path
  BY <1>2, SlipOf DEF Migration!LiveBundles
<1>4. start \in Starts /\ start.on = Migration!Idle /\ version = 4
  BY <1>1, UpgradeKnows, OldMarker DEF UpgradeInv, StartTrue, Migration!Recovering
<1>5. slip' \in [Migration!Slip -> Migration!Status]
      /\ \A s \in Migration!Slip :
           slip'[s] = IF s[1] = "stage" /\ s[2] \in staged THEN "PENDING" ELSE slip[s]
  BY <1>1, UpgradeKnows DEF Migration!Guarded, Migration!Prepared, Migration!Status
<1>6. \A b \in OldBundle, k \in Migration!Draw :
        <<b, k>> \in staged <=> ~entry[b].deleted /\ k = drawn + 1
  BY DEF Migration!LiveBundles
<1> HIDE DEF staged
<1>7. start' \in Starts /\ start'.on = Migration!Idle /\ start'.step = "staging"
      /\ start'.todo = staged
  BY <1>1, <1>3, <1>4 DEF Starts, Migration!Steps
<1>8. UpgradeTyped'
  BY <1>1, <1>2, <1>5, <1>7 DEF UpgradeInv, UpgradeTyped
<1>9. ASSUME NEW b \in OldBundle PROVE RowTrue(b)'
  <2>1. RowTrue(b) /\ entry[b].handle \in Nat
    BY UpgradeKnows DEF OldRows, Migration!Draw
  <2> QED BY <1>1, <1>2, <2>1 DEF RowTrue
<1>10. ASSUME NEW b \in OldBundle, NEW k \in Migration!Draw PROVE FileTrue(b, k)'
  <2>1. FileTrue(b, k)
    BY DEF UpgradeInv
  <2>2. slip'[<<"cleanup", <<b, k>>>>] = slip[<<"cleanup", <<b, k>>>>]
    BY <1>5, SlipOf
  <2>3. slip'[<<"stage", <<b, k>>>>] =
          IF <<b, k>> \in staged THEN "PENDING" ELSE slip[<<"stage", <<b, k>>>>]
    BY <1>5, SlipOf
  <2>4. k = 0 => <<b, k>> \notin staged
    BY <1>2, <1>6
  <2>5. k < drawn => k < drawn + 1
    BY <1>2 DEF Migration!Draw
  <2> QED BY <1>1, <2>1, <2>2, <2>3, <2>4, <2>5 DEF FileTrue
<1>11. AllAtOnce'
  BY <1>1 DEF UpgradeInv, AllAtOnce
<1>12. Staging'
  <2>1. start'.todo \subseteq {<<b, drawn'>> : b \in Migration!LiveBundles'}
    BY <1>1, <1>7 DEF staged, Migration!LiveBundles
  <2>2. \A b \in OldBundle : entry'[b].path < drawn'
    BY <1>1, UpgradeKnows
  <2>3. ASSUME NEW b \in Migration!LiveBundles'
        PROVE  slip'[<<"stage", <<b, drawn'>>>>] # "NONE" /\ <<b, drawn'>> \in start'.todo
    <3>1. b \in OldBundle /\ ~entry[b].deleted
      BY <1>1 DEF Migration!LiveBundles
    <3>2. <<b, drawn + 1>> \in staged
      BY <1>2, <1>6, <3>1
    <3> QED BY <1>1, <1>2, <1>5, <1>7, <3>1, <3>2, SlipOf
  <2>4. (\A b \in OldBundle : entry'[b].state = "LEGACY")
        \/ (consents'.nameless /\ \A b \in OldBundle : entry'[b].state = "READY")
    BY <1>1, ConvertsAll
  <2> QED BY <1>1, <1>2, <2>1, <2>2, <2>3, <2>4 DEF Staging
<1>13. StartTrue'
  BY <1>1, <1>4, <1>7, <1>12 DEF StartTrue, Migration!Recovering
<1> QED BY <1>8, <1>9, <1>10, <1>11, <1>13 DEF UpgradeInv

LEMMA WriteUpgrade == ASSUME UpgradeInv, Migration!Write PROVE UpgradeInv'
<1>1. /\ start.step = "staging" /\ start \in Starts /\ start.on = Migration!Idle /\ version = 4
      /\ Staging /\ UNCHANGED <<version, entry, stone, consents, slip, drawn, mishaps>>
  BY UpgradeKnows, OldMarker DEF Migration!Write, Migration!At, UpgradeInv, StartTrue,
     Migration!Recovering
<1>2. PICK p \in start.todo :
        /\ disk' = [disk EXCEPT ![p] = Migration!Projected(disk[<<p[1], entry[p[1]].path>>])]
        /\ start' = [start EXCEPT !.todo = @ \ {p}]
  BY DEF Migration!Write
<1>3. PICK b \in OldBundle : p = <<b, drawn>> /\ ~entry[b].deleted
  BY <1>1, <1>2 DEF Staging, Migration!LiveBundles
<1>4. drawn \in Migration!Draw /\ drawn > 0 /\ \A a \in OldBundle : entry[a].path < drawn
  BY <1>1, UpgradeKnows DEF Staging
<1>5. Migration!Projected(disk[<<b, entry[b].path>>]) = "redacted"
  BY <1>3, UpgradeKnows DEF RowTrue, Migration!Projected
<1>6. disk' \in [Migration!Path -> OldContents]
      /\ \A q \in Migration!Path : disk'[q] = IF q = <<b, drawn>> THEN "redacted" ELSE disk[q]
  BY <1>2, <1>3, <1>5, UpgradeKnows DEF OldContents
<1>7. start' \in Starts /\ start'.on = Migration!Idle /\ start'.step = "staging"
      /\ start'.todo = start.todo \ {p}
  BY <1>1, <1>2 DEF Starts
<1>8. UpgradeTyped'
  BY <1>1, <1>6, <1>7 DEF UpgradeInv, UpgradeTyped
<1>9. ASSUME NEW a \in OldBundle PROVE RowTrue(a)'
  <2>1. RowTrue(a) /\ entry[a] \in OldRows
    BY UpgradeKnows
  <2>2. disk'[<<a, 0>>] = disk[<<a, 0>>]
    <3>1. 0 \in Migration!Draw
      BY UpgradeConstants DEF Migration!Draw
    <3>2. <<a, 0>> \in Migration!Path
      BY <3>1, SlipOf
    <3>3. <<a, 0>> # <<b, drawn>>
      BY <1>4
    <3> QED BY <1>6, <3>2, <3>3
  <2>3. ~entry[a].deleted => entry[a].path \in Migration!Draw /\ entry[a].path # drawn
    BY <1>4, <2>1 DEF RowTrue, OldRows, Migration!Draw
  <2>4. ~entry[a].deleted => disk'[<<a, entry[a].path>>] = disk[<<a, entry[a].path>>]
    BY <1>6, <2>3, SlipOf
  <2> QED BY <1>1, <2>1, <2>2, <2>4 DEF RowTrue
<1>10. ASSUME NEW a \in OldBundle, NEW k \in Migration!Draw PROVE FileTrue(a, k)'
  <2>1. FileTrue(a, k)
    BY DEF UpgradeInv
  <2>2. CASE <<a, k>> = <<b, drawn>>
    <3>1. slip[<<"stage", <<a, k>>>>] # "NONE"
      BY <1>1, <1>3, <2>2 DEF Staging, Migration!LiveBundles
    <3> QED BY <1>1, <2>1, <3>1 DEF FileTrue
  <2>3. CASE <<a, k>> # <<b, drawn>>
    <3>1. disk'[<<a, k>>] = disk[<<a, k>>]
      BY <1>6, <2>3, SlipOf
    <3> QED BY <1>1, <2>1, <3>1 DEF FileTrue
  <2> QED BY <2>2, <2>3
<1>11. AllAtOnce'
  BY <1>1 DEF UpgradeInv, AllAtOnce
<1>12. Staging'
  <2>1. ASSUME NEW a \in Migration!LiveBundles, <<a, drawn>> \notin start'.todo
        PROVE  disk'[<<a, drawn>>] = "redacted"
    <3>1. <<a, drawn>> \in Migration!Path
      BY <1>4, SlipOf DEF Migration!LiveBundles
    <3> QED BY <1>1, <1>3, <1>6, <1>7, <2>1, <3>1 DEF Staging
  <2>2. Migration!LiveBundles' = Migration!LiveBundles
    BY <1>1 DEF Migration!LiveBundles
  <2> QED BY <1>1, <1>7, <2>1, <2>2 DEF Staging
<1>13. StartTrue'
  BY <1>1, <1>7, <1>12 DEF StartTrue, Migration!Recovering
<1> QED BY <1>8, <1>9, <1>10, <1>11, <1>13 DEF UpgradeInv

LEMMA SwapUpgrade == ASSUME UpgradeInv, Migration!Swap PROVE UpgradeInv'
<1>1. /\ start.step = "staging" /\ start \in Starts /\ start.on = Migration!Idle /\ version = 4
      /\ Staging /\ start.todo = {} /\ UNCHANGED <<version, disk, drawn, mishaps>>
  BY UpgradeKnows, OldMarker DEF Migration!Swap, Migration!At, UpgradeInv, StartTrue,
     Migration!Recovering
<1>2. drawn \in Migration!Draw /\ drawn \in Nat /\ drawn > 0
      /\ \A a \in OldBundle : entry[a].path < drawn
  BY <1>1, UpgradeKnows DEF Staging
<1>3. consents' \in [nameless: BOOLEAN, unnamed: BOOLEAN] /\ ~consents'.unnamed
      /\ consents'.nameless = consents.nameless
  BY DEF Migration!Swap, UpgradeInv, UpgradeTyped
<1>4. ASSUME NEW b \in OldBundle
      PROVE  /\ entry'[b] \in OldRows /\ entry'[b].handle = drawn
             /\ entry'[b].alias = entry[b].handle
             /\ entry'[b].path = (IF entry[b].deleted THEN -1 ELSE drawn)
             /\ entry'[b].from = entry[b].path
             /\ entry'[b].state = (IF entry[b].path = -1 THEN "READY" ELSE "MIGRATING")
             /\ entry'[b].deleted = entry[b].deleted /\ stone'.names[b] = Migration!Named(b)
  <2>1. /\ entry'[b] = Migration!Converted(b) /\ entry[b] \in OldRows
        /\ stone'.names[b] = Migration!Named(b)
    BY UpgradeKnows DEF Migration!Swap, UpgradeInv, UpgradeTyped
  <2> QED BY <1>2, <2>1 DEF Migration!Converted, OldRows
<1>5. /\ entry' \in [OldBundle -> OldRows] /\ stone'.plain = stone.plain
      /\ stone' \in [names: [OldBundle -> Migration!Draw \cup {-1}], plain: BOOLEAN]
  <2>1. /\ entry' = [b \in OldBundle |-> Migration!Converted(b)]
        /\ stone' = [stone EXCEPT !.names = [b \in OldBundle |-> Migration!Named(b)]]
        /\ stone \in [names: [OldBundle -> Migration!Draw \cup {-1}], plain: BOOLEAN]
    BY DEF Migration!Swap, UpgradeInv, UpgradeTyped
  <2>2. \A b \in OldBundle : Migration!Named(b) \in Migration!Draw \cup {-1}
    BY <1>2 DEF Migration!Named
  <2> QED BY <1>4, <2>1, <2>2
<1>6. slip' \in [Migration!Slip -> Migration!Status]
      /\ \A s \in Migration!Slip :
           slip'[s] = IF \E b \in OldBundle : s = Migration!Source(b) THEN "PENDING" ELSE slip[s]
  BY UpgradeKnows DEF Migration!Swap, Migration!Prepared, Migration!Status
<1>7. start' \in Starts /\ start'.on = Migration!Idle /\ start'.step = "settling"
      /\ start'.todo \subseteq Migration!Slip
  <2>1. Migration!Unfinished' \subseteq Migration!Slip
        /\ start' = [start EXCEPT !.step = "settling", !.todo = Migration!Unfinished']
    BY DEF Migration!Unfinished, Migration!Swap
  <2> QED BY <1>1, <2>1 DEF Starts, Migration!Steps
<1>8. UpgradeTyped'
  BY <1>1, <1>3, <1>5, <1>6, <1>7 DEF UpgradeInv, UpgradeTyped
<1>9. ASSUME NEW b \in OldBundle PROVE RowTrue(b)'
  <2>1. RowTrue(b) /\ entry[b] \in OldRows
    BY UpgradeKnows
  <2>2. entry[b].path # 0 => entry[b].state # "LEGACY"
    BY <2>1 DEF RowTrue
  <2>3. entry[b].path # 0 => disk[<<b, 0>>] # "raw"
    BY <1>1, <2>1, <2>2 DEF RowTrue, Staging
  <2>4. ~entry[b].deleted => disk[<<b, drawn>>] = "redacted"
    BY <1>1 DEF Staging, Migration!LiveBundles
  <2>5. ~consents.nameless => entry[b].handle = 0
    BY <1>1, <2>1 DEF RowTrue, Staging
  <2>6. entry[b].deleted => \/ Migration!Named(b) = drawn
                            \/ consents.nameless /\ ~stone.plain
    <3>1. entry[b].state = "LEGACY" \/ consents.nameless
      BY <1>1 DEF Staging
    <3> QED BY <2>1, <3>1 DEF RowTrue, Migration!Named
  <2> QED BY <1>1, <1>2, <1>3, <1>4, <1>5, <2>3, <2>4, <2>5, <2>6 DEF RowTrue
<1>10. ASSUME NEW b \in OldBundle, NEW k \in Migration!Draw PROVE FileTrue(b, k)'
  <2>1. FileTrue(b, k)
    BY DEF UpgradeInv
  <2>2. slip'[<<"stage", <<b, k>>>>] = slip[<<"stage", <<b, k>>>>]
    BY <1>6, SlipOf DEF Migration!Source
  <2>3. slip'[<<"cleanup", <<b, k>>>>] =
          IF entry[b].path = k THEN "PENDING" ELSE slip[<<"cleanup", <<b, k>>>>]
    BY <1>6, SlipOf DEF Migration!Source
  <2>4. entry[b].path = k => k < drawn
    BY <1>2
  <2>5. k < drawn => entry'[b].path # k
    BY <1>2, <1>4 DEF Migration!Draw
  <2> QED BY <1>1, <2>1, <2>2, <2>3, <2>4, <2>5 DEF FileTrue
<1>11. AllAtOnce'
  BY <1>4 DEF AllAtOnce
<1>12. StartTrue'
  BY <1>1, <1>4, <1>7 DEF StartTrue, Migration!Recovering
<1> QED BY <1>8, <1>9, <1>10, <1>11, <1>12 DEF UpgradeInv

LEMMA FinalizeUpgrade == ASSUME UpgradeInv, Migration!Finalize PROVE UpgradeInv'
<1>1. /\ start.step = "finishing" /\ start \in Starts /\ start.on = Migration!Idle /\ version = 4
      /\ UNCHANGED <<version, stone, consents, disk, slip, drawn, mishaps>>
  BY UpgradeKnows, OldMarker DEF Migration!Finalize, Migration!At, UpgradeInv, StartTrue,
     Migration!Recovering
<1>2. start' \in Starts /\ start'.on = Migration!Idle /\ start'.step = "marking"
  BY <1>1 DEF Migration!Finalize, Starts, Migration!Steps
<1>3. ASSUME NEW b \in OldBundle
      PROVE  /\ entry'[b] \in OldRows
             /\ entry'[b].handle = entry[b].handle /\ entry'[b].alias = entry[b].alias
             /\ entry'[b].path = entry[b].path /\ entry'[b].from = entry[b].from
             /\ entry'[b].deleted = entry[b].deleted
             /\ \/ entry'[b].state = entry[b].state
                \/ /\ entry[b].state = "MIGRATING" /\ entry'[b].state = "READY"
                   /\ Migration!Settled(b)
  <2>1. entry'[b] = IF entry[b].state = "MIGRATING" /\ Migration!Settled(b)
                  THEN [entry[b] EXCEPT !.state = "READY"] ELSE entry[b]
    BY DEF Migration!Finalize
  <2>2. entry[b] \in OldRows
    BY UpgradeKnows
  <2>3. CASE entry[b].state = "MIGRATING" /\ Migration!Settled(b)
    <3>1. entry'[b] = [entry[b] EXCEPT !.state = "READY"]
      BY <2>1, <2>3
    <3>2. entry'[b] \in OldRows /\ entry'[b].state = "READY"
      BY <2>2, <3>1 DEF OldRows
    <3>3. /\ entry'[b].handle = entry[b].handle /\ entry'[b].alias = entry[b].alias
          /\ entry'[b].path = entry[b].path /\ entry'[b].from = entry[b].from
          /\ entry'[b].deleted = entry[b].deleted
      BY <2>2, <3>1 DEF OldRows
    <3>4. entry[b].state = "MIGRATING" /\ entry'[b].state = "READY" /\ Migration!Settled(b)
      BY <2>3, <3>2
    <3> QED BY <3>2, <3>3, <3>4
  <2>4. CASE ~(entry[b].state = "MIGRATING" /\ Migration!Settled(b))
    <3>1. entry'[b] = entry[b]
      BY <2>1, <2>4
    <3> QED BY <2>2, <3>1
  <2> QED BY <2>3, <2>4
<1>4. entry' \in [OldBundle -> OldRows]
  BY <1>3 DEF Migration!Finalize
<1>5. UpgradeTyped'
  BY <1>1, <1>2, <1>4 DEF UpgradeInv, UpgradeTyped
<1>6. ASSUME NEW b \in OldBundle PROVE RowTrue(b)'
  <2>1. RowTrue(b) /\ entry[b] \in OldRows
    BY UpgradeKnows
  <2>2. entry[b].state = "MIGRATING" /\ Migration!Settled(b) => disk[<<b, 0>>] # "raw"
    <3>1. CASE entry[b].from # 0
      BY <2>1, <3>1 DEF RowTrue
    <3>2. CASE entry[b].from = 0 /\ entry[b].state = "MIGRATING" /\ Migration!Settled(b)
      <4>1. slip[<<"cleanup", <<b, 0>>>>] = "NONE"
        BY <3>2 DEF Migration!Settled, Migration!Pending, Migration!Live
      <4>2. entry[b].path # 0 /\ 0 \in Migration!Draw
        BY <2>1, <3>2, UpgradeConstants DEF RowTrue, OldRows, Migration!Draw
      <4> QED BY <4>1, <4>2 DEF UpgradeInv, FileTrue
    <3> QED BY <3>1, <3>2
  <2>3. entry'[b].state = "READY" \/ (entry'[b].state = "MIGRATING" /\ entry[b].from # 0) =>
          disk[<<b, 0>>] # "raw"
    BY <1>3, <2>1, <2>2 DEF RowTrue
  <2>4. entry'[b].state = "LEGACY" <=> entry[b].state = "LEGACY"
    BY <1>3
  <2> QED BY <1>1, <1>3, <2>1, <2>3, <2>4 DEF RowTrue
<1>7. ASSUME NEW b \in OldBundle, NEW k \in Migration!Draw PROVE FileTrue(b, k)'
  BY <1>1, <1>3 DEF UpgradeInv, FileTrue
<1>8. AllAtOnce'
  BY <1>3 DEF UpgradeInv, AllAtOnce
<1>9. StartTrue'
  <2>1. \A b \in OldBundle : entry'[b].state # "LEGACY"
    BY <1>3 DEF UpgradeInv, StartTrue, Migration!Finalize, Migration!At
  <2> QED BY <1>1, <1>2, <2>1 DEF StartTrue, Migration!Recovering
<1> QED BY <1>5, <1>6, <1>7, <1>8, <1>9 DEF UpgradeInv

LEMMA AliasLostUpgrade == ASSUME UpgradeInv, Migration!AliasLost PROVE UpgradeInv'
<1>1. /\ start.step = "up" /\ consents.nameless
      /\ UNCHANGED <<version, entry, stone, disk, slip, start, drawn, mishaps>>
  BY DEF Migration!AliasLost, Migration!At
<1>2. consents' \in [nameless: BOOLEAN, unnamed: BOOLEAN] /\ consents'.nameless
  BY <1>1 DEF Migration!AliasLost, UpgradeInv, UpgradeTyped
<1>3. UpgradeTyped'
  BY <1>1, <1>2 DEF UpgradeInv, UpgradeTyped
<1>4. AllAtOnce' /\ \A b \in OldBundle : RowTrue(b)'
  BY <1>1, <1>2 DEF UpgradeInv, AllAtOnce, RowTrue
<1>5. \A b \in OldBundle, k \in Migration!Draw : FileTrue(b, k)'
  BY <1>1 DEF UpgradeInv, FileTrue
<1>6. StartTrue'
  BY <1>1 DEF UpgradeInv, StartTrue
<1> QED BY <1>3, <1>4, <1>5, <1>6 DEF UpgradeInv

LEMMA RestingUpgrade == ASSUME UpgradeInv, UNCHANGED Migration!migration PROVE UpgradeInv'
<1>1. UNCHANGED <<version, entry, stone, consents, disk, slip, start, drawn, mishaps>>
  BY DEF Migration!migration
<1>2. UpgradeTyped' /\ AllAtOnce' /\ \A b \in OldBundle : RowTrue(b)'
  BY <1>1 DEF UpgradeInv, UpgradeTyped, AllAtOnce, RowTrue
<1>3. \A b \in OldBundle, k \in Migration!Draw : FileTrue(b, k)'
  BY <1>1 DEF UpgradeInv, FileTrue
<1>4. StartTrue'
  BY <1>1 DEF UpgradeInv, StartTrue, Staging, Migration!LiveBundles
<1> QED BY <1>2, <1>3, <1>4 DEF UpgradeInv

LEMMA NextUpgrade ==
  ASSUME UpgradeInv, [Migration!MigrationNext]_Migration!migration PROVE UpgradeInv'
<1>1. CASE Migration!Starting
  BY <1>1, ClaimUpgrade, InspectUpgrade, RecoveredUpgrade, OpenUpgrade, FinishesUpgrade,
     StageUpgrade, WriteUpgrade, SwapUpgrade, FinalizeUpgrade, MarkUpgrade DEF Migration!Starting
<1>2. CASE \E s \in Migration!Slip : Migration!LeaseRunsOut(s)
  BY <1>2, LeaseRunsOutUpgrade
<1>3. CASE UNCHANGED Migration!migration
  BY <1>3, RestingUpgrade
<1> QED BY <1>1, <1>2, <1>3, InspectionFailsUpgrade, StagingFailsUpgrade, SweepUpgrade,
     AliasLostUpgrade, StopUpgrade, DieUpgrade DEF Migration!MigrationNext

LEMMA UpgradeHolds == Migration!MigrationSafety => []UpgradeInv
BY InitUpgrade, NextUpgrade, PTL DEF Migration!MigrationSafety

LEMMA UpgradeShows ==
  ASSUME UpgradeInv
  PROVE  /\ Migration!MigrationTypeOK /\ Migration!NothingLost /\ Migration!ReadyIsRedacted
         /\ Migration!StraysOnRecord
         /\ Migration!MarkedIsDone /\ Migration!StonesFollow /\ Migration!AliasesKept
<1>1. Migration!MigrationTypeOK
  <2>1. start.on # Migration!Idle => slip[start.on] = "CLAIMED"
    BY DEF UpgradeInv, StartTrue
  <2> QED BY <2>1 DEF UpgradeInv, UpgradeTyped, Migration!MigrationTypeOK, OldRows, Starts,
             OldContents
<1>2. Migration!NothingLost /\ Migration!StonesFollow /\ Migration!AliasesKept
  BY UpgradeKnows DEF Migration!NothingLost, Migration!LiveBundles, Migration!StonesFollow,
     Migration!AliasesKept, RowTrue
<1>3. Migration!ReadyIsRedacted
  <2>1. ASSUME NEW b \in OldBundle, entry[b].state = "READY", ~entry[b].deleted
        PROVE  disk[<<b, entry[b].path>>] = "redacted"
    BY <2>1, UpgradeKnows DEF RowTrue, OldRows, Migration!Draw
  <2> QED BY <2>1, UpgradeKnows DEF Migration!ReadyIsRedacted, RowTrue
<1>4. Migration!StraysOnRecord
  <2>1. ASSUME NEW b \in OldBundle, NEW k \in Migration!Draw, disk[<<b, k>>] # "none",
               Migration!Owners(<<b, k>>) = {}
        PROVE  \E o \in Migration!Operation : Migration!Pending(<<o, <<b, k>>>>)
    BY <2>1, OwnersAre DEF UpgradeInv, FileTrue, Migration!Operation, Migration!Pending,
       Migration!Live
  <2>2. ASSUME NEW p \in Migration!Path, disk[p] # "none", Migration!Owners(p) = {}
        PROVE  \E o \in Migration!Operation : Migration!Pending(<<o, p>>)
    <3>1. PICK b \in OldBundle, k \in Migration!Draw : p = <<b, k>>
      BY DEF Migration!Path
    <3> QED BY <2>1, <2>2, <3>1
  <2> QED BY <2>2 DEF Migration!StraysOnRecord
<1>5. Migration!MarkedIsDone
  <2>1. ASSUME version = 5 PROVE ~Migration!Old
    BY <2>1 DEF UpgradeInv, StartTrue, Migration!Old
  <2>2. ASSUME version = 5, NEW b \in OldBundle, NEW k \in Migration!Draw
        PROVE  disk[<<b, k>>] # "none" <=> Migration!Owners(<<b, k>>) # {}
    <3>1. slip[<<"stage", <<b, k>>>>] = "NONE" /\ slip[<<"cleanup", <<b, k>>>>] = "NONE"
      BY <2>2, SlipOf DEF UpgradeInv, StartTrue
    <3>2. entry[b].path = k => disk[<<b, k>>] # "none"
      <4>1. entry[b].state = "READY" /\ RowTrue(b)
        BY <2>2 DEF UpgradeInv, StartTrue
      <4>2. entry[b].path = k => ~entry[b].deleted
        BY <4>1 DEF RowTrue, Migration!Draw
      <4> QED BY <4>1, <4>2 DEF RowTrue
    <3> QED BY <3>1, <3>2, OwnersAre DEF UpgradeInv, FileTrue
  <2>3. ASSUME version = 5, NEW p \in Migration!Path
        PROVE  disk[p] # "none" <=> Migration!Owners(p) # {}
    <3>1. PICK b \in OldBundle, k \in Migration!Draw : p = <<b, k>>
      BY DEF Migration!Path
    <3> QED BY <2>2, <2>3, <3>1
  <2> QED BY <2>1, <2>3 DEF Migration!MarkedIsDone
<1> QED BY <1>1, <1>2, <1>3, <1>4, <1>5

\* Started on the old schema and cut off between any two steps, however often:
\* the conversion loses no bundle, calls no raw one ready, leaves no file without
\* a receipt, writes the marker last, and keeps ids and tombstones true, these two
\* as long as no consent has lost its alias.
THEOREM ConversionCorrect == Migration!MigrationSafety => []ConversionIsSafe
<1>1. UpgradeInv => ConversionIsSafe
  BY UpgradeShows DEF ConversionIsSafe
<1> QED BY <1>1, UpgradeHolds, PTL

=============================================================================
