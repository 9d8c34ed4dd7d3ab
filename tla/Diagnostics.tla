----------------------------- MODULE Diagnostics -----------------------------
(***************************************************************************)
(* The diagnostic bundles of one device and the consent they rest on, in   *)
(* recorder_next/features.py, group 8: opt-in and opt-out, ingest, expiry  *)
(* by list and export, deletion, purge, with the managed files and the     *)
(* cleanup receipts of both.                                               *)
(*                                                                         *)
(* ingest and recover_cleanup_receipts hold the write lock of the store    *)
(* from their first to their last step (task); delete_diagnostics and      *)
(* purge_diagnostics hold it in each of their transactions only (caller),  *)
(* so that an ingest may come between.  The process may die between any    *)
(* two steps, and a write, a commit or an unlink may fail.                 *)
(*                                                                         *)
(* Every ingest stores under a fresh random handle, and with it under a    *)
(* fresh path; the id the device chose is kept as a digest (alias).        *)
(* Events have rows and tombstones like bundles, but no file: left out.    *)
(***************************************************************************)
EXTENDS Integers, FiniteSets, CleanupReceipts

CONSTANTS
  MaxBundles,   \* handles that may be drawn (bound)
  MaxConsents,  \* consent events (bound)
  MaxFaults,    \* deaths and failed file or database operations (bound)
  Alias,        \* bundle ids the device uses
  Content,      \* redacted and compressed bundles
  None

ASSUME Nulls == None \notin Content /\ None \notin Alias
ASSUME Bounds == MaxBundles \in Nat /\ MaxConsents \in Nat /\ MaxFaults \in Nat

VARIABLES
  consent,   \* diagnostics_consents: the newest event, whether it is the current
             \* one, enabled, expired, and the events whose row is still there
  row,       \* diagnostic_bundles by handle, with its tombstone
  file,      \* the managed file of each handle
  receipt,   \* the cleanup receipt of that file, and whether delete or purge wrote it
  task,      \* what the holder of the write lock does
  caller,    \* where the call of delete or purge stands, and what it has deleted
  promised,  \* bundles a successful delete_diagnostics was about
  faults

vars == <<consent, row, file, receipt, task, caller, promised, faults>>

Handle == 1 .. MaxBundles
Event == 1 .. MaxConsents

NoRow == [state |-> "NONE", alias |-> None, content |-> None, consent |-> 0,
          late |-> FALSE, tombstone |-> "NONE"]
NoReceipt == [status |-> "NONE", counted |-> FALSE]
IdleTask == [step |-> "idle", on |-> 0, alias |-> None, content |-> None, consent |-> 0, todo |-> {}]
Down == [IdleTask EXCEPT !.step = "down"]
NoCall == [at |-> "none", of |-> {}]

TypeOK ==
  /\ consent \in [newest: 0 .. MaxConsents, current: BOOLEAN, enabled: BOOLEAN,
                  expired: BOOLEAN, kept: SUBSET Event]
  /\ row \in [Handle -> [state: {"NONE", "LIVE", "DELETED", "PURGED"}, alias: Alias \cup {None},
                         content: Content \cup {None}, consent: 0 .. MaxConsents,
                         late: BOOLEAN, tombstone: {"NONE", "KEPT", "DUE"}]]
  /\ file \in [Handle -> Content \cup {None}]
  /\ receipt \in [Handle -> [status: Status, counted: BOOLEAN]]
  /\ task \in [step: {"down", "idle", "prepared", "written", "recovering", "leased", "unlinked"},
               on: 0 .. MaxBundles, alias: Alias \cup {None}, content: Content \cup {None},
               consent: 0 .. MaxConsents, todo: SUBSET Handle]
  /\ caller \in [at: {"none", "delete", "delete recovers", "counting",
                      "purge", "purge recovers", "sweeping"}, of: SUBSET Handle]
  /\ promised \subseteq Handle
  /\ faults \in 0 .. MaxFaults
  /\ task.step \in {"prepared", "written"} => receipt[task.on].status = "PENDING"
  /\ task.step \in {"leased", "unlinked"} => receipt[task.on].status = "CLAIMED"

Init ==
  /\ consent = [newest |-> 0, current |-> FALSE, enabled |-> FALSE, expired |-> FALSE, kept |-> {}]
  /\ row = [h \in Handle |-> NoRow]
  /\ file = [h \in Handle |-> None]
  /\ receipt = [h \in Handle |-> NoReceipt]
  /\ task = IdleTask /\ caller = NoCall /\ promised = {} /\ faults = 0

Up == task.step # "down"
Free == task.step = "idle"   \* nobody holds the write lock
Fault == faults < MaxFaults /\ faults' = faults + 1

-----------------------------------------------------------------------------
(* Consent.                                                                *)

\* record_diagnostics_opt_in: a new event, which is from now on the only
\* current one; a repeated event changes nothing.
RecordOptIn(enabled) ==
  /\ Free /\ consent.newest < MaxConsents
  /\ consent' = [newest |-> consent.newest + 1, current |-> TRUE, enabled |-> enabled,
                 expired |-> FALSE, kept |-> consent.kept \cup {consent.newest + 1}]
  /\ UNCHANGED <<row, file, receipt, task, caller, promised, faults>>

ConsentExpires ==
  /\ consent.current /\ ~consent.expired
  /\ consent' = [consent EXCEPT !.expired = TRUE]
  /\ UNCHANGED <<row, file, receipt, task, caller, promised, faults>>

\* Mutant of Authorized: any event the device ever sent will do.
AuthorizedByAny(e) == e \in consent.kept /\ consent.current /\ consent.enabled /\ ~consent.expired

\* _diagnostics_enabled_tx: the event named is the current one, and enabled.
Authorized(e) ==
  e = consent.newest /\ consent.current /\ consent.enabled /\ ~consent.expired

-----------------------------------------------------------------------------
(* Ingest, in the hands of the write lock.                                 *)

Fresh == {h \in Handle : row[h].state = "NONE" /\ file[h] = None /\ receipt[h] = NoReceipt}

\* Mutant of Stored: only what can still be read counts.
StoredLive(alias) == {h \in Handle : row[h].alias = alias /\ row[h].state = "LIVE"}

Stored(alias) == {h \in Handle : row[h].alias = alias /\ row[h].state \in {"LIVE", "DELETED"}}

\* The rollback receipt is written first, in a transaction of its own.
Prepare(alias, content, e, h) ==
  /\ Free /\ Authorized(e)
  /\ h \in Fresh /\ \A g \in Fresh : h <= g
  /\ receipt' = [receipt EXCEPT ![h] = [status |-> Prepared(@.status), counted |-> FALSE]]
  /\ task' = [IdleTask EXCEPT !.step = "prepared", !.on = h, !.alias = alias,
                              !.content = content, !.consent = e]
  /\ UNCHANGED <<consent, row, file, caller, promised, faults>>

\* The rollback of a failed ingest: recover_cleanup_receipts of its receipt.
RollBack == task' = [IdleTask EXCEPT !.step = "recovering", !.todo = {task.on}]

\* The device knows the bundle already: the receipt is completed if it is the
\* same bundle and still there, else the request is refused and rolled back.
Replay ==
  /\ task.step = "prepared" /\ Stored(task.alias) # {}
  /\ IF \E g \in Stored(task.alias) :
          row[g].state = "LIVE" /\ ~row[g].late /\ row[g].content = task.content
     THEN /\ receipt' = [receipt EXCEPT ![task.on] = NoReceipt]
          /\ task' = IdleTask
     ELSE /\ RollBack
          /\ UNCHANGED receipt
  /\ UNCHANGED <<consent, row, file, caller, promised, faults>>

Write ==
  /\ task.step = "prepared" /\ Stored(task.alias) = {}
  /\ file' = [file EXCEPT ![task.on] = task.content]
  /\ task' = [task EXCEPT !.step = "written"]
  /\ UNCHANGED <<consent, row, receipt, caller, promised, faults>>

\* The row, and with it the end of the receipt.
Commit ==
  /\ task.step = "written"
  /\ row' = [row EXCEPT ![task.on] =
               [NoRow EXCEPT !.state = "LIVE", !.alias = task.alias, !.content = task.content,
                             !.consent = task.consent]]
  /\ receipt' = [receipt EXCEPT ![task.on] = NoReceipt]
  /\ task' = IdleTask
  /\ UNCHANGED <<consent, file, caller, promised, faults>>

\* The write or the commit fails.
IngestFails ==
  /\ task.step \in {"prepared", "written"} /\ Fault
  /\ RollBack
  /\ UNCHANGED <<consent, row, file, receipt, caller, promised>>

-----------------------------------------------------------------------------
(* Expiry, deletion and purge.                                             *)

\* _expire_diagnostics_tx and delete_diagnostics alike: rows lose their data
\* and get a tombstone, files get a receipt.
Scrubbed(some) ==
  [h \in Handle |-> IF h \in some THEN [status |-> Prepared(receipt[h].status), counted |-> TRUE]
                    ELSE receipt[h]]

Buried(some) ==
  [h \in Handle |-> IF h \in some THEN [row[h] EXCEPT !.state = "DELETED", !.tombstone = "KEPT"]
                    ELSE row[h]]

LiveRows == {h \in Handle : row[h].state = "LIVE"}
LateRows == {h \in LiveRows : row[h].late}

RetentionEnds(h) ==
  /\ row[h].state = "LIVE" /\ ~row[h].late
  /\ row' = [row EXCEPT ![h].late = TRUE]
  /\ UNCHANGED <<consent, file, receipt, task, caller, promised, faults>>

TombstoneDue(h) ==
  /\ row[h].tombstone = "KEPT"
  /\ row' = [row EXCEPT ![h].tombstone = "DUE"]
  /\ UNCHANGED <<consent, file, receipt, task, caller, promised, faults>>

\* list_diagnostics and export_diagnostics; neither looks after the files.
ListOrExport ==
  /\ Free /\ LateRows # {}
  /\ row' = Buried(LateRows) /\ receipt' = Scrubbed(LateRows)
  /\ UNCHANGED <<consent, file, task, caller, promised, faults>>

\* delete_diagnostics: one transaction for rows, tombstones, receipts and the
\* consent; a second call may follow while files remain.
Delete ==
  /\ Free /\ caller.at = "none"
  /\ LiveRows # {} \/ consent.current \/ \E h \in Handle : receipt[h].counted
  /\ row' = Buried(LiveRows) /\ receipt' = Scrubbed(LiveRows)
  /\ consent' = [consent EXCEPT !.current = FALSE]
  /\ caller' = [at |-> "delete", of |-> {h \in Handle : row[h].state \in {"LIVE", "DELETED"}}]
  /\ UNCHANGED <<file, task, promised, faults>>

Purge ==
  /\ Free /\ caller.at = "none"
  /\ \E h \in Handle : row[h].state \in {"LIVE", "DELETED"}
  /\ row' = Buried(LateRows) /\ receipt' = Scrubbed(LateRows)
  /\ caller' = [at |-> "purge", of |-> {}]
  /\ UNCHANGED <<consent, file, task, promised, faults>>

\* Both then recover all receipts there are.
StartRecovery ==
  /\ Free /\ caller.at \in {"delete", "purge"}
  /\ task' = [IdleTask EXCEPT !.step = "recovering", !.todo = {h \in Handle : Live(receipt[h].status)}]
  /\ caller' = [caller EXCEPT !.at = IF @ = "delete" THEN "delete recovers" ELSE "purge recovers"]
  /\ UNCHANGED <<consent, row, file, receipt, promised, faults>>

\* Mutant of Incomplete: a receipt that is blocked or leased needs no waiting.
IncompletePending == {h \in Handle : receipt[h].counted /\ receipt[h].status = "PENDING"}

\* The receipts of the device that delete_diagnostics counts.
Incomplete == {h \in Handle : receipt[h].counted /\ Live(receipt[h].status)}

\* It answers with success if none of them is open, else CleanupIncompleteError.
Count ==
  /\ Up /\ caller.at = "counting"
  /\ promised' = IF Incomplete = {} THEN promised \cup caller.of ELSE promised
  /\ caller' = NoCall
  /\ UNCHANGED <<consent, row, file, receipt, task, faults>>

\* The tombstones the purge takes with the row they stand for.
Finished == {h \in Handle : row[h].state = "DELETED" /\ row[h].tombstone = "DUE" /\ ~Live(receipt[h].status)}

\* Consent events that are neither current nor named by a bundle; they are
\* looked at only if a bundle of their owner has just gone, and go if they
\* ended long enough ago.
Outdated(gone, after) ==
  IF gone = {} THEN {}
  ELSE (consent.kept \ (IF consent.current THEN {consent.newest} ELSE {}))
         \ {after[h].consent : h \in {g \in Handle : after[g].state \in {"LIVE", "DELETED"}}}

Sweep ==
  /\ Free /\ caller.at = "sweeping"
  /\ LET after == [h \in Handle |-> IF h \in Finished
                                    THEN [NoRow EXCEPT !.state = "PURGED"] ELSE row[h]]
     IN /\ row' = after
        /\ \E some \in SUBSET Outdated(Finished, after) :
             consent' = [consent EXCEPT !.kept = @ \ some]
  /\ caller' = NoCall
  /\ UNCHANGED <<file, receipt, task, promised, faults>>

-----------------------------------------------------------------------------
(* recover_cleanup_receipts, in the hands of the write lock.               *)

\* A receipt that can be leased is; others are passed over.
Lease(h) ==
  /\ task.step = "recovering" /\ h \in task.todo
  /\ IF Claimable(receipt[h].status)
     THEN /\ receipt' = [receipt EXCEPT ![h].status = "CLAIMED"]
          /\ task' = [task EXCEPT !.step = "leased", !.on = h, !.todo = @ \ {h}]
     ELSE /\ task' = [task EXCEPT !.todo = @ \ {h}]
          /\ UNCHANGED receipt
  /\ UNCHANGED <<consent, row, file, caller, promised, faults>>

\* A row never refers to the path of a live receipt, so that the file found is
\* the one expected, or none.
Inspect ==
  LET h == task.on IN
  /\ task.step = "leased"
  /\ file' = IF Verdict("unowned", file[h], file[h], None) = "unlink" THEN [file EXCEPT ![h] = None] ELSE file
  /\ task' = [task EXCEPT !.step = "unlinked"]
  /\ UNCHANGED <<consent, row, receipt, caller, promised, faults>>

UnlinkFails ==
  /\ task.step = "leased" /\ file[task.on] # None /\ Fault
  /\ receipt' = [receipt EXCEPT ![task.on].status = "PENDING"]
  /\ task' = [task EXCEPT !.step = "recovering", !.on = 0]
  /\ UNCHANGED <<consent, row, file, caller, promised>>

Finish ==
  /\ task.step = "unlinked"
  /\ receipt' = [receipt EXCEPT ![task.on] = NoReceipt]
  /\ task' = [task EXCEPT !.step = "recovering", !.on = 0]
  /\ UNCHANGED <<consent, row, file, caller, promised, faults>>

\* The purge gives up if any receipt is left, of whatever operation.
EndRecovery ==
  /\ task.step = "recovering" /\ task.todo = {}
  /\ task' = IdleTask
  /\ caller' = CASE caller.at = "delete recovers" -> [caller EXCEPT !.at = "counting"]
                 [] caller.at = "purge recovers" ->
                      IF \E h \in Handle : Live(receipt[h].status) THEN NoCall
                      ELSE [caller EXCEPT !.at = "sweeping"]
                 [] OTHER -> caller
  /\ UNCHANGED <<consent, row, file, receipt, promised, faults>>

\* The lease of a claim (300 seconds) runs out.
LeaseRunsOut(h) ==
  /\ receipt[h].status = "CLAIMED" /\ task.step # "leased" /\ task.step # "unlinked"
  /\ receipt' = [receipt EXCEPT ![h].status = "BLOCKED"]
  /\ UNCHANGED <<consent, row, file, task, caller, promised, faults>>

Crash ==
  /\ Up /\ Fault
  /\ task' = Down /\ caller' = NoCall
  /\ UNCHANGED <<consent, row, file, receipt, promised>>

\* recover at startup.
Restart ==
  /\ ~Up
  /\ task' = [IdleTask EXCEPT !.step = "recovering", !.todo = {h \in Handle : Live(receipt[h].status)}]
  /\ UNCHANGED <<consent, row, file, receipt, caller, promised, faults>>

-----------------------------------------------------------------------------

\* The holder of the write lock goes on with what it began.
Locked ==
  \/ Replay \/ Write \/ Commit
  \/ \E h \in Handle : Lease(h)
  \/ Inspect \/ Finish \/ EndRecovery \/ Restart

Next ==
  \/ Locked \/ StartRecovery \/ Count \/ Sweep
  \/ \E enabled \in BOOLEAN : RecordOptIn(enabled)
  \/ ConsentExpires
  \/ \E alias \in Alias, content \in Content, e \in Event, h \in Handle : Prepare(alias, content, e, h)
  \/ \E h \in Handle : RetentionEnds(h) \/ TombstoneDue(h) \/ LeaseRunsOut(h)
  \/ ListOrExport \/ Delete \/ Purge
  \/ IngestFails \/ UnlinkFails \/ Crash

Spec == Init /\ [][Next]_vars

\* What the program does by itself, and time.  Those who wait for the write
\* lock get it, even if other requests keep taking it (SF).
Running ==
  /\ Spec
  /\ WF_vars(Locked) /\ WF_vars(Count) /\ SF_vars(StartRecovery) /\ SF_vars(Sweep)
  /\ \A h \in Handle : WF_vars(LeaseRunsOut(h)) /\ WF_vars(RetentionEnds(h)) /\ WF_vars(TombstoneDue(h))

\* An owner who repeats a deletion that was reported incomplete.
Persistent == Running /\ SF_vars((\E h \in Handle : receipt[h].counted) /\ Delete)

-----------------------------------------------------------------------------
(* Properties.                                                             *)

\* What can be listed can be read: a bundle's row has its bytes on disk, and
\* no receipt is left that a later recovery would remove them by.
RowsHaveFiles ==
  \A h \in Handle : row[h].state = "LIVE" => file[h] = row[h].content /\ receipt[h] = NoReceipt

\* Bytes without a row, after a crash at any step, a failed write, commit or
\* unlink, an expiry or a deletion, are always known to a receipt.
LeftoversWatched ==
  \A h \in Handle : file[h] # None /\ row[h].state # "LIVE" => Live(receipt[h].status)

\* When delete_diagnostics returns without CleanupIncompleteError, the bytes
\* of every bundle it deleted, or found deleted, are gone, even those whose
\* receipt a crashed recovery still has leased.
DeletionIsTrue == \A h \in promised : file[h] = None

\* A row, with its tombstone, outlives its bytes: the last trace of a bundle
\* in the database never goes while the file is still there.
FileGoesFirst == \A h \in Handle : row[h].state = "PURGED" => file[h] = None

\* One row for each id the device chose, through retries and crashes, until
\* the purge has forgotten it (the schema has no such constraint).
OneRowPerAlias ==
  \A g, h \in Handle :
    row[g].alias = row[h].alias /\ {row[g].state, row[h].state} \subseteq {"LIVE", "DELETED"} => g = h

\* A bundle is stored under the consent that is current at that moment, and
\* the event that authorized it is on record as long as the bundle's row is.
StoredWithConsent ==
  [][\A h \in Handle : row[h].state = "NONE" /\ row'[h].state = "LIVE"
       => consent.current /\ consent.enabled /\ row'[h].consent = consent.newest]_vars

ConsentOnRecord ==
  \A h \in Handle : row[h].state \in {"LIVE", "DELETED"} => row[h].consent \in consent.kept

\* Rows have their files and their consent on record, one for each id.
RowsAreTrue == TypeOK /\ RowsHaveFiles /\ ConsentOnRecord /\ OneRowPerAlias

\* A deletion that is reported has happened, the file goes before its tombstone,
\* and a file without a row has a receipt.
DeletedForGood == DeletionIsTrue /\ FileGoesFirst /\ LeftoversWatched

\* If the owner insists, what was deleted goes from the disk although deaths
\* and failed unlinks interrupt the deletion.
DeletedGoes ==
  \A h \in Handle : row[h].state = "DELETED" ~> file[h] = None

=============================================================================
