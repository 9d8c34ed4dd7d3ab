------------------------ MODULE DiagnosticsMigration ------------------------
(***************************************************************************)
(* The start of the store on a database of an older schema, in             *)
(* recorder_next/store.py: _initialize, and above all the reprojection of  *)
(* diagnostics, whose bundles are files with raw content and get new files *)
(* with redacted content under new random handles.  A start runs alone,    *)
(* but it is made of several transactions and file operations and may end  *)
(* between any two of them, and so may the run of the service after it.    *)
(*                                                                         *)
(* A path is a bundle and the number of the drawing that gave it: 0 stands *)
(* for the path, and for the id, that the bundle had in the old schema.    *)
(* One consent stands for all of them.  Diagnostic events change with the  *)
(* consents in one transaction and have no files: left out, as are the     *)
(* rebuilding of tables that have no rows, and the deletions and purges    *)
(* of the running service (Diagnostics) but for what they do to consents.  *)
(***************************************************************************)
EXTENDS Integers, FiniteSets, CleanupReceipts

CONSTANTS
  Bundle,     \* rows of diagnostic_bundles
  MaxDraws,   \* reprojections that get as far as new handles (bound)
  MaxFaults   \* deaths and failed file or database operations (bound)

VARIABLES
  version,    \* schema_meta: schema_version, 4 for all that is below 5
  row,        \* diagnostic_bundles: its handle, the id its alias is the digest of,
              \* the path (-1 if it has none) and the path it was converted from
  stone,      \* tombstones: the handle each names (-1: no row's), and whether they
              \* still name their owner plainly, as rows do
  consents,   \* may a consent come to have no alias, and has one none
  disk,       \* the managed files
  receipt,    \* receipts of both operations: rollback of staging, cleanup of sources
  start,      \* what the process does: the step, the receipts or paths to do, the
              \* receipt at hand, and force
  drawn,
  mishaps

migration == <<version, row, stone, consents, disk, receipt, start, drawn, mishaps>>

Draw == 0 .. MaxDraws
Path == Bundle \X Draw
Operation == {"stage", "cleanup"}
Slip == Operation \X Path
Idle == <<>>    \* no receipt at hand

Gone == [step |-> "down", todo |-> {}, on |-> Idle, force |-> FALSE]

\* The old schema: a live bundle has its file, a deleted one may have lost it
\* or never have been cleaned up; every bundle of it has a path.
MigrationInit ==
  /\ version = 4 /\ consents \in [nameless: BOOLEAN, unnamed: {TRUE}] /\ drawn = 0 /\ mishaps = 0 /\ start = Gone
  /\ row \in [Bundle -> {[state |-> "LEGACY", handle |-> 0, alias |-> -1, deleted |-> d,
                          path |-> 0, from |-> -1] : d \in BOOLEAN}]
  /\ disk \in [Path -> {"none", "raw"}]
  /\ \A b \in Bundle : ~row[b].deleted => disk[<<b, 0>>] = "raw"
  /\ \A p \in Path : p[2] > 0 => disk[p] = "none"
  /\ stone = [names |-> [b \in Bundle |-> 0], plain |-> TRUE]
  /\ receipt = [s \in Slip |-> "NONE"]

Steps == {"down", "up", "recovering", "deciding", "staging", "undoing", "settling",
          "finishing", "marking", "sweeping"}

MigrationTypeOK ==
  /\ version \in {4, 5} /\ consents \in [nameless: BOOLEAN, unnamed: BOOLEAN] /\ drawn \in Draw /\ mishaps \in 0 .. MaxFaults
  /\ row \in [Bundle -> [state: {"LEGACY", "MIGRATING", "READY"}, handle: Draw,
                         alias: Draw \cup {-1}, deleted: BOOLEAN, path: Draw \cup {-1},
                         from: Draw \cup {-1}]]
  /\ stone \in [names: [Bundle -> Draw \cup {-1}], plain: BOOLEAN]
  /\ disk \in [Path -> {"none", "raw", "redacted"}]
  /\ receipt \in [Slip -> Status]
  /\ start \in [step: Steps, todo: SUBSET (Slip \cup Path), on: Slip \cup {Idle}, force: BOOLEAN]
  /\ start.on # Idle => receipt[start.on] = "CLAIMED"

At(step) == start.step = step
Mishap == mishaps < MaxFaults /\ mishaps' = mishaps + 1   \* something fails

\* Rows whose storage_path is p.
Owners(p) == {b \in Bundle : <<b, row[b].path>> = p}
Pending(slip) == Live(receipt[slip])

\* Mutant of Unfinished: what was blocked once is left alone.
UnfinishedUntried == {s \in Slip : receipt[s] = "PENDING"}

Unfinished == {s \in Slip : Pending(s)}

-----------------------------------------------------------------------------
(* Recovery of receipts: at the start (those of the migration), after a    *)
(* failed staging (its own), and while the service runs (all).             *)

Recovering == {"recovering", "undoing", "settling", "sweeping"}

\* _claim_cleanup_receipt: a receipt under a running lease is passed over.
Claim ==
  /\ start.step \in Recovering /\ start.on = Idle
  /\ \E s \in start.todo :
       IF Claimable(receipt[s])
       THEN /\ receipt' = [receipt EXCEPT ![s] = "CLAIMED"]
            /\ start' = [start EXCEPT !.todo = @ \ {s}, !.on = s]
       ELSE start' = [start EXCEPT !.todo = @ \ {s}] /\ UNCHANGED receipt
  /\ UNCHANGED <<version, row, stone, consents, disk, drawn, mishaps>>

\* _cleanup_reference_state: only a rollback asks the rows.
Referred(slip) ==
  IF slip[1] = "stage" /\ Owners(slip[2]) # {} THEN "owned" ELSE "unowned"

\* A staged file is redacted, the source of a reprojection raw or, if it is
\* not the first, redacted as well.
Expected(slip) == IF slip[2][2] = 0 THEN "raw" ELSE "redacted"

Judgement(slip) == Verdict(Referred(slip), Expected(slip), disk[slip[2]], "none")

\* One turn of the loop after the claim; a removal leaves the completion to
\* a transaction of its own.
Inspect ==
  /\ start.on # Idle
  /\ CASE Judgement(start.on) = "complete" ->
            /\ receipt' = [receipt EXCEPT ![start.on] = "NONE"]
            /\ start' = [start EXCEPT !.on = Idle] /\ UNCHANGED disk
       [] Judgement(start.on) = "block" ->
            /\ receipt' = [receipt EXCEPT ![start.on] = "BLOCKED"]
            /\ start' = [start EXCEPT !.on = Idle] /\ UNCHANGED disk
       [] OTHER -> disk' = [disk EXCEPT ![start.on[2]] = "none"] /\ UNCHANGED <<receipt, start>>
  /\ UNCHANGED <<version, row, stone, consents, drawn, mishaps>>

\* An error of the file system: the receipt goes back.
InspectionFails ==
  /\ start.on # Idle /\ Mishap
  /\ receipt' = [receipt EXCEPT ![start.on] = "PENDING"]
  /\ start' = [start EXCEPT !.on = Idle]
  /\ UNCHANGED <<version, row, stone, consents, disk, drawn>>

\* The loop is through; what was undone after a failure ends the start.
Recovered ==
  /\ start.step \in Recovering /\ start.todo = {} /\ start.on = Idle
  /\ start' = CASE At("recovering") -> [start EXCEPT !.step = "deciding"]
                [] At("settling")   -> [start EXCEPT !.step = "finishing"]
                [] At("undoing")    -> Gone
                [] At("sweeping")   -> [start EXCEPT !.step = "up"]
  /\ UNCHANGED <<version, row, stone, consents, disk, receipt, drawn, mishaps>>

LeaseRunsOut(slip) ==
  /\ receipt[slip] = "CLAIMED" /\ start.on # slip
  /\ receipt' = [receipt EXCEPT ![slip] = "BLOCKED"]
  /\ UNCHANGED <<version, row, stone, consents, disk, start, drawn, mishaps>>

-----------------------------------------------------------------------------
(* The start.                                                              *)

\* _initialize, first transaction: the schema, its columns, and the marker,
\* which is 4 until the end whatever it was.
Open ==
  /\ At("down")
  /\ version' = 4
  /\ start' = [step |-> "recovering", on |-> Idle, force |-> version < 5,
               todo |-> Unfinished]
  /\ UNCHANGED <<row, stone, consents, disk, receipt, drawn, mishaps>>

Migrating == \E b \in Bundle : row[b].state = "MIGRATING"
Old == \E b \in Bundle : row[b].state # "READY"

\* Rows under way are only finished; else what is old is converted, and
\* everything once more if the marker was not 5 and an alias is missing.
Reprojects == ~Migrating /\ (Old \/ (start.force /\ consents.unnamed))

Finishes ==
  /\ At("deciding") /\ ~Reprojects
  /\ start' = [start EXCEPT !.step = "finishing"]
  /\ UNCHANGED <<version, row, stone, consents, disk, receipt, drawn, mishaps>>

LiveBundles == {b \in Bundle : ~row[b].deleted}

\* _project_legacy_diagnostic_bundle: the readable content, redacted.
Projected(content) == IF content = "none" THEN "none" ELSE "redacted"

Guarded(staged) == [s \in Slip |-> IF s[1] = "stage" /\ s[2] \in staged
                                   THEN Prepared(receipt[s]) ELSE receipt[s]]

\* The snapshot, new handles, the projection of every live bundle, and the
\* rollback receipts of the new files in one transaction.
Stage ==
  /\ At("deciding") /\ Reprojects /\ drawn < MaxDraws
  /\ LET staged == {<<b, drawn + 1>> : b \in LiveBundles}
     IN /\ receipt' = Guarded(staged)
        /\ start' = [start EXCEPT !.step = "staging", !.todo = staged]
  /\ drawn' = drawn + 1
  /\ UNCHANGED <<version, row, stone, consents, disk, mishaps>>

Write ==
  /\ At("staging")
  /\ \E p \in start.todo :
       /\ disk' = [disk EXCEPT ![p] = Projected(disk[<<p[1], row[p[1]].path>>])]
       /\ start' = [start EXCEPT !.todo = @ \ {p}]
  /\ UNCHANGED <<version, row, stone, consents, receipt, drawn, mishaps>>

\* A failed write or transaction: what was staged is recovered, the start fails.
StagingFails ==
  /\ At("staging") /\ Mishap
  /\ start' = [start EXCEPT !.step = "undoing",
                            !.todo = {<<"stage", <<b, drawn>>>> : b \in LiveBundles}]
  /\ UNCHANGED <<version, row, stone, consents, disk, receipt, drawn>>

\* The row after the swap: new handle, alias of the id it had, and no path if
\* it is deleted.  It is under way as long as a source is to be cleaned up.
Converted(b) ==
  [row[b] EXCEPT !.handle = drawn, !.alias = row[b].handle,
     !.path = IF row[b].deleted THEN -1 ELSE drawn, !.from = row[b].path,
     !.state = IF row[b].path = -1 THEN "READY" ELSE "MIGRATING"]

Source(b) == <<"cleanup", <<b, row[b].path>>>>

\* The new handle of its bundle is looked up by the owner and the handle that a
\* tombstone names.  A token is no row's owner; who is not found gets a random one.
Named(b) == IF stone.plain /\ stone.names[b] = row[b].handle THEN drawn ELSE -1

\* The swap: tables, tombstones, aliases and cleanup receipts in one transaction.
Swap ==
  /\ At("staging") /\ start.todo = {}
  /\ row' = [b \in Bundle |-> Converted(b)]
  /\ stone' = [stone EXCEPT !.names = [b \in Bundle |-> Named(b)]]
  /\ consents' = [consents EXCEPT !.unnamed = FALSE]
  /\ receipt' = [s \in Slip |-> IF \E b \in Bundle : s = Source(b)
                                THEN Prepared(receipt[s]) ELSE receipt[s]]
  /\ start' = [start EXCEPT !.step = "settling", !.todo = Unfinished']
  /\ UNCHANGED <<version, disk, drawn, mishaps>>

\* No cleanup of this bundle is open.
Settled(b) == ~Pending(<<"cleanup", <<b, row[b].from>>>>)

\* _finalize_c7_migration
Finalize ==
  /\ At("finishing")
  /\ row' = [b \in Bundle |-> IF row[b].state = "MIGRATING" /\ Settled(b)
                              THEN [row[b] EXCEPT !.state = "READY"] ELSE row[b]]
  /\ start' = [start EXCEPT !.step = "marking"]
  /\ UNCHANGED <<version, stone, consents, disk, receipt, drawn, mishaps>>

\* Mutant of Done: the rows alone decide.
DoneByRows == ~Old

\* _c7_migration_complete
Done == ~Old /\ Unfinished = {}

\* The last transaction: _normalize_diagnostic_tombstones puts a token in the
\* place of every owner, and the marker is set; the service runs.
Mark ==
  /\ At("marking")
  /\ version' = IF Done THEN 5 ELSE 4
  /\ stone' = [stone EXCEPT !.plain = FALSE]
  /\ start' = [Gone EXCEPT !.step = "up"]
  /\ UNCHANGED <<row, consents, disk, receipt, drawn, mishaps>>

-----------------------------------------------------------------------------
(* The service runs, stops and dies.                                       *)

\* recover, whose last pass takes in the receipts of the migration.
Sweep ==
  /\ At("up")
  /\ start' = [start EXCEPT !.step = "sweeping", !.todo = Unfinished]
  /\ Unfinished # {}
  /\ UNCHANGED <<version, row, stone, consents, disk, receipt, drawn, mishaps>>

\* record_diagnostics_opt_in without an event id, or purge_diagnostics when the
\* consent in force is older than the retention of tombstones.
AliasLost ==
  /\ At("up") /\ consents.nameless /\ consents' = [consents EXCEPT !.unnamed = TRUE]
  /\ UNCHANGED <<version, row, stone, disk, receipt, start, drawn, mishaps>>

Stop ==
  /\ At("up") /\ start' = Gone
  /\ UNCHANGED <<version, row, stone, consents, disk, receipt, drawn, mishaps>>

Die ==
  /\ start.step \notin {"down", "up"} /\ Mishap /\ start' = Gone
  /\ UNCHANGED <<version, row, stone, consents, disk, receipt, drawn>>

Starting ==
  \/ Claim \/ Inspect \/ Recovered \/ Open \/ Finishes \/ Stage \/ Write \/ Swap
  \/ Finalize \/ Mark

MigrationNext ==
  \/ Starting \/ InspectionFails \/ StagingFails \/ Sweep \/ AliasLost \/ Stop \/ Die
  \/ \E s \in Slip : LeaseRunsOut(s)

-----------------------------------------------------------------------------
(* Properties.                                                             *)

\* _migrate_c7_diagnostics: "without relabeling raw legacy bytes as READY".  A
\* row that may be listed has a redacted file or none, and the raw one is gone.
ReadyIsRedacted ==
  \A b \in Bundle : row[b].state = "READY" =>
    /\ disk[<<b, 0>>] # "raw"
    /\ ~row[b].deleted => disk[<<b, row[b].path>>] = "redacted"

\* However often the start is cut short, a live bundle keeps a readable file.
NothingLost ==
  \A b \in LiveBundles :
    disk[<<b, row[b].path>>] = IF row[b].path = 0 THEN "raw" ELSE "redacted"

\* A file no row names has a receipt that will remove it.
StraysOnRecord ==
  \A p \in Path : disk[p] # "none" /\ Owners(p) = {} => \E o \in Operation : Pending(<<o, p>>)

\* Schema 5 is only written where nothing of the old one is left: all rows are
\* ready, and there is one file for each live bundle and no other.
MarkedIsDone ==
  version = 5 => /\ ~Old
                 /\ \A p \in Path : disk[p] # "none" <=> Owners(p) # {}

\* The tombstone of a deleted bundle names the handle of its row, by which the
\* export reports it and the purge finds it, through every start that is cut
\* short and every second attempt.  (Not so where a consent has come to have no
\* alias and a start has replaced the owners: the next start that dies before
\* the marker makes the one after it convert all rows again, and tombstones
\* are not found.)
StonesFollow ==
  \A b \in Bundle : row[b].deleted =>
    stone.names[b] = row[b].handle \/ (consents.nameless /\ ~stone.plain)

\* The alias of a converted row is the digest of the id the device knows, by
\* which a repeated request is recognised.  (Not so, again, where a consent has
\* come to have no alias: the handles are then converted once more.)
AliasesKept == ~consents.nameless => \A b \in Bundle : row[b].alias \in {-1, 0}

\* If the service is started again and again, the conversion comes to its end.
AllConverted == ~Old /\ \A b \in Bundle : disk[<<b, 0>>] = "none"
MigrationEnds == []<>At("down") => <>[]AllConverted

MigrationSafety == MigrationInit /\ [][MigrationNext]_migration

MigrationSpec ==
  /\ MigrationSafety
  /\ WF_migration(Starting) /\ WF_migration(\E s \in Slip : LeaseRunsOut(s))

=============================================================================
