--------------------------- MODULE DeviceDiagnostics ---------------------------
(***************************************************************************)
(* Diagnostics as the service keeps them (Diagnostics), as a device        *)
(* exports them page by page (ExportPages), and their conversion where the *)
(* store is started on an older schema (DiagnosticsMigration), which is    *)
(* over before the service answers.                                        *)
(***************************************************************************)
EXTENDS Diagnostics

CONSTANTS
  OldBundle,            \* rows of diagnostic_bundles in the old schema
  MaxDraws, MaxMishaps, \* bounds of DiagnosticsMigration
  Times, MaxEvents, Bundled,   \* of ExportPages: the times there are, a bound, bundles
  Small, Large, Stone,  \* bytes of events and tombstones in a page
  PageItems, PageBytes, CursorBytes   \* its limits, and the bytes of a cursor

VARIABLES version, entry, stone, consents, disk, slip, start, drawn, mishaps
old == <<version, entry, stone, consents, disk, slip, start, drawn, mishaps>>

Migration == INSTANCE DiagnosticsMigration WITH
  Bundle <- OldBundle, MaxFaults <- MaxMishaps, row <- entry, receipt <- slip

VARIABLES event, clock, cursor, got, learned, late, reading
export == <<event, clock, cursor, got, learned, late, reading>>

Export == INSTANCE ExportPages WITH Limit <- PageItems, MaxBytes <- PageBytes

ASSUME UpgradeConstants == MaxDraws \in Nat /\ MaxMishaps \in Nat
ASSUME ExportConstants == Times \subseteq Nat /\ MaxEvents \in Nat

-----------------------------------------------------------------------------
(* Properties.                                                             *)

\* ExportComplete of ExportPages: who follows the cursor to the end has every
\* event and bundle there is and the tombstone of every one that is gone.
ExportComplete == Export!TypeOK /\ Export!ExportComplete

\* Started on the old schema and cut off anywhere, the store keeps every live
\* bundle readable (NothingLost), calls no raw one ready (ReadyIsRedacted),
\* leaves no file unrecorded (StraysOnRecord), writes the new marker last
\* (MarkedIsDone), and keeps ids and tombstones true (StonesFollow, AliasesKept;
\* both only as long as no consent has lost its alias, see there).
ConversionIsSafe ==
  /\ Migration!MigrationTypeOK
  /\ Migration!NothingLost /\ Migration!ReadyIsRedacted /\ Migration!StraysOnRecord
  /\ Migration!MarkedIsDone /\ Migration!StonesFollow /\ Migration!AliasesKept

=============================================================================
