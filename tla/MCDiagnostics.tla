--------------------------- MODULE MCDiagnostics ---------------------------
(***************************************************************************)
(* Diagnostics for TLC.  A behaviour is one of seven, chosen at the start: *)
(* two bundle ids under one consent event (bundles), one under two         *)
(* (consents), one whose request comes again with other bytes (retries),   *)
(* an owner who insists on a deletion (deletion); the export of three      *)
(* events and a large bundle at three times (export); or the start on the  *)
(* old schema with two bundles (migration), and with consents that lose    *)
(* their alias (nameless).                                                 *)
(***************************************************************************)
EXTENDS DeviceDiagnostics

CONSTANTS a1, a2, c1, c2

TwoAliases == {a1, a2}
TwoContents == {c1, c2}
ThreeTimes == 1 .. 3
LastOne == {4}

\* Which of the seven it is; what belongs to the others rests.
VARIABLE about
all == <<about, vars, export, old>>

\* How many bundles and ids the device sends, and of which content.
DeviceStep ==
  /\ Next
  /\ task'.step = "prepared" =>
       /\ task'.on <= IF about = "retries" THEN 3 ELSE 2
       /\ about # "bundles" => task'.alias = a1
       /\ about # "retries" => task'.content = c1
  /\ consent'.newest <= IF about = "consents" THEN 2 ELSE 1
  /\ faults' <= IF about = "retries" THEN 1 ELSE 2

\* A bundle is large; of the events only the first may be, or expires by itself.
ExportStep ==
  /\ Export!Next
  /\ \A e \in Export!Entity :
       /\ e \in Bundled => event'[e].bytes # Small
       /\ e \notin {1} \cup Bundled => event'[e].bytes # Large
       /\ event[e].state = "LIVE" /\ event'[e].state = "DELETED" =>
            e \in {1} \cup Bundled \/ \A d \in Export!Entity : event'[d].state # "LIVE"

DevicesInit ==
  /\ about \in {"bundles", "consents", "retries", "deletion", "export", "migration", "nameless"}
  /\ Init /\ Export!Init
  /\ Migration!MigrationInit /\ (consents.nameless <=> about = "nameless")
  /\ about = "nameless" => entry[a2].deleted /\ disk[<<a2, 0>>] = "none"
  /\ about \in {"migration", "nameless"} \/ \A b \in TwoAliases : ~entry[b].deleted

Devices ==
  /\ DevicesInit
  /\ [][/\ UNCHANGED about
        /\ \/ /\ about \in {"bundles", "consents", "retries", "deletion"}
              /\ DeviceStep /\ UNCHANGED <<export, old>>
           \/ about = "export" /\ ExportStep /\ UNCHANGED <<vars, old>>
           \/ /\ about \in {"migration", "nameless"}
              /\ Migration!MigrationNext /\ UNCHANGED <<vars, export>>]_all
  \* Persistent of Diagnostics:
  /\ WF_vars(about = "deletion" /\ Locked)
  /\ WF_vars(about = "deletion" /\ Count)
  /\ SF_vars(about = "deletion" /\ StartRecovery)
  /\ SF_vars(about = "deletion" /\ Sweep)
  /\ SF_vars(about = "deletion" /\ (\E h \in Handle : receipt[h].counted) /\ Delete)
  /\ \A h \in Handle : WF_vars(about = "deletion" /\ LeaseRunsOut(h))
  \* MigrationSpec:
  /\ WF_old(about = "migration" /\ Migration!Starting)
  /\ WF_old(about = "migration" /\ \E s \in Migration!Slip : Migration!LeaseRunsOut(s))

\* DeletedGoes: what was deleted goes from the disk if its owner insists.
DeletionsEnd ==
  \A h \in Handle :
    about = "deletion" /\ row[h].state = "DELETED" ~> file[h] = None

\* MigrationEnds: the conversion ends if the service is started often enough.
ConversionEnds ==
  []<>(about = "migration" /\ start.step = "down") =>
    <>[](about = "migration" => Migration!AllConverted)

\* What was deleted goes from the disk, and the conversion ends.
DevicesEnd == DeletionsEnd /\ ConversionEnds

=============================================================================
