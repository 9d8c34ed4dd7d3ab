-------------------------- MODULE CleanupReceipts --------------------------
(***************************************************************************)
(* The life of one row of storage_cleanup_receipts, in                     *)
(* recorder_next/store.py and features.py.  A receipt names a path and the *)
(* content (digest and size) that may be removed there.  It is written in  *)
(* a transaction of its own before the file it is about is written or      *)
(* removed, so that a crash in between leaves a trace; recovery leases it, *)
(* inspects the rows and the file, unlinks, and completes it, each in a    *)
(* step of its own.                                                        *)
(*                                                                         *)
(* "NONE" stands for no row and for COMPLETE, which recovery both ignores  *)
(* and a new preparation both turns into PENDING.  "CLAIMED" is BLOCKED    *)
(* with the claim marker and a lease (300 seconds) that is running.        *)
(***************************************************************************)

Status == {"NONE", "PENDING", "CLAIMED", "BLOCKED"}

Live(status) == status # "NONE"

\* _prepare_cleanup_receipt_tx: insert, or start again whatever its status is.
Prepared(status) == "PENDING"

\* _discard_cleanup_receipt: the row goes if it is still PENDING.
Discarded(status) == IF status = "PENDING" THEN "NONE" ELSE status

\* _claim_cleanup_receipt: PENDING or BLOCKED, but not while a lease is running.
Claimable(status) == status \in {"PENDING", "BLOCKED"}

\* What recovery does with a receipt it has leased, given what it finds in the
\* rows (the content it would remove is owned by now, another content is, or the
\* path is not referred to) and at the path.
Verdict(reference, expected, found, missing) ==
  CASE reference = "owned"    -> "complete"
    [] reference = "conflict" -> "block"
    [] reference = "unowned"  -> CASE found = missing  -> "complete"
                                   [] found = expected -> "unlink"
                                   [] OTHER            -> "block"

=============================================================================
