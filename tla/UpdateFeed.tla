------------------------------ MODULE UpdateFeed ------------------------------
(***************************************************************************)
(* One channel of application updates, in recorder_next/features.py, group *)
(* 4: publish_update_manifest with the artifact it stores, and the         *)
(* recovery of what a failed publication leaves behind.                    *)
(*                                                                         *)
(* A publication holds the write lock of the store from its first to its   *)
(* last step, and so does recovery; the process may die between any two    *)
(* steps, and a file or database operation may fail.  The artifact is      *)
(* assembled in an anonymous inode and linked: it appears with all its     *)
(* bytes or not at all, and replaces nothing.                              *)
(*                                                                         *)
(* Meanwhile a device downloads: it is told of a manifest and reads its    *)
(* artifact slab by slab, without the lock, over connections that break.   *)
(*                                                                         *)
(* Platform, signer, changelog and the other fields of a manifest stand    *)
(* with the version code: two requests that differ there differ in code.   *)
(***************************************************************************)
EXTENDS Integers, CleanupReceipts

CONSTANTS
  Generation,   \* generations that are published (positive)
  Name,         \* artifact names
  Content,      \* artifacts
  Code,         \* version codes
  Unasked,      \* no expected_generation
  Slabs,        \* slabs that an artifact is sent in
  MaxFaults,    \* deaths and failed operations (bound)
  None

ASSUME Generations == Generation \subseteq Nat \ {0}
ASSUME Nulls == None \notin Content /\ Unasked \notin Nat
ASSUME SlabsPos == Slabs \in Nat \ {0}
ASSUME FaultBound == MaxFaults \in Nat

VARIABLES
  row,       \* update_manifests, by generation
  current,   \* update_channels.current_generation, 0 without a row
  disk,      \* the artifact at each path
  receipt,   \* cleanup receipts, by path and expected content
  task,      \* what the holder of the write lock does
  faults,
  download   \* what one device has fetched, and the descriptor it is served from

vars == <<row, current, disk, receipt, task, faults, download>>

Path == Generation \X Name
Receipt == Path \X Content
Request == [generation: Generation, name: Name, content: Content, code: Code,
            expected: {Unasked, 0} \cup Generation]
Unpublished == [name |-> None, content |-> None, code |-> None]

Where(req) == <<req.generation, req.name>>
ReceiptOf(req) == <<Where(req), req.content>>
Manifest(req) == [name |-> req.name, content |-> req.content, code |-> req.code]

Idle == [step |-> "idle", request |-> None, existed |-> FALSE, on |-> None, todo |-> {}]
Down == [Idle EXCEPT !.step = "down"]
NoDownload == [step |-> "idle", of |-> 0, manifest |-> Unpublished, body |-> None,
               have |-> 0, from |-> {}]

TypeOK ==
  /\ row \in [Generation -> [name: Name, content: Content, code: Code] \cup {Unpublished}]
  /\ current \in {0} \cup Generation
  /\ disk \in [Path -> Content \cup {None}]
  /\ receipt \in [Receipt -> Status]
  /\ task \in [step: {"down", "idle", "looked", "linked", "recovering", "leased", "unlinked"},
               request: Request \cup {None}, existed: BOOLEAN,
               on: Receipt \cup {None}, todo: SUBSET Receipt]
  /\ faults \in 0 .. MaxFaults
  /\ download \in [step: {"idle", "told", "open", "done", "refused"}, of: {0} \cup Generation,
                   manifest: [name: Name, content: Content, code: Code] \cup {Unpublished},
                   body: Content \cup {None}, have: 0 .. Slabs, from: SUBSET Content]
  /\ task.step \in {"leased", "unlinked"} => receipt[task.on] = "CLAIMED"

Init ==
  /\ row = [g \in Generation |-> Unpublished] /\ current = 0
  /\ disk = [path \in Path |-> None]
  /\ receipt = [r \in Receipt |-> "NONE"]
  /\ task = Idle /\ faults = 0 /\ download = NoDownload

Published == {g \in Generation : row[g] # Unpublished}
Fault == faults < MaxFaults /\ faults' = faults + 1

-----------------------------------------------------------------------------
(* A device that downloads.                                                *)

Serving == task.step # "down"
store == <<row, current, disk, receipt, task, faults>>

\* What a device is told of a generation: the row, checked against its digest.
Payload(g) == row[g]

\* get_update_manifest, of the current generation or of one that is named.
Tell(g) ==
  /\ Serving /\ download.step \in {"idle", "done"} /\ g \in Published
  /\ download' = [NoDownload EXCEPT !.step = "told", !.of = g, !.manifest = Payload(g)]
  /\ UNCHANGED store

\* A path that does not lead to a file, or through a link, is refused.
Present(path) == disk[path] # None

\* The file at the path is hashed under the descriptor it is then sent from.
Genuine(path, content) == Present(path) /\ disk[path] = content

\* The slabs a device asks for: all, or with a Range those it misses, which it
\* gets if the artifact is still the one of its If-Range.
From(manifest) == IF manifest.content = row[download.of].content THEN download.have ELSE 0

\* read_update_artifact reads the row anew and opens the file at its path.
Open ==
  /\ Serving /\ download.step = "told"
  /\ LET of == download.of
         path == <<of, row[of].name>>
     IN download' =
          IF row[of].name = download.manifest.name /\ Genuine(path, row[of].content)
          THEN [download EXCEPT !.step = "open", !.body = disk[path],
                                !.have = From(download.manifest),
                                !.from = IF From(download.manifest) = 0 THEN {} ELSE @]
          ELSE [download EXCEPT !.step = "refused"]
  /\ UNCHANGED store

\* The next slab, from the descriptor, whatever has become of the path.
Send ==
  /\ download.step = "open"
  /\ download' = [download EXCEPT !.have = @ + 1, !.from = @ \cup {download.body},
                                  !.step = IF download.have + 1 = Slabs THEN "done" ELSE @]
  /\ UNCHANGED store

Disconnected ==
  IF download.step = "open" THEN [download EXCEPT !.step = "told", !.body = None] ELSE download

\* The connection breaks, or the response takes too long; the descriptor is
\* closed, and the device keeps the slabs it has.
Disconnect ==
  /\ download.step = "open" /\ download' = Disconnected
  /\ UNCHANGED store

-----------------------------------------------------------------------------
(* Publication.                                                            *)

\* Mutant of Look: a file in the way is always another publication's.
LookForSpace(req) ==
  /\ task.step = "idle" /\ disk[Where(req)] = None
  /\ task' = [Idle EXCEPT !.step = "looked", !.request = req]
  /\ receipt' = [receipt EXCEPT ![ReceiptOf(req)] = Prepared(@)]
  /\ UNCHANGED <<row, current, disk, faults, download>>

\* A file with the same bytes is taken over as it is, without a receipt of
\* this publication; one with other bytes refuses the request.
Look(req) ==
  /\ task.step = "idle" /\ disk[Where(req)] \in {None, req.content}
  /\ LET existed == disk[Where(req)] # None IN
     /\ task' = [Idle EXCEPT !.step = "looked", !.request = req, !.existed = existed]
     /\ receipt' = IF existed THEN receipt
                   ELSE [receipt EXCEPT ![ReceiptOf(req)] = Prepared(@)]
  /\ UNCHANGED <<row, current, disk, faults, download>>

\* The compare-and-swap on the channel, the order of generations, and the
\* version codes already used.
Admissible(req) ==
  /\ row[req.generation] = Unpublished
  /\ IF req.expected = Unasked THEN current = 0 ELSE req.expected = current
  /\ req.generation > current
  /\ \A g \in Published : row[g].code # req.code

\* The failure of a publication: its own receipt, if it has one, is recovered.
GiveUp == task' = IF task.existed THEN Idle
                  ELSE [Idle EXCEPT !.step = "recovering", !.todo = {ReceiptOf(task.request)}]

\* The generation is published already: a replay changes nothing, another
\* manifest is refused, and so is anything the channel does not admit.
ReplayOrRefuse ==
  /\ task.step = "looked" /\ ~Admissible(task.request)
  /\ IF row[task.request.generation] = Manifest(task.request) /\ disk[Where(task.request)] = task.request.content
     THEN task' = Idle
     ELSE GiveUp
  /\ UNCHANGED <<row, current, disk, receipt, faults, download>>

Link ==
  /\ task.step = "looked" /\ Admissible(task.request)
  /\ disk' = [disk EXCEPT ![Where(task.request)] = task.request.content]
  /\ task' = [task EXCEPT !.step = "linked"]
  /\ UNCHANGED <<row, current, receipt, faults, download>>

\* The file offered for publication is hashed first and copied later; a copy
\* that is not what was hashed is not linked.
SourceChanges ==
  /\ task.step = "looked" /\ Admissible(task.request) /\ ~task.existed /\ Fault
  /\ GiveUp
  /\ UNCHANGED <<row, current, disk, receipt, download>>

Commit ==
  /\ task.step = "linked"
  /\ row' = [row EXCEPT ![task.request.generation] = Manifest(task.request)]
  /\ current' = task.request.generation
  /\ receipt' = IF task.existed THEN receipt ELSE [receipt EXCEPT ![ReceiptOf(task.request)] = "NONE"]
  /\ task' = Idle
  /\ UNCHANGED <<disk, faults, download>>

PublishFails ==
  /\ task.step \in {"looked", "linked"} /\ Fault
  /\ GiveUp
  /\ UNCHANGED <<row, current, disk, receipt, download>>

-----------------------------------------------------------------------------
(* Recovery of receipts.                                                   *)

\* Mutant of ReferenceOf: relative paths of manifests are not resolved.
ReferenceOfNone(r) == "unowned"

\* _cleanup_reference_state
ReferenceOf(r) ==
  LET owners == {g \in Published : <<g, row[g].name>> = r[1]} IN
  CASE owners = {}                            -> "unowned"
    [] \E g \in owners : row[g].content = r[2] -> "owned"
    [] OTHER                                  -> "conflict"

AllOpen == {r \in Receipt : Live(receipt[r])}

\* At startup, and when somebody deletes diagnostics.
Recover ==
  /\ task.step \in {"down", "idle"} /\ (AllOpen # {} \/ task.step = "down")
  /\ task' = [Idle EXCEPT !.step = "recovering", !.todo = AllOpen]
  /\ UNCHANGED <<row, current, disk, receipt, faults, download>>

Lease(r) ==
  /\ task.step = "recovering" /\ r \in task.todo
  /\ IF Claimable(receipt[r])
     THEN /\ receipt' = [receipt EXCEPT ![r] = "CLAIMED"]
          /\ task' = [task EXCEPT !.step = "leased", !.on = r, !.todo = @ \ {r}]
     ELSE /\ task' = [task EXCEPT !.todo = @ \ {r}]
          /\ UNCHANGED receipt
  /\ UNCHANGED <<row, current, disk, faults, download>>

VerdictNow == Verdict(ReferenceOf(task.on), task.on[2], disk[task.on[1]], None)

Release(status) ==
  /\ receipt' = [receipt EXCEPT ![task.on] = status]
  /\ task' = [task EXCEPT !.step = "recovering", !.on = None]
  /\ UNCHANGED <<row, current, disk, download>>

Judge ==
  /\ task.step = "leased" /\ UNCHANGED faults
  /\ \/ VerdictNow = "complete" /\ Release("NONE")
     \/ VerdictNow = "block" /\ Release("BLOCKED")

Unlink ==
  /\ task.step = "leased" /\ VerdictNow = "unlink"
  /\ disk' = [disk EXCEPT ![task.on[1]] = None]
  /\ task' = [task EXCEPT !.step = "unlinked"]
  /\ UNCHANGED <<row, current, receipt, faults, download>>

UnlinkFails == task.step = "leased" /\ VerdictNow = "unlink" /\ Fault /\ Release("PENDING")

Finish == task.step = "unlinked" /\ Release("NONE") /\ UNCHANGED faults

EndRecovery ==
  /\ task.step = "recovering" /\ task.todo = {}
  /\ task' = Idle
  /\ UNCHANGED <<row, current, disk, receipt, faults, download>>

LeaseRunsOut(r) ==
  /\ receipt[r] = "CLAIMED" /\ task.on # r
  /\ receipt' = [receipt EXCEPT ![r] = "BLOCKED"]
  /\ UNCHANGED <<row, current, disk, task, faults, download>>

Crash ==
  /\ task # Down /\ Fault
  /\ task' = Down /\ download' = Disconnected
  /\ UNCHANGED <<row, current, disk, receipt>>

-----------------------------------------------------------------------------

Goes == ReplayOrRefuse \/ Link \/ Commit \/ Judge \/ Unlink \/ Finish \/ EndRecovery
        \/ \E r \in Receipt : Lease(r)

Next ==
  \/ \E req \in Request : Look(req)
  \/ Goes \/ Recover \/ PublishFails \/ SourceChanges \/ UnlinkFails \/ Crash
  \/ \E r \in Receipt : LeaseRunsOut(r)
  \/ \E g \in Generation : Tell(g)
  \/ Open \/ Send \/ Disconnect

Spec == Init /\ [][Next]_vars

\* An administrator who repeats a publication until it is there.
Persistent ==
  /\ Spec /\ WF_vars(Goes) /\ WF_vars(task.step = "down" /\ Recover)
  /\ \A req \in Request : SF_vars(row[req.generation] = Unpublished /\ Look(req))

-----------------------------------------------------------------------------
(* Properties.                                                             *)

\* What a manifest promises can be downloaded: the artifact of every published
\* generation is on disk with the bytes of the manifest, although failed
\* publications of the same bytes or the same name left receipts and files
\* that recovery looks through afterwards.
ManifestsServed ==
  \A g \in Published : disk[<<g, row[g].name>>] = row[g].content

\* What a failed or interrupted publication left on disk is known to a receipt
\* until it is removed or published after all.
LeftoversWatched ==
  \A path \in Path :
    (disk[path] # None /\ ~\E g \in Published : <<g, row[g].name>> = path)
      => \E c \in Content : Live(receipt[<<path, c>>])

\* Devices are told of the newest generation and every version code once, even
\* when two administrators publish against each other.
FeedInOrder ==
  /\ IF Published = {} THEN current = 0 ELSE current \in Published
  /\ \A g \in Published : g <= current
  /\ \A g, h \in Published : row[g].code = row[h].code => g = h

\* A device that was told of a manifest gets its artifact and no other bytes,
\* although it reads without the lock: however often it reconnects, and
\* whatever is published, fails or is recovered at this and other paths.
DownloadsTrue ==
  /\ download.step # "refused"
  /\ download.from \subseteq {download.manifest.content}

\* What the feed announces is there, is the newest, and can be downloaded;
\* leftovers are on record.
FeedIsTrue == TypeOK /\ ManifestsServed /\ LeftoversWatched /\ FeedInOrder /\ DownloadsTrue

\* An interrupted publication can be repeated with success, whether it left a
\* file, a receipt, both or neither.
PublicationResumes == \A g \in Generation : <>(row[g] # Unpublished)

=============================================================================
