--------------------------- MODULE UpdateFeedProofs ---------------------------
(***************************************************************************)
(* Theorems about Fetching: about UpdateFeed for any generations, names,   *)
(* contents and version codes, any number of slabs and any number of       *)
(* faults; about HistoryPages for any turns, filters and limits.           *)
(***************************************************************************)
EXTENDS Fetching, FiniteSetTheorems, WellFoundedInduction, TLAPS

\* The constants, collected for the proofs below.
LEMMA Constants ==
  /\ Generation \subseteq Nat \ {0}
  /\ None \notin Content /\ Unasked \notin Nat
  /\ Slabs \in Nat \ {0} /\ MaxFaults \in Nat
BY Generations, Nulls, SlabsPos, FaultBound

Rows == [name: Name, content: Content, code: Code] \cup {Unpublished}
Tasks ==
  [step: {"down", "idle", "looked", "linked", "recovering", "leased", "unlinked"},
   request: Request \cup {None}, existed: BOOLEAN,
   on: Receipt \cup {None}, todo: SUBSET Receipt]
Downloads ==
  [step: {"idle", "told", "open", "done", "refused"}, of: {0} \cup Generation,
   manifest: Rows, body: Content \cup {None}, have: 0 .. Slabs, from: SUBSET Content]

Owned(path) == \E g \in Published : <<g, row[g].name>> = path

\* What the holder of the write lock relies on from step to step.
TaskTrue ==
  /\ task.step \in {"looked", "linked"} =>
       /\ task.request \in Request
       /\ ~task.existed => Live(receipt[ReceiptOf(task.request)])
       /\ task.existed => disk[Where(task.request)] = task.request.content
  /\ task.step = "linked" =>
       Admissible(task.request) /\ disk[Where(task.request)] = task.request.content
  /\ task.step \in {"leased", "unlinked"} => task.on \in Receipt
  /\ task.step = "unlinked" => disk[task.on[1]] = None

\* What the device knows is a published row, and it is served that row's bytes.
DeviceTrue ==
  /\ download.step \in {"told", "open", "done"} =>
       download.of \in Published /\ download.manifest = row[download.of]
  /\ download.step \in {"told", "open"} => download.have < Slabs
  /\ download.step = "open" => download.body = download.manifest.content

FeedInv == FeedIsTrue /\ TaskTrue /\ DeviceTrue

LEMMA TypeParts ==
  TypeOK <=>
  /\ row \in [Generation -> Rows]
  /\ current \in {0} \cup Generation
  /\ disk \in [Path -> Content \cup {None}]
  /\ receipt \in [Receipt -> Status]
  /\ task \in Tasks
  /\ faults \in 0 .. MaxFaults
  /\ download \in Downloads
  /\ task.step \in {"leased", "unlinked"} => receipt[task.on] = "CLAIMED"
BY DEF TypeOK, Rows, Tasks, Downloads

LEMMA Keys ==
  ASSUME NEW req \in Request
  PROVE  /\ Where(req) \in Path /\ ReceiptOf(req) \in Receipt
         /\ ReceiptOf(req)[1] = Where(req)
         /\ Manifest(req) \in Rows /\ Manifest(req) # Unpublished
         /\ Manifest(req).name = req.name /\ Manifest(req).content = req.content
         /\ Manifest(req).code = req.code
         /\ req.generation \in Generation /\ req.content \in Content
<1>1. /\ req.generation \in Generation /\ req.name \in Name /\ req.content \in Content
      /\ req.code \in Code
  BY DEF Request
<1>2. Where(req) \in Path
  BY <1>1 DEF Where, Path
<1>3. Manifest(req) \in Rows /\ Manifest(req) # Unpublished
  BY <1>1, Constants DEF Manifest, Rows, Unpublished
<1> QED BY <1>1, <1>2, <1>3 DEF ReceiptOf, Receipt, Manifest

LEMMA PublishedRow ==
  ASSUME TypeOK, NEW g \in Published
  PROVE  /\ g \in Generation /\ row[g].name \in Name /\ row[g].content \in Content
         /\ <<g, row[g].name>> \in Path
<1>1. g \in Generation /\ row[g] \in [name: Name, content: Content, code: Code]
  BY TypeParts DEF Published, Rows
<1> QED BY <1>1 DEF Path

LEMMA IdleTyped == Idle \in Tasks /\ Down \in Tasks /\ Idle.step = "idle" /\ Down.step = "down"
<1>1. Idle \in Tasks
  BY DEF Idle, Tasks
<1> QED BY <1>1 DEF Idle, Down, Tasks

LEMMA NoDownloadTyped == NoDownload \in Downloads /\ NoDownload.step = "idle" /\ NoDownload.from = {}
BY Constants DEF NoDownload, Downloads, Rows

-----------------------------------------------------------------------------
(* The device.  Nothing but its download changes.                          *)

LEMMA DeviceStep ==
  ASSUME FeedInv, UNCHANGED store, download' \in Downloads, DownloadsTrue', DeviceTrue'
  PROVE  FeedInv'
<1>1. UNCHANGED <<row, current, disk, receipt, task, faults>>
  BY DEF store
<1>2. TypeOK'
  BY <1>1, TypeParts DEF FeedInv, FeedIsTrue, TypeOK, Rows, Downloads
<1>3. Published' = Published
  BY <1>1 DEF Published
<1>4. ManifestsServed' /\ LeftoversWatched' /\ FeedInOrder'
  BY <1>1, <1>3 DEF FeedInv, FeedIsTrue, ManifestsServed, LeftoversWatched, FeedInOrder
<1>5. TaskTrue'
  BY <1>1, <1>3 DEF FeedInv, TaskTrue, Admissible
<1> QED BY <1>2, <1>4, <1>5 DEF FeedInv, FeedIsTrue

LEMMA TellTrue ==
  ASSUME FeedInv, NEW g \in Generation, Tell(g)
  PROVE  FeedInv'
<1>t. TypeOK
  BY DEF FeedInv, FeedIsTrue
<1>0. UNCHANGED store /\ g \in Published /\ row[g] \in Rows
  BY <1>t, TypeParts DEF Tell
<1>1. download' = [NoDownload EXCEPT !.step = "told", !.of = g, !.manifest = row[g]]
  BY DEF Tell, Payload
<1>2. /\ download'.step = "told" /\ download'.of = g /\ download'.manifest = row[g]
      /\ download'.have = 0 /\ download'.from = {}
  BY <1>1 DEF NoDownload
<1>3. download' \in Downloads
  BY <1>0, <1>1, NoDownloadTyped DEF Downloads
<1>4. row' = row /\ Published' = Published
  BY <1>0 DEF store, Published
<1>5. DownloadsTrue' /\ DeviceTrue'
  BY <1>0, <1>2, <1>4, Constants DEF DownloadsTrue, DeviceTrue
<1> QED BY <1>0, <1>3, <1>5, DeviceStep

LEMMA OpenTrue ==
  ASSUME FeedInv, Open
  PROVE  FeedInv'
<1>t. TypeOK /\ DeviceTrue /\ ManifestsServed /\ DownloadsTrue /\ download \in Downloads
  BY TypeParts DEF FeedInv, FeedIsTrue
<1> DEFINE of == download.of
           path == <<of, row[of].name>>
<1>0. UNCHANGED store /\ download.step = "told"
  BY DEF Open
<1>1. of \in Published /\ download.manifest = row[of] /\ download.have < Slabs
  BY <1>t, <1>0 DEF DeviceTrue
<1>2. path \in Path /\ row[of].content \in Content
  BY <1>t, <1>1, PublishedRow
<1>3. disk[path] = row[of].content
  BY <1>t, <1>1 DEF ManifestsServed
<1>4. row[of].name = download.manifest.name /\ Genuine(path, row[of].content)
  BY <1>1, <1>2, <1>3, Constants DEF Genuine, Present
<1>5. From(download.manifest) = download.have
  BY <1>1 DEF From
<1>6. download' = [download EXCEPT !.step = "open", !.body = disk[path],
                                   !.have = From(download.manifest),
                                   !.from = IF From(download.manifest) = 0 THEN {} ELSE @]
  BY <1>4 DEF Open
<1> HIDE DEF of, path
<1>7. download' \in Downloads
  BY <1>t, <1>2, <1>3, <1>5, <1>6 DEF Downloads
<1>8. /\ download'.step = "open" /\ download'.of = download.of /\ download'.manifest = download.manifest
      /\ download'.body = disk[path] /\ download'.have = download.have
      /\ download'.from \subseteq download.from
  BY <1>t, <1>5, <1>6 DEF Downloads
<1>9. row' = row /\ Published' = Published
  BY <1>0 DEF store, Published
<1>10. DownloadsTrue' /\ DeviceTrue'
  BY <1>t, <1>1, <1>3, <1>8, <1>9 DEF DownloadsTrue, DeviceTrue, of
<1> QED BY <1>0, <1>7, <1>10, DeviceStep

LEMMA SendTrue ==
  ASSUME FeedInv, Send
  PROVE  FeedInv'
<1>t. TypeOK /\ DeviceTrue /\ DownloadsTrue /\ download \in Downloads
  BY TypeParts DEF FeedInv, FeedIsTrue
<1>0. UNCHANGED store /\ download.step = "open"
  BY DEF Send
<1>1. /\ download.of \in Published /\ download.manifest = row[download.of]
      /\ download.have < Slabs /\ download.body = row[download.of].content
  BY <1>t, <1>0 DEF DeviceTrue
<1>2. download.body \in Content /\ download.have + 1 \in 0 .. Slabs
  <2>1. download.body \in Content
    BY <1>t, <1>1, PublishedRow
  <2>2. download.have \in 0 .. Slabs
    BY <1>t DEF Downloads
  <2> QED BY <1>1, <2>1, <2>2, Constants
<1>3. download' = [download EXCEPT !.have = @ + 1, !.from = @ \cup {download.body},
                                   !.step = IF download.have + 1 = Slabs THEN "done" ELSE @]
  BY DEF Send
<1>4. download' \in Downloads
  BY <1>t, <1>2, <1>3 DEF Downloads
<1>5. /\ download'.of = download.of /\ download'.manifest = download.manifest
      /\ download'.body = download.body /\ download'.have = download.have + 1
      /\ download'.from = download.from \cup {download.body}
      /\ download'.step = IF download.have + 1 = Slabs THEN "done" ELSE "open"
  BY <1>t, <1>0, <1>3 DEF Downloads
<1>6. row' = row /\ Published' = Published
  BY <1>0 DEF store, Published
<1>7. DownloadsTrue'
  BY <1>t, <1>1, <1>5 DEF DownloadsTrue
<1>8. DeviceTrue'
  BY <1>1, <1>2, <1>5, <1>6, Constants DEF DeviceTrue
<1> QED BY <1>0, <1>4, <1>7, <1>8, DeviceStep

\* A broken connection leaves a device that may ask again.
LEMMA DisconnectedTrue ==
  ASSUME TypeOK, DeviceTrue, DownloadsTrue, download' = Disconnected,
         row' = row
  PROVE  download' \in Downloads /\ DownloadsTrue' /\ DeviceTrue'
<1>1. download \in Downloads /\ Published' = Published
  BY TypeParts DEF Published
<1>2. CASE download.step = "open"
  <2>1. download' = [download EXCEPT !.step = "told", !.body = None]
    BY <1>2 DEF Disconnected
  <2>2. /\ download'.step = "told" /\ download'.of = download.of
        /\ download'.manifest = download.manifest /\ download'.have = download.have
        /\ download'.from = download.from
    BY <1>1, <2>1 DEF Downloads
  <2>3. download' \in Downloads
    BY <1>1, <2>1 DEF Downloads
  <2> QED BY <1>1, <1>2, <2>2, <2>3 DEF DownloadsTrue, DeviceTrue
<1>3. CASE download.step # "open"
  BY <1>1, <1>3 DEF Disconnected, DownloadsTrue, DeviceTrue
<1> QED BY <1>2, <1>3

LEMMA DisconnectTrue ==
  ASSUME FeedInv, Disconnect
  PROVE  FeedInv'
<1>1. UNCHANGED store /\ download' = Disconnected /\ row' = row
  BY DEF Disconnect, store
<1> QED BY <1>1, DisconnectedTrue, DeviceStep DEF FeedInv, FeedIsTrue

-----------------------------------------------------------------------------
(* The holder of the write lock: steps that move neither row nor file.     *)

Watched(path) == \E c \in Content : Live(receipt[<<path, c>>])

\* A receipt that was live stays so, unless nothing is left for it to watch.
KeepsWatch ==
  \A r \in Receipt : Live(receipt[r]) => Live(receipt'[r]) \/ disk[r[1]] = None \/ Owned(r[1])

LEMMA LiveStatus == Live("PENDING") /\ Live("CLAIMED") /\ Live("BLOCKED") /\ ~Live("NONE")
BY DEF Live

\* What is on disk and in the rows stays true when only receipts and task move.
LEMMA QuietStep ==
  ASSUME FeedInv, UNCHANGED <<row, current, disk>>, receipt' \in [Receipt -> Status],
         task' \in Tasks, faults' \in 0 .. MaxFaults,
         download' = download \/ download' = Disconnected,
         KeepsWatch, TaskTrue',
         task'.step \in {"leased", "unlinked"} => receipt'[task'.on] = "CLAIMED"
  PROVE  FeedInv'
<1>t. /\ TypeOK /\ DeviceTrue /\ DownloadsTrue /\ ManifestsServed /\ FeedInOrder /\ LeftoversWatched
      /\ download \in Downloads
  BY TypeParts DEF FeedInv, FeedIsTrue
<1>1. Published' = Published
  BY DEF Published
<1>2. download' \in Downloads /\ DownloadsTrue' /\ DeviceTrue'
  <2>1. CASE download' = Disconnected
    BY <1>t, <2>1, DisconnectedTrue
  <2>2. CASE download' = download
    BY <1>t, <1>1, <2>2 DEF DownloadsTrue, DeviceTrue
  <2> QED BY <2>1, <2>2
<1>3. TypeOK'
  BY <1>t, <1>2, TypeParts DEF TypeOK, Rows, Tasks, Downloads
<1>4. ManifestsServed' /\ FeedInOrder'
  BY <1>t, <1>1 DEF ManifestsServed, FeedInOrder
<1>5. LeftoversWatched'
  <2> SUFFICES ASSUME NEW path \in Path, disk[path] # None, ~Owned(path)
               PROVE  \E c \in Content : Live(receipt'[<<path, c>>])
    BY <1>1 DEF LeftoversWatched, Owned
  <2>1. PICK c \in Content : Live(receipt[<<path, c>>])
    BY <1>t DEF LeftoversWatched, Owned
  <2>2. <<path, c>> \in Receipt /\ <<path, c>>[1] = path
    BY DEF Receipt
  <2> QED BY <2>1, <2>2 DEF KeepsWatch
<1> QED BY <1>2, <1>3, <1>4, <1>5 DEF FeedInv, FeedIsTrue

LEMMA ParkedTask == ASSUME task'.step \in {"down", "idle", "recovering"} PROVE TaskTrue'
BY DEF TaskTrue

LEMMA FaultType == ASSUME TypeOK, Fault PROVE faults' \in 0 .. MaxFaults
BY TypeParts, Constants DEF Fault

LEMMA SameFaults == ASSUME TypeOK, UNCHANGED faults PROVE faults' \in 0 .. MaxFaults
BY TypeParts

\* A task of the given shape.
LEMMA TaskShape ==
  ASSUME NEW s \in {"down", "idle", "looked", "linked", "recovering", "leased", "unlinked"},
         NEW req \in Request \cup {None}, NEW e \in BOOLEAN, NEW on \in Receipt \cup {None},
         NEW todo \in SUBSET Receipt
  PROVE  [step |-> s, request |-> req, existed |-> e, on |-> on, todo |-> todo] \in Tasks
BY DEF Tasks

LEMMA LookTrue ==
  ASSUME FeedInv, NEW req \in Request, Look(req)
  PROVE  FeedInv'
<1>t. TypeOK /\ receipt \in [Receipt -> Status]
  BY TypeParts DEF FeedInv, FeedIsTrue
<1> DEFINE existed == disk[Where(req)] # None
<1>1. task' = [step |-> "looked", request |-> req, existed |-> existed, on |-> None, todo |-> {}]
  BY DEF Look, Idle
<1>2. receipt' = IF existed THEN receipt ELSE [receipt EXCEPT ![ReceiptOf(req)] = "PENDING"]
  BY DEF Look, Prepared
<1>3. UNCHANGED <<row, current, disk, faults, download>>
  BY DEF Look
<1>4. existed \in BOOLEAN
  OBVIOUS
<1> HIDE DEF existed
<1>5. task' \in Tasks
  BY <1>1, <1>4, TaskShape
<1>6. receipt' \in [Receipt -> Status]
  BY <1>t, <1>2 DEF Status
<1>7. KeepsWatch
  BY <1>t, <1>2, LiveStatus DEF KeepsWatch
<1>8. task'.step = "looked" /\ task'.request = req /\ task'.existed = existed
  BY <1>1
<1>9. TaskTrue'
  <2>1. ~existed => Live(receipt'[ReceiptOf(req)])
    BY <1>t, <1>2, Keys, LiveStatus
  <2>2. ReceiptOf(task'.request) = ReceiptOf(req) /\ Where(task'.request) = Where(req)
    BY <1>8
  <2>3. existed => disk'[Where(req)] = req.content
    BY <1>3 DEF Look, existed
  <2> QED BY <1>8, <2>1, <2>2, <2>3 DEF TaskTrue
<1> QED BY <1>t, <1>3, <1>5, <1>6, <1>7, <1>8, <1>9, SameFaults, QuietStep

\* Giving up is idling or the recovery of the publication's own receipt.
LEMMA GiveUpShape ==
  ASSUME TypeOK, task.request \in Request, GiveUp
  PROVE  task' \in Tasks /\ task'.step \in {"idle", "recovering"}
<1>1. ReceiptOf(task.request) \in Receipt
  BY Keys
<1>2. CASE task.existed
  BY <1>2, IdleTyped DEF GiveUp
<1>3. CASE ~task.existed
  <2>1. task' = [step |-> "recovering", request |-> None, existed |-> FALSE, on |-> None,
                 todo |-> {ReceiptOf(task.request)}]
    BY <1>3 DEF GiveUp, Idle
  <2> QED BY <1>1, <2>1, TaskShape
<1> QED BY <1>2, <1>3

\* A step that leaves every table and file alone and ends in a parked task.
LEMMA ParkingStep ==
  ASSUME FeedInv, UNCHANGED <<row, current, disk, receipt>>, task' \in Tasks,
         task'.step \in {"down", "idle", "recovering"}, faults' \in 0 .. MaxFaults,
         download' = download \/ download' = Disconnected
  PROVE  FeedInv'
<1>1. receipt' \in [Receipt -> Status]
  BY TypeParts DEF FeedInv, FeedIsTrue
<1>2. KeepsWatch
  BY DEF KeepsWatch
<1> QED BY <1>1, <1>2, ParkedTask, QuietStep

LEMMA ReplayTrue ==
  ASSUME FeedInv, ReplayOrRefuse
  PROVE  FeedInv'
<1>1. TypeOK /\ task.request \in Request
  BY DEF FeedInv, FeedIsTrue, TaskTrue, ReplayOrRefuse
<1>2. task' = Idle \/ GiveUp
  BY DEF ReplayOrRefuse
<1>3. task' \in Tasks /\ task'.step \in {"idle", "recovering"}
  BY <1>1, <1>2, GiveUpShape, IdleTyped
<1> QED BY <1>1, <1>3, SameFaults, ParkingStep DEF ReplayOrRefuse

LEMMA FailsTrue ==
  ASSUME FeedInv, PublishFails \/ SourceChanges
  PROVE  FeedInv'
<1>1. TypeOK /\ task.request \in Request
  BY DEF FeedInv, FeedIsTrue, TaskTrue, PublishFails, SourceChanges
<1>2. GiveUp /\ Fault /\ UNCHANGED <<row, current, disk, receipt, download>>
  BY DEF PublishFails, SourceChanges
<1>3. task' \in Tasks /\ task'.step \in {"idle", "recovering"}
  BY <1>1, <1>2, GiveUpShape
<1> QED BY <1>1, <1>2, <1>3, FaultType, ParkingStep

LEMMA RecoverTrue ==
  ASSUME FeedInv, Recover
  PROVE  FeedInv'
<1>1. task' = [step |-> "recovering", request |-> None, existed |-> FALSE, on |-> None,
               todo |-> AllOpen]
  BY DEF Recover, Idle
<1>2. AllOpen \in SUBSET Receipt
  BY DEF AllOpen
<1>3. task' \in Tasks /\ task'.step = "recovering"
  BY <1>1, <1>2, TaskShape
<1>4. TypeOK /\ UNCHANGED <<row, current, disk, receipt, faults, download>>
  BY DEF FeedInv, FeedIsTrue, Recover
<1> QED BY <1>3, <1>4, SameFaults, ParkingStep

LEMMA EndRecoveryTrue ==
  ASSUME FeedInv, EndRecovery
  PROVE  FeedInv'
<1>1. TypeOK /\ task' \in Tasks /\ task'.step = "idle"
      /\ UNCHANGED <<row, current, disk, receipt, faults, download>>
  BY IdleTyped DEF FeedInv, FeedIsTrue, EndRecovery
<1> QED BY <1>1, SameFaults, ParkingStep

LEMMA CrashTrue ==
  ASSUME FeedInv, Crash
  PROVE  FeedInv'
<1>1. TypeOK /\ task' \in Tasks /\ task'.step = "down" /\ Fault /\ download' = Disconnected
      /\ UNCHANGED <<row, current, disk, receipt>>
  BY IdleTyped DEF FeedInv, FeedIsTrue, Crash
<1> QED BY <1>1, FaultType, ParkingStep

\* The task with some fields replaced.
LEMMA TaskFields ==
  ASSUME task \in Tasks, NEW s \in {"recovering", "leased", "unlinked", "linked"},
         NEW on \in Receipt \cup {None}, NEW todo \in SUBSET Receipt
  PROVE  /\ [task EXCEPT !.step = s] \in Tasks
         /\ [task EXCEPT !.todo = todo] \in Tasks
         /\ [task EXCEPT !.step = s, !.on = on] \in Tasks
         /\ [task EXCEPT !.step = s, !.on = on, !.todo = todo] \in Tasks
<1>1. [task EXCEPT !.step = s] \in Tasks /\ [task EXCEPT !.todo = todo] \in Tasks
  BY DEF Tasks
<1>2. [task EXCEPT !.step = s, !.on = on] \in Tasks
  <2> DEFINE next == [task EXCEPT !.step = s]
  <2>1. next \in Tasks
    BY <1>1
  <2> HIDE DEF next
  <2>2. [next EXCEPT !.on = on] \in Tasks
    BY <2>1 DEF Tasks
  <2> QED BY <2>2 DEF next
<1>3. [task EXCEPT !.step = s, !.on = on, !.todo = todo] \in Tasks
  <2> DEFINE next == [task EXCEPT !.step = s, !.on = on]
  <2>1. next \in Tasks
    BY <1>2
  <2> HIDE DEF next
  <2>2. [next EXCEPT !.todo = todo] \in Tasks
    BY <2>1 DEF Tasks
  <2> QED BY <2>2 DEF next
<1> QED BY <1>1, <1>2, <1>3

LEMMA LeaseTrue ==
  ASSUME FeedInv, NEW r \in Receipt, Lease(r)
  PROVE  FeedInv'
<1>t. TypeOK /\ receipt \in [Receipt -> Status] /\ task \in Tasks /\ task.step = "recovering"
  BY TypeParts DEF FeedInv, FeedIsTrue, Lease
<1>0. UNCHANGED <<row, current, disk, faults, download>>
  BY DEF Lease
<1>1. task.todo \ {r} \in SUBSET Receipt
  BY <1>t DEF Tasks
<1>2. CASE Claimable(receipt[r])
  <2>1. receipt' = [receipt EXCEPT ![r] = "CLAIMED"]
        /\ task' = [task EXCEPT !.step = "leased", !.on = r, !.todo = task.todo \ {r}]
    BY <1>2 DEF Lease
  <2>2. task' \in Tasks
    BY <1>t, <1>1, <2>1, TaskFields
  <2>3. task'.step = "leased" /\ task'.on = r
    BY <1>t, <2>1 DEF Tasks
  <2>4. receipt' \in [Receipt -> Status] /\ receipt'[r] = "CLAIMED"
    BY <1>t, <2>1 DEF Status
  <2>5. KeepsWatch
    BY <1>t, <2>1, LiveStatus DEF KeepsWatch
  <2>6. TaskTrue'
    BY <2>3 DEF TaskTrue
  <2> QED BY <1>t, <1>0, <2>2, <2>3, <2>4, <2>5, <2>6, SameFaults, QuietStep
<1>3. CASE ~Claimable(receipt[r])
  <2>1. task' = [task EXCEPT !.todo = task.todo \ {r}] /\ UNCHANGED receipt
    BY <1>3 DEF Lease
  <2>2. task' \in Tasks
    BY <1>t, <1>1, <2>1, TaskFields
  <2>3. task'.step = "recovering"
    BY <1>t, <2>1 DEF Tasks
  <2> QED BY <1>t, <1>0, <2>1, <2>2, <2>3, SameFaults, ParkingStep
<1> QED BY <1>2, <1>3

\* A claim may be released with any status that keeps the watch, and with
\* NONE once nothing is left to watch at its path.
LEMMA ReleaseTrue ==
  ASSUME FeedInv, task.step \in {"leased", "unlinked"}, NEW s \in Status, Release(s),
         Live(s) \/ disk[task.on[1]] = None \/ Owned(task.on[1]),
         faults' \in 0 .. MaxFaults, UNCHANGED download
  PROVE  FeedInv'
<1>t. /\ TypeOK /\ receipt \in [Receipt -> Status] /\ task \in Tasks
      /\ task.on \in Receipt
  BY TypeParts DEF FeedInv, FeedIsTrue, TaskTrue
<1>1. /\ receipt' = [receipt EXCEPT ![task.on] = s]
      /\ task' = [task EXCEPT !.step = "recovering", !.on = None]
      /\ UNCHANGED <<row, current, disk, download>>
  BY DEF Release
<1>2. task' \in Tasks
  BY <1>t, <1>1, TaskFields
<1>3. task'.step = "recovering"
  BY <1>t, <1>1 DEF Tasks
<1>4. receipt' \in [Receipt -> Status]
  BY <1>t, <1>1
<1>5. KeepsWatch
  <2> SUFFICES ASSUME NEW r \in Receipt, Live(receipt[r])
               PROVE  Live(receipt'[r]) \/ disk[r[1]] = None \/ Owned(r[1])
    BY DEF KeepsWatch
  <2>1. r # task.on => receipt'[r] = receipt[r]
    BY <1>t, <1>1
  <2>2. r = task.on => receipt'[r] = s
    BY <1>t, <1>1
  <2> QED BY <2>1, <2>2
<1> QED BY <1>1, <1>2, <1>3, <1>4, <1>5, ParkedTask, QuietStep

\* What the verdict of a recovery rests on.
LEMMA VerdictMeans ==
  ASSUME TypeOK, task.on \in Receipt
  PROVE  /\ VerdictNow = "complete" => disk[task.on[1]] = None \/ Owned(task.on[1])
         /\ VerdictNow = "unlink" => ~Owned(task.on[1])
<1> DEFINE owners == {g \in Published : <<g, row[g].name>> = task.on[1]}
<1>1. owners = {} <=> ~Owned(task.on[1])
  BY DEF Owned
<1>2. ReferenceOf(task.on) = CASE owners = {} -> "unowned"
                               [] \E g \in owners : row[g].content = task.on[2] -> "owned"
                               [] OTHER -> "conflict"
  BY DEF ReferenceOf
<1> HIDE DEF owners
<1>3. CASE owners = {}
  <2>1. ReferenceOf(task.on) = "unowned"
    BY <1>2, <1>3
  <2>2. VerdictNow = "complete" => disk[task.on[1]] = None
    BY <2>1 DEF VerdictNow, Verdict
  <2> QED BY <1>1, <1>3, <2>2
<1>4. CASE owners # {}
  <2>1. ReferenceOf(task.on) \in {"owned", "conflict"}
    BY <1>2, <1>4
  <2>2. VerdictNow # "unlink"
    BY <2>1 DEF VerdictNow, Verdict
  <2> QED BY <1>1, <1>4, <2>2
<1> QED BY <1>3, <1>4

LEMMA JudgeTrue ==
  ASSUME FeedInv, Judge
  PROVE  FeedInv'
<1>1. TypeOK /\ task.step = "leased" /\ task.on \in Receipt /\ UNCHANGED <<faults, download>>
  BY DEF FeedInv, FeedIsTrue, TaskTrue, Judge, Release
<1>2. CASE VerdictNow = "complete" /\ Release("NONE")
  BY <1>1, <1>2, VerdictMeans, SameFaults, ReleaseTrue DEF Status
<1>3. CASE Release("BLOCKED")
  BY <1>1, <1>3, LiveStatus, SameFaults, ReleaseTrue DEF Status
<1> QED BY <1>2, <1>3 DEF Judge

LEMMA UnlinkFailsTrue ==
  ASSUME FeedInv, UnlinkFails
  PROVE  FeedInv'
<1>1. TypeOK /\ task.step = "leased" /\ Release("PENDING") /\ Fault /\ UNCHANGED download
  BY DEF FeedInv, FeedIsTrue, UnlinkFails, Release
<1> QED BY <1>1, LiveStatus, FaultType, ReleaseTrue DEF Status

LEMMA FinishTrue ==
  ASSUME FeedInv, Finish
  PROVE  FeedInv'
<1>1. /\ TypeOK /\ task.step = "unlinked" /\ disk[task.on[1]] = None /\ Release("NONE")
      /\ UNCHANGED <<faults, download>>
  BY DEF FeedInv, FeedIsTrue, TaskTrue, Finish, Release
<1> QED BY <1>1, SameFaults, ReleaseTrue DEF Status

LEMMA LeaseRunsOutTrue ==
  ASSUME FeedInv, NEW r \in Receipt, LeaseRunsOut(r)
  PROVE  FeedInv'
<1>t. TypeOK /\ TaskTrue /\ receipt \in [Receipt -> Status] /\ task \in Tasks
  BY TypeParts DEF FeedInv, FeedIsTrue
<1>1. /\ receipt' = [receipt EXCEPT ![r] = "BLOCKED"] /\ task.on # r
      /\ UNCHANGED <<row, current, disk, task, faults, download>>
  BY DEF LeaseRunsOut
<1>2. receipt' \in [Receipt -> Status] /\ KeepsWatch
  BY <1>t, <1>1, LiveStatus DEF Status, KeepsWatch
<1>3. task.step \in {"leased", "unlinked"} => task.on \in Receipt /\ receipt'[task.on] = "CLAIMED"
  BY <1>t, <1>1, TypeParts DEF TaskTrue
<1>4. TaskTrue'
  <2>1. Published' = Published
    BY <1>1 DEF Published
  <2>2. ASSUME task.step \in {"looked", "linked"}, ~task.existed
        PROVE  Live(receipt'[ReceiptOf(task.request)])
    <3>1. task.request \in Request /\ Live(receipt[ReceiptOf(task.request)])
      BY <1>t, <2>2 DEF TaskTrue
    <3> QED BY <1>t, <1>1, <3>1, Keys, LiveStatus
  <2>3. ReceiptOf(task'.request) = ReceiptOf(task.request) /\ task' = task
    BY <1>1
  <2> QED BY <1>t, <1>1, <2>1, <2>2, <2>3 DEF TaskTrue, Admissible
<1> QED BY <1>t, <1>1, <1>2, <1>3, <1>4, SameFaults, QuietStep

-----------------------------------------------------------------------------
(* The steps that move rows and files.                                     *)

LEMMA LinkTrue ==
  ASSUME FeedInv, Link
  PROVE  FeedInv'
<1> DEFINE req == task.request
<1>t. /\ TypeOK /\ DeviceTrue /\ DownloadsTrue /\ ManifestsServed /\ FeedInOrder /\ LeftoversWatched
      /\ TaskTrue /\ receipt \in [Receipt -> Status] /\ task \in Tasks
      /\ disk \in [Path -> Content \cup {None}]
  BY TypeParts DEF FeedInv, FeedIsTrue
<1>0. task.step = "looked" /\ req \in Request /\ Admissible(req)
  BY <1>t DEF Link, TaskTrue
<1>1. /\ disk' = [disk EXCEPT ![Where(req)] = req.content]
      /\ task' = [task EXCEPT !.step = "linked"]
      /\ UNCHANGED <<row, current, receipt, faults, download>>
  BY DEF Link
<1>2. Published' = Published
  BY <1>1 DEF Published
<1>3. /\ Where(req) \in Path /\ req.content \in Content /\ ReceiptOf(req) \in Receipt
      /\ ReceiptOf(req) = <<Where(req), req.content>>
  BY <1>0, Keys DEF ReceiptOf
<1>4. \A g \in Published : g # req.generation
  BY <1>0 DEF Admissible, Published
<1>5. \A g \in Published : <<g, row[g].name>> # Where(req)
  BY <1>4 DEF Where
<1>6. task' \in Tasks /\ task'.step = "linked" /\ task'.request = req /\ task'.existed = task.existed
  <2>1. task' \in Tasks
    BY <1>t, <1>1, TaskFields DEF Tasks
  <2> QED BY <1>t, <1>1, <2>1 DEF Tasks
<1>7. TypeOK'
  <2>1. disk' \in [Path -> Content \cup {None}]
    BY <1>t, <1>1, <1>3
  <2> QED BY <1>t, <1>1, <1>6, <2>1, TypeParts DEF TypeOK, Rows, Tasks, Downloads
<1>8. ManifestsServed'
  BY <1>t, <1>1, <1>2, <1>5 DEF ManifestsServed
<1>9. FeedInOrder' /\ DeviceTrue' /\ DownloadsTrue'
  BY <1>t, <1>1, <1>2 DEF FeedInOrder, DeviceTrue, DownloadsTrue
<1>10. LeftoversWatched'
  <2> SUFFICES ASSUME NEW path \in Path, disk'[path] # None, ~Owned(path)
               PROVE  \E c \in Content : Live(receipt[<<path, c>>])
    BY <1>1, <1>2 DEF LeftoversWatched, Owned
  <2>1. CASE path # Where(req) \/ disk[path] # None
    <3>1. disk[path] # None
      BY <1>t, <1>1, <2>1
    <3> QED BY <1>t, <3>1 DEF LeftoversWatched, Owned
  <2>2. CASE path = Where(req) /\ disk[path] = None
    <3>1. ~task.existed => Live(receipt[<<path, req.content>>])
      BY <1>t, <1>0, <1>3, <2>2 DEF TaskTrue
    <3>2. ~task.existed
      BY <1>t, <1>0, <1>3, <2>2, Constants DEF TaskTrue
    <3> QED BY <1>3, <3>1, <3>2
  <2> QED BY <2>1, <2>2
<1>11. TaskTrue'
  <2>1. Admissible(req)'
    BY <1>0, <1>1, <1>2, <1>6 DEF Admissible
  <2>2. ~task.existed => Live(receipt'[ReceiptOf(req)])
    BY <1>t, <1>0, <1>1 DEF TaskTrue
  <2>3. disk'[Where(req)] = req.content
    BY <1>t, <1>1, <1>3
  <2>4. ReceiptOf(task'.request) = ReceiptOf(req) /\ Where(task'.request) = Where(req)
    BY <1>6
  <2> QED BY <1>0, <1>6, <2>1, <2>2, <2>3, <2>4 DEF TaskTrue
<1> QED BY <1>7, <1>8, <1>9, <1>10, <1>11 DEF FeedInv, FeedIsTrue

LEMMA CommitTrue ==
  ASSUME FeedInv, Commit
  PROVE  FeedInv'
<1> DEFINE req == task.request
           g == req.generation
<1>t. /\ TypeOK /\ DeviceTrue /\ DownloadsTrue /\ ManifestsServed /\ FeedInOrder /\ LeftoversWatched
      /\ TaskTrue /\ receipt \in [Receipt -> Status] /\ row \in [Generation -> Rows]
      /\ download \in Downloads /\ current \in {0} \cup Generation
  BY TypeParts DEF FeedInv, FeedIsTrue
<1>0. /\ task.step = "linked" /\ req \in Request /\ Admissible(req)
      /\ disk[Where(req)] = req.content
  BY <1>t DEF Commit, TaskTrue
<1>1. /\ row' = [row EXCEPT ![g] = Manifest(req)]
      /\ current' = g
      /\ receipt' = IF task.existed THEN receipt ELSE [receipt EXCEPT ![ReceiptOf(req)] = "NONE"]
      /\ task' = Idle
      /\ UNCHANGED <<disk, faults, download>>
  BY DEF Commit
<1>2. /\ g \in Generation /\ Manifest(req) \in Rows /\ Manifest(req) # Unpublished
      /\ Manifest(req).name = req.name /\ Manifest(req).content = req.content
      /\ Manifest(req).code = req.code
      /\ ReceiptOf(req)[1] = <<g, req.name>> /\ Where(req) = <<g, req.name>>
  BY <1>0, Keys DEF Where
<1>3. /\ g \notin Published /\ (g \in Nat /\ current \in Nat /\ g > current)
      /\ \A h \in Published : row[h].code # req.code
  <2>1. g \in Nat /\ current \in Nat
    <3>1. current \in {0} \cup Generation /\ g \in Generation
      BY <1>t, <1>2
    <3> HIDE DEF g
    <3> QED BY <3>1, Constants
  <2>2. row[g] = Unpublished /\ g > current /\ \A h \in Published : row[h].code # req.code
    BY <1>0 DEF Admissible
  <2> QED BY <2>1, <2>2 DEF Published
<1> HIDE DEF req, g
<1>4. row'[g] = Manifest(req) /\ \A h \in Generation : h # g => row'[h] = row[h]
  BY <1>t, <1>1, <1>2
<1>5. Published' = Published \cup {g}
  BY <1>2, <1>4 DEF Published
<1>6. \A h \in Published : h \in Generation /\ h # g /\ row'[h] = row[h]
  BY <1>3, <1>4 DEF Published
<1>7. TypeOK'
  <2>1. row' \in [Generation -> Rows] /\ current' \in {0} \cup Generation
    BY <1>t, <1>1, <1>2
  <2>2. receipt' \in [Receipt -> Status]
    BY <1>t, <1>1 DEF Status
  <2>3. task' \in Tasks /\ task'.step = "idle"
    BY <1>1, IdleTyped
  <2> QED BY <1>t, <1>1, <2>1, <2>2, <2>3, TypeParts DEF TypeOK, Rows, Tasks, Downloads
<1>8. ManifestsServed'
  <2> SUFFICES ASSUME NEW h \in Published \cup {g}
               PROVE  disk[<<h, row'[h].name>>] = row'[h].content
    BY <1>1, <1>5 DEF ManifestsServed
  <2>1. CASE h = g
    BY <1>0, <1>2, <1>4, <2>1
  <2>2. CASE h \in Published
    BY <1>t, <1>6, <2>2 DEF ManifestsServed
  <2> QED BY <2>1, <2>2
<1>9. LeftoversWatched'
  <2> SUFFICES ASSUME NEW path \in Path, disk[path] # None,
                      ~\E h \in Published \cup {g} : <<h, row'[h].name>> = path
               PROVE  \E c \in Content : Live(receipt'[<<path, c>>])
    BY <1>1, <1>5 DEF LeftoversWatched
  <2>1. path # <<g, req.name>>
    BY <1>2, <1>4
  <2>2. ~\E h \in Published : <<h, row[h].name>> = path
    BY <1>6
  <2>3. PICK c \in Content : Live(receipt[<<path, c>>])
    BY <1>t, <2>2 DEF LeftoversWatched
  <2>4. <<path, c>> \in Receipt /\ <<path, c>>[1] = path
    BY DEF Receipt
  <2>5. <<path, c>> # ReceiptOf(req)
    BY <1>2, <2>1, <2>4
  <2>6. receipt'[<<path, c>>] = receipt[<<path, c>>]
    BY <1>t, <1>1, <2>4, <2>5
  <2> QED BY <2>3, <2>6
<1>10. FeedInOrder'
  <2>1. Published' # {} /\ current' \in Published'
    BY <1>1, <1>5
  <2>2. ASSUME NEW h \in Published' PROVE h <= current'
    <3>1. CASE h = g
      BY <1>1, <1>3, <3>1
    <3>2. CASE h \in Published
      <4>1. h <= current /\ h \in Nat
        BY <1>t, <1>6, <3>2, Constants DEF FeedInOrder
      <4> QED BY <1>1, <1>3, <4>1
    <3> QED BY <1>5, <3>1, <3>2
  <2>3. ASSUME NEW h \in Published', NEW k \in Published', row'[h].code = row'[k].code PROVE h = k
    <3>1. CASE h \in Published /\ k \in Published
      BY <1>t, <1>6, <2>3, <3>1 DEF FeedInOrder
    <3>2. CASE h = g /\ k \in Published
      BY <1>2, <1>3, <1>4, <1>6, <2>3, <3>2
    <3>3. CASE k = g /\ h \in Published
      BY <1>2, <1>3, <1>4, <1>6, <2>3, <3>3
    <3>4. CASE h = g /\ k = g
      BY <3>4
    <3> QED BY <1>5, <3>1, <3>2, <3>3, <3>4
  <2> QED BY <2>1, <2>2, <2>3 DEF FeedInOrder
<1>11. DeviceTrue' /\ DownloadsTrue'
  BY <1>t, <1>1, <1>5, <1>6 DEF DeviceTrue, DownloadsTrue
<1>12. TaskTrue'
  BY <1>1, IdleTyped, ParkedTask
<1> QED BY <1>7, <1>8, <1>9, <1>10, <1>11, <1>12 DEF FeedInv, FeedIsTrue

LEMMA UnlinkTrue ==
  ASSUME FeedInv, Unlink
  PROVE  FeedInv'
<1>t. /\ TypeOK /\ DeviceTrue /\ DownloadsTrue /\ ManifestsServed /\ FeedInOrder /\ LeftoversWatched
      /\ TaskTrue /\ task \in Tasks /\ disk \in [Path -> Content \cup {None}]
  BY TypeParts DEF FeedInv, FeedIsTrue
<1>0. task.step = "leased" /\ task.on \in Receipt /\ VerdictNow = "unlink" /\ receipt[task.on] = "CLAIMED"
  BY <1>t, TypeParts DEF Unlink, TaskTrue
<1>1. /\ disk' = [disk EXCEPT ![task.on[1]] = None]
      /\ task' = [task EXCEPT !.step = "unlinked"]
      /\ UNCHANGED <<row, current, receipt, faults, download>>
  BY DEF Unlink
<1>2. ~Owned(task.on[1])
  BY <1>t, <1>0, VerdictMeans
<1>3. task.on[1] \in Path
  BY <1>0 DEF Receipt
<1>4. Published' = Published
  BY <1>1 DEF Published
<1>5. task' \in Tasks /\ task'.step = "unlinked" /\ task'.on = task.on
  <2>1. task' \in Tasks
    BY <1>t, <1>1, TaskFields DEF Tasks
  <2> QED BY <1>t, <1>1, <2>1 DEF Tasks
<1>6. disk' \in [Path -> Content \cup {None}]
  BY <1>t, <1>1
<1>7. TypeOK'
  BY <1>t, <1>0, <1>1, <1>5, <1>6, TypeParts DEF TypeOK, Rows, Tasks, Downloads
<1>8. ManifestsServed'
  <2> SUFFICES ASSUME NEW g \in Published PROVE disk'[<<g, row[g].name>>] = row[g].content
    BY <1>1, <1>4 DEF ManifestsServed
  <2>1. <<g, row[g].name>> \in Path /\ <<g, row[g].name>> # task.on[1]
    BY <1>t, <1>2, PublishedRow DEF Owned
  <2> QED BY <1>t, <1>1, <2>1 DEF ManifestsServed
<1>9. LeftoversWatched'
  <2> SUFFICES ASSUME NEW path \in Path, disk'[path] # None, ~Owned(path)
               PROVE  \E c \in Content : Live(receipt[<<path, c>>])
    BY <1>1, <1>4 DEF LeftoversWatched, Owned
  <2>1. disk[path] # None
    BY <1>t, <1>1, <1>3
  <2> QED BY <1>t, <2>1 DEF LeftoversWatched, Owned
<1>10. FeedInOrder' /\ DeviceTrue' /\ DownloadsTrue'
  BY <1>t, <1>1, <1>4 DEF FeedInOrder, DeviceTrue, DownloadsTrue
<1>11. TaskTrue'
  <2>1. disk'[task'.on[1]] = None /\ task'.on \in Receipt
    BY <1>t, <1>0, <1>1, <1>3, <1>5
  <2> QED BY <1>5, <2>1 DEF TaskTrue
<1> QED BY <1>7, <1>8, <1>9, <1>10, <1>11 DEF FeedInv, FeedIsTrue

-----------------------------------------------------------------------------
(* FeedIsTrue.                                                             *)

LEMMA InitTrue == Init => FeedInv
<1> SUFFICES ASSUME Init PROVE FeedInv
  OBVIOUS
<1>1. Published = {} /\ current = 0 /\ task.step = "idle" /\ download = NoDownload
  BY IdleTyped DEF Init, Published
<1>2. \A path \in Path : disk[path] = None
  BY DEF Init
<1>3. TypeOK
  <2>1. row \in [Generation -> Rows] /\ disk \in [Path -> Content \cup {None}]
        /\ receipt \in [Receipt -> Status]
    BY DEF Init, Rows, Status
  <2>2. task \in Tasks /\ download \in Downloads /\ faults \in 0 .. MaxFaults
    BY IdleTyped, NoDownloadTyped, Constants DEF Init
  <2> QED BY <1>1, <2>1, <2>2, TypeParts
<1>4. ManifestsServed /\ LeftoversWatched /\ FeedInOrder
  BY <1>1, <1>2 DEF ManifestsServed, LeftoversWatched, FeedInOrder
<1>5. DownloadsTrue /\ DeviceTrue /\ TaskTrue
  BY <1>1, NoDownloadTyped DEF DownloadsTrue, DeviceTrue, TaskTrue
<1> QED BY <1>3, <1>4, <1>5 DEF FeedInv, FeedIsTrue

LEMMA NextTrue == FeedInv /\ [Next]_vars => FeedInv'
<1> SUFFICES ASSUME FeedInv, [Next]_vars PROVE FeedInv'
  OBVIOUS
<1>1. ASSUME NEW req \in Request, Look(req) PROVE FeedInv'
  BY <1>1, LookTrue
<1>2. CASE Goes
  BY <1>2, ReplayTrue, LinkTrue, CommitTrue, JudgeTrue, UnlinkTrue, FinishTrue, EndRecoveryTrue,
     LeaseTrue DEF Goes
<1>3. CASE Recover \/ PublishFails \/ SourceChanges \/ UnlinkFails \/ Crash
  BY <1>3, RecoverTrue, FailsTrue, UnlinkFailsTrue, CrashTrue
<1>4. ASSUME NEW r \in Receipt, LeaseRunsOut(r) PROVE FeedInv'
  BY <1>4, LeaseRunsOutTrue
<1>5. ASSUME NEW g \in Generation, Tell(g) PROVE FeedInv'
  BY <1>5, TellTrue
<1>6. CASE Open \/ Send \/ Disconnect
  BY <1>6, OpenTrue, SendTrue, DisconnectTrue
<1>7. CASE UNCHANGED vars
  <2>1. UNCHANGED store /\ UNCHANGED download /\ Published' = Published
    BY <1>7 DEF vars, store, Published
  <2>2. download' \in Downloads /\ DownloadsTrue' /\ DeviceTrue'
    BY <1>7, <2>1, TypeParts DEF FeedInv, FeedIsTrue, DownloadsTrue, DeviceTrue, vars
  <2> QED BY <2>1, <2>2, DeviceStep
<1> QED BY <1>1, <1>2, <1>3, <1>4, <1>5, <1>6, <1>7 DEF Next

\* What the feed announces is on disk, is the newest, and reaches a device
\* with no other bytes, and every leftover is on record: for any number of
\* generations, rival publications, faults and reconnections.
THEOREM FeedCorrect == Spec => []FeedIsTrue
<1>1. FeedInv => FeedIsTrue
  BY DEF FeedInv
<1> QED BY <1>1, InitTrue, NextTrue, PTL DEF Spec

-----------------------------------------------------------------------------
(* The history, page by page.                                              *)

LEMMA SameSizes == \A S : History!Cardinality(S) = Cardinality(S)
BY DEF History!Cardinality, Cardinality

\* A set of naturals that is not empty has a least element, and a greatest one
\* when it is bounded.
LEMMA LeastNatural ==
  ASSUME NEW T, T \subseteq Nat, T # {}
  PROVE  \E n \in T : \A m \in T : n <= m
<1> DEFINE R == OpToRel(<, Nat)
<1>1. IsWellFoundedOn(R, Nat)
  BY NatLessThanWellFounded
<1>2. \A m, n \in Nat : m < n => <<m, n>> \in R
  BY DEF OpToRel
<1> HIDE DEF R
<1>3. PICK n \in T : \A m \in T : ~(<<m, n>> \in R)
  BY <1>1, WFMin
<1>4. ASSUME NEW m \in T PROVE n <= m
  <2>1. m \in Nat /\ n \in Nat /\ ~(m < n)
    BY <1>2, <1>3
  <2> QED BY <2>1
<1> QED BY <1>4

LEMMA GreatestIs ==
  ASSUME NEW n \in Nat, NEW T, T \subseteq 1 .. n, T # {}
  PROVE  History!Max(T) \in T /\ \A i \in T : i <= History!Max(T)
<1> DEFINE U == {n - i : i \in T}
<1>t. \A i \in T : i \in Nat /\ n - i \in Nat
  OBVIOUS
<1>1. U \subseteq Nat /\ U # {}
  BY <1>t
<1>2. PICK m \in U : \A k \in U : m <= k
  <2> HIDE DEF U
  <2> QED BY <1>1, LeastNatural
<1>3. PICK j \in T : m = n - j
  BY <1>2
<1>4. ASSUME NEW i \in T PROVE j >= i
  <2>1. m <= n - i
    BY <1>2
  <2>2. i \in Nat /\ j \in Nat
    BY <1>t
  <2> QED BY <1>3, <2>1, <2>2
<1>5. \E x \in T : \A y \in T : x >= y
  BY <1>4
<1>6. History!Max(T) \in T /\ \A i \in T : History!Max(T) >= i
  BY <1>5 DEF History!Max
<1> QED BY <1>6

\* While the device reads on, what it has is behind its cursor.
HistoryTrue ==
  /\ History!TypeOK /\ History!NothingSkipped /\ History!LateOnlyByChange /\ History!InOrder
  /\ reading = "on" => \A n \in DOMAIN got : \A i \in got[n] : i <= cursor

LEMMA RowsAre ==
  ASSUME History!TypeOK
  PROVE  /\ History!After \subseteq DOMAIN turns \ archived /\ DOMAIN turns = 1 .. Len(turns)
         /\ Len(turns) \in Nat /\ cursor \in Nat
         /\ History!Stops \subseteq History!After
         /\ History!Inspected \subseteq History!After /\ History!Scanned \subseteq History!After
         /\ History!Fitting \subseteq History!Items /\ History!Items \subseteq History!Scanned
         /\ \A i \in History!After : i \in Nat /\ i > cursor
<1>1. DOMAIN turns = 1 .. Len(turns) /\ Len(turns) \in Nat
  BY DEF History!TypeOK, History!Table
<1>2. History!After \subseteq DOMAIN turns \ archived /\ \A i \in History!After : i > cursor
  BY DEF History!After
<1>3. History!Stops \subseteq History!After /\ History!Scanned \subseteq History!After
  BY DEF History!Stops, History!Scanned
<1>4. History!Inspected \subseteq History!After /\ History!Items \subseteq History!Scanned
      /\ History!Fitting \subseteq History!Items
  BY <1>3 DEF History!Inspected, History!Items, History!Fitting
<1> QED BY <1>1, <1>2, <1>3, <1>4 DEF History!TypeOK

\* Up to a row that was scanned, everything that matches is an item.
LEMMA ScannedWhole ==
  ASSUME History!TypeOK,
         NEW c \in History!Scanned, NEW i \in History!After, i <= c, History!Matches(i)
  PROVE  i \in History!Items
<1>1. \A k \in History!Stops : i < k
  <2> SUFFICES ASSUME NEW k \in History!Stops PROVE i < k
    OBVIOUS
  <2>1. c < k
    BY DEF History!Scanned
  <2>2. i \in Nat /\ c \in Nat /\ k \in Nat
    BY RowsAre
  <2> QED BY <2>1, <2>2
<1> QED BY <1>1 DEF History!Items, History!Scanned

\* A page that is not refused has something to put its cursor at.
LEMMA SomethingScanned ==
  ASSUME History!TypeOK, History!HasMore, ~History!Refuses, History!Items = {}
  PROVE  History!Inspected = History!Scanned /\ History!Scanned # {}
<1>1. History!Inspected = History!Scanned
  BY DEF History!Refuses
<1>2. CASE History!Stops = {}
  <2>1. Cardinality(History!Scanned) = MaxRows
    BY <1>2, SameSizes DEF History!HasMore
  <2> QED BY <1>1, <2>1, HistoryConstants, FS_EmptySet
<1>3. CASE History!Stops # {}
  <2>1. PICK e \in History!Stops : \A k \in History!Stops : e <= k
    BY <1>3, RowsAre, LeastNatural
  <2>2. History!Full(e)
    <3> SUFFICES ASSUME ~History!Full(e) PROVE FALSE
      OBVIOUS
    <3>1. e \in History!Scanned
      BY <1>1, <2>1 DEF History!Inspected
    <3>2. e \in Nat /\ e < e
      BY <3>1, RowsAre DEF History!Scanned
    <3> QED BY <3>2
  <2>3. History!Seen(e) \subseteq History!Scanned
    <3>1. ASSUME NEW i \in History!Seen(e), NEW k \in History!Stops PROVE i < k
      <4>1. i < e /\ e <= k /\ i \in Nat /\ e \in Nat /\ k \in Nat
        BY <2>1, <3>1, RowsAre DEF History!Seen
      <4> QED BY <4>1
    <3> QED BY <3>1 DEF History!Seen, History!Scanned
  <2>4. History!Found(e) = {}
    BY <2>3 DEF History!Found, History!Items
  <2>5. History!Seen(e) # {}
    <3>1. Cardinality(History!Found(e)) = 0
      BY <2>4, FS_EmptySet
    <3>2. Cardinality(History!Seen(e)) >= MaxRows
      BY <2>2, <3>1, HistoryConstants, SameSizes DEF History!Full
    <3> QED BY <3>2, HistoryConstants, FS_EmptySet
  <2> QED BY <1>1, <2>3, <2>5
<1> QED BY <1>2, <1>3

LEMMA Appended ==
  ASSUME History!TypeOK, NEW page \in SUBSET (DOMAIN turns), got' = Append(got, page)
  PROVE  /\ got' \in Seq(SUBSET DOMAIN turns) /\ DOMAIN got = 1 .. Len(got) /\ Len(got) \in Nat
         /\ DOMAIN got' = 1 .. (Len(got) + 1)
         /\ got'[Len(got) + 1] = page /\ \A n \in DOMAIN got : got'[n] = got[n]
<1>1. got \in Seq(SUBSET DOMAIN turns)
  BY DEF History!TypeOK
<1> HIDE DEF History!TypeOK
<1> QED BY <1>1

\* A page of rows behind the cursor keeps what is there, and the order.
LEMMA PageAdds ==
  ASSUME HistoryTrue, reading = "on",
         NEW page, page \subseteq History!Items, got' = Append(got, page)
  PROVE  /\ History!InOrder' /\ got' \in Seq(SUBSET DOMAIN turns)
         /\ \A i : (\E n \in DOMAIN got' : i \in got'[n]) <=>
                   (\E n \in DOMAIN got : i \in got[n]) \/ i \in page
<1>t. History!TypeOK /\ page \subseteq DOMAIN turns /\ page \subseteq History!After
  BY RowsAre DEF HistoryTrue
<1>1. /\ got' \in Seq(SUBSET DOMAIN turns) /\ DOMAIN got = 1 .. Len(got) /\ Len(got) \in Nat
      /\ DOMAIN got' = 1 .. (Len(got) + 1)
      /\ got'[Len(got) + 1] = page /\ \A n \in DOMAIN got : got'[n] = got[n]
  BY <1>t, Appended
<1>2. ASSUME NEW m \in DOMAIN got', NEW n \in DOMAIN got', m < n,
             NEW i \in got'[m], NEW k \in got'[n]
      PROVE  i < k
  <2>1. m \in DOMAIN got /\ i \in got[m]
    BY <1>1, <1>2
  <2>2. CASE n \in DOMAIN got
    BY <1>1, <1>2, <2>1, <2>2 DEF HistoryTrue, History!InOrder
  <2>3. CASE n \notin DOMAIN got
    <3>1. k \in page
      BY <1>1, <2>3
    <3>2. i <= cursor /\ k > cursor /\ k \in Nat /\ cursor \in Nat
      BY <1>t, <2>1, <3>1, RowsAre DEF HistoryTrue
    <3>3. i \in Nat
      BY <1>t, <2>1, RowsAre DEF History!TypeOK
    <3> QED BY <3>2, <3>3
  <2> QED BY <2>2, <2>3
<1>3. History!InOrder'
  BY <1>2 DEF History!InOrder
<1>4. \A i : (\E n \in DOMAIN got' : i \in got'[n]) <=>
             (\E n \in DOMAIN got : i \in got[n]) \/ i \in page
  BY <1>1
<1> QED BY <1>1, <1>3, <1>4

\* The last page has all that is left.
LEMMA LastStep ==
  ASSUME HistoryTrue, reading = "on", History!LastPage, UNCHANGED <<turns, archived, asked, late>>
  PROVE  HistoryTrue'
<1>1. History!Stops = {}
  BY DEF History!LastPage, History!HasMore
<1>2. History!Items = {i \in History!After : History!Matches(i)}
  BY <1>1 DEF History!Scanned, History!Items
<1>3. /\ History!InOrder' /\ got' \in Seq(SUBSET DOMAIN turns)
      /\ \A i : (\E n \in DOMAIN got' : i \in got'[n]) <=>
                (\E n \in DOMAIN got : i \in got[n]) \/ i \in History!Items
  BY PageAdds DEF History!LastPage
<1>4. History!TypeOK'
  BY <1>3 DEF HistoryTrue, History!TypeOK, History!LastPage
<1>5. History!NothingSkipped'
  <2> SUFFICES ASSUME NEW i \in DOMAIN turns \ (archived \cup late), History!Wanted(turns[i])
               PROVE  \E n \in DOMAIN got' : i \in got'[n]
    BY DEF History!NothingSkipped, History!Wanted, History!OfType, History!InProject, History!TypeOf
  <2>1. CASE i <= cursor
    BY <1>3, <2>1 DEF HistoryTrue, History!NothingSkipped
  <2>2. CASE ~(i <= cursor)
    <3>1. i \in Nat /\ cursor \in Nat
      BY RowsAre DEF HistoryTrue
    <3>2. i \in History!After /\ History!Matches(i)
      BY <2>2, <3>1 DEF History!After, History!Wanted, History!Matches
    <3> QED BY <1>2, <1>3, <3>2
  <2> QED BY <2>1, <2>2
<1> QED BY <1>3, <1>4, <1>5 DEF HistoryTrue, History!LastPage, History!LateOnlyByChange

\* The cursor of a page that another one follows: all that matches up to it is
\* on the page, and nothing on the page is past it.
LEMMA CursorTells ==
  ASSUME HistoryTrue, History!FullPage
  PROVE  /\ cursor' \in History!Scanned
         /\ \A i \in History!Fitting : i <= cursor'
         /\ \A i \in History!After : i <= cursor' /\ History!Matches(i) => i \in History!Fitting
<1>t. History!TypeOK
  BY DEF HistoryTrue
<1>r. /\ Len(turns) \in Nat
      /\ History!Scanned \subseteq 1 .. Len(turns) /\ History!Items \subseteq 1 .. Len(turns)
      /\ History!Fitting \subseteq 1 .. Len(turns)
      /\ History!Fitting \subseteq History!Items /\ History!Items \subseteq History!Scanned
      /\ \A i \in History!After : i \in Nat
  BY <1>t, RowsAre
<1>1. CASE History!Fitting = History!Items /\ History!Items # {}
  <2>1. cursor' = History!Max(History!Items)
    BY <1>1 DEF History!FullPage, History!NextCursor
  <2>2. cursor' \in History!Items /\ \A i \in History!Items : i <= cursor'
    BY <1>1, <1>r, <2>1, GreatestIs
  <2> QED BY <1>1, <1>r, <1>t, <2>2, ScannedWhole
<1>2. CASE History!Fitting # History!Items
  <2>1. History!Fitting # {} /\ cursor' = History!Max(History!Fitting)
    BY <1>2, <1>r DEF History!FullPage
  <2>2. cursor' \in History!Fitting /\ \A i \in History!Fitting : i <= cursor'
    BY <1>r, <2>1, GreatestIs
  <2>3. PICK k \in History!Items : cursor' <= k /\ History!Fits(k)
    BY <2>2 DEF History!Fitting
  <2>4. ASSUME NEW i \in History!After, i <= cursor', History!Matches(i)
        PROVE  i \in History!Fitting
    <3>1. i \in History!Items
      BY <1>r, <1>t, <2>2, <2>4, ScannedWhole
    <3>2. i <= k
      <4>1. i \in Nat /\ k \in Nat /\ cursor' \in Nat
        BY <1>r, <2>2
      <4> QED BY <2>3, <2>4, <4>1
    <3> QED BY <2>3, <3>1, <3>2 DEF History!Fitting
  <2> QED BY <1>r, <2>2, <2>4
<1>3. CASE History!Items = {}
  <2>1. History!Inspected = History!Scanned /\ History!Scanned # {}
    BY <1>3, <1>t, SomethingScanned DEF History!FullPage
  <2>2. History!Fitting = History!Items /\ History!Fitting = {}
    BY <1>3, <1>r
  <2>3. cursor' = History!Max(History!Scanned)
    BY <1>3, <2>1, <2>2 DEF History!FullPage, History!NextCursor
  <2>4. cursor' \in History!Scanned
    BY <1>r, <2>1, <2>3, GreatestIs
  <2>5. \A i \in History!After : i <= cursor' /\ History!Matches(i) => i \in History!Fitting
    BY <1>t, <2>2, <2>4, ScannedWhole
  <2> QED BY <2>2, <2>4, <2>5
<1> QED BY <1>1, <1>2, <1>3

LEMMA FullStep ==
  ASSUME HistoryTrue, reading = "on", History!FullPage, UNCHANGED <<turns, archived, asked, late>>
  PROVE  HistoryTrue'
<1>t. History!TypeOK
  BY DEF HistoryTrue
<1>1. /\ cursor' \in History!Scanned
      /\ \A i \in History!Fitting : i <= cursor'
      /\ \A i \in History!After : i <= cursor' /\ History!Matches(i) => i \in History!Fitting
  BY CursorTells
<1>2. cursor' \in 0 .. Len(turns) /\ cursor < cursor' /\ cursor \in Nat /\ cursor' \in Nat
  BY <1>1, <1>t, RowsAre
<1>3. History!Fitting \subseteq History!Items
  BY <1>t, RowsAre
<1>4. /\ History!InOrder' /\ got' \in Seq(SUBSET DOMAIN turns)
      /\ \A i : (\E n \in DOMAIN got' : i \in got'[n]) <=>
                (\E n \in DOMAIN got : i \in got[n]) \/ i \in History!Fitting
  BY <1>3, PageAdds DEF History!FullPage
<1>5. History!TypeOK'
  BY <1>2, <1>4 DEF HistoryTrue, History!TypeOK, History!FullPage
<1>6. History!NothingSkipped'
  <2> SUFFICES ASSUME NEW i \in DOMAIN turns \ (archived \cup late), History!Wanted(turns[i]),
                      i <= cursor'
               PROVE  \E n \in DOMAIN got' : i \in got'[n]
    BY DEF History!NothingSkipped, History!Wanted, History!OfType, History!InProject,
       History!TypeOf, History!FullPage
  <2>1. CASE i <= cursor
    BY <1>4, <2>1 DEF HistoryTrue, History!NothingSkipped
  <2>2. CASE ~(i <= cursor)
    <3>1. i \in Nat /\ cursor \in Nat
      BY <1>t, RowsAre
    <3>2. i \in History!After /\ History!Matches(i)
      BY <2>2, <3>1 DEF History!After, History!Wanted, History!Matches
    <3> QED BY <1>1, <1>4, <3>2
  <2> QED BY <2>1, <2>2
<1>7. ASSUME NEW n \in DOMAIN got', NEW i \in got'[n]
      PROVE  i <= cursor'
  <2>1. CASE i \in History!Fitting
    BY <1>1, <2>1
  <2>2. CASE i \notin History!Fitting
    <3>1. PICK m \in DOMAIN got : i \in got[m]
      BY <1>4, <1>7, <2>2
    <3>2. i <= cursor
      BY <3>1 DEF HistoryTrue
    <3>3. i \in Nat
      BY <1>t, <3>1, RowsAre DEF History!TypeOK
    <3> QED BY <1>2, <3>2, <3>3
  <2> QED BY <2>1, <2>2
<1> QED BY <1>4, <1>5, <1>6, <1>7 DEF HistoryTrue, History!LateOnlyByChange

LEMMA AcceptStep ==
  ASSUME HistoryTrue, NEW turn \in Fresh, History!Accept(turn)
  PROVE  HistoryTrue'
<1>t. History!TypeOK
  BY DEF HistoryTrue
<1>1. /\ turns' \in History!Table /\ Len(turns) \in Nat /\ Len(turns') = Len(turns) + 1
      /\ DOMAIN turns = 1 .. Len(turns) /\ DOMAIN turns' = 1 .. (Len(turns) + 1)
      /\ \A i \in DOMAIN turns : turns'[i] = turns[i]
  <2>1. turns \in History!Table /\ turn \in History!Turn
        /\ turns' = Append(turns, turn)
    BY <1>t, HistoryConstants DEF History!TypeOK, History!Accept
  <2> QED BY <2>1 DEF History!Table
<1>2. DOMAIN turns \subseteq DOMAIN turns'
  BY <1>1
<1>3. got' = got /\ cursor' = cursor /\ archived' = archived /\ reading' = reading
      /\ asked' = asked /\ late' = late /\ reading = "on"
  BY DEF History!Accept
<1>4. History!TypeOK'
  <2>1. got \in Seq(SUBSET DOMAIN turns')
    <3>1. got \in Seq(SUBSET DOMAIN turns)
      BY <1>t DEF History!TypeOK
    <3>2. SUBSET DOMAIN turns \subseteq SUBSET DOMAIN turns'
      BY <1>2
    <3> DEFINE S == SUBSET DOMAIN turns
               T == SUBSET DOMAIN turns'
    <3>3. got \in Seq(S) /\ S \subseteq T
      BY <3>1, <3>2
    <3> HIDE DEF S, T
    <3>4. got \in Seq(T)
      BY <3>3
    <3> QED BY <3>4 DEF T
  <2>2. cursor \in 0 .. Len(turns')
    BY <1>1, <1>t DEF History!TypeOK
  <2> QED BY <1>1, <1>2, <1>3, <1>t, <2>1, <2>2 DEF History!TypeOK
<1>5. History!NothingSkipped'
  <2> SUFFICES ASSUME NEW i \in DOMAIN turns' \ (archived \cup late),
                      History!Wanted(turns[i])', i <= cursor
               PROVE  \E n \in DOMAIN got : i \in got[n]
    BY <1>3 DEF History!NothingSkipped
  <2>1. i \in DOMAIN turns
    BY <1>1, <1>t DEF History!TypeOK
  <2>2. History!Wanted(turns[i])
    BY <1>1, <1>3, <2>1 DEF History!Wanted, History!OfType, History!InProject, History!TypeOf
  <2> QED BY <2>1, <2>2 DEF HistoryTrue, History!NothingSkipped
<1> QED BY <1>3, <1>4, <1>5 DEF HistoryTrue, History!InOrder, History!LateOnlyByChange

LEMMA ArchiveStep ==
  ASSUME HistoryTrue, NEW i \in DOMAIN turns, History!Archive(i)
  PROVE  HistoryTrue'
<1>1. History!TypeOK'
  BY DEF HistoryTrue, History!TypeOK, History!Archive
<1>2. History!NothingSkipped'
  BY DEF HistoryTrue, History!NothingSkipped, History!Wanted, History!OfType,
     History!InProject, History!TypeOf, History!Archive
<1> QED BY <1>1, <1>2 DEF HistoryTrue, History!InOrder, History!LateOnlyByChange, History!Archive

\* A turn that comes to be asked for behind the cursor is late; the others that
\* are asked for were before.
LEMMA BecomesStep ==
  ASSUME HistoryTrue, NEW i \in DOMAIN turns, NEW turn \in History!Turn,
         History!Becomes(i, turn),
         ~History!Wanted(turns[i]) /\ History!Wanted(turn) => asked.type = "audio" \/ asked.project
  PROVE  HistoryTrue'
<1>t. History!TypeOK
  BY DEF HistoryTrue
<1>1. /\ turns' = [turns EXCEPT ![i] = turn] /\ reading = "on"
      /\ got' = got /\ cursor' = cursor /\ archived' = archived /\ reading' = reading
      /\ asked' = asked
      /\ late' = IF i <= cursor /\ History!Wanted(turn) /\ ~History!Wanted(turns[i])
                 THEN late \cup {i} ELSE late
  BY DEF History!Becomes
<1>2. turns' \in History!Table /\ DOMAIN turns' = DOMAIN turns /\ Len(turns') = Len(turns)
      /\ \A k \in DOMAIN turns : turns'[k] = IF k = i THEN turn ELSE turns[k]
  <2>1. turns \in Seq(History!Turn)
    BY <1>t DEF History!TypeOK, History!Table
  <2> QED BY <1>1, <2>1 DEF History!Table
<1>3. History!TypeOK'
  BY <1>1, <1>2, <1>t DEF History!TypeOK
<1>4. History!NothingSkipped'
  <2> SUFFICES ASSUME NEW k \in DOMAIN turns \ (archived \cup late'),
                      History!Wanted(turns[k])', k <= cursor
               PROVE  \E n \in DOMAIN got : k \in got[n]
    BY <1>1, <1>2 DEF History!NothingSkipped
  <2>1. k \notin late /\ History!Wanted(turns'[k])
    BY <1>1 DEF History!Wanted, History!OfType, History!InProject, History!TypeOf
  <2>2. History!Wanted(turns[k])
    BY <1>1, <1>2, <2>1
  <2> QED BY <2>1, <2>2 DEF HistoryTrue, History!NothingSkipped
<1>5. History!LateOnlyByChange'
  BY <1>1 DEF HistoryTrue, History!LateOnlyByChange
<1> QED BY <1>1, <1>3, <1>4, <1>5 DEF HistoryTrue, History!InOrder

LEMMA TurnIs == ASSUME History!TypeOK, NEW i \in DOMAIN turns PROVE turns[i] \in History!Turn
BY DEF History!TypeOK, History!Table

LEMMA TranscribedStep ==
  ASSUME HistoryTrue, NEW i \in DOMAIN turns, NEW bytes \in Sizes, History!Transcribed(i, bytes)
  PROVE  HistoryTrue'
<1> DEFINE turn == [turns[i] EXCEPT !.said = TRUE, !.bytes = bytes]
<1>1. turns[i] \in History!Turn /\ bytes \in Nat
  BY TurnIs, HistoryConstants DEF HistoryTrue
<1>2. /\ turn \in History!Turn /\ turn.said /\ turn.placed = turns[i].placed
  BY <1>1 DEF History!Turn
<1>3. History!Becomes(i, turn)
  BY DEF History!Transcribed
<1>4. ~History!Wanted(turns[i]) /\ History!Wanted(turn) => asked.type = "audio" \/ asked.project
  BY <1>2 DEF History!Wanted, History!OfType, History!InProject, History!TypeOf
<1> QED BY <1>2, <1>3, <1>4, BecomesStep

LEMMA RoutedStep ==
  ASSUME HistoryTrue, NEW i \in DOMAIN turns, History!Routed(i) PROVE HistoryTrue'
<1> DEFINE turn == [turns[i] EXCEPT !.placed = TRUE]
<1>1. turns[i] \in History!Turn
  BY TurnIs DEF HistoryTrue
<1>2. turn \in History!Turn /\ turn.said = turns[i].said /\ turn.typed = turns[i].typed
  BY <1>1 DEF History!Turn
<1>3. History!Becomes(i, turn)
  BY DEF History!Routed
<1>4. ~History!Wanted(turns[i]) /\ History!Wanted(turn) => asked.type = "audio" \/ asked.project
  BY <1>2 DEF History!Wanted, History!OfType, History!InProject, History!TypeOf
<1> QED BY <1>2, <1>3, <1>4, BecomesStep

LEMMA RewordedStep ==
  ASSUME HistoryTrue, NEW i \in DOMAIN turns, NEW bytes \in Sizes, History!Reworded(i, bytes)
  PROVE  HistoryTrue'
<1> DEFINE turn == [turns[i] EXCEPT !.bytes = bytes]
<1>1. turns[i] \in History!Turn /\ bytes \in Nat
  BY TurnIs, HistoryConstants DEF HistoryTrue
<1>2. /\ turn \in History!Turn /\ turn.said = turns[i].said /\ turn.typed = turns[i].typed
      /\ turn.placed = turns[i].placed
  BY <1>1 DEF History!Turn
<1>3. History!Becomes(i, turn)
  BY DEF History!Reworded
<1>4. ~(~History!Wanted(turns[i]) /\ History!Wanted(turn))
  BY <1>2 DEF History!Wanted, History!OfType, History!InProject, History!TypeOf
<1> QED BY <1>2, <1>3, <1>4, BecomesStep

LEMMA HistoryStays ==
  ASSUME HistoryTrue, [History!Next]_History!vars
  PROVE  HistoryTrue'
<1>1. CASE History!Ask
  <2>1. CASE History!LastPage
    BY <1>1, <2>1, LastStep DEF History!Ask
  <2>2. CASE History!FullPage
    BY <1>1, <2>2, FullStep DEF History!Ask
  <2>3. CASE History!Refused
    BY <1>1, <2>3 DEF History!Ask, History!Refused, HistoryTrue, History!TypeOK,
       History!NothingSkipped, History!Wanted, History!OfType, History!InProject,
       History!TypeOf, History!LateOnlyByChange, History!InOrder
  <2> QED BY <1>1, <2>1, <2>2, <2>3 DEF History!Ask
<1>2. CASE \E turn \in Fresh : History!Accept(turn)
  BY <1>2, AcceptStep
<1>3. CASE \E i \in DOMAIN turns : History!Archive(i)
  BY <1>3, ArchiveStep
<1>4. CASE \E i \in DOMAIN turns : History!Routed(i)
  BY <1>4, RoutedStep
<1>5. CASE \E i \in DOMAIN turns, bytes \in Sizes :
             History!Transcribed(i, bytes) \/ History!Reworded(i, bytes)
  BY <1>5, TranscribedStep, RewordedStep
<1>6. CASE UNCHANGED History!vars
  BY <1>6 DEF History!vars, HistoryTrue, History!TypeOK, History!NothingSkipped, History!Wanted,
     History!OfType, History!InProject, History!TypeOf, History!LateOnlyByChange, History!InOrder
<1> QED BY <1>1, <1>2, <1>3, <1>4, <1>5, <1>6 DEF History!Next

LEMMA HistoryStarts == History!Init => HistoryTrue
<1> SUFFICES ASSUME History!Init PROVE HistoryTrue
  OBVIOUS
<1>1. turns \in History!Table /\ got = <<>> /\ cursor = 0 /\ reading = "on" /\ archived = {}
      /\ late = {} /\ asked \in Filters
  BY HistoryConstants DEF History!Init
<1>2. Len(turns) \in Nat /\ DOMAIN turns = 1 .. Len(turns)
  BY <1>1 DEF History!Table
<1>3. History!TypeOK
  BY <1>1, <1>2 DEF History!TypeOK
<1>4. History!NothingSkipped
  BY <1>1, <1>2 DEF History!NothingSkipped
<1> QED BY <1>1, <1>3, <1>4 DEF HistoryTrue, History!InOrder, History!LateOnlyByChange

\* A device that reads the history gets every turn it asks for that is not
\* archived, once and in order: whatever is accepted, transcribed, routed, answered
\* and archived between its pages, and however the limits on rows, parts and bytes
\* cut them.  It misses those only that came to be asked for behind its cursor,
\* which takes the filter "audio" or that of a project.
THEOREM HistoryCorrect == History!Spec => []NothingMissed
<1>1. HistoryTrue => NothingMissed
  BY DEF HistoryTrue, NothingMissed
<1> QED BY <1>1, HistoryStarts, HistoryStays, PTL DEF History!Spec

=============================================================================
