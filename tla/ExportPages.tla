------------------------------ MODULE ExportPages ------------------------------
(***************************************************************************)
(* The export of one device's diagnostics, page after page, in             *)
(* recorder_next/features.py: export_diagnostics with its limits on items  *)
(* and bytes and its cursor into the union of events, bundles and          *)
(* tombstones, while these arrive, expire and are deleted by the owner.    *)
(*                                                                         *)
(* An entry is its place in the order the union is sorted by: the time     *)
(* (occurred_at of an event, which the device chooses, created_at of a     *)
(* bundle or deleted_at of a tombstone, which the server chooses), then    *)
(* the type.  The end of a tombstone's own retention is left out.          *)
(***************************************************************************)
EXTENDS Integers, FiniteSets, FiniteSetsExt

CONSTANTS
  Times,        \* the times there are, 1 .. n
  MaxEvents,    \* diagnostic events and bundles (bound)
  Bundled,      \* those of them that are bundles
  Small, Large, \* bytes an event or bundle may have in a page, and
  Stone,        \* a tombstone
  Limit,        \* items of a page
  MaxBytes, CursorBytes   \* bytes of a page; bytes of the cursor in it

VARIABLES
  event,     \* diagnostic_events and diagnostic_bundles: state, time and bytes of each
  clock,     \* the time of the server
  cursor,    \* the key the device holds, Bottom before the first page
  got,       \* the entries it has received
  learned,   \* entities whose deletion it has received
  late,      \* entries that took their place behind the cursor
  reading    \* on, done, or refused

vars == <<event, clock, cursor, got, learned, late, reading>>

Entity == 1 .. MaxEvents   \* entity_id, which orders entries of one time and type

\* The keys of the union: <<sort_at, sort_type, entity_id>>.
Bottom == <<0, 0, 0>>

Before(k, l) ==
  \/ k[1] < l[1]
  \/ k[1] = l[1] /\ k[2] < l[2]
  \/ k[1] = l[1] /\ k[2] = l[2] /\ k[3] < l[3]

Absent == [state |-> "ABSENT", at |-> 0, bytes |-> 0]

TypeOK ==
  /\ event \in [Entity -> [state: {"ABSENT", "LIVE", "DELETED"}, at: {0} \cup Times, bytes: {0, Small, Large}]]
  /\ clock \in Times
  /\ cursor \in ({0} \cup Times) \X (0 .. 2) \X (0 .. MaxEvents)
  /\ got \subseteq Entity /\ learned \subseteq Entity
  /\ late \subseteq Entity
  /\ reading \in {"on", "done", "refused"}
  /\ \A e \in learned : event[e].state = "DELETED"

Init ==
  /\ event = [e \in Entity |-> Absent]
  /\ clock \in Times /\ \A u \in Times : clock <= u
  /\ cursor = Bottom /\ got = {} /\ learned = {} /\ late = {} /\ reading = "on"

-----------------------------------------------------------------------------
(* One page.                                                               *)

\* An event, a bundle or a tombstone.
SortType(row, e) == IF row.state # "LIVE" THEN 2 ELSE IF e \in Bundled THEN 1 ELSE 0

PlaceOf(row, e) == <<row.at, SortType(row, e), e>>

KeyOf(e) == PlaceOf(event[e], e)

Weight(e) == IF event[e].state = "LIVE" THEN event[e].bytes ELSE Stone

Bytes(items) == MapThenSumSet(Weight, items)

\* Mutant of After: the time alone decides.
AfterTime(e) == event[e].state # "ABSENT" /\ cursor[1] < event[e].at

After(e) == event[e].state # "ABSENT" /\ Before(cursor, KeyOf(e))

\* The rows after the cursor; in their order, those up to d.
Rows == {e \in Entity : After(e)}
UpTo(d) == {e \in Rows : e = d \/ Before(KeyOf(e), KeyOf(d))}

\* Row by row, until a limit is met; the cursor does not count yet.
Fits(d) == Cardinality(UpTo(d)) <= Limit /\ Bytes(UpTo(d)) <= MaxBytes
Accepted == {e \in Rows : \A d \in UpTo(e) : Fits(d)}

Truncated == Accepted # Rows

\* An item alone exceeds the limit, or the page does once the cursor is in it.
Exceeds == Truncated /\ (Accepted = {} \/ Bytes(Accepted) + CursorBytes > MaxBytes)

\* The page; the key of its last row is the cursor, if it is not the last page.
Answer ==
  /\ got' = got \cup {e \in Accepted : event[e].state = "LIVE"}
  /\ learned' = learned \cup {e \in Accepted : event[e].state = "DELETED"}
  /\ \/ /\ Truncated /\ UNCHANGED reading
        /\ \E last \in Accepted : Accepted \subseteq UpTo(last) /\ cursor' = KeyOf(last)
     \/ ~Truncated /\ reading' = "done" /\ UNCHANGED cursor

Ask ==
  /\ reading = "on"
  /\ \/ Exceeds /\ reading' = "refused" /\ UNCHANGED <<cursor, got, learned>>
     \/ ~Exceeds /\ Answer
  /\ UNCHANGED <<event, clock, late>>

-----------------------------------------------------------------------------
(* What happens between pages.                                             *)

\* The places of entries in state new that the cursor is past already.
Behind(new) == {e \in Entity : new[e] # event[e] /\ ~Before(cursor, PlaceOf(new[e], e))}

Change(new) ==
  /\ event' = new
  /\ late' = late \cup Behind(new)
  /\ UNCHANGED <<clock, cursor, got, learned, reading>>

\* ingest_diagnostic_event with an occurred_at of the device's own, which may
\* lie in the past or in the future, or the upload of a bundle, which is of now.
Ingest(e, t, bytes) ==
  /\ reading = "on" /\ event[e].state = "ABSENT"
  /\ e \in Bundled => t = clock
  /\ Change([event EXCEPT ![e] = [state |-> "LIVE", at |-> t, bytes |-> bytes]])

Tombstone == [state |-> "DELETED", at |-> clock, bytes |-> 0]

\* delete_diagnostics: whatever there is becomes a tombstone of now.
DeleteAll ==
  /\ reading = "on" /\ \E e \in Entity : event[e].state = "LIVE"
  /\ Change([e \in Entity |-> IF event[e].state = "LIVE" THEN Tombstone ELSE event[e]])

\* The retention of one is over: _expire_diagnostics_tx, by which a request for a
\* page begins, and other requests do.
Expire(e) ==
  /\ reading = "on" /\ event[e].state = "LIVE"
  /\ Change([event EXCEPT ![e] = Tombstone])

Tick ==
  /\ reading = "on" /\ clock + 1 \in Times
  /\ clock' = clock + 1
  /\ UNCHANGED <<event, cursor, got, learned, late, reading>>

Next ==
  \/ Ask \/ DeleteAll \/ Tick
  \/ \E e \in Entity, t \in Times, bytes \in {Small, Large} : Ingest(e, t, bytes)
  \/ \E e \in Entity : Expire(e)

Spec == Init /\ [][Next]_vars

-----------------------------------------------------------------------------
(* Properties.                                                             *)

\* test_diagnostics_export_is_complete: who follows next_cursor to the end has
\* everything there is and the tombstone of everything that is gone, also of what
\* it received before, however the limits cut the pages.  Only an entry that was
\* put behind the cursor (an event with an earlier time, a deletion while the
\* cursor is at a time to come) is missed.
ExportComplete ==
  \A e \in Entity \ late :
    event[e].state # "ABSENT" /\ (reading = "done" \/ ~Before(cursor, KeyOf(e))) =>
      e \in (IF event[e].state = "LIVE" THEN got ELSE learned)

=============================================================================
