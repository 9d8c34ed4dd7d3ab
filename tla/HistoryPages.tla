----------------------------- MODULE HistoryPages -----------------------------
(***************************************************************************)
(* GET /v1/history as a device reads it, page after page, in               *)
(* recorder_next/features.py, group 5: history_read_model with its cursor, *)
(* its filters by input type and project and its limits on rows and parts  *)
(* inspected and on the bytes of a page, while turns are accepted,         *)
(* transcribed, routed, answered and archived.                             *)
(*                                                                         *)
(* A turn is its place in the order of acceptance.  A page is told by what *)
(* the scan meets first: the least row that it stops at.  The batches it   *)
(* is scanned in are left out, except that a scan which has just used up   *)
(* its rows does not know whether any are left.                            *)
(***************************************************************************)
EXTENDS Integers, Sequences, FiniteSets, FiniteSetsExt

CONSTANTS
  Tables,       \* the turns there may be at first: sequences of turns
  Fresh,        \* the turns that may be accepted meanwhile
  Sizes,        \* the bytes an item may come to have
  MaxTurns,     \* bound
  Kinds, AnyType,   \* input types, "audio" among them; what stands for any
  Filters,      \* what may be asked for: an input type or AnyType, and whether
                \* only the turns of one project
  Limit, MaxRows, MaxParts,   \* turns in a page; rows and parts it may inspect
  MaxBytes, CursorBytes       \* bytes of a page; bytes of the cursor in it

VARIABLES
  turns,     \* the accepted turns of the user, in order
  archived,  \* those with archived_at
  asked,     \* the filters of the request; a cursor is refused with others
  cursor,    \* accepted_seq of the cursor the device holds, 0 before the first page
  got,       \* the pages it has received, each with its turns
  reading,   \* whether it goes on, is done, or was refused
  late       \* turns that only came to be asked for behind the cursor

vars == <<turns, archived, asked, cursor, got, reading, late>>

\* The type its parts give a turn, whether there is audio among them and whether
\* it has a transcript, whether it is in the project, the number of its parts and
\* the bytes of its item.
Turn == [typed: Kinds, spoken: BOOLEAN, said: BOOLEAN, placed: BOOLEAN, parts: Nat, bytes: Nat]
Table == Seq(Turn)

TypeOK ==
  /\ turns \in Table /\ archived \cup late \subseteq DOMAIN turns
  /\ asked \in Filters
  /\ cursor \in 0 .. Len(turns)
  /\ got \in Seq(SUBSET DOMAIN turns)
  /\ reading \in {"on", "done", "refused"}

Init ==
  /\ turns \in Tables /\ asked \in Filters
  /\ archived = {} /\ cursor = 0 /\ got = <<>> /\ reading = "on" /\ late = {}

-----------------------------------------------------------------------------
(* One page.                                                               *)

\* A transcript makes any turn an audio turn.
TypeOf(turn) == IF turn.said THEN "audio" ELSE turn.typed

OfType(turn) == asked.type = AnyType \/ TypeOf(turn) = asked.type
InProject(turn) == asked.project => turn.placed
Wanted(turn) == OfType(turn) /\ InProject(turn)

Matches(i) == OfType(turns[i])

Parts(rows) == MapThenSumSet(LAMBDA i : turns[i].parts, rows)
Bytes(items) == MapThenSumSet(LAMBDA i : turns[i].bytes, items)

\* The rows of the scan, which are those of the project, those that come before
\* one of them, and the items that have been found by then.
After == {i \in DOMAIN turns \ archived : i > cursor /\ InProject(turns[i])}
Seen(i) == {k \in After : k < i}
Found(i) == {k \in Seen(i) : Matches(k)}

\* The scan stops before it looks at the row: the page is full, or it has
\* inspected all the rows it may.
Full(i) == Cardinality(Found(i)) >= Limit \/ Cardinality(Seen(i)) >= MaxRows

\* It stops at the row: its parts are too many, or its item is too long.
TooMuch(i) ==
  \/ turns[i].parts > MaxParts - Parts(Seen(i))
  \/ Matches(i) /\ Bytes(Found(i)) + turns[i].bytes > MaxBytes

Stops == {i \in After : Full(i) \/ TooMuch(i)}

\* Before the first stop everything is scanned, and what matches is an item.
Scanned == {i \in After : \A k \in Stops : i < k}
Items == {i \in Scanned : Matches(i)}
Inspected == Scanned \cup {i \in Stops : ~Full(i) /\ \A k \in Stops : i <= k}

HasMore == Stops # {} \/ Cardinality(Scanned) = MaxRows

\* A row that is too much refuses the request when nothing was found before it.
Refuses == Items = {} /\ Inspected # Scanned

\* Mutant of NextCursor: where the scan ended.
NextCursorScanned == Max(Inspected)

\* The last turn returned, or the last one inspected if none was.
NextCursor == Max(IF Items # {} THEN Items ELSE Inspected)

\* What a page with a cursor can hold: turns are taken off its end until it fits.
Fits(i) == Bytes({k \in Items : k <= i}) + CursorBytes <= MaxBytes
Fitting == {i \in Items : \E k \in Items : i <= k /\ Fits(k)}

-----------------------------------------------------------------------------
(* The device, and what happens between its pages.                         *)

\* The last page, which may be empty.
LastPage ==
  /\ ~HasMore
  /\ got' = Append(got, Items)
  /\ reading' = "done"
  /\ UNCHANGED cursor

\* Another one is to follow.
FullPage ==
  /\ HasMore /\ ~Refuses
  /\ Items # {} => Fitting # {}
  /\ got' = Append(got, Fitting)
  /\ cursor' = IF Fitting = Items THEN NextCursor ELSE Max(Fitting)
  /\ UNCHANGED reading

\* QuotaExceeded.
Refused ==
  /\ \/ Refuses
     \/ HasMore /\ Items # {} /\ Fitting = {}
  /\ reading' = "refused"
  /\ UNCHANGED <<cursor, got>>

Ask ==
  /\ reading = "on"
  /\ LastPage \/ FullPage \/ Refused
  /\ UNCHANGED <<turns, archived, asked, late>>

Accept(turn) ==
  /\ reading = "on" /\ Len(turns) < MaxTurns
  /\ turns' = Append(turns, turn)
  /\ UNCHANGED <<archived, asked, cursor, got, reading, late>>

Archive(i) ==
  /\ reading = "on" /\ i \in DOMAIN turns \ archived
  /\ archived' = archived \cup {i}
  /\ UNCHANGED <<turns, asked, cursor, got, reading, late>>

Becomes(i, turn) ==
  /\ reading = "on"
  /\ turns' = [turns EXCEPT ![i] = turn]
  /\ late' = IF i <= cursor /\ Wanted(turn) /\ ~Wanted(turns[i]) THEN late \cup {i} ELSE late
  /\ UNCHANGED <<archived, asked, cursor, got, reading>>

\* commit_asr_result: the audio among its parts is transcribed.
Transcribed(i, bytes) ==
  /\ turns[i].spoken /\ ~turns[i].said
  /\ Becomes(i, [turns[i] EXCEPT !.said = TRUE, !.bytes = bytes])

\* commit_route: until then a turn of a device is in no project.
Routed(i) ==
  /\ ~turns[i].placed
  /\ Becomes(i, [turns[i] EXCEPT !.placed = TRUE])

\* A FINAL comes, or its content goes with the acknowledgement.
Reworded(i, bytes) ==
  /\ bytes # turns[i].bytes
  /\ Becomes(i, [turns[i] EXCEPT !.bytes = bytes])

Next ==
  \/ Ask
  \/ \E turn \in Fresh : Accept(turn)
  \/ \E i \in DOMAIN turns :
       \/ Archive(i) \/ Routed(i)
       \/ \E bytes \in Sizes : Transcribed(i, bytes) \/ Reworded(i, bytes)

Spec == Init /\ [][Next]_vars

\* A device that keeps asking.
Reading == Spec /\ WF_vars(Ask)

-----------------------------------------------------------------------------
(* Properties.                                                             *)

\* The cursor loses nothing: every turn asked for that was not archived has been
\* received once the cursor, or the end, is past it, however the filters, the
\* limits on a page and newer turns cut the pages, and whatever becomes of the
\* turns: but for those that only came to be asked for behind the cursor.
NothingSkipped ==
  \A i \in DOMAIN turns \ (archived \cup late) :
    Wanted(turns[i]) /\ (i <= cursor \/ reading = "done") => \E n \in DOMAIN got : i \in got[n]

\* And there are such turns only where audio is asked for, which a typed turn with
\* audio becomes with its transcript, or one project, which a turn is in when it
\* is routed: who asks for all turns, or for those of another type, misses none.
LateOnlyByChange == late # {} => asked.type = "audio" \/ asked.project

\* Every turn is received once, in the order of acceptance.
InOrder ==
  \A m, n \in DOMAIN got : m < n => \A i \in got[m], k \in got[n] : i < k

\* A reader comes to an end, also when a filter matches nothing for so long
\* that a page inspects all the rows it may and returns none.
ReadingEnds == <>(reading # "on")

=============================================================================
