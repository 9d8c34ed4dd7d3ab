----------------------------- MODULE MissingPages -----------------------------
(***************************************************************************)
(* How a device finds out which chunks of a part are still to be sent, in  *)
(* recorder_next/store.py: missing_sequences, and missing_sequence_page    *)
(* with its offset into the missing chunks, or into the runs of them, of   *)
(* the moment, while the chunks it reports arrive.                         *)
(*                                                                         *)
(* The device is modelled from what the pages offer it: it follows         *)
(* next_offset, may send what was reported at any time, and starts over    *)
(* when it has come to the end and something was missing.                  *)
(***************************************************************************)
EXTENDS Integers, FiniteSets

CONSTANTS
  Expected,   \* total_chunks
  Limits      \* sizes of page the device may ask for

VARIABLES
  have,      \* turn_chunks of the part
  progress,  \* turn_parts: open, complete, or removed (source_deleted_at of an audio part)
  asking,    \* the request the device repeats: encoding, limit, and whether it says total_chunks
  offset,    \* where its next page begins
  reported,  \* chunks reported to be missing, in this round
  arrived,   \* chunks that arrived since the round began
  round      \* on, or done: total_missing was 0

vars == <<have, progress, asking, offset, reported, arrived, round>>

Chunks == 0 .. Expected - 1

TypeOK ==
  /\ have \subseteq Chunks
  /\ progress \in {"open", "complete", "removed"}
  /\ asking \in [encoding: {"list", "ranges"}, limit: Limits, total: BOOLEAN]
  /\ offset \in 0 .. Expected
  /\ reported \subseteq Chunks /\ arrived \subseteq Chunks
  /\ round \in {"on", "done"}

Init ==
  /\ have \in SUBSET Chunks /\ progress = "open"
  /\ asking \in [encoding: {"list", "ranges"}, limit: Limits, total: BOOLEAN]
  /\ offset = 0 /\ reported = {} /\ arrived = {} /\ round = "on"

-----------------------------------------------------------------------------
(* What a page is made of.                                                 *)

\* How many chunks there should be is known from the request, or from the row
\* of a part that was complete once.
Known == asking.total \/ progress # "open"

\* missing_sequences: nothing, as long as nobody knows.
Missing == IF ~Known THEN {} ELSE Chunks \ have

\* Where a run of missing chunks begins, and how far it goes.
Begins(n) == n \notin have /\ (n = 0 \/ n - 1 \in have)

RunFrom(n) == {m \in n .. Expected - 1 : n .. m \cap have = {}}

Runs == {n \in Missing : Begins(n)}

\* A page has entries of one chunk or of one run, here named by the chunk they
\* begin with; nothing is missing of a part whose audio was removed.
Units ==
  IF progress = "removed" THEN {}
  ELSE IF asking.encoding = "ranges" THEN Runs ELSE Missing

Covers(n) == IF asking.encoding = "ranges" THEN RunFrom(n) ELSE {n}

\* The offset of an entry: how many come before it.
Rank(n) == Cardinality({m \in Units : m < n})

Page == {n \in Units : offset <= Rank(n) /\ Rank(n) < offset + asking.limit}

\* next_offset, -1 at the end.
NextOffset ==
  LET consumed == offset + Cardinality(Page)
  IN  IF consumed < Cardinality(Units) THEN consumed ELSE -1

-----------------------------------------------------------------------------
(* The device.                                                             *)

Reports == UNION {Covers(n) : n \in Page}

\* A page that is not the last.
AskOn ==
  /\ round = "on" /\ NextOffset # -1
  /\ reported' = reported \cup Reports
  /\ offset' = NextOffset
  /\ UNCHANGED <<have, progress, asking, arrived, round>>

\* The last page: the round begins again, unless nothing is missing.
AskLast ==
  /\ round = "on" /\ NextOffset = -1
  /\ reported \cup Reports \subseteq have \/ progress # "open"
  /\ offset' = 0 /\ reported' = {} /\ arrived' = {}
  /\ round' = IF Units = {} THEN "done" ELSE "on"
  /\ UNCHANGED <<have, progress, asking>>

\* The last page reports, or an earlier one did, what is still to be sent.
AskEnd ==
  /\ round = "on" /\ NextOffset = -1 /\ ~(Reports \subseteq reported)
  /\ reported' = reported \cup Reports
  /\ UNCHANGED <<have, progress, asking, offset, arrived, round>>

\* put_chunk of a chunk that was reported.
Send(n) ==
  /\ n \in reported \ have /\ progress = "open"
  /\ have' = have \cup {n} /\ arrived' = arrived \cup {n}
  /\ UNCHANGED <<progress, asking, offset, reported, round>>

\* finish_part, and the removal of the audio with its chunk rows once it has
\* been transcribed.
Finish ==
  /\ progress = "open" /\ have = Chunks
  /\ progress' = "complete"
  /\ UNCHANGED <<have, asking, offset, reported, arrived, round>>

DeleteAudio ==
  /\ progress = "complete"
  /\ progress' = "removed" /\ have' = {}
  /\ UNCHANGED <<asking, offset, reported, arrived, round>>

Next == AskOn \/ AskLast \/ AskEnd \/ Finish \/ DeleteAudio \/ \E n \in Chunks : Send(n)

Spec == Init /\ [][Next]_vars

\* A device that goes on asking, and sends what it was told.
Sending ==
  /\ Spec
  /\ WF_vars(AskOn \/ AskLast \/ AskEnd)
  /\ \A n \in Chunks : WF_vars(Send(n))

-----------------------------------------------------------------------------
(* Properties.                                                             *)

\* The two encodings and missing_sequences say the same, and runs are maximal.
EncodingsAgree ==
  /\ UNION {RunFrom(n) : n \in Runs} = Missing
  /\ \A m, n \in Runs : m < n => \A a \in RunFrom(m), b \in RunFrom(n) : a + 1 < b

\* The entries a round has passed over without reporting them.
Passed == {n \in Units : Rank(n) < offset /\ ~(Covers(n) \subseteq reported)}

\* Chunks that arrive between pages move the rest forward, past an offset the
\* device already has, but each hides no more than one entry of the list.
HidesOnePerArrival == Cardinality(Passed) <= Cardinality(arrived)

\* The upload ends: in rounds, every chunk is asked for and sent, whatever the
\* arrivals of one round hid from it.  A device that does not say how many there
\* are is told at once that nothing is missing.
EverythingSent ==
  <>(round = "done" /\ (asking.total => have = Chunks \/ progress = "removed"))

=============================================================================
