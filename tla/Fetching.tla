------------------------------ MODULE Fetching ------------------------------
(***************************************************************************)
(* What a device fetches: the published files (UpdateFeed) and the turns   *)
(* of the history, page by page (HistoryPages).                            *)
(***************************************************************************)
EXTENDS UpdateFeed, Sequences

CONSTANTS
  Tables, Fresh, Sizes, MaxTurns, Kinds, AnyType, Filters,
  Limit, MaxRows, MaxParts, MaxBytes, CursorBytes

VARIABLES turns, archived, asked, cursor, got, reading, late

History == INSTANCE HistoryPages

\* A page has room for a turn, and a scan for a row.
ASSUME HistoryConstants ==
  /\ Tables \subseteq History!Table
  /\ Fresh \subseteq History!Turn /\ Sizes \subseteq Nat
  /\ Filters \subseteq [type: Kinds \cup {AnyType}, project: BOOLEAN] /\ AnyType \notin Kinds
  /\ Limit \in Nat \ {0} /\ MaxRows \in Nat \ {0}

\* A reader of the history misses nothing that was there to be read when its
\* cursor came by, and reads in order.
NothingMissed ==
  History!TypeOK /\ History!NothingSkipped /\ History!LateOnlyByChange /\ History!InOrder

=============================================================================
