----------------------------- MODULE TurnUpload -----------------------------
(***************************************************************************)
(* The upload of a turn (PartUpload) with the pages of the chunks that are *)
(* still to be sent (MissingPages), and what the two are to count right.   *)
(***************************************************************************)
EXTENDS PartUpload

CONSTANTS Expected, Limits
VARIABLES have, progress, asking, offset, reported, arrived, round

\* missing_sequence_page refuses any other total_chunks and limit.
ASSUME PageConstants == Expected \in Nat /\ Limits \subseteq Nat \ {0}

Paging == INSTANCE MissingPages

\* Sums stay in their limits while uploads race, and the pages of the missing
\* chunks agree in both encodings and hide no more than the arrivals explain.
CountsAreTrue ==
  /\ Paging!TypeOK /\ LimitsHold
  /\ Paging!EncodingsAgree /\ Paging!HidesOnePerArrival

=============================================================================
