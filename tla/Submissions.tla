----------------------------- MODULE Submissions -----------------------------
(***************************************************************************)
(* What Recorder submits to Hermes: the segments of an eavesdrop session   *)
(* (Eavesdrop), and a turn (HermesWire).  Both come to the same gateway    *)
(* code with their Idempotency-Key; neither looks at the other.            *)
(***************************************************************************)
EXTENDS Eavesdrop

CONSTANTS
  TurnAttempts,   \* hermes_max_attempts, of the job of the turn and of its row
  Posts,          \* max_submit_attempts
  MaxRuns,        \* bound of HermesWire
  WireFaults      \* bound of HermesWire

VARIABLES jobs, ingress, binding, answer, gateway, work, mishaps
wire == <<jobs, ingress, binding, answer, gateway, work, mishaps>>

Wire == INSTANCE HermesWire WITH
  Attempts <- TurnAttempts, MaxFaults <- WireFaults,
  row <- ingress, bound <- binding, faults <- mishaps

\* HttpHermesGateway refuses fewer than one attempt.
ASSUME WireConstants ==
  /\ TurnAttempts \in Nat /\ Posts \in Nat \ {0}
  /\ MaxRuns \in Nat /\ WireFaults \in Nat

-----------------------------------------------------------------------------
(* Properties.                                                             *)

\* AnsweredByOneRun of HermesWire: a turn is answered by the one run its
\* submission is bound to, and neither the binding nor the answer changes.
AnsweredByOneRun == Wire!AnsweredByOneRun

=============================================================================
