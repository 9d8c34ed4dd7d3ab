-------------------------------- MODULE Speech --------------------------------
(***************************************************************************)
(* Speech, both ways: the tts jobs of the worker queue (WorkerJobs), the   *)
(* audio of one answer from its generation to its playback or expiry       *)
(* (TtsPlayback), the chain of providers that synthesises it              *)
(* (ProviderChain), and the providers a recording is given to one after    *)
(* the other (AsrFallback).  Each is a model of its own; what is promised  *)
(* of speech is promised of all of them together.                          *)
(***************************************************************************)
EXTENDS WorkerJobs, Sequences

CONSTANTS
  Audio, Caller, None,  \* TtsPlayback
  Spoken,               \* artifacts a chain synthesises, 1 .. Spoken
  Chains,               \* the chains the process may be started with
  CallEnds,             \* what a call of a provider may come to
  CallTime,             \* overall_deadline_seconds of a chain
  SpeechAttempts,       \* max_attempts of a tts job
  ChainStarts,          \* bound of ProviderChain
  Order, Configured,    \* AsrFallback
  AsrAttempts,          \* max_attempts of an asr job
  AsrFaults             \* bound of AsrFallback

VARIABLES spoken, played, disk, receipt, task, call
playback == <<spoken, played, disk, receipt, task, call>>

Playback == INSTANCE TtsPlayback WITH artifact <- spoken, journal <- played

VARIABLES config, art, job, run, refused, restarts
chain == <<config, art, job, run, refused, restarts>>

Chain == INSTANCE ProviderChain WITH
  N <- Spoken, Outcomes <- CallEnds, Budget <- CallTime, MaxAttempts <- SpeechAttempts,
  MaxRestarts <- ChainStarts

VARIABLES recording, asked, asrJob, hearer, mishaps
fallback == <<recording, asked, asrJob, hearer, mishaps>>

Fallback == INSTANCE AsrFallback WITH
  Attempts <- AsrAttempts, MaxFaults <- AsrFaults,
  turn <- recording, journal <- asked, job <- asrJob, worker <- hearer, faults <- mishaps

\* "provider chain must have one usable target"; a provider answers, is not
\* reached, or fails in one of the ways _provider_failure_for_http and _request
\* know.
ASSUME ChainConstants ==
  /\ Spoken \in Nat /\ CallTime \in Nat /\ SpeechAttempts \in Nat \ {0} /\ ChainStarts \in Nat
  /\ Chains \subseteq Seq(Nat) \ {<<>>}
  /\ CallEnds \subseteq {Chain!Good, Chain!Timeout, Chain!Framing, Chain!TooLarge, Chain!Invalid,
                        Chain!Raised, Chain!NoAudioRoute, Chain!Unreached}
                       \cup {Chain!OfStatus(code) : code \in 400 .. 599}

ASSUME FallbackConstants ==
  /\ Order \in Seq(STRING) /\ AsrAttempts \in Nat /\ AsrFaults \in Nat
  /\ Fallback!Nobody \notin Worker

SpeechTyped == TypeOK /\ Playback!TypeOK /\ Chain!TypeOK /\ Fallback!TypeOK

\* Every step of every part, whatever the others do.
SpeechSafety == Spec /\ Playback!Spec /\ Chain!Spec /\ Fallback!AsrSafety

-----------------------------------------------------------------------------
(* Properties.                                                             *)

\* Artifact, journal, job and file agree: NoOrphanArtifact of WorkerJobs,
\* RetentionIsTrue and JournalAgrees of TtsPlayback.
SpeechIsTrue ==
  SpeechTyped /\ NoOrphanArtifact /\ Playback!RetentionIsTrue /\ Playback!JournalAgrees

\* Targets are asked in their order and no more often than allowed, and the
\* artifact ends with its job; so with the providers of a recording, whose job
\* does not succeed unheard.
ChainsAgree ==
  /\ Chain!InDeclaredOrder /\ Chain!EndTogether
  /\ Fallback!AskedInOrder /\ Fallback!SuccessIsHeard

\* Audio that is ready survives the failure of its job, an ended artifact, a
\* refusal and what was heard stay.
EndingsStay ==
  ReadyAudioSurvives /\ Playback!EndedStays /\ Chain!RefusedIsFinal /\ Fallback!HeardStays

=============================================================================
