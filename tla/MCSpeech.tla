------------------------------ MODULE MCSpeech ------------------------------
(***************************************************************************)
(* Speech for TLC.  A behaviour is one of five: a tts job of the worker    *)
(* queue that runs alone, with late timestamps and no deadline or expiry   *)
(* to fall back on (WorkerJobs); the audio of one answer, with two results *)
(* of generation and two acknowledgements (TtsPlayback); one artifact,     *)
(* long chains and every way a call of a provider can end, or three        *)
(* artifacts and restarts with one chain (ProviderChain); one recording    *)
(* and three providers of which one is missing (AsrFallback).              *)
(***************************************************************************)
EXTENDS Speech, TLC

CONSTANTS ttsJob, w1, w2, recorderWorker, x1, x2, c1, c2

OneJob == {ttsJob}
TwoWorkers == {w1, w2}
OneOwner == {recorderWorker}
SameOwner == [w \in TwoWorkers |-> recorderWorker]
TwoAttempts == [j \in OneJob |-> 2]
NoDeadline == [j \in OneJob |-> NoTime]
NoExpiry == [j \in OneJob |-> NoTime]
NoFollowUp == [j \in OneJob |-> NoJob]

TwoResults == {x1, x2}
TwoCallers == {c1, c2}

Vocabulary == INSTANCE MCProviderChain WITH
  N <- 1, Chains <- {}, Outcomes <- {}, Budget <- 0, MaxAttempts <- 0, MaxRestarts <- 0
ThreeChains == Vocabulary!LongChain \cup Vocabulary!OneChain
AnyAnswer == Vocabulary!AnyAnswer

ThreeProviders == <<"realtime", "batch", "local">>
TwoOfThree == {"realtime", "local"}

\* Which of the five it is; the others rest.
VARIABLE part
all == <<part, vars, playback, chain, fallback>>
ChainRests == Chain!Init /\ config = <<1, 0>>

InJob(A) == part = "job" /\ A /\ UNCHANGED <<part, playback, chain, fallback>>
InAudio(A) == part = "audio" /\ A /\ UNCHANGED <<part, vars, chain, fallback>>
InChain(A) == part \in {"calls", "restarts"} /\ A /\ UNCHANGED <<part, vars, playback, fallback>>
InCalls(A) ==
  /\ part = "calls" /\ InChain(A)
  /\ config' \in Vocabulary!LongChain /\ restarts' < 2
  /\ \A a \in 2 .. Spoken : art'[a] = "NONE"
InRestarts(A) == part = "restarts" /\ InChain(A) /\ config' \in Vocabulary!OneChain
InFallback(A) == part = "fallback" /\ A /\ UNCHANGED <<part, vars, playback, chain>>

\* The fairness of the parts: FairSpec of WorkerJobs, FairSpec of TtsPlayback,
\* Working of ProviderChain and AsrSpec of AsrFallback, an action of each taken
\* together where the fairness is of one kind: only one of the parts moves.
PartsGoOn ==
  /\ WF_all(\/ InJob(Tick)
            \/ InAudio(Playback!TaskGoesOn)
            \/ InRestarts(Chain!Work)
            \/ InFallback(\E w \in Worker : Fallback!Claim(w)))
  /\ WF_all(\/ InJob(\E w \in Worker : Claim(w))
            \/ InAudio(\E r \in Playback!Receipt : Playback!LeaseRunsOut(r))
            \/ InRestarts(Chain!Reconcile)
            \/ InFallback(Fallback!Lapses /\ Fallback!At(asrJob.by, "idle")))
  /\ \A w \in Worker : WF_all(InJob(Finish(w)) \/ InFallback(Fallback!Handler(w)))
  /\ \A a \in Chain!Artifacts :
       /\ SF_all(InRestarts(Chain!Claim(a)) \/ InAudio(Playback!RecoverAll))
       /\ WF_all(InRestarts(Chain!RecoverLease(a)))
  /\ <>[][part = "audio" => ~Playback!Fault]_all

PartInit ==
  /\ \/ part \in {"job", "audio", "fallback"} /\ ChainRests
     \/ part = "calls" /\ Chain!Init /\ config \in Vocabulary!LongChain
     \/ part = "restarts" /\ ChainRests
  /\ Init /\ Playback!Init /\ Fallback!Init
  /\ part # "fallback" => recording.taken

SpeechSpec ==
  /\ PartInit
  /\ [][\/ InJob(Next)
        \/ InAudio(Playback!Next)
        \/ InCalls(Chain!Next)
        \/ InRestarts(Chain!Next)
        \/ InFallback(Fallback!AsrNext)]_all
  /\ PartsGoOn

\* Audio that was played or expired goes (AudioGoes of TtsPlayback).
AudioGoes == part = "audio" => Playback!AudioGoes

\* With one chain for good, every artifact comes to an end (ArtifactsEnd of
\* ProviderChain).
ArtifactsEnd == <>[](part = "restarts" => Chain!AllEnded)

\* Every recording is answered (AsrFallback).
RecordingsAnswered == part = "fallback" => Fallback!RecordingsAnswered

\* Every job settles, every file goes in the end, every artifact comes to one,
\* every recording is answered.
SpeechEnds == EveryJobSettles /\ AudioGoes /\ ArtifactsEnd /\ RecordingsAnswered

=============================================================================
